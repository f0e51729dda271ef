SPECIFICATION SpecWatched
CONSTANTS
  None = None
  Capabilities = {"email_read"}
  Resources = {r1, r2}
  Callers = {c1}
  MaxAttempts = 2
  MaxSubscriptions = 1
  MaxChanges = 2
  MaxEvents = 1
  MaxGeneration = 1
  MaxTroubles = 1
SYMMETRY
  Alike
PROPERTIES
  EvidenceIsKept
CHECK_DEADLOCK FALSE
