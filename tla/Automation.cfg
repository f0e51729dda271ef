SPECIFICATION SpecRunning
CONSTANTS
  None = None
  Occurrences = {o1, o2, o3}
  First = o1
  Callers = {c1, c2}
  Profiles = {"event", "meeting", "deadline", "reminder"}
  MaxRevision = 3
  MaxTroubles = 1
SYMMETRY
  OthersAlike
CONSTRAINT
  WorthExploring
INVARIANTS
  TypeOK
  OneRunEach
  BufferHoldsOne
CHECK_DEADLOCK FALSE
