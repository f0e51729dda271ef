SPECIFICATION SpecWatched
CONSTANTS
  None = None
  Capabilities = {"email_read", "calendar_read"}
  Resources = {r1, r2}
  Callers = {c1, c2}
  MaxAttempts = 2
  MaxSubscriptions = 3
  MaxChanges = 2
  MaxEvents = 2
  MaxGeneration = 2
  MaxTroubles = 1
SYMMETRY
  Alike
CONSTRAINT
  FewComplications
INVARIANTS
  TypeOK
  CursorIsHonest
  SettledIsSynced
  WatchIsKept
PROPERTIES
  NeverGoesBack
  RevokedIsFrozen
CHECK_DEADLOCK FALSE
