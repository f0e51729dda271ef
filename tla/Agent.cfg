SPECIFICATION Spec
CONSTANTS
  None = None
  Tools = {"task", "browser", "action"}
  MaxSteps = 2
  MaxCalls = 3
  MaxCycles = 3
  Threads = {t1, t2}
  MaxTroubles = 2
SYMMETRY
  ThreadsAlike
CONSTRAINT
  WorthExploring
INVARIANTS
  TypeOK
  CompletionIsHonest
  StoppedHoldsNothing
  OneDecisionEach
PROPERTIES
  EndedIsFinal
CHECK_DEADLOCK FALSE
