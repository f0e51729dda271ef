SPECIFICATION Spec
CONSTANTS
  None = None
  Workers = {w1, w2}
  Views = {v1, v2}
  Reasons = {"login"}
  MaxCommands = 3
  MaxAttempts = 2
CONSTRAINT
  ThirdAfterInteraction
SYMMETRY
  Alike
INVARIANTS
  TypeOK
  FrameIsFromHolder
  ClosedKeepsNothing
PROPERTIES
  KeepsPromise
  EndedIsFinal
CHECK_DEADLOCK FALSE
