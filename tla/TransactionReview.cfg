SPECIFICATION Spec
CONSTANTS
  r1 = r1
  r2 = r2
  Requests <- TwoRequests
  MaxRevision = 7
INVARIANTS
  TypeOK
  BoundToReview
  ObservationNeverBlocked
  OutcomeIsTrue
PROPERTIES
  OutcomeIsFinal
CHECK_DEADLOCK FALSE
