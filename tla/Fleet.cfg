SPECIFICATION Spec
CONSTANTS
  None = None
  oldWorker = oldWorker
  newWorker = newWorker
  oldPublication = oldPublication
  newPublication = newPublication
  latestPublication = latestPublication
  oldRevision = oldRevision
  newRevision = newRevision
  Workers = {oldWorker, newWorker}
  first = first
  second = second
  Work = {first, second}
  Tasks = {task}
  Publications = {oldPublication, newPublication, latestPublication}
  Revisions = {oldRevision, newRevision}
  WorkerRevision <- RevisionOfWorker
  PublicationRevision <- RevisionOfPublication
  RollbackTarget <- Predecessor
CONSTRAINT
  SecondRowFirst
INVARIANTS
  TypeOK
  SelectionIsPublished
PROPERTIES
  DrainIsFinal
  ControlSuitsFleet
CHECK_DEADLOCK FALSE
