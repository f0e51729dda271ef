SPECIFICATION FairSpec
CONSTANTS
  None = None
  oldWorker = oldWorker
  newWorker = newWorker
  oldPublication = oldPublication
  newPublication = newPublication
  latestPublication = latestPublication
  oldRevision = oldRevision
  newRevision = newRevision
  first = first
  second = second
  Workers = {newWorker}
  Work = {first}
  Tasks = {}
  Publications = {}
  Revisions = {newRevision}
  WorkerRevision <- RevisionOfWorker
  PublicationRevision <- RevisionOfPublication
  RollbackTarget <- Predecessor
PROPERTIES
  RetriedAfterLease
CHECK_DEADLOCK FALSE
