SPECIFICATION FairSpec
CONSTANTS
  a1 = a1
  c1 = c1
  Actions <- OneAction
  Connections <- OneConnection
  ConnectionOf <- SharedConnection
  Reconcilable <- OneAction
  Dispatchers = {"d1"}
  MaxAttempts = 2
  MaxDailyActions = 1
  MaxChecks = 1
INVARIANTS
  TypeOK
  AtMostOneMutation
  SettledIsTrue
  DeliveredHasWorkflow
PROPERTIES
  NoAccessOffline
  FollowsLifecycle
  KeepsPromise
  ApprovedIsSettled
CHECK_DEADLOCK FALSE
