SPECIFICATION Spec
CONSTANTS
  draft = draft
  bare = bare
  planner = planner
  acme = acme
  beta = beta
  Calls = {bare, planner}
  Keys = {bare}
  KeyOf <- OneKey
  Accounts = {acme, beta}
  AccountOf <- SharedAccount
  Drafts = {}
  Bare = {bare, planner}
  Reserved <- Estimates
  Reports = {0, 1}
  MaxCalls = 1
  MaxCallsPerAccount = 1
  MaxTokens = 5
  MaxTokensPerAccount = 3
  DailyBudget = 4
  AccountBudget = 3
  LastDay = 0
INVARIANTS
  InFlightBounded
CHECK_DEADLOCK FALSE
