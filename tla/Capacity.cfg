SPECIFICATION Spec
CONSTANTS
  draft = draft
  bare = bare
  planner = planner
  acme = acme
  beta = beta
  Calls = {draft, bare, planner}
  Keys = {draft, bare, planner}
  KeyOf <- OwnKey
  Accounts = {acme, beta}
  AccountOf <- TwoAccounts
  Drafts = {draft}
  Bare = {bare}
  Reserved <- Estimates
  Reports = {0, 3}
  MaxCalls = 2
  MaxCallsPerAccount = 2
  MaxTokens = 5
  MaxTokensPerAccount = 3
  DailyBudget = 4
  AccountBudget = 3
  LastDay = 1
INVARIANTS
  TypeOK
  InFlightBounded
  WorkIsCharged
CHECK_DEADLOCK FALSE
