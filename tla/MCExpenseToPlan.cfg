SPECIFICATION FairSpec
CONSTANTS
  Users = {1, 2, 3}
  Currencies = {1, 2}
  Requests <- AllRequests
  Confirmed <- ConfirmedRequests
  Others <- SmallOthers
  Whole = 4
  MaxInt = 7
INVARIANTS
  DividesFairly
  OrderFree
  ExactBalances
  BreakdownExplains
  PlanSettlesLedger
PROPERTIES
  ImplementsClearing
  Terminates
CHECK_DEADLOCK FALSE
