SPECIFICATION RequestsSpec
CONSTANTS
  u1 = u1
  u2 = u2
  g = g
  a = a
  b = b
  RUB = RUB
  Users <- MCUsers
  Groups = {g}
  ExpenseIds = {1}
  SettlementIds = {1}
  AdjustmentIds = {1}
  ExpenseInputs <- MCExpenseInputs
  SettlementInputs <- MCSettlementInputs
  AdjustmentInputs <- MCAdjustmentInputs
  Sum <- SumFunction
  Slots = {a, b}
  Workloads <- MCWorkloads
  Subscribers = {u1}
INVARIANTS
  AnswersTrue
  NotifiedAsCommitted
  RetryTakesEffectOnce
