SPECIFICATION Spec
CONSTANTS
  Users = {u1, u2}
  Groups = {g1}
  GroupClients = {a1}
  MaxTrail = 0
  ExpenseIds = {1}
  SettlementIds = {}
  AdjustmentIds = {1, 2}
  Amounts = {1}
  Parts = {1}
  Currencies = {RUB}
  Clients = {c1, c2}
  Readers = {}
  MaxVersion = 2
SYMMETRY Symmetry
INVARIANTS
  AllocationsBalance
  AdjustmentsFit
PROPERTIES
  NoLostUpdate
  ImplementsRecords
