SPECIFICATION Spec
CONSTANTS
  Users = {u1, u2}
  Groups = {g1}
  GroupClients = {}
  MaxTrail = 0
  ExpenseIds = {1}
  SettlementIds = {1}
  AdjustmentIds = {1}
  Amounts = {1}
  Parts = {0, 1}
  Currencies = {RUB}
  Clients = {c1}
  Readers = {r1}
  MaxVersion = 2
SYMMETRY Symmetry
INVARIANTS
  AuditExplainsLedger
  SettledReadsWhole
  LedgerReadBounded
