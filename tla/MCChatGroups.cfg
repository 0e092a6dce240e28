SPECIFICATION ChatSpec
CONSTANTS
  Users = {u1, u2, u3}
  g1 = g1
  h1 = h1
  Groups = {g1, g2}
  Chats = {h1, h2}
  GroupClients = {c1, c2}
  MaxTrail = 3
  Workloads <- MCWorkloads
SYMMETRY Symmetry
INVARIANTS
  OneOwner
  AuditExplainsGroup
  BindingsHold
PROPERTIES
  GroupRatchet
  SyncWhole
