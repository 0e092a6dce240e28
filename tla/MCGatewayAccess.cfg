SPECIFICATION AccessSpec
CONSTANTS
  Users = {u1, u2}
  Groups = {g1}
  GroupClients = {c1}
  MaxTrail = 2
  Deadline = 1
  InitDataTTL = 1
  SessionTTL = 1
  InviteTTL = 2
  DownloadTTL = 1
  MaxSessions = 1
  MaxInvites = 2
SYMMETRY Symmetry
INVARIANTS
  AccessLapses
PROPERTIES
  JoinedOnInvite
