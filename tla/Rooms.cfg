SPECIFICATION Spec
CONSTANTS
  c1 = c1  c2 = c2  c3 = c3  h1 = h1  h2 = h2
  Operator = operator
  None = none
  NoRoom = noroom
  Conns = {c1, c2, c3}
  Names = {m, n, o}
  Rooms = {general, den}
  DefaultRoom = general
  Recovered = {}
  Hosts = {h1}
  HostOf <- OneHost
  Cap = 3
  Admins = {}
  Inputs = {"hangup", "switch", "create", "name", "chat", "heartbeat"}
SYMMETRY Symmetry
INVARIANTS IndexesExact NoAbandonedRoom
