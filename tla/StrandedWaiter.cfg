SPECIFICATION Spec
CONSTANTS
  c1 = c1  c2 = c2  c3 = c3  h1 = h1  h2 = h2
  Operator = operator
  None = none
  NoRoom = noroom
  Conns = {c1, c2}
  Names = {m, n}
  Rooms = {general}
  DefaultRoom = general
  Recovered = {}
  Hosts = {h1}
  HostOf <- OneHost
  Cap = 1
  Admins = {}
  Inputs = {"quit", "hangup"}
SYMMETRY Symmetry
INVARIANTS NoStrandedWaiter
