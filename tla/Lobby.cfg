SPECIFICATION Spec
CONSTANTS
  c1 = c1  c2 = c2  c3 = c3  h1 = h1  h2 = h2
  Operator = operator
  None = none
  NoRoom = noroom
  Conns = {c1, c2, c3}
  Names = {m, n, o}
  Rooms = {general}
  DefaultRoom = general
  Recovered = {}
  Hosts = {h1, h2}
  HostOf <- TwoHosts
  Cap = 1
  Admins = {}
  Inputs = {"hangup", "decline", "queueban", "queuekick", "quit"}
SYMMETRY HostSymmetry
INVARIANTS TypeOK IndexesExact QueueSound OneAdmissionPerDeparture
PROPERTIES PlacesKept FirstComeFirstServed
