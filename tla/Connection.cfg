CONSTANTS
  Channels = {"c1", "c2"}
  Ports = {8001, 8002}
  Limit = 3
  Conns <- MCConns
  Relayed = {"relay"}
  Sources = {"a", "b", "lo"}
  Source <- MCSource
  Loopback = "lo"
  MaxConns = 2
  MaxStartups = 1
  MaxSourceStartups = 1
  Closers = {"handler", "sweep", "alive"}
  MaxFrames = 1
  Focus = "a1"
  R = "relay"
  Workloads <- MCWorkloads
SPECIFICATION FairServerSpec
INVARIANTS
  ServerTypeOK
  SlotsAccounted
  NoOrphanListener
  AdmissionAccounted
  ClosedIsLast
PROPERTIES
  TeardownCompletes
  HandshakesEnd
  SweepsEnd
  ConnectionsEnd
CHECK_DEADLOCK FALSE
