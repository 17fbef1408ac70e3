SPECIFICATION ServicesSpec
CONSTANTS
  QueueSize = 3
  MaxLen = 3
  Printers = {"ptp"}
  DhcpPbufs = {"p1", "p2", "p3"}
  DhcpClients = {"c1", "c2"}
  ServerThreads = {"t1"}
  NoBuf = "none"
  MaxDhcpTries = 4
  CountMax = 6
  SeqMod = 6
  Count = 2
  HttpClients = {"a", "b", "c"}
  NetConns = 4
  MaxResets = 2
INVARIANTS FullQueueDrains NothingStranded DhcpRepliesSafe
PROPERTIES DhcpAnswers AddressObtained PingAnswered Served
CHECK_DEADLOCK FALSE
