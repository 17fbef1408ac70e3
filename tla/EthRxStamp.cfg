SPECIFICATION Spec
CONSTANTS
  Descriptors = 2
  PoolSize = 4
  Freers = {tcpip, ptp}
  QueueSize = 2
INVARIANT OwnStamp
