SPECIFICATION EthernetSpec
CONSTANTS
  Descriptors = 4
  PoolSize = 7
  Freers = {tcpip, ptp}
  QueueSize = 4
  TxDescriptors = 3
INVARIANTS BuffersConserved InputNotStranded
PROPERTIES EventServed GeneralStarvedOnlyByEvents DriverProgresses
