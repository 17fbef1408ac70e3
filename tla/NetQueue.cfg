SPECIFICATION Spec
CONSTANTS
  Pbufs = {p1, p2, p3, p4, p5}
  Size = 4
  MboxSize = 2
  NoBuf = NoBuf
SYMMETRY PbufSymmetry
VIEW LiveView
INVARIANTS QueueOwnership NoLeak NoLostWakeup
PROPERTIES FifoRefinement
