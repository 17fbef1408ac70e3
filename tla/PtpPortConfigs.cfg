SPECIFICATION ConfigSpec
CONSTANTS
  SeqIds = {0, 1}
VIEW ConfigView
INVARIANTS SlaveOnlyStaysSlave PassiveTimersMatch PathsOrderIndependent
