SPECIFICATION Spec
CONSTANTS
  OwnClock = 3
  OwnQuality <- Ordinary
  SlaveOnly = FALSE
  Capacity = 2
  Messages <- PortMessages
  SeqIds = {0, 1}
  P2P = FALSE
VIEW PortView
INVARIANTS TypeOK TimersMatchState TableWellFormed BestInTable ParentMatchesRole
  SlaveIsCalibrated ServoEventsFresh InitializesOnce
