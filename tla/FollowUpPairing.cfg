SPECIFICATION Spec
CONSTANTS
  OwnClock = 3
  OwnQuality <- Ordinary
  SlaveOnly = FALSE
  Capacity = 2
  Messages <- PairingMessages
  SeqIds = {0, 1}
  P2P = FALSE
INVARIANTS FollowUpOfSameMaster
