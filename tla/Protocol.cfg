SPECIFICATION ProtocolSpec
CONSTANTS
  Masters = {A, B}
  SeqMax = 1
  MaxAge = 1
  TxStamps = {TRUE}
  G = 2
  MaxSec = 1
  Settings <- MixableSettings
SYMMETRY MasterSymmetry
INVARIANTS ExchangePaired SettledDelay MissedOnlyAtWrap PeerHalvesPaired TimerCommandsAgree
INVARIANTS ReadNotBehind SetExact
