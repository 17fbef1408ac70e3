-------------------------- MODULE MCPtpPortConfigs --------------------------
(* The port under three other configurations than that of run PtpPort, one   *)
(* of which is chosen at the start: a slave-only clock, a peer-to-peer clock *)
(* of class below 128, and an ordinary clock with a table of three that      *)
(* hears of three grandmasters over six paths.  Each is an instance of       *)
(* PtpPortProofs, which is PtpPort with what is proved of it.                *)
EXTENDS Integers, MCMessages

CONSTANT SeqIds

\* The sequence numbers that the messages carry.
ASSUME SeqIdsGiven == {0, 1} \subseteq SeqIds

VARIABLES config, clk, pc, firing, hist

OnlySlaveClock == INSTANCE PtpPortProofs WITH
  OwnClock <- 3, OwnQuality <- OnlySlave, SlaveOnly <- TRUE, Capacity <- 2, Messages <- PortMessages, P2P <- FALSE
PassiveClock == INSTANCE PtpPortProofs WITH
  OwnClock <- 3, OwnQuality <- GradeA, SlaveOnly <- FALSE, Capacity <- 2, Messages <- PassiveMessages, P2P <- TRUE
PathsClock == INSTANCE PtpPortProofs WITH
  OwnClock <- 3, OwnQuality <- Ordinary, SlaveOnly <- FALSE, Capacity <- 3, Messages <- PathMessages, P2P <- FALSE

ConfigInit ==
  \/ config = "slaveOnly" /\ OnlySlaveClock!Init
  \/ config = "passive" /\ PassiveClock!Init
  \/ config = "paths" /\ PathsClock!Init

ConfigNext ==
  /\ \/ config = "slaveOnly" /\ OnlySlaveClock!Next
     \/ config = "passive" /\ PassiveClock!Next
     \/ config = "paths" /\ PathsClock!Next
  /\ UNCHANGED config

ConfigSpec == ConfigInit /\ [][ConfigNext]_<<config, clk, pc, firing, hist>>

\* A clock that is slave-only is never master or passive: neither the announce receipt
\* timeout nor bmcStateDecision nor a fault takes it there.
SlaveOnlyStaysSlave == config = "slaveOnly" => OnlySlaveClock!SlaveOnlyNeverMaster

\* A peer-to-peer clock that becomes passive instead of slave runs exactly the timers
\* of its state, the peer delay timer among them, along every path of toState.
PassiveTimersMatch == config = "passive" => PassiveClock!TimersMatchState

\* Which of three grandmasters bmc chooses does not depend on the order in which the
\* Announce messages arrived, that is on the slots addForeign gave them.
PathsOrderIndependent == config = "paths" => PathsClock!OrderIndependent

\* Histories matter only where a property reads them.
ConfigView == <<config, clk, pc, firing, hist.calibratedBy>>
=============================================================================
