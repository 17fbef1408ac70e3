----------------------------- MODULE MCPtpPort ------------------------------
(* Instances of PtpPort for TLC, with the messages of MCMessages.            *)
EXTENDS PtpPort, MCMessages

\* Histories matter only where a property reads them.
PortView == <<clk, pc, firing, hist.calibratedBy>>
=============================================================================
