----------------------------- MODULE MCServices -----------------------------
(* What runs beside the PTP daemon: the console's serial port (module Uart), *)
(* the DHCP server and its search of the options (DhcpServer, DhcpOptions),  *)
(* the thread that gets the interface its address (DhcpClient), the ping     *)
(* command (Ping) and the HTTP server (HttpServer).                          *)
(* They share no state: one of them is chosen at the start and runs, and the *)
(* variables of the others keep their initial values.                        *)
EXTENDS Uart

CONSTANTS
  DhcpPbufs, DhcpClients, ServerThreads, NoBuf,                        \* DhcpServer
  MaxDhcpTries, CountMax,                                              \* DhcpClient
  SeqMod, Count,                                                       \* Ping
  HttpClients, NetConns, MaxResets                                     \* HttpServer

VARIABLES
  part,                                                                \* which of them runs
  held, content, slot, pendingAddr, sem, serverPc, msg,                \* DhcpServer
  before, type, i, dhcpType, done,                                     \* DhcpOptions
  DHCP_state, clientPc, dhcp, tries, ip,                               \* DhcpClient
  result, seqNum, pingPc, left, inFlight, acceptedSeq, foreignEaten,   \* Ping
  open, backlog, data, reset, resets, serving, written, lost           \* HttpServer

serverVars == <<held, content, slot, pendingAddr, sem, serverPc, msg>>
optionVars == <<before, type, i, dhcpType, done>>
clientVars == <<DHCP_state, clientPc, dhcp, tries, ip>>
pingVars == <<result, seqNum, pingPc, left, inFlight, acceptedSeq, foreignEaten>>
httpVars == <<open, backlog, data, reset, resets, serving, written, lost>>

Server == INSTANCE DhcpServer WITH
  Pbufs <- DhcpPbufs, Clients <- DhcpClients, Threads <- ServerThreads, pc <- serverPc
Options == INSTANCE DhcpOptions WITH
  Codes <- {12, 61}, OptionLengths <- {1, 4, 7}, Data <- {1, 53}, MaxBefore <- 2, MsgLen <- 276
Client == INSTANCE DhcpClient WITH pc <- clientPc
Pinger == INSTANCE Ping WITH pc <- pingPc
Http == INSTANCE HttpServer WITH Clients <- HttpClients

ASSUME ServerAssumption == Server!NoBufAssumption
ASSUME OptionsGiven == Options!OptionsAssumption
ASSUME ClientGiven == Client!ClientAssumption
ASSUME PingGiven == Pinger!PingAssumption
ASSUME HttpGiven == Http!HttpAssumption

\* The parts with several initial states have one of them when they do not run.
ServicesInit ==
  /\ part \in {"uart", "server", "options", "client", "ping", "http"}
  /\ Init
  /\ Server!Init
  /\ part # "server" =>
       /\ pendingAddr = CHOOSE c \in DhcpClients : TRUE
       /\ \A p \in DhcpPbufs : content[p].from = pendingAddr
  /\ Options!Init
  /\ part # "options" => before = <<>> /\ type = 1
  /\ Client!Init
  /\ part # "client" => DHCP_state = "LINK_DOWN"
  /\ Pinger!Init
  /\ Http!Init

OfUart(A) == part = "uart" /\ A /\ UNCHANGED <<serverVars, optionVars, clientVars, pingVars, httpVars>>
OfServer(A) == part = "server" /\ A /\ UNCHANGED <<vars, optionVars, clientVars, pingVars, httpVars>>
OfOptions(A) == part = "options" /\ A /\ UNCHANGED <<vars, serverVars, clientVars, pingVars, httpVars>>
OfClient(A) == part = "client" /\ A /\ UNCHANGED <<vars, serverVars, optionVars, pingVars, httpVars>>
OfPing(A) == part = "ping" /\ A /\ UNCHANGED <<vars, serverVars, optionVars, clientVars, httpVars>>
OfHttp(A) == part = "http" /\ A /\ UNCHANGED <<vars, serverVars, optionVars, clientVars, pingVars>>

ServicesNext ==
  /\ \/ OfUart(Next)
     \/ OfServer(Server!Next)
     \/ OfOptions(Options!Next)
     \/ OfClient(Client!Next)
     \/ OfPing(Pinger!Next)
     \/ OfHttp(Http!Next)
  /\ UNCHANGED part

runVars == <<vars, serverVars, optionVars, clientVars, pingVars, httpVars>>

\* The fairness each module states for itself, asked of the part that runs: an action of
\* another part can never be taken, and must not count as enabled.  Conditions of several
\* parts are stated as one where that says the same, since only one of the parts runs.
ServicesFairness ==
  /\ \A t \in ServerThreads :
       WF_runVars(\/ OfServer(Server!Server(t))
                  \/ OfOptions(Options!Next)
                  \/ OfClient(Client!Thread)
                  \/ OfPing(Pinger!DoPing)
                  \/ OfHttp(Http!Server))
  /\ WF_runVars(OfClient(Client!Timeout))
  /\ \A c \in HttpClients : WF_runVars(OfHttp(Http!Send(c)))

ServicesSpec == ServicesInit /\ [][ServicesNext]_<<part, runVars>> /\ ServicesFairness

\* The DHCP server never works on a buffer that has been freed, although dhcp_recv_cb may
\* replace pending_buf at any time; it never waits while something is pending that its
\* semaphore does not announce; and a reply goes to another client than the one it answers
\* only if a newer packet has replaced the one being answered.
DhcpRepliesSafe ==
  Server!TypeOK /\ Server!NeverUsesFreed /\ Server!NoLostWakeup /\ Server!MisaddressedOnlyIfReplaced

\* Every packet left in pending_buf leaves it again, once the server thread is started,
\* unless the thread hangs in the search of a message whose type it does not find; and when
\* the message type is its first or second option, the search of dhcp_server_thread ends
\* with its value, whatever the other option is.  (With two options before the type the
\* search goes astray, and may never end.)
DhcpAnswers == Server!PendingLeaves /\ (part = "options" => Options!EarlyTypeFound)

\* With the link up at boot the interface gets an address, whatever the DHCP server and the
\* other hosts do, unless for ever offers are made and then refused by the server, or declined
\* because another host has the address: each makes lwIP's client count its tries from the
\* start.  The static address of DHCP_thread is final: the
\* client is off when the interface has it, even if an answer came between the test of tries
\* and dhcp_stop.
AddressObtained == Client!AddressObtained /\ []Client!StaticMeansStopped

\* do_ping returns, whatever is received, and reports a request as answered only if ping_recv
\* was given a packet with the number of the request or the one before it, never because of
\* an older one, however many replies, repeated, late or of other hosts, come in.
PingAnswered == Pinger!Returns /\ [](Pinger!TypeOK /\ Pinger!AnswerAtMostOneBehind)

\* An HTTP client in the backlog gets its turn, whatever happens to those before it, as long
\* as none of them stays silent or stops reading for ever; and the server never refuses every
\* connection for good, as long as fewer connections are reset than there are netconns for
\* them; each connection holds exactly one netconn.
Served == Http!Served /\ Http!KeepsAccepting /\ []Http!TypeOK
=============================================================================
