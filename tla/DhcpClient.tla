----------------------------- MODULE DhcpClient -----------------------------
(***************************************************************************)
(* How the interface gets its address: DHCP_thread (app/src/app_ethernet.c)*)
(* polls lwIP's DHCP client, which runs in the tcpip thread, and falls     *)
(* back to a static address after MAX_DHCP_TRIES.  User_notification sets  *)
(* the first state once, at boot; nothing reports a later change of the    *)
(* link.  The client is dhcp.c of Middlewares/LwIP, with its ARP check.    *)
(***************************************************************************)
EXTENDS Integers

CONSTANTS
  MaxDhcpTries,     \* MAX_DHCP_TRIES
  CountMax          \* bound of the client's counter of tries

ClientAssumption ==
  MaxDhcpTries \in Nat /\ CountMax \in Nat /\ MaxDhcpTries < CountMax

VARIABLES
  DHCP_state,       \* of the application
  pc,               \* where DHCP_thread is in an iteration
  dhcp,             \* the client's state, as dhcp->state
  tries,            \* dhcp->tries
  ip                \* the interface's address: "zero", "leased" or "static"

vars == <<DHCP_state, pc, dhcp, tries, ip>>

\* User_notification, with the link up or down at boot.
Init ==
  /\ DHCP_state \in {"START", "LINK_DOWN"}
  /\ pc = "poll"
  /\ dhcp = "OFF"
  /\ tries = 0
  /\ ip = "zero"

-----------------------------------------------------------------------------
(* DHCP_thread.                                                            *)

\* DHCP_START: clear the addresses and dhcp_start, which sends the first discover.
StartDhcp ==
  /\ pc = "poll" /\ DHCP_state = "START"
  /\ ip' = "zero"
  /\ dhcp' = "SELECTING"
  /\ tries' = 1
  /\ DHCP_state' = "WAIT_ADDRESS"
  /\ UNCHANGED pc

\* dhcp_supplied_address
Supplied == dhcp = "BOUND"

AddressAssigned ==
  /\ pc = "poll" /\ DHCP_state = "WAIT_ADDRESS"
  /\ Supplied
  /\ DHCP_state' = "ADDRESS_ASSIGNED"
  /\ UNCHANGED <<pc, dhcp, tries, ip>>

NoAddressYet ==
  /\ pc = "poll" /\ DHCP_state = "WAIT_ADDRESS"
  /\ ~Supplied
  /\ pc' = "tries"
  /\ UNCHANGED <<DHCP_state, dhcp, tries, ip>>

\* Fault: more tries are allowed than the client counts.
TriesExceeded_TooMany == tries > CountMax

TriesExceeded == tries > MaxDhcpTries

\* The test of dhcp->tries; the client may have gone on since the last step.
CheckTries ==
  /\ pc = "tries"
  /\ IF TriesExceeded
     THEN DHCP_state' = "TIMEOUT" /\ pc' = "stop"
     ELSE pc' = "poll" /\ UNCHANGED DHCP_state
  /\ UNCHANGED <<dhcp, tries, ip>>

\* dhcp_stop: a lease is released, and the address with it.
StopClient ==
  /\ dhcp' = "OFF"
  /\ tries' = 0
  /\ ip' = IF dhcp = "OFF" THEN ip ELSE "zero"

DhcpStop ==
  /\ pc = "stop"
  /\ StopClient
  /\ pc' = "static"
  /\ UNCHANGED DHCP_state

\* netif_set_addr with the static address.
SetStatic ==
  /\ pc = "static"
  /\ ip' = "static"
  /\ pc' = "poll"
  /\ UNCHANGED <<DHCP_state, dhcp, tries>>

\* DHCP_LINK_DOWN
LinkDown ==
  /\ pc = "poll" /\ DHCP_state = "LINK_DOWN"
  /\ StopClient
  /\ DHCP_state' = "OFF"
  /\ UNCHANGED pc

-----------------------------------------------------------------------------
(* lwIP's DHCP client.  The server and the other hosts may do anything, or *)
(* nothing.  "BOUND" stands for RENEWING and REBINDING as well, which also *)
(* count as supplied.                                                      *)

\* Entering a state resets tries; sending its message counts the first one.
Enter(state) == dhcp' = state /\ tries' = 1

\* dhcp_handle_offer, dhcp_select: the first offer is requested.
Offer ==
  /\ dhcp = "SELECTING"
  /\ Enter("REQUESTING")
  /\ UNCHANGED <<DHCP_state, pc, ip>>

\* dhcp_recv of an ACK, dhcp_check: an ARP query for the address.  (The ACK of a
\* renewal changes nothing here.)
Ack ==
  /\ dhcp = "REQUESTING"
  /\ Enter("CHECKING")
  /\ UNCHANGED <<DHCP_state, pc, ip>>

\* dhcp_handle_nak: the server refuses a request or a renewal, as often as it likes; the
\* address is removed and the client discovers at once, counting from the start.
Nak ==
  /\ dhcp \in {"REQUESTING", "BOUND"}
  /\ Enter("SELECTING")
  /\ ip' = "zero"
  /\ UNCHANGED <<DHCP_state, pc>>

\* dhcp_arp_reply, dhcp_decline: another host has the address.
Decline ==
  /\ dhcp = "CHECKING"
  /\ Enter("BACKING_OFF")
  /\ UNCHANGED <<DHCP_state, pc, ip>>

(* dhcp_timeout *)

\* No answer: the message is sent again, after a wait that doubles and lasts many polls
\* of DHCP_thread.  (The client's own limit of requests is above MAX_DHCP_TRIES, and left
\* out.)
Retry ==
  /\ dhcp \in {"SELECTING", "REQUESTING"}
  /\ tries < CountMax
  /\ tries' = tries + 1
  /\ UNCHANGED <<DHCP_state, pc, dhcp, ip>>

\* The wait after a declined address is over.
Rediscover ==
  /\ dhcp = "BACKING_OFF"
  /\ Enter("SELECTING")
  /\ UNCHANGED <<DHCP_state, pc, ip>>

\* No host answers the ARP query: it is sent a second time, ...
CheckAgain ==
  /\ dhcp = "CHECKING" /\ tries <= 1
  /\ tries' = tries + 1
  /\ UNCHANGED <<DHCP_state, pc, dhcp, ip>>

\* ... and then the address is taken (dhcp_bind).
Bind ==
  /\ dhcp = "CHECKING" /\ tries > 1
  /\ dhcp' = "BOUND" /\ tries' = 0
  /\ ip' = "leased"
  /\ UNCHANGED <<DHCP_state, pc>>

Timeout == Retry \/ Rediscover \/ CheckAgain \/ Bind

\* dhcp_coarse_tmr: the lease ends without being renewed; release and start over.  (That
\* the timer of a lease runs on after a refused renewal is left out.)
Expire ==
  /\ dhcp = "BOUND"
  /\ Enter("SELECTING")
  /\ ip' = "zero"
  /\ UNCHANGED <<DHCP_state, pc>>

-----------------------------------------------------------------------------
Thread ==
  StartDhcp \/ AddressAssigned \/ NoAddressYet \/ CheckTries \/ DhcpStop \/ SetStatic \/ LinkDown

Next == Thread \/ Offer \/ Ack \/ Nak \/ Decline \/ Timeout \/ Expire

Spec == Init /\ [][Next]_vars

\* The thread polls every 250 ms and the client's timer runs.  Nothing is assumed of
\* the server: it may never answer.
FairSpec == Spec /\ WF_vars(Thread) /\ WF_vars(Timeout)

-----------------------------------------------------------------------------
(* Properties.                                                             *)

\* With the link up at boot the interface gets an address, leased or static, whatever
\* the server and the other hosts do, unless they go on for ever answering offers that
\* lead nowhere: the server by refusing the request, another host by having the address.
\* Each such answer starts the count of tries again.
AddressObtained == <>[][~Nak /\ ~Decline]_vars => (DHCP_state = "START") ~> (ip # "zero")

\* app_ethernet.c:174, "DHCP timeout": the interface gets an address in any case.
AlwaysObtained == (DHCP_state = "START") ~> (ip # "zero")

\* The static address is final: the DHCP client is off when the interface has it, so
\* that no late answer can replace it under the connections that use it, even if the
\* answer came between the test of tries and dhcp_stop.
StaticMeansStopped == ip = "static" => dhcp = "OFF"
=============================================================================
