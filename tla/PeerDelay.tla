------------------------------ MODULE PeerDelay -----------------------------
(***************************************************************************)
(* The peer delay measurement (delay mechanism P2P) of protocol.c and      *)
(* updatePeerDelay of dep/servo.c: this port requests, the ports of Peers  *)
(* run handlePDelayReq.                                                    *)
(*                                                                         *)
(* A time stamp is abstracted to the exchange it belongs to: the age of    *)
(* the request (0 is the latest) and, for a stamp that stems from an       *)
(* answer, the answering peer.  Answers come late, twice or never, and a   *)
(* message older than MaxAge requests has left the network.                *)
(***************************************************************************)
EXTENDS Integers

CONSTANTS
  Peers,           \* the ports that hear our requests: one on a proper P2P link
  SeqMax,          \* INT16_MAX
  MaxAge,          \* how many requests a message outlives
  RequestTwoStep,  \* the two-step flag our requests carry
  PeerTwoStep,     \* defaultDS.twoStepFlag of the peers
  TxStamps         \* may netSend return a transmit stamp with seconds # 0?

PeersAssumption == Peers # {}
SeqAssumption == SeqMax \in Nat /\ MaxAge \in Nat /\ MaxAge <= 2 * SeqMax
FlagsAssumption == RequestTwoStep \in BOOLEAN /\ PeerTwoStep \in BOOLEAN
TxStampsAssumption == TxStamps \in (SUBSET BOOLEAN) \ {{}}

VARIABLES
  clk,             \* the part of PtpClock the measurement depends on
  reqs,            \* our Pdelay_Req messages that a peer may still answer
  net,             \* the Pdelay_Resp and Pdelay_Resp_Follow_Up messages in the network
  delay,           \* portDS.peerMeanPathDelay, as the stamps it was computed from
  unfinished       \* a peer sent a two-step answer and no follow up; read by no action

vars == <<clk, reqs, net, delay, unfinished>>

SeqIds == -SeqMax - 1 .. SeqMax
Ages == 0 .. MaxAge
None == -1                           \* the age of a cleared stamp
StampAges == None .. MaxAge + 1

NoPeer == "none"
Stamp == [age : StampAges, peer : Peers \cup {NoPeer}]
Cleared == [age |-> None, peer |-> NoPeer]

\* The states in which a port uses answers, and those in which it also requests.
Measuring == {"MASTER", "SLAVE"}
Requesting == Measuring \cup {"PASSIVE", "UNCALIBRATED"}
States == Requesting \cup {"LISTENING", "FAULTY"}

Clock ==
  [portState : States,
   sent : SeqIds,                    \* sentPDelayReqSequenceId
   t1 : StampAges,                   \* pdelay_t1 ..
   t2 : Stamp, t3 : Stamp, t4 : Stamp,
   waiting : BOOLEAN,                \* waitingForPDelayRespFollowUp
   overtaken : BOOLEAN,              \* the latest request was sent during that wait; read by no action
   expired : BOOLEAN]                \* PDELAYREQ_INTERVAL_TIMER

Request == [seq : SeqIds, age : Ages]
Message == [type : {"RESP", "FOLLOW_UP"}, from : Peers, seq : SeqIds, age : Ages]

\* A delay as the stamps it is computed from, and whether its exchange was overtaken.
Delays == [t1 : StampAges, t2 : Stamp, t3 : Stamp, t4 : Stamp, overtaken : BOOLEAN]
NoDelay == [t1 |-> None, t2 |-> Cleared, t3 |-> Cleared, t4 |-> Cleared, overtaken |-> FALSE]

-----------------------------------------------------------------------------
(* The functions of protocol.c and dep/servo.c.                            *)

\* int16_t x; x++.
Increment(x) == IF x = SeqMax THEN -SeqMax - 1 ELSE x + 1

Older(a) == IF a \in Ages THEN a + 1 ELSE a

OlderStamp(t) == [t EXCEPT !.age = Older(@)]

Aged(S) == {[x EXCEPT !.age = @ + 1] : x \in {y \in S : y.age < MaxAge}}

\* initClock, as far as the measurement goes.
InitClock(c) ==
  [c EXCEPT !.waiting = FALSE, !.overtaken = FALSE, !.t1 = None, !.t2 = Cleared, !.t3 = Cleared, !.t4 = Cleared]

\* issueDelayReqTimerExpired (P2P) with issuePDelayReq: the transmit stamp is stored only
\* if it is valid; stamps of earlier exchanges stay where they are and grow older, and so
\* does a wait for the follow up of an earlier answer.
IssuePDelayReq(c, valid) ==
  [c EXCEPT !.sent = Increment(@), !.expired = FALSE, !.overtaken = c.waiting,
            !.t1 = IF valid THEN 0 ELSE Older(@),
            !.t2 = OlderStamp(@), !.t3 = OlderStamp(@), !.t4 = OlderStamp(@)]

\* Fault: any earlier request will do.
IsCurrent_Any(c, m) == TRUE

IsCurrent(c, m) == m.seq = c.sent - 1

StampOf(m) == [age |-> m.age, peer |-> m.from]

\* handlePDelayResp of a two-step answer.
AwaitFollowUp(c, m) == [c EXCEPT !.waiting = TRUE, !.overtaken = FALSE, !.t4 = StampOf(m), !.t2 = StampOf(m)]

\* handlePDelayResp of a one-step answer; the peer's own delay is in the correction field.
OneStep(c, m) == [c EXCEPT !.waiting = FALSE, !.t4 = StampOf(m)]

\* handlePDelayRespFollowUp.
TwoStep(c, m) == [c EXCEPT !.waiting = FALSE, !.t3 = StampOf(m)]

\* updatePeerDelay, from the clock as the handler leaves it.
UpdatePeerDelay(c, twoStep) ==
  [t1 |-> c.t1, t2 |-> IF twoStep THEN c.t2 ELSE Cleared, t3 |-> IF twoStep THEN c.t3 ELSE Cleared, t4 |-> c.t4,
   overtaken |-> twoStep /\ c.overtaken]

-----------------------------------------------------------------------------
(* The steps of the PTP thread.                                            *)

Init ==
  /\ clk = [portState |-> "LISTENING", sent |-> 0, t1 |-> None, t2 |-> Cleared, t3 |-> Cleared,
            t4 |-> Cleared, waiting |-> FALSE, overtaken |-> FALSE, expired |-> FALSE]
  /\ reqs = {}
  /\ net = {}
  /\ delay = NoDelay
  /\ unfinished = FALSE

\* The timer is due: in MASTER every doState looks, elsewhere the handlers of Sync
\* and Follow_Up do.
RequestDelay(valid) ==
  /\ clk.portState \in Requesting
  /\ clk.expired
  /\ clk' = IssuePDelayReq(clk, valid)
  /\ reqs' = Aged(reqs) \cup {[seq |-> clk.sent, age |-> 0]}
  /\ net' = Aged(net)
  /\ UNCHANGED <<delay, unfinished>>

\* The network may keep a copy of what it delivers.
Consume(m, duplicate) == net' = IF duplicate THEN net ELSE net \ {m}

HandlePDelayResp(m, duplicate) ==
  /\ m \in net /\ m.type = "RESP"
  /\ LET use == clk.portState \in Measuring /\ IsCurrent(clk, m)
         one == OneStep(clk, m)
     IN  /\ clk' = CASE use /\ PeerTwoStep -> AwaitFollowUp(clk, m)
                     [] use /\ ~PeerTwoStep -> one
                     [] OTHER -> clk
         /\ delay' = IF use /\ ~PeerTwoStep THEN UpdatePeerDelay(one, FALSE) ELSE delay
  /\ Consume(m, duplicate)
  /\ UNCHANGED <<reqs, unfinished>>

HandlePDelayRespFollowUp(m, duplicate) ==
  /\ m \in net /\ m.type = "FOLLOW_UP"
  /\ LET use == clk.portState \in Measuring /\ clk.waiting /\ IsCurrent(clk, m)
     IN  /\ clk' = IF use THEN TwoStep(clk, m) ELSE clk
         /\ delay' = IF use THEN UpdatePeerDelay(TwoStep(clk, m), TRUE) ELSE delay
  /\ Consume(m, duplicate)
  /\ UNCHANGED <<reqs, unfinished>>

\* timerCallback for the peer delay timer.
Expire ==
  /\ clk.portState \in Requesting
  /\ ~clk.expired
  /\ clk' = [clk EXCEPT !.expired = TRUE]
  /\ UNCHANGED <<reqs, net, delay, unfinished>>

\* toState: every transition but UNCALIBRATED <-> SLAVE calls initClock and stops the
\* timer; PTP_SLAVE alone does not start it again.
EnterState(to) ==
  /\ clk.portState # to
  /\ to = "SLAVE" => clk.portState = "UNCALIBRATED"
  /\ clk' = [(IF {clk.portState, to} = {"UNCALIBRATED", "SLAVE"} THEN clk ELSE InitClock(clk)) EXCEPT
               !.portState = to,
               !.expired = @ /\ to = "SLAVE"]
  /\ UNCHANGED <<reqs, net, delay, unfinished>>

\* updateClock sets the clock, for a slave too far off, and restarts the servo.
ResetClock ==
  /\ clk.portState \in {"UNCALIBRATED", "SLAVE"}
  /\ clk' = InitClock(clk)
  /\ UNCHANGED <<reqs, net, delay, unfinished>>

-----------------------------------------------------------------------------
(* The peers and the network.                                              *)

\* What handlePDelayReq of p sends: issuePDelayResp, whose flag is that of p's own
\* header, and issuePDelayRespFollowUp if the request carried the flag and the answer has
\* a transmit stamp.
Answers(p, q, valid) ==
  {[type |-> t, from |-> p, seq |-> q.seq, age |-> q.age] :
     t \in IF RequestTwoStep /\ valid THEN {"RESP", "FOLLOW_UP"} ELSE {"RESP"}}

HandlePDelayReq(p, q, valid) ==
  /\ q \in reqs
  /\ net' = net \cup Answers(p, q, valid)
  /\ unfinished' = (unfinished \/ (PeerTwoStep /\ ~(RequestTwoStep /\ valid)))
  /\ UNCHANGED <<clk, reqs, delay>>

Lose ==
  /\ \/ \E q \in reqs : reqs' = reqs \ {q} /\ UNCHANGED net
     \/ \E m \in net : net' = net \ {m} /\ UNCHANGED reqs
  /\ UNCHANGED <<clk, delay, unfinished>>

Next ==
  \/ \E valid \in TxStamps : RequestDelay(valid)
  \/ \E m \in net, duplicate \in BOOLEAN : HandlePDelayResp(m, duplicate)
  \/ \E m \in net, duplicate \in BOOLEAN : HandlePDelayRespFollowUp(m, duplicate)
  \/ Expire
  \/ \E to \in States : EnterState(to)
  \/ ResetClock
  \/ \E p \in Peers, q \in reqs, valid \in TxStamps : HandlePDelayReq(p, q, valid)
  \/ Lose

Spec == Init /\ [][Next]_vars

-----------------------------------------------------------------------------
(* Properties.                                                             *)

TypeOK ==
  /\ clk \in Clock
  /\ reqs \subseteq Request
  /\ net \subseteq Message
  /\ delay \in Delays
  /\ unfinished \in BOOLEAN

\* What every delay is computed from.  Its transmit stamp t1 is that of the latest request
\* (unless the clock was set since, or a stamp was not valid).  One-step: t4 is that of an
\* answer to that request.  Two-step: t3 is of the follow up to an answer to that request,
\* t2 and t4 are of one answer, and that answer too is one to the latest request, unless
\* the request was sent while the follow up of an earlier answer was still awaited: then,
\* and only then, the two halves may be of two exchanges.
HalvesPaired ==
  delay # NoDelay =>
    /\ TxStamps = {TRUE} => delay.t1 \in {0, None}
    /\ delay.t3 # Cleared => delay.t3.age = 0 /\ delay.t2 = delay.t4 /\ (~delay.overtaken => delay.t2.age = 0)
    /\ delay.t3 = Cleared => delay.t4.age = 0

\* While a follow up is awaited, the stamps of the answer it completes are stored: no
\* delay is computed from a t2 or t4 that initClock cleared.
AwaitedHasStamps == clk.waiting => clk.t2 # Cleared /\ clk.t4 # Cleared

\* "store t2 (Fig 35)" (protocol.c:1125): the four stamps of a two-step delay are those
\* of one exchange.  Refuted by a request that is sent while a follow up is awaited, and
\* by a second peer's follow up.
OneExchange ==
  delay.t3 # Cleared /\ delay.t1 # None =>
    delay.t1 = delay.t2.age /\ delay.t2.age = delay.t3.age /\ delay.t2.peer = delay.t3.peer

\* "Two Step Clock" (protocol.c:1131): a peer whose answer carries the two-step flag, for
\* which the requester then waits, sends the follow up.
TwoStepCompleted == ~unfinished
=============================================================================
