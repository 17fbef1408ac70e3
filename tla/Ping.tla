-------------------------------- MODULE Ping --------------------------------
(***************************************************************************)
(* The ping command, app/src/ping.c.  do_ping runs in the command line's   *)
(* task; while its raw PCB exists, lwIP hands every ICMP packet to         *)
(* ping_recv in the tcpip thread, which preempts the command line anywhere.*)
(* The two share ping_result and ping_seq_num.  The network may lose,      *)
(* delay and repeat replies, and packets of other conversations arrive,    *)
(* which may carry PING_ID and any number: ping_recv looks neither at the  *)
(* type of a packet nor at its sender.                                     *)
(***************************************************************************)
EXTENDS Integers

CONSTANTS
  SeqMod,           \* sequence numbers wrap there; 2^16
  Count             \* requests per command; 4

PingAssumption == SeqMod \in Nat /\ SeqMod > 3 /\ Count \in Nat \ {0}

VARIABLES
  result,           \* ping_result: 0 or -1
  seqNum,           \* ping_seq_num
  pc,               \* do_ping: "idle", "reset", "number", "send", "wait", "report"
  left,             \* requests left
  inFlight,         \* replies on their way, by sequence number
  acceptedSeq,      \* the sequence number of the packet that set result
  foreignEaten      \* an ICMP packet that answers no request was kept from lwIP

vars == <<result, seqNum, pc, left, inFlight, acceptedSeq, foreignEaten>>

Seqs == 0 .. SeqMod - 1

Init ==
  /\ result = -1
  /\ seqNum = 1
  /\ pc = "idle"
  /\ left = 0
  /\ inFlight = {}
  /\ acceptedSeq = 0
  /\ foreignEaten = FALSE

\* The sequence number k before the current value of ping_seq_num.
Before(k) == (seqNum - k) % SeqMod

-----------------------------------------------------------------------------
(* do_ping, in the command line's task.                                    *)

\* raw_new, raw_recv, raw_bind.
Start ==
  /\ pc = "idle"
  /\ pc' = "reset"
  /\ left' = Count
  /\ UNCHANGED <<result, seqNum, inFlight, acceptedSeq, foreignEaten>>

\* ping_result = -1
ResetResult ==
  /\ pc = "reset"
  /\ result' = -1
  /\ pc' = "number"
  /\ UNCHANGED <<seqNum, left, inFlight, acceptedSeq, foreignEaten>>

Increment == seqNum' = (seqNum + 1) % SeqMod

\* ping_seq_num++, the argument of ping_send.
TakeNumber ==
  /\ pc = "number"
  /\ Increment
  /\ pc' = "send"
  /\ UNCHANGED <<result, left, inFlight, acceptedSeq, foreignEaten>>

\* ping_send: the request is sent, or pbuf_alloc fails.
Send ==
  /\ pc = "send"
  /\ inFlight' \in {inFlight, inFlight \cup {Before(1)}}
  /\ pc' = "wait"
  /\ UNCHANGED <<result, seqNum, left, acceptedSeq, foreignEaten>>

\* The loop sees the result ...
Answered ==
  /\ pc = "wait"
  /\ result = 0
  /\ pc' = "report"
  /\ UNCHANGED <<result, seqNum, left, inFlight, acceptedSeq, foreignEaten>>

\* ... or ends after PING_TIMEOUT_MS.
WaitTimeout ==
  /\ pc = "wait"
  /\ pc' = "report"
  /\ UNCHANGED <<result, seqNum, left, inFlight, acceptedSeq, foreignEaten>>

\* --count
Decrement == left' = left - 1

\* The next request, or raw_remove and the result of the last one.
Report ==
  /\ pc = "report"
  /\ Decrement
  /\ pc' = IF left' = 0 THEN "idle" ELSE "reset"
  /\ UNCHANGED <<result, seqNum, inFlight, acceptedSeq, foreignEaten>>

-----------------------------------------------------------------------------
(* ping_recv, in the tcpip thread, and the network (external).             *)

\* Fault: any reply to a ping counts.
IsAnswer_Any(s) == TRUE

\* iecho->seqno == lwip_htons(ping_seq_num - 1)
IsAnswer(s) == s = Before(1)

\* The test of ping_recv, of a packet with PING_ID and number s.
Accept(s) ==
  IF IsAnswer(s) THEN result' = 0 /\ acceptedSeq' = s ELSE UNCHANGED <<result, acceptedSeq>>

\* ping_recv with a reply to one of the requests; it eats the packet in any case.  The
\* network may deliver the reply again.
RecvReply(s) ==
  /\ pc # "idle"
  /\ s \in inFlight
  /\ Accept(s)
  /\ UNCHANGED <<seqNum, pc, left, inFlight, foreignEaten>>

\* ping_recv with an ICMP packet of another conversation that carries PING_ID, a reply or
\* an echo request of another host: it passes the same test, and is eaten as well.
RecvForeign(s) ==
  /\ pc # "idle"
  /\ Accept(s)
  /\ foreignEaten' = TRUE
  /\ UNCHANGED <<seqNum, pc, left, inFlight>>

\* ping_recv with an ICMP packet that is too short or carries another identifier: it is
\* only eaten.
RecvOther ==
  /\ pc # "idle"
  /\ foreignEaten' = TRUE
  /\ UNCHANGED <<result, seqNum, pc, left, inFlight, acceptedSeq>>

\* A reply is lost, or too old to be delivered.
Lose(s) ==
  /\ s \in inFlight
  /\ inFlight' = inFlight \ {s}
  /\ UNCHANGED <<result, seqNum, pc, left, acceptedSeq, foreignEaten>>

-----------------------------------------------------------------------------
DoPing == ResetResult \/ TakeNumber \/ Send \/ Answered \/ WaitTimeout \/ Report

Next ==
  \/ Start \/ DoPing \/ RecvOther
  \/ \E s \in inFlight : RecvReply(s) \/ Lose(s)
  \/ \E s \in Seqs : RecvForeign(s)

Spec == Init /\ [][Next]_vars

\* The command line's task runs when the tasks above it wait, and time passes.
FairSpec == Spec /\ WF_vars(DoPing)

-----------------------------------------------------------------------------
(* Properties.                                                             *)

TypeOK ==
  /\ result \in {-1, 0}
  /\ seqNum \in Seqs
  /\ pc \in {"idle", "reset", "number", "send", "wait", "report"}
  /\ left \in 0 .. Count
  /\ inFlight \subseteq Seqs
  /\ acceptedSeq \in Seqs
  /\ foreignEaten \in BOOLEAN

\* A request is reported as answered only if a packet with its own number arrived, or one
\* with the number before, which ping_recv still accepts between the reset of ping_result
\* and the increment of ping_seq_num: never because of a packet with an older number,
\* however many are on their way.  Whose packet it is the number does not tell.
AnswerAtMostOneBehind ==
  pc \in {"wait", "report"} /\ result = 0 => acceptedSeq \in {Before(1), Before(2)}

\* do_ping returns, whatever is received.
Returns == (pc = "reset") ~> (pc = "idle")

\* ping.c:34: "We've handled the packet"
EatenIsHandled == ~foreignEaten
=============================================================================
