------------------------------ MODULE DelayE2E ------------------------------
(***************************************************************************)
(* The end-to-end delay measurement of a synchronizing port: Delay_Req and *)
(* Delay_Resp in protocol.c, updateOffset and updateDelay in dep/servo.c.  *)
(*                                                                         *)
(* A time stamp is abstracted to where it comes from: a stamp of a request *)
(* is the request's age, the number of requests sent after it (0 is the    *)
(* latest), and Tms is the master whose Sync it was computed from.  The    *)
(* sequence numbers keep their width: int16_t, -SeqMax-1 .. SeqMax.        *)
(*                                                                         *)
(* Requests are multicast: every master may answer, late, twice or never.  *)
(* A message older than MaxAge requests has left the network.  The port    *)
(* state and the parent change here as module PtpPort says they do.        *)
(***************************************************************************)
EXTENDS Integers

CONSTANTS
  Masters,        \* the clocks in PTP_MASTER that hear the requests
  SeqMax,         \* INT16_MAX
  MaxAge,         \* how many requests a message outlives
  TxStamps        \* may netSend return a transmit stamp with seconds # 0?

NoMaster == "none"

ASSUME MastersAssumption == Masters # {} /\ NoMaster \notin Masters
ASSUME SeqAssumption == SeqMax \in Nat /\ MaxAge \in Nat /\ MaxAge <= 2 * SeqMax
ASSUME TxStampsAssumption == TxStamps \in (SUBSET BOOLEAN) \ {{}}

VARIABLES
  clk,            \* the part of PtpClock the measurement depends on
  reqs,           \* our Delay_Req messages that a master may still answer
  resps,          \* the Delay_Resp messages in the network
  delay,          \* currentDS.meanPathDelay, as what it was computed from
  hist            \* what the properties remember, read by no action

vars == <<clk, reqs, resps, delay, hist>>

SeqIds == -SeqMax - 1 .. SeqMax

NoStamp == -1
Old == MaxAge + 1                   \* the age of everything that left the network
Ages == 0 .. MaxAge
StampAges == NoStamp .. Old

Clock ==
  [portState : {"UNCALIBRATED", "SLAVE", "OTHER"},
   parent : Masters,
   sent : SeqIds,                   \* sentDelayReqSequenceId
   send : StampAges,                \* timestamp_delayReqSend
   tms : Masters \cup {NoMaster},   \* Tms; NoMaster is the zero of initClock
   filtered : BOOLEAN,              \* ofm_filt.n # 0
   expired : BOOLEAN]               \* DELAYREQ_INTERVAL_TIMER

Request == [seq : SeqIds, age : Ages]

\* requesting: the requestingPortIdentity, our port or another slave's.
Response == [from : Masters, requesting : {"self", "other"}, seq : SeqIds, age : Ages]

NoDelay == [tms |-> NoMaster, from |-> NoMaster, send |-> NoStamp, receive |-> NoStamp]

\* missed: a timely answer of the parent to the latest request was thrown away.
\* synced: a Sync of the parent was used since it became the parent.
\* settled: delay was computed with synced.  measured: by the last step.
History == [missed : BOOLEAN, synced : BOOLEAN, settled : BOOLEAN, measured : BOOLEAN]

Synchronizing == {"UNCALIBRATED", "SLAVE"}

-----------------------------------------------------------------------------
(* The functions of protocol.c and dep/servo.c.                            *)

\* int16_t x; x++.
Increment(x) == IF x = SeqMax THEN -SeqMax - 1 ELSE x + 1

\* The age of a stamp once another request is sent.
Older(a) == IF a \in Ages THEN a + 1 ELSE a

Aged(S) == {[x EXCEPT !.age = @ + 1] : x \in {y \in S : y.age < MaxAge}}

\* initClock, as far as the measurement goes.
InitClock(c) == [c EXCEPT !.tms = NoMaster, !.filtered = FALSE]

\* updateOffset and updateClock: an offset with seconds is not filtered, and it,
\* like a "jump" (more than MAX_ADJ_OFFSET_NS), sets the clock and restarts the servo.
Synchronize(c, offset) ==
  LET d == [c EXCEPT !.tms = c.parent, !.filtered = @ \/ offset # "seconds"]
  IN  IF offset \in {"seconds", "jump"} THEN InitClock(d) ELSE d

\* issueDelayReqTimerExpired restarts the timer and calls issueDelayReq: the
\* transmit stamp is stored only if it is valid, the sequence number always moves.
IssueDelayReq(c, valid) ==
  [c EXCEPT !.sent = Increment(@), !.send = IF valid THEN 0 ELSE Older(@), !.expired = FALSE]

\* Fault: the counter itself is compared, not the number of the last request.
Matches_OffByOne(c, r) ==
  c.portState \in Synchronizing /\ r.seq = c.sent /\ r.requesting = "self" /\ r.from = c.parent

\* Fault: the requesting port is not looked at.
Matches_AnyRequester(c, r) ==
  c.portState \in Synchronizing /\ r.seq = c.sent - 1 /\ r.from = c.parent

\* Fault: whoever answers first.
Matches_AnyMaster(c, r) ==
  c.portState \in Synchronizing /\ r.seq = c.sent - 1 /\ r.requesting = "self"

\* handleDelayResp uses the answer.  The comparison is in int: sent - 1 of the least
\* sent is no sequence number.
Matches(c, r) ==
  c.portState \in Synchronizing /\ r.seq = c.sent - 1 /\ r.requesting = "self" /\ r.from = c.parent

\* updateDelay.  The receipt stamp of another slave's request is of no request of ours.
UpdateDelay(c, r) ==
  IF c.filtered
  THEN [tms |-> c.tms, from |-> r.from, send |-> c.send,
        receive |-> IF r.requesting = "self" THEN r.age ELSE Old]
  ELSE delay

-----------------------------------------------------------------------------
(* The steps of the PTP thread.                                            *)

Init ==
  /\ clk \in [portState : {"OTHER"}, parent : Masters, sent : {0}, send : {NoStamp},
              tms : {NoMaster}, filtered : {FALSE}, expired : {FALSE}]
  /\ reqs = {}
  /\ resps = {}
  /\ delay = NoDelay
  /\ hist = [missed |-> FALSE, synced |-> FALSE, settled |-> FALSE, measured |-> FALSE]

\* handleSync (one step) or handleFollowUp with a message of the parent: the clock
\* is corrected, then a request is sent if it is due.
HandleSync(offset, valid) ==
  /\ clk.portState \in Synchronizing
  /\ LET c == Synchronize(clk, offset)
         due == c.portState = "SLAVE" /\ c.expired
     IN  /\ clk' = IF due THEN IssueDelayReq(c, valid) ELSE c
         /\ reqs' = IF due THEN Aged(reqs) \cup {[seq |-> c.sent, age |-> 0]} ELSE reqs
         /\ resps' = IF due THEN Aged(resps) ELSE resps
         /\ hist' = [hist EXCEPT !.missed = FALSE, !.measured = FALSE, !.synced = c.filtered]
  /\ UNCHANGED delay

\* handleDelayResp; the network may keep a copy.
HandleDelayResp(r, duplicate) ==
  /\ r \in resps
  /\ delay' = IF Matches(clk, r) THEN UpdateDelay(clk, r) ELSE delay
  /\ hist' = [hist EXCEPT
       !.missed = ~Matches(clk, r) /\ clk.portState \in Synchronizing /\ r.from = clk.parent
                 /\ r.requesting = "self" /\ r.age = 0,
       !.settled = IF Matches(clk, r) /\ clk.filtered THEN hist.synced ELSE @,
       !.measured = Matches(clk, r) /\ clk.filtered]
  /\ resps' = IF duplicate THEN resps ELSE resps \ {r}
  /\ UNCHANGED <<clk, reqs>>

\* timerCallback for the delay request timer.
Expire ==
  /\ clk.portState \in Synchronizing
  /\ ~clk.expired
  /\ clk' = [clk EXCEPT !.expired = TRUE]
  /\ hist' = [hist EXCEPT !.missed = FALSE, !.measured = FALSE]
  /\ UNCHANGED <<reqs, resps, delay>>

\* doState follows a recommendation: from and to the states in which the port does
\* not synchronize, initClock is called and the timer stopped; between UNCALIBRATED
\* and SLAVE it is not, and PTP_UNCALIBRATED starts the timer.
EnterState(to) ==
  /\ clk.portState # to
  /\ to = "SLAVE" => clk.portState = "UNCALIBRATED"
  /\ clk' = [(IF {clk.portState, to} \subseteq Synchronizing THEN clk ELSE InitClock(clk)) EXCEPT
               !.portState = to,
               !.expired = @ /\ to = "SLAVE"]
  /\ hist' = [hist EXCEPT !.missed = FALSE, !.measured = FALSE,
                          !.synced = @ /\ {clk.portState, to} \subseteq Synchronizing]
  /\ UNCHANGED <<reqs, resps, delay>>

\* bmc finds a better master (s1): the parent changes and, out of SLAVE, the same
\* doState goes to UNCALIBRATED.
ChangeMaster(m) ==
  /\ m # clk.parent
  /\ clk' = [clk EXCEPT !.parent = m,
                        !.portState = IF @ = "SLAVE" THEN "UNCALIBRATED" ELSE @,
                        !.expired = @ /\ clk.portState # "SLAVE"]
  /\ hist' = [hist EXCEPT !.missed = FALSE, !.measured = FALSE, !.synced = FALSE]
  /\ UNCHANGED <<reqs, resps, delay>>

-----------------------------------------------------------------------------
(* The masters and the network.                                            *)

\* Another clock in PTP_MASTER: handleDelayReq, issueDelayResp.
Answer(m, q) ==
  /\ q \in reqs
  /\ resps' = resps \cup {[from |-> m, requesting |-> "self", seq |-> q.seq, age |-> q.age]}
  /\ hist' = [hist EXCEPT !.missed = FALSE, !.measured = FALSE]
  /\ UNCHANGED <<clk, reqs, delay>>

\* A master answers another slave, whose sequence number happens to be that of our
\* request q.
AnswerOther(m, q) ==
  /\ q \in reqs
  /\ resps' = resps \cup {[from |-> m, requesting |-> "other", seq |-> q.seq, age |-> q.age]}
  /\ hist' = [hist EXCEPT !.missed = FALSE, !.measured = FALSE]
  /\ UNCHANGED <<clk, reqs, delay>>

Lose ==
  /\ \/ \E q \in reqs : reqs' = reqs \ {q} /\ UNCHANGED resps
     \/ \E r \in resps : resps' = resps \ {r} /\ UNCHANGED reqs
  /\ hist' = [hist EXCEPT !.missed = FALSE, !.measured = FALSE]
  /\ UNCHANGED <<clk, delay>>

Next ==
  \/ \E offset \in {"seconds", "jump", "small"}, valid \in TxStamps : HandleSync(offset, valid)
  \/ \E r \in resps, duplicate \in BOOLEAN : HandleDelayResp(r, duplicate)
  \/ Expire
  \/ \E to \in {"UNCALIBRATED", "SLAVE", "OTHER"} : EnterState(to)
  \/ \E m \in Masters : ChangeMaster(m)
  \/ \E m \in Masters, q \in reqs : Answer(m, q) \/ AnswerOther(m, q)
  \/ Lose

Spec == Init /\ [][Next]_vars

\* The parent sends Sync messages and answers, and the thread handles what arrives.
\* Loss does not depend on the sequence number: of the requests with a given number,
\* sent again and again, some are answered in time.  To assume it of number 0 is enough.
Fairness ==
  /\ WF_vars(Expire)
  /\ SF_vars(\E valid \in TxStamps : HandleSync("small", valid))
  /\ SF_vars(Answer(clk.parent, [seq |-> 0, age |-> 0]))
  /\ SF_vars(HandleDelayResp([from |-> clk.parent, requesting |-> "self", seq |-> 0, age |-> 0], FALSE))

FairSpec == Spec /\ Fairness

-----------------------------------------------------------------------------
(* Properties.                                                             *)

TypeOK ==
  /\ clk \in Clock
  /\ reqs \subseteq Request
  /\ resps \subseteq Response
  /\ delay \in [tms : Masters \cup {NoMaster}, from : Masters \cup {NoMaster},
                send : StampAges, receive : StampAges]
  /\ hist \in History

\* A path delay is computed from the two stamps of one exchange: the master's receipt
\* stamp is that of the request whose transmit stamp is stored, in spite of answers
\* that come late, twice or from several masters, and of the counter's wrap.
ExchangePaired == delay.receive # NoStamp => delay.send = delay.receive /\ delay.receive = 0

\* updateDelay never computes with the zero Tms that initClock leaves: the count of
\* the offset filter, which it asks, is cleared with it.
DelayHasTms == delay.receive # NoStamp => delay.tms # NoMaster

\* Once a Sync of the present parent was used, both directions are measured to it.
SettledDelay == hist.settled => delay.tms = delay.from

\* "Tms valid ?" (dep/servo.c:195): both directions of a path delay are measured to
\* the same master.
SameMaster == delay.receive # NoStamp => delay.tms = delay.from

\* "Delay req TX timestamp is valid" (protocol.c:1365): the transmit stamp a path delay
\* is computed with is that of the request that was answered, also when the stamp of
\* that request was not valid and so not stored.
SendStampCurrent == delay.receive # NoStamp => delay.send = delay.receive

\* "doesn't match with the delayReq" (protocol.c:966) is only said of answers to other
\* requests: the parent's answer to the latest request is used.
LatestAnswerUsed == ~hist.missed

\* It is thrown away for one number only, in a whole turn of the counter: the greatest,
\* after which the counter, an int16_t, is compared as an int at its least value.
MissedOnlyAtWrap == hist.missed => clk.sent = -SeqMax - 1

\* A slave that keeps its master and whose clock is not set again keeps measuring the
\* delay, whatever is lost, and past the wrap of the sequence number.
KeepsMeasuring ==
  \A m \in Masters :
    <>[](clk.portState = "SLAVE" /\ clk.parent = m /\ clk.filtered) => []<>(hist.measured)
=============================================================================
