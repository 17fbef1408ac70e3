------------------------------ MODULE PbufFifo ------------------------------
(***************************************************************************)
(* What dep/net.c promises the protocol engine: an event queue and a       *)
(* general queue of received packets, each bounded and first-in first-out, *)
(* read one packet at a time, of which the event queue can be flushed.     *)
(***************************************************************************)
EXTENDS Integers, Sequences

CONSTANTS Pbufs, Capacity, NoBuf

VARIABLES queue, inHand

fifoVars == <<queue, inHand>>

QueueNames == {"event", "general"}

Waiting(p) == \E q \in QueueNames : \E j \in 1 .. Len(queue[q]) : queue[q][j] = p

Init ==
  /\ queue = [q \in QueueNames |-> <<>>]
  /\ inHand = NoBuf

\* A packet nobody holds joins the back of a queue that has room.
Put(q, p) ==
  /\ ~Waiting(p)
  /\ inHand # p
  /\ Len(queue[q]) < Capacity
  /\ queue' = [queue EXCEPT ![q] = Append(@, p)]
  /\ UNCHANGED inHand

\* The reader takes the front packet, having finished with the previous one.
Get(q) ==
  /\ inHand = NoBuf
  /\ queue[q] # <<>>
  /\ inHand' = Head(queue[q])
  /\ queue' = [queue EXCEPT ![q] = Tail(@)]

\* The reader is done with its packet.
Release ==
  /\ inHand # NoBuf
  /\ inHand' = NoBuf
  /\ UNCHANGED queue

Flush ==
  /\ queue' = [queue EXCEPT !["event"] = <<>>]
  /\ UNCHANGED inHand

Next ==
  \/ \E q \in QueueNames, p \in Pbufs : Put(q, p)
  \/ \E q \in QueueNames : Get(q)
  \/ Release
  \/ Flush

Spec == Init /\ [][Next]_fifoVars
=============================================================================
