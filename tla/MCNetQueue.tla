----------------------------- MODULE MCNetQueue -----------------------------
(* Instances of NetQueue for TLC. *)
EXTENDS NetQueue, TLC

\* The packet buffers are interchangeable (safety runs only).
PbufSymmetry == Permutations(Pbufs)

\* Safety runs identify states that differ only in slots outside (tail, head]:
\* no function of dep/net.c reads a slot before netQPut has written it again.
LiveView ==
  <<head, tail, [q \in Queues |-> [s \in Live(q) |-> ring[q][s]]], owner, alerts, tpc, ppc, cur>>
=============================================================================
