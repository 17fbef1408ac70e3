----------------------------- MODULE MCMessages -----------------------------
(* Sets of messages for the instances of PtpPort.  The clock under test has  *)
(* identity 3: with equal qualities 1 and 2 are better masters and 4 is      *)
(* worse, each of them announcing itself as grandmaster.                     *)

\* Qualities as <<priority1, clockClass, clockAccuracy, variance, priority2>>.
Ordinary == <<128, 248, 254, 65535, 128>>
GradeA == <<128, 6, 254, 65535, 128>>        \* a clock of class below 128
OnlySlave == <<128, 255, 254, 65535, 128>>
Degraded == <<128, 251, 254, 65535, 128>>

AnnounceOf(c, q) == [src |-> <<c, 1>>, gm |-> c, quality |-> q, steps |-> 0]

\* The model has one sequence number per SeqIds; 0 unless given.
Msg(type, c, short, seq, twoStep, q) ==
  [type |-> type, src |-> <<c, 1>>, short |-> short, seq |-> seq, twoStep |-> twoStep, body |-> AnnounceOf(c, q)]

Announces(cs, q) == {Msg("ANNOUNCE", c, FALSE, 0, FALSE, q) : c \in cs}
Syncs(cs, seqs) == {Msg("SYNC", x[1], FALSE, x[2], x[3], Ordinary) : x \in cs \X seqs \X BOOLEAN}
FollowUps(cs, seqs) == {Msg("FOLLOW_UP", x[1], FALSE, x[2], FALSE, Ordinary) : x \in cs \X seqs}
Short(types) == {Msg(type, 1, TRUE, 0, FALSE, Ordinary) : type \in types}

\* Two better clocks, a worse one and our own announcing, Sync and Follow_Up
\* from the better ones and from ourselves, messages that make the port faulty.
PortMessages ==
  Announces({1, 2, 3, 4}, Ordinary) \cup Syncs({1, 2, 3}, {0}) \cup FollowUps({1, 3}, {0, 1})
  \cup Short({"ANNOUNCE", "OTHER"})

\* For a clock of class below 128, which never becomes slave: better and worse
\* clocks, with every message its peer delay mechanism meets.
PassiveMessages ==
  Announces({1, 4}, GradeA) \cup Syncs({1, 3}, {0}) \cup FollowUps({1, 3}, {0})
  \cup Short({"ANNOUNCE", "SYNC", "FOLLOW_UP", "PDELAY_REQ", "PDELAY_RESP", "PDELAY_RESP_FOLLOW_UP", "DELAY_REQ"})
  \cup {Msg("MANAGEMENT", 1, FALSE, 0, FALSE, GradeA)}

\* One better and one worse clock; the messages of a working network.
QuietMessages ==
  Announces({1, 4}, Ordinary) \cup Syncs({1}, {0}) \cup FollowUps({1}, {0})

\* Paths to three grandmasters: 1 directly, over 5 and over two ports of 6, 2 of
\* the same quality, and 4, which is worse.
Path(src, gm, q, steps) ==
  [Msg("ANNOUNCE", 1, FALSE, 0, FALSE, q) EXCEPT
     !.src = src, !.body = [src |-> src, gm |-> gm, quality |-> q, steps |-> steps]]

PathMessages ==
  {Path(<<1, 1>>, 1, Ordinary, 0), Path(<<5, 1>>, 1, Ordinary, 1), Path(<<6, 1>>, 1, Ordinary, 1),
   Path(<<6, 2>>, 1, Ordinary, 1), Path(<<2, 1>>, 2, Ordinary, 0), Path(<<4, 1>>, 4, Degraded, 0)}

\* Two better clocks.
TwoMasters == Announces({1, 2}, Ordinary)

\* Two better clocks whose Sync messages carry the same sequence number.
PairingMessages == Announces({1, 2}, Ordinary) \cup Syncs({1, 2}, {0}) \cup FollowUps({1, 2}, {0})

\* A master whose quality changes.
ChangingMessages == Announces({1}, Ordinary) \cup Announces({1}, Degraded)
=============================================================================
