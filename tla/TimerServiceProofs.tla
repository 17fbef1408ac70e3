------------------------- MODULE TimerServiceProofs -------------------------
(***************************************************************************)
(* What module TimerService promises of the commands to the timer service, *)
(* for every length of its queue, both delay mechanisms, slave-only or     *)
(* not, and any number of starts of the PTP thread.                        *)
(*                                                                         *)
(* Processed is a recursion over the queue; ProcessedRuns says what it     *)
(* comes to: the last command for a timer decides.  The invariant adds     *)
(* that no command and no running timer is of a later start (QueueTypes),  *)
(* without which a restart could find a timer of its own running.          *)
(***************************************************************************)
EXTENDS TimerService, SequenceTheorems, WellFoundedInduction, TLAPS

-----------------------------------------------------------------------------
(* Natural numbers.                                                        *)

\* A nonempty set of natural numbers has a least element.
LEMMA LeastElement ==
  ASSUME NEW T, T \subseteq Nat, T # {}
  PROVE  \E x \in T : \A y \in T : x <= y
<1> DEFINE R == OpToRel(<, Nat)
<1>1. IsWellFoundedOn(R, Nat)
  BY NatLessThanWellFounded
<1>2. \A x, y \in Nat : y < x => <<y, x>> \in R
  BY DEF OpToRel
<1> HIDE DEF R
<1>3. PICK x \in T : \A y \in T : ~(<<y, x>> \in R)
  BY <1>1, WFMin
<1>4. ASSUME NEW y \in T PROVE x <= y
  <2>1. x \in Nat /\ y \in Nat
    OBVIOUS
  <2>2. ~(y < x)
    BY <1>2, <1>3, <2>1, Zenon
  <2> QED BY <2>1, <2>2
<1> QED BY <1>4

\* A nonempty set of numbers up to n has a greatest element.
LEMMA GreatestElement ==
  ASSUME NEW n \in Nat, NEW T, T \subseteq 1 .. n, T # {}
  PROVE  \E x \in T : \A y \in T : y <= x
<1> DEFINE D == {n - x : x \in T}
<1>1. D \subseteq Nat /\ D # {}
  <2>1. ASSUME NEW x \in T PROVE n - x \in Nat
    <3>1. x \in 1 .. n
      OBVIOUS
    <3> QED BY <3>1
  <2>2. PICK x \in T : TRUE
    OBVIOUS
  <2>3. n - x \in D
    BY <2>2
  <2> QED BY <2>1, <2>3
<1>2. PICK d \in D : \A e \in D : d <= e
  BY <1>1, LeastElement
<1>3. PICK x \in T : d = n - x
  OBVIOUS
<1>4. ASSUME NEW y \in T PROVE y <= x
  <2>1. n - x <= n - y
    BY <1>2, <1>3
  <2> QED BY <2>1
<1> QED BY <1>4

\* Induction over the natural numbers, for a set.
LEMMA SetInduction ==
  ASSUME NEW S, 0 \in S, \A n \in Nat : n \in S => n + 1 \in S
  PROVE  Nat \subseteq S
<1> DEFINE T == Nat \ S
<1> SUFFICES ASSUME T # {} PROVE FALSE
    OBVIOUS
<1>1. T \subseteq Nat
  OBVIOUS
<1> HIDE DEF T
<1>2. PICK x \in T : \A y \in T : x <= y
  BY <1>1, LeastElement
<1>3. x \in Nat /\ x \notin S
  BY DEF T
<1>4. x - 1 \in Nat
  BY <1>3
<1>5. x - 1 \in S
  BY <1>2, <1>4 DEF T
<1>6. (x - 1) + 1 \in S
  BY <1>4, <1>5
<1> QED BY <1>3, <1>6

-----------------------------------------------------------------------------
(* What processing the queue comes to.                                     *)

\* The timer a command is for.
Handle(cmd) == <<cmd.start, cmd.timer>>

\* Timer x runs after the first n commands of q: the last of them for x starts it, or
\* there is none and x runs already.
RunsAfter(x, set, q, n) ==
  \/ \E i \in 1 .. n : Handle(q[i]) = x /\ q[i].op = "start" /\ \A j \in 1 .. n : Handle(q[j]) = x => j <= i
  \/ x \in set /\ \A j \in 1 .. n : Handle(q[j]) # x

\* One more command decides about its own timer and about no other.
LEMMA RunsAfterStep ==
  ASSUME NEW x, NEW set, NEW q, NEW n \in Nat
  PROVE  RunsAfter(x, set, q, n + 1) <=> IF Handle(q[n + 1]) = x THEN q[n + 1].op = "start"
           ELSE RunsAfter(x, set, q, n)
<1> DEFINE h(i) == Handle(q[i])
           starting(i) == q[i].op = "start"
<1>1. CASE h(n + 1) = x
  <2>1. ASSUME starting(n + 1) PROVE RunsAfter(x, set, q, n + 1)
    <3>1. n + 1 \in 1 .. n + 1 /\ \A j \in 1 .. n + 1 : h(j) = x => j <= n + 1
      OBVIOUS
    <3> HIDE DEF h
    <3> QED BY <1>1, <2>1, <3>1 DEF RunsAfter, h
  <2>2. ASSUME RunsAfter(x, set, q, n + 1) PROVE starting(n + 1)
    <3>1. n + 1 \in 1 .. n + 1
      OBVIOUS
    <3>2. PICK i \in 1 .. n + 1 : h(i) = x /\ starting(i) /\ \A j \in 1 .. n + 1 : h(j) = x => j <= i
      BY <1>1, <2>2, <3>1 DEF RunsAfter
    <3>3. n + 1 <= i
      BY <1>1, <3>1, <3>2
    <3>4. i = n + 1
      BY <3>3
    <3> QED BY <3>2, <3>4
  <2> QED BY <1>1, <2>1, <2>2
<1>2. CASE h(n + 1) # x
  <2>1. 1 .. n + 1 = 1 .. n \cup {n + 1}
    OBVIOUS
  <2>2. \A j \in 1 .. n : j \in 1 .. n + 1
    OBVIOUS
  <2>3. RunsAfter(x, set, q, n) => RunsAfter(x, set, q, n + 1)
    <3> HIDE DEF h
    <3> QED BY <1>2, <2>1 DEF RunsAfter, h
  <2>4. RunsAfter(x, set, q, n + 1) => RunsAfter(x, set, q, n)
    <3> HIDE DEF h
    <3> QED BY <1>2, <2>1 DEF RunsAfter, h
  <2> QED BY <1>2, <2>3, <2>4
<1> QED BY <1>1, <1>2

\* Processing the queue leaves running what its last commands say.
LEMMA ProcessedRuns ==
  ASSUME NEW set \in SUBSET Handles, NEW q \in Seq(Commands)
  PROVE  Processed(set, q) = {x \in Handles : RunsAfter(x, set, q, Len(q))}
<1> DEFINE Turn(s, n) == Apply(s, q[n])
           g == [n \in 0 .. Len(q) |-> {x \in Handles : RunsAfter(x, set, q, n)}]
           h == CHOOSE f : f = [n \in 0 .. Len(q) |-> IF n = 0 THEN set ELSE Turn(f[n - 1], n)]
<1>0. Len(q) \in Nat
  OBVIOUS
<1>1. Processed(set, q) = h[Len(q)]
  BY DEF Processed
<1>2. g[0] = set
  <2>1. \A x : RunsAfter(x, set, q, 0) <=> x \in set
    BY DEF RunsAfter
  <2> QED BY <1>0, <2>1
<1>3. ASSUME NEW n \in 0 .. Len(q), n # 0 PROVE g[n] = Turn(g[n - 1], n)
  <2>1. n - 1 \in Nat /\ n - 1 \in 0 .. Len(q) /\ (n - 1) + 1 = n
    BY <1>0, <1>3
  <2>2. q[n] \in Commands /\ Handle(q[n]) \in Handles
    <3>1. n \in 1 .. Len(q)
      BY <1>0, <1>3
    <3>2. q[n] \in Commands
      BY <3>1
    <3> QED BY <3>2 DEF Commands, Handle, Handles
  <2>3. ASSUME NEW x \in Handles
        PROVE  x \in Turn(g[n - 1], n) <=> IF Handle(q[n]) = x THEN q[n].op = "start"
                 ELSE RunsAfter(x, set, q, n - 1)
    <3>1. x \in g[n - 1] <=> RunsAfter(x, set, q, n - 1)
      BY <2>1
    <3> HIDE DEF g
    <3> QED BY <2>2, <3>1 DEF Apply, Handle, Commands
  <2>4. ASSUME NEW x \in Handles
        PROVE  x \in g[n] <=> x \in Turn(g[n - 1], n)
    <3>1. x \in g[n] <=> RunsAfter(x, set, q, n)
      OBVIOUS
    <3>2. RunsAfter(x, set, q, (n - 1) + 1) <=>
            IF Handle(q[(n - 1) + 1]) = x THEN q[(n - 1) + 1].op = "start" ELSE RunsAfter(x, set, q, n - 1)
      BY <2>1, RunsAfterStep
    <3> HIDE DEF g, Turn
    <3> QED BY <2>1, <2>3, <3>1, <3>2
  <2>5. g[n] \subseteq Handles /\ g[n - 1] \subseteq Handles
    BY <2>1
  <2> HIDE DEF g
  <2>6. Turn(g[n - 1], n) \subseteq Handles
    BY <2>2, <2>5 DEF Apply, Handle
  <2> HIDE DEF Turn
  <2> QED BY <2>4, <2>5, <2>6
<1>4. g = [n \in 0 .. Len(q) |-> IF n = 0 THEN set ELSE Turn(g[n - 1], n)]
  <2>1. \A n \in 0 .. Len(q) : g[n] = IF n = 0 THEN set ELSE Turn(g[n - 1], n)
    <3> HIDE DEF g, Turn
    <3> QED BY <1>2, <1>3
  <2>2. g = [n \in 0 .. Len(q) |-> g[n]]
    OBVIOUS
  <2> HIDE DEF g, Turn
  <2> QED BY <2>1, <2>2
<1>5. h = [n \in 0 .. Len(q) |-> IF n = 0 THEN set ELSE Turn(h[n - 1], n)]
  <2> HIDE DEF g, Turn
  <2> QED BY <1>4
<1> HIDE DEF h
<1>6. \A n \in Nat : n <= Len(q) => h[n] = g[n]
  <2> DEFINE S == {n \in Nat : n <= Len(q) => h[n] = g[n]}
  <2> HIDE DEF g, Turn
  <2>1. 0 \in S
    BY <1>0, <1>2, <1>5
  <2>2. ASSUME NEW n \in Nat, n \in S PROVE n + 1 \in S
    <3> SUFFICES ASSUME n + 1 <= Len(q) PROVE h[n + 1] = g[n + 1]
        OBVIOUS
    <3>1. n + 1 \in 0 .. Len(q) /\ n + 1 # 0 /\ (n + 1) - 1 = n /\ n <= Len(q)
      BY <1>0
    <3>2. h[n] = g[n]
      BY <2>2, <3>1
    <3>3. h[n + 1] = Turn(h[n], n + 1)
      BY <1>5, <3>1
    <3>4. g[n + 1] = Turn(g[n], n + 1)
      BY <1>3, <3>1
    <3> QED BY <3>2, <3>3, <3>4
  <2> HIDE DEF S
  <2>3. Nat \subseteq S
    BY <2>1, <2>2, SetInduction
  <2> QED BY <2>3 DEF S
<1>7. h[Len(q)] = g[Len(q)]
  BY <1>0, <1>6
<1> QED BY <1>0, <1>1, <1>7

-----------------------------------------------------------------------------
(* The queue of commands.                                                  *)

Calls == {"start", "stop"} \X Timers

TimersOf(calls) == {calls[i][2] : i \in DOMAIN calls}

\* Call i is the last one for timer t.
LastCall(calls, t, i) ==
  i \in DOMAIN calls /\ calls[i][2] = t /\ \A j \in DOMAIN calls : calls[j][2] = t => j <= i

\* The service's queue keeps its bound, and holds no command for a later start.
QueueTypes ==
  /\ starts \in 1 .. MaxStarts
  /\ queue \in Seq(Commands)
  /\ Len(queue) <= QueueLength
  /\ active \subseteq Handles
  /\ \A i \in DOMAIN queue : queue[i].start <= starts
  /\ \A x \in active : x[1] <= starts

\* The commands that found room follow those in the queue.
LEMMA IssueQueue ==
  ASSUME ServiceAssumption, QueueTypes, NEW calls \in Seq(Calls), Issue(calls)
  PROVE  \E k \in Nat :
           /\ k <= Len(calls)
           /\ queue' \in Seq(Commands) /\ Len(queue') = Len(queue) + k /\ Len(queue') <= QueueLength
           /\ \A i \in 1 .. Len(queue) : queue'[i] = queue[i]
           /\ \A i \in 1 .. k : queue'[Len(queue) + i] = [op |-> calls[i][1], start |-> starts,
                timer |-> calls[i][2]]
           /\ \A i \in 1 .. Len(calls) : i <= k <=> i <= QueueLength - Len(queue)
<1> DEFINE cmds == [i \in DOMAIN calls |-> [op |-> calls[i][1], start |-> starts, timer |-> calls[i][2]]]
           all == queue \o cmds
           L == Len(queue)
           n == Len(calls)
           k == IF n <= QueueLength - L THEN n ELSE QueueLength - L
<1>1. L \in Nat /\ n \in Nat /\ QueueLength \in Nat /\ L <= QueueLength /\ DOMAIN calls = 1 .. n
  BY DEF ServiceAssumption, QueueTypes
<1>2. cmds \in Seq(Commands) /\ Len(cmds) = n /\
        \A i \in 1 .. n : cmds[i] = [op |-> calls[i][1], start |-> starts, timer |-> calls[i][2]]
  <2>1. ASSUME NEW i \in 1 .. n PROVE cmds[i] \in Commands
    <3>1. calls[i] \in Calls
      BY <1>1
    <3>2. calls[i][1] \in {"start", "stop"} /\ calls[i][2] \in Timers
      BY <3>1 DEF Calls
    <3> QED BY <1>1, <3>2 DEF Commands, QueueTypes
  <2>2. cmds = [i \in 1 .. n |-> cmds[i]]
    BY <1>1
  <2>3. cmds \in [1 .. n -> Commands]
    <3> HIDE DEF cmds
    <3> QED BY <2>1, <2>2
  <2>4. cmds \in Seq(Commands) /\ Len(cmds) = n
    <3> HIDE DEF cmds
    <3> QED BY <1>1, <2>3
  <2> QED BY <1>1, <2>4
<1>3. queue' = SubSeq(all, 1, IF n <= QueueLength - L THEN Len(all) ELSE QueueLength)
  BY DEF Issue
<1> HIDE DEF cmds
<1>4. /\ all \in Seq(Commands) /\ Len(all) = L + n
      /\ \A i \in 1 .. L + n : all[i] = IF i <= L THEN queue[i] ELSE cmds[i - L]
  <2>1. queue \in Seq(Commands) /\ cmds \in Seq(Commands)
    BY <1>2 DEF QueueTypes
  <2>2. /\ queue \o cmds \in Seq(Commands)
        /\ Len(queue \o cmds) = Len(queue) + Len(cmds)
        /\ \A i \in 1 .. Len(queue) + Len(cmds) :
             (queue \o cmds)[i] = IF i <= Len(queue) THEN queue[i] ELSE cmds[i - Len(queue)]
    BY <2>1, ConcatProperties, Zenon
  <2> QED BY <1>2, <2>2
<1> HIDE DEF all
<1>5. k \in Nat /\ k <= n /\ L + k <= QueueLength /\ queue' = SubSeq(all, 1, L + k)
  BY <1>1, <1>3, <1>4
<1>6. \A i \in 1 .. n : i <= k <=> i <= QueueLength - L
  BY <1>1
<1> HIDE DEF k
<1>7. \A i \in 1 .. L + k : all[i] \in Commands
  BY <1>1, <1>4, <1>5
<1>8. /\ queue' \in Seq(Commands) /\ Len(queue') = L + k
      /\ \A i \in 1 .. L + k : queue'[i] = all[i]
  <2>1. /\ SubSeq(all, 1, L + k) \in Seq(Commands)
        /\ Len(SubSeq(all, 1, L + k)) = IF 1 <= L + k THEN (L + k) - 1 + 1 ELSE 0
        /\ \A i \in 1 .. (L + k) - 1 + 1 : SubSeq(all, 1, L + k)[i] = all[1 + i - 1]
    BY <1>1, <1>5, <1>7, SubSeqProperties
  <2>2. (L + k) - 1 + 1 = L + k /\ \A i \in 1 .. L + k : 1 + i - 1 = i
    BY <1>1, <1>5
  <2> QED BY <1>1, <1>5, <2>1, <2>2
<1>9. ASSUME NEW i \in 1 .. L PROVE queue'[i] = queue[i]
  BY <1>1, <1>4, <1>5, <1>8
<1>10. ASSUME NEW i \in 1 .. k
       PROVE queue'[L + i] = [op |-> calls[i][1], start |-> starts, timer |-> calls[i][2]]
  <2>1. L + i \in 1 .. L + k /\ L + i \in 1 .. L + n /\ ~(L + i <= L) /\ (L + i) - L = i /\ i \in 1 .. n
    BY <1>1, <1>5
  <2>2. queue'[L + i] = cmds[i]
    BY <1>4, <1>8, <2>1
  <2> QED BY <1>2, <2>1, <2>2
<1> QED BY <1>5, <1>6, <1>8, <1>9, <1>10

\* A timer that no call is for keeps what it comes to ...
LEMMA IssueOther ==
  ASSUME ServiceAssumption, QueueTypes, NEW calls \in Seq(Calls), Issue(calls),
         NEW t \in Timers \ TimersOf(calls)
  PROVE  /\ RunsAfter(<<starts, t>>, active, queue', Len(queue')) <=>
           RunsAfter(<<starts, t>>, active, queue, Len(queue))
         /\ t \in lost' <=> t \in lost
<1> DEFINE x == <<starts, t>>
           L == Len(queue)
<1>1. PICK k \in Nat :
           /\ k <= Len(calls)
           /\ queue' \in Seq(Commands) /\ Len(queue') = L + k
           /\ \A i \in 1 .. L : queue'[i] = queue[i]
           /\ \A i \in 1 .. k : queue'[L + i] = [op |-> calls[i][1], start |-> starts, timer |-> calls[i][2]]
  BY IssueQueue
<1>2. L \in Nat
  BY DEF QueueTypes
<1>3. \A i \in 1 .. L : Handle(queue'[i]) = Handle(queue[i]) /\ queue'[i].op = queue[i].op
  BY <1>1
<1>4. ASSUME NEW i \in 1 .. L + k, i \notin 1 .. L PROVE Handle(queue'[i]) # x
  <2>1. i - L \in 1 .. k /\ L + (i - L) = i /\ i - L \in DOMAIN calls
    BY <1>1, <1>2, <1>4
  <2> DEFINE a == i - L
  <2> HIDE DEF a
  <2>2. queue'[i].timer = calls[i - L][2]
    <3>1. a \in 1 .. k /\ L + a = i
      BY <2>1 DEF a
    <3>2. queue'[L + a] = [op |-> calls[a][1], start |-> starts, timer |-> calls[a][2]]
      BY <1>1, <3>1
    <3>3. queue'[i].timer = calls[a][2]
      BY <3>1, <3>2
    <3> QED BY <3>3 DEF a
  <2>3. calls[i - L][2] # t
    BY <2>1 DEF TimersOf
  <2> QED BY <2>2, <2>3 DEF Handle
<1>5. 1 .. L \subseteq 1 .. L + k
  BY <1>2
<1>6. RunsAfter(x, active, queue', L + k) <=> RunsAfter(x, active, queue, L)
  <2> HIDE DEF x, L
  <2> QED BY <1>3, <1>4, <1>5 DEF RunsAfter
<1>7. t \in lost' <=> t \in lost
  BY DEF Issue, TimersOf
<1> QED BY <1>1, <1>6, <1>7

\* ... and one whose last call found room comes to what that call says.
LEMMA IssueLast ==
  ASSUME ServiceAssumption, QueueTypes, NEW calls \in Seq(Calls), Issue(calls),
         NEW t \in TimersOf(calls) \ lost'
  PROVE  \E i : /\ LastCall(calls, t, i)
                /\ RunsAfter(<<starts, t>>, active, queue', Len(queue')) <=> calls[i][1] = "start"
<1> DEFINE x == <<starts, t>>
           L == Len(queue)
           last == CHOOSE i \in DOMAIN calls : calls[i][2] = t /\ \A j \in DOMAIN calls : calls[j][2] = t =>
             j <= i
<1>1. LastCall(calls, t, last)
  <2> DEFINE I == {i \in DOMAIN calls : calls[i][2] = t}
  <2>1. I # {} /\ I \subseteq 1 .. Len(calls) /\ Len(calls) \in Nat
    BY DEF TimersOf
  <2>2. PICK i \in I : \A j \in I : j <= i
    BY <2>1, GreatestElement
  <2> QED BY <2>2 DEF LastCall
<1>2. last <= QueueLength - L
  <2>1. lost' = (lost \ TimersOf(calls)) \cup
          {u \in TimersOf(calls) :
             (CHOOSE i \in DOMAIN calls :
                calls[i][2] = u /\ \A j \in DOMAIN calls : calls[j][2] = u => j <= i) > QueueLength - L}
    BY DEF Issue, TimersOf
  <2>2. ~(last > QueueLength - L)
    BY <2>1
  <2>3. last \in Int /\ QueueLength - L \in Int
    <3>1. last \in DOMAIN calls
      BY <1>1 DEF LastCall
    <3> QED BY <3>1 DEF ServiceAssumption, QueueTypes
  <2> HIDE DEF last
  <2> QED BY <2>2, <2>3
<1> HIDE DEF last
<1>3. PICK k \in Nat :
           /\ k <= Len(calls)
           /\ queue' \in Seq(Commands) /\ Len(queue') = L + k
           /\ \A i \in 1 .. k : queue'[L + i] = [op |-> calls[i][1], start |-> starts, timer |-> calls[i][2]]
           /\ \A i \in 1 .. Len(calls) : i <= k <=> i <= QueueLength - L
  BY IssueQueue
<1>4. L \in Nat /\ last \in 1 .. Len(calls) /\ calls[last][2] = t
  BY <1>1 DEF QueueTypes, LastCall
<1>5. last \in 1 .. k /\ L + last \in 1 .. L + k
  BY <1>2, <1>3, <1>4
<1>6. queue'[L + last] = [op |-> calls[last][1], start |-> starts, timer |-> calls[last][2]]
  BY <1>3, <1>5
<1>7. Handle(queue'[L + last]) = x /\ queue'[L + last].op = calls[last][1]
  BY <1>4, <1>6 DEF Handle
<1>8. ASSUME NEW j \in 1 .. L + k, Handle(queue'[j]) = x PROVE j <= L + last
  <2> SUFFICES ASSUME ~(j <= L) PROVE j <= L + last
      BY <1>4
  <2>1. j - L \in 1 .. k /\ L + (j - L) = j /\ j - L \in DOMAIN calls
    BY <1>3, <1>4
  <2> DEFINE a == j - L
  <2> HIDE DEF a
  <2>2. queue'[j].timer = calls[j - L][2]
    <3>1. a \in 1 .. k /\ L + a = j
      BY <2>1 DEF a
    <3>2. queue'[L + a] = [op |-> calls[a][1], start |-> starts, timer |-> calls[a][2]]
      BY <1>3, <3>1
    <3>3. queue'[j].timer = calls[a][2]
      BY <3>1, <3>2
    <3> QED BY <3>3 DEF a
  <2>3. calls[j - L][2] = t
    BY <1>8, <2>2 DEF Handle
  <2>4. j - L <= last
    BY <1>1, <2>1, <2>3 DEF LastCall
  <2> QED BY <1>4, <2>1, <2>4
<1>9. RunsAfter(x, active, queue', L + k) <=> calls[last][1] = "start"
  <2>1. ASSUME calls[last][1] = "start" PROVE RunsAfter(x, active, queue', L + k)
    <3> HIDE DEF x, L
    <3> QED BY <2>1, <1>5, <1>7, <1>8 DEF RunsAfter
  <2>2. ASSUME RunsAfter(x, active, queue', L + k) PROVE calls[last][1] = "start"
    <3>1. PICK i \in 1 .. L + k : /\ Handle(queue'[i]) = x /\ queue'[i].op = "start"
                                  /\ \A j \in 1 .. L + k : Handle(queue'[j]) = x => j <= i
      <4> HIDE DEF x, L
      <4> QED BY <2>2, <1>5, <1>7 DEF RunsAfter
    <3>2. L + last <= i /\ i <= L + last
      <4> HIDE DEF x
      <4> QED BY <3>1, <1>5, <1>7, <1>8
    <3>3. i = L + last
      BY <3>2, <1>4, <1>5
    <3> QED BY <3>1, <3>3, <1>7
  <2> QED BY <2>1, <2>2
<1> QED BY <1>1, <1>3, <1>9

-----------------------------------------------------------------------------
(* The timers of the port states.                                          *)

\* The elements of short tuples.
LEMMA TupleSets ==
  /\ \A a : ToSet(<<a>>) = {a}
  /\ \A a, b : ToSet(<<a, b>>) = {a, b}
  /\ \A a, b, c : ToSet(<<a, b, c>>) = {a, b, c}
<1>1. \A a : DOMAIN <<a>> = {1}
  OBVIOUS
<1>2. \A a, b : DOMAIN <<a, b>> = {1, 2}
  OBVIOUS
<1>3. \A a, b, c : DOMAIN <<a, b, c>> = {1, 2, 3}
  OBVIOUS
<1>4. \A a : ToSet(<<a>>) = {a}
  BY <1>1 DEF ToSet
<1>5. \A a, b : ToSet(<<a, b>>) = {a, b}
  BY <1>2 DEF ToSet
<1>6. \A a, b, c : ToSet(<<a, b, c>>) = {a, b, c}
  BY <1>3 DEF ToSet
<1> QED BY <1>4, <1>5, <1>6

\* The tuples of timers that toState starts and stops, written out.
LEMMA EnterTuples ==
  ASSUME ServiceAssumption
  PROVE  /\ Enter("MASTER") = IF P2P THEN <<"SYNC_INTERVAL", "ANNOUNCE_INTERVAL", "PDELAYREQ_INTERVAL">>
                              ELSE <<"SYNC_INTERVAL", "ANNOUNCE_INTERVAL">>
         /\ Enter("SLAVE") = <<"ANNOUNCE_RECEIPT", DelayTimer>>
         /\ Enter("PASSIVE") = IF P2P THEN <<"ANNOUNCE_RECEIPT", "PDELAYREQ_INTERVAL">>
              ELSE <<"ANNOUNCE_RECEIPT">>
         /\ Enter("LISTENING") = <<"ANNOUNCE_RECEIPT">>
         /\ Leave("MASTER") = <<"SYNC_INTERVAL", "ANNOUNCE_INTERVAL", "PDELAYREQ_INTERVAL">>
         /\ Leave("SLAVE") = <<"ANNOUNCE_RECEIPT", DelayTimer>>
         /\ Leave("PASSIVE") = <<"PDELAYREQ_INTERVAL", "ANNOUNCE_RECEIPT">>
         /\ Leave("LISTENING") = <<"ANNOUNCE_RECEIPT">>
<1>1. ASSUME NEW a, NEW b, NEW c PROVE <<a, b>> \o <<c>> = <<a, b, c>>
  <2> DEFINE s == <<a, b>> \o <<c>>
             S == {a, b, c}
  <2>1. <<a, b>> \in Seq(S) /\ <<c>> \in Seq(S) /\ <<a, b, c>> \in Seq(S)
    OBVIOUS
  <2>2. s \in Seq(S) /\ Len(s) = 3
    BY <2>1
  <2>3. s[1] = a /\ s[2] = b /\ s[3] = c
    BY <2>1
  <2> HIDE DEF s, S
  <2>4. \A i \in 1 .. Len(s) : s[i] = <<a, b, c>>[i]
    BY <2>2, <2>3
  <2> QED BY <2>1, <2>2, <2>4, SeqEqual DEF s
<1>2. ASSUME NEW a, NEW b PROVE <<a>> \o <<b>> = <<a, b>>
  <2> DEFINE s == <<a>> \o <<b>>
             S == {a, b}
  <2>1. <<a>> \in Seq(S) /\ <<b>> \in Seq(S) /\ <<a, b>> \in Seq(S)
    OBVIOUS
  <2>2. s \in Seq(S) /\ Len(s) = 2
    BY <2>1
  <2>3. s[1] = a /\ s[2] = b
    BY <2>1
  <2> HIDE DEF s, S
  <2>4. \A i \in 1 .. Len(s) : s[i] = <<a, b>>[i]
    BY <2>2, <2>3
  <2> QED BY <2>1, <2>2, <2>4, SeqEqual DEF s
<1>3. \A a, b : <<a, b>> \o <<>> = <<a, b>> /\ <<a>> \o <<>> = <<a>>
  OBVIOUS
<1>4. P2P \in BOOLEAN
  BY DEF ServiceAssumption
<1>5. /\ Enter("MASTER") = <<"SYNC_INTERVAL", "ANNOUNCE_INTERVAL">> \o PeerDelayTimer
      /\ Enter("PASSIVE") = <<"ANNOUNCE_RECEIPT">> \o PeerDelayTimer
  BY DEF Enter
<1>6. CASE P2P
  BY <1>1, <1>2, <1>5, <1>6 DEF Enter, Leave, PeerDelayTimer
<1>7. CASE ~P2P
  BY <1>3, <1>5, <1>7 DEF Enter, Leave, PeerDelayTimer
<1> QED BY <1>4, <1>6, <1>7

\* toState stops every timer that it started on entering the state, and the handlers start
\* again only timers of the present state.
LEMMA RoleTimers ==
  ASSUME ServiceAssumption
  PROVE  /\ \A r \in {"LISTENING", "SLAVE", "PASSIVE", "MASTER"} :
              Enter(r) \in Seq(Timers) /\ Leave(r) \in Seq(Timers) /\ ToSet(Enter(r)) \subseteq ToSet(Leave(r))
         /\ ToSet(Enter("LISTENING")) = {"ANNOUNCE_RECEIPT"}
         /\ "ANNOUNCE_RECEIPT" \in ToSet(Enter("SLAVE")) /\ "ANNOUNCE_RECEIPT" \in ToSet(Enter("PASSIVE"))
         /\ DelayTimer \in ToSet(Enter("SLAVE"))
         /\ P2P => DelayTimer \in ToSet(Enter("PASSIVE")) /\ DelayTimer \in ToSet(Enter("MASTER"))
<1>1. \A a, b, c \in Timers : <<a>> \in Seq(Timers) /\ <<a, b>> \in Seq(Timers) /\ <<a, b, c>> \in Seq(Timers)
  OBVIOUS
<1>2. /\ DelayTimer \in Timers /\ "ANNOUNCE_RECEIPT" \in Timers /\ "SYNC_INTERVAL" \in Timers
      /\ "ANNOUNCE_INTERVAL" \in Timers /\ "PDELAYREQ_INTERVAL" \in Timers
  BY DEF DelayTimer, Timers
<1>3. Enter("LISTENING") \in Seq(Timers) /\ Leave("LISTENING") \in Seq(Timers)
      /\ ToSet(Enter("LISTENING")) \subseteq ToSet(Leave("LISTENING")) /\
           ToSet(Enter("LISTENING")) = {"ANNOUNCE_RECEIPT"}
  BY EnterTuples, TupleSets, <1>1, <1>2
<1>4. Enter("SLAVE") \in Seq(Timers) /\ Leave("SLAVE") \in Seq(Timers)
      /\ ToSet(Enter("SLAVE")) \subseteq ToSet(Leave("SLAVE")) /\
           ToSet(Enter("SLAVE")) = {"ANNOUNCE_RECEIPT", DelayTimer}
  BY EnterTuples, TupleSets, <1>1, <1>2
<1>5. Enter("PASSIVE") \in Seq(Timers) /\ Leave("PASSIVE") \in Seq(Timers)
      /\ ToSet(Enter("PASSIVE")) \subseteq ToSet(Leave("PASSIVE")) /\
           "ANNOUNCE_RECEIPT" \in ToSet(Enter("PASSIVE"))
      /\ (P2P => "PDELAYREQ_INTERVAL" \in ToSet(Enter("PASSIVE")))
  <2>1. ToSet(Leave("PASSIVE")) = {"PDELAYREQ_INTERVAL", "ANNOUNCE_RECEIPT"} /\ Leave("PASSIVE") \in Seq(Timers)
    <3>1. Leave("PASSIVE") = <<"PDELAYREQ_INTERVAL", "ANNOUNCE_RECEIPT">>
      BY EnterTuples
    <3> QED BY <3>1, TupleSets, <1>1, <1>2
  <2>2. CASE P2P
    <3>1. Enter("PASSIVE") = <<"ANNOUNCE_RECEIPT", "PDELAYREQ_INTERVAL">>
      BY <2>2, EnterTuples
    <3>2. ToSet(Enter("PASSIVE")) = {"ANNOUNCE_RECEIPT", "PDELAYREQ_INTERVAL"} /\
            Enter("PASSIVE") \in Seq(Timers)
      BY <3>1, TupleSets, <1>1, <1>2
    <3> QED BY <2>2, <2>1, <3>2
  <2>3. CASE ~P2P
    <3>1. Enter("PASSIVE") = <<"ANNOUNCE_RECEIPT">>
      BY <2>3, EnterTuples
    <3>2. ToSet(Enter("PASSIVE")) = {"ANNOUNCE_RECEIPT"} /\ Enter("PASSIVE") \in Seq(Timers)
      BY <3>1, TupleSets, <1>1, <1>2
    <3> QED BY <2>3, <2>1, <3>2
  <2> QED BY <2>2, <2>3
<1>6. Enter("MASTER") \in Seq(Timers) /\ Leave("MASTER") \in Seq(Timers)
      /\ ToSet(Enter("MASTER")) \subseteq ToSet(Leave("MASTER"))
      /\ (P2P => "PDELAYREQ_INTERVAL" \in ToSet(Enter("MASTER")))
  <2> DEFINE all == <<"SYNC_INTERVAL", "ANNOUNCE_INTERVAL", "PDELAYREQ_INTERVAL">>
  <2>4. all \in Seq(Timers)
    BY <1>1, <1>2, Zenon
  <2>5. ToSet(all) = {"SYNC_INTERVAL", "ANNOUNCE_INTERVAL", "PDELAYREQ_INTERVAL"}
    BY TupleSets, SMT
  <2>1. ToSet(Leave("MASTER")) = {"SYNC_INTERVAL", "ANNOUNCE_INTERVAL", "PDELAYREQ_INTERVAL"} /\
          Leave("MASTER") \in Seq(Timers)
    <3>1. Leave("MASTER") = all
      BY EnterTuples
    <3> QED BY <3>1, <2>4, <2>5
  <2>2. CASE P2P
    <3>1. Enter("MASTER") = all
      BY <2>2, EnterTuples
    <3>2. ToSet(Enter("MASTER")) = {"SYNC_INTERVAL", "ANNOUNCE_INTERVAL", "PDELAYREQ_INTERVAL"} /\
            Enter("MASTER") \in Seq(Timers)
      BY <3>1, <2>4, <2>5
    <3> QED BY <2>2, <2>1, <3>2
  <2>3. CASE ~P2P
    <3>1. Enter("MASTER") = <<"SYNC_INTERVAL", "ANNOUNCE_INTERVAL">>
      BY <2>3, EnterTuples
    <3>2. ToSet(Enter("MASTER")) = {"SYNC_INTERVAL", "ANNOUNCE_INTERVAL"} /\ Enter("MASTER") \in Seq(Timers)
      BY <3>1, TupleSets, <1>1, <1>2
    <3> QED BY <2>3, <2>1, <3>2
  <2> QED BY <2>2, <2>3
<1>7. P2P => DelayTimer = "PDELAYREQ_INTERVAL"
  BY DEF DelayTimer
<1> QED BY <1>3, <1>4, <1>5, <1>6, <1>7

\* The calls of timerStop and timerStart in a row.
LEMMA StartCalls ==
  ASSUME NEW ts \in Seq(Timers)
  PROVE  /\ TimerStart(ts) \in Seq(Calls) /\ TimerStop(ts) \in Seq(Calls)
         /\ Len(TimerStart(ts)) = Len(ts) /\ Len(TimerStop(ts)) = Len(ts)
         /\ \A i \in 1 .. Len(ts) : TimerStart(ts)[i] = <<"start", ts[i]>> /\
              TimerStop(ts)[i] = <<"stop", ts[i]>>
<1>1. ts \in [1 .. Len(ts) -> Timers] /\ Len(ts) \in Nat /\ DOMAIN ts = 1 .. Len(ts)
  OBVIOUS
<1>2. ASSUME NEW i \in 1 .. Len(ts) PROVE <<"start", ts[i]>> \in Calls /\ <<"stop", ts[i]>> \in Calls
  BY <1>1 DEF Calls
<1>3. TimerStart(ts) \in [1 .. Len(ts) -> Calls] /\ TimerStop(ts) \in [1 .. Len(ts) -> Calls]
  BY <1>1, <1>2 DEF TimerStart, TimerStop
<1>4. \A i \in 1 .. Len(ts) : TimerStart(ts)[i] = <<"start", ts[i]>> /\ TimerStop(ts)[i] = <<"stop", ts[i]>>
  BY <1>1 DEF TimerStart, TimerStop
<1>5. \A f \in [1 .. Len(ts) -> Calls] : f \in Seq(Calls) /\ Len(f) = Len(ts)
  BY <1>1
<1> QED BY <1>3, <1>4, <1>5

-----------------------------------------------------------------------------
(* The steps.                                                              *)

TimerInv == TypeOK /\ QueueTypes /\ CommandsAgree

\* The timers that run once the queue is processed, by its last commands.
LEMMA SettledRuns ==
  ASSUME QueueTypes
  PROVE  \A t \in Timers : t \in Settled <=> RunsAfter(<<starts, t>>, active, queue, Len(queue))
<1>1. Processed(active, queue) = {x \in Handles : RunsAfter(x, active, queue, Len(queue))}
  BY ProcessedRuns DEF QueueTypes
<1>2. \A t \in Timers : <<starts, t>> \in Handles
  BY DEF QueueTypes, Handles
<1> QED BY <1>1, <1>2 DEF Settled

\* What timerStart and timerStop leave of the types.
LEMMA IssueTypes ==
  ASSUME ServiceAssumption, TypeOK, QueueTypes, NEW calls \in Seq(Calls), Issue(calls),
         UNCHANGED <<starts, active>>
  PROVE  /\ QueueTypes'
         /\ expired' \subseteq Timers /\ lost' \subseteq Timers
         /\ \A i \in DOMAIN queue' : queue'[i] \in Commands
<1>1. PICK k \in Nat :
           /\ k <= Len(calls)
           /\ queue' \in Seq(Commands) /\ Len(queue') = Len(queue) + k /\ Len(queue') <= QueueLength
           /\ \A i \in 1 .. Len(queue) : queue'[i] = queue[i]
           /\ \A i \in 1 .. k : queue'[Len(queue) + i] = [op |-> calls[i][1], start |-> starts,
                timer |-> calls[i][2]]
  BY IssueQueue
<1>2. Len(queue) \in Nat /\ starts \in Int /\ DOMAIN queue = 1 .. Len(queue) /\
        DOMAIN queue' = 1 .. Len(queue) + k
  BY <1>1 DEF QueueTypes
<1>3. ASSUME NEW i \in DOMAIN queue' PROVE queue'[i].start <= starts
  <2>1. CASE i <= Len(queue)
    BY <1>1, <1>2, <2>1 DEF QueueTypes
  <2>2. CASE ~(i <= Len(queue))
    <3> DEFINE a == i - Len(queue)
    <3>1. a \in 1 .. k /\ Len(queue) + a = i
      BY <1>2, <2>2
    <3> HIDE DEF a
    <3>2. queue'[Len(queue) + a] = [op |-> calls[a][1], start |-> starts, timer |-> calls[a][2]]
      BY <1>1, <3>1
    <3>3. queue'[i].start = starts
      BY <3>1, <3>2
    <3> QED BY <1>2, <3>3
  <2> QED BY <2>1, <2>2
<1>4. QueueTypes'
  BY <1>1, <1>3 DEF QueueTypes
<1>5. TimersOf(calls) \subseteq Timers
  <2>1. ASSUME NEW i \in DOMAIN calls PROVE calls[i][2] \in Timers
    <3>1. calls[i] \in Calls
      OBVIOUS
    <3> QED BY <3>1 DEF Calls
  <2> QED BY <2>1 DEF TimersOf
<1>6. expired' \subseteq expired /\ lost' \subseteq lost \cup TimersOf(calls)
  BY DEF Issue, TimersOf
<1>7. \A i \in DOMAIN queue' : queue'[i] \in Commands
  BY <1>1
<1> QED BY <1>4, <1>5, <1>6, <1>7 DEF TypeOK

\* Calls that leave running what the state to needs keep CommandsAgree.
LEMMA IssueAgrees ==
  ASSUME ServiceAssumption, TimerInv, NEW calls \in Seq(Calls), Issue(calls), UNCHANGED <<starts, active>>,
         \A t \in Timers \ TimersOf(calls) : t \in ToSet(Enter(role')) <=> t \in ToSet(Enter(role)),
         \A t \in TimersOf(calls), i \in DOMAIN calls :
            LastCall(calls, t, i) => (calls[i][1] = "start" <=> t \in ToSet(Enter(role')))
  PROVE  CommandsAgree'
<1> SUFFICES ASSUME NEW t \in Timers, t \notin lost' PROVE t \in Settled' <=> t \in ToSet(Enter(role'))
    BY DEF CommandsAgree
<1>1. QueueTypes /\ QueueTypes'
  BY IssueTypes DEF TimerInv
<1>2. t \in Settled' <=> RunsAfter(<<starts, t>>, active, queue', Len(queue'))
  <2>1. active' \in SUBSET Handles /\ queue' \in Seq(Commands) /\ <<starts', t>> \in Handles
    BY <1>1 DEF QueueTypes, Handles
  <2>2. Processed(active', queue') = {x \in Handles : RunsAfter(x, active', queue', Len(queue'))}
    BY <2>1, ProcessedRuns
  <2> QED BY <2>1, <2>2 DEF Settled
<1>3. CASE t \in TimersOf(calls)
  <2>1. PICK i : /\ LastCall(calls, t, i)
                 /\ RunsAfter(<<starts, t>>, active, queue', Len(queue')) <=> calls[i][1] = "start"
    BY <1>1, <1>3, IssueLast
  <2>2. i \in DOMAIN calls
    BY <2>1 DEF LastCall
  <2> QED BY <1>2, <1>3, <2>1, <2>2
<1>4. CASE t \notin TimersOf(calls)
  <2>1. /\ RunsAfter(<<starts, t>>, active, queue', Len(queue')) <=>
             RunsAfter(<<starts, t>>, active, queue, Len(queue))
        /\ t \notin lost
    BY <1>1, <1>4, IssueOther
  <2>2. t \in Settled <=> RunsAfter(<<starts, t>>, active, queue, Len(queue))
    BY <1>1, SettledRuns
  <2>3. t \in Settled <=> t \in ToSet(Enter(role))
    BY <2>1 DEF TimerInv, CommandsAgree
  <2> QED BY <1>2, <1>4, <2>1, <2>2, <2>3
<1> QED BY <1>3, <1>4

\* toState stops before it starts: a timer that both states need runs.
LEMMA ToStateInv ==
  ASSUME ServiceAssumption, TimerInv, NEW to \in Roles, ToState(to)
  PROVE  TimerInv'
<1> DEFINE off == Leave(role)
           on == Enter(to)
           calls == TimerStop(off) \o TimerStart(on)
           m == Len(off)
<1>0. role \in {"LISTENING", "SLAVE", "PASSIVE", "MASTER"} /\ to \in {"LISTENING", "SLAVE", "PASSIVE", "MASTER"}
  BY DEF TimerInv, TypeOK, Roles
<1>1. off \in Seq(Timers) /\ on \in Seq(Timers) /\ ToSet(Enter(role)) \subseteq ToSet(off)
  BY <1>0, RoleTimers
<1>2. Issue(calls) /\ role' = to /\ UNCHANGED <<waiting, starts, active, firing>>
  BY DEF ToState
<1> HIDE DEF off, on
<1>3. /\ calls \in Seq(Calls) /\ Len(calls) = m + Len(on) /\ m \in Nat /\ Len(on) \in Nat
      /\ \A i \in 1 .. m + Len(on) : calls[i] = IF i <= m THEN <<"stop", off[i]>> ELSE <<"start", on[i - m]>>
  <2>1. /\ TimerStop(off) \in Seq(Calls) /\ Len(TimerStop(off)) = m
        /\ \A i \in 1 .. m : TimerStop(off)[i] = <<"stop", off[i]>>
    BY <1>1, StartCalls
  <2>2. /\ TimerStart(on) \in Seq(Calls) /\ Len(TimerStart(on)) = Len(on)
        /\ \A i \in 1 .. Len(on) : TimerStart(on)[i] = <<"start", on[i]>>
    BY <1>1, StartCalls
  <2> DEFINE a == TimerStop(off)
             b == TimerStart(on)
  <2>3. /\ calls \in Seq(Calls)
        /\ Len(calls) = Len(a) + Len(b)
        /\ \A i \in 1 .. Len(a) + Len(b) : calls[i] = IF i <= Len(a) THEN a[i] ELSE b[i - Len(a)]
    <3>1. a \in Seq(Calls) /\ b \in Seq(Calls)
      BY <2>1, <2>2
    <3>2. calls = a \o b
      OBVIOUS
    <3> HIDE DEF a, b, calls
    <3>3. /\ a \o b \in Seq(Calls)
          /\ Len(a \o b) = Len(a) + Len(b)
          /\ \A i \in 1 .. Len(a) + Len(b) : (a \o b)[i] = IF i <= Len(a) THEN a[i] ELSE b[i - Len(a)]
      BY <3>1, ConcatProperties, Zenon
    <3> QED BY <3>2, <3>3
  <2>4. m \in Nat /\ Len(on) \in Nat
    BY <1>1
  <2> HIDE DEF calls, m
  <2>5. ASSUME NEW i \in 1 .. m + Len(on)
        PROVE  calls[i] = IF i <= m THEN <<"stop", off[i]>> ELSE <<"start", on[i - m]>>
    <3>1. CASE i <= m
      BY <2>1, <2>2, <2>3, <2>4, <3>1
    <3>2. CASE ~(i <= m)
      <4>1. i - m \in 1 .. Len(on)
        BY <2>4, <3>2
      <4>2. calls[i] = TimerStart(on)[i - m]
        BY <2>1, <2>2, <2>3, <3>2
      <4> QED BY <2>2, <3>2, <4>1, <4>2
    <3> QED BY <3>1, <3>2
  <2> QED BY <2>1, <2>2, <2>3, <2>4, <2>5
<1> HIDE DEF calls, m
<1>4. DOMAIN calls = 1 .. m + Len(on) /\ DOMAIN off = 1 .. m /\ DOMAIN on = 1 .. Len(on)
  BY <1>1, <1>3 DEF m
<1>5. \A i \in 1 .. m : i \in DOMAIN calls /\ calls[i][1] = "stop" /\ calls[i][2] = off[i]
  BY <1>3, <1>4
<1>6. ASSUME NEW j \in 1 .. Len(on)
      PROVE  m + j \in DOMAIN calls /\ m + j > m /\ calls[m + j][1] = "start" /\ calls[m + j][2] = on[j]
  <2>1. m + j \in 1 .. m + Len(on) /\ ~(m + j <= m) /\ (m + j) - m = j
    BY <1>3
  <2>2. calls[m + j] = <<"start", on[(m + j) - m]>>
    BY <1>3, <2>1
  <2> QED BY <1>3, <1>4, <2>1, <2>2
<1>7. ASSUME NEW t \in Timers \ TimersOf(calls) PROVE t \notin ToSet(on) /\ t \notin ToSet(Enter(role))
  <2>1. t \notin ToSet(off)
    BY <1>4, <1>5 DEF ToSet, TimersOf
  <2>2. t \notin ToSet(on)
    BY <1>4, <1>6 DEF ToSet, TimersOf
  <2> QED BY <1>1, <2>1, <2>2
<1>8. ASSUME NEW t \in TimersOf(calls), NEW i \in DOMAIN calls, LastCall(calls, t, i)
      PROVE  calls[i][1] = "start" <=> t \in ToSet(on)
  <2>1. ASSUME t \in ToSet(on) PROVE calls[i][1] = "start"
    <3>1. PICK j \in 1 .. Len(on) : on[j] = t
      BY <1>4, <2>1 DEF ToSet
    <3>2. m + j <= i
      BY <1>6, <1>8, <3>1 DEF LastCall
    <3>3. i \in 1 .. m + Len(on) /\ ~(i <= m)
      BY <1>3, <1>4, <3>2
    <3>4. calls[i] = <<"start", on[i - m]>>
      BY <1>3, <3>3
    <3> QED BY <3>4
  <2>2. ASSUME calls[i][1] = "start" PROVE t \in ToSet(on)
    <3>1. i \in 1 .. m + Len(on) /\ ~(i <= m)
      BY <1>4, <1>5, <2>2, <1>3
    <3>2. calls[i] = <<"start", on[i - m]>>
      BY <1>3, <3>1
    <3>3. i - m \in DOMAIN on
      BY <1>3, <1>4, <3>1
    <3>4. on[i - m] = t
      BY <1>8, <3>2 DEF LastCall
    <3> QED BY <3>3, <3>4 DEF ToSet
  <2> QED BY <2>1, <2>2
<1>9. CommandsAgree'
  BY <1>2, <1>3, <1>7, <1>8, IssueAgrees DEF on
<1>10. /\ QueueTypes'
       /\ expired' \subseteq Timers /\ lost' \subseteq Timers
       /\ \A i \in DOMAIN queue' : queue'[i] \in Commands
  BY <1>2, <1>3, IssueTypes DEF TimerInv
<1>11. TypeOK'
  <2>1. UNCHANGED <<waiting, starts, active, firing>> /\ role' \in Roles
    BY <1>2
  <2> QED BY <1>10, <2>1 DEF TimerInv, TypeOK, QueueTypes
<1> QED BY <1>9, <1>10, <1>11 DEF TimerInv

\* A timer that the state needs is started again.
LEMMA StartAgainInv ==
  ASSUME ServiceAssumption, TimerInv, NEW t \in Timers, t \in ToSet(Enter(role)), Issue(TimerStart(<<t>>)),
         UNCHANGED <<role, waiting, starts, active, firing>>
  PROVE  TimerInv'
<1> DEFINE calls == TimerStart(<<t>>)
<1>1. calls \in Seq(Calls) /\ DOMAIN calls = {1} /\ calls[1] = <<"start", t>>
  <2>1. <<t>> \in Seq(Timers) /\ Len(<<t>>) = 1 /\ <<t>>[1] = t
    OBVIOUS
  <2>2. /\ calls \in Seq(Calls) /\ Len(calls) = Len(<<t>>)
        /\ \A i \in 1 .. Len(<<t>>) : calls[i] = <<"start", <<t>>[i]>>
    BY <2>1, StartCalls
  <2> HIDE DEF calls
  <2> QED BY <2>1, <2>2
<1> HIDE DEF calls
<1>2. TimersOf(calls) = {t}
  BY <1>1 DEF TimersOf
<1>3. \A u \in TimersOf(calls), i \in DOMAIN calls : LastCall(calls, u, i) =>
        (calls[i][1] = "start" <=> u \in ToSet(Enter(role')))
  BY <1>1, <1>2
<1>4. CommandsAgree'
  BY <1>1, <1>3, IssueAgrees DEF calls
<1>5. /\ QueueTypes'
      /\ expired' \subseteq Timers /\ lost' \subseteq Timers
      /\ \A i \in DOMAIN queue' : queue'[i] \in Commands
  BY <1>1, IssueTypes DEF TimerInv, calls
<1>6. TypeOK'
  BY <1>5 DEF TimerInv, TypeOK, QueueTypes
<1> QED BY <1>4, <1>5, <1>6 DEF TimerInv

\* "ptpd start" creates the timers anew: no command and no running timer is of the new start.
LEMMA RestartInv ==
  ASSUME ServiceAssumption, TimerInv, Restart
  PROVE  TimerInv'
<1> DEFINE cmd == [op |-> "start", start |-> starts + 1, timer |-> "ANNOUNCE_RECEIPT"]
           L == Len(queue)
<1>1. /\ starts' = starts + 1 /\ starts' \in 1 .. MaxStarts /\ starts \in Nat /\ role' = "LISTENING"
      /\ waiting' = FALSE /\ expired' = {} /\ UNCHANGED <<active, firing>>
  BY DEF Restart, TimerInv, TypeOK, ServiceAssumption
<1>2. cmd \in Commands /\ Handle(cmd) = <<starts + 1, "ANNOUNCE_RECEIPT">>
  BY <1>1 DEF Commands, Timers, Handle
<1>3. queue \in Seq(Commands) /\ L \in Nat /\ DOMAIN queue = 1 .. L /\ L <= QueueLength /\
        active \subseteq Handles
  BY DEF TimerInv, QueueTypes
<1>4. \/ /\ L < QueueLength /\ queue' = Append(queue, cmd) /\ lost' = {}
      \/ queue' = queue /\ lost' = {"ANNOUNCE_RECEIPT"}
  BY DEF Restart
<1>5. \A i \in 1 .. L : queue[i] \in Commands /\ queue[i].start <= starts
  BY <1>3 DEF TimerInv, QueueTypes
<1>6. ASSUME NEW t PROVE <<starts + 1, t>> \notin active /\
             \A i \in 1 .. L : Handle(queue[i]) # <<starts + 1, t>>
  <2>1. ASSUME NEW i \in 1 .. L PROVE queue[i].start # starts + 1
    <3>1. queue[i].start \in Int /\ queue[i].start <= starts
      BY <1>5 DEF Commands
    <3> QED BY <1>1, <3>1
  <2>2. \A x \in active : x[1] \in Int /\ x[1] <= starts
    BY <1>3 DEF TimerInv, QueueTypes, Handles
  <2> QED BY <1>1, <2>1, <2>2 DEF Handle
<1>7. ToSet(Enter(role')) = {"ANNOUNCE_RECEIPT"}
  BY <1>1, RoleTimers
<1>8. CASE L < QueueLength /\ queue' = Append(queue, cmd) /\ lost' = {}
  <2>1. /\ queue' \in Seq(Commands) /\ Len(queue') = L + 1 /\ queue'[L + 1] = cmd
        /\ \A i \in 1 .. L : queue'[i] = queue[i]
    BY <1>2, <1>3, <1>8
  <2> HIDE DEF cmd, L
  <2>2. 1 .. L + 1 = 1 .. L \cup {L + 1} /\ DOMAIN queue' = 1 .. L + 1 /\ L + 1 <= QueueLength
    BY <1>3, <1>8, <2>1 DEF ServiceAssumption
  <2>3. QueueTypes'
    <3>1. ASSUME NEW i \in 1 .. L + 1 PROVE queue'[i].start <= starts'
      <4>1. CASE i \in 1 .. L
        <5>1. queue'[i].start \in Int /\ queue'[i].start <= starts
          BY <1>5, <2>1, <4>1 DEF Commands
        <5> QED BY <1>1, <5>1
      <4>2. CASE i = L + 1
        BY <1>1, <2>1, <4>2 DEF cmd
      <4> QED BY <2>2, <4>1, <4>2
    <3>2. \A x \in active : x[1] \in Int /\ x[1] <= starts
      BY <1>3 DEF TimerInv, QueueTypes, Handles
    <3>3. \A x \in active : x[1] <= starts'
      BY <1>1, <3>2
    <3> QED BY <1>1, <1>3, <2>1, <2>2, <3>1, <3>3 DEF QueueTypes
  <2>4. ASSUME NEW t \in Timers
        PROVE  RunsAfter(<<starts + 1, t>>, active, queue', L + 1) <=> t = "ANNOUNCE_RECEIPT"
    <3> DEFINE x == <<starts + 1, t>>
    <3>1. \A i \in 1 .. L : Handle(queue'[i]) # x
      BY <1>6, <2>1
    <3>2. Handle(queue'[L + 1]) = x <=> t = "ANNOUNCE_RECEIPT"
      BY <1>2, <2>1
    <3>3. queue'[L + 1].op = "start" /\ x \notin active
      BY <1>6, <2>1 DEF cmd
    <3>4. \A j \in 1 .. L + 1 : j <= L + 1
      BY <1>3
    <3>5. L + 1 \in 1 .. L + 1
      BY <2>2
    <3> HIDE DEF x
    <3>6. CASE t = "ANNOUNCE_RECEIPT"
      <4>1. Handle(queue'[L + 1]) = x
        BY <3>2, <3>6
      <4> QED BY <3>3, <3>4, <3>5, <3>6, <4>1 DEF RunsAfter, x
    <3>7. CASE t # "ANNOUNCE_RECEIPT"
      <4>1. \A i \in 1 .. L + 1 : Handle(queue'[i]) # x
        BY <2>2, <3>1, <3>2, <3>7
      <4>2. ~RunsAfter(x, active, queue', L + 1)
        BY <3>3, <4>1 DEF RunsAfter
      <4> QED BY <3>7, <4>2 DEF x
    <3> QED BY <3>6, <3>7
  <2>5. ASSUME NEW t \in Timers PROVE t \in Settled' <=> t = "ANNOUNCE_RECEIPT"
    <3>1. active' \in SUBSET Handles /\ <<starts', t>> \in Handles
      BY <1>1, <1>3 DEF Handles
    <3>2. Processed(active', queue') = {x \in Handles : RunsAfter(x, active', queue', Len(queue'))}
      BY <2>1, <3>1, ProcessedRuns
    <3>3. t \in Settled' <=> RunsAfter(<<starts', t>>, active', queue', Len(queue'))
      BY <3>1, <3>2 DEF Settled
    <3> QED BY <1>1, <2>1, <2>4, <3>3
  <2>6. CommandsAgree'
    BY <1>7, <2>5 DEF CommandsAgree
  <2>7. TypeOK'
    <3>1. role' \in Roles /\ waiting' \in BOOLEAN /\ expired' \subseteq Timers /\ lost' \subseteq Timers
      BY <1>1, <1>8 DEF Roles
    <3>2. firing' \subseteq active' /\ \A i \in DOMAIN queue' : queue'[i] \in Commands
      BY <1>1, <2>1 DEF TimerInv, TypeOK
    <3> QED BY <2>3, <3>1, <3>2 DEF TypeOK, QueueTypes
  <2> QED BY <2>3, <2>6, <2>7 DEF TimerInv
<1>9. CASE queue' = queue /\ lost' = {"ANNOUNCE_RECEIPT"}
  <2> HIDE DEF cmd
  <2>1. QueueTypes'
    <3>1. \A x \in active : x[1] \in Int /\ x[1] <= starts
      BY <1>3 DEF TimerInv, QueueTypes, Handles
    <3>2. \A x \in active : x[1] <= starts'
      BY <1>1, <3>1
    <3>3. ASSUME NEW i \in 1 .. L PROVE queue[i].start <= starts'
      <4>1. queue[i].start \in Int /\ queue[i].start <= starts
        BY <1>5 DEF Commands
      <4> QED BY <1>1, <4>1
    <3> QED BY <1>1, <1>3, <1>9, <3>2, <3>3 DEF QueueTypes
  <2>2. ASSUME NEW t \in Timers PROVE ~RunsAfter(<<starts + 1, t>>, active, queue, L)
    <3> HIDE DEF L
    <3> QED BY <1>6 DEF RunsAfter
  <2>3. ASSUME NEW t \in Timers PROVE t \notin Settled'
    <3>1. active' \in SUBSET Handles /\ <<starts', t>> \in Handles
      BY <1>1, <1>3 DEF Handles
    <3>2. Processed(active', queue') = {x \in Handles : RunsAfter(x, active', queue', Len(queue'))}
      BY <1>3, <1>9, <3>1, ProcessedRuns
    <3>3. t \in Settled' <=> RunsAfter(<<starts', t>>, active', queue', Len(queue'))
      BY <3>1, <3>2 DEF Settled
    <3> QED BY <1>1, <1>9, <2>2, <3>3
  <2>4. CommandsAgree'
    BY <1>7, <1>9, <2>3 DEF CommandsAgree
  <2>5. TypeOK'
    BY <1>1, <1>9 DEF TimerInv, TypeOK, QueueTypes, Roles, Timers
  <2> QED BY <2>1, <2>4, <2>5 DEF TimerInv
<1> QED BY <1>4, <1>8, <1>9

\* Processing the first command changes nothing of what the queue comes to.
LEMMA ProcessKeeps ==
  ASSUME NEW set \in SUBSET Handles, NEW q \in Seq(Commands), q # <<>>, NEW x \in Handles
  PROVE  RunsAfter(x, Apply(set, Head(q)), Tail(q), Len(Tail(q))) <=> RunsAfter(x, set, q, Len(q))
<1> DEFINE r == Tail(q)
           n == Len(r)
<1>1. /\ n \in Nat /\ Len(q) = n + 1 /\ Head(q) = q[1] /\ q[1] \in Commands
      /\ \A i \in 1 .. n : r[i] = q[i + 1]
  <2>1. Len(q) \in Nat \ {0}
    OBVIOUS
  <2> QED BY <2>1
<1>2. x \in Apply(set, q[1]) <=> IF Handle(q[1]) = x THEN q[1].op = "start" ELSE x \in set
  BY <1>1 DEF Apply, Handle, Commands
<1> HIDE DEF r, n
<1>3. 1 \in 1 .. n + 1 /\ \A i \in 1 .. n : i + 1 \in 1 .. n + 1
  BY <1>1
<1>4. ASSUME NEW i \in 1 .. n + 1, i # 1 PROVE i - 1 \in 1 .. n /\ r[i - 1] = q[i]
  BY <1>1, <1>4
<1>5. ASSUME RunsAfter(x, Apply(set, q[1]), r, n) PROVE RunsAfter(x, set, q, n + 1)
  <2>1. CASE \E i \in 1 .. n : Handle(r[i]) = x /\ r[i].op = "start" /\ \A j \in 1 .. n : Handle(r[j]) = x =>
               j <= i
    <3>1. PICK i \in 1 .. n : Handle(r[i]) = x /\ r[i].op = "start" /\ \A j \in 1 .. n : Handle(r[j]) = x =>
            j <= i
      BY <2>1
    <3>2. i + 1 \in 1 .. n + 1 /\ Handle(q[i + 1]) = x /\ q[i + 1].op = "start"
      BY <1>1, <1>3, <3>1
    <3>3. ASSUME NEW j \in 1 .. n + 1, Handle(q[j]) = x PROVE j <= i + 1
      <4>1. CASE j = 1
        BY <1>1, <4>1
      <4>2. CASE j # 1
        <5>1. j - 1 \in 1 .. n /\ Handle(r[j - 1]) = x
          BY <1>4, <3>3, <4>2
        <5>2. j - 1 <= i
          BY <3>1, <5>1
        <5> QED BY <1>1, <5>2
      <4> QED BY <4>1, <4>2
    <3> QED BY <3>2, <3>3 DEF RunsAfter
  <2>2. CASE x \in Apply(set, q[1]) /\ \A j \in 1 .. n : Handle(r[j]) # x
    <3>1. ASSUME NEW j \in 1 .. n + 1, Handle(q[j]) = x PROVE j = 1
      BY <1>4, <2>2, <3>1
    <3>2. CASE Handle(q[1]) = x
      <4>1. \A j \in 1 .. n + 1 : Handle(q[j]) = x => j <= 1
        BY <3>1
      <4> QED BY <1>2, <1>3, <2>2, <3>2, <4>1 DEF RunsAfter
    <3>3. CASE Handle(q[1]) # x
      BY <1>2, <2>2, <3>1, <3>3 DEF RunsAfter
    <3> QED BY <3>2, <3>3
  <2> QED BY <1>5, <2>1, <2>2 DEF RunsAfter
<1>6. ASSUME RunsAfter(x, set, q, n + 1) PROVE RunsAfter(x, Apply(set, q[1]), r, n)
  <2>1. CASE \E i \in 1 .. n + 1 : Handle(q[i]) = x /\ q[i].op = "start" /\
               \A j \in 1 .. n + 1 : Handle(q[j]) = x => j <= i
    <3>1. PICK i \in 1 .. n + 1 : Handle(q[i]) = x /\ q[i].op = "start" /\
            \A j \in 1 .. n + 1 : Handle(q[j]) = x => j <= i
      BY <2>1
    <3>2. ASSUME NEW j \in 1 .. n, Handle(r[j]) = x PROVE j + 1 <= i
      BY <1>1, <1>3, <3>1, <3>2
    <3>3. CASE i = 1
      <4>1. \A j \in 1 .. n : Handle(r[j]) # x
        BY <1>1, <3>2, <3>3
      <4>2. x \in Apply(set, q[1])
        BY <1>2, <3>1, <3>3
      <4> QED BY <4>1, <4>2 DEF RunsAfter
    <3>4. CASE i # 1
      <4>1. i - 1 \in 1 .. n /\ Handle(r[i - 1]) = x /\ r[i - 1].op = "start"
        BY <1>4, <3>1, <3>4
      <4>2. \A j \in 1 .. n : Handle(r[j]) = x => j <= i - 1
        BY <1>1, <3>2
      <4> QED BY <4>1, <4>2 DEF RunsAfter
    <3> QED BY <3>3, <3>4
  <2>2. CASE x \in set /\ \A j \in 1 .. n + 1 : Handle(q[j]) # x
    <3>1. \A j \in 1 .. n : Handle(r[j]) # x
      BY <1>1, <1>3, <2>2
    <3>2. x \in Apply(set, q[1])
      BY <1>2, <1>3, <2>2
    <3> QED BY <3>1, <3>2 DEF RunsAfter
  <2> QED BY <1>6, <2>1, <2>2 DEF RunsAfter
<1> QED BY <1>1, <1>5, <1>6 DEF r, n

\* The service processes a command: nothing that has settled changes.
LEMMA ProcessInv ==
  ASSUME ServiceAssumption, TimerInv, Process
  PROVE  TimerInv'
<1>1. /\ queue # <<>> /\ active' = Apply(active, Head(queue)) /\ queue' = Tail(queue) /\ firing = {}
      /\ UNCHANGED <<role, waiting, starts, expired, firing, lost>>
  BY DEF Process
<1>2. /\ queue \in Seq(Commands) /\ active \in SUBSET Handles /\ Len(queue) \in Nat \ {0}
      /\ Head(queue) = queue[1] /\ queue[1] \in Commands /\ queue[1].start <= starts
  BY <1>1 DEF TimerInv, QueueTypes
<1>3. /\ queue' \in Seq(Commands) /\ Len(queue') = Len(queue) - 1
      /\ \A i \in 1 .. Len(queue) - 1 : queue'[i] = queue[i + 1]
  BY <1>1, <1>2
<1>4. active' \subseteq Handles /\ \A x \in active' : x[1] <= starts
  <2>1. Handle(queue[1]) \in Handles /\ Handle(queue[1])[1] <= starts
    BY <1>2 DEF Handle, Handles, Commands
  <2>2. active' \subseteq active \cup {Handle(queue[1])}
    BY <1>1, <1>2 DEF Apply, Handle
  <2> QED BY <1>2, <2>1, <2>2 DEF TimerInv, QueueTypes
<1>5. QueueTypes'
  <2>1. ASSUME NEW i \in DOMAIN queue' PROVE queue'[i].start <= starts
    <3>1. i \in 1 .. Len(queue) - 1 /\ i + 1 \in DOMAIN queue
      BY <1>2, <1>3
    <3> QED BY <1>3, <3>1 DEF TimerInv, QueueTypes
  <2>2. Len(queue') <= QueueLength
    BY <1>2, <1>3 DEF TimerInv, QueueTypes, ServiceAssumption
  <2> QED BY <1>1, <1>3, <1>4, <2>1, <2>2 DEF TimerInv, QueueTypes
<1>6. ASSUME NEW t \in Timers PROVE t \in Settled' <=> t \in Settled
  <2>1. <<starts, t>> \in Handles
    BY DEF TimerInv, QueueTypes, Handles
  <2>2. RunsAfter(<<starts, t>>, active', queue', Len(queue')) <=>
          RunsAfter(<<starts, t>>, active, queue, Len(queue))
    BY <1>1, <1>2, <2>1, ProcessKeeps
  <2>3. Processed(active', queue') = {x \in Handles : RunsAfter(x, active', queue', Len(queue'))}
    BY <1>3, <1>4, ProcessedRuns
  <2>4. t \in Settled' <=> RunsAfter(<<starts, t>>, active', queue', Len(queue'))
    BY <1>1, <2>1, <2>3 DEF Settled
  <2>5. t \in Settled <=> RunsAfter(<<starts, t>>, active, queue, Len(queue))
    BY SettledRuns DEF TimerInv
  <2> QED BY <2>2, <2>4, <2>5
<1>7. CommandsAgree'
  BY <1>1, <1>6 DEF TimerInv, CommandsAgree
<1>8. TypeOK'
  BY <1>1, <1>3, <1>4, <1>5 DEF TimerInv, TypeOK, QueueTypes
<1> QED BY <1>5, <1>7, <1>8 DEF TimerInv

\* The other steps leave the commands and the running timers alone.
LEMMA QuietInv ==
  ASSUME TimerInv, TypeOK', UNCHANGED <<role, starts, queue, active, lost>>
  PROVE  TimerInv'
  BY DEF TimerInv, QueueTypes, CommandsAgree, Settled

\* The invariant is inductive: one case per action.
LEMMA TimerStep == ASSUME ServiceAssumption, TimerInv, [Next]_vars PROVE TimerInv'
<1>1. ASSUME NEW to \in Roles, ToState(to) PROVE TimerInv'
  BY <1>1, ToStateInv
<1>2. CASE HandleAnnounce
  <2>1. "ANNOUNCE_RECEIPT" \in Timers /\ "ANNOUNCE_RECEIPT" \in ToSet(Enter(role))
    BY <1>2, RoleTimers DEF HandleAnnounce, Timers
  <2> QED BY <1>2, <2>1, StartAgainInv DEF HandleAnnounce
<1>3. CASE DelayTimerExpired
  <2>1. DelayTimer \in Timers /\ role \in {"LISTENING", "SLAVE", "PASSIVE", "MASTER"}
    BY DEF DelayTimer, Timers, TimerInv, TypeOK, Roles
  <2>2. DelayTimer \in ToSet(Enter(role))
    BY <1>3, <2>1, RoleTimers DEF DelayTimerExpired
  <2> QED BY <1>3, <2>1, <2>2, StartAgainInv DEF DelayTimerExpired
<1>4. ASSUME NEW t \in Timers, TimerExpired(t) PROVE TimerInv'
  <2>1. TypeOK'
    BY <1>4 DEF TimerExpired, TimerInv, TypeOK
  <2> QED BY <1>4, <2>1, QuietInv DEF TimerExpired
<1>5. CASE Wait \/ Wake
  <2>1. TypeOK'
    BY <1>5 DEF Wait, Wake, TimerInv, TypeOK
  <2> QED BY <1>5, <2>1, QuietInv DEF Wait, Wake
<1>6. CASE Restart
  BY <1>6, RestartInv
<1>7. CASE Process
  BY <1>7, ProcessInv
<1>8. ASSUME NEW x \in Handles, Expire(x) PROVE TimerInv'
  <2>1. TypeOK'
    BY <1>8 DEF Expire, TimerInv, TypeOK
  <2> QED BY <1>8, <2>1, QuietInv DEF Expire
<1>9. CASE TimerCallback
  <2>1. \A x \in firing : x[2] \in Timers
    BY DEF TimerInv, TypeOK, Handles
  <2>2. TypeOK'
    BY <1>9, <2>1 DEF TimerCallback, TimerInv, TypeOK
  <2> QED BY <1>9, <2>2, QuietInv DEF TimerCallback
<1>10. CASE UNCHANGED vars
  <2>1. TypeOK'
    BY <1>10 DEF vars, TimerInv, TypeOK
  <2> QED BY <1>10, <2>1, QuietInv DEF vars
<1> QED BY <1>1, <1>2, <1>3, <1>4, <1>5, <1>6, <1>7, <1>8, <1>9, <1>10 DEF Next

\* The first start of the PTP thread has posted one command.
LEMMA TimerInit == ASSUME ServiceAssumption, Init PROVE TimerInv
<1> DEFINE cmd == [op |-> "start", start |-> 1, timer |-> "ANNOUNCE_RECEIPT"]
<1>1. cmd \in Commands /\ Handle(cmd) = <<1, "ANNOUNCE_RECEIPT">> /\ cmd.start = 1 /\ cmd.op = "start"
  BY DEF ServiceAssumption, Commands, Timers, Handle
<1>2. queue = <<cmd>> /\ starts = 1 /\ active = {} /\ role = "LISTENING"
  BY DEF Init
<1> HIDE DEF cmd
<1>3. queue \in Seq(Commands) /\ Len(queue) = 1 /\ queue[1] = cmd /\ DOMAIN queue = {1}
  BY <1>1, <1>2
<1>4. QueueTypes
  BY <1>1, <1>2, <1>3 DEF ServiceAssumption, QueueTypes
<1>5. TypeOK
  <2>1. role \in Roles /\ waiting \in BOOLEAN /\ expired \subseteq Timers /\ firing \subseteq active /\
          lost \subseteq Timers
    BY <1>2 DEF Init, Roles
  <2>2. \A i \in DOMAIN queue : queue[i] \in Commands
    BY <1>1, <1>3
  <2> QED BY <1>4, <2>1, <2>2 DEF TypeOK, QueueTypes
<1>6. ASSUME NEW t \in Timers PROVE t \in Settled <=> t = "ANNOUNCE_RECEIPT"
  <2>1. RunsAfter(<<1, t>>, {}, queue, 1) <=> t = "ANNOUNCE_RECEIPT"
    <3>1. \A i \in 1 .. 1 : i = 1
      OBVIOUS
    <3>2. 1 \in 1 .. 1 /\ 1 <= 1
      OBVIOUS
    <3>3. Handle(queue[1]) = <<1, t>> <=> t = "ANNOUNCE_RECEIPT"
      BY <1>1, <1>3
    <3> QED BY <1>1, <1>3, <3>1, <3>2, <3>3 DEF RunsAfter
  <2> QED BY <1>2, <1>3, <1>4, <2>1, SettledRuns
<1>7. CommandsAgree
  BY <1>2, <1>6, RoleTimers DEF CommandsAgree
<1> QED BY <1>4, <1>5, <1>7 DEF TimerInv

\* For every length of the service's queue, the last command that found room decides: but
\* for the timers whose last command timerStart or timerStop lost, exactly the timers of
\* the port's state run once the service has caught up, through any number of restarts of
\* the PTP thread; and the queue keeps its bound.
THEOREM TimersSettle == ASSUME ServiceAssumption PROVE Spec => [](TypeOK /\ CommandsAgree)
<1>1. TimerInv => TypeOK /\ CommandsAgree
  BY DEF TimerInv
<1> QED BY TimerInit, TimerStep, <1>1, PTL DEF Spec
=============================================================================
