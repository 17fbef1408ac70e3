---------------------------- MODULE DhcpOptions -----------------------------
(***************************************************************************)
(* The search for the message type in the options of a DHCP message: the   *)
(* loop of dhcp_server_thread (app/src/dhcp_server.c), one iteration a     *)
(* step.  A message is a list of options, each a code, a length and its    *)
(* data, closed by the end option and padded with zero bytes as clients    *)
(* send it.                                                                *)
(***************************************************************************)
EXTENDS Integers, Sequences, SequencesExt

CONSTANTS
  Codes,            \* codes of the options before the message type
  OptionLengths,    \* lengths of their data
  Data,             \* values of a byte of their data
  MaxBefore,        \* how many options precede the message type at most
  MsgLen            \* DHCP_MSG_LEN; in the code larger than any length plus two

OptionsAssumption ==
  /\ Codes \subseteq (1 .. 254) \ {53}
  /\ OptionLengths \subseteq Nat /\ \A n \in OptionLengths : n + 2 < MsgLen
  /\ Data \subseteq Nat /\ \A d \in Data : d + 2 < MsgLen
  /\ MaxBefore \in Nat
  /\ 53 + 2 < MsgLen

VARIABLES
  before,           \* the options before the message type
  type,             \* the value of the message type option
  i,                \* the loop's index
  dhcpType,         \* dhcp_type
  done              \* the loop has ended

vars == <<before, type, i, dhcpType, done>>

Types == {1, 3}

\* An option as it is sent; its data repeat one byte.
Bytes(o) == <<o.code, o.length>> \o [j \in 1 .. o.length |-> o.datum]

Encoded == FlattenSeq([j \in 1 .. Len(before) |-> Bytes(before[j])]) \o <<53, 1, type, 255>>

\* msg->options[j]
Options(j) == IF j < Len(Encoded) THEN Encoded[j + 1] ELSE 0

Init ==
  /\ before \in UNION {[1 .. n -> [code : Codes, length : OptionLengths, datum : Data]] : n \in 0 .. MaxBefore}
  /\ type \in Types
  /\ i = 0
  /\ dhcpType = 0
  /\ done = FALSE

\* Fault: the length byte is not counted.
NextIndex_Short(j) == Options(j + 1) + 1

\* i = msg->options[i + 1] + 2
NextIndex(j) == Options(j + 1) + 2

Found ==
  /\ ~done
  /\ i < MsgLen
  /\ Options(i) = 53
  /\ dhcpType' = Options(i + 2)
  /\ done' = TRUE
  /\ UNCHANGED <<before, type, i>>

Skip ==
  /\ ~done
  /\ i < MsgLen
  /\ Options(i) # 53
  /\ i' = NextIndex(i)
  /\ UNCHANGED <<before, type, dhcpType, done>>

Next == Found \/ Skip

Spec == Init /\ [][Next]_vars

\* The thread runs when it is ready.
FairSpec == Spec /\ WF_vars(Next)

-----------------------------------------------------------------------------
(* Properties.                                                             *)

\* When the message type is the first or the second option the search ends, and
\* with its value, whatever the other option is.  With two options before it the search
\* goes from the second of them to the index that the length of that one alone gives,
\* which is not where the type is.
EarlyTypeFound == Len(before) <= 1 => <>(done /\ dhcpType = type)

\* dhcp_server.c:143: "Search for option(53)": the search ends with the value of
\* that option.  (A step of the loop that returns to its own index changes nothing,
\* so a loop that spins there shows as stuttering.)
TypeFound == <>(done /\ dhcpType = type)
=============================================================================
