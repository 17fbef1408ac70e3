----------------------------- MODULE HttpServer -----------------------------
(***************************************************************************)
(* The HTTP server of httpserver-socket.c: one thread that accepts a       *)
(* connection, reads one request, writes a page and closes the socket.     *)
(*                                                                         *)
(* lwIP (external) has NetConns netconns for the listening socket and all  *)
(* connections, accepted or not.  A client sends its request or hangs up   *)
(* (read then returns 0 or more), or its connection is reset; data that    *)
(* arrived before a reset is still read.  Which page is written is left    *)
(* out.                                                                    *)
(***************************************************************************)
EXTENDS Naturals, Sequences, FiniteSets, SequencesExt

CONSTANTS
  Clients,
  NetConns,         \* MEMP_NUM_NETCONN; 4
  MaxResets         \* how many connections are reset

Nobody == "nobody"

HttpAssumption ==
  /\ Nobody \notin Clients /\ IsFiniteSet(Clients)
  /\ NetConns \in Nat \ {0} /\ MaxResets \in Nat

VARIABLES
  open,             \* the clients whose connection holds a netconn
  backlog,          \* those of them not yet accepted, oldest first
  data,             \* those from whom read returns
  reset,            \* those whose connection was reset
  resets,           \* how many connections were reset
  serving,          \* newconn, or Nobody while the thread is in accept
  written,          \* the request of newconn was read and its page is due
  lost              \* netconns of sockets that nothing will close

vars == <<open, backlog, data, reset, resets, serving, written, lost>>

\* The netconns that are left; the server's socket has one.
Free == NetConns - 1 - Cardinality(open) - lost

Init ==
  /\ open = {}
  /\ backlog = <<>>
  /\ data = {}
  /\ reset = {}
  /\ resets = 0
  /\ serving = Nobody
  /\ written = FALSE
  /\ lost = 0

-----------------------------------------------------------------------------
(* http_server_socket_thread and http_server_serve.                        *)

\* The connection of c is over.
Over(c) ==
  /\ open' = open \ {c}
  /\ data' = data \ {c}
  /\ reset' = reset \ {c}

\* accept returns a socket, unless the connection was reset while it waited.
Accept ==
  /\ serving = Nobody
  /\ backlog # <<>>
  /\ Head(backlog) \notin reset
  /\ serving' = Head(backlog)
  /\ backlog' = Tail(backlog)
  /\ UNCHANGED <<open, data, reset, resets, written, lost>>

\* accept deletes the netconn of a reset connection and returns -1, with which
\* http_server_serve returns at once.
AcceptFails ==
  /\ serving = Nobody
  /\ backlog # <<>>
  /\ Head(backlog) \in reset
  /\ Over(Head(backlog))
  /\ backlog' = Tail(backlog)
  /\ UNCHANGED <<resets, serving, written, lost>>

\* read returns 0 or more.
Read ==
  /\ serving \in data
  /\ ~written
  /\ written' = TRUE
  /\ UNCHANGED <<open, backlog, data, reset, resets, serving, lost>>

\* read returns less than 0, and http_server_serve returns without close.
ReadFails ==
  /\ serving \in reset \ data
  /\ ~written
  /\ Over(serving)
  /\ lost' = lost + 1
  /\ serving' = Nobody
  /\ UNCHANGED <<backlog, resets, written>>

\* Fault: the socket is not closed.
Close_Forgotten(c) == Over(c) /\ lost' = lost + 1

Close(c) == Over(c) /\ UNCHANGED lost

\* The page is written, whether or not the client still listens, and the socket closed.
\* One step: write waits without a timeout while the client reads nothing, but it waits
\* with the thread, which serves nobody else meanwhile (see FairSpec).
Reply ==
  /\ written
  /\ Close(serving)
  /\ serving' = Nobody
  /\ written' = FALSE
  /\ UNCHANGED <<backlog, resets>>

Server == Accept \/ AcceptFails \/ Read \/ ReadFails \/ Reply

-----------------------------------------------------------------------------
(* The clients and lwIP.                                                   *)

Connect(c) ==
  /\ c \notin open
  /\ Free > 0
  /\ open' = open \cup {c}
  /\ backlog' = Append(backlog, c)
  /\ UNCHANGED <<data, reset, resets, serving, written, lost>>

\* With no netconn left accept_function refuses the connection and posts an error to the
\* listening socket; accept returns -1 and http_server_serve at once.
Refused(c) == c \notin open /\ Free = 0 /\ UNCHANGED vars

\* A request or the end of the connection arrives.
Send(c) ==
  /\ c \in open \ (data \cup reset)
  /\ data' = data \cup {c}
  /\ UNCHANGED <<open, backlog, reset, resets, serving, written, lost>>

Reset(c) ==
  /\ c \in open \ reset
  /\ resets < MaxResets
  /\ reset' = reset \cup {c}
  /\ resets' = resets + 1
  /\ UNCHANGED <<open, backlog, data, serving, written, lost>>

Next == Server \/ \E c \in Clients : Connect(c) \/ Refused(c) \/ Send(c) \/ Reset(c)

Spec == Init /\ [][Next]_vars

\* The thread runs, no client keeps a connection open without a word, and those that do
\* not hang up read their page: neither read nor write (httpserver-socket.c:192) has a
\* timeout, so a client that fails to would keep the server from all others.
FairSpec == Spec /\ WF_vars(Server) /\ \A c \in Clients : WF_vars(Send(c))

-----------------------------------------------------------------------------
(* Properties.                                                             *)

\* Every connection holds exactly one netconn, in the backlog or with the server.
TypeOK ==
  /\ open \subseteq Clients
  /\ ToSet(backlog) \cup ({serving} \ {Nobody}) = open
  /\ Len(backlog) + (IF serving = Nobody THEN 0 ELSE 1) = Cardinality(open)
  /\ data \subseteq open /\ reset \subseteq open
  /\ written => serving \in data
  /\ Free >= 0

\* A client that waits gets its turn, whatever happens to those before it, as long as
\* these send, read or hang up in the end.
Served == \A c \in Clients : (c \in ToSet(backlog)) ~> (c = serving \/ c \notin open)

\* The server never comes to the point where every connection is refused for good, as
\* long as fewer connections are reset than there are netconns for them.
KeepsAccepting == MaxResets < NetConns - 1 => []<>(Free > 0)

\* "Close connection socket" (httpserver-socket.c:228): no socket is left open.
SocketsClosed == lost = 0
=============================================================================
