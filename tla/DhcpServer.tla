----------------------------- MODULE DhcpServer -----------------------------
(***************************************************************************)
(* The DHCP server of app/src/dhcp_server.c.  The UDP callback runs in the *)
(* tcpip thread and leaves the packet in the one slot pending_buf and its  *)
(* sender in pending_addr; the server thread, of lower priority, waits for *)
(* the semaphore, answers the packet and frees it.  The callback preempts  *)
(* the server anywhere and runs to its end.                                *)
(*                                                                         *)
(* dhcp_server_init registers the callback when the application starts;    *)
(* the thread is created by the command "dhcps start", as often as it is   *)
(* given.  A packet is its pbuf and stands for a message of some client;   *)
(* the scan of its options is the subject of DhcpOptions: it ends with a   *)
(* type, or it never ends and the thread with it.                          *)
(***************************************************************************)
EXTENDS Integers

CONSTANTS
  Pbufs,            \* the packet buffers of the receive pool
  Clients,          \* senders of DHCP messages
  Threads,          \* the server threads that "dhcps start" may create
  NoBuf             \* pending_buf is NULL

NoBufAssumption == NoBuf \notin Pbufs

VARIABLES
  held,             \* the buffers handed to the server and not freed since
  content,          \* the message in each buffer: its type and its sender
  slot,             \* pending_buf
  pendingAddr,      \* pending_addr
  sem,              \* the binary semaphore
  pc,               \* where each server thread is
  msg               \* its local variable msg: the buffer it points into

vars == <<held, content, slot, pendingAddr, sem, pc, msg>>

\* What the scan finds: a type, or it is "unfound" and the scan goes round for ever.
Messages == [type : {"discover", "request", "other", "unfound"}, from : Clients]

Pcs == {"none", "take", "load", "scan", "reply", "free", "clear"}

\* dhcp_server_init: the semaphore is created empty and the callback registered.
Init ==
  /\ held = {}
  /\ content \in [Pbufs -> {m \in Messages : m.type = "other"}]
  /\ slot = NoBuf
  /\ pendingAddr \in Clients
  /\ sem = FALSE
  /\ pc = [t \in Threads |-> "none"]
  /\ msg = [t \in Threads |-> NoBuf]

-----------------------------------------------------------------------------
(* The tcpip thread.                                                       *)

\* Fault: the packet that is still pending is freed when a new one replaces it.
Pend_FreesOld(p) == held' = (held \ {slot}) \cup {p}

\* The server now owns the buffer of the packet.
Pend(p) == held' = held \cup {p}

\* The address of the sender, for the reply.
StoreAddr(m) == pendingAddr' = m.from

\* dhcp_recv_cb with a packet of at least the size of a DHCP payload.  A shorter
\* one is freed at once and changes nothing here.
Receive(p, m) ==
  /\ p \notin held
  /\ Pend(p)
  /\ content' = [content EXCEPT ![p] = m]
  /\ slot' = p
  /\ StoreAddr(m)
  /\ sem' = TRUE
  /\ UNCHANGED <<pc, msg>>

-----------------------------------------------------------------------------
(* The server thread.                                                      *)

Goto(t, l) == pc' = [pc EXCEPT ![t] = l]

\* dhcp_server_start, by the command "dhcps start".
Start(t) ==
  /\ pc[t] = "none"
  /\ Goto(t, "take")
  /\ UNCHANGED <<held, content, slot, pendingAddr, sem, msg>>

\* xSemaphoreTake, and the test of pending_buf.
Take(t) ==
  /\ pc[t] = "take"
  /\ sem
  /\ sem' = FALSE
  /\ Goto(t, IF slot # NoBuf THEN "load" ELSE "take")
  /\ UNCHANGED <<held, content, slot, pendingAddr, msg>>

\* msg points into the payload of pending_buf.
Load(t) ==
  /\ pc[t] = "load"
  /\ slot # NoBuf
  /\ msg' = [msg EXCEPT ![t] = slot]
  /\ Goto(t, "scan")
  /\ UNCHANGED <<held, content, slot, pendingAddr, sem>>

\* The type of the message is found among its options.  A step of a scan that does not
\* find it changes nothing, and no other step follows: the thread hangs.
Scan(t) ==
  /\ pc[t] = "scan"
  /\ content[msg[t]].type # "unfound"
  /\ Goto(t, IF content[msg[t]].type \in {"discover", "request"} THEN "reply" ELSE "free")
  /\ UNCHANGED <<held, content, slot, pendingAddr, sem, msg>>

\* send_dhcp_reply, to the address that is pending now, with the transaction and
\* the hardware address of msg; nothing is sent when pbuf_alloc fails.
Reply(t) ==
  /\ pc[t] = "reply"
  /\ Goto(t, "free")
  /\ UNCHANGED <<held, content, slot, pendingAddr, sem, msg>>

\* pbuf_free of whatever is pending now.
Free(t) ==
  /\ pc[t] = "free"
  /\ held' = held \ {slot}
  /\ Goto(t, "clear")
  /\ UNCHANGED <<content, slot, pendingAddr, sem, msg>>

\* pending_buf = NULL; the pointer msg goes out of scope.
Clear(t) ==
  /\ pc[t] = "clear"
  /\ slot' = NoBuf
  /\ msg' = [msg EXCEPT ![t] = NoBuf]
  /\ Goto(t, "take")
  /\ UNCHANGED <<held, content, pendingAddr, sem>>

-----------------------------------------------------------------------------
Server(t) ==
  Take(t) \/ Load(t) \/ Scan(t) \/ Reply(t) \/ Free(t) \/ Clear(t)

Next ==
  \/ \E p \in Pbufs, m \in Messages : Receive(p, m)
  \/ \E t \in Threads : Start(t) \/ Server(t)

Spec == Init /\ [][Next]_vars

\* The server thread runs when it is ready: only threads that keep waiting for
\* something themselves have a higher priority.
FairSpec == Spec /\ \A t \in Threads : WF_vars(Server(t))

-----------------------------------------------------------------------------
(* Properties.                                                             *)

TypeOK ==
  /\ held \subseteq Pbufs
  /\ content \in [Pbufs -> Messages]
  /\ slot \in Pbufs \cup {NoBuf}
  /\ pendingAddr \in Clients
  /\ sem \in BOOLEAN
  /\ pc \in [Threads -> Pcs]
  /\ msg \in [Threads -> Pbufs \cup {NoBuf}]

\* The server thread never works on a buffer that has been freed, although the
\* callback may replace pending_buf at any time: msg points into a buffer that is
\* still held while its options and addresses are read, and what is freed is held
\* (pbuf.c, pbuf_free: LWIP_ASSERT("pbuf_free: p->ref > 0", p->ref > 0)).
NeverUsesFreed ==
  \A t \in Threads :
    /\ pc[t] \in {"scan", "reply"} => msg[t] \in held
    /\ pc[t] = "free" => slot \in held

\* A server that waits for the semaphore has nothing pending that the semaphore
\* does not announce: the packet that arrives while another one is answered either
\* replaces it and is cleared with it or wakes the thread again.
NoLostWakeup ==
  \A t \in Threads : pc[t] = "take" /\ slot # NoBuf => sem

\* A reply is sent to another client than the one it answers only if a newer packet
\* has replaced the one being answered, and then the semaphore is still given.
MisaddressedOnlyIfReplaced ==
  \A t \in Threads :
    pc[t] = "reply" /\ pendingAddr # content[msg[t]].from => slot # msg[t] /\ sem

\* The thread searches a message in which it does not find the type.
Hangs(t) == pc[t] = "scan" /\ content[msg[t]].type = "unfound"

\* Every packet left in pending_buf leaves it again, once the thread is started, unless
\* the thread hangs in the search of a message.
PendingLeaves ==
  \A p \in Pbufs, t \in Threads : (slot = p /\ pc[t] # "none") ~> (slot # p \/ Hangs(t))

\* udp.h:65: "The callback is responsible for freeing the pbuf if it's not used
\* any more": every buffer the server holds is pending or in use.
NoLeak == \A p \in held : p = slot \/ \E t \in Threads : msg[t] = p
=============================================================================
