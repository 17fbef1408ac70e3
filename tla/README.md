# Verification of disco-ptp

disco-ptp is an IEEE 1588 (PTP) ordinary clock for the STM32F769I-Discovery
board: the ptpd 2.0.0 protocol engine on FreeRTOS and lwIP, plus a small
application (shell, DHCP, ping, HTTP). This directory holds TLA+ models of its
own logic, the TLC configurations that check them, and TLAPS proofs. Paths below
are relative to `src/Middlewares/ptpd-v2.0.0/src/` unless they start with `src/`.

## 1. Inventory

| Component | State | Operations | Interacts through |
|---|---|---|---|
| Receive queues, `dep/net.c` | two rings of `PBUF_QUEUE_SIZE` pbufs with `head`, `tail` | `netQPut`, `netQGet`, `netQEmpty`, `netQCheck`, receive callbacks, `netRecv`, `netSelect` | filled in lwIP's tcpip thread, drained in the PTP thread, one mutex per queue |
| PTP thread, `ptpd.c` | alert mailbox | loop `do doState while netSelect`, wait 100 ms for an alert | woken by callbacks and timers through `ptpd_alert` |
| Port state machine, `protocol.c` | `PtpClock`: port state, recommended state, event flags, parent data set, Sync/Follow_Up pairing, delay exchange | `toState`, `doInit`, `doState`, `handle*`, `issue*` | calls every other part |
| Best master clock, `bmc.c` | foreign master table `records`, `count`, `i`, `best` | `addForeign`, `bmc`, `bmcDataSetComparison`, `bmcStateDecision`, `m1`, `p1`, `s1` | called from `doState` and `handleAnnounce` |
| Timers, `dep/timer.c` | five used timers, one expired flag each | `timerStart`, `timerStop`, `timerExpired`, `timerCallback` | callback in the FreeRTOS timer service task |
| Servo, `dep/servo.c`, `dep/sys_time.c` | filters, drift, clock registers | `initClock`, `updateOffset`, `updateDelay`, `updatePeerDelay`, `updateClock` | raises events, flushes the event queue |
| Arithmetic `arith.c`, packing `dep/msg.c` | none | pure | |
| Ethernet receive, `src/target/.../ethernetif.c` | DMA descriptors, pool of receive buffers, `RxAllocStatus`, semaphore, last receive stamp | input thread, HAL callbacks, `pbuf_free_custom`, `ethernetif_ptp_get_rx_timestamp` | frees come from any thread; the stamp is read by `netRecv` |
| Ethernet transmit, same file | `TxConfig`, descriptors, semaphore, last transmit stamp | `low_level_output`, `ethernetif_ptp_get_tx_timestamp` | called by the tcpip thread and by the PTP thread |
| PTP clock, same file and `dep/sys_time.c` | time, update registers, `TSSTI` | `getTime`, `setTime`, `adjTime` | PTP thread and shell |
| DHCP server, `src/app/src/dhcp_server.c` | `pending_buf`, `pending_addr`, semaphore | callback, thread, `send_dhcp_reply`, start | callback in the tcpip thread |
| Address acquisition, `src/app/src/app_ethernet.c` | `DHCP_state`, address | `User_notification`, `DHCP_thread` | polls lwIP's DHCP client |
| Ping, `src/app/src/ping.c` | `ping_result`, `ping_seq_num` | `do_ping`, `ping_send`, `ping_recv` | raw callback in the tcpip thread |
| HTTP server, `src/app/src/httpserver-socket.c` | sockets | accept, read, reply, close | lwIP sockets |
| Console, `src/target/.../stm32f7xx_uart.c` | two queues, `TXEIE` | `UART_Write`, `UART_Read`, `usartHandler` | every task, interrupt |
| Shell, `src/app/src/app.c` | task handles | `ptpd`, `date`, `dhcps`, `ping` commands | starts, ends and sets the others |

Threads, by priority: Ethernet input, tcpip, PTP, timer service. The hard parts:
the tcpip thread and the PTP thread share the rings; the timer service is of
lower priority than the PTP thread and is preempted at any point, also between
finding a timer expired and calling `timerCallback`; events raised in one
`doState` are consumed in a later one; the port can change its master between
two messages of the old one; tables, rings, mailbox and the timer command queue
are all small and drop silently when full. `PROJECT.json` lists each hazard at
its line with the property that would catch it.

What makes each part correct: the queues lose, duplicate and leak nothing and
never let the PTP thread sleep on a packet; the port runs exactly the timers of
its state, follows a master that is in its table and that has calibrated it, and
takes over when masters fall silent; the table holds distinct masters and the
choice does not depend on the order of arrival; a delay is computed from the
stamps of one exchange with one master (for peers: unless a request overtakes a follow
up that is still awaited); the timers that run are those of the state
once the timer service has caught up; the arithmetic is exact, the filter within its width
for all samples above a floor, and the loop settles; no receive buffer and no wake-up is
lost, a stamp belongs to its packet; the application's threads use no freed buffer, leak
none, and wait for nothing that cannot come.

## 2. Modules

| Module | Models | State and actions |
|---|---|---|
| `NetQueue` | `dep/net.c` receive side, loop of `ptpd.c` | `head`, `tail`, `ring` are the two `BufQueue`s; `owner` says who must free each pbuf; `alerts` is the mailbox; `tpc`, `ppc` say where the tcpip and the PTP thread are. One action per queue operation, since each runs under the queue's mutex; everything between two of them interleaves |
| `PbufFifo` | what the queues promise | two bounded FIFO queues and the packet in hand |
| `Bmc` | `bmc.c` | operators: comparison, table, scan, recommendation |
| `PtpPort` | `protocol.c`, `dep/timer.c`, control of `dep/servo.c` | `clk` is the part of `PtpClock` that control depends on; each C function that changes the struct is an operator of the same name from struct to struct. `doState` is two actions, the decision and the action of the state, so that timer callbacks fall in between; `TimerElapses` and `TimerCallback` are the timer service |
| `DelayE2E` | `issueDelayReq`, `handleDelayReq`, `handleDelayResp`, `updateOffset`, `updateDelay` | `clk` holds the sequence number, the stored stamps and `Tms`; `reqs` and `resps` are the messages in the network, which loses, delays and repeats them; `delay` is the last result. A stamp is the age of its request, so that the state is finite although the counter runs for ever |
| `PeerDelay` | the peer delay messages, requester and responder, `updatePeerDelay` | as `DelayE2E`; a stamp is the age of its request and the answering peer |
| `TimerService` | `dep/timer.c`, the timers of `toState`, `ptpd stop` and `start` | `queue` is the command queue of the FreeRTOS timer service, `active` its timers, `lost` the timers whose last command found no room; the service moves only while the PTP thread waits, having the lower priority |
| `ServoFilter` | `filter`, `floorLog2` | the filter's struct in `Width` bits with wrap-around, next to the range of the samples |
| `Servo` | `updateOffset`, `updateClock`, `adjTime` | the servo in closed loop: `err` is the clock's error, `rate` the oscillator's |
| `Arith` | `arith.c` | `t` next to `exact`, the number of nanoseconds it should stand for; one action per operation |
| `EthRx` | receive side of `ethernetif.c` | how many buffers are in the pool, armed, filled, held; where the input thread and each freeing thread are, one action per access to shared state |
| `EthTx` | `low_level_output`, transmit stamp | the shared `TxConfig`, the descriptors as a sequence of packets, the semaphore, where each sender is |
| `PtpTime` | `getTime`, `setTime`, `ethernetif_ptp_*_time`, `date` | one action per register access of the two tasks, the clock ticks in between |
| `DhcpServer` | callback and thread of `dhcp_server.c` | one action per access to `pending_buf`, `pending_addr` or a buffer |
| `DhcpOptions` | the option scan | one action per iteration over the bytes of an encoded message |
| `DhcpClient` | `User_notification`, `DHCP_thread` | one action per case of the thread, with the steps between the test of `tries`, `dhcp_stop` and the static address apart; `dhcp` and `tries` are those of lwIP's client (`Middlewares/LwIP/src/core/ipv4/dhcp.c`), with one action per message and timeout of it, the ARP check included |
| `Ping` | `ping.c` | the steps of `do_ping`; the callback may run between any two, with a reply, with a foreign packet that carries the same identifier, or with any other ICMP packet |
| `Uart` | `stm32f7xx_uart.c` | queues as lengths, `TXEIE`, data registers, where each task is in `UART_Write` |
| `HttpServer` | `httpserver-socket.c` | connections in the backlog and in service, netconns in use or lost |
| `NetQueueProofs`, `PtpPortProofs`, `PeerDelayProofs`, `TimerServiceProofs` | | theorems about one module |
| `ProtocolProofs`, `EngineProofs`, `EthernetProofs`, `ServicesProofs` | | theorems about the compositions `MCProtocol`, `MCEngine` and `MCPtpPortConfigs`, `MCEthernet`, `MCServices` and their parts |
| `MCMessages` | | the sets of messages for the instances of `PtpPort` |
| `MCNetQueue`, `MCPtpPort`, `MCPtpPortConfigs` | | instances for TLC of one module |
| `MCProtocol`, `MCEngine`, `MCEthernet`, `MCServices` | | instances of several modules in one specification, see below |

Abstractions. A packet is its pbuf; a port identity is a pair of numbers, in the
order `memcmp` gives; an Announce is its sender, grandmaster, quality and
`stepsRemoved`. Time stamps are left out of `PtpPort`: `updateOffset` chooses
nondeterministically among the five classes of offset that `updateOffset` and
`updateClock` tell apart. `netSend` returns the length whatever happens, so
sending never changes the port state. `PTP_PRE_MASTER` falls through to
`PTP_MASTER` in `toState`, and nothing enters `PTP_DISABLED`; neither is a state
of the model. In `PtpPort`, `hist` remembers what properties compare and is read
by no action; the same holds of `hist` in the other modules, of `overflow`, `lo` and
`hi` in `ServoFilter` and of `exact` in `Arith`.

How the modules fit together. `PtpPort` decides when the port changes state or parent;
`DelayE2E` and `PeerDelay` take those changes as inputs that may come at any time, and
refine what `PtpPort` leaves open about the delay messages. `PtpPort` assumes that a
timer command takes effect; `TimerService` shows when it does. `NetQueue` takes
packets from `EthRx`, which says what their stamps are worth; `Servo` takes the offset
as exact up to noise, `Arith` and `ServoFilter` show what the computation before it
adds. Operators named `X_Something` and commented "Fault" are mutated forms of `X`
that show that each property can fail; no specification uses them.

## 3. Runs

| Run | Instances | Shows |
|---|---|---|
| `NetQueue` | 5 pbufs, ring of 4 (3 usable), mailbox of 2 | `QueueOwnership`, `NoLeak`, `NoLostWakeup`; `FifoRefinement`: `NetQueue` implements `PbufFifo` |
| `PtpPort` | E2E, table of 2, two better clocks, a worse one, own messages, short messages | `TypeOK`, `TimersMatchState`, `TableWellFormed`, `BestInTable`, `ParentMatchesRole`, `SlaveIsCalibrated`, `ServoEventsFresh`, `InitializesOnce` |
| `PtpPortConfigs` | slave-only; P2P of class below 128; table of 3 with six paths to three grandmasters | `SlaveOnlyStaysSlave`; `PassiveTimersMatch`, where PASSIVE and the peer delay timer occur; `PathsOrderIndependent` |
| `Protocol` | `DelayE2E`: 2 masters, numbers -2..1, messages outlive one request. `PeerDelay`: one two-step peer; two one-step peers with invalid stamps. `TimerService`: queue of 3, all roles; slave-only P2P with a restart. `PtpTime`: 2 ticks a second, two settings | `ExchangePaired`, `SettledDelay`, `MissedOnlyAtWrap`; `PeerHalvesPaired`; `TimerCommandsAgree`; `ReadNotBehind`, `SetExact` |
| `Engine` | `Arith`: a second of 10 units. `ServoFilter`: 8 bits, order 3, samples of both signs up to the limit, among them the floor of -16 and the value below it. `Servo`: errors up to 60, steps above 40, noise 1. One slave of `DelayE2E`, the timers of a slave and of a master, a port among one better and one worse clock | `Exact`; `FilterFits`; `ServoSettles`; `DelayKeepsMeasuring`; `TimersKeepFiring`; `PortTakesOver` |
| `Ethernet` | `EthRx`: 4 descriptors, 7 buffers, 2 freeing threads. `NetQueue`: 2 pbufs, ring of 3, mailbox of 1. `EthTx`: 2 senders, 3 descriptors | `BuffersConserved`, `InputNotStranded`; `EventServed`, `GeneralStarvedOnlyByEvents`; `DriverProgresses` |
| `Services` | `Uart`: queue of 3, strings of up to 3, command line and one task. `DhcpServer`: 1 thread, 2 clients, 3 pbufs. `DhcpOptions`: up to 2 options of length 1, 4 or 7 before the type. `DhcpClient`: 4 tries, any number of refused and declined addresses. `Ping`: 2 requests, numbers modulo 6. `HttpServer`: 3 clients, 4 netconns, 2 resets | `FullQueueDrains`, `NothingStranded`; `DhcpRepliesSafe`, `DhcpAnswers`; `AddressObtained`; `PingAnswered`; `Served` |
| `Ebest` | two better clocks | violated: `bmc` keeps the worse of two foreign masters |
| `TimerStopRace` | | violated: a stopped timer can still be marked expired |
| `FollowUpPairing` | two better clocks with equal sequence numbers | violated: Sync of one master, Follow_Up of the other |
| `StaleParent` | one master whose quality changes | violated: `bmc` decides on the parent's first Announce |
| `EthRxStamp` | 2 freeing threads | violated: a packet gets a later frame's stamp |

Runs of several modules. The modules of `MCProtocol`, `MCEngine`, `MCEthernet`,
`MCServices` and the configurations of `MCPtpPortConfigs` share no variable. The
rigid variable `part` (or `config`) chooses one of them in the initial state; only
that one ever steps and the variables of the others keep one initial value, so the
reachable states are the disjoint union of those of the parts, and an invariant or a
temporal property `part = "x" => P` says of the part exactly what `P` says of its own
specification. Fairness conditions are guarded by `part`, so that an action of a part
that does not run is never enabled; where a condition names actions of two parts, it
is the condition of whichever runs. `Services` does not check for deadlock, because
the search of the options, the DHCP client with its address, and a DHCP server whose
buffers are all lost really stop; the liveness properties of that run state what must
have happened by then.

Bounds. A ring of four is the code's own size; with three usable slots and five pbufs
one queue is full while the other is in use, and indices wrap. The views identify
states that differ only in slots no code reads, or in history variables no property of
the run reads; the pbufs and the masters of `DelayE2E` are interchangeable (symmetry
is used in runs without liveness only). A table of two with three foreign masters
makes the table overflow, with every order of arrival and replacement. The message
sets hold one message of each kind the handlers tell apart. The proofs remove these
bounds for the properties listed below.

That Uart strings are no longer than the queue is an assumption about the callers, which
`UART_Write` does not enforce: `__io_putchar`, through which almost everything is printed,
passes one byte. `ServicesProofs` states the assumption; the mutant of `FullQueueDrains`
shows what a longer string does. That a time stamp received has less than a second of
nanoseconds is in the same way assumed of the masters: `toInternalTime` does not look at
`nanosecondsField`. In the delay modules the numbers are narrow so that the counter
wraps while old messages are still in the network; a message that outlives a full turn
of the counter would be taken for a new one, which 65536 requests exclude on a real
network and `MaxAge` excludes here. The timer queue is 3 where the code's is 10, so
that every command can be the one that is dropped. `ServoFilter` uses 8 bits because
the guard depends only on the distance between width and order; the samples sit at the
limit, at the floor, just below it and around zero. `Servo` keeps the
order of the code's thresholds (calibrated < uncalibrated < adjustable < largest
error) and gains of 1, which `ptpdStartup` leaves. A second has 10 units in `Arith`,
the smallest even number with several carries. Three pbufs let one DHCP packet be
answered, one pending and one arrive.

`PathsOrderIndependent` is stated for messages in which a grandmaster has the same
quality wherever it is named. Without that `bmcDataSetComparison` has cycles (it
compares qualities across grandmasters and paths within one), and the choice does
depend on the order while a change of quality spreads.

Fairness. `NetQueue`: the PTP thread's steps and the callback's alert are taken
eventually; `NetRecvEvent` is strongly fair, because a `doState` that does not
read (announce timeout, FAULTY, INITIALIZING) cannot repeat for ever; the 100 ms
timeout is deliberately not assumed, so alerts alone must do. `PtpPort`:
`ptpd_thread` calls `doState` for ever, and the timer service runs whenever that
thread waits. `PortTakesOver` assumes that from some time on no Announce arrives, no
message is too short, and the servo raises no SYNCHRONIZATION_FAULT. The last
condition is needed: `toState` restarts the announce receipt timer whenever it
enters UNCALIBRATED, so a slave that keeps losing and regaining calibration never
times out a master that has stopped announcing. Too short messages have the same
effect, because leaving FAULTY starts the timer again.

`NetQueue` also takes `NoEvent` as strongly fair: a thread that again and again finds
the event queue empty goes on to the general one. `DelayE2E`: the parent answers, and
loss does not depend on the sequence number, so of the requests with one number sent
again and again some are answered in time; assuming it of number 0 is enough, and
messages may be lost, late or repeated otherwise. `TimerService`: the PTP thread comes
to wait again and again (it waits up to 100 ms when there is nothing to do), and the
service then runs. `Servo`: Sync messages keep coming. `EthRx`, `EthTx`, `DhcpServer`,
`DhcpClient`, `Ping`: threads that are ready run, in the pauses of those with a higher
priority (strong fairness where those may interrupt them), the DMA goes on; frames, calls
and answers are never assumed. `DhcpClient` also has the timer of lwIP's client run, and
`AddressObtained` assumes that refusals and declined addresses cease at some time: each
starts the count of tries again, so a server that for ever offers and refuses keeps
`DHCP_thread` from its static address (`app_ethernet.c:175`; `AlwaysObtained`, section 5).
`HttpServer`: in addition no client stays silent for ever on an open connection, and every
client that does not hang up reads its page. `read` and `write` have no timeout, so a
client that fails to does block the server; that assumption is what makes `Served` hold.

## 4. Proofs

`NetQueueProofs`, for every ring size of at least 2, mailbox size of at least 1
and set of pbufs:

- `TypeCorrect`, `QueuesOwnTheirPackets`, `NoPbufLeaks`. `QueueOwnership` and
  `NoLeak` are inductive only together and with `TypeOK` (`Ownership`): that a
  packet taken from a ring is a pbuf needs the ring's contents, that the ring's
  contents survive needs that a free pbuf is in no ring. The arithmetic of the ring
  is in three lemmas: a put adds one live slot that was not live, a get removes
  one, a flush removes all.
- `NoWakeupIsLost`. `NoLostWakeup` speaks of the waiting thread; the inductive
  `Wakeup` also speaks of the moment between the two queue checks of `netSelect`,
  when a packet may already be on the queue that was found empty.
- `QueuesAreFifo`: `NetQueue` implements `PbufFifo`. The mapping takes a ring's live
  slots, from `get` on and around the end, as the abstract queue, and the packet that
  `netRecv` copies as the one in hand. Each step maps to `Put`, `Get`, `Release`, `Flush`
  or a stutter, by lemmas that say what a put, a get and a flush make of the sequence of
  live slots. `Put` asks that nobody holds the packet: this is where `Ownership` is
  needed, strengthened by what the reader holds (`Held`).

`PtpPortProofs`, for every configuration, table size and set of messages:

- `TypeCorrect`: in particular `count`, `i` and `best` stay within the table.
- `TimersAlwaysMatch`: from `TypeOK` and `TimersMatchState` alone, one lemma per
  operator. `ToStateTimed` is the heart: leaving stops all timers of the old
  state, except between UNCALIBRATED and SLAVE, which share theirs. The delicate
  call is `issueDelayReqTimerExpired` at the end of the master's `doState`, which
  runs even when `handle` has just made the port faulty; it starts no timer there
  because leaving MASTER cleared its expired flag (`HandleTimed`).

- `EventsStayFresh`, `InitializesAtMostOnce` and `SlaveOnlyStays` follow from one
  inductive invariant, `Consumed`. It says what the recommended state tells of the
  port (`Roles`), that a decision leaves no servo event and no pending decision behind
  (`Calm`), and that the one message handled after it raises events of the port's own
  state only (`Pending`). None of the three properties is inductive: that an event is
  consumed depends on the recommended state being SLAVE while the port synchronizes,
  which `bmc` breaks and the transition after it restores (`Advised` in between,
  `FollowRoles`); that a fault is not left through PTP_INITIALIZING depends on the
  recommended state having been changed by the initialization.
- `TableStaysWellFormed`, `BestStaysInTable`, `ParentAlwaysMatchesRole` and
  `SlaveAlwaysCalibrated` follow from a second inductive invariant, `Mastered`, next to
  `Consumed`. `Distinct` says of the table that its first `count` records are of different
  senders and as they announced themselves; `Elected` says what `best` and the parent
  are, except while STATE_DECISION_EVENT is pending: `addForeign` may overwrite the
  record that `best` points to, but always raises that event, and `bmc` chooses again
  before anything is read through `best`. `Earned` says that the sender of the
  calibrating Sync is the parent not only in SLAVE but from the moment
  MASTER_CLOCK_SELECTED is raised; `Heeded`, that after a decision a port recommended
  SLAVE does synchronize. The assumption on the messages is that the body of an Announce
  names its sender and is not the all-zero record of an empty slot (`AnnounceAssumption`).
- `ChoiceIsOrderIndependent`, if the announcements are consistent: a grandmaster has one
  quality in all of them, and this clock has one port (`Consistent`; section 3 says what
  happens otherwise). Under it the comparison is a total order on what is chosen, and
  the scan returns its least element: what a recursion over the table returns is proved
  by induction over the natural numbers, written for a set (`SetInduction`), since the
  library's theorem for a predicate cannot be instantiated.

`PeerDelayProofs`, for every set of peers, both flags and every width of the number:
`PeerDelayPaired`. A delay is computed from t1 and t3 of the latest request, from t2 and t4
of one answer, and from the answer to the same request unless a request was sent while a
follow up was awaited; `overtaken`, which no action reads, remembers that. Without the
exception the property is false (`OneExchange`, section 5). As for the end-to-end delay,
`Numbered` ties the number of a message to its age; `AwaitedPair` adds that while a follow
up is awaited t2 and t4 are of one answer, and of the latest request unless overtaken, which
`HalvesPaired`, speaking of the result, does not say of the stamps stored. The
hypotheses are that no message outlives a turn of the counter and that `TxStamps` is a
set of Booleans.

`TimerServiceProofs`, for every queue length, both delay mechanisms, slave-only or not,
and any number of starts: `TimersSettle`. `CommandsAgree` asks what the recursion over the
command queue leaves running; `ProcessedRuns` shows, by induction over a set of numbers,
that the last command for a timer decides. Then calls appended to the queue change
nothing for other timers (`IssueOther`), and decide for their own when the last of them
found room (`IssueLast`). The invariant adds that no command and no running timer is of
a later start of the PTP thread, without which a restart could find timers of its own.

`ProtocolProofs`, for the parts of `MCProtocol`. The end-to-end delay, for every width of
the sequence number, set of masters and lifetime:

- `TypeCorrect`.
- `ExchangesPaired`, if every transmit stamp is valid (`SendStampCurrent`, section 5,
  shows that this is needed). `ExchangePaired` speaks of the last result only; the
  induction needs `Numbered`, that a message of age k carries the number of the k-th
  last request, and `Stamped`, that the stored transmit stamp is the latest request's. That the counter
  has not turned full circle within `MaxAge` requests is an assumption on the constants.
- `MissedAtWrap`: an answer of the parent to the latest request is missed only when the
  counter has just wrapped.
- `MastersPaired`: `TmsKnown` ties the filter's count, which `updateDelay` asks, to `Tms`.
- `DelaysHold`: the composition implements the part's specification, so that the three
  results hold of what the run checks.

The registers, for every number of subseconds, every bound of the seconds and every set
of times to set: `NeverBehind` and `SetsExactly`. The properties speak of calls that
return; `Reading` and `Setting` say what holds after each register access. After the
low half is read, that half with the *present* high half is not before the call, since
a tick that clears the low half raises the high one: that is why the low register must
be read first. A setTime that is not disturbed finds its argument in the update
registers until they are loaded.

The peers and the timers: `PeersPaired` and `CommandsSettle` apply the lemmas of the two
modules above, instantiated like the parts; `part` is rigid, and an invariant of a part
is needed only where that part runs.

`EngineProofs`, for `MCEngine` and the configurations of `MCPtpPortConfigs`:

- `Normalized` and `ArithExact`, for a second of any even length, if the stamps received
  are in range. The lemmas are on `NormalizeTime` and on halving.
- `FilterAlwaysFits`, for every width of at least 5 bits, every order up to two less than
  the width and every set of samples of either sign below half the largest number in
  absolute value: as long as no sample is below `Floor`, the least one of which a full sum
  still fits, the sum does not overflow and the result stays within the range of the
  samples. In the code the floor is -2^25 ns for the path delay (order 6), and no sample of
  the offset (order 0) reaches it. The guard of `filter` compares signed values, so that it
  bounds positive samples of any size and negative ones not at all; below the floor the
  sum does overflow (`NoOverflow`, section 5). `FilterFits` is not inductive:
  `FilterInv` adds that the result is the sum divided by the power of two that the order
  gives, from which the sum lies between that many times the least and the greatest
  sample. A sample replaces one average in the sum, and a change of order rescales the
  sum by whole powers of two, which leaves the result what it was (`DivisionTwice`).
  The provers know no power with a variable exponent; `2^n` enters as
  the number of subsets of a set of n elements, a theorem of the library, from which the
  laws of powers are proved.
- `ServoStepsOnce`, for every error, frequency and noise, if the steering margin is kept:
  the largest adjustment, the oscillator's own rate and twice the noise do not exceed the
  offset from which the clock is set (`ServoMargin`; 512 us against 100 ms in the code).
  The invariant says that a clock that has been set stays within what one saturated
  second can move it (`Reach`): an adjustment at its limit is larger than the rate, so
  that it moves the clock back, and one below its limit has already changed sign. This is
  the safety part of `ServoSettles`.
- `SlaveOnlyInConfig`, `PassiveTimersAlwaysMatch`, `PathsChoiceIsOrderIndependent`: the
  theorems of `PtpPortProofs` for the three configurations the run checks. What has to be
  shown is that each set of messages meets the assumptions of `PtpPort`, and for the last
  that the announcements of the six paths are consistent.

`EthernetProofs`, for `MCEthernet`:

- `BuffersKept` and `NoLostWakeup`, for every number of descriptors, buffers and freeing
  threads. The latter rests on `WakeupComing` and `StatusSeen`: whenever a descriptor is
  bare or a frame waits, the input thread is awake or about to be, or a freeing thread is
  between its free and the semaphore, or the status says that the next free must wake it.
- `DescriptorsBounded`, for every number of transmit descriptors: never more packets are
  queued than there are descriptors, and no packet that nobody filled in, whichever of the
  two threads takes the token of the semaphore. It needs `ConfigFilled`: a thread about to
  transmit, or waiting to try again, has filled `TxConfig`. This is the safety part of
  `DriverProgresses`.
- `AloneSendsItsPacket`: with one sending thread `low_level_output` sends the packet it
  was called with. With two it does not (section 5), so sharing `TxConfig` is the only
  cause.

`ServicesProofs`, for the parts of `MCServices`:

- `RepliesSafe`, for one server thread (with two, `NeverUsesFreed` fails, section 5) and
  every set of pbufs and clients. The invariant says that the buffers which the thread
  reads are held (`HeldWhileServed`), that a packet pending when the thread comes to wait
  has given the semaphore (`Announced`), and that a packet that replaces the one served
  does so with its own address (`PairStored`) and the semaphore (`ReplacementAnnounced`).
- `FullDrains`, `NoneStranded`, for every queue size and number of tasks, if no string is
  longer than the queue. A longer string would fill the queue before the interrupt that
  empties it is enabled; the strings the shell writes are shorter.
- `PingAnswersRecent`, for every width of the sequence number with more than three values
  and every number of requests: the safety part of `PingAnswered`. A request counts as
  answered only if a packet with its number or the one before came in. It need not be a
  reply nor come from the host that was asked, since `ping_recv` checks neither.
  `AcceptedReply` follows the accepted packet from the reset of `ping_result`, when it can
  only answer the last request, over the increment, which makes it one older.
- `StaticIsFinal`, for any number of tries, refusals and declined addresses: the safety
  part of `AddressObtained`. `ThreadStates` says that the client is off from `dhcp_stop`
  on, and that the state `DHCP_TIMEOUT`, from which nothing starts it, is already entered.
- `HttpNetconns`, `IdleServerAccepts`, for every number of clients, netconns and resets,
  the second if fewer connections are reset than there are netconns for them: the safety
  part of `Served`. `WaitingDistinct` says that no connection waits twice or is also being
  served, without which one `close` could end two; `LostToResets` pays each lost netconn
  with a reset that no open connection still has.

Assumptions on constants are the named ASSUMEs of the modules, and the hypotheses
named in the theorems; the runs evaluate the former.

Only model-checked: liveness (`EventServed`, `GeneralStarvedOnlyByEvents`, `ServoSettles`,
`DelayKeepsMeasuring`, `TimersKeepFiring`, `PortTakesOver`, `DriverProgresses`,
`DhcpAnswers`, `AddressObtained`, `PingAnswered`, `Served`), since fairness and ENABLED are
out of the prover's reach. Of those that also have a safety part it is proved, except the
value that the search of `DhcpOptions` finds, which rests on the fold that encodes a
message. Every invariant and action property of the passing runs is stated by a theorem.

## 5. Disagreements that have no run

While modelling, TLC also refuted the following properties, each of which states what
a line of the repository says. They are defined in the modules and can be checked with
the constants given; the runs above keep to the five that concern the protocol most.
The properties that do hold next to them are in the runs.

| Property | With | What the code does |
|---|---|---|
| `DelayE2E!SameMaster` | 2 masters | `updateDelay` asks only whether the offset filter has a sample (`dep/servo.c:195`): the first answer of a new parent is combined with the old one's `Tms` |
| `DelayE2E!LatestAnswerUsed` | `SeqMax` 3 | `sentDelayReqSequenceId - 1` is an `int` (`protocol.c:954`): at the counter's minimum the answer to the latest request is dropped; `MissedOnlyAtWrap` shows that this is the only case |
| `DelayE2E!SendStampCurrent` | `TxStamps` BOOLEAN | a stamp with zero seconds is not stored (`protocol.c:1366`), the number advances: an earlier request's stamp is used |
| `PeerDelay!OneExchange` | one two-step peer | `waitingForPDelayRespFollowUp` outlives its request (`protocol.c:1203`): t1 and t3 of one exchange, t2 and t4 of another |
| `PeerDelay!TwoStepCompleted` | one-step requester, two-step peer | the responder decides by the request's flag, the requester by the response's (`protocol.c:1037`): the follow up never comes |
| `TimerService!StartTakesEffect` | the real queue of 10 | a few state changes without a pause fill the queue and a start is dropped (`dep/timer.c:64`) |
| `TimerService!HandlesHeld` | one restart | timers of the ended PTP thread run on and nothing can stop them (`dep/timer.c:24`) |
| `ServoFilter!NoOverflow` | a sample below the floor, -17 in 8 bits with order 3 | the guard compares signed values (`dep/servo.c:104`); `updateDelay` checks no sign, and `SameMaster` shows where negative path delays come from |
| `Servo!SettlesForInterval` | `MasterInterval` 2 | `logSyncInterval` is the clock's own (`dep/servo.c:284`): with Sync every two seconds the loop oscillates |
| `Arith!StampConverted` | `MaxStamp` above `INT_MAX` | `toInternalTime` leaves its result unassigned (`arith.c:56`) |
| `EthTx!SendsItsPacket` | 2 senders | the static `TxConfig` is overwritten by the other thread (`ethernetif.c:322`) |
| `EthTx!OwnTxStamp` | the PTP thread alone | a token of an earlier packet ends the wait (`ethernetif.c:682`) |
| `PtpTime!ReadIsATime` | `G` 2 | a read over the end of a second is almost a second ahead (`ethernetif.c:598`) |
| `DhcpServer!NoLeak` | 2 pbufs | a replaced packet is never freed (`dhcp_server.c:127`) |
| `DhcpServer!NeverUsesFreed` | 2 threads | `dhcps start` given twice makes two threads that free one packet (`dhcp_server.c:199`) |
| `DhcpOptions!TypeFound` | 2 options before the type | the index is set, not advanced (`dhcp_server.c:150`): the search takes another byte for the type, or spins for ever (two options of 4 bytes), and the thread with it. `DhcpServer` has messages whose type is not found, and `PendingLeaves` excepts the packet that hangs the thread |
| `Uart!OnlyWrittenSent` | | a zero byte is sent when the queue is empty (`stm32f7xx_uart.c:51`) |
| `DhcpClient!AlwaysObtained` | a server that offers and refuses for ever | every refusal resets `tries`, so that the static address is never set (`src/app/src/app_ethernet.c:175`) |
| `Ping!EatenIsHandled` | | every ICMP message is taken while a ping runs (`ping.c:34`) |
| `HttpServer!SocketsClosed` | 1 reset | a socket whose `read` fails is not closed (`httpserver-socket.c:186`) |

## 6. Plan

1. (done) `NetQueue`, `PbufFifo`, `Bmc`, `PtpPort` and their first theorems.
2. (done) The delay mechanisms, the timer service, servo, filter and arithmetic, the
   Ethernet glue and the PTP clock, the application's services; theorems about five of
   them.
3. (done) `NetQueue` implements `PbufFifo`; the foreign master table, `best`, the parent
   and calibration of `PtpPort`; order independence of `bmc`; peer delays; timer commands;
   the clock's registers; the DHCP server in its composition.
4. (done) The filter, the servo's single step, the configurations of `PtpPortConfigs`, the
   transmit descriptors, and the safety parts of `Ping`, `DhcpClient` and `HttpServer`.

## 7. Not modelled

FreeRTOS, lwIP, HAL, CMSIS and BSP are vendored, and with the register definitions and
the fonts and pages of the demonstration they make up almost all of the repository's
lines; the project's own logic is about five thousand. The models say how that code
uses their mailboxes, mutexes, sockets and pbufs, and do not verify them. Two parts of them
are modelled from their source, because what the project's code does depends on their
states: the timer service's commands and expiries (`FreeRTOS/Source/timers.c`) and the
states of lwIP's DHCP client. Left out of these are the branch of the timer service for a
timer that has expired before its start is processed (a period is longer than a command
waits), the client's own limit of requests, which is above `MAX_DHCP_TRIES`, its renewal
timers, and `REBOOTING`, which only a change of the link reaches, and nothing reports one.

`EthTx` makes the three assignments to `TxConfig` one step: between two of them the other
thread leaves fields of both packets there, after them all of its own, and either is not
this thread's packet.

Of the project's own code: `dep/msg.c` (byte layout), statistics output, the calendar
conversion, PHY and board setup, the choice of the page in the HTTP server and its
generated pages have no control worth checking. `issueAnnounce`, `issueSync` and
`issueFollowup` change only sequence numbers nobody reads back. `updateTime`,
`ethernetif_ptp_update_offset` and `netShutdown` are never called. The floating-point
gains of the servo are 1 after `ptpdStartup` and so are not modelled as floats.
