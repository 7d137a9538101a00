# TLA+ specifications of the popcorn5 firmware

The repository holds the firmware of an STM32F4 board with Ethernet. A test
station sends the board a serial number over TCP; the board echoes it and posts
a JSON packet with that number to a collecting server. The version in use is
`Project/FreeRTOS/working`: FreeRTOS 6.1.0, lwIP 1.3.2 with the netconn API, ST's
Ethernet driver and ST's port of lwIP. These modules specify that version, check
it with TLC and prove what matters most with TLAPS.

Two copies of lwIP are in the tree. `Utilities/lwip_v1.3.2/src/src` is 1.3.2,
`Utilities/lwip_v1.3.2/src` next to it a 1.4 release. The port (`sys_arch.c`,
`ethernetif.c`) and the application use 1.3.2's interfaces and the linker maps in
the tree name only its symbols, so the models follow `src/src`.

## 1. Inventory

| Part | State | Operations | Works with |
|---|---|---|---|
| `tcpecho_thread` (tcpecho.c) | listener and served netconn, `recv_serial`, `flag_recv_success`, `flag_Client` | accept, receive, echo, parse a serial, raise the flags, start a sender | senders, through unprotected globals; lwIP, through netconn calls |
| `tcp_sendData_thread`, one per accepted serial (tcpecho.c, json.c) | its netconn, `errWrite`; the shared `post_packet` | wait for `flag_Client`, connect, build and write a packet, clear the flag, close | the same globals; the collecting server |
| netconn API (api_lib.c, api_msg.c) and what it sees of TCP (tcp.c, tcp_in.c) | netconn pool, `conn->err`, `conn->pcb`, `conn->state`, `write_msg`, mailboxes, `op_completed`, `refused_data` | `netconn_accept`, `netconn_recv`, ... in the callers; `do_connect`, `do_recv`, `do_write`, `do_close`, `do_delconn` and the callbacks `recv_tcp`, `sent_tcp`, `poll_tcp`, `err_tcp`, `accept_function` in tcpip_thread | callers by message and semaphore; `tcp_input` and the TCP timers |
| ARP cache (netif/etharp.c) | `arp_table`, `etharp_cached_entry` | `etharp_output`, `etharp_query`, `etharp_arp_input`, `etharp_tmr`, all in tcpip_thread | `ip_output`, the frames received, `arp_timer` |
| number parsing (json.c `str2int`) | none of its own; it reads the received pbuf | `str2int` | `tcpecho_thread` |
| `tcpip_thread` and timers (tcpip.c, core/sys.c) | mailbox, list of relative times, element pool, `tcpip_tcp_timer_active` | `sys_timeout`, `sys_untimeout`, `sys_mbox_fetch`, the handlers | everybody, through the mailbox |
| FreeRTOS port of lwIP (sys_arch.c) | thread table with a timer list per thread, queues, semaphores | `sys_thread_new`, `sys_arch_timeouts`, `sys_arch_mbox_fetch`, ... | FreeRTOS |
| Ethernet receive (stm32f4xx_it.c, ethernetif.c, stm32f4x7_eth.c) | ring of 20 descriptors, DMA status, `s_xSemaphore`, `DMARxDescToGet`, `DMA_RX_FRAME_infos` | `ETH_IRQHandler`, `ethernetif_input`, `low_level_input`, `ETH_Get_Received_Frame_interrupt` | the DMA; `tcpip_input` |
| Ethernet transmit (ethernetif.c, stm32f4x7_eth.c) | ring of 5 descriptors, `DMATxDescToSet`, `xTxSemaphore`, TBUS | `low_level_output`, `ETH_Prepare_Transmit_Descriptors` | the DMA; every task that sends |
| DHCP task (netconf.c), UDP echo, LCD thread, UARTs, `json_Parser` with jsmn | | not started, never called or not in the build (`USE_DHCP` is commented out in `inc/main.h`) | |
| Standalone version (`Project/Standalone/tcp_echo_client`) | `tcp_server_pcb`, `Tcp_flag`, connection structures | one loop, raw-API callbacks | lwIP without threads |
| ST's demonstration projects, FreeRTOS, lwIP's core, CMSIS, peripheral library | | vendor code | |

What is hard in this code:

- **Interleaving.** The application threads have one priority, are time sliced
  and share four globals and a buffer without a lock. The DMA writes descriptors
  and status bits while the CPU reads them; the interrupt tests a flag and clears
  it later.
- **Protocol sequences.** A sender uses one netconn for connect, write, close and
  connect again; lwIP drops the pcb behind its back.
- **Waiting for each other.** A caller waits on a semaphore for tcpip_thread, which
  holds a pointer to the caller's stack meanwhile; tcpip_thread may wait for room in
  a caller's mailbox.
- **Stale state.** An ARP slot outlives its host, the slot found last is tried
  first; `str2int` gets a pointer without a length into a buffer that held other
  frames.
- **Limits.** The thread table has six entries, the netconn pool four,
  the timer pool ten, a mailbox six, the ARP table ten, the rings 20 and 5
  descriptors; most limits are met by dropping something silently.
- **Time.** Timers are relative to each other and counted only while their thread
  waits; a wait may end late.
- **Start-up.** `main()` arms a timer and sends a frame before the scheduler runs.

What makes each part correct: the application must not post digits nobody sent,
nor post twice for one request, nor lose netconns; the timers must never fire
early, never be dropped, find an element and a list when they are armed, and go on
firing; the receive path must find a frame
whenever it is told of one, take frames in order and return descriptors; the
transmit path must hand over what it copied and never leave the DMA asleep for
good; a netconn call must be answered once, leave nothing behind and deliver data
once and in order, and end when its connection does; the ARP cache must send to nobody but the owner of an address;
a request must be read as the number it contains. `PROJECT.json` lists the hazards
at their lines, with the properties that
cover them.

## 2. Modules

| Module | Models | Properties, in short |
|---|---|---|
| `TcpEcho` | `tcpecho_thread`, all `tcp_sendData_thread`s, the netconn calls as they see them | pool, thread table, posts, failures, requests read as their numbers |
| `TcpEchoProofs` | | proofs about `TcpEcho` |
| `SysTimeouts` | `core/sys.c`, `tcpip_thread`'s loop and timers, `sys_arch_timeouts`, start-up | no early, lost or doubled timer, an element for every one |
| `SysTimeoutsProofs` | | proofs about `SysTimeouts` |
| `RxSignal` | abstract: what the receive path promises about its signal | no count without a frame; the backlog never shrinks |
| `RxSignalProofs` | | proofs about `RxSignal` |
| `EthRx` | Rx ring, DMA, `ETH_IRQHandler`, task `Eth_if` | implements `RxSignal`; order, descriptors, contents of the pbufs |
| `EthRxProofs` | | proofs about `EthRx` and its refinement of `RxSignal` |
| `EthTx` | Tx ring, DMA, `low_level_output` | no stall, no damage below the limit, progress |
| `EthTxProofs` | | proofs about `EthTx` |
| `ApiCall` | abstract: a call is a request, one answer, and the return | |
| `NetconnApi` | netconn calls from the caller through tcpip_thread and back, the callbacks, mailboxes, `tcp_input` as far as they see it | implements `ApiCall`; data once and in order, no dangling pointer, callers woken |
| `NetconnApiProofs` | | proofs about `NetconnApi` and its refinement of `ApiCall` |
| `Etharp` | `arp_table` and everything that reads or writes it | one entry per host, packets only to the owner, what is forgotten |
| `EtharpProofs` | | proofs about `Etharp` |
| `Str2Int` | pure: `str2int` on a part of a request and the memory behind it, and a reference by position | used by `TcpEcho` |
| `Str2IntProofs` | | proofs about `Str2Int` |
| `MC*` | the instances TLC checks | |

Definitions whose comment begins with "Mutant:" are wrong variants of the
definition below them. Nothing uses them; replacing the definition by its mutant
breaks the property named in `PROJECT.json`, which shows that the property
depends on that line of the code.

### TcpEcho

A thread is a program counter; one action is one access to a global or one half
of a netconn call. A call has two halves because tcpip_thread does the work and
the caller reads `conn->err` later, when `err_tcp` may have changed it.

| Model | Code |
|---|---|
| `tpc`, `ServerSetup` ... `ServerClose` | `tcpecho_thread`, statement by statement |
| `pc[i]`, `SenderStart` ... `SenderCloseReturns` | `tcp_sendData_thread`; `i` is its entry in `s_timeoutlist` |
| `do_writemore`, `WriteGoesOn`, `do_close_internal`, `CloseGoesOn` | the waits inside `netconn_write` and `netconn_close`: short of memory or of send buffer, the call goes on when `sent_tcp` or `poll_tcp` comes, which may be never |
| `ServerSerial(f)` | `str2int` (module `Str2Int`) on one part `f` of the netbuf; the loop over `netbuf_next` |
| `serial_no[i]`, `post_packet` (two halves) | `json_Packet_Gen`: the serial is read once, the packet is written in several steps |
| `pcb[i]`, `err[i]` | `conn->pcb.tcp` and `conn->err` of the sender's netconn |
| `Connected`, `ConnLost`, `PeerAnswers`, `PeerConnects` | `do_connected`, `err_tcp`, `recv_tcp`, `accept_function`: tcpip_thread at any moment |
| `memp`, `backlog` | the netconn pool and the accept mailbox |
| `s_nextthread`, `ServerSpawn` | the count of `sys_thread_new`, which has no way down |

`requests`, `received`, `posted`, `writes` and `failed` are history. Requests are
fragments, serials what `str2int` makes of them; a packet is the two halves of its serial.

### SysTimeouts

`timeouts` is the list of `tcpip_thread`, each element with the code's relative
`time` and, for the properties, `left`: the ticks that really remain. `Tick`
happens at every point of the thread. `Fetch`, `TimedOut`, `Received`, `Account`
and `UnlinkFirst` are the stretches of `sys_mbox_fetch` between which time may
pass; `Insert` and `Unlink` are the list operations, and `Due` adds up the relative
times, which `sys_timeout` subtracts one by one on its way to the new element's
place. Start-up is in the model because `ethernetif_init` calls `sys_timeout` from `main()`, when
`xTaskGetCurrentTaskHandle` names the task just created. `Tick` is external.

### RxSignal and EthRx

`RxSignal` knows the number of complete frames, the flag R, the semaphore and the
two readers, nothing else. `EthRx` is the driver: `status` and `rxBuff` are the
descriptors and their buffers (a segment is its frame's number and its position),
`Scan` is one round of the loop of `ETH_Get_Received_Frame_interrupt`, `Copy`,
`Release` and `Resume` are `low_level_input`. The DMA's actions (external) follow
from how the driver uses the descriptors: it stores a segment in a descriptor it
owns, gives it to the CPU, raises R with the last one, drops a frame that finds no
descriptor and cuts off one that runs out of them.

The refinement maps `ready` to the complete frames the scan has not come to and
`reading` to `pc = "scan"`; `SignalSpec`, the abstract specification, is a
property of the run `ethrx`.

### EthTx

`own` is the OWN bit, `tx` the descriptor of the DMA, `pc[t]` where task `t` is in
`low_level_output`. `main()` is the first caller, through the gratuitous ARP of
`netif_set_up`, and creates the semaphore while no other task runs; so the lazy
creation is no race. The second task of the instance is the one a build with
`USE_DHCP` has. `intact` and `holds` are history of the buffers. The DMA (external)
reads its descriptor in one step and raises TBUS in a later one; between them a
frame may be queued. It does not stay between them for as long as a task needs to
copy another frame: this is the guard of `Copy`, and an assumption about hardware
(a few bus cycles against hundreds).

### ApiCall and NetconnApi

`ApiCall` has one variable, the phase of each thread: idle, asked, answered.
`NetconnApi` is the machinery behind it.

| Model | Code |
|---|---|
| `mbox`, `sys_mbox_post`, `Calls` | `tcpip_apimsg`: the message is on the caller's stack, the post waits for room |
| `ApiMsg`, `InPkt` | the two kinds of message in `tcpip_thread`'s loop |
| `conn[c]` | a netconn with its pcb: `state`, `err`, `op_completed`, `recvmbox`, `write_msg` set or not, the pcb's state and its `refused_data` |
| `do_connect(n)`, `do_writemore(n)`, ... | the function of that name: the set of records it may leave, because memory and the send buffer may be short |
| `EventRecv`, `EventEof`, `GoOn`, `do_connected`, `err_tcp_lost`, `err_tcp_posted` | the callbacks `recv_tcp`, `sent_tcp` and `poll_tcp`, `do_connected`, `err_tcp` |
| `PacketFor`, `tcp_process`, `Data`, `Fin`, `Receive`, `ConnectionLost`, `accept_function`, `StrayPacket` | `tcp_input` for a segment: acknowledgement, data, FIN, reset, a new connection, or none of ours |
| `tcp_fasttmr`, `tcp_slowtmr` | refused data is offered again; polls, retransmissions that give up |
| `tcpip_input`, `inpkt`, `held` | the pool of packet messages, used with the post that may fail |
| `blocked`, `ErrTcpGoesOn` | tcpip_thread inside `err_tcp`'s blocking post |

tcpip_thread is of higher priority than its callers, so a message is one step; the
one place where it waits is `err_tcp`, and there the step is split. The refinement
maps a thread to "asked" while its call is about to be posted, in the mailbox, or
pending in `conn->state`; to "answered" once the semaphore is up and none of these
is the case; any other combination, such as a semaphore that is up before the
operation has ended or left up for the next call, maps to a value that `ApiCall`
does not know. `CallSpec` is a property of the run `netconn`.

`TcpEcho` uses a netconn call as two steps, which `ApiCall` justifies, and `EthRx`
ends where `tcpip_input` begins.

### Etharp

All of it runs in tcpip_thread, so every call is one action; packets to send, ARP
packets of any host and the timer come in any order. `find_entry` is a function of
the table (the match, or the candidate for recycling, or ERR_MEM) and is used by
`etharp_query` and `update_arp_entry` as in the code. `ctime` is a byte and wraps,
also for empty entries. A slot keeps the old `ethaddr` and `ipaddr` when its entry
expires or is recycled, as in the code. `latest` is a ghost: what each host announced
last, and when. Hosts may announce any address of `MacsOf`, so an address may change
and two hosts may share one. `out` is the frame the last call put on the link.

### Str2Int

Pure operators, which `TcpEcho` extends. A fragment is the memory from a payload
pointer to the end of its buffer, with the length of the payload: what lies behind
the payload is part of the input, be it the padding of a short frame, digits an
earlier frame left, or anything else. Nothing is assumed about it: only the frame
itself is padded, not the further pbufs of a long request that `netbuf_next` reaches.
`SignLoop`, `Puiss`, `DigitLoop` and `Result` are the two loops of `str2int`; `str2int`
is the set of results, all ints when it runs out of the buffer. `Wrap` brings `result`
back into the range of int; the width is the constant `INT_MAX`, 2^31 - 1 on the board.
The reference `Value` works from the other end: it finds where signs and digits of
the payload end and adds the digits up from the last place, with no overflow before
the end. `Delimited` is when the two must agree: another character follows the number
in the payload, or a zero follows the payload.

## 3. Runs

| Run | Checks | Shows |
|---|---|---|
| `tcpecho` | `PoolAccounting`, `ThreadTable`, `OneWritePerRequest`, `PostedWasReceived`, `TwoFailuresAtMost`, `NeverReconnects`, `ParsesRequest`, `PendingServed` | The unprotected globals do less harm than one would fear: no sender posts twice for one raise of the flag, and each half of the serial in a packet comes from one that was received, though two senders may post the same one, a packet may mix two, and the serial posted may be a later one than the flagged. A part whose number is delimited is read as that number, whatever lies behind it. The netconn pool is exact. A sender survives one failed write, cannot reconnect, and spins in `netconn_close` after the second. A flagged serial is taken as long as one sender is in its write loop and no write waits for ever. |
| `systimeouts` | `TypeOK`, `NeverEarly`, `ElementFound`, `TcpTimerArmed`, `PeriodicArmed`, `PeriodicRuns` | The delta list is right under insertion, cancellation and late accounting, and a pool of as many elements as timers is never empty when one is armed. |
| `systimeouts_boot` (violation) | `TimeoutsFound` | `ethernetif_init` arms a timer in the name of a task without a list. |
| `ethrx` | `FrameFound`, `FramesInOrder`, `DescriptorsReturned`, `FullIsServed`, `NoPhantomFrame`, `SignalSpec` | The driver implements `RxSignal`; there is never a count without a frame; frames are taken in order, once, and their descriptors returned, with errors, truncation and overflow. When the ring is full the task is woken or at work, so lost counts delay frames but do not end reception. |
| `ethrx_stuck` (violation) | `ReadyIsRead` | Two frames before the clear of R, one count: the second frame stays. |
| `ethrx_packet` (violation) | `PacketFilled` | A frame of two buffers that begins in the last one of the ring is copied from behind it. |
| `ethtx` | `NoStallWhenFull`, `QueuedIsOwnCopy`, `DamageOnlyWhenFull`, `QueuedIsSent` | The DMA may stop with a frame in the ring but never with a full one, so the next call wakes it; frames are damaged only when the ring is full. |
| `ethtx_intact` (violation) | `QueuedStaysIntact` | With a full ring the oldest waiting frame is overwritten. |
| `netconn` | `TypeOK`, `WriteMsgValid`, `FreeIsForgotten`, `StreamIntact`, `InpktAccounting`, `LossEndsOperation`, `CallSpec`, `ShortCallsReturn`, `LossWakesReader` | Whatever peers, memory and timers do, a call is answered once and leaves nothing behind; `write_msg` never points to a stack that is gone; a netconn back in the pool is named by no pcb; data refused by a full mailbox still arrives once and in order; short calls return and a lost connection wakes its reader and ends the operation that waits for it, unless tcpip_thread is held up in `err_tcp`. |
| `netconn_err` (violation) | `ErrTcpEnds` | It may be held up for good: it waits for the server, and the server for it. |
| `netconn_eof` (violation) | `EofWakesReader` | A FIN that finds the mailbox full is never reported. |
| `etharp` | `NoDuplicates`, `StableIsLatest`, `UnicastToOwner`, `ForgetsLeastValuable`, `SnoopingForgetsNone`, `PendingEnds` | No order of announcements, expiry, recycling and the one-slot cache makes the stack send to an address its next hop did not announce last; the entry that goes is the least valuable one. |

`RxSignal` has no run of its own: `SignalSpec` and `NoPhantomFrame` are checked of the
driver. The type invariants of `TcpEcho`, `RxSignal`, `EthRx`, `EthTx` and `Etharp` are in no run: they are proved for all constants (section 4). Those of `SysTimeouts`
and `NetconnApi` are both checked and proved.

### Bounds

- `tcpecho`: a thread table of four, so two senders and then a refusal; a pool of
  three netconns, which runs dry as soon as two senders and the listener hold one
  each; three requests, the least that lets one sender fail twice; six fragments,
  read as 1 or -1, one serial that is accepted and one that is refused: with signs
  that cancel, digits that overflow an int of four bits (`INT_MAX` 7), stale digits
  behind a delimited number, padding, and a number that nothing delimits, in buffers
  of four bytes (`BufLen`). Three or more senders add no new pair of
  accesses. `MaxRequests` is the only cap on behaviour.
- `systimeouts`: two of `tcpip_thread`'s periodic timers, the TCP timer, the port's
  and a user's, in a pool of five; intervals 1, 2 and 4 in the order of 250 ms,
  500 ms and 5 s, so that elements collide at equal times; user delays 0 and 3 (in
  front, in the middle, at the end); three messages (`MaxMsgs`).
- `ethrx`: three
  descriptors, frames of one or two segments, five frames (`MaxFrames`): the ring
  wraps, overflows and is read while it fills. A semaphore limit below the ring's
  size makes the limit reachable; on the board both are 20, and then
  no count is ever refused (`CountsFit`, section 4). The violation runs use the
  smallest instance that shows the disagreement.
- `ethtx`: three descriptors and three callers; no bound on the number of frames.
- `netconn`: the server, one accepted netconn, one sender; a mailbox of two for
  tcpip_thread, so that a caller and a packet fill it; a recvmbox of one and three
  data segments for it (`MaxData`), so that data is refused, another segment meets
  the refused one and the FIN finds the mailbox full; one packet message, so that the pool runs dry. Netconns are independent but
  for the mailbox and for a tcpip_thread that waits, and one of each kind shows both.
  The violation runs use the port's real lengths (6, 6 and 8).
- `etharp`: two entries for three hosts, so that the table overflows; one host with
  two addresses, one of which another host has as well; `MaxAge` and `MaxPending`
  2 (240 and 2 in the code) and a `ctime` that wraps at 3 (256), above both as in
  the code. No bound on the number of calls.

Deadlock is not checked where the peers or frames of the instance run out, nor in
the runs of `NetconnApi`: there the stack really can stop, which is `netconn_err`.

### Fairness

- `TcpEcho`: weak fairness of each sender, which FreeRTOS's time slicing of equal
  priorities gives; nothing of the server, the peers, the network or tcpip_thread, which may be
  held up (`netconn_err`): a call may wait for ever. `PendingServed` has as its premise
  that no sender stays in `netconn_write` for ever, which a peer with a closed window
  can bring about.
- `SysTimeouts`: weak fairness of `tcpip_thread`, whose priority is the highest but
  one, and of time. No message has to come; that they stop coming is the bound
  `MaxMsgs`, and the code needs it: while the mailbox is never empty no timer runs.
- `EthRx` (only for `ethrx_stuck`): the task, the interrupt and a frame the DMA has
  begun go on. So the counterexample is no matter of scheduling.
- `NetconnApi`: weak fairness of tcpip_thread, of each caller (between its calls a
  sender may rest for ever, it waits for a flag) and of the fast TCP timer, which
  `PeriodicRuns` of `SysTimeouts` justifies. Nothing of peers, memory or the slow
  timer's decisions.
- `Etharp`: weak fairness of `etharp_tmr`, for the same reason; like every timer it
  needs a mailbox that runs empty now and then.
- `EthTx`: the DMA goes on and a call that began ends. That calls keep coming is
  the premise of `QueuedIsSent`, not assumed.

## 4. Proofs

All theorems hold for every value of the constants that the named assumptions
admit.

**TcpEchoProofs** (`TypeCorrect`, `PoolAccounted`, `TableGrowth`, `WritesBounded`,
`PacketsGenuine`, `FailuresBounded`, `LostForGood`, `RequestsParsed`): any table, pool,
set of fragments and number of requests. The inductive invariant
`IInv == TypeOK /\ PoolAccounting /\ TableInv /\ WriteInv /\ SerialInv /\ FailureInv`.
`TypeOK` is not inductive alone: that `netconn_delete` does not overfill the pool
needs `PoolAccounting`, which counts the holders (finite sets and cardinalities,
from `FiniteSetTheorems`). `WriteInv` says when a sender still has a request to
answer: while the flag is up unless it is just about to clear it. `SerialInv`
follows a serial from `recv_serial` through `serial_no` into each half of the
packet. `FailureInv` follows a sender through its errors: after the first its
netconn has no pcb, after the second it stays in the close loop. `RequestsParsed` rests on
`DelimitedParsed` of `Str2IntProofs`.

**RxSignalProofs** (`SignalTypes`, `NoPhantom`, `LagGrows`, `LagBounded`): any ring and
any limit but zero (`Sizes`, a hypothesis of each theorem). The counts
plus the flag that is not yet seen plus the frame being looked for never exceed the
frames; a flag that is raised while the interrupt runs is not counted, because the
clear that follows may wipe it out. `LagBounded` adds that the frames without a claim
never fill the ring: while the interrupt runs, the count it gave is still there
(`ClaimedInv`).

**EthRxProofs** (`RxTypes`, `ScanFindsFrame`, `FramesOnceInOrder`, `AllReturned`,
`PacketsFilled`, `NoPhantom`, `SignalImplemented`, `BacklogNeverShrinks`,
`FullRingServed`, `CountsFit`): rings of any size, any semaphore limit, frames of up to as many segments as the ring has descriptors, any
number of frames. The inductive invariant counts descriptors backwards from the one
the DMA uses next: for some `c`, the last `c` are closed and the others belong to the
DMA (`ClosedInv`); the closed ones hold the frames in the order in which they came,
each in one piece (`SegmentInv`, `OrderInv`, `JoinInv`), and only the frame being
stored lacks its end (`OpenInv`). What the task holds is the oldest part of this
stretch and belongs to one frame (`ScanInv`, `HeldInv`). `FrameFound` needs all of it
and also `NoPhantomFrame`, the invariant of the abstract specification: a scan that
goes on must still have a complete frame ahead, because a claim stands for it. So
the refinement and the invariant are proved together, step by step: each action
keeps the invariant and is a step of `RxSignal` or leaves its state alone
(`StepInv`). That a frame is not counted twice is a matter of cardinalities: the
complete frames ahead of the scan are the set `Waiting`, which `SegmentStored`
enlarges by one with the last segment of a frame and `Scan` shrinks by one when it finds one.
`BacklogNeverShrinks` is `LagNeverShrinks` for the driver itself.
`FullRingServed` is proved from `ServedInv` on top of this: the segment that takes the
last descriptor ends its frame, because what does not fit is cut off, so it raises R
(`FillingEndsFrame`); from there on a count or the flag lasts until the task scans, and
the first descriptor it gives back ends the full ring. `CountsFit` follows from
`NoPhantomFrame`: counts, flag and scan claim different frames of one ring.
`PacketsFilled` is for frames of one buffer (`MaxSegs = 1`), and the invariant
`PacketGenuine` behind it for all: a pbuf holds the first segment of its own frame, and of the
others each at its place or what lies behind `Rx_Buff`, which `ethrx_packet` exhibits.

**EthTxProofs** (`TypeCorrect`, `NeverStalls`, `OwnCopyQueued`,
`DamageNeedsFullRing`): rings of two or more descriptors, any set of tasks.
`RingInv` says that the DMA owns exactly the descriptors from `tx` up to
`DMATxDescToSet`, in terms of distances in the ring; `SemInv` is mutual exclusion
between take and give; `DmaInv` says that a DMA that stops leaves at most its own
descriptor behind, and that TBUS is set exactly while it is stopped. `RingInv` is
needed twice: a descriptor of the DMA at `DMATxDescToSet` means a full ring, a free
one at `tx` an empty ring. With one descriptor `NeverStalls` would be false, which
is what the assumption `TxbufnbAssumption` is for.

**SysTimeoutsProofs** (`TimerTypes`, `TimersNeverEarly`, `TimerElementFound`,
`TcpTimerAlwaysArmed`, `PeriodicAlwaysArmed`): any start-up sequence of different
handlers, intervals, delays and number of messages, with a pool of at least
`Len(Startup) + 3` elements (`PoolAssumption`; lwipopts.h has ten for six timers). With a
smaller pool `sys_timeout` asserts or drops a timer, and none of this would hold.
The list invariant `ListInv` says that no handler is in the list twice, that the
last element is due within the longest interval, and that an element which still has
time to run has no more of it, with the ticks not accounted for yet, than the sum
`Due` of the relative times up to it: the sum may be too large (accounting is late,
timers fire late) but never too small. That `Insert`, `Unlink` and the accounting of
a wait keep it rests on lemmas about prefix sums. `Due` is a recursive function; that
it is well defined, and what inserting or removing an element does to it, is proved
with the least-element principle for sets of naturals instead of an induction rule.
`ArmedInv` ties `tcpip_tcp_timer_active` and the count of started timers to the list
and to the handler being run, whose element is already free; from it, the number of
elements in use is at most the number of handlers, so `memp_malloc` cannot fail
(`ElementFound`); the element that start-up may lose (`TimerPool`) is made up for by
the timer that is then never armed.

**NetconnApiProofs** (`TypeCorrect`, `WriteMsgSafe`, `NoUseAfterFree`, `StreamSafe`,
`InpktConserved`, `LossesEndOperations`, `CallsImplemented`): any senders, any pool and mailbox lengths,
and any amount of data; the listener's mailbox has room for all accepted netconns,
as six has for three. The inductive invariant says of each thread that it is resting,
asked or answered (`ThreadInv`): while it asks, its message is in the mailbox exactly
once and its netconn is idle in the state its function starts from; while the
operation runs, `conn->state` matches the function and the semaphore is down; an
answered one finds the semaphore up, `conn->state` back at NONE and the pcb as the
function leaves it (`Pre`, `Post`). `DataInv` has the ownership: a netconn is
the sender's own, or in the listener's mailbox, or the server's; an operation without
a pcb is pending only on the netconn for which tcpip_thread waits in `err_tcp`; bytes
received, refused and still to come are in order. The callbacks are one lemma each
(`Evolves`: what TCP may make of a netconn). Every step moves at most one thread and
leaves the phase of the others alone, which is the refinement of `ApiCall`.

**EtharpProofs** (`EtharpTypes`, `EtharpNoDuplicates`, `EtharpStableIsLatest`,
`EtharpUnicastToOwner`, `EtharpSnooping`, `EtharpForgets`): any network, any table of at least one
slot, any ages below the wrap of `ctime`. The inductive invariant is
`TypeOK /\ NoDuplicates /\ StableIsLatest /\ UnicastToOwner`. Everything rests on
the lemma `FindEntry`: for a host, `find_entry` returns its entry if there is one,
otherwise a slot whose recycling leaves the other entries alone, or ERR_MEM; that a
least free slot and an oldest entry exist is an induction over a well-founded order.
`NoDuplicates` is needed to show that the entry found last, which is tried first, is
the only one of its host. `StableIsLatest` ties `ctime` to the age of the
announcement, so that the timer expires both in the same step; the assumption that
`MaxAge` and `MaxPending` are below the wrap is what keeps a byte from passing
them unseen. `EtharpForgets` adds what a lookup gives up (`CandidateLeast`): nothing
while a slot is empty, then the oldest stable entry, and the oldest pending one only
when nothing is stable.

**Str2IntProofs** (`DelimitedParsed`, `IntsParsedExactly`): any contents and length of
the buffer, any payload and any `INT_MAX`. `ResultIs` and `OutcomeCongruent` are the
loop argument: `result`, moved up by the places still to come, plus the value of the
digits still to come, is the number of the payload but for a multiple of the 2^32
values of int (`Congruent`). So it does not matter how often the sum overflowed on
the way. `Delimited` puts the byte that ends the number inside the buffer, so that
both loops end where the reference's do (`LoopsEnd`) and nothing behind the buffer is
read. The proof needs no induction rule: `Puiss`, `Result`, `Places` and `Endings` are
recursive functions, and what they compute is shown with the least position at which
two of them would differ (`LeastPosition`, `Agree`). The width of int is `INT_MAX` and
not a number of bits because the provers know nothing of 2^n for a symbolic n.

Every safety property, every action property and both refinements that a passing run
checks are stated by a theorem. Only model-checked:

- the liveness properties `PendingServed`, `PeriodicRuns`, `QueuedIsSent`,
  `ShortCallsReturn`, `LossWakesReader` and `PendingEnds`: fairness is outside the
  prover's reach;
- every violation: a counterexample is a behaviour, which TLC exhibits.

## 5. Findings

With a run that shows them:

1. `ETH_IRQHandler` gives one count for any number of frames (stm32f4xx_it.c:187);
   by `BacklogNeverShrinks` the backlog is never made good (`ethrx_stuck`). Reception does
   not end (`FullRingServed`), but the backlog may come to take all but one of the
   frames the ring holds, and every frame then waits for as many later ones.
2. A frame of several buffers that begins in the last buffer of the ring is copied
   linearly (ethernetif.c:255): the rest of the pbuf is what lies behind `Rx_Buff`
   (`ethrx_packet`). It takes a frame of more than 1524 bytes, which the MAC lets
   through up to 2048; with shorter ones it cannot happen (`PacketsFilled`).
3. `ethernetif_init` calls `sys_timeout` before the scheduler runs and in the name of
   `Eth_if`, which has no timer list (ethernetif.c:354): the assertion of
   `sys_timeout` (sys.c:209) fails silently, and the port's ARP timer and a pool
   element are lost at every boot (`systimeouts_boot`). tcpip_thread arms an ARP
   timer of its own, so entries still expire.
4. `low_level_output` copies before OWN is looked at (ethernetif.c:203) and returns
   ERR_OK for a frame it did not queue (`ethtx_intact`).
5. `err_tcp` posts with the blocking call from tcpip_thread (api_msg.c:314). Six
   unread segments, then a reset: tcpip_thread waits for the server to read, the
   server waits for tcpip_thread to execute its call, and the stack stops
   (`netconn_err`).
6. A FIN that finds the mailbox full is refused and not kept (tcp_in.c:336): the
   server waits for ever on a connection in CLOSE_WAIT (`netconn_eof`). The port
   ignores the size given to `sys_mbox_new`; lwipopts.h asks for 2000.

Behaviour the models contain and that a reader of the code may not expect:

- `do_connect` answers ERR_OK for a netconn without a pcb, so a sender that closed
  its netconn believes it is connected again (`TcpEcho`, `NetconnApi`); see
  `NeverReconnects`.
- `ethernetif_input` passes NULL on after an error or when there is no pbuf (`EthRx`).
- `do_close_internal` does not put `recv_tcp` back after a failed close: if the FIN
  comes next, `tcp_recv_null` closes the pcb and the caller of `netconn_close` is
  never answered (`NetconnApi`).
- `etharp_query` returns ERR_OK for a packet it drops, `ARP_QUEUEING` being 0.
  `update_arp_entry` without `ARP_INSERT` fills empty slots all the same, although
  its comment says that only existing entries are updated; `SnoopingForgetsNone`
  says that it never displaces one (`Etharp`).
- `str2int` goes on into the digits an earlier frame left in the buffer when nothing
  delimits the number of a part: a part of a request that `netbuf_next` reaches and
  that ends in a digit, or a request of digits only that fills its frame (`Str2Int`).
- A sender may post a serial that came after the flagged one, a negative one that
  the server did not flag, or one put together from two; a serial flagged between
  another sender's write and its clear is not posted at all (`TcpEcho`).
- A write waits for ever for a peer that keeps its window closed, and a steady stream
  of messages keeps all timers from running (`TcpEcho`, `SysTimeouts`).

## 6. Not modelled

- Of TCP: sequence numbers, windows, retransmission and out-of-order segments;
  `NetconnApi` has the states of a connection and what reaches the application.
  IP, ICMP, UDP, SNMP, pbufs and memory pools of lwIP, FreeRTOS, CMSIS and the
  peripheral library: vendor code, used through what the models have of it. These
  and ST's demonstration projects are nearly all of the tree; the firmware's own
  code, the port and the driver's data path are a few thousand lines of it.
- `netconn_bind` and `netconn_listen`, done once before any connection; the UDP and
  raw branches of the netconn functions, which nothing here reaches.
- `json_Parser` and jsmn: in the build, never called. The text of the packets:
  constant but for the serial.
- The standalone version: its `main()` is in the middle of a rebuild and starts
  neither server nor client, so there is no behaviour to specify.
- LCD, LEDs, UARTs, board set-up: output and register access.
- The DHCP task, the UDP echo thread and the LCD thread: not started. ST's
  demonstration projects: not this program.
- The branch of `ETH_Prepare_Transmit_Descriptors` for frames longer than a buffer:
  unreachable with an MTU of 1500 and buffers of 1524 bytes.

## 7. Plan

All of the plan is done: `TcpEcho`, `SysTimeouts`, `RxSignal`, `EthRx`, `EthTx`, `ApiCall`
and `NetconnApi`, `Etharp` and `Str2Int`, each but `ApiCall` with its proofs. What
would come next is new code, not more about this: the standalone server and client
once their `main()` starts them, and the DHCP task if a build has `USE_DHCP`.
