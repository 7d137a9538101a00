-------------------------------- MODULE EthRx --------------------------------
(***************************************************************************)
(* The receive path: the DMA fills the descriptor ring, ETH_IRQHandler     *)
(* signals, and the task Eth_if (ethernetif_input, low_level_input and     *)
(* ETH_Get_Received_Frame_interrupt) scans the ring, copies a frame, gives *)
(* the descriptors back and passes the packet on.                          *)
(*                                                                         *)
(* The DMA works while the CPU does; the interrupt preempts the task.  A   *)
(* frame is the sequence of its segments, one per descriptor.              *)
(***************************************************************************)
EXTENDS Integers, Sequences, FiniteSets

CONSTANTS
    ETH_RXBUFNB,   \* descriptors in the ring
    SEM_MAX,       \* limit of s_xSemaphore
    MaxSegs,       \* the most buffers a frame can take
    MaxFrames      \* bound: frames that reach the interface

ASSUME RingAssumption == ETH_RXBUFNB \in Nat \ {0} /\ SEM_MAX \in Nat \ {0}
ASSUME FrameAssumption == MaxSegs \in 1..ETH_RXBUFNB /\ MaxFrames \in Nat

Desc == 0 .. ETH_RXBUFNB - 1
NULL == ETH_RXBUFNB          \* no descriptor
Buffer2NextDescAddr(d) == (d + 1) % ETH_RXBUFNB

VARIABLES
    status,     \* Status of every descriptor
    rxBuff,     \* the segment in every buffer: its frame and its number
    dma,        \* the descriptor the DMA uses next
    incoming,   \* the frame the DMA is storing: its number, segments stored, size
    rbus,       \* receive buffer unavailable
    flagR,      \* R of the DMA status register
    isr,        \* where ETH_IRQHandler is
    sem,        \* count of s_xSemaphore
    pc,         \* where Eth_if is
    DMARxDescToGet,
    Seg_Count,
    FS_Rx_Desc,
    scan,       \* descriptor_scan_counter
    frame,      \* frame.descriptor
    next,       \* DMARxNextDesc
    i,          \* descriptors released
    p,          \* the pbuf: the segments copied into it
    arrived,    \* history: the frames complete in the ring, in order
    handled,    \* history: the frames taken out of the ring, in order
    passed      \* history: the pbuf of each

device == <<status, rxBuff, dma, incoming, rbus, arrived>>
signal == <<flagR, isr, sem>>
driver == <<DMARxDescToGet, Seg_Count, FS_Rx_Desc>>
task == <<pc, scan, frame, next, i, p, handled, passed>>
vars == <<device, signal, driver, task>>

\* OWN is set in a descriptor that belongs to the DMA, FS and LS mark the first
\* and the last segment of a frame, ES an error in it.
Status == [own : BOOLEAN, fs : BOOLEAN, ls : BOOLEAN, es : BOOLEAN]
OWN == [own |-> TRUE, fs |-> FALSE, ls |-> FALSE, es |-> FALSE]
Segment == (1..MaxFrames) \X (1..MaxSegs)
Beyond == <<0, 0>>           \* what lies behind Rx_Buff, or was there at start-up
NoPacket == <<>>             \* a NULL pbuf

TypeOK ==
    /\ status \in [Desc -> Status]
    /\ rxBuff \in [Desc -> Segment \cup {Beyond}]
    /\ dma \in Desc
    /\ incoming \in [id : 0..MaxFrames, done : 0..MaxSegs, size : 0..MaxSegs]
    /\ rbus \in BOOLEAN /\ flagR \in BOOLEAN
    /\ isr \in {"idle", "clear"}
    /\ sem \in 0..SEM_MAX
    /\ pc \in {"take", "scan", "copy", "release", "resume", "input"}
    /\ DMARxDescToGet \in Desc
    /\ Seg_Count \in 0..MaxSegs
    /\ FS_Rx_Desc \in Desc \cup {NULL}
    /\ scan \in 0..ETH_RXBUFNB
    /\ frame \in Desc \cup {NULL}
    /\ next \in Desc \cup {NULL}
    /\ i \in 0..MaxSegs
    /\ p \in Seq(Segment \cup {Beyond})
    /\ arrived \in Seq(1..MaxFrames)
    /\ handled \in Seq(1..MaxFrames)
    /\ passed \in Seq(Seq(Segment \cup {Beyond}))

\* low_level_init and ETH_DMARxDescChainInit.
Init ==
    /\ status = [d \in Desc |-> OWN]
    /\ rxBuff = [d \in Desc |-> Beyond]
    /\ dma = 0
    /\ incoming = [id |-> 0, done |-> 0, size |-> 0]
    /\ rbus = FALSE /\ flagR = FALSE
    /\ isr = "idle"
    /\ sem = 0
    /\ pc = "take"
    /\ DMARxDescToGet = 0
    /\ Seg_Count = 0
    /\ FS_Rx_Desc = NULL
    /\ scan = 0
    /\ frame = NULL
    /\ next = NULL
    /\ i = 0
    /\ p = NoPacket
    /\ arrived = <<>> /\ handled = <<>> /\ passed = <<>>

(***************************************************************************)
(* The DMA (hardware)                                                      *)
(***************************************************************************)
Busy == incoming.done < incoming.size

\* A frame reaches the interface.
FrameStarts ==
    /\ ~Busy
    /\ incoming.id < MaxFrames
    /\ \E size \in 1..MaxSegs :
         incoming' = [id |-> incoming.id + 1, done |-> 0, size |-> size]
    /\ UNCHANGED <<status, rxBuff, dma, rbus, arrived, signal, driver, task>>

\* The DMA has no descriptor for the first segment: the frame is dropped.
FrameDropped ==
    /\ Busy /\ incoming.done = 0
    /\ ~status[dma].own
    /\ incoming' = [incoming EXCEPT !.size = 0]
    /\ rbus' = TRUE
    /\ UNCHANGED <<status, rxBuff, dma, arrived, signal, driver, task>>

\* One segment is stored and its descriptor closed.  The last segment raises
\* R; a frame that does not fit is cut off and closed with an error.
SegmentStored ==
    /\ Busy
    /\ status[dma].own
    /\ LET n == incoming.done + 1
           after == Buffer2NextDescAddr(dma)
           cut == n < incoming.size /\ (~status[after].own \/ after = dma)
           last == n = incoming.size \/ cut
       IN  /\ \E es \in BOOLEAN :
                /\ cut => es
                /\ ~last => ~es
                /\ status' = [status EXCEPT ![dma] =
                                [own |-> FALSE, fs |-> n = 1, ls |-> last, es |-> es]]
           /\ rxBuff' = [rxBuff EXCEPT ![dma] = <<incoming.id, n>>]
           /\ dma' = after
           /\ incoming' = [incoming EXCEPT !.done = n, !.size = IF cut THEN n ELSE @]
           /\ flagR' = (flagR \/ last)
           /\ rbus' = (rbus \/ cut)
           /\ arrived' = IF last THEN Append(arrived, incoming.id) ELSE arrived
    /\ UNCHANGED <<isr, sem, driver, task>>

(***************************************************************************)
(* ETH_IRQHandler                                                          *)
(***************************************************************************)
\* if (ETH_GetDMAFlagStatus(ETH_DMA_FLAG_R) == SET) xSemaphoreGiveFromISR
IrqGive ==
    /\ isr = "idle"
    /\ flagR
    /\ sem' = IF sem < SEM_MAX THEN sem + 1 ELSE sem
    /\ isr' = "clear"
    /\ UNCHANGED <<flagR, device, driver, task>>

\* Mutant: R is not cleared.
IrqClearNothing ==
    /\ isr = "clear"
    /\ isr' = "idle"
    /\ UNCHANGED <<flagR, sem, device, driver, task>>

\* ETH_DMAClearITPendingBit(ETH_DMA_IT_R)
IrqClear ==
    /\ isr = "clear"
    /\ flagR' = FALSE
    /\ isr' = "idle"
    /\ UNCHANGED <<sem, device, driver, task>>

(***************************************************************************)
(* The task Eth_if; it does not run while the interrupt does.              *)
(***************************************************************************)
\* Mutant: the result of xSemaphoreTake is not looked at.
TakeUnchecked ==
    /\ isr = "idle" /\ pc = "take"
    /\ sem' = IF sem > 0 THEN sem - 1 ELSE 0
    /\ pc' = "scan"
    /\ scan' = 0
    /\ frame' = NULL
    /\ UNCHANGED <<flagR, isr, device, driver, next, i, p, handled, passed>>

\* xSemaphoreTake(s_xSemaphore, ...) == pdTRUE; a wait that times out is
\* repeated.
Take ==
    /\ isr = "idle" /\ pc = "take"
    /\ sem > 0
    /\ sem' = sem - 1
    /\ pc' = "scan"
    /\ scan' = 0
    /\ frame' = NULL
    /\ UNCHANGED <<flagR, isr, device, driver, next, i, p, handled, passed>>

\* One round of the loop of ETH_Get_Received_Frame_interrupt.
Scan ==
    /\ isr = "idle" /\ pc = "scan"
    /\ LET d == DMARxDescToGet
           s == status[d]
       IN  IF ~s.own /\ scan < ETH_RXBUFNB
             THEN /\ scan' = scan + 1
                  /\ DMARxDescToGet' = Buffer2NextDescAddr(d)
                  /\ Seg_Count' = IF s.fs /\ ~s.ls THEN 1 ELSE Seg_Count + 1
                  /\ FS_Rx_Desc' = IF Seg_Count' = 1 /\ (s.fs \/ s.ls) THEN d ELSE FS_Rx_Desc
                  /\ IF s.ls THEN frame' = d /\ pc' = "copy"
                             ELSE UNCHANGED <<frame, pc>>
             ELSE pc' = "copy" /\ UNCHANGED <<driver, scan, frame>>
    /\ UNCHANGED <<device, signal, next, i, p, handled, passed>>

\* The bytes behind Rx_Buff[b], as low_level_input reads them: the buffers lie
\* one behind the other, whatever the chain of the descriptors says.
Linear(b, n) == [k \in 1..n |-> IF b + k - 1 \in Desc THEN rxBuff[b + k - 1] ELSE Beyond]

\* low_level_input: a frame without error is copied into a pbuf, if there is
\* one; DMARxNextDesc is set to its first descriptor.
Copy ==
    /\ isr = "idle" /\ pc = "copy"
    /\ frame # NULL
    /\ LET first == IF Seg_Count > 1 THEN FS_Rx_Desc ELSE frame
       IN  /\ p' \in {NoPacket} \cup
                       IF status[frame].es THEN {} ELSE {Linear(first, Seg_Count)}
           /\ next' = first
    /\ handled' = Append(handled, rxBuff[frame][1])
    /\ i' = 0
    /\ pc' = "release"
    /\ UNCHANGED <<device, signal, driver, scan, frame, passed>>

\* Mutant: the loop stops one descriptor too early.
ReleaseTooFew ==
    /\ isr = "idle" /\ pc = "release"
    /\ IF i + 1 < Seg_Count
         THEN /\ status' = [status EXCEPT ![next] = OWN]
              /\ next' = Buffer2NextDescAddr(next)
              /\ i' = i + 1
              /\ UNCHANGED <<pc, Seg_Count>>
         ELSE /\ Seg_Count' = 0
              /\ pc' = "resume"
              /\ UNCHANGED <<status, next, i>>
    /\ UNCHANGED <<rxBuff, dma, incoming, rbus, arrived, signal, DMARxDescToGet, FS_Rx_Desc,
                   scan, frame, p, handled, passed>>

\* Mutant: the loop goes one descriptor too far.
ReleaseTooMany ==
    /\ isr = "idle" /\ pc = "release"
    /\ IF i <= Seg_Count
         THEN /\ status' = [status EXCEPT ![next] = OWN]
              /\ next' = Buffer2NextDescAddr(next)
              /\ i' = i + 1
              /\ UNCHANGED <<pc, Seg_Count>>
         ELSE /\ Seg_Count' = 0
              /\ pc' = "resume"
              /\ UNCHANGED <<status, next, i>>
    /\ UNCHANGED <<rxBuff, dma, incoming, rbus, arrived, signal, DMARxDescToGet, FS_Rx_Desc,
                   scan, frame, p, handled, passed>>

\* The loop that gives the descriptors back; Seg_Count = 0 when it ends.
Release ==
    /\ isr = "idle" /\ pc = "release"
    /\ IF i < Seg_Count
         THEN /\ status' = [status EXCEPT ![next] = OWN]
              /\ next' = Buffer2NextDescAddr(next)
              /\ i' = i + 1
              /\ UNCHANGED <<pc, Seg_Count>>
         ELSE /\ Seg_Count' = 0
              /\ pc' = "resume"
              /\ UNCHANGED <<status, next, i>>
    /\ UNCHANGED <<rxBuff, dma, incoming, rbus, arrived, signal, DMARxDescToGet, FS_Rx_Desc,
                   scan, frame, p, handled, passed>>

\* RBUS is cleared and the DMA told to go on.
Resume ==
    /\ isr = "idle" /\ pc = "resume"
    /\ rbus' = FALSE
    /\ pc' = "input"
    /\ UNCHANGED <<status, rxBuff, dma, incoming, arrived, signal, driver, scan, frame,
                   next, i, p, handled, passed>>

\* ethernetif_input: s_pxNetIf->input(p, s_pxNetIf), whatever p is.
Input ==
    /\ isr = "idle" /\ pc = "input"
    /\ passed' = Append(passed, p)
    /\ p' = NoPacket
    /\ pc' = "take"
    /\ UNCHANGED <<device, signal, driver, scan, frame, next, i, handled>>

ethernetif_input == Take \/ Scan \/ Copy \/ Release \/ Resume \/ Input

Next ==
    \/ FrameStarts \/ FrameDropped \/ SegmentStored
    \/ IrqGive \/ IrqClear
    \/ ethernetif_input

Spec == Init /\ [][Next]_vars

\* Eth_if has the highest priority of all tasks, and interrupts are served;
\* the DMA finishes what it began, but no further frame need come.
FairSpec == Spec /\ WF_vars(ethernetif_input) /\ WF_vars(IrqGive) /\ WF_vars(IrqClear)
                 /\ WF_vars(SegmentStored)

(***************************************************************************)
(* Properties                                                              *)
(***************************************************************************)
\* The frames the scan has come to, and the last descriptors of those complete
\* in the ring that it has not.
Taken == {handled[k] : k \in 1..Len(handled)}
           \cup (IF pc = "copy" /\ frame # NULL THEN {rxBuff[frame][1]} ELSE {})
Waiting == {d \in Desc : ~status[d].own /\ status[d].ls /\ rxBuff[d][1] \notin Taken}

\* The driver's signalling is RxSignal's: one action of the DMA, the interrupt
\* or the task is one of its actions or none.
Signal == INSTANCE RxSignal WITH
    RXBUFNB <- ETH_RXBUFNB, ready <- Cardinality(Waiting), reading <- pc = "scan"
SignalSpec == Signal!Spec

\* However the DMA, the interrupt and the task interleave, every count of
\* s_xSemaphore and a flag that ETH_IRQHandler has yet to see stand for a
\* complete frame of their own in the ring.
NoPhantomFrame == Signal!NoPhantomFrame

\* The scan always ends at the last segment of a frame: low_level_input never
\* follows a NULL frame.descriptor.
FrameFound == pc = "copy" => frame # NULL

\* The scan takes the frames in the order in which they came, each of them
\* once and none left out, and what it leaves lies in the ring: no unread
\* frame loses its descriptors to the DMA.
FramesInOrder ==
    /\ handled = SubSeq(arrived, 1, Len(handled))
    /\ {rxBuff[d][1] : d \in Waiting} = {arrived[k] : k \in 1..Len(arrived)} \ Taken

\* Every descriptor of a frame goes back to the DMA: when the task waits for
\* the next signal the ring holds nothing of a frame it has dealt with.
DescriptorsReturned ==
    pc = "take" => \A d \in Desc : ~status[d].own => rxBuff[d][1] \notin Taken

\* A ring without a descriptor for the DMA is never left alone: a count or a
\* flag is there to wake Eth_if, or Eth_if is about to give descriptors back.
FullIsServed ==
    (\A d \in Desc : ~status[d].own) =>
        \/ sem > 0 \/ (flagR /\ isr = "idle")
        \/ pc \in {"scan", "copy", "release"}

\* The comment of low_level_input: it returns "a pbuf filled with the received
\* packet".
PacketFilled ==
    \A k \in 1..Len(passed) : \A n \in 1..Len(passed[k]) : passed[k][n] = <<handled[k], n>>

\* The comment of ethernetif_input: the task "is processed when a packet is
\* ready to be read from the interface".
ReadyIsRead == \A id \in 1..MaxFrames :
    (\E d \in Waiting : rxBuff[d][1] = id)
        ~> (\E k \in 1..Len(handled) : handled[k] = id)

==============================================================================
