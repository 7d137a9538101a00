----------------------------- MODULE EthRxProofs -----------------------------
(***************************************************************************)
(* Proofs about EthRx, for rings and frames of any size: the ring seen     *)
(* from the DMA, what of it the task holds, and the frames' way through it. *)
(***************************************************************************)
EXTENDS EthRx, FiniteSetTheorems, TLAPS

(***************************************************************************)
(* The inductive invariant                                                 *)
(***************************************************************************)
\* The descriptor that the DMA used j descriptors ago, and what it holds.
At(j) == IF dma >= j THEN dma - j ELSE dma - j + ETH_RXBUFNB
Own(j) == status[At(j)].own
First(j) == status[At(j)].fs
Last(j) == status[At(j)].ls
Id(j) == rxBuff[At(j)][1]
Number(j) == rxBuff[At(j)][2]

\* The DMA is in the middle of a frame.
Open == Busy /\ incoming.done > 0

\* The last c descriptors that the DMA used are closed, the others its own.
ClosedInv(c) == \A j \in 1..ETH_RXBUFNB : Own(j) <=> j > c

\* The closed descriptors hold segments of the frames that came so far.
SegmentInv(c) ==
    \A j \in 1..c :
        /\ rxBuff[At(j)] \in Segment
        /\ First(j) <=> Number(j) = 1
        /\ Id(j) <= incoming.id
        /\ Busy /\ incoming.done = 0 => Id(j) < incoming.id

\* The frames lie in the order in which they came, each in one piece.
OrderInv(c) ==
    \A j, k \in 1..c : j < k =>
        /\ Id(k) <= Id(j)
        /\ Last(k) => Id(k) < Id(j)
        /\ Id(j) = Id(k) => Number(j) = Number(k) + (k - j)

\* A frame starts where the one before it ends, and goes on until it ends.
JoinInv(c) ==
    \A j \in 2..c : IF Last(j) THEN Number(j - 1) = 1 ELSE Id(j - 1) = Id(j)

\* Only the frame that the DMA is storing lacks its end.
OpenInv(c) ==
    /\ incoming.done <= incoming.size /\ (Busy => incoming.id > 0)
    /\ Open => c >= 1 /\ ~Last(1) /\ Id(1) = incoming.id /\ Number(1) = incoming.done
    /\ ~Open /\ c >= 1 => Last(1)

RingInv(c) == ClosedInv(c) /\ SegmentInv(c) /\ OrderInv(c) /\ JoinInv(c) /\ OpenInv(c)

\* The frames are numbered as they come, and the task has dealt with the first
\* ones; the next is the one it has found.
ArrivedInv ==
    /\ \A k \in DOMAIN arrived : arrived[k] <= incoming.id /\ (Busy => arrived[k] < incoming.id)
    /\ \A k, m \in DOMAIN arrived : k < m => arrived[k] < arrived[m]
    /\ Len(handled) <= Len(arrived)
    /\ pc = "copy" => /\ Len(handled) < Len(arrived)
                      /\ rxBuff[frame][1] = arrived[Len(handled) + 1]

\* The closed descriptors that the scan has passed: the oldest ones.
Held == IF pc \in {"scan", "copy"} THEN Seg_Count
        ELSE IF pc = "release" THEN Seg_Count - i
        ELSE 0
Ahead(c) == c - Held

\* The scan stands behind what the task holds, and the rest is not taken yet;
\* the oldest closed descriptor starts a frame, or is the one to release next.
ScanInv(c) ==
    /\ Held \in 0..c
    /\ DMARxDescToGet = At(Ahead(c))
    /\ \A j \in 1..Ahead(c) : Id(j) \notin Taken
    /\ c >= 1 => Number(c) = IF pc = "release" /\ i < Seg_Count THEN i + 1 ELSE 1

\* What the task holds is the beginning of one frame, and all of it once the
\* scan has found its end.
HeldInv(c) ==
    /\ pc = "scan" =>
         /\ scan = Seg_Count /\ frame = NULL
         /\ \A j \in (Ahead(c) + 1)..c : ~Last(j) /\ Id(j) = Id(c)
    /\ pc = "copy" =>
         /\ Seg_Count > 0
         /\ frame = At(Ahead(c) + 1) /\ Last(Ahead(c) + 1)
         /\ \A j \in (Ahead(c) + 1)..c : Id(j) = rxBuff[frame][1]
    /\ pc = "release" =>
         /\ next = At(c) /\ i <= Seg_Count /\ (i < Seg_Count => Last(Ahead(c) + 1))
         /\ \A j \in (Ahead(c) + 1)..c : Id(j) = handled[Len(handled)]
    /\ pc \in {"scan", "copy"} /\ Seg_Count > 0 => FS_Rx_Desc = At(c)
    /\ pc \in {"take", "resume", "input"} => Seg_Count = 0

\* What low_level_input copies of a frame into a pbuf: its segments, each at its
\* place, up to the end of Rx_Buff.  The first one is always there.
Copied(q, id) ==
    /\ Len(q) <= MaxSegs
    /\ \A n \in 1..Len(q) : q[n] = <<id, n>> \/ (n > 1 /\ q[n] = Beyond)

\* A pbuf passed on never holds a segment of another frame.
PacketGenuine == \A k \in 1..Len(passed) : Copied(passed[k], handled[k])

\* The pbuf in hand is the one of the frame that was taken out last.
PacketInv ==
    IF pc \in {"take", "scan", "copy"}
      THEN Len(passed) = Len(handled)
      ELSE /\ Len(handled) = Len(passed) + 1
           /\ Copied(p, handled[Len(handled)])

IInv ==
    /\ TypeOK /\ ArrivedInv /\ FramesInOrder /\ PacketInv /\ PacketGenuine
    /\ Signal!NoPhantomFrame
    /\ \E c \in 0..ETH_RXBUFNB : RingInv(c) /\ ScanInv(c) /\ HeldInv(c)

(***************************************************************************)
(* The ring seen from the DMA                                              *)
(***************************************************************************)
USE RingAssumption, FrameAssumption

\* The chain of ETH_DMARxDescChainInit, without the remainder.
LEMMA ChainNext ==
    ASSUME NEW d \in Desc
    PROVE  /\ Buffer2NextDescAddr(d) \in Desc
           /\ Buffer2NextDescAddr(d) = IF d = ETH_RXBUFNB - 1 THEN 0 ELSE d + 1
BY DEF Desc, Buffer2NextDescAddr

\* At numbers the descriptors from the DMA's last one backwards, each once.
LEMMA AtDesc ==
    ASSUME dma \in Desc, NEW j \in 0..ETH_RXBUFNB
    PROVE  At(j) \in Desc
BY DEF At, Desc

LEMMA AtOnce ==
    ASSUME dma \in Desc, NEW j \in 1..ETH_RXBUFNB, NEW k \in 1..ETH_RXBUFNB, At(j) = At(k)
    PROVE  j = k
BY DEF At, Desc

LEMMA AtAll ==
    ASSUME dma \in Desc, NEW d \in Desc
    PROVE  \E j \in 1..ETH_RXBUFNB : d = At(j)
<1>1. CASE d < dma
  <2>1. dma - d \in 1..ETH_RXBUFNB /\ d = At(dma - d)
      BY <1>1 DEF At, Desc
  <2> QED BY <2>1
<1>2. CASE ~ (d < dma)
  <2>1. dma - d + ETH_RXBUFNB \in 1..ETH_RXBUFNB /\ d = At(dma - d + ETH_RXBUFNB)
      BY <1>2 DEF At, Desc
  <2> QED BY <2>1
<1> QED BY <1>1, <1>2

LEMMA AtEnds ==
    ASSUME dma \in Desc
    PROVE  At(0) = dma /\ At(ETH_RXBUFNB) = dma
BY DEF At, Desc

\* The chain leads from one of them to the one before it.
LEMMA AtNext ==
    ASSUME dma \in Desc, NEW j \in 1..ETH_RXBUFNB
    PROVE  Buffer2NextDescAddr(At(j)) = At(j - 1)
<1>1. At(j) \in Desc
    BY AtDesc
<1>2. Buffer2NextDescAddr(At(j)) = IF At(j) = ETH_RXBUFNB - 1 THEN 0 ELSE At(j) + 1
    BY <1>1, ChainNext
<1> HIDE DEF Buffer2NextDescAddr
<1> QED BY <1>2 DEF At, Desc

\* When the DMA goes on, all of them are one further away.
LEMMA AtMoves ==
    ASSUME dma \in Desc, dma' = Buffer2NextDescAddr(dma)
    PROVE  \A j \in 1..ETH_RXBUFNB : At(j)' = At(j - 1)
<1>1. dma' = IF dma = ETH_RXBUFNB - 1 THEN 0 ELSE dma + 1
    BY ChainNext
<1> QED BY <1>1 DEF At, Desc

\* Rx_Buff is one array: behind the buffer of one of them lies that of the
\* next, up to the end of the array.
LEMMA AtLinear ==
    ASSUME dma \in Desc, NEW c \in 1..ETH_RXBUFNB, NEW k \in 1..c, At(c) + k - 1 \in Desc
    PROVE  At(c) + k - 1 = At(c - k + 1)
BY DEF At, Desc

\* What the task and the interrupt do leaves the ring alone, but for Release.
LEMMA RingKept ==
    ASSUME NEW c \in 0..ETH_RXBUFNB, RingInv(c),
           UNCHANGED <<dma, status, rxBuff, incoming>>
    PROVE  RingInv(c)'
<1>1. \A j : Own(j)' = Own(j) /\ First(j)' = First(j) /\ Last(j)' = Last(j)
    BY DEF Own, First, Last, At
<1>2. \A j : Id(j)' = Id(j) /\ Number(j)' = Number(j) /\ rxBuff[At(j)]' = rxBuff[At(j)]
    BY DEF Id, Number, At
<1>3. Open' = Open /\ Busy' = Busy
    BY DEF Open, Busy
<1>4. ClosedInv(c)'
    BY <1>1 DEF RingInv, ClosedInv
<1>5. SegmentInv(c)'
    BY <1>1, <1>2, <1>3 DEF RingInv, SegmentInv
<1>6. OrderInv(c)'
    BY <1>1, <1>2 DEF RingInv, OrderInv
<1>7. JoinInv(c)'
    BY <1>1, <1>2 DEF RingInv, JoinInv
<1>8. OpenInv(c)'
    BY <1>1, <1>2, <1>3 DEF RingInv, OpenInv
<1> QED BY <1>4, <1>5, <1>6, <1>7, <1>8 DEF RingInv

\* A frame that starts, or is dropped, has no segment in the ring.
LEMMA RingStarts ==
    ASSUME TypeOK, NEW c \in 0..ETH_RXBUFNB, RingInv(c), FrameStarts \/ FrameDropped
    PROVE  RingInv(c)'
<1> USE DEF device
<1>1. \A j : Own(j)' = Own(j) /\ First(j)' = First(j) /\ Last(j)' = Last(j)
    BY DEF Own, First, Last, At, FrameStarts, FrameDropped
<1>2. \A j : Id(j)' = Id(j) /\ Number(j)' = Number(j) /\ rxBuff[At(j)]' = rxBuff[At(j)]
    BY DEF Id, Number, At, FrameStarts, FrameDropped
<1>3. /\ ~Open' /\ ~Open
      /\ incoming.id \in Nat /\ incoming'.id \in Nat /\ incoming'.id >= incoming.id
      /\ Busy' => incoming'.id > incoming.id /\ incoming'.id > 0
      /\ incoming'.done <= incoming'.size
  <2>1. CASE FrameStarts
    <3>1. PICK size \in 1..MaxSegs :
             incoming' = [id |-> incoming.id + 1, done |-> 0, size |-> size]
        BY <2>1 DEF FrameStarts
    <3>2. ~Busy
        BY <2>1 DEF FrameStarts
    <3> QED BY <3>1, <3>2 DEF Open, Busy, TypeOK
  <2>2. CASE FrameDropped
    <3>1. /\ Busy /\ incoming.done = 0
          /\ incoming' = [incoming EXCEPT !.size = 0]
        BY <2>2 DEF FrameDropped
    <3> QED BY <3>1 DEF Open, Busy, TypeOK
  <2> QED BY <2>1, <2>2
<1>4. ClosedInv(c)'
    BY <1>1 DEF RingInv, ClosedInv
<1>5. SegmentInv(c)'
  <2> SUFFICES ASSUME NEW j \in 1..c
               PROVE  /\ rxBuff[At(j)]' \in Segment
                      /\ First(j)' <=> Number(j)' = 1
                      /\ Id(j)' <= incoming'.id
                      /\ Busy' => Id(j)' < incoming'.id
      BY DEF SegmentInv
  <2>1. /\ rxBuff[At(j)] \in Segment /\ (First(j) <=> Number(j) = 1)
        /\ Id(j) <= incoming.id
      BY DEF RingInv, SegmentInv
  <2>2. Id(j) \in Nat
      BY <2>1 DEF Id, Segment
  <2> QED BY <1>1, <1>2, <1>3, <2>1, <2>2
<1>6. OrderInv(c)'
    BY <1>1, <1>2 DEF RingInv, OrderInv
<1>7. JoinInv(c)'
    BY <1>1, <1>2 DEF RingInv, JoinInv
<1>8. OpenInv(c)'
    BY <1>1, <1>2, <1>3 DEF RingInv, OpenInv
<1> QED BY <1>4, <1>5, <1>6, <1>7, <1>8 DEF RingInv

\* What SegmentStored does, in terms of At.
LEMMA StoreView ==
    ASSUME TypeOK, NEW c \in 0..ETH_RXBUFNB, RingInv(c), SegmentStored
    PROVE  /\ Busy /\ incoming.done \in Nat /\ incoming.id \in 1..MaxFrames
           /\ c < ETH_RXBUFNB
           /\ \A j \in 1..ETH_RXBUFNB : At(j)' = At(j - 1)
           /\ \A j \in 2..ETH_RXBUFNB :
                /\ Own(j)' = Own(j - 1) /\ First(j)' = First(j - 1) /\ Last(j)' = Last(j - 1)
                /\ rxBuff[At(j)]' = rxBuff[At(j - 1)]
                /\ Id(j)' = Id(j - 1) /\ Number(j)' = Number(j - 1)
           /\ ~Own(1)' /\ (First(1)' <=> incoming.done = 0)
           /\ rxBuff[At(1)]' = <<incoming.id, incoming.done + 1>> /\ rxBuff[At(1)]' \in Segment
           /\ Id(1)' = incoming.id /\ Number(1)' = incoming.done + 1
           /\ incoming'.id = incoming.id /\ incoming'.done = incoming.done + 1
           /\ incoming'.size \in Nat /\ incoming'.done <= incoming'.size
           /\ Busy' <=> ~Last(1)'
           /\ Open' <=> ~Last(1)'
           /\ arrived' = IF Last(1)' THEN Append(arrived, incoming.id) ELSE arrived
           /\ flagR' = (flagR \/ Last(1)') /\ Last(1)' \in BOOLEAN
           /\ UNCHANGED <<isr, sem, driver, task>>
<1>1. /\ Busy /\ status[dma].own /\ dma' = Buffer2NextDescAddr(dma)
      /\ UNCHANGED <<isr, sem, driver, task>>
    BY DEF SegmentStored
<1>2. PICK last \in BOOLEAN, es \in BOOLEAN, cut \in BOOLEAN :
        LET n == incoming.done + 1
        IN  /\ status' = [status EXCEPT ![dma] =
                            [own |-> FALSE, fs |-> n = 1, ls |-> last, es |-> es]]
            /\ rxBuff' = [rxBuff EXCEPT ![dma] = <<incoming.id, n>>]
            /\ incoming' = [incoming EXCEPT !.done = n, !.size = IF cut THEN n ELSE @]
            /\ last <=> (n = incoming.size \/ cut)
            /\ flagR' = (flagR \/ last)
            /\ arrived' = IF last THEN Append(arrived, incoming.id) ELSE arrived
  <2> DEFINE n == incoming.done + 1
             after == Buffer2NextDescAddr(dma)
             cut == n < incoming.size /\ (~status[after].own \/ after = dma)
             last == n = incoming.size \/ cut
  <2>1. PICK es \in BOOLEAN :
           status' = [status EXCEPT ![dma] = [own |-> FALSE, fs |-> n = 1, ls |-> last, es |-> es]]
      BY DEF SegmentStored
  <2>2. /\ rxBuff' = [rxBuff EXCEPT ![dma] = <<incoming.id, n>>]
        /\ incoming' = [incoming EXCEPT !.done = n, !.size = IF cut THEN n ELSE @]
        /\ flagR' = (flagR \/ last)
        /\ arrived' = IF last THEN Append(arrived, incoming.id) ELSE arrived
      BY DEF SegmentStored
  <2>3. cut \in BOOLEAN /\ last \in BOOLEAN
      OBVIOUS
  <2> HIDE DEF after, cut
  <2> QED BY <2>1, <2>2, <2>3
<1>3. /\ dma \in Desc /\ status \in [Desc -> Status] /\ rxBuff \in [Desc -> Segment \cup {Beyond}]
      /\ incoming \in [id : 0..MaxFrames, done : 0..MaxSegs, size : 0..MaxSegs]
    BY DEF TypeOK
<1>4. /\ incoming.done \in Nat /\ incoming.size \in 0..MaxSegs /\ incoming.done < incoming.size
      /\ incoming.id \in 1..MaxFrames
    BY <1>1, <1>3 DEF RingInv, OpenInv, Busy
<1>5. c < ETH_RXBUFNB
  <2>1. Own(ETH_RXBUFNB)
      BY <1>1, <1>3, AtEnds DEF Own
  <2> QED BY <2>1 DEF RingInv, ClosedInv
<1>6. \A j \in 1..ETH_RXBUFNB : At(j)' = At(j - 1)
    BY <1>1, <1>3, AtMoves
<1>7. ASSUME NEW j \in 2..ETH_RXBUFNB
      PROVE  /\ status[At(j)]' = status[At(j - 1)] /\ rxBuff[At(j)]' = rxBuff[At(j - 1)]
  <2>1. j - 1 \in 1..ETH_RXBUFNB /\ ETH_RXBUFNB \in 1..ETH_RXBUFNB /\ j - 1 # ETH_RXBUFNB /\ j \in 1..ETH_RXBUFNB
      OBVIOUS
  <2>2. At(j - 1) \in Desc /\ At(j - 1) # dma
      BY <1>3, <2>1, AtDesc, AtOnce, AtEnds
  <2>3. At(j)' = At(j - 1)
      BY <1>6, <2>1
  <2>4. status'[At(j - 1)] = status[At(j - 1)] /\ rxBuff'[At(j - 1)] = rxBuff[At(j - 1)]
      BY <1>2, <1>3, <2>2
  <2> QED BY <2>3, <2>4
<1>8. At(1)' = dma
    BY <1>3, <1>6, AtEnds
<1>9. status[At(1)]' = status'[dma] /\ rxBuff[At(1)]' = rxBuff'[dma]
    BY <1>8
<1>10. /\ status'[dma].own = FALSE /\ status'[dma].fs = (incoming.done + 1 = 1)
       /\ status'[dma].ls = last
       /\ rxBuff'[dma] = <<incoming.id, incoming.done + 1>>
    BY <1>2, <1>3
<1>11. <<incoming.id, incoming.done + 1>> \in Segment
    BY <1>4 DEF Segment
<1>12. /\ incoming'.id = incoming.id /\ incoming'.done = incoming.done + 1
       /\ incoming'.size = IF cut THEN incoming.done + 1 ELSE incoming.size
    BY <1>2, <1>3
<1>13. /\ incoming'.size \in Nat /\ incoming'.done <= incoming'.size
       /\ Busy' <=> ~last
       /\ Open' <=> ~last
    BY <1>2, <1>4, <1>12, SMTT(30) DEF Busy, Open
<1>14. \A j \in 2..ETH_RXBUFNB :
                /\ Own(j)' = Own(j - 1) /\ First(j)' = First(j - 1) /\ Last(j)' = Last(j - 1)
                /\ Id(j)' = Id(j - 1) /\ Number(j)' = Number(j - 1)
    BY <1>7 DEF Own, First, Last, Id, Number
<1>15. /\ ~Own(1)' /\ (First(1)' <=> incoming.done = 0) /\ Last(1)' = last
       /\ Id(1)' = incoming.id /\ Number(1)' = incoming.done + 1
  <2>1. Id(1)' = incoming.id /\ Number(1)' = incoming.done + 1
      BY <1>4, <1>9, <1>10 DEF Id, Number
  <2>2. incoming.done + 1 = 1 <=> incoming.done = 0
      BY <1>4
  <2>3. Own(1)' = status'[dma].own /\ First(1)' = status'[dma].fs /\ Last(1)' = status'[dma].ls
      BY <1>9 DEF Own, First, Last
  <2> QED BY <1>10, <2>1, <2>2, <2>3, Zenon
<1> HIDE DEF At, Own, First, Last, Id, Number
<1> QED BY <1>1, <1>2, <1>4, <1>5, <1>6, <1>7, <1>9, <1>10, <1>11, <1>12, <1>13, <1>14, <1>15, ZenonT(30)

\* A segment more keeps the shape of the ring.
LEMMA RingStored ==
    ASSUME TypeOK, NEW c \in 0..ETH_RXBUFNB, RingInv(c), SegmentStored
    PROVE  RingInv(c + 1)'
<1> DEFINE b == c + 1
<1>1. /\ Busy /\ incoming.done \in Nat /\ incoming.id \in 1..MaxFrames
      /\ b \in 1..ETH_RXBUFNB /\ c \in Nat
      /\ \A j \in 2..ETH_RXBUFNB :
           /\ Own(j)' = Own(j - 1) /\ First(j)' = First(j - 1) /\ Last(j)' = Last(j - 1)
           /\ rxBuff[At(j)]' = rxBuff[At(j - 1)]
           /\ Id(j)' = Id(j - 1) /\ Number(j)' = Number(j - 1)
      /\ ~Own(1)' /\ (First(1)' <=> incoming.done = 0)
      /\ rxBuff[At(1)]' \in Segment
      /\ Id(1)' = incoming.id /\ Number(1)' = incoming.done + 1
      /\ incoming'.id = incoming.id /\ incoming'.done = incoming.done + 1
      /\ incoming'.size \in Nat /\ incoming'.done <= incoming'.size
      /\ Busy' <=> ~Last(1)'
      /\ Open' <=> ~Last(1)'
    BY StoreView
<1>2. Open <=> incoming.done # 0
    BY <1>1 DEF Open
<1>3. \A j \in 2..b : j - 1 \in 1..c /\ j \in 2..ETH_RXBUFNB /\ j \in Nat
    BY <1>1
<1>4. \A j \in 1..c : /\ rxBuff[At(j)] \in Segment /\ Id(j) \in Nat /\ Number(j) \in Nat
                      /\ (First(j) <=> Number(j) = 1)
                      /\ Id(j) <= incoming.id
                      /\ incoming.done = 0 => Id(j) < incoming.id
    BY <1>1 DEF RingInv, SegmentInv, Segment, Id, Number
<1>5. /\ Open => c >= 1 /\ ~Last(1) /\ Id(1) = incoming.id /\ Number(1) = incoming.done
      /\ ~Open /\ c >= 1 => Last(1)
    BY DEF RingInv, OpenInv
<1>6. ClosedInv(b)'
  <2> SUFFICES ASSUME NEW j \in 1..ETH_RXBUFNB PROVE Own(j)' <=> j > b
      BY DEF ClosedInv
  <2>1. CASE j = 1
      BY <1>1, <2>1
  <2>2. CASE j # 1
    <3>1. j \in 2..ETH_RXBUFNB /\ j - 1 \in 1..ETH_RXBUFNB
        BY <2>2
    <3>2. Own(j - 1) <=> j - 1 > c
        BY <3>1 DEF RingInv, ClosedInv
    <3>3. j - 1 > c <=> j > b
        BY <1>1
    <3>4. Own(j)' = Own(j - 1)
        BY <1>1, <3>1
    <3> QED BY <3>2, <3>3, <3>4, Zenon
  <2> QED BY <2>1, <2>2
<1>7. SegmentInv(b)'
  <2> SUFFICES ASSUME NEW j \in 1..b
               PROVE  /\ rxBuff[At(j)]' \in Segment
                      /\ First(j)' <=> Number(j)' = 1
                      /\ Id(j)' <= incoming'.id
                      /\ Busy' /\ incoming'.done = 0 => Id(j)' < incoming'.id
      BY DEF SegmentInv
  <2>1. CASE j = 1
      BY <1>1, <2>1
  <2>2. CASE j # 1
    <3>1. j \in 2..b
        BY <1>1, <2>2
    <3>2. /\ rxBuff[At(j)]' = rxBuff[At(j - 1)] /\ Id(j)' = Id(j - 1)
          /\ Number(j)' = Number(j - 1) /\ First(j)' = First(j - 1)
        BY <1>1, <1>3, <3>1
    <3>3. /\ rxBuff[At(j - 1)] \in Segment /\ Id(j - 1) <= incoming.id
          /\ (First(j - 1) <=> Number(j - 1) = 1)
        BY <1>3, <1>4, <3>1
    <3>4. First(j)' <=> Number(j)' = 1
        BY <3>2, <3>3, Zenon
    <3> QED BY <1>1, <3>2, <3>3, <3>4
  <2> QED BY <2>1, <2>2
<1>8. OrderInv(b)'
  <2> SUFFICES ASSUME NEW j \in 1..b, NEW k \in 1..b, j < k
               PROVE  /\ Id(k)' <= Id(j)'
                      /\ Last(k)' => Id(k)' < Id(j)'
                      /\ Id(j)' = Id(k)' => Number(j)' = Number(k)' + (k - j)
      BY DEF OrderInv
  <2>1. k \in 2..b
      BY <1>1
  <2>2. PICK m \in 1..c : m = k - 1
      BY <1>3, <2>1
  <2>3. Id(k)' = Id(m) /\ Number(k)' = Number(m) /\ Last(k)' = Last(m)
      BY <1>1, <1>3, <2>1, <2>2
  <2>4. CASE j = 1
    <3>1. Id(m) <= incoming.id
        BY <1>4
    <3>2. Last(m) => Id(m) < incoming.id
      <4>1. CASE incoming.done = 0
          BY <1>4, <4>1
      <4>2. CASE incoming.done # 0
        <5>1. ~Last(1) /\ Id(1) = incoming.id /\ 1 \in 1..c
            BY <1>2, <1>5, <4>2
        <5>2. CASE m = 1
            BY <5>1, <5>2
        <5>3. CASE m # 1
          <6>1. 1 < m
              BY <5>3
          <6> QED BY <5>1, <6>1 DEF RingInv, OrderInv
        <5> QED BY <5>2, <5>3
      <4> QED BY <4>1, <4>2
    <3>3. incoming.id = Id(m) => incoming.done + 1 = Number(m) + (k - j)
      <4> SUFFICES ASSUME incoming.id = Id(m)
                   PROVE  incoming.done + 1 = Number(m) + (k - j)
          OBVIOUS
      <4>1. incoming.done # 0
          BY <1>4
      <4>2. Id(1) = incoming.id /\ Number(1) = incoming.done /\ 1 \in 1..c
          BY <1>2, <1>5, <4>1
      <4>3. CASE m = 1
          BY <1>1, <2>2, <2>4, <4>2, <4>3
      <4>4. CASE m # 1
        <5>1. 1 < m
            BY <4>4
        <5>2. Number(1) = Number(m) + (m - 1)
            BY <4>2, <5>1 DEF RingInv, OrderInv
        <5>3. Number(m) \in Nat
            BY <1>4
        <5> QED BY <1>1, <2>2, <2>4, <4>2, <5>2, <5>3
      <4> QED BY <4>3, <4>4
    <3> QED BY <1>1, <2>3, <2>4, <3>1, <3>2, <3>3
  <2>5. CASE j # 1
    <3>1. j \in 2..b
        BY <1>1, <2>5
    <3>2. PICK l \in 1..c : l = j - 1
        BY <1>3, <3>1
    <3>3. Id(j)' = Id(l) /\ Number(j)' = Number(l)
        BY <1>1, <1>3, <3>1, <3>2
    <3>4. l < m /\ m - l = k - j
        BY <2>2, <3>2
    <3>5. /\ Id(m) <= Id(l)
          /\ Last(m) => Id(m) < Id(l)
          /\ Id(l) = Id(m) => Number(l) = Number(m) + (m - l)
        BY <3>4 DEF RingInv, OrderInv
    <3> QED BY <2>3, <3>3, <3>4, <3>5
  <2> QED BY <2>4, <2>5
<1>9. JoinInv(b)'
  <2> SUFFICES ASSUME NEW j \in 2..b
               PROVE  IF Last(j)' THEN Number(j - 1)' = 1 ELSE Id(j - 1)' = Id(j)'
      BY DEF JoinInv
  <2>1. PICK m \in 1..c : m = j - 1
      BY <1>3
  <2>2. Id(j)' = Id(m) /\ Last(j)' = Last(m)
      BY <1>1, <1>3, <2>1
  <2> SUFFICES IF Last(m) THEN Number(m)' = 1 ELSE Id(m)' = Id(m)
      BY <2>1, <2>2, Zenon
  <2>3. CASE m = 1
    <3>1. Last(1) <=> incoming.done = 0
        BY <1>2, <1>5, <2>3
    <3> QED BY <1>1, <1>2, <1>5, <2>3, <3>1
  <2>4. CASE m # 1
    <3>1. m \in 2..b /\ m \in 2..c
        BY <2>4
    <3>2. PICK l \in 1..c : l = m - 1
        BY <1>3, <3>1
    <3>3. Number(m)' = Number(l) /\ Id(m)' = Id(l)
        BY <1>1, <1>3, <3>1, <3>2
    <3>4. IF Last(m) THEN Number(m - 1) = 1 ELSE Id(m - 1) = Id(m)
        BY <3>1 DEF RingInv, JoinInv
    <3> QED BY <3>2, <3>3, <3>4
  <2> QED BY <2>3, <2>4
<1>10. OpenInv(b)'
    BY <1>1 DEF OpenInv
<1> QED BY <1>6, <1>7, <1>8, <1>9, <1>10 DEF RingInv

\* What Release does, in terms of At: the oldest closed descriptor is opened.
LEMMA ReleaseView ==
    ASSUME TypeOK, NEW c \in 1..ETH_RXBUFNB, UNCHANGED <<dma, rxBuff, incoming>>,
           status' = [status EXCEPT ![At(c)] = OWN]
    PROVE  /\ \A j : /\ At(j)' = At(j) /\ rxBuff[At(j)]' = rxBuff[At(j)]
                     /\ Id(j)' = Id(j) /\ Number(j)' = Number(j)
           /\ Own(c)'
           /\ \A j \in 1..ETH_RXBUFNB : j # c =>
                Own(j)' = Own(j) /\ First(j)' = First(j) /\ Last(j)' = Last(j)
<1>1. dma \in Desc /\ status \in [Desc -> Status]
    BY DEF TypeOK
<1>2. \A j : /\ At(j)' = At(j) /\ rxBuff[At(j)]' = rxBuff[At(j)]
             /\ Id(j)' = Id(j) /\ Number(j)' = Number(j)
    BY DEF At, Id, Number
<1>3. At(c) \in Desc /\ status'[At(c)].own
    BY <1>1, AtDesc DEF OWN
<1>4. Own(c)'
    BY <1>2, <1>3 DEF Own
<1>5. ASSUME NEW j \in 1..ETH_RXBUFNB, j # c
      PROVE  Own(j)' = Own(j) /\ First(j)' = First(j) /\ Last(j)' = Last(j)
  <2>1. At(j) \in Desc /\ At(j) # At(c)
      BY <1>1, <1>5, AtDesc, AtOnce
  <2>2. status'[At(j)] = status[At(j)]
      BY <1>1, <2>1
  <2> QED BY <1>2, <2>2 DEF Own, First, Last
<1> QED BY <1>2, <1>4, <1>5

LEMMA RingReleased ==
    ASSUME TypeOK, NEW c \in 1..ETH_RXBUFNB, RingInv(c), Open => c > 1,
           UNCHANGED <<dma, rxBuff, incoming>>,
           status' = [status EXCEPT ![At(c)] = OWN]
    PROVE  RingInv(c - 1)'
<1> DEFINE b == c - 1
<1>1. /\ \A j : /\ rxBuff[At(j)]' = rxBuff[At(j)]
                /\ Id(j)' = Id(j) /\ Number(j)' = Number(j)
      /\ Own(c)'
      /\ \A j \in 1..ETH_RXBUFNB : j # c =>
           Own(j)' = Own(j) /\ First(j)' = First(j) /\ Last(j)' = Last(j)
    BY ReleaseView
<1>2. b \in 0..ETH_RXBUFNB /\ \A j \in 1..b : j \in 1..c /\ j # c /\ j \in 1..ETH_RXBUFNB
    OBVIOUS
<1>3. Open' = Open /\ Busy' = Busy /\ incoming' = incoming
    BY DEF Open, Busy
<1>4. ClosedInv(b)'
  <2> SUFFICES ASSUME NEW j \in 1..ETH_RXBUFNB PROVE Own(j)' <=> j > b
      BY DEF ClosedInv
  <2>1. CASE j = c
      BY <1>1, <2>1
  <2>2. CASE j # c
    <3>1. Own(j)' = Own(j)
        BY <1>1, <2>2
    <3>2. Own(j) <=> j > c
        BY DEF RingInv, ClosedInv
    <3>3. j > c <=> j > b
        BY <2>2
    <3> QED BY <3>1, <3>2, <3>3, Zenon
  <2> QED BY <2>1, <2>2
<1> HIDE DEF b
<1>5. SegmentInv(b)'
  <2> SUFFICES ASSUME NEW j \in 1..b
               PROVE  /\ rxBuff[At(j)]' \in Segment
                      /\ First(j)' <=> Number(j)' = 1
                      /\ Id(j)' <= incoming'.id
                      /\ Busy' /\ incoming'.done = 0 => Id(j)' < incoming'.id
      BY DEF SegmentInv
  <2>1. /\ rxBuff[At(j)] \in Segment /\ (First(j) <=> Number(j) = 1)
        /\ Id(j) <= incoming.id
        /\ Busy /\ incoming.done = 0 => Id(j) < incoming.id
      BY <1>2 DEF RingInv, SegmentInv
  <2>2. /\ rxBuff[At(j)]' = rxBuff[At(j)] /\ Id(j)' = Id(j)
        /\ Number(j)' = Number(j) /\ First(j)' = First(j)
      BY <1>1, <1>2
  <2> QED BY <1>3, <2>1, <2>2
<1>6. OrderInv(b)'
    BY <1>1, <1>2 DEF RingInv, OrderInv
<1>7. JoinInv(b)'
  <2> SUFFICES ASSUME NEW j \in 2..b
               PROVE  IF Last(j)' THEN Number(j - 1)' = 1 ELSE Id(j - 1)' = Id(j)'
      BY DEF JoinInv
  <2>1. j \in 1..b /\ j \in 2..c
      BY DEF b
  <2>2. Last(j)' = Last(j) /\ Id(j)' = Id(j) /\ Id(j - 1)' = Id(j - 1)
        /\ Number(j - 1)' = Number(j - 1)
      BY <1>1, <1>2, <2>1
  <2>3. IF Last(j) THEN Number(j - 1) = 1 ELSE Id(j - 1) = Id(j)
      BY <2>1 DEF RingInv, JoinInv
  <2> QED BY <2>2, <2>3
<1>8. OpenInv(b)'
  <2>1. /\ incoming.done <= incoming.size /\ (Busy => incoming.id > 0)
        /\ Open => ~Last(1) /\ Id(1) = incoming.id /\ Number(1) = incoming.done
        /\ ~Open => Last(1)
      BY DEF RingInv, OpenInv
  <2>2. Open => b >= 1
      BY DEF b
  <2>3. b >= 1 => Last(1)' = Last(1) /\ Id(1)' = Id(1) /\ Number(1)' = Number(1)
      BY <1>1 DEF b
  <2> QED BY <1>3, <2>1, <2>2, <2>3 DEF OpenInv
<1> QED BY <1>4, <1>5, <1>6, <1>7, <1>8 DEF RingInv, b

(***************************************************************************)
(* The frames that are taken, and those that wait                          *)
(***************************************************************************)
LEMMA Types ==
    ASSUME TypeOK
    PROVE  /\ dma \in Desc /\ arrived \in Seq(1..MaxFrames) /\ handled \in Seq(1..MaxFrames)
           /\ Len(arrived) \in Nat /\ Len(handled) \in Nat
           /\ DOMAIN arrived = 1..Len(arrived) /\ DOMAIN handled = 1..Len(handled)
           /\ \A k \in 1..Len(arrived) : arrived[k] \in Nat
           /\ Seg_Count \in Nat /\ i \in Nat
BY SMTT(30) DEF TypeOK

\* The frames taken are the first that came.
LEMMA TakenArrived ==
    ASSUME TypeOK, ArrivedInv, FramesInOrder
    PROVE  /\ \A k \in 1..Len(handled) : handled[k] = arrived[k] /\ k \in 1..Len(arrived)
           /\ \A x \in Taken : \E k \in 1..Len(arrived) : x = arrived[k]
           /\ Busy => incoming.id \notin Taken
<1>1. \A k \in 1..Len(handled) : handled[k] = arrived[k] /\ k \in 1..Len(arrived)
  <2>1. Len(handled) <= Len(arrived) /\ handled = SubSeq(arrived, 1, Len(handled))
      BY DEF ArrivedInv, FramesInOrder
  <2> QED BY <2>1, Types
<1>2. ASSUME NEW x \in Taken PROVE \E k \in 1..Len(arrived) : x = arrived[k]
  <2>1. CASE \E k \in 1..Len(handled) : x = handled[k]
      BY <1>1, <2>1
  <2>2. CASE ~ \E k \in 1..Len(handled) : x = handled[k]
    <3>1. pc = "copy" /\ x = rxBuff[frame][1]
        BY <1>2, <2>2 DEF Taken
    <3>2. Len(handled) + 1 \in 1..Len(arrived) /\ x = arrived[Len(handled) + 1]
        BY <3>1, Types DEF ArrivedInv
    <3> QED BY <3>2
  <2> QED BY <2>1, <2>2
<1>3. ASSUME Busy, incoming.id \in Taken PROVE FALSE
  <2>1. PICK k \in 1..Len(arrived) : incoming.id = arrived[k]
      BY <1>2, <1>3
  <2>2. arrived[k] < incoming.id
      BY <1>3, Types DEF ArrivedInv
  <2> QED BY <2>1, <2>2, Types
<1> QED BY <1>1, <1>2, <1>3

\* The descriptors that the scan has yet to come to hold the frames that wait.
LEMMA WaitingView ==
    ASSUME TypeOK, PacketInv, NEW c \in 0..ETH_RXBUFNB,
           RingInv(c), ScanInv(c), HeldInv(c)
    PROVE  /\ Ahead(c) \in 0..c /\ Held \in 0..c
           /\ \A j \in 1..ETH_RXBUFNB : At(j) \in Waiting <=> j \in 1..Ahead(c) /\ Last(j)
<1>1. Ahead(c) \in 0..c /\ Held \in 0..c
    BY DEF ScanInv, Ahead
<1>2. ASSUME NEW j \in 1..ETH_RXBUFNB
      PROVE  At(j) \in Waiting <=> j \in 1..Ahead(c) /\ Last(j)
  <2>1. At(j) \in Waiting <=> ~Own(j) /\ Last(j) /\ Id(j) \notin Taken
      BY AtDesc, Types DEF Waiting, Own, Last, Id
  <2>2. ~Own(j) <=> j <= c
      BY DEF RingInv, ClosedInv
  <2>3. CASE j \in 1..Ahead(c)
    <3>1. Id(j) \notin Taken
        BY <2>3 DEF ScanInv
    <3>2. j <= c
        BY <1>1, <2>3
    <3> QED BY <2>1, <2>2, <2>3, <3>1, <3>2, Zenon
  <2>4. CASE j \notin 1..Ahead(c) /\ j <= c
    <3>1. j \in (Ahead(c) + 1)..c
        BY <1>1, <2>4
    <3>2. pc \in {"scan", "copy", "release"}
        BY <1>1, <3>1 DEF Held, Ahead
    <3>3. CASE pc = "scan"
      <4>1. ~Last(j)
          BY <3>1, <3>3 DEF HeldInv
      <4> QED BY <2>1, <2>4, <4>1, Zenon
    <3>4. CASE pc = "copy"
      <4>1. Id(j) = rxBuff[frame][1]
          BY <3>1, <3>4 DEF HeldInv
      <4>2. frame = At(Ahead(c) + 1) /\ Ahead(c) + 1 \in 0..ETH_RXBUFNB
          BY <1>1, <3>1, <3>4 DEF HeldInv
      <4>3. frame \in Desc /\ frame # NULL
          BY <4>2, AtDesc, Types DEF Desc, NULL
      <4>4. Id(j) \in Taken
          BY <3>4, <4>1, <4>3 DEF Taken
      <4> QED BY <2>1, <2>4, <4>4, Zenon
    <3>5. CASE pc = "release"
      <4>1. Id(j) = handled[Len(handled)]
          BY <3>1, <3>5 DEF HeldInv
      <4>2. Len(handled) = Len(passed) + 1
          BY <3>5 DEF PacketInv
      <4>3. Len(passed) \in Nat
          BY DEF TypeOK
      <4>4. Len(handled) \in 1..Len(handled)
          BY <4>2, <4>3
      <4>5. Id(j) \in Taken
          BY <4>1, <4>4 DEF Taken
      <4> QED BY <2>1, <2>4, <4>5, Zenon
    <3> QED BY <3>2, <3>3, <3>4, <3>5
  <2>5. CASE j \notin 1..Ahead(c) /\ ~ (j <= c)
      BY <2>1, <2>2, <2>5
  <2> QED BY <2>3, <2>4, <2>5
<1> QED BY <1>1, <1>2

(***************************************************************************)
(* The signal                                                              *)
(***************************************************************************)
\* The frames that wait can be counted, and are no more than the ring holds.
LEMMA WaitingFinite ==
    /\ IsFiniteSet(Waiting)
    /\ Cardinality(Waiting) \in 0..ETH_RXBUFNB
    /\ \A d \in Desc : d \notin Waiting => Cardinality(Waiting) < ETH_RXBUFNB
<1>1. IsFiniteSet(Desc) /\ Cardinality(Desc) = ETH_RXBUFNB
    BY FS_Interval DEF Desc
<1>2. Waiting \subseteq Desc
    BY DEF Waiting
<1>3. IsFiniteSet(Waiting) /\ Cardinality(Waiting) \in Nat /\ Cardinality(Waiting) <= ETH_RXBUFNB
    BY <1>1, <1>2, FS_Subset, FS_CardinalityType
<1>4. ASSUME NEW d \in Desc, d \notin Waiting PROVE Cardinality(Waiting) < ETH_RXBUFNB
  <2>1. Waiting # Desc
      BY <1>4
  <2>2. Cardinality(Waiting) # Cardinality(Desc)
      BY <1>1, <1>2, <2>1, FS_Subset
  <2> QED BY <1>1, <1>3, <2>2
<1> QED BY <1>3, <1>4

LEMMA WaitingMore ==
    ASSUME NEW d \in Desc, d \notin Waiting, Waiting' = Waiting \cup {d}
    PROVE  Cardinality(Waiting)' = Cardinality(Waiting) + 1
BY WaitingFinite, FS_AddElement

LEMMA WaitingLess ==
    ASSUME NEW d \in Waiting, Waiting' = Waiting \ {d}
    PROVE  /\ Cardinality(Waiting) > 0
           /\ Cardinality(Waiting)' = Cardinality(Waiting) - 1
<1>1. Cardinality(Waiting \ {d}) = Cardinality(Waiting) - 1
    BY WaitingFinite, FS_RemoveElement
<1>2. Cardinality(Waiting) # 0
    BY WaitingFinite, FS_EmptySet
<1> QED BY <1>1, <1>2, WaitingFinite

LEMMA ClaimsAre ==
    Signal!Claims = sem + (IF pc = "scan" THEN 1 ELSE 0)
                        + (IF flagR /\ isr = "idle" THEN 1 ELSE 0)
BY DEF Signal!Claims

LEMMA SumOfThree == \A a, b, c \in Nat : a + b + c \in Nat
OBVIOUS

\* In a step of RxSignal no claim comes without a frame, and no frame that has
\* none gets one.
LEMMA LagKept ==
    ASSUME TypeOK, TypeOK', [Signal!Next]_(Signal!vars)
    PROVE  /\ Cardinality(Waiting) \in Nat /\ Cardinality(Waiting)' \in Nat
           /\ Signal!Claims \in Nat /\ Signal!Claims' \in Nat
           /\ Cardinality(Waiting) - Signal!Claims <= Cardinality(Waiting)' - Signal!Claims'
<1> DEFINE r == Cardinality(Waiting)
<1>1. r \in Nat /\ r' \in Nat
  <2>1. r \in Nat
      BY WaitingFinite
  <2>2. (Cardinality(Waiting) \in 0..ETH_RXBUFNB)'
      BY WaitingFinite, PTL
  <2> QED BY <2>1, <2>2
<1>2. /\ Signal!Claims = sem + (IF pc = "scan" THEN 1 ELSE 0)
                             + (IF flagR /\ isr = "idle" THEN 1 ELSE 0)
      /\ Signal!Claims' = sem' + (IF pc' = "scan" THEN 1 ELSE 0)
                             + (IF flagR' /\ isr' = "idle" THEN 1 ELSE 0)
    BY ClaimsAre DEF Signal!Claims
<1>3. sem \in Nat /\ sem' \in Nat /\ flagR \in BOOLEAN /\ flagR' \in BOOLEAN
    BY DEF TypeOK
<1> HIDE DEF r
<1>4. Signal!Claims \in Nat /\ Signal!Claims' \in Nat
  <2>1. PICK w \in Nat : w = IF pc = "scan" THEN 1 ELSE 0
      OBVIOUS
  <2>2. PICK v \in Nat : v = IF flagR /\ isr = "idle" THEN 1 ELSE 0
      OBVIOUS
  <2>3. PICK x \in Nat : x = IF pc' = "scan" THEN 1 ELSE 0
      OBVIOUS
  <2>4. PICK y \in Nat : y = IF flagR' /\ isr' = "idle" THEN 1 ELSE 0
      OBVIOUS
  <2>5. Signal!Claims = sem + w + v /\ Signal!Claims' = sem' + x + y
      BY ONLY <1>2, <2>1, <2>2, <2>3, <2>4, Zenon
  <2>6. PICK s \in Nat : s = sem
      BY <1>3
  <2>7. PICK t \in Nat : t = sem'
      BY <1>3
  <2>8. s + w + v \in Nat /\ t + x + y \in Nat
      BY ONLY SumOfThree
  <2> QED BY ONLY <2>5, <2>6, <2>7, <2>8, Zenon
<1> SUFFICES r - Signal!Claims <= r' - Signal!Claims'
    BY <1>1, <1>4 DEF r
<1>5. CASE Signal!Complete
  <2>1. r' = r + 1 /\ isr' = isr /\ sem' = sem /\ (pc' = "scan" <=> pc = "scan")
      BY <1>5 DEF Signal!Complete, r
  <2> QED BY <1>1, <1>2, <1>3, <2>1
<1>6. CASE Signal!Give
  <2>1. /\ isr = "idle" /\ flagR /\ isr' = "clear" /\ r' = r /\ (pc' = "scan" <=> pc = "scan")
        /\ sem' <= sem + 1
      BY <1>3, <1>6 DEF Signal!Give, r
  <2>2. PICK w \in {0, 1} : w = IF pc = "scan" THEN 1 ELSE 0
      OBVIOUS
  <2>3. (IF flagR /\ isr = "idle" THEN 1 ELSE 0) = 1
      BY <2>1, Zenon
  <2>4. (IF flagR' /\ isr' = "idle" THEN 1 ELSE 0) = 0
      BY <2>1
  <2>5. Signal!Claims = sem + w + 1
      BY ONLY <1>2, <2>2, <2>3, Zenon
  <2>6. Signal!Claims' = sem' + w + 0
      BY ONLY <1>2, <2>1, <2>2, <2>4, Zenon
  <2>7. sem \in Nat /\ sem' \in Nat /\ sem' <= sem + 1
      BY <1>3, <2>1
  <2>8. PICK s \in Nat : s = sem
      BY <2>7
  <2>9. PICK t \in Nat : t = sem'
      BY <2>7
  <2>10. t + w + 0 <= s + w + 1
    <3>1. t <= s + 1
        BY <2>7, <2>8, <2>9
    <3> QED BY ONLY <2>2, <3>1
  <2>11. Signal!Claims' <= Signal!Claims
      BY ONLY <2>5, <2>6, <2>8, <2>9, <2>10
  <2>12. r' = r
      BY <2>1
  <2>13. PICK m \in Nat : m = r
      BY <1>1
  <2>14. PICK a \in Nat : a = Signal!Claims
      BY ONLY <1>4, Zenon
  <2>15. PICK b \in Nat : b = Signal!Claims'
      BY ONLY <1>4, Zenon
  <2>16. b <= a
      BY ONLY <2>11, <2>14, <2>15, Zenon
  <2>17. m - a <= m - b
      BY ONLY <2>16
  <2> QED BY ONLY <2>12, <2>13, <2>14, <2>15, <2>17, Zenon
<1>7. CASE Signal!Clear
  <2>1. isr = "clear" /\ ~flagR' /\ sem' = sem /\ r' = r /\ (pc' = "scan" <=> pc = "scan")
      BY <1>7 DEF Signal!Clear, r
  <2> QED BY <1>1, <1>2, <1>3, <2>1
<1>8. CASE Signal!Take
  <2>1. /\ pc # "scan" /\ pc' = "scan" /\ sem' = sem - 1 /\ r' = r
        /\ isr' = isr /\ flagR' = flagR
      BY <1>8 DEF Signal!Take, r
  <2> QED BY <1>1, <1>2, <1>3, <2>1
<1>9. CASE Signal!Read
  <2>1. pc = "scan" /\ pc' # "scan" /\ sem' = sem /\ r' = r - 1 /\ isr' = isr /\ flagR' = flagR
      BY <1>9 DEF Signal!Read, r
  <2> QED BY <1>1, <1>2, <1>3, <2>1
<1>10. CASE UNCHANGED Signal!vars
  <2>1. /\ (pc = "scan" <=> pc' = "scan") /\ sem' = sem /\ r' = r /\ isr' = isr
        /\ flagR' = flagR
      BY <1>10 DEF Signal!vars, r
  <2> QED BY <1>1, <1>2, <1>3, <2>1
<1> QED BY <1>5, <1>6, <1>7, <1>8, <1>9, <1>10 DEF Signal!Next

LEMMA ClaimsKept ==
    ASSUME TypeOK, TypeOK', Signal!NoPhantomFrame, [Signal!Next]_(Signal!vars)
    PROVE  Signal!NoPhantomFrame'
BY LagKept DEF Signal!NoPhantomFrame

(***************************************************************************)
(* The steps                                                               *)
(***************************************************************************)
Task(c) == RingInv(c) /\ ScanInv(c) /\ HeldInv(c)

\* What a step has to keep beside the types, when it is a step of RxSignal.
LEMMA StepKeeps ==
    ASSUME IInv, TypeOK', [Signal!Next]_(Signal!vars), ArrivedInv', FramesInOrder',
           PacketInv', PacketGenuine', NEW c \in 0..ETH_RXBUFNB, Task(c)'
    PROVE  IInv' /\ [Signal!Next]_(Signal!vars)
<1>1. Signal!NoPhantomFrame'
    BY ClaimsKept DEF IInv
<1> QED BY <1>1 DEF IInv, Task

\* The task goes on without touching the ring.
Onward ==
    \/ UNCHANGED <<pc, scan, frame, next, i, p, passed>>
    \/ /\ pc = "take" /\ pc' = "scan" /\ scan' = 0 /\ frame' = NULL
       /\ UNCHANGED <<next, i, p, passed>>
    \/ pc = "resume" /\ pc' = "input" /\ UNCHANGED <<scan, frame, next, i, p, passed>>
    \/ /\ pc = "input" /\ pc' = "take" /\ UNCHANGED <<scan, frame, next, i>>
       /\ passed' = Append(passed, p) /\ p' = NoPacket

LEMMA QuietSets ==
    ASSUME Onward, UNCHANGED <<status, rxBuff, dma, arrived, handled, driver>>
    PROVE  Taken' = Taken /\ Waiting' = Waiting
<1>1. (pc' = "copy" /\ frame' # NULL) <=> (pc = "copy" /\ frame # NULL)
    BY DEF Onward
<1>2. pc = "copy" => frame' = frame
    BY DEF Onward
<1>3. Taken' = Taken
    BY <1>1, <1>2 DEF Taken
<1> QED BY <1>3 DEF Waiting

LEMMA QuietOrder ==
    ASSUME FramesInOrder, Onward, UNCHANGED <<status, rxBuff, dma, arrived, handled, driver>>
    PROVE  FramesInOrder'
BY QuietSets DEF FramesInOrder

LEMMA QuietTask ==
    ASSUME NEW c \in 0..ETH_RXBUFNB, ScanInv(c), HeldInv(c), Onward,
           UNCHANGED <<status, rxBuff, dma, arrived, handled, driver>>
    PROVE  ScanInv(c)' /\ HeldInv(c)'
<1>1. \A j : /\ At(j)' = At(j) /\ Last(j)' = Last(j)
             /\ Id(j)' = Id(j) /\ Number(j)' = Number(j)
    BY DEF At, Last, Id, Number
<1>2. Taken' = Taken
    BY QuietSets
<1>3. Seg_Count' = Seg_Count /\ DMARxDescToGet' = DMARxDescToGet /\ FS_Rx_Desc' = FS_Rx_Desc
    BY DEF driver
<1>4. Held' = Held
  <2>1. pc' = pc /\ i' = i => Held' = Held
      BY <1>3 DEF Held
  <2>2. pc \in {"take", "resume", "input"} /\ pc' \in {"take", "input"} => Held' = Held
      BY DEF Held
  <2>3. pc = "take" /\ pc' = "scan" => Held' = Held
      BY <1>3 DEF Held, HeldInv
  <2> QED BY <2>1, <2>2, <2>3 DEF Onward
<1>5. Ahead(c)' = Ahead(c)
    BY <1>4 DEF Ahead
<1>6. (pc' = "release" /\ i' < Seg_Count') <=> (pc = "release" /\ i < Seg_Count)
    BY <1>3 DEF Onward
<1>7. ScanInv(c)'
  <2>1. Held' \in 0..c /\ DMARxDescToGet' = At(Ahead(c))'
      BY <1>1, <1>3, <1>4, <1>5 DEF ScanInv
  <2>2. \A j \in 1..Ahead(c)' : Id(j)' \notin Taken'
      BY <1>1, <1>2, <1>5 DEF ScanInv
  <2>3. c >= 1 => Number(c)' = IF pc' = "release" /\ i' < Seg_Count' THEN i' + 1 ELSE 1
    <3>1. CASE pc = "release" /\ i < Seg_Count
      <4>1. i' = i
          BY <3>1 DEF Onward
      <4> QED BY <1>1, <1>6, <3>1, <4>1 DEF ScanInv
    <3>2. CASE ~ (pc = "release" /\ i < Seg_Count)
        BY <1>1, <1>6, <3>2 DEF ScanInv
    <3> QED BY <3>1, <3>2
  <2> QED BY <2>1, <2>2, <2>3 DEF ScanInv
<1>8. HeldInv(c)'
  <2>1. CASE UNCHANGED <<pc, scan, frame, next, i, p, passed>>
      BY <1>1, <1>3, <1>5, <2>1 DEF HeldInv
  <2>2. CASE pc = "take" /\ pc' = "scan" /\ scan' = 0 /\ frame' = NULL
    <3>1. Seg_Count = 0
        BY <2>2 DEF HeldInv
    <3>2. Ahead(c) = c
        BY <2>2 DEF Ahead, Held
    <3> QED BY <1>3, <1>5, <2>2, <3>1, <3>2 DEF HeldInv
  <2>3. CASE pc \in {"resume", "input"} /\ pc' \in {"take", "input"}
    <3>1. Seg_Count = 0
        BY <2>3 DEF HeldInv
    <3> QED BY <1>3, <2>3, <3>1 DEF HeldInv
  <2> QED BY <2>1, <2>2, <2>3 DEF Onward
<1> QED BY <1>7, <1>8

\* A frame starts, or is dropped before the DMA has stored any of it.
LEMMA FrameKeeps ==
    ASSUME IInv, FrameStarts \/ FrameDropped
    PROVE  IInv' /\ [Signal!Next]_(Signal!vars)
<1> USE DEF signal, driver, task
<1>1. TypeOK /\ ArrivedInv /\ FramesInOrder /\ PacketInv /\ PacketGenuine
    BY DEF IInv
<1>2. PICK c \in 0..ETH_RXBUFNB : RingInv(c) /\ ScanInv(c) /\ HeldInv(c)
    BY DEF IInv
<1>3. /\ UNCHANGED <<status, rxBuff, dma, arrived, handled, driver>>
      /\ UNCHANGED <<flagR, isr, sem, pc, scan, frame, next, i, p, passed>>
    BY DEF FrameStarts, FrameDropped
<1>4. Onward
    BY <1>3 DEF Onward
<1>5. RingInv(c)' /\ ScanInv(c)' /\ HeldInv(c)'
    BY <1>1, <1>2, <1>3, <1>4, RingStarts, QuietTask
<1>6. FramesInOrder'
    BY <1>1, <1>3, <1>4, QuietOrder
<1>7. /\ incoming' \in [id : 0..MaxFrames, done : 0..MaxSegs, size : 0..MaxSegs]
      /\ incoming'.id >= incoming.id
      /\ Busy' => incoming'.id > incoming.id
      /\ rbus' \in BOOLEAN
  <2>1. CASE FrameStarts
    <3>1. PICK size \in 1..MaxSegs :
             incoming' = [id |-> incoming.id + 1, done |-> 0, size |-> size]
        BY <2>1 DEF FrameStarts
    <3>2. incoming.id \in 0..MaxFrames /\ incoming.id < MaxFrames /\ rbus' \in BOOLEAN
        BY <1>1, <2>1 DEF FrameStarts, TypeOK
    <3>3. incoming'.id = incoming.id + 1 /\ incoming.id \in Nat
        BY <3>1, <3>2
    <3>4. incoming' \in [id : 0..MaxFrames, done : 0..MaxSegs, size : 0..MaxSegs]
        BY <3>1, <3>2
    <3> QED BY <3>2, <3>3, <3>4
  <2>2. CASE FrameDropped
    <3>1. incoming' = [incoming EXCEPT !.size = 0] /\ incoming.done = 0 /\ rbus' = TRUE
        BY <2>2 DEF FrameDropped
    <3>2. /\ incoming' \in [id : 0..MaxFrames, done : 0..MaxSegs, size : 0..MaxSegs]
          /\ incoming'.id = incoming.id /\ incoming.id \in Nat
          /\ incoming'.done = 0 /\ incoming'.size = 0
      <4>1. incoming \in [id : 0..MaxFrames, done : 0..MaxSegs, size : 0..MaxSegs]
          BY <1>1 DEF TypeOK
      <4> QED BY <3>1, <4>1
    <3>3. ~Busy'
        BY <3>2 DEF Busy
    <3>4. rbus' \in BOOLEAN
        BY <3>1, Zenon
    <3> QED BY <3>2, <3>3, <3>4
  <2> QED BY <2>1, <2>2
<1>8. TypeOK'
    BY <1>1, <1>3, <1>7 DEF TypeOK
<1>9. ArrivedInv'
  <2>1. \A k \in DOMAIN arrived : arrived[k] \in Nat /\ arrived[k] <= incoming.id
      BY <1>1, Types DEF ArrivedInv
  <2>2. incoming.id \in Nat /\ incoming'.id \in Nat
      BY <1>1, <1>7 DEF TypeOK
  <2>3. \A k \in DOMAIN arrived : arrived[k] <= incoming'.id /\ (Busy' => arrived[k] < incoming'.id)
      BY <1>7, <2>1, <2>2
  <2> QED BY <1>1, <1>3, <2>3 DEF ArrivedInv
<1>10. PacketInv' /\ PacketGenuine'
    BY <1>1, <1>3 DEF PacketInv, PacketGenuine
<1>11. Waiting' = Waiting
    BY <1>3, <1>4, QuietSets
<1>12. UNCHANGED Signal!vars
    BY <1>3, <1>11 DEF Signal!vars
<1> QED BY <1>5, <1>6, <1>8, <1>9, <1>10, <1>12, StepKeeps DEF Task

\* ETH_IRQHandler touches nothing but the signal.
LEMMA InterruptKeeps ==
    ASSUME IInv, IrqGive \/ IrqClear
    PROVE  IInv' /\ [Signal!Next]_(Signal!vars)
<1> USE DEF device, driver, task
<1>1. TypeOK /\ ArrivedInv /\ FramesInOrder /\ PacketInv /\ PacketGenuine
    BY DEF IInv
<1>2. PICK c \in 0..ETH_RXBUFNB : RingInv(c) /\ ScanInv(c) /\ HeldInv(c)
    BY DEF IInv
<1>3. /\ UNCHANGED <<status, rxBuff, dma, arrived, handled, driver, incoming, rbus>>
      /\ UNCHANGED <<pc, scan, frame, next, i, p, passed>>
    BY DEF IrqGive, IrqClear
<1>4. Onward
    BY <1>3 DEF Onward
<1>5. RingInv(c)' /\ ScanInv(c)' /\ HeldInv(c)'
    BY <1>1, <1>2, <1>3, <1>4, RingKept, QuietTask
<1>6. FramesInOrder' /\ Waiting' = Waiting
    BY <1>1, <1>3, <1>4, QuietOrder, QuietSets
<1>7. sem' \in 0..SEM_MAX /\ flagR' \in BOOLEAN /\ isr' \in {"idle", "clear"}
  <2>1. CASE IrqGive
      BY <1>1, <2>1 DEF IrqGive, TypeOK
  <2>2. CASE IrqClear
      BY <1>1, <2>2 DEF IrqClear, TypeOK
  <2> QED BY <2>1, <2>2
<1>8. TypeOK'
    BY <1>1, <1>3, <1>7 DEF TypeOK
<1>9. ArrivedInv' /\ PacketInv' /\ PacketGenuine'
    BY <1>1, <1>3 DEF ArrivedInv, PacketInv, PacketGenuine, Busy
<1>10. Signal!Give \/ Signal!Clear
  <2>1. (pc = "scan")' = (pc = "scan") /\ Cardinality(Waiting)' = Cardinality(Waiting)
      BY <1>3, <1>6
  <2>2. CASE IrqGive
      BY <2>1, <2>2 DEF IrqGive, Signal!Give
  <2>3. CASE IrqClear
      BY <2>1, <2>3 DEF IrqClear, Signal!Clear
  <2> QED BY <2>2, <2>3
<1>11. Signal!Next
    BY <1>10 DEF Signal!Next
<1> QED BY <1>5, <1>6, <1>8, <1>9, <1>11, StepKeeps DEF Task

\* The task waits, clears RBUS or passes the packet on.
LEMMA OnwardKeeps ==
    ASSUME IInv, Take \/ Resume \/ Input
    PROVE  IInv' /\ [Signal!Next]_(Signal!vars)
<1> USE DEF device, signal, driver, task
<1>1. TypeOK /\ ArrivedInv /\ FramesInOrder /\ PacketInv /\ PacketGenuine
    BY DEF IInv
<1>2. PICK c \in 0..ETH_RXBUFNB : RingInv(c) /\ ScanInv(c) /\ HeldInv(c)
    BY DEF IInv
<1>3. UNCHANGED <<status, rxBuff, dma, arrived, handled, driver, incoming, flagR, isr>>
    BY DEF Take, Resume, Input
<1>4. Onward
    BY DEF Take, Resume, Input, Onward
<1>5. RingInv(c)' /\ ScanInv(c)' /\ HeldInv(c)'
    BY <1>1, <1>2, <1>3, <1>4, RingKept, QuietTask
<1>6. FramesInOrder' /\ Waiting' = Waiting
    BY <1>1, <1>3, <1>4, QuietOrder, QuietSets
<1>7. ArrivedInv'
  <2>1. pc' # "copy"
      BY DEF Take, Resume, Input
  <2> QED BY <1>1, <1>3, <2>1 DEF ArrivedInv, Busy
<1>8. CASE Take
  <2>1. TypeOK'
      BY <1>1, <1>3, <1>8 DEF TypeOK, Take
  <2>2. PacketInv' /\ PacketGenuine'
      BY <1>1, <1>3, <1>8 DEF PacketInv, PacketGenuine, Take
  <2>3. Signal!Take
      BY <1>3, <1>6, <1>8 DEF Take, Signal!Take
  <2> QED BY <1>5, <1>6, <1>7, <2>1, <2>2, <2>3, StepKeeps DEF Task, Signal!Next
<1>9. CASE Resume
  <2>1. TypeOK'
      BY <1>1, <1>3, <1>9 DEF TypeOK, Resume
  <2>2. PacketInv' /\ PacketGenuine'
      BY <1>1, <1>3, <1>9 DEF PacketInv, PacketGenuine, Resume
  <2>3. UNCHANGED Signal!vars
      BY <1>3, <1>6, <1>9 DEF Resume, Signal!vars
  <2> QED BY <1>5, <1>6, <1>7, <2>1, <2>2, <2>3, StepKeeps DEF Task
<1>10. CASE Input
  <2>1. TypeOK'
      BY <1>1, <1>3, <1>10 DEF TypeOK, Input, NoPacket
  <2>2. PacketInv' /\ PacketGenuine'
    <3>1. /\ passed \in Seq(Seq(Segment \cup {Beyond})) /\ Len(passed) \in Nat
          /\ passed' = Append(passed, p) /\ pc' = "take"
        BY <1>1, <1>10 DEF TypeOK, Input
    <3>2. Len(passed') = Len(passed) + 1
        BY <3>1
    <3>3. /\ Len(handled) = Len(passed) + 1
          /\ Copied(p, handled[Len(handled)])
        BY <1>1, <1>10 DEF PacketInv, Input
    <3>4. PacketInv'
        BY <1>3, <3>1, <3>2, <3>3 DEF PacketInv
    <3>5. ASSUME NEW k \in 1..Len(passed')
          PROVE  Copied(passed'[k], handled[k])
      <4>1. CASE k = Len(passed) + 1
        <5>1. passed'[k] = p
            BY <3>1, <4>1
        <5> QED BY <3>3, <4>1, <5>1
      <4>2. CASE k # Len(passed) + 1
        <5>1. k \in 1..Len(passed)
            BY <3>1, <3>2, <4>2
        <5>2. passed'[k] = passed[k]
            BY <3>1, <5>1
        <5> QED BY <1>1, <5>1, <5>2 DEF PacketGenuine
      <4> QED BY <4>1, <4>2
    <3> QED BY <1>3, <3>4, <3>5 DEF PacketGenuine
  <2>3. UNCHANGED Signal!vars
      BY <1>3, <1>6, <1>10 DEF Input, Signal!vars
  <2> QED BY <1>5, <1>6, <1>7, <2>1, <2>2, <2>3, StepKeeps DEF Task
<1> QED BY <1>8, <1>9, <1>10

\* The descriptor of the segment stored, and the others.
LEMMA StoreFrame ==
    ASSUME TypeOK, SegmentStored
    PROVE  /\ status[dma].own
           /\ \A d \in Desc : d # dma => status'[d] = status[d] /\ rxBuff'[d] = rxBuff[d]
           /\ status' \in [Desc -> Status] /\ dma' \in Desc /\ rbus' \in BOOLEAN
<1>1. dma \in Desc /\ status \in [Desc -> Status] /\ rxBuff \in [Desc -> Segment \cup {Beyond}]
    BY DEF TypeOK
<1>2. /\ status[dma].own /\ dma' = Buffer2NextDescAddr(dma)
      /\ rxBuff' = [rxBuff EXCEPT ![dma] = <<incoming.id, incoming.done + 1>>]
    BY DEF SegmentStored
<1>3. PICK s \in Status : status' = [status EXCEPT ![dma] = s]
  <2>1. PICK es \in BOOLEAN, last \in BOOLEAN, fs \in BOOLEAN :
           status' = [status EXCEPT ![dma] = [own |-> FALSE, fs |-> fs, ls |-> last, es |-> es]]
      BY DEF SegmentStored
  <2>2. [own |-> FALSE, fs |-> fs, ls |-> last, es |-> es] \in Status
      BY DEF Status
  <2> QED BY <2>1, <2>2
<1>4. rbus' \in BOOLEAN
    BY DEF SegmentStored
<1>5. \A d \in Desc : d # dma => status'[d] = status[d] /\ rxBuff'[d] = rxBuff[d]
    BY <1>1, <1>2, <1>3
<1>6. status' \in [Desc -> Status]
    BY <1>1, <1>3
<1>7. dma' \in Desc
    BY <1>1, <1>2, ChainNext
<1> QED BY <1>2, <1>4, <1>5, <1>6, <1>7

\* The new segment is ahead of the scan.
LEMMA StoredTask ==
    ASSUME IInv, NEW c \in 0..ETH_RXBUFNB, RingInv(c), ScanInv(c), HeldInv(c), SegmentStored
    PROVE  Taken' = Taken /\ ScanInv(c + 1)' /\ HeldInv(c + 1)'
<1> DEFINE b == c + 1
<1>1. TypeOK /\ ArrivedInv /\ FramesInOrder /\ PacketInv
    BY DEF IInv
<1>2. /\ Busy /\ b \in 1..ETH_RXBUFNB /\ c \in Nat
      /\ \A j \in 1..ETH_RXBUFNB : At(j)' = At(j - 1)
      /\ \A j \in 2..ETH_RXBUFNB :
           /\ Last(j)' = Last(j - 1) /\ rxBuff[At(j)]' = rxBuff[At(j - 1)]
           /\ Id(j)' = Id(j - 1) /\ Number(j)' = Number(j - 1)
      /\ Id(1)' = incoming.id /\ Number(1)' = incoming.done + 1
      /\ UNCHANGED <<driver, task>>
    BY <1>1, StoreView
<1>3. /\ Seg_Count' = Seg_Count /\ DMARxDescToGet' = DMARxDescToGet /\ FS_Rx_Desc' = FS_Rx_Desc
      /\ UNCHANGED <<pc, scan, frame, next, i, handled>>
    BY <1>2 DEF driver, task
<1>4. PICK a \in 0..c : a = Ahead(c) /\ Held \in 0..c
    BY <1>1, WaitingView
<1>5. Held' = Held
    BY <1>3 DEF Held
<1>6. Ahead(b)' = a + 1
    BY <1>2, <1>4, <1>5 DEF Ahead
<1>7. \A j \in 1..c : Last(j + 1)' = Last(j) /\ Id(j + 1)' = Id(j) /\ Number(j + 1)' = Number(j)
  <2> SUFFICES ASSUME NEW j \in 1..c
               PROVE  Last(j + 1)' = Last(j) /\ Id(j + 1)' = Id(j) /\ Number(j + 1)' = Number(j)
      OBVIOUS
  <2>1. PICK k \in 2..ETH_RXBUFNB : k = j + 1
      BY <1>2
  <2>2. k - 1 = j
      BY <2>1
  <2>3. Last(k)' = Last(k - 1) /\ Id(k)' = Id(k - 1) /\ Number(k)' = Number(k - 1)
      BY <1>2
  <2> QED BY <2>1, <2>2, <2>3
<1>8. pc = "copy" => frame \in Desc /\ frame # NULL /\ rxBuff'[frame] = rxBuff[frame]
  <2> SUFFICES ASSUME pc = "copy"
               PROVE  frame \in Desc /\ frame # NULL /\ rxBuff'[frame] = rxBuff[frame]
      OBVIOUS
  <2>1. frame = At(a + 1) /\ Seg_Count > 0
      BY <1>4 DEF HeldInv
  <2>2. a + 1 \in 1..c
      BY <1>1, <1>4, <2>1, Types DEF Ahead, Held
  <2>3. frame \in Desc /\ frame # NULL
    <3>1. a + 1 \in 0..ETH_RXBUFNB
        BY <1>2, <2>2
    <3> QED BY <1>1, <2>1, <3>1, AtDesc, Types DEF Desc, NULL
  <2>4. PICK k \in 2..ETH_RXBUFNB : k = a + 1 + 1
      BY <1>2, <1>4, <2>2
  <2>5. k - 1 = a + 1 /\ k \in 1..ETH_RXBUFNB
      BY <1>4, <2>4
  <2>6. At(k)' = frame /\ rxBuff[At(k)]' = rxBuff[frame]
      BY <1>2, <2>1, <2>5
  <2> QED BY <2>3, <2>6
<1>9. Taken' = Taken
    BY <1>3, <1>8 DEF Taken
<1>10. ScanInv(b)'
  <2>1. Held' \in 0..b
      BY <1>2, <1>4, <1>5
  <2>2. DMARxDescToGet' = At(a + 1)'
    <3>1. PICK k \in 1..ETH_RXBUFNB : k = a + 1
        BY <1>2, <1>4
    <3>2. k - 1 = a
        BY <1>4, <3>1
    <3>3. At(k)' = At(a)
        BY <1>2, <3>2
    <3> QED BY <1>3, <1>4, <3>1, <3>3 DEF ScanInv
  <2>3. ASSUME NEW j \in 1..(a + 1) PROVE Id(j)' \notin Taken'
    <3>1. CASE j = 1
        BY <1>1, <1>2, <1>9, <3>1, TakenArrived
    <3>2. CASE j # 1
      <4>1. PICK k \in 1..a : j = k + 1
          BY <1>4, <2>3, <3>2
      <4>2. Id(k) \notin Taken /\ k \in 1..c
          BY <1>4 DEF ScanInv
      <4> QED BY <1>7, <1>9, <4>1, <4>2
    <3> QED BY <3>1, <3>2
  <2>4. Number(b)' = IF pc' = "release" /\ i' < Seg_Count' THEN i' + 1 ELSE 1
    <3>1. CASE c >= 1
      <4>1. Number(b)' = Number(c)
          BY <1>2, <1>7, <3>1
      <4> QED BY <1>3, <3>1, <4>1 DEF ScanInv
    <3>2. CASE ~ (c >= 1)
      <4>1. c = 0 /\ b = 1 /\ Held = 0
          BY <1>2, <1>4, <3>2
      <4>2. incoming.done = 0
          BY <1>1, <1>2, <4>1 DEF RingInv, OpenInv, Open, TypeOK
      <4>3. Number(b)' = 1
          BY <1>2, <4>1, <4>2
      <4>4. ~ (pc = "release" /\ i < Seg_Count)
          BY <1>1, <4>1, Types DEF Held
      <4> QED BY <1>3, <4>3, <4>4
    <3> QED BY <3>1, <3>2
  <2> HIDE DEF b
  <2> QED BY <1>6, <2>1, <2>2, <2>3, <2>4 DEF ScanInv
<1>11. ASSUME NEW j \in (a + 2)..b
       PROVE  \E k \in (a + 1)..c : k \in 1..c /\ j = k + 1 /\ Last(j)' = Last(k) /\ Id(j)' = Id(k)
  <2>1. j - 1 \in (a + 1)..c /\ j - 1 \in 1..c /\ j = (j - 1) + 1
      BY <1>2, <1>4
  <2>2. PICK k \in (a + 1)..c : k = j - 1 /\ k \in 1..c /\ j = k + 1
      BY <2>1
  <2> QED BY <1>7, <2>2
<1>12. \A j \in 0..c : At(j + 1)' = At(j)
  <2> SUFFICES ASSUME NEW j \in 0..c PROVE At(j + 1)' = At(j)
      OBVIOUS
  <2>1. PICK k \in 1..ETH_RXBUFNB : k = j + 1 /\ k - 1 = j
      BY <1>2
  <2> QED BY <1>2, <2>1
<1>13. HeldInv(b)'
  <2>0. Ahead(b)' + 1 = a + 2
      BY <1>4, <1>6
  <2>1. ASSUME pc = "scan"
        PROVE  /\ scan' = Seg_Count' /\ frame' = NULL
               /\ \A j \in (a + 2)..b : ~Last(j)' /\ Id(j)' = Id(b)'
    <3>1. /\ scan = Seg_Count /\ frame = NULL
          /\ \A k \in (a + 1)..c : ~Last(k) /\ Id(k) = Id(c)
        BY <1>4, <2>1 DEF HeldInv
    <3>2. ASSUME NEW j \in (a + 2)..b PROVE ~Last(j)' /\ Id(j)' = Id(b)'
      <4>1. PICK k \in (a + 1)..c : k \in 1..c /\ Last(j)' = Last(k) /\ Id(j)' = Id(k)
          BY <1>11, <3>2
      <4>2. c \in 1..c
          BY <4>1
      <4>3. Id(b)' = Id(c)
          BY <1>7, <4>2
      <4> QED BY <3>1, <4>1, <4>3
    <3> QED BY <1>3, <3>1, <3>2
  <2>2. ASSUME pc = "copy"
        PROVE  /\ Seg_Count' > 0
               /\ frame' = At(a + 2)' /\ Last(a + 2)'
               /\ \A j \in (a + 2)..b : Id(j)' = rxBuff'[frame'][1]
    <3>1. /\ Seg_Count > 0 /\ frame = At(a + 1) /\ Last(a + 1)
          /\ \A k \in (a + 1)..c : Id(k) = rxBuff[frame][1]
        BY <1>4, <2>2 DEF HeldInv
    <3>2. a + 1 \in 1..c /\ a + 1 \in 0..c /\ a + 2 = (a + 1) + 1
        BY <1>1, <1>4, <2>2, <3>1, Types DEF Ahead, Held
    <3>3. At(a + 2)' = At(a + 1) /\ Last(a + 2)' = Last(a + 1)
        BY <1>7, <1>12, <3>2
    <3>4. \A j \in (a + 2)..b : Id(j)' = rxBuff[frame][1]
        BY <1>11, <3>1
    <3> QED BY <1>3, <1>8, <2>2, <3>1, <3>3, <3>4
  <2>3. ASSUME pc = "release"
        PROVE  /\ next' = At(b)' /\ i' <= Seg_Count' /\ (i' < Seg_Count' => Last(a + 2)')
               /\ \A j \in (a + 2)..b : Id(j)' = handled'[Len(handled')]
    <3>1. /\ next = At(c) /\ i <= Seg_Count /\ (i < Seg_Count => Last(a + 1))
          /\ \A k \in (a + 1)..c : Id(k) = handled[Len(handled)]
        BY <1>4, <2>3 DEF HeldInv
    <3>2. At(b)' = At(c)
        BY <1>2, <1>12
    <3>3. i < Seg_Count => Last(a + 2)'
      <4> SUFFICES ASSUME i < Seg_Count PROVE Last(a + 2)'
          OBVIOUS
      <4>1. a + 1 \in 1..c /\ a + 2 = (a + 1) + 1
          BY <1>1, <1>4, <2>3, Types, SMTT(30) DEF Ahead, Held
      <4> QED BY <1>7, <3>1, <4>1
    <3>4. \A j \in (a + 2)..b : Id(j)' = handled[Len(handled)]
        BY <1>11, <3>1
    <3> QED BY <1>3, <3>1, <3>2, <3>3, <3>4
  <2>4. ASSUME pc \in {"scan", "copy"}, Seg_Count > 0 PROVE FS_Rx_Desc' = At(b)'
    <3>1. At(b)' = At(c)
        BY <1>2, <1>12
    <3> QED BY <1>3, <2>4, <3>1 DEF HeldInv
  <2>5. pc \in {"take", "resume", "input"} => Seg_Count' = 0
      BY <1>3 DEF HeldInv
  <2> HIDE DEF b
  <2> QED BY <1>3, <1>6, <2>0, <2>1, <2>2, <2>3, <2>4, <2>5 DEF HeldInv
<1> QED BY <1>9, <1>10, <1>13

\* A prefix, as a function.
LEMMA PrefixIs ==
    ASSUME NEW S, NEW q \in Seq(S), NEW n \in Nat, n <= Len(q)
    PROVE  SubSeq(q, 1, n) = [k \in 1..n |-> q[k]]
<1>1. /\ SubSeq(q, 1, n) \in Seq(S) /\ Len(SubSeq(q, 1, n)) = n
      /\ \A k \in 1..n : SubSeq(q, 1, n)[k] = q[k]
    OBVIOUS
<1>2. DOMAIN SubSeq(q, 1, n) = 1..n
    BY <1>1
<1>3. SubSeq(q, 1, n) = [k \in 1..n |-> SubSeq(q, 1, n)[k]]
    BY <1>1, <1>2
<1> QED BY <1>1, <1>3

\* The DMA stores a segment; the last one of a frame is a signal.
LEMMA StoredKeeps ==
    ASSUME IInv, SegmentStored
    PROVE  IInv' /\ [Signal!Next]_(Signal!vars)
<1>1. TypeOK /\ ArrivedInv /\ FramesInOrder /\ PacketInv /\ PacketGenuine
    BY DEF IInv
<1>2. PICK c \in 0..ETH_RXBUFNB : RingInv(c) /\ ScanInv(c) /\ HeldInv(c)
    BY DEF IInv
<1>3. PICK last \in BOOLEAN : last = Last(1)'
    BY <1>1, <1>2, StoreView
<1>4. /\ Busy /\ incoming.done \in Nat /\ incoming.id \in 1..MaxFrames
      /\ c + 1 \in 0..ETH_RXBUFNB
      /\ At(1)' = At(0) /\ ~Own(1)'
      /\ rxBuff[At(1)]' = <<incoming.id, incoming.done + 1>> /\ rxBuff[At(1)]' \in Segment
      /\ incoming'.id = incoming.id /\ (Busy' <=> ~last)
      /\ arrived' = IF last THEN Append(arrived, incoming.id) ELSE arrived
      /\ flagR' = (flagR \/ last)
      /\ UNCHANGED <<isr, sem, driver, task>>
  <2>1. At(1)' = At(1 - 1)
      BY <1>1, <1>2, StoreView
  <2> QED BY <1>1, <1>2, <1>3, <2>1, StoreView
<1>5. At(1)' = dma /\ dma \in Desc
    BY <1>1, <1>4, AtEnds, Types
<1>6. Task(c + 1)' /\ Taken' = Taken
    BY <1>1, <1>2, RingStored, StoredTask DEF Task
<1>7. UNCHANGED <<DMARxDescToGet, Seg_Count, FS_Rx_Desc, pc, scan, frame, next, i, p,
                  handled, passed>>
    BY <1>4 DEF driver, task
<1>8. incoming.id \notin Taken
    BY <1>1, <1>4, TakenArrived
<1>9. /\ status[dma].own /\ ~status'[dma].own /\ status'[dma].ls = last
      /\ rxBuff'[dma] = <<incoming.id, incoming.done + 1>> /\ rxBuff'[dma] \in Segment
      /\ rxBuff'[dma][1] = incoming.id
  <2>1. status[dma].own
      BY <1>1, StoreFrame
  <2>2. Own(1)' = status'[dma].own /\ Last(1)' = status'[dma].ls
      BY <1>5 DEF Own, Last
  <2>3. rxBuff[At(1)]' = rxBuff'[dma]
      BY <1>5
  <2> QED BY <1>3, <1>4, <2>1, <2>2, <2>3
<1>10. \A d \in Desc : d # dma => status'[d] = status[d] /\ rxBuff'[d] = rxBuff[d]
    BY <1>1, StoreFrame
<1>11. dma \notin Waiting
    BY <1>9 DEF Waiting
<1>12. Waiting' = IF last THEN Waiting \cup {dma} ELSE Waiting
  <2>1. ASSUME NEW d \in Desc, d # dma PROVE d \in Waiting' <=> d \in Waiting
      BY <1>6, <1>10, <2>1 DEF Waiting
  <2>2. dma \in Waiting' <=> last
    <3>1. dma \in Waiting' <=> /\ ~status'[dma].own /\ status'[dma].ls
                               /\ rxBuff'[dma][1] \notin Taken'
        BY <1>5 DEF Waiting
    <3>2. rxBuff'[dma][1] \notin Taken'
        BY <1>6, <1>8, <1>9
    <3> QED BY <1>9, <3>1, <3>2, Zenon
  <2>3. Waiting \subseteq Desc /\ Waiting' \subseteq Desc
      BY DEF Waiting
  <2>4. CASE last
    <3>1. Waiting' = Waiting \cup {dma}
        BY <1>5, <2>1, <2>2, <2>3, <2>4
    <3> QED BY <2>4, <3>1
  <2>5. CASE ~last
    <3>1. Waiting' = Waiting
        BY <1>11, <2>1, <2>2, <2>3, <2>5
    <3> QED BY <2>5, <3>1
  <2> QED BY <2>4, <2>5
<1>13. TypeOK'
  <2>1. status' \in [Desc -> Status] /\ dma' \in Desc /\ rbus' \in BOOLEAN
      BY <1>1, StoreFrame
  <2>2. rxBuff' \in [Desc -> Segment \cup {Beyond}]
    <3>1. rxBuff' = [rxBuff EXCEPT ![dma] = <<incoming.id, incoming.done + 1>>]
        BY DEF SegmentStored
    <3>2. <<incoming.id, incoming.done + 1>> \in Segment
        BY <1>9
    <3> QED BY <1>1, <3>1, <3>2 DEF TypeOK
  <2>3. incoming' \in [id : 0..MaxFrames, done : 0..MaxSegs, size : 0..MaxSegs]
    <3>1. PICK m \in 0..MaxSegs :
             incoming' = [incoming EXCEPT !.done = incoming.done + 1, !.size = m]
      <4>1. /\ incoming.size \in 0..MaxSegs /\ incoming.done + 1 \in 0..MaxSegs
            /\ incoming \in [id : 0..MaxFrames, done : 0..MaxSegs, size : 0..MaxSegs]
          BY <1>1, <1>4 DEF TypeOK, Busy
      <4>2. PICK cut \in BOOLEAN :
              incoming' = [incoming EXCEPT !.done = incoming.done + 1,
                                           !.size = IF cut THEN incoming.done + 1 ELSE @]
          BY DEF SegmentStored
      <4> QED BY <4>1, <4>2
    <3>2. /\ incoming.done + 1 \in 0..MaxSegs
          /\ incoming \in [id : 0..MaxFrames, done : 0..MaxSegs, size : 0..MaxSegs]
        BY <1>1, <1>4 DEF TypeOK, Busy
    <3> QED BY <3>1, <3>2
  <2>4. arrived' \in Seq(1..MaxFrames)
    <3>1. arrived \in Seq(1..MaxFrames)
        BY <1>1, Types
    <3>2. Append(arrived, incoming.id) \in Seq(1..MaxFrames)
        BY <1>4, <3>1
    <3> QED BY <1>4, <3>1, <3>2
  <2>5. flagR' \in BOOLEAN
      BY <1>4
  <2> QED BY <1>1, <1>4, <1>7, <2>1, <2>2, <2>3, <2>4, <2>5 DEF TypeOK
<1>14. /\ Len(arrived) \in Nat /\ Len(arrived') \in Nat
       /\ DOMAIN arrived = 1..Len(arrived) /\ DOMAIN arrived' = 1..Len(arrived')
       /\ Len(arrived') = IF last THEN Len(arrived) + 1 ELSE Len(arrived)
       /\ \A k \in 1..Len(arrived) : arrived'[k] = arrived[k] /\ k \in 1..Len(arrived')
       /\ last => arrived'[Len(arrived) + 1] = incoming.id
  <2>1. arrived \in Seq(1..MaxFrames) /\ Len(arrived) \in Nat /\ DOMAIN arrived = 1..Len(arrived)
      BY <1>1, Types
  <2>2. CASE last
    <3>1. arrived' = Append(arrived, incoming.id)
        BY <1>4, <2>2
    <3> QED BY <1>4, <2>1, <2>2, <3>1
  <2>3. CASE ~last
      BY <1>4, <2>1, <2>3
  <2> QED BY <2>2, <2>3
<1>15. \A k \in 1..Len(arrived') : \/ k \in 1..Len(arrived) /\ arrived'[k] = arrived[k]
                                   \/ last /\ k = Len(arrived) + 1 /\ arrived'[k] = incoming.id
    BY <1>14
<1>16. ArrivedInv'
  <2>1. /\ \A k \in 1..Len(arrived) : arrived[k] \in Nat /\ arrived[k] < incoming.id
        /\ \A k, m \in 1..Len(arrived) : k < m => arrived[k] < arrived[m]
        /\ Len(handled) <= Len(arrived) /\ Len(handled) \in Nat
      BY <1>1, <1>4, <1>14, Types DEF ArrivedInv
  <2>2. ASSUME NEW k \in 1..Len(arrived')
        PROVE  arrived'[k] <= incoming'.id /\ (Busy' => arrived'[k] < incoming'.id)
      BY <1>4, <1>15, <2>1
  <2>3. ASSUME NEW k \in 1..Len(arrived'), NEW m \in 1..Len(arrived'), k < m
        PROVE  arrived'[k] < arrived'[m]
    <3>1. k \in 1..Len(arrived) /\ arrived'[k] = arrived[k]
        BY <1>14, <1>15, <2>3
    <3>2. CASE m \in 1..Len(arrived) /\ arrived'[m] = arrived[m]
        BY <2>1, <2>3, <3>1, <3>2
    <3>3. CASE last /\ m = Len(arrived) + 1 /\ arrived'[m] = incoming.id
        BY <2>1, <3>1, <3>3
    <3> QED BY <1>15, <3>2, <3>3
  <2>4. Len(handled') <= Len(arrived')
      BY <1>7, <1>14, <2>1
  <2>5. pc' = "copy" => /\ Len(handled') < Len(arrived')
                        /\ rxBuff'[frame'][1] = arrived'[Len(handled') + 1]
    <3> SUFFICES ASSUME pc = "copy"
                 PROVE  /\ Len(handled) < Len(arrived')
                        /\ rxBuff'[frame][1] = arrived'[Len(handled) + 1]
        BY <1>7
    <3>1. Len(handled) < Len(arrived) /\ rxBuff[frame][1] = arrived[Len(handled) + 1]
        BY <1>1 DEF ArrivedInv
    <3>2. Len(handled) + 1 \in 1..Len(arrived)
        BY <1>14, <2>1, <3>1
    <3>3. frame # NULL /\ frame \in Desc /\ ~status[frame].own
      <4>1. frame = At(Ahead(c) + 1) /\ Seg_Count > 0
          BY <1>2 DEF HeldInv
      <4>2. PICK a \in 0..c : a = Ahead(c)
          BY <1>1, <1>2, WaitingView
      <4>3. a + 1 \in 1..c
          BY <1>1, <1>2, <4>1, <4>2, Types DEF Ahead, Held
      <4>4. PICK j \in 1..c : j = a + 1
          BY <4>3
      <4>5. j \in 0..ETH_RXBUFNB /\ j \in 1..ETH_RXBUFNB
          OBVIOUS
      <4>6. frame = At(j)
          BY <4>1, <4>2, <4>4
      <4>7. frame \in Desc
          BY <1>5, <4>5, <4>6, AtDesc
      <4>8. ~Own(j)
          BY <1>2, <4>5 DEF RingInv, ClosedInv
      <4> QED BY <4>6, <4>7, <4>8 DEF Own, NULL, Desc
    <3>4. rxBuff'[frame] = rxBuff[frame]
        BY <1>9, <1>10, <3>3
    <3> QED BY <1>14, <2>1, <3>1, <3>2, <3>4
  <2> QED BY <1>14, <2>2, <2>3, <2>4, <2>5 DEF ArrivedInv
<1>17. FramesInOrder'
  <2>1. /\ handled = SubSeq(arrived, 1, Len(handled))
        /\ {rxBuff[d][1] : d \in Waiting} = {arrived[k] : k \in 1..Len(arrived)} \ Taken
      BY <1>1 DEF FramesInOrder
  <2>2. handled' = SubSeq(arrived', 1, Len(handled'))
    <3>1. Len(handled) \in Nat /\ Len(handled) <= Len(arrived)
        BY <1>1, Types DEF ArrivedInv
    <3>2. SubSeq(arrived', 1, Len(handled)) = SubSeq(arrived, 1, Len(handled))
      <4>1. \A k \in 1..Len(handled) : arrived'[k] = arrived[k]
          BY <1>14, <3>1
      <4>2. arrived' \in Seq(1..MaxFrames) /\ arrived \in Seq(1..MaxFrames)
            /\ Len(handled) <= Len(arrived')
          BY <1>1, <1>13, <1>14, <3>1 DEF TypeOK
      <4>3. /\ SubSeq(arrived', 1, Len(handled)) = [k \in 1..Len(handled) |-> arrived'[k]]
            /\ SubSeq(arrived, 1, Len(handled)) = [k \in 1..Len(handled) |-> arrived[k]]
          BY <3>1, <4>2, PrefixIs
      <4> QED BY <4>1, <4>3
    <3> QED BY <1>7, <2>1, <3>2
  <2>3. {rxBuff'[d][1] : d \in Waiting'} = {arrived'[k] : k \in 1..Len(arrived')} \ Taken'
    <3>1. ASSUME NEW d \in Waiting' PROVE rxBuff'[d][1] \in {arrived'[k] : k \in 1..Len(arrived')} \ Taken'
      <4>1. CASE d = dma
        <5>1. last
            BY <1>11, <1>12, <3>1, <4>1
        <5>2. Len(arrived) + 1 \in 1..Len(arrived')
            BY <1>14, <5>1
        <5>3. rxBuff'[d][1] = arrived'[Len(arrived) + 1]
            BY <1>9, <1>14, <4>1, <5>1
        <5> QED BY <1>6, <1>8, <1>9, <4>1, <5>2, <5>3
      <4>2. CASE d # dma
        <5>1. d \in Waiting /\ d \in Desc
            BY <1>12, <3>1, <4>2 DEF Waiting
        <5>2. rxBuff'[d][1] = rxBuff[d][1]
            BY <1>10, <4>2, <5>1
        <5>3. rxBuff[d][1] \in {arrived[k] : k \in 1..Len(arrived)} \ Taken
            BY <2>1, <5>1
        <5> QED BY <1>6, <1>14, <5>2, <5>3
      <4> QED BY <4>1, <4>2
    <3>2. ASSUME NEW k \in 1..Len(arrived'), arrived'[k] \notin Taken'
          PROVE  \E d \in Waiting' : arrived'[k] = rxBuff'[d][1]
      <4>1. CASE k \in 1..Len(arrived) /\ arrived'[k] = arrived[k]
        <5>1. arrived[k] \in {rxBuff[d][1] : d \in Waiting}
            BY <1>6, <2>1, <3>2, <4>1
        <5>2. PICK d \in Waiting : arrived[k] = rxBuff[d][1]
            BY <5>1
        <5>3. d # dma /\ d \in Desc /\ d \in Waiting'
            BY <1>11, <1>12 DEF Waiting
        <5> QED BY <1>10, <4>1, <5>2, <5>3
      <4>2. CASE last /\ k = Len(arrived) + 1 /\ arrived'[k] = incoming.id
          BY <1>9, <1>12, <4>2
      <4> QED BY <1>15, <4>1, <4>2
    <3> QED BY <3>1, <3>2
  <2> QED BY <2>2, <2>3 DEF FramesInOrder
<1>18. PacketInv' /\ PacketGenuine'
    BY <1>1, <1>7 DEF PacketInv, PacketGenuine
<1>19. Signal!Complete \/ UNCHANGED Signal!vars
  <2>1. CASE last
    <3>1. Cardinality(Waiting)' = Cardinality(Waiting) + 1
        BY <1>5, <1>11, <1>12, <2>1, WaitingMore
    <3>2. Cardinality(Waiting) < ETH_RXBUFNB
        BY <1>5, <1>11, WaitingFinite
    <3>3. flagR' = TRUE
        BY <1>4, <2>1
    <3> QED BY <1>4, <1>7, <3>1, <3>2, <3>3 DEF Signal!Complete
  <2>2. CASE ~last
    <3>1. Waiting' = Waiting
        BY <1>12, <2>2
    <3>2. flagR' = flagR
      <4>1. flagR \in BOOLEAN
          BY <1>1 DEF TypeOK
      <4> QED BY <1>4, <2>2, <4>1, Zenon
    <3> QED BY <1>4, <1>7, <3>1, <3>2 DEF Signal!vars
  <2> QED BY <2>1, <2>2
<1> QED BY <1>4, <1>6, <1>13, <1>16, <1>17, <1>18, <1>19, StepKeeps DEF Signal!Next

\* The count that the task took stands for a frame: the descriptor at which the
\* scan looks is closed, and holds the next segment of the frame.
LEMMA ScanFinds ==
    ASSUME IInv, NEW c \in 0..ETH_RXBUFNB, RingInv(c), ScanInv(c), HeldInv(c), pc = "scan",
           NEW a, a = Ahead(c)
    PROVE  /\ a \in 1..c /\ c \in 1..c /\ Seg_Count = c - a /\ scan = c - a
           /\ DMARxDescToGet = At(a) /\ At(a) \in Desc /\ ~status[At(a)].own
           /\ Number(a) = c - a + 1 /\ Number(a) \in 1..MaxSegs /\ (First(a) <=> a = c)
           /\ \A j \in a..c : j \in 1..c /\ Id(j) = Id(a) /\ Id(j) \in Nat
           /\ Taken = {handled[k] : k \in 1..Len(handled)}
<1>1. TypeOK /\ PacketInv /\ Signal!NoPhantomFrame
    BY DEF IInv
<1>2. /\ Ahead(c) \in 0..c /\ Held \in 0..c
      /\ \A j \in 1..ETH_RXBUFNB : At(j) \in Waiting <=> j \in 1..Ahead(c) /\ Last(j)
    BY <1>1, WaitingView
<1>3. Waiting # {}
  <2>1. Signal!Claims <= Cardinality(Waiting)
      BY <1>1 DEF Signal!NoPhantomFrame
  <2>2. Signal!Claims = sem + 1 + (IF flagR /\ isr = "idle" THEN 1 ELSE 0)
      BY ClaimsAre
  <2>3. sem \in Nat
      BY <1>1 DEF TypeOK
  <2>4. Cardinality(Waiting) # 0
      BY <2>1, <2>2, <2>3
  <2> QED BY <2>4, FS_EmptySet
<1>4. a \in 1..c /\ c \in 1..c
  <2>1. PICK d \in Waiting : TRUE
      BY <1>3
  <2>2. PICK j \in 1..ETH_RXBUFNB : d = At(j)
      BY <1>1, AtAll, Types DEF Waiting
  <2>3. j \in 1..Ahead(c)
      BY <1>2, <2>1, <2>2
  <2> QED BY <1>2, <2>3
<1>5. Seg_Count = c - a /\ scan = c - a
  <2>1. a = c - Seg_Count /\ scan = Seg_Count
      BY DEF Ahead, Held, HeldInv
  <2> QED BY <1>1, <1>4, <2>1, Types
<1>6. DMARxDescToGet = At(a) /\ At(a) \in Desc /\ ~status[At(a)].own
  <2>1. a \in 0..ETH_RXBUFNB /\ a \in 1..ETH_RXBUFNB /\ ~ (a > c)
      BY <1>4
  <2>2. ~Own(a)
      BY <2>1 DEF RingInv, ClosedInv
  <2> QED BY <1>1, <2>1, <2>2, AtDesc, Types DEF Own, ScanInv
<1>7. \A j \in 1..c : Id(j) \in Nat /\ Number(j) \in 1..MaxSegs /\ (First(j) <=> Number(j) = 1)
    BY DEF RingInv, SegmentInv, Segment, Id, Number
<1>8. \A j \in (a + 1)..c : ~Last(j) /\ Id(j) = Id(c)
    BY DEF HeldInv
<1>9. Number(c) = 1
    BY <1>4 DEF ScanInv
<1>10. Id(a) = Id(c) /\ Number(a) = c - a + 1
  <2>1. CASE a = c
      BY <1>4, <1>9, <2>1
  <2>2. CASE a # c
    <3>1. PICK k \in 2..c : k = a + 1
        BY <1>4, <2>2
    <3>2. k \in (a + 1)..c /\ k - 1 = a
        BY <1>4, <3>1
    <3>3. ~Last(k) /\ Id(k) = Id(c)
        BY <1>8, <3>2
    <3>4. Id(k - 1) = Id(k)
        BY <3>3 DEF RingInv, JoinInv
    <3>5. Id(a) = Id(c)
        BY <3>2, <3>3, <3>4
    <3>6. a < c
        BY <1>4, <2>2
    <3>7. Number(a) = Number(c) + (c - a)
        BY <1>4, <3>5, <3>6 DEF RingInv, OrderInv
    <3> QED BY <1>4, <1>9, <3>5, <3>7
  <2> QED BY <2>1, <2>2
<1>11. \A j \in a..c : j \in 1..c /\ Id(j) = Id(a) /\ Id(j) \in Nat
  <2> SUFFICES ASSUME NEW j \in a..c PROVE j \in 1..c /\ Id(j) = Id(a) /\ Id(j) \in Nat
      OBVIOUS
  <2>1. j \in 1..c
      BY <1>4
  <2>2. CASE j = a
      BY <1>7, <2>1, <2>2
  <2>3. CASE j # a
    <3>1. j \in (a + 1)..c
        BY <1>4, <2>3
    <3> QED BY <1>7, <1>8, <1>10, <2>1, <3>1
  <2> QED BY <2>2, <2>3
<1>12. Number(a) \in 1..MaxSegs /\ (First(a) <=> a = c)
  <2>1. Number(a) = 1 <=> a = c
      BY <1>4, <1>10
  <2> QED BY <1>4, <1>7, <2>1
<1>13. Taken = {handled[k] : k \in 1..Len(handled)}
    BY DEF Taken
<1> QED BY <1>4, <1>5, <1>6, <1>10, <1>11, <1>12, <1>13

\* What one round of the loop does, given that.
LEMMA ScanView ==
    ASSUME IInv, NEW c \in 0..ETH_RXBUFNB, RingInv(c), ScanInv(c), HeldInv(c), Scan,
           NEW a, a = Ahead(c)
    PROVE  /\ pc = "scan" /\ isr = "idle" /\ a \in 1..c
           /\ scan' = c - a + 1 /\ Seg_Count' = c - a + 1
           /\ DMARxDescToGet' = At(a - 1) /\ FS_Rx_Desc' = At(c)
           /\ Last(a) => frame' = At(a) /\ pc' = "copy"
           /\ ~Last(a) => frame' = frame /\ pc' = pc
           /\ UNCHANGED <<device, signal, next, i, p, handled, passed>>
<1>1. pc = "scan" /\ isr = "idle" /\ UNCHANGED <<device, signal, next, i, p, handled, passed>>
    BY DEF Scan
<1>2. /\ a \in 1..c /\ c \in 1..c /\ Seg_Count = c - a /\ scan = c - a
      /\ DMARxDescToGet = At(a) /\ At(a) \in Desc /\ ~status[At(a)].own
      /\ First(a) <=> a = c
    BY <1>1, ScanFinds
<1>3. scan < ETH_RXBUFNB
    BY <1>2
<1>4. LET s == status[At(a)]
      IN  /\ scan' = scan + 1
          /\ DMARxDescToGet' = Buffer2NextDescAddr(At(a))
          /\ Seg_Count' = IF s.fs /\ ~s.ls THEN 1 ELSE Seg_Count + 1
          /\ FS_Rx_Desc' = IF Seg_Count' = 1 /\ (s.fs \/ s.ls) THEN At(a) ELSE FS_Rx_Desc
          /\ s.ls => frame' = At(a) /\ pc' = "copy"
          /\ ~s.ls => frame' = frame /\ pc' = pc
    BY <1>2, <1>3 DEF Scan
<1>5. DMARxDescToGet' = At(a - 1)
  <2>1. a \in 1..ETH_RXBUFNB /\ dma \in Desc
      BY <1>2, Types DEF IInv
  <2> QED BY <1>4, <2>1, AtNext
<1>6. Seg_Count' = c - a + 1 /\ scan' = c - a + 1
  <2>1. CASE status[At(a)].fs /\ ~status[At(a)].ls
    <3>1. a = c
        BY <1>2, <2>1 DEF First
    <3> QED BY <1>2, <1>4, <2>1, <3>1
  <2>2. CASE ~ (status[At(a)].fs /\ ~status[At(a)].ls)
      BY <1>2, <1>4, <2>2
  <2> QED BY <2>1, <2>2
<1>7. FS_Rx_Desc' = At(c)
  <2>1. CASE a = c
    <3>1. Seg_Count' = 1 /\ status[At(a)].fs
        BY <1>2, <1>6, <2>1 DEF First
    <3> QED BY <1>4, <2>1, <3>1
  <2>2. CASE a # c
    <3>1. Seg_Count' # 1 /\ Seg_Count > 0
        BY <1>2, <1>6, <2>2
    <3>2. FS_Rx_Desc = At(c)
        BY <1>1, <3>1 DEF HeldInv
    <3> QED BY <1>4, <3>1, <3>2
  <2> QED BY <2>1, <2>2
<1> QED BY <1>1, <1>2, <1>4, <1>5, <1>6, <1>7 DEF Last

\* Of the frames that wait, the scan finds the one that came first.
LEMMA FoundIsNext ==
    ASSUME IInv, NEW c \in 0..ETH_RXBUFNB, RingInv(c), ScanInv(c), HeldInv(c), pc = "scan",
           NEW a, a = Ahead(c), Last(a)
    PROVE  Len(handled) < Len(arrived) /\ Id(a) = arrived[Len(handled) + 1]
<1>1. TypeOK /\ ArrivedInv /\ FramesInOrder /\ PacketInv
    BY DEF IInv
<1>2. a \in 1..c /\ Taken = {handled[k] : k \in 1..Len(handled)}
    BY ScanFinds
<1>3. \A j \in 1..ETH_RXBUFNB : At(j) \in Waiting <=> j \in 1..a /\ Last(j)
    BY <1>1, WaitingView
<1>4. {rxBuff[d][1] : d \in Waiting} = {arrived[k] : k \in 1..Len(arrived)} \ Taken
    BY <1>1 DEF FramesInOrder
<1>5. PICK k \in 1..Len(arrived) : Id(a) = arrived[k] /\ arrived[k] \notin Taken
  <2>1. a \in 1..ETH_RXBUFNB /\ a \in 1..a
      BY <1>2
  <2>2. At(a) \in Waiting
      BY <1>3, <2>1
  <2> QED BY <1>4, <2>2, ZenonT(30) DEF Id
<1>6. /\ \A m \in 1..Len(handled) : handled[m] = arrived[m] /\ m \in 1..Len(arrived)
      /\ Len(handled) \in Nat /\ Len(arrived) \in Nat
    BY <1>1, TakenArrived, Types
<1>7. k > Len(handled)
    BY <1>2, <1>5, <1>6
<1>8. ASSUME k # Len(handled) + 1 PROVE FALSE
  <2>1. PICK m \in 1..Len(arrived) : m = Len(handled) + 1
      BY <1>6, <1>7
  <2>2. m < k
      BY <1>6, <1>7, <1>8, <2>1
  <2>3. /\ \A x, y \in 1..Len(arrived) : x < y => arrived[x] < arrived[y]
        /\ \A x \in 1..Len(arrived) : arrived[x] \in Nat
      BY <1>1, Types DEF ArrivedInv
  <2>4. arrived[m] \notin Taken
    <3> SUFFICES ASSUME NEW x \in 1..Len(handled), arrived[m] = handled[x] PROVE FALSE
        BY <1>2
    <3>1. x \in 1..Len(arrived) /\ x < m /\ arrived[m] = arrived[x]
        BY <1>6, <2>1
    <3> QED BY <2>3, <3>1
  <2>5. PICK d \in Waiting : arrived[m] = rxBuff[d][1]
    <3>1. arrived[m] \in {rxBuff[d][1] : d \in Waiting}
        BY <1>4, <2>4
    <3> QED BY <3>1
  <2>6. PICK j \in 1..ETH_RXBUFNB : d = At(j)
      BY <1>1, AtAll, Types DEF Waiting
  <2>7. j \in 1..a /\ Id(j) = arrived[m]
      BY <1>3, <2>5, <2>6 DEF Id
  <2>8. CASE j = a
      BY <1>5, <2>2, <2>3, <2>7, <2>8
  <2>9. CASE j # a
    <3>1. j < a /\ j \in 1..c /\ a \in 1..c
        BY <1>2, <2>7, <2>9
    <3>2. Id(a) < Id(j)
        BY <3>1 DEF RingInv, OrderInv
    <3> QED BY <1>5, <2>2, <2>3, <2>7, <3>2
  <2> QED BY <2>8, <2>9
<1> QED BY <1>5, <1>6, <1>7, <1>8

\* One round of the loop of ETH_Get_Received_Frame_interrupt.
LEMMA ScanKeeps ==
    ASSUME IInv, Scan
    PROVE  IInv' /\ [Signal!Next]_(Signal!vars)
<1>1. TypeOK /\ ArrivedInv /\ FramesInOrder /\ PacketInv /\ PacketGenuine
    BY DEF IInv
<1>2. PICK c \in 0..ETH_RXBUFNB : RingInv(c) /\ ScanInv(c) /\ HeldInv(c)
    BY DEF IInv
<1>3. PICK a : a = Ahead(c)
    OBVIOUS
<1>4. /\ pc = "scan" /\ isr = "idle"
      /\ scan' = c - a + 1 /\ Seg_Count' = c - a + 1
      /\ DMARxDescToGet' = At(a - 1) /\ FS_Rx_Desc' = At(c)
      /\ Last(a) => frame' = At(a) /\ pc' = "copy"
      /\ ~Last(a) => frame' = frame /\ pc' = pc
      /\ UNCHANGED <<device, signal, next, i, p, handled, passed>>
    BY <1>2, <1>3, ScanView
<1>5. UNCHANGED <<status, rxBuff, dma, incoming, rbus, arrived, flagR, isr, sem>>
    BY <1>4 DEF device, signal
<1>6. /\ a \in 1..c /\ c \in 1..c /\ Seg_Count = c - a
      /\ At(a) \in Desc /\ ~status[At(a)].own
      /\ Number(a) = c - a + 1 /\ Number(a) \in 1..MaxSegs
      /\ \A j \in a..c : j \in 1..c /\ Id(j) = Id(a) /\ Id(j) \in Nat
      /\ Taken = {handled[k] : k \in 1..Len(handled)}
    BY <1>2, <1>3, <1>4, ScanFinds
<1>7. \A j : /\ At(j)' = At(j) /\ Last(j)' = Last(j)
             /\ Id(j)' = Id(j) /\ Number(j)' = Number(j)
    BY <1>5 DEF At, Last, Id, Number
<1>8. RingInv(c)'
    BY <1>2, <1>5, RingKept
<1>9. TypeOK'
  <2>1. At(a - 1) \in Desc /\ At(c) \in Desc /\ c - a + 1 \in 0..MaxSegs /\ c - a + 1 \in 0..ETH_RXBUFNB
    <3>1. a - 1 \in 0..ETH_RXBUFNB /\ c \in 0..ETH_RXBUFNB
        BY <1>6
    <3> QED BY <1>1, <1>6, <3>1, AtDesc, Types, SMTT(30)
  <2>2. frame' \in Desc \cup {NULL} /\ pc' \in {"scan", "copy"}
    <3>1. CASE Last(a)
        BY <1>4, <1>6, <3>1
    <3>2. CASE ~Last(a)
        BY <1>1, <1>4, <3>2 DEF TypeOK
    <3> QED BY <3>1, <3>2
  <2> QED BY <1>1, <1>4, <1>5, <2>1, <2>2 DEF TypeOK
<1>10. pc' \in {"scan", "copy"}
    BY <1>4
<1>11. Held' = c - a + 1 /\ Ahead(c)' = a - 1
    BY <1>4, <1>6, <1>10 DEF Held, Ahead
<1>12. PacketInv' /\ PacketGenuine'
    BY <1>1, <1>4, <1>10 DEF PacketInv, PacketGenuine
<1>13. \A j \in 1..(a - 1) : j \in 1..a /\ Id(j) \notin Taken
    BY <1>2, <1>3, <1>6 DEF ScanInv
<1>14. Number(c)' = 1
    BY <1>2, <1>4, <1>6, <1>7 DEF ScanInv
<1>15. CASE ~Last(a)
  <2>1. frame' = frame /\ pc' = pc /\ frame = NULL
      BY <1>2, <1>4, <1>15 DEF HeldInv
  <2>2. Taken' = Taken
      BY <1>4, <2>1 DEF Taken
  <2>3. Waiting' = Waiting
      BY <1>5, <2>2 DEF Waiting
  <2>4. ScanInv(c)'
    <3>1. Held' \in 0..c
        BY <1>6, <1>11
    <3>2. DMARxDescToGet' = At(Ahead(c))'
        BY <1>4, <1>7, <1>11
    <3>3. \A j \in 1..Ahead(c)' : Id(j)' \notin Taken'
        BY <1>7, <1>11, <1>13, <2>2
    <3> QED BY <1>4, <1>14, <2>1, <3>1, <3>2, <3>3 DEF ScanInv
  <2>5. HeldInv(c)'
    <3>1. ASSUME NEW j \in a..c PROVE ~Last(j)' /\ Id(j)' = Id(c)'
      <4>1. Id(j) = Id(a) /\ Id(c) = Id(a)
          BY <1>6, <3>1
      <4>2. CASE j = a
          BY <1>7, <1>15, <4>1, <4>2
      <4>3. CASE j # a
        <5>1. j \in (Ahead(c) + 1)..c
            BY <1>3, <1>6, <4>3
        <5>2. ~Last(j)
            BY <1>2, <1>4, <5>1 DEF HeldInv
        <5> QED BY <1>7, <4>1, <5>2
      <4> QED BY <4>2, <4>3
    <3>2. Ahead(c)' + 1 = a
        BY <1>6, <1>11
    <3> QED BY <1>4, <1>7, <2>1, <3>1, <3>2 DEF HeldInv
  <2>6. ArrivedInv'
      BY <1>1, <1>4, <1>5, <2>1 DEF ArrivedInv, Busy
  <2>7. FramesInOrder'
      BY <1>1, <1>4, <1>5, <2>2, <2>3, ZenonT(30) DEF FramesInOrder
  <2>8. UNCHANGED Signal!vars
      BY <1>5, <2>1, <2>3 DEF Signal!vars
  <2> QED BY <1>8, <1>9, <1>12, <2>4, <2>5, <2>6, <2>7, <2>8, StepKeeps DEF Task
<1>16. CASE Last(a)
  <2>1. frame' = At(a) /\ pc' = "copy" /\ frame' # NULL
      BY <1>4, <1>6, <1>16 DEF Desc, NULL
  <2>2. Taken' = Taken \cup {Id(a)}
      BY <1>4, <1>5, <1>6, <2>1 DEF Taken, Id
  <2>3. \A j \in 1..(a - 1) : Id(a) # Id(j)
    <3> SUFFICES ASSUME NEW j \in 1..(a - 1) PROVE Id(a) # Id(j)
        OBVIOUS
    <3>1. j \in 1..c /\ j < a /\ a \in a..c
        BY <1>6
    <3>2. Id(a) < Id(j)
        BY <1>2, <1>6, <1>16, <3>1 DEF RingInv, OrderInv
    <3>3. Id(a) \in Nat
        BY <1>6, <3>1
    <3> QED BY <3>2, <3>3
  <2>4. At(a) \in Waiting /\ Waiting' = Waiting \ {At(a)}
    <3>1. \A j \in 1..ETH_RXBUFNB : At(j) \in Waiting <=> j \in 1..a /\ Last(j)
        BY <1>1, <1>2, <1>3, WaitingView
    <3>2. a \in 1..ETH_RXBUFNB /\ a \in 1..a
        BY <1>6
    <3>3. At(a) \in Waiting
        BY <1>16, <3>1, <3>2
    <3>4. \A d \in Desc : d \in Waiting' <=> d \in Waiting /\ rxBuff[d][1] # Id(a)
        BY <1>5, <2>2 DEF Waiting
    <3>5. ASSUME NEW d \in Waiting, d # At(a) PROVE rxBuff[d][1] # Id(a)
      <4>1. PICK j \in 1..ETH_RXBUFNB : d = At(j)
          BY <1>1, <3>5, AtAll, Types DEF Waiting
      <4>2. j \in 1..(a - 1)
          BY <1>6, <3>1, <3>5, <4>1
      <4> QED BY <2>3, <4>1, <4>2 DEF Id
    <3>6. Waiting \subseteq Desc /\ Waiting' \subseteq Desc
        BY DEF Waiting
    <3>7. rxBuff[At(a)][1] = Id(a)
        BY DEF Id
    <3> QED BY <3>3, <3>4, <3>5, <3>6, <3>7
  <2>5. ScanInv(c)'
    <3>1. Held' \in 0..c
        BY <1>6, <1>11
    <3>2. DMARxDescToGet' = At(Ahead(c))'
        BY <1>4, <1>7, <1>11
    <3>3. \A j \in 1..Ahead(c)' : Id(j)' \notin Taken'
        BY <1>7, <1>11, <1>13, <2>2, <2>3
    <3> QED BY <1>14, <2>1, <3>1, <3>2, <3>3 DEF ScanInv
  <2>6. HeldInv(c)'
    <3>1. Ahead(c)' + 1 = a /\ Seg_Count' > 0
        BY <1>4, <1>6, <1>11
    <3>2. rxBuff'[frame'][1] = Id(a)
        BY <1>5, <2>1 DEF Id
    <3>3. \A j \in a..c : Id(j)' = rxBuff'[frame'][1]
        BY <1>6, <1>7, <3>2
    <3>4. frame' = At(Ahead(c) + 1)' /\ Last(Ahead(c) + 1)'
        BY <1>7, <1>16, <2>1, <3>1
    <3> QED BY <1>4, <1>7, <2>1, <3>1, <3>3, <3>4 DEF HeldInv
  <2>7. ArrivedInv'
    <3>1. Len(handled) < Len(arrived) /\ Id(a) = arrived[Len(handled) + 1]
        BY <1>2, <1>3, <1>4, <1>16, FoundIsNext
    <3>2. rxBuff'[frame'][1] = Id(a)
        BY <1>5, <2>1 DEF Id
    <3> QED BY <1>1, <1>4, <1>5, <3>1, <3>2 DEF ArrivedInv, Busy
  <2>8. FramesInOrder'
    <3>1. {rxBuff[d][1] : d \in Waiting} = {arrived[k] : k \in 1..Len(arrived)} \ Taken
        BY <1>1 DEF FramesInOrder
    <3>2. {rxBuff[d][1] : d \in Waiting'} = {rxBuff[d][1] : d \in Waiting} \ {Id(a)}
      <4>1. \A d \in Waiting' : d \in Waiting /\ rxBuff[d][1] # Id(a)
          BY <1>5, <2>2 DEF Waiting
      <4>2. \A d \in Waiting : rxBuff[d][1] # Id(a) => d \in Waiting'
          BY <2>4 DEF Id
      <4> QED BY <4>1, <4>2
    <3>3. {rxBuff[d][1] : d \in Waiting'} = {arrived[k] : k \in 1..Len(arrived)} \ Taken'
        BY <2>2, <3>1, <3>2
    <3> QED BY <1>1, <1>4, <1>5, <3>3, ZenonT(30) DEF FramesInOrder
  <2>9. Signal!Read
    <3>1. Cardinality(Waiting) > 0 /\ Cardinality(Waiting)' = Cardinality(Waiting) - 1
        BY <2>4, WaitingLess
    <3> QED BY <1>4, <1>5, <2>1, <3>1 DEF Signal!Read
  <2> QED BY <1>8, <1>9, <1>12, <2>5, <2>6, <2>7, <2>8, <2>9, StepKeeps DEF Task, Signal!Next
<1> QED BY <1>15, <1>16

\* low_level_input starts at the first segment of the frame it was given.
LEMMA CopyView ==
    ASSUME IInv, NEW c \in 0..ETH_RXBUFNB, RingInv(c), ScanInv(c), HeldInv(c), pc = "copy",
           NEW a, a = Ahead(c)
    PROVE  /\ a \in 0..c /\ Seg_Count = c - a /\ Seg_Count \in 1..MaxSegs /\ c \in 1..c
           /\ frame = At(a + 1) /\ frame \in Desc /\ frame # NULL
           /\ (IF Seg_Count > 1 THEN FS_Rx_Desc ELSE frame) = At(c) /\ At(c) \in Desc
           /\ rxBuff[frame][1] \in 1..MaxFrames
           /\ \A k \in 1..Seg_Count : rxBuff[At(c - k + 1)] = <<rxBuff[frame][1], k>>
<1>1. TypeOK /\ PacketInv
    BY DEF IInv
<1>2. /\ Seg_Count > 0 /\ frame = At(a + 1) /\ FS_Rx_Desc = At(c)
      /\ \A j \in (a + 1)..c : Id(j) = rxBuff[frame][1]
    BY DEF HeldInv
<1>3. a \in 0..c /\ Seg_Count = c - a /\ Seg_Count \in Nat /\ Seg_Count \in 1..MaxSegs
  <2>1. a \in 0..c /\ Seg_Count \in 0..MaxSegs
      BY <1>1, WaitingView DEF TypeOK
  <2> QED BY <1>2, <2>1 DEF Ahead, Held
<1>4. c \in 1..c /\ c \in 0..ETH_RXBUFNB /\ a + 1 \in 0..ETH_RXBUFNB /\ a + 1 \in 1..c
    BY <1>2, <1>3
<1>5. frame \in Desc /\ At(c) \in Desc
    BY <1>1, <1>2, <1>4, AtDesc, Types
<1>6. frame # NULL
    BY <1>5 DEF Desc, NULL
<1>7. (IF Seg_Count > 1 THEN FS_Rx_Desc ELSE frame) = At(c)
  <2>1. CASE Seg_Count > 1
      BY <1>2, <2>1
  <2>2. CASE ~ (Seg_Count > 1)
    <3>1. a + 1 = c
        BY <1>2, <1>3, <2>2
    <3> QED BY <1>2, <2>2, <3>1
  <2> QED BY <2>1, <2>2
<1>8. \A j \in 1..c : rxBuff[At(j)] \in Segment
    BY DEF RingInv, SegmentInv
<1>9. rxBuff[frame][1] \in 1..MaxFrames
  <2>1. rxBuff[frame] \in Segment
      BY <1>2, <1>4, <1>8
  <2> QED BY <2>1 DEF Segment
<1>10. Number(c) = 1
    BY <1>4 DEF ScanInv
<1>11. ASSUME NEW k \in 1..Seg_Count
       PROVE  rxBuff[At(c - k + 1)] = <<rxBuff[frame][1], k>>
  <2>1. PICK j \in (a + 1)..c : j = c - k + 1
      BY <1>3, <1>4
  <2>2. j \in 1..c /\ j <= c
      BY <1>3, <2>1
  <2>3. Id(j) = rxBuff[frame][1] /\ Id(c) = rxBuff[frame][1]
    <3>1. c \in (a + 1)..c
        BY <1>4
    <3> QED BY <1>2, <3>1
  <2>4. Number(j) = k
    <3>1. CASE j = c
        BY <1>10, <2>1, <3>1
    <3>2. CASE j # c
      <4>1. j < c
          BY <2>2, <3>2
      <4>2. Number(j) = Number(c) + (c - j)
          BY <1>4, <2>2, <2>3, <4>1 DEF RingInv, OrderInv
      <4> QED BY <1>10, <2>1, <4>2
    <3> QED BY <3>1, <3>2
  <2>5. rxBuff[At(j)] = <<Id(j), Number(j)>>
      BY <1>8, <2>2 DEF Id, Number, Segment
  <2> QED BY <2>1, <2>3, <2>4, <2>5
<1> QED BY <1>2, <1>3, <1>4, <1>5, <1>6, <1>7, <1>9, <1>11

\* What low_level_input copies are the frame's own segments, up to the end of
\* Rx_Buff.
LEMMA LinearGenuine ==
    ASSUME IInv, NEW c \in 0..ETH_RXBUFNB, RingInv(c), ScanInv(c), HeldInv(c), pc = "copy",
           NEW q, q = Linear(At(c), Seg_Count)
    PROVE  q \in Seq(Segment \cup {Beyond}) /\ Copied(q, rxBuff[frame][1])
<1>1. PICK a : a = Ahead(c)
    OBVIOUS
<1>2. /\ a \in 0..c /\ Seg_Count = c - a /\ Seg_Count \in 1..MaxSegs /\ c \in 1..c
      /\ rxBuff[frame][1] \in 1..MaxFrames /\ At(c) \in Desc
      /\ \A k \in 1..Seg_Count : rxBuff[At(c - k + 1)] = <<rxBuff[frame][1], k>>
    BY <1>1, CopyView
<1>3. dma \in Desc /\ c \in 1..ETH_RXBUFNB
    BY <1>2, Types DEF IInv
<1>4. ASSUME NEW k \in 1..Seg_Count
      PROVE  (IF At(c) + k - 1 \in Desc THEN rxBuff[At(c) + k - 1] ELSE Beyond)
               \in {<<rxBuff[frame][1], k>>, IF k > 1 THEN Beyond ELSE <<rxBuff[frame][1], k>>}
  <2>1. CASE At(c) + k - 1 \in Desc
    <3>1. k \in 1..c
        BY <1>2
    <3>2. At(c) + k - 1 = At(c - k + 1)
        BY <1>3, <2>1, <3>1, AtLinear
    <3> QED BY <1>2, <2>1, <3>2
  <2>2. CASE At(c) + k - 1 \notin Desc
    <3>1. k > 1
        BY <1>2, <2>2 DEF Desc
    <3> QED BY <2>2, <3>1
  <2> QED BY <2>1, <2>2
<1>5. q = [k \in 1..Seg_Count |-> IF At(c) + k - 1 \in Desc THEN rxBuff[At(c) + k - 1] ELSE Beyond]
    BY DEF Linear
<1>6. \A k \in 1..Seg_Count : q[k] = <<rxBuff[frame][1], k>> \/ (k > 1 /\ q[k] = Beyond)
    BY <1>4, <1>5
<1>7. \A k \in 1..Seg_Count : <<rxBuff[frame][1], k>> \in Segment
    BY <1>2 DEF Segment
<1>8. q \in [1..Seg_Count -> Segment \cup {Beyond}]
    BY <1>5, <1>6, <1>7
<1>9. Seg_Count \in Nat /\ Seg_Count <= MaxSegs
    BY <1>2
<1>10. Len(q) = Seg_Count
    BY <1>8, <1>9
<1> QED BY <1>6, <1>8, <1>9, <1>10 DEF Copied

LEMMA CopyKeeps ==
    ASSUME IInv, Copy
    PROVE  IInv' /\ [Signal!Next]_(Signal!vars)
<1>1. TypeOK /\ ArrivedInv /\ FramesInOrder /\ PacketInv /\ PacketGenuine
    BY DEF IInv
<1>2. PICK c \in 0..ETH_RXBUFNB : RingInv(c) /\ ScanInv(c) /\ HeldInv(c)
    BY DEF IInv
<1>3. PICK a : a = Ahead(c)
    OBVIOUS
<1>4. /\ pc = "copy" /\ pc' = "release" /\ i' = 0
      /\ handled' = Append(handled, rxBuff[frame][1])
      /\ UNCHANGED <<device, signal, driver, scan, frame, passed>>
    BY DEF Copy
<1>5. UNCHANGED <<status, rxBuff, dma, incoming, rbus, arrived, flagR, isr, sem,
                  DMARxDescToGet, Seg_Count, FS_Rx_Desc, scan, frame, passed>>
    BY <1>4 DEF device, signal, driver
<1>6. /\ a \in 0..c /\ Seg_Count = c - a /\ Seg_Count \in 1..MaxSegs /\ c \in 1..c
      /\ frame = At(a + 1) /\ frame \in Desc /\ frame # NULL
      /\ (IF Seg_Count > 1 THEN FS_Rx_Desc ELSE frame) = At(c) /\ At(c) \in Desc
      /\ rxBuff[frame][1] \in 1..MaxFrames
    BY <1>2, <1>3, <1>4, CopyView
<1> DEFINE F == rxBuff[frame][1]
<1>7. next' = At(c) /\ p' \in {NoPacket, Linear(At(c), Seg_Count)}
    BY <1>6 DEF Copy
<1>8. p' \in Seq(Segment \cup {Beyond}) /\ Copied(p', F)
  <2>1. CASE p' = NoPacket
      BY <2>1 DEF NoPacket, Copied
  <2>2. CASE p' = Linear(At(c), Seg_Count)
      BY <1>2, <1>4, <2>2, LinearGenuine
  <2> QED BY <1>7, <2>1, <2>2
<1>9. /\ Len(handled) \in Nat /\ handled' \in Seq(1..MaxFrames) /\ Len(handled') = Len(handled) + 1
      /\ handled'[Len(handled')] = F
      /\ \A k \in 1..Len(handled) : handled'[k] = handled[k]
  <2>1. handled \in Seq(1..MaxFrames) /\ Len(handled) \in Nat
      BY <1>1, Types
  <2> QED BY <1>4, <1>6, <2>1
<1>10. TypeOK'
  <2>1. next' \in Desc /\ i' \in 0..MaxSegs /\ pc' = "release"
      BY <1>4, <1>6, <1>7
  <2> QED BY <1>1, <1>5, <1>8, <1>9, <2>1 DEF TypeOK
<1>11. Taken' = Taken
  <2>1. Taken = {handled[k] : k \in 1..Len(handled)} \cup {F}
      BY <1>4, <1>6 DEF Taken
  <2>2. Taken' = {handled'[k] : k \in 1..Len(handled')}
      BY <1>4 DEF Taken
  <2>3. \A k \in 1..Len(handled') : k \in 1..Len(handled) \/ k = Len(handled')
      BY <1>9
  <2>4. Len(handled') \in 1..Len(handled') /\ \A k \in 1..Len(handled) : k \in 1..Len(handled')
      BY <1>9
  <2> QED BY <1>9, <2>1, <2>2, <2>3, <2>4, SMTT(30)
<1>12. Waiting' = Waiting
    BY <1>5, <1>11 DEF Waiting
<1>13. Len(handled) < Len(arrived) /\ F = arrived[Len(handled) + 1]
    BY <1>1, <1>4 DEF ArrivedInv
<1>14. ArrivedInv'
  <2>1. Len(handled') <= Len(arrived)
      BY <1>1, <1>9, <1>13, Types
  <2> QED BY <1>1, <1>4, <1>5, <2>1 DEF ArrivedInv, Busy
<1>15. FramesInOrder'
  <2>1. handled = SubSeq(arrived, 1, Len(handled))
      BY <1>1 DEF FramesInOrder
  <2>2. arrived \in Seq(1..MaxFrames) /\ Len(arrived) \in Nat /\ Len(handled') \in Nat
        /\ Len(handled') <= Len(arrived)
      BY <1>1, <1>9, <1>13, Types
  <2>3. SubSeq(arrived, 1, Len(handled')) = [k \in 1..Len(handled') |-> arrived[k]]
      BY <2>2, PrefixIs
  <2>4. \A k \in 1..Len(handled) : handled[k] = arrived[k]
      BY <1>1, TakenArrived
  <2>5. \A k \in 1..Len(handled') : handled'[k] = arrived[k]
      BY <1>9, <1>13, <2>4
  <2>6. handled' = [k \in 1..Len(handled') |-> handled'[k]]
      BY <1>9
  <2>7. handled' = SubSeq(arrived, 1, Len(handled'))
      BY <2>3, <2>5, <2>6
  <2> QED BY <1>1, <1>5, <1>11, <1>12, <2>7, ZenonT(30) DEF FramesInOrder
<1>16. PacketInv'
    BY <1>1, <1>4, <1>5, <1>8, <1>9 DEF PacketInv
<1>17. PacketGenuine'
  <2>1. Len(passed) = Len(handled)
      BY <1>1, <1>4 DEF PacketInv
  <2> QED BY <1>1, <1>5, <1>9, <2>1 DEF PacketGenuine
<1>18. \A j : /\ At(j)' = At(j) /\ Last(j)' = Last(j)
              /\ Id(j)' = Id(j) /\ Number(j)' = Number(j)
    BY <1>5 DEF At, Last, Id, Number
<1>19. Held' = Held /\ Ahead(c)' = a
  <2>1. Held = Seg_Count /\ Held' = Seg_Count
      BY <1>4, <1>5, <1>6 DEF Held
  <2> QED BY <1>3, <2>1 DEF Ahead
<1>20. ScanInv(c)'
  <2>1. Held' \in 0..c /\ DMARxDescToGet' = At(Ahead(c))'
      BY <1>2, <1>3, <1>5, <1>18, <1>19 DEF ScanInv
  <2>2. \A j \in 1..Ahead(c)' : Id(j)' \notin Taken'
      BY <1>2, <1>3, <1>11, <1>18, <1>19 DEF ScanInv
  <2>3. Number(c)' = 1
      BY <1>2, <1>4, <1>6, <1>18 DEF ScanInv
  <2> QED BY <1>4, <2>1, <2>2, <2>3 DEF ScanInv
<1>21. HeldInv(c)'
  <2>1. Last(a + 1) /\ \A j \in (a + 1)..c : Id(j) = F
      BY <1>2, <1>3, <1>4 DEF HeldInv
  <2>2. Last(Ahead(c) + 1)' /\ \A j \in (Ahead(c)' + 1)..c : Id(j)' = handled'[Len(handled')]
      BY <1>9, <1>18, <1>19, <2>1
  <2>3. i' <= Seg_Count' /\ next' = At(c)'
      BY <1>4, <1>5, <1>6, <1>7, <1>18
  <2> QED BY <1>4, <2>2, <2>3 DEF HeldInv
<1>22. RingInv(c)'
    BY <1>2, <1>5, RingKept
<1>23. UNCHANGED Signal!vars
    BY <1>4, <1>5, <1>12 DEF Signal!vars
<1> QED BY <1>10, <1>14, <1>15, <1>16, <1>17, <1>20, <1>21, <1>22, <1>23, StepKeeps DEF Task

\* One descriptor of the frame goes back to the DMA.
LEMMA ReleaseOne ==
    ASSUME IInv, Release, i < Seg_Count
    PROVE  IInv' /\ [Signal!Next]_(Signal!vars)
<1>1. TypeOK /\ ArrivedInv /\ FramesInOrder /\ PacketInv /\ PacketGenuine
    BY DEF IInv
<1>2. PICK c \in 0..ETH_RXBUFNB : RingInv(c) /\ ScanInv(c) /\ HeldInv(c)
    BY DEF IInv
<1>3. /\ pc = "release" /\ pc' = pc /\ Seg_Count' = Seg_Count
      /\ status' = [status EXCEPT ![next] = OWN]
      /\ next' = Buffer2NextDescAddr(next) /\ i' = i + 1
      /\ UNCHANGED <<rxBuff, dma, incoming, rbus, arrived, flagR, isr, sem, DMARxDescToGet,
                     FS_Rx_Desc, scan, frame, p, handled, passed>>
    BY DEF Release, signal
<1>4. PICK a \in 0..c : a = Ahead(c)
    BY <1>1, <1>2, WaitingView
<1>5. /\ next = At(c) /\ Last(a + 1)
      /\ \A j \in (a + 1)..c : Id(j) = handled[Len(handled)]
    BY <1>2, <1>3, <1>4 DEF HeldInv
<1>6. /\ i \in Nat /\ Seg_Count \in 0..MaxSegs /\ c - a = Seg_Count - i
      /\ a + 1 \in 1..c /\ c \in (a + 1)..c /\ c \in 1..ETH_RXBUFNB
  <2>1. i \in Nat /\ Seg_Count \in 0..MaxSegs
      BY <1>1 DEF TypeOK
  <2>2. a = c - (Seg_Count - i)
      BY <1>3, <1>4 DEF Ahead, Held
  <2> QED BY <1>4, <2>1, <2>2
<1> DEFINE b == c - 1
<1>7. b \in 0..ETH_RXBUFNB /\ a \in 0..b
    BY <1>6
<1>8. /\ \A j : At(j)' = At(j) /\ Id(j)' = Id(j) /\ Number(j)' = Number(j)
      /\ \A j \in 1..ETH_RXBUFNB : j # c => Last(j)' = Last(j)
    BY <1>1, <1>3, <1>5, <1>6, ReleaseView
<1>9. Taken' = Taken
    BY <1>3 DEF Taken
<1>10. Id(c) \in Taken
  <2>1. Len(handled) = Len(passed) + 1 /\ Len(passed) \in Nat
      BY <1>1, <1>3 DEF PacketInv, TypeOK
  <2>2. Len(handled) \in 1..Len(handled)
      BY <2>1
  <2>3. handled[Len(handled)] \in Taken
      BY <2>2 DEF Taken
  <2> QED BY <1>5, <1>6, <2>3
<1>11. Open => c > 1
  <2> SUFFICES ASSUME Open, c = 1 PROVE FALSE
      BY <1>6
  <2>1. Id(1) = incoming.id /\ Busy
      BY <1>2 DEF RingInv, OpenInv, Open
  <2> QED BY <1>1, <1>10, <2>1, TakenArrived
<1>12. RingInv(b)'
    BY <1>1, <1>2, <1>3, <1>5, <1>6, <1>11, RingReleased
<1>13. Waiting' = Waiting
  <2>1. At(c) \in Desc /\ status \in [Desc -> Status]
      BY <1>1, <1>6, AtDesc, Types DEF TypeOK
  <2>2. \A d \in Desc : d # At(c) => status'[d] = status[d]
      BY <1>3, <1>5, <2>1
  <2>3. status'[At(c)].own
      BY <1>3, <1>5, <2>1 DEF OWN
  <2>4. At(c) \notin Waiting /\ At(c) \notin Waiting'
      BY <1>10, <2>3 DEF Waiting, Id
  <2>5. \A d \in Desc : d # At(c) => (d \in Waiting' <=> d \in Waiting)
      BY <1>3, <1>9, <2>2 DEF Waiting
  <2>6. Waiting \subseteq Desc /\ Waiting' \subseteq Desc
      BY DEF Waiting
  <2> QED BY <2>4, <2>5, <2>6
<1>14. next' = At(b) /\ next' \in Desc
  <2>1. dma \in Desc /\ At(c) \in Desc
      BY <1>1, <1>6, AtDesc, Types
  <2> QED BY <1>3, <1>5, <1>6, <2>1, AtNext, ChainNext
<1>15. TypeOK'
  <2>1. status' \in [Desc -> Status]
    <3>1. OWN \in Status
        BY DEF OWN, Status
    <3> QED BY <1>1, <1>3, <3>1 DEF TypeOK
  <2>2. i' \in 0..MaxSegs
      BY <1>3, <1>6
  <2> QED BY <1>1, <1>3, <1>14, <2>1, <2>2 DEF TypeOK
<1>16. Held' = Seg_Count - (i + 1) /\ Ahead(b)' = a
  <2>1. Held' = Seg_Count - (i + 1)
      BY <1>3 DEF Held
  <2> QED BY <1>6, <2>1 DEF Ahead
<1>17. b >= 1 => Number(b) = IF i + 1 < Seg_Count THEN i + 2 ELSE 1
  <2> SUFFICES ASSUME b >= 1 PROVE Number(b) = IF i + 1 < Seg_Count THEN i + 2 ELSE 1
      OBVIOUS
  <2>1. PICK j \in 1..c : j = b
      BY <1>6
  <2>2. CASE i + 1 < Seg_Count
    <3>1. j \in (a + 1)..c /\ j < c /\ c - j = 1 /\ c \in 1..c
        BY <1>6, <2>1, <2>2
    <3>2. Id(j) = Id(c)
        BY <1>5, <1>6, <3>1
    <3>3. Number(j) = Number(c) + (c - j)
        BY <1>2, <3>1, <3>2 DEF RingInv, OrderInv
    <3>4. Number(c) = i + 1
        BY <1>2, <1>3, <3>1 DEF ScanInv
    <3>5. Number(j) = i + 2
        BY <1>6, <3>1, <3>3, <3>4
    <3> QED BY <2>1, <2>2, <3>5
  <2>3. CASE ~ (i + 1 < Seg_Count)
    <3>1. a + 1 = c /\ c \in 2..c
        BY <1>6, <2>3
    <3>2. Number(c - 1) = 1
        BY <1>2, <1>5, <3>1 DEF RingInv, JoinInv
    <3> QED BY <2>3, <3>2
  <2> QED BY <2>2, <2>3
<1> HIDE DEF b
<1>18. ScanInv(b)'
  <2>1. Held' \in 0..b
      BY <1>6, <1>7, <1>16 DEF b
  <2>2. DMARxDescToGet' = At(Ahead(b))'
      BY <1>2, <1>3, <1>4, <1>8, <1>16 DEF ScanInv
  <2>3. \A j \in 1..Ahead(b)' : Id(j)' \notin Taken'
      BY <1>2, <1>4, <1>8, <1>9, <1>16 DEF ScanInv
  <2>4. b >= 1 => Number(b)' = IF pc' = "release" /\ i' < Seg_Count' THEN i' + 1 ELSE 1
    <3>1. i' + 1 = i + 2
        BY <1>3, <1>6
    <3> QED BY <1>3, <1>8, <1>17, <3>1
  <2> QED BY <2>1, <2>2, <2>3, <2>4 DEF ScanInv
<1>19. HeldInv(b)'
  <2>1. next' = At(b)' /\ i' <= Seg_Count'
      BY <1>3, <1>6, <1>8, <1>14
  <2>2. i' < Seg_Count' => Last(Ahead(b) + 1)'
    <3> SUFFICES ASSUME i + 1 < Seg_Count PROVE Last(a + 1)'
        BY <1>3, <1>16
    <3>1. a + 1 # c /\ a + 1 \in 1..ETH_RXBUFNB
        BY <1>6
    <3> QED BY <1>5, <1>8, <3>1
  <2>3. ASSUME NEW j \in (Ahead(b)' + 1)..b PROVE Id(j)' = handled'[Len(handled')]
    <3>1. j \in (a + 1)..c
        BY <1>6, <1>16, <2>3 DEF b
    <3> QED BY <1>3, <1>5, <1>8, <3>1
  <2> QED BY <1>3, <2>1, <2>2, <2>3 DEF HeldInv
<1>20. ArrivedInv' /\ PacketInv' /\ PacketGenuine'
    BY <1>1, <1>3 DEF ArrivedInv, PacketInv, PacketGenuine, Busy
<1>21. FramesInOrder'
    BY <1>1, <1>3, <1>9, <1>13 DEF FramesInOrder
<1>22. UNCHANGED Signal!vars
    BY <1>3, <1>13 DEF Signal!vars
<1>23. Task(b)'
    BY <1>12, <1>18, <1>19 DEF Task
<1> QED BY <1>7, <1>15, <1>20, <1>21, <1>22, <1>23, StepKeeps

\* All of the frame's descriptors are back; Seg_Count is cleared.
LEMMA ReleaseDone ==
    ASSUME IInv, Release, ~ (i < Seg_Count)
    PROVE  IInv' /\ [Signal!Next]_(Signal!vars)
<1>1. TypeOK /\ ArrivedInv /\ FramesInOrder /\ PacketInv /\ PacketGenuine
    BY DEF IInv
<1>2. PICK c \in 0..ETH_RXBUFNB : RingInv(c) /\ ScanInv(c) /\ HeldInv(c)
    BY DEF IInv
<1>3. /\ pc = "release" /\ pc' = "resume" /\ Seg_Count' = 0
      /\ UNCHANGED <<status, next, i, rxBuff, dma, incoming, rbus, arrived, flagR, isr, sem,
                     DMARxDescToGet, FS_Rx_Desc, scan, frame, p, handled, passed>>
    BY DEF Release, signal
<1>4. Held = 0 /\ Held' = 0
  <2>1. i <= Seg_Count
      BY <1>2, <1>3 DEF HeldInv
  <2>2. Seg_Count - i = 0
      BY <1>1, <2>1, Types
  <2> QED BY <1>3, <2>2 DEF Held
<1>5. Ahead(c)' = Ahead(c)
    BY <1>4 DEF Ahead
<1>6. \A j : At(j)' = At(j) /\ Id(j)' = Id(j) /\ Number(j)' = Number(j)
    BY <1>3 DEF At, Id, Number
<1>7. Taken' = Taken
    BY <1>3 DEF Taken
<1>8. Waiting' = Waiting
    BY <1>3, <1>7 DEF Waiting
<1>9. RingInv(c)'
    BY <1>2, <1>3, RingKept
<1>10. ScanInv(c)'
  <2>1. Held' \in 0..c /\ DMARxDescToGet' = At(Ahead(c))'
      BY <1>2, <1>3, <1>4, <1>5, <1>6 DEF ScanInv
  <2>2. \A j \in 1..Ahead(c)' : Id(j)' \notin Taken'
      BY <1>2, <1>5, <1>6, <1>7 DEF ScanInv
  <2>3. c >= 1 => Number(c)' = 1
      BY <1>2, <1>6 DEF ScanInv
  <2> QED BY <1>3, <2>1, <2>2, <2>3 DEF ScanInv
<1>11. HeldInv(c)'
    BY <1>3 DEF HeldInv
<1>12. TypeOK'
    BY <1>1, <1>3 DEF TypeOK
<1>13. ArrivedInv' /\ PacketInv' /\ PacketGenuine'
    BY <1>1, <1>3 DEF ArrivedInv, PacketInv, PacketGenuine, Busy
<1>14. FramesInOrder'
    BY <1>1, <1>3, <1>7, <1>8, ZenonT(30) DEF FramesInOrder
<1>15. UNCHANGED Signal!vars
    BY <1>3, <1>8 DEF Signal!vars
<1> QED BY <1>9, <1>10, <1>11, <1>12, <1>13, <1>14, <1>15, StepKeeps DEF Task

(***************************************************************************)
(* The theorems                                                            *)
(***************************************************************************)
LEMMA InitInv ==
    ASSUME Init
    PROVE  IInv /\ Signal!Init
<1>1. TypeOK
  <2>1. OWN \in Status
      BY DEF OWN, Status
  <2>2. 0 \in Desc
      BY DEF Desc
  <2>3. rbus \in BOOLEAN /\ flagR \in BOOLEAN
      BY Zenon DEF Init
  <2>4. incoming \in [id : 0..MaxFrames, done : 0..MaxSegs, size : 0..MaxSegs]
      BY DEF Init
  <2> QED BY <2>1, <2>2, <2>3, <2>4 DEF Init, TypeOK, NoPacket
<1>2. Waiting = {}
    BY DEF Init, Waiting, OWN
<1>3. Cardinality(Waiting) = 0
    BY <1>2, FS_EmptySet
<1>4. ~flagR /\ sem = 0 /\ isr = "idle" /\ pc = "take" /\ ~Busy
    BY DEF Init, Busy
<1>5. Signal!Init
  <2>1. flagR = FALSE /\ (pc = "scan") = FALSE
      BY <1>4, Zenon DEF Init
  <2> QED BY <1>3, <1>4, <2>1 DEF Signal!Init
<1>6. Signal!NoPhantomFrame
  <2>1. Signal!Claims = 0
    <3>1. (IF flagR /\ isr = "idle" THEN 1 ELSE 0) = 0
        BY <1>4, Zenon
    <3> QED BY <1>4, <3>1, ClaimsAre
  <2> QED BY <1>3, <2>1 DEF Signal!NoPhantomFrame
<1>7. ArrivedInv /\ PacketInv /\ PacketGenuine
    BY <1>4 DEF Init, ArrivedInv, PacketInv, PacketGenuine
<1>8. FramesInOrder
  <2>1. handled = <<>> /\ arrived = <<>>
      BY DEF Init
  <2>2. handled = SubSeq(arrived, 1, Len(handled))
      BY <2>1
  <2>3. {rxBuff[d][1] : d \in Waiting} = {} /\ {arrived[k] : k \in 1..Len(arrived)} = {}
      BY <1>2, <2>1
  <2> QED BY <2>2, <2>3 DEF FramesInOrder
<1>9. RingInv(0)
  <2>1. ClosedInv(0)
    <3> SUFFICES ASSUME NEW j \in 1..ETH_RXBUFNB PROVE Own(j)
        BY DEF ClosedInv
    <3>1. At(j) \in Desc
        BY <1>1, AtDesc, Types
    <3> QED BY <3>1 DEF Init, Own, OWN
  <2>2. SegmentInv(0) /\ OrderInv(0) /\ JoinInv(0)
      BY DEF SegmentInv, OrderInv, JoinInv
  <2>3. OpenInv(0)
      BY <1>4 DEF Init, OpenInv, Open
  <2> QED BY <2>1, <2>2, <2>3 DEF RingInv
<1>10. ScanInv(0) /\ HeldInv(0)
  <2>1. Held = 0 /\ Ahead(0) = 0
      BY <1>4 DEF Held, Ahead
  <2>2. At(0) = 0
      BY DEF Init, At
  <2> QED BY <2>1, <2>2 DEF Init, ScanInv, HeldInv
<1>11. 0 \in 0..ETH_RXBUFNB
    OBVIOUS
<1> QED BY <1>1, <1>5, <1>6, <1>7, <1>8, <1>9, <1>10, <1>11 DEF IInv

\* One step of the DMA, the interrupt or the task.
LEMMA StepInv ==
    ASSUME IInv, [Next]_vars
    PROVE  IInv' /\ [Signal!Next]_(Signal!vars)
<1>1. CASE FrameStarts \/ FrameDropped
    BY <1>1, FrameKeeps
<1>2. CASE SegmentStored
    BY <1>2, StoredKeeps
<1>3. CASE IrqGive \/ IrqClear
    BY <1>3, InterruptKeeps
<1>4. CASE Take \/ Resume \/ Input
    BY <1>4, OnwardKeeps
<1>5. CASE Scan
    BY <1>5, ScanKeeps
<1>6. CASE Copy
    BY <1>6, CopyKeeps
<1>7. CASE Release
    BY <1>7, ReleaseOne, ReleaseDone
<1>8. CASE UNCHANGED vars
  <2>1. /\ UNCHANGED <<status, rxBuff, dma, arrived, handled, driver, incoming, rbus>>
        /\ UNCHANGED <<flagR, isr, sem, pc, scan, frame, next, i, p, passed>>
      BY <1>8 DEF vars, device, signal, task
  <2>2. /\ TypeOK /\ ArrivedInv /\ FramesInOrder /\ PacketInv /\ PacketGenuine
      BY DEF IInv
  <2>3. PICK c \in 0..ETH_RXBUFNB : RingInv(c) /\ ScanInv(c) /\ HeldInv(c)
      BY DEF IInv
  <2>4. Onward
      BY <2>1 DEF Onward
  <2>5. RingInv(c)' /\ ScanInv(c)' /\ HeldInv(c)'
      BY <2>1, <2>3, <2>4, RingKept, QuietTask
  <2>6. FramesInOrder' /\ Waiting' = Waiting
      BY <2>1, <2>2, <2>4, QuietOrder, QuietSets
  <2>7. TypeOK'
      BY <2>1, <2>2 DEF TypeOK, driver
  <2>8. ArrivedInv' /\ PacketInv' /\ PacketGenuine'
      BY <2>1, <2>2 DEF ArrivedInv, PacketInv, PacketGenuine, Busy
  <2>9. UNCHANGED Signal!vars
      BY <2>1, <2>6 DEF Signal!vars
  <2> QED BY <2>5, <2>6, <2>7, <2>8, <2>9, StepKeeps DEF Task
<1> QED BY <1>1, <1>2, <1>3, <1>4, <1>5, <1>6, <1>7, <1>8 DEF Next, ethernetif_input

\* The invariant of the ring, the task and the signal holds in every state of
\* the driver.
THEOREM RingInvariance == Spec => []IInv
<1>1. Init => IInv
    BY InitInv
<1>2. IInv /\ [Next]_vars => IInv'
    BY StepInv
<1> QED BY <1>1, <1>2, PTL DEF Spec

\* low_level_input and the DMA keep to the ring, whatever its size and the
\* frames': Seg_Count never exceeds the segments of a frame, the scan never the
\* descriptors of the ring.
THEOREM RxTypes == Spec => []TypeOK
<1>1. IInv => TypeOK
    BY DEF IInv
<1> QED BY <1>1, RingInvariance, PTL

\* ETH_Get_Received_Frame_interrupt never hands a NULL descriptor to
\* low_level_input, which follows it unchecked.
THEOREM ScanFindsFrame == Spec => []FrameFound
<1>1. IInv => FrameFound
  <2> SUFFICES ASSUME IInv, pc = "copy" PROVE frame # NULL
      BY DEF FrameFound
  <2>1. PICK c \in 0..ETH_RXBUFNB : RingInv(c) /\ ScanInv(c) /\ HeldInv(c)
      BY DEF IInv
  <2>2. PICK a : a = Ahead(c)
      OBVIOUS
  <2> QED BY <2>1, <2>2, CopyView
<1> QED BY <1>1, RingInvariance, PTL

\* Eth_if takes every frame out of the ring once and in the order in which it
\* came, and the DMA never takes a descriptor of an unread one.
THEOREM FramesOnceInOrder == Spec => []FramesInOrder
<1>1. IInv => FramesInOrder
    BY DEF IInv
<1> QED BY <1>1, RingInvariance, PTL

\* When Eth_if waits again, low_level_input has given every descriptor of the
\* frames it dealt with back to the DMA.
THEOREM AllReturned == Spec => []DescriptorsReturned
<1>1. IInv => DescriptorsReturned
  <2> SUFFICES ASSUME IInv, pc = "take", NEW d \in Desc, ~status[d].own
               PROVE  rxBuff[d][1] \notin Taken
      BY DEF DescriptorsReturned
  <2>1. PICK c \in 0..ETH_RXBUFNB : RingInv(c) /\ ScanInv(c)
      BY DEF IInv
  <2>2. PICK j \in 1..ETH_RXBUFNB : d = At(j)
      BY AtAll, Types DEF IInv
  <2>3. j <= c
      BY <2>1, <2>2 DEF RingInv, ClosedInv, Own
  <2>4. Ahead(c) = c
      BY DEF Ahead, Held
  <2> QED BY <2>1, <2>2, <2>3, <2>4 DEF ScanInv, Id
<1> QED BY <1>1, RingInvariance, PTL

\* While every frame fits into one buffer, as frames of the standard's size do,
\* low_level_input returns NULL or a pbuf filled with the received packet.
THEOREM PacketsFilled ==
    ASSUME MaxSegs = 1
    PROVE  Spec => []PacketFilled
<1>1. IInv => PacketFilled
  <2> SUFFICES ASSUME IInv, NEW k \in 1..Len(passed), NEW n \in 1..Len(passed[k])
               PROVE  passed[k][n] = <<handled[k], n>>
      BY DEF PacketFilled
  <2>1. passed[k] \in Seq(Segment \cup {Beyond})
      BY DEF IInv, TypeOK
  <2>2. Copied(passed[k], handled[k])
      BY DEF IInv, PacketGenuine
  <2>3. Len(passed[k]) \in Nat /\ Len(passed[k]) <= 1
      BY <2>1, <2>2 DEF Copied
  <2>4. ~ (n > 1)
      BY <2>3
  <2> QED BY <2>2, <2>4 DEF Copied
<1> QED BY <1>1, RingInvariance, PTL

\* Every count of s_xSemaphore and a flag not yet seen stand for a frame of their
\* own, for every ring, semaphore limit and number of segments.
THEOREM NoPhantom == Spec => []NoPhantomFrame
<1>1. IInv => NoPhantomFrame
    BY DEF IInv, NoPhantomFrame
<1> QED BY <1>1, RingInvariance, PTL

\* The descriptor ring, ETH_IRQHandler and Eth_if implement RxSignal: a frame
\* completed, the interrupt, a count taken and a frame found are its steps, and
\* every other step of the driver leaves its state alone.
THEOREM SignalImplemented == Spec => SignalSpec
<1>1. Init => Signal!Init
    BY InitInv
<1>2. IInv /\ [Next]_vars => [Signal!Next]_(Signal!vars)
    BY StepInv
<1> QED BY <1>1, <1>2, RingInvariance, PTL DEF Spec, SignalSpec, Signal!Spec

\* What LagGrows says of RxSignal holds of the driver itself: a frame in the
\* ring that ETH_IRQHandler gave no count for is never made good, whatever
\* frames, interrupts and reads follow.
THEOREM BacklogNeverShrinks == Spec => Signal!LagNeverShrinks
<1>1. IInv /\ IInv' /\ [Next]_vars =>
        [Cardinality(Waiting) - Signal!Claims <= Cardinality(Waiting)' - Signal!Claims']_(Signal!vars)
  <2> SUFFICES ASSUME IInv, IInv', [Next]_vars
               PROVE  Cardinality(Waiting) - Signal!Claims <= Cardinality(Waiting)' - Signal!Claims'
      OBVIOUS
  <2>1. TypeOK /\ TypeOK'
      BY DEF IInv
  <2> QED BY <2>1, StepInv, LagKept
<1> QED BY <1>1, RingInvariance, PTL DEF Spec, Signal!LagNeverShrinks

-----------------------------------------------------------------------------
\* While the interrupt runs a count is there, which nobody can take; so a frame
\* that fills the ring, and whose R the interrupt clears, does not need its own.
ServedInv ==
    /\ isr = "clear" => sem > 0
    /\ pc = "release" => Seg_Count > 0
    /\ (\A d \in Desc : ~status[d].own) =>
          \/ sem > 0 \/ (flagR /\ isr = "idle")
          \/ pc \in {"scan", "copy"} \/ (pc = "release" /\ i = 0)

\* A segment that takes the last descriptor is the last of its frame: what does
\* not fit is cut off.
LEMMA FillingEndsFrame ==
    ASSUME TypeOK, SegmentStored, \A d \in Desc : ~status'[d].own
    PROVE  flagR'
<1> DEFINE n == incoming.done + 1
           after == Buffer2NextDescAddr(dma)
           cut == n < incoming.size /\ (~status[after].own \/ after = dma)
           last == n = incoming.size \/ cut
<1>1. status \in [Desc -> Status] /\ dma \in Desc
    BY DEF TypeOK
<1>2. incoming.done \in Int /\ incoming.size \in Int /\ incoming.done < incoming.size
    BY DEF TypeOK, SegmentStored, Busy
<1>3. after \in Desc
    BY <1>1, ChainNext
<1>4. PICK v : status' = [status EXCEPT ![dma] = v]
    BY DEF SegmentStored
<1>5. flagR' = (flagR \/ last)
    BY DEF SegmentStored
<1> HIDE DEF after
<1>6. ~status[after].own \/ after = dma
    BY <1>1, <1>3, <1>4
<1>7. last
    BY <1>2, <1>6
<1> HIDE DEF last
<1> QED BY <1>5, <1>7

LEMMA StepServed ==
    ASSUME IInv, ServedInv, [Next]_vars
    PROVE  ServedInv'
<1>1. TypeOK /\ sem \in Nat
    BY DEF IInv, TypeOK
<1>2. CASE FrameStarts \/ FrameDropped
    BY <1>2 DEF FrameStarts, FrameDropped, signal, driver, task, ServedInv
<1>3. CASE SegmentStored
  <2>1. isr' = isr /\ sem' = sem /\ pc' = pc /\ i' = i /\ Seg_Count' = Seg_Count
      BY <1>3 DEF SegmentStored, driver, task
  <2>2. (\A d \in Desc : ~status'[d].own) => sem' > 0 \/ (flagR' /\ isr' = "idle")
    <3> SUFFICES ASSUME \A d \in Desc : ~status'[d].own
                 PROVE  sem' > 0 \/ (flagR' /\ isr' = "idle")
        OBVIOUS
    <3>1. flagR'
        BY <1>1, <1>3, FillingEndsFrame
    <3>2. isr \in {"idle", "clear"}
        BY <1>1 DEF TypeOK
    <3> QED BY <2>1, <3>1, <3>2 DEF ServedInv
  <2> QED BY <2>1, <2>2 DEF ServedInv
<1>4. CASE IrqGive
  <2>1. sem' > 0
      BY <1>1, <1>4 DEF IrqGive
  <2>2. pc' = pc /\ Seg_Count' = Seg_Count
      BY <1>4 DEF IrqGive, driver, task
  <2> QED BY <2>1, <2>2 DEF ServedInv
<1>5. CASE IrqClear
  <2>1. isr = "clear" /\ isr' = "idle" /\ sem' = sem /\ pc' = pc /\ Seg_Count' = Seg_Count
      BY <1>5 DEF IrqClear, driver, task
  <2> QED BY <2>1 DEF ServedInv
<1>6. CASE Take
  <2>1. isr' = "idle" /\ pc' = "scan"
      BY <1>6 DEF Take, signal
  <2> QED BY <2>1 DEF ServedInv
<1>7. CASE Scan
  <2>1. isr' = "idle" /\ pc' \in {"scan", "copy"}
      BY <1>7 DEF Scan, signal
  <2> QED BY <2>1 DEF ServedInv
<1>8. CASE Copy
  <2>1. isr' = "idle" /\ pc = "copy" /\ pc' = "release" /\ i' = 0 /\ Seg_Count' = Seg_Count
      BY <1>8 DEF Copy, signal, driver
  <2>2. Seg_Count > 0
      BY <2>1 DEF IInv, HeldInv
  <2> QED BY <2>1, <2>2 DEF ServedInv
<1>9. CASE Release
  <2>1. isr' = "idle" /\ isr = "idle" /\ sem' = sem /\ flagR' = flagR
      BY <1>9 DEF Release, signal
  <2>2. CASE i < Seg_Count
    <3>1. /\ status' = [status EXCEPT ![next] = OWN] /\ pc' = "release"
          /\ Seg_Count' = Seg_Count /\ pc = "release"
        BY <1>9, <2>2 DEF Release
    <3>2. next \in Desc
      <4>1. PICK c \in 0..ETH_RXBUFNB : RingInv(c) /\ ScanInv(c) /\ HeldInv(c)
          BY DEF IInv
      <4>2. next = At(c)
          BY <3>1, <4>1 DEF HeldInv
      <4>3. dma \in Desc
          BY <1>1 DEF TypeOK
      <4> QED BY <4>1, <4>2, <4>3, AtDesc
    <3>3. status'[next].own
        BY <1>1, <3>1, <3>2 DEF TypeOK, OWN
    <3> QED BY <2>1, <3>1, <3>2, <3>3 DEF ServedInv
  <2>3. CASE ~(i < Seg_Count)
    <3>1. status' = status /\ pc' = "resume" /\ pc = "release" /\ i' = i
        BY <1>9, <2>3 DEF Release
    <3>2. i # 0
      <4>1. i \in Int /\ Seg_Count \in Int
          BY <1>1 DEF TypeOK
      <4> QED BY <2>3, <3>1, <4>1 DEF ServedInv
    <3> QED BY <2>1, <3>1, <3>2 DEF ServedInv
  <2> QED BY <2>2, <2>3
<1>10. CASE Resume \/ Input
  <2>1. /\ isr' = isr /\ sem' = sem /\ flagR' = flagR /\ status' = status
        /\ pc \in {"resume", "input"} /\ pc' \in {"input", "take"}
      BY <1>10 DEF Resume, Input, signal, device
  <2> QED BY <2>1 DEF ServedInv
<1>11. CASE UNCHANGED vars
    BY <1>11 DEF vars, device, signal, driver, task, ServedInv
<1> QED BY <1>2, <1>3, <1>4, <1>5, <1>6, <1>7, <1>8, <1>9, <1>10, <1>11
        DEF Next, ethernetif_input

\* However many signals are lost, reception does not come to an end: when the
\* ring is full, Eth_if is woken or at work, and gives descriptors back.
THEOREM FullRingServed == Spec => []FullIsServed
<1>1. Init => ServedInv
  <2> SUFFICES ASSUME Init PROVE ServedInv
      OBVIOUS
  <2>1. 0 \in Desc
      BY DEF Desc
  <2>2. status[0].own
      BY <2>1 DEF Init, OWN
  <2> QED BY <2>1, <2>2 DEF Init, ServedInv
<1>2. IInv /\ ServedInv /\ [Next]_vars => ServedInv'
    BY StepServed
<1>3. ServedInv => FullIsServed
    BY DEF ServedInv, FullIsServed
<1> QED BY <1>1, <1>2, <1>3, RingInvariance, PTL DEF Spec

\* With a semaphore that counts to the size of the ring, as on the board, no
\* count is ever refused: when ETH_IRQHandler gives one there is room for it.
THEOREM CountsFit ==
    ASSUME ETH_RXBUFNB <= SEM_MAX
    PROVE  Spec => [](flagR /\ isr = "idle" => sem < SEM_MAX)
<1>1. IInv => (flagR /\ isr = "idle" => sem < SEM_MAX)
  <2> SUFFICES ASSUME IInv, flagR /\ isr = "idle" PROVE sem < SEM_MAX
      OBVIOUS
  <2>1. PICK r \in 0..ETH_RXBUFNB : r = Cardinality(Waiting)
      BY WaitingFinite DEF IInv
  <2>2. PICK w \in Nat : w = IF pc = "scan" THEN 1 ELSE 0
      OBVIOUS
  <2>3. (IF flagR /\ isr = "idle" THEN 1 ELSE 0) = 1
      BY Zenon
  <2>4. Signal!Claims = sem + w + 1
      BY <2>2, <2>3, ClaimsAre, Zenon
  <2>5. Signal!Claims <= r
      BY <2>1 DEF IInv, Signal!NoPhantomFrame
  <2>6. PICK s \in Nat : s = sem
      BY DEF IInv, TypeOK
  <2>7. s + w + 1 <= r
      BY ONLY <2>4, <2>5, <2>6, Zenon
  <2>8. s < SEM_MAX
      BY <2>7
  <2> QED BY <2>6, <2>8
<1> QED BY <1>1, RingInvariance, PTL

==============================================================================
