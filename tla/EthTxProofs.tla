----------------------------- MODULE EthTxProofs -----------------------------
(***************************************************************************)
(* Proofs about EthTx, for rings of any size from two and any set of       *)
(* tasks.                                                                  *)
(***************************************************************************)
EXTENDS EthTx, TLAPS

\* How far d lies behind the descriptor the DMA works on.
Dist(d) == IF d >= tx THEN d - tx ELSE d - tx + ETH_TXBUFNB

\* How many descriptors wait for the DMA; DMATxDescToSet = tx says that the
\* ring is empty or full, and OWN tells which.
Queue == IF own[tx] /\ DMATxDescToSet = tx THEN ETH_TXBUFNB ELSE Dist(DMATxDescToSet)

\* The DMA owns the descriptors from tx up to DMATxDescToSet and no other.
RingInv == \A d \in Desc : own[d] <=> Dist(d) < Queue

\* A task that is past xSemaphoreTake has the semaphore for itself.
Inside(t) == pc[t] \in {"copy", "own", "resume", "give"}
SemInv ==
    /\ \A t \in Tasks : Inside(t) => xTxSemaphore = "taken"
    /\ \A t, u \in Tasks : Inside(t) /\ Inside(u) => t = u

\* Of the ring, the DMA leaves at most the descriptor at which it stops.
OnlyTx == \A d \in Desc : own[d] => d = tx
DmaInv ==
    /\ dma = "send" => own[tx]
    /\ TBUS <=> dma = "suspended"
    /\ dma = "suspending" => OnlyTx
    /\ dma = "suspending" => \A t \in Tasks : pc[t] = "own" => ~own[tx]
    /\ dma = "suspended" /\ (\A t \in Tasks : pc[t] # "resume") => OnlyTx

IInv == TypeOK /\ RingInv /\ SemInv /\ QueuedIsOwnCopy /\ DmaInv

\* The chain of ETH_DMATxDescChainInit leads from descriptor to descriptor,
\* and never back to the same one.
LEMMA NextDescInRing ==
  ASSUME NEW d \in Desc
  PROVE  NextDesc(d) \in Desc /\ NextDesc(d) # d
BY TxbufnbAssumption DEF Desc, NextDesc

\* When DMATxDescToSet belongs to the DMA the ring is full.
LEMMA OwnedMeansFull ==
  ASSUME TypeOK, RingInv, own[DMATxDescToSet]
  PROVE  Full
<1>1. DMATxDescToSet \in Desc /\ tx \in Desc
  BY DEF TypeOK
<1>2. Dist(DMATxDescToSet) < Queue
  BY <1>1 DEF RingInv
<1>3. Queue = ETH_TXBUFNB
  BY <1>1, <1>2, TxbufnbAssumption DEF Queue, Dist, Desc
<1>4. \A d \in Desc : Dist(d) < ETH_TXBUFNB
  BY <1>1, TxbufnbAssumption DEF Dist, Desc
<1> QED
  BY <1>3, <1>4 DEF RingInv, Full

\* When the descriptor of the DMA is not its own the ring is empty, and the
\* next frame goes into that descriptor.
LEMMA NotOwnedMeansEmpty ==
  ASSUME TypeOK, RingInv, ~own[tx]
  PROVE  /\ \A d \in Desc : ~own[d]
         /\ DMATxDescToSet = tx
<1>1. DMATxDescToSet \in Desc /\ tx \in Desc
  BY DEF TypeOK
<1>2. ~(Dist(tx) < Queue)
  BY <1>1 DEF RingInv
<1>3. Queue = Dist(DMATxDescToSet) /\ Queue = 0
  BY <1>1, <1>2, TxbufnbAssumption DEF Queue, Dist, Desc
<1>4. \A d \in Desc : ~(Dist(d) < 0)
  BY <1>1, TxbufnbAssumption DEF Dist, Desc
<1>5. \A d \in Desc : ~own[d]
  BY <1>3, <1>4 DEF RingInv
<1>6. DMATxDescToSet = tx
  BY <1>1, <1>3, TxbufnbAssumption DEF Dist, Desc
<1> QED
  BY <1>5, <1>6

\* Handing over DMATxDescToSet keeps the DMA's descriptors contiguous.
LEMMA PrepareKeepsRing ==
  ASSUME TypeOK, RingInv, NEW t \in Tasks, Prepare(t)
  PROVE  RingInv'
<1> DEFINE s == DMATxDescToSet
<1>1. /\ s \in Desc /\ tx \in Desc /\ tx' = tx
      /\ s' = NextDesc(s) /\ ~own[s]
      /\ own \in [Desc -> BOOLEAN]
      /\ own' = [own EXCEPT ![s] = TRUE]
  BY DEF TypeOK, Prepare, device
<1>2. own[tx] => s # tx
  BY <1>1
<1>3. Queue = Dist(s)
  BY <1>2 DEF Queue
<1>4. \A d \in Desc : own[d] <=> Dist(d) < Dist(s)
  BY <1>3 DEF RingInv
<1>5. own'[tx]
  <2>1. Dist(tx) = 0 /\ Dist(s) >= 0
    BY <1>1, TxbufnbAssumption DEF Dist, Desc
  <2>2. CASE s = tx
    BY <1>1, <2>2
  <2>3. CASE s # tx
    <3>1. Dist(s) > 0
      BY <1>1, <2>3, TxbufnbAssumption DEF Dist, Desc
    <3> QED
      BY <1>1, <1>4, <2>1, <3>1
  <2> QED
    BY <2>2, <2>3
<1>6. Queue' = Dist(s) + 1
  <2>1. CASE NextDesc(s) = tx
    BY <1>1, <1>5, <2>1, TxbufnbAssumption DEF Queue, Dist, Desc, NextDesc
  <2>2. CASE NextDesc(s) # tx
    BY <1>1, <1>5, <2>2, TxbufnbAssumption DEF Queue, Dist, Desc, NextDesc
  <2> QED
    BY <2>1, <2>2
<1>7. ASSUME NEW d \in Desc
      PROVE  own'[d] <=> Dist(d) < Dist(s) + 1
  <2>1. CASE d = s
    BY <1>1, <2>1, TxbufnbAssumption DEF Dist, Desc
  <2>2. CASE d # s
    <3>1. Dist(d) # Dist(s)
      BY <1>1, <2>2, TxbufnbAssumption DEF Dist, Desc
    <3>2. Dist(d) \in Int /\ Dist(s) \in Int
      BY <1>1, TxbufnbAssumption DEF Dist, Desc
    <3>3. Dist(d) < Dist(s) + 1 <=> Dist(d) < Dist(s)
      BY <3>1, <3>2
    <3>4. own'[d] = own[d]
      BY <1>1, <2>2
    <3> QED
      BY <1>4, <3>3, <3>4
  <2> QED
    BY <2>1, <2>2
<1>8. \A d \in Desc : Dist(d)' = Dist(d)
  BY <1>1 DEF Dist
<1> QED
  BY <1>6, <1>7, <1>8 DEF RingInv

\* Taking tx back and moving on keeps them contiguous.
LEMMA SentKeepsRing ==
  ASSUME TypeOK, RingInv, own[tx], DmaSent
  PROVE  RingInv'
<1> DEFINE s == DMATxDescToSet
           n == NextDesc(tx)
<1>1. /\ s \in Desc /\ tx \in Desc /\ n \in Desc /\ n # tx
      /\ tx' = n /\ s' = s
      /\ own \in [Desc -> BOOLEAN]
      /\ own' = [own EXCEPT ![tx] = FALSE]
  BY NextDescInRing DEF TypeOK, DmaSent
<1>2. \A d \in Desc : Dist(d)' = IF d = tx THEN ETH_TXBUFNB - 1 ELSE Dist(d) - 1
  BY <1>1, TxbufnbAssumption DEF Dist, Desc, NextDesc
<1>3. Queue' = Queue - 1
  <2>1. CASE s = tx
    <3>1. Queue = ETH_TXBUFNB
      BY <2>1 DEF Queue
    <3>2. s' # tx'
      BY <1>1, <2>1
    <3>3. Queue' = Dist(s)'
      BY <3>2 DEF Queue
    <3> QED
      BY <1>1, <1>2, <2>1, <3>1, <3>3
  <2>2. CASE s # tx
    <3>1. Queue = Dist(s)
      BY <2>2 DEF Queue
    <3>2. Dist(s)' = Dist(s) - 1
      BY <1>1, <1>2, <2>2
    <3>3. CASE s = n
      <4>1. Dist(s) = 1
        BY <1>1, <3>3, TxbufnbAssumption DEF Dist, Desc, NextDesc
      <4>2. ~own[n]
        BY <1>1, <3>1, <3>3, <4>1 DEF RingInv
      <4>3. ~own'[n]
        BY <1>1, <4>2
      <4> QED
        BY <1>1, <3>1, <3>2, <4>3 DEF Queue
    <3>4. CASE s # n
      BY <1>1, <3>1, <3>2, <3>4 DEF Queue
    <3> QED
      BY <3>3, <3>4
  <2> QED
    BY <2>1, <2>2
<1>4. ASSUME NEW d \in Desc
      PROVE  own'[d] <=> Dist(d)' < Queue'
  <2>1. Queue \in Int /\ Queue <= ETH_TXBUFNB /\ Dist(d) \in Int
    BY <1>1, TxbufnbAssumption DEF Queue, Dist, Desc
  <2>2. CASE d = tx
    <3>1. ~(ETH_TXBUFNB - 1 < Queue - 1)
      BY <2>1, TxbufnbAssumption
    <3> QED
      BY <1>1, <1>2, <1>3, <2>2, <3>1
  <2>3. CASE d # tx
    <3>1. own'[d] = own[d]
      BY <1>1, <2>3
    <3>2. own[d] <=> Dist(d) < Queue
      BY DEF RingInv
    <3>3. Dist(d) < Queue <=> Dist(d) - 1 < Queue - 1
      BY <2>1
    <3>4. Dist(d)' = Dist(d) - 1
      BY <1>2, <2>3
    <3> QED
      BY <1>3, <3>1, <3>2, <3>3, <3>4
  <2> QED
    BY <2>2, <2>3
<1> QED
  BY <1>4 DEF RingInv

\* The ring does not change when its descriptors and the two pointers do not.
LEMMA RingUnchanged ==
  ASSUME RingInv, UNCHANGED <<own, DMATxDescToSet, tx>>
  PROVE  RingInv'
BY DEF RingInv, Queue, Dist

\* The step at which a task returns from a label to "idle", or moves between
\* labels, keeps the semaphore with one task at most.
LEMMA SemStep ==
  ASSUME TypeOK, SemInv, NEW t \in Tasks, low_level_output(t) \/ Call(t)
  PROVE  SemInv'
<1>1. /\ pc \in [Tasks -> {"idle", "enter", "take", "copy", "own", "resume", "give"}]
      /\ \A u \in Tasks \ {t} : pc'[u] = pc[u]
  BY DEF TypeOK, low_level_output, Call, Create, Take, TimesOut, Copy, PrepareFull,
         Prepare, Resume, Give, Goto
<1>2. CASE Take(t)
  <2>1. \A u \in Tasks : ~Inside(u)
    BY <1>2 DEF Take, SemInv
  <2>2. \A u \in Tasks : Inside(u)' => u = t
    BY <1>1, <2>1 DEF Inside
  <2> QED
    BY <1>2, <2>2 DEF Take, SemInv
<1>3. CASE Give(t)
  <2>1. \A u \in Tasks : Inside(u) => u = t
    BY <1>3 DEF Give, SemInv, Inside
  <2>2. ~Inside(t)'
    BY <1>1, <1>3 DEF Give, Goto, Inside
  <2>3. \A u \in Tasks : ~Inside(u)'
    BY <1>1, <2>1, <2>2 DEF Inside
  <2> QED
    BY <2>3 DEF SemInv
<1>4. CASE Create(t)
  <2>1. ~Inside(t)'
    BY <1>1, <1>4 DEF Create, Goto, Inside
  <2>2. \A u \in Tasks : Inside(u)' => Inside(u)
    BY <1>1, <2>1 DEF Inside
  <2>3. xTxSemaphore = "taken" => xTxSemaphore' = "taken"
    BY <1>4 DEF Create
  <2> QED
    BY <2>2, <2>3 DEF SemInv
<1>5. CASE Call(t) \/ TimesOut(t) \/ Copy(t) \/ PrepareFull(t) \/ Prepare(t) \/ Resume(t)
  <2>1. xTxSemaphore' = xTxSemaphore
    BY <1>5 DEF Call, TimesOut, Copy, PrepareFull, Prepare, Resume
  <2>2. Inside(t)' => Inside(t)
    BY <1>1, <1>5 DEF Call, TimesOut, Copy, PrepareFull, Prepare, Resume, Goto, Inside
  <2>3. \A u \in Tasks : Inside(u)' => Inside(u)
    BY <1>1, <2>2 DEF Inside
  <2> QED
    BY <2>1, <2>3 DEF SemInv
<1> QED
  BY <1>2, <1>3, <1>4, <1>5 DEF low_level_output

\* Every step keeps the types.
LEMMA TypeStep ==
  ASSUME TypeOK, [Next]_vars
  PROVE  TypeOK'
<1> USE DEF TypeOK
<1>1. ASSUME NEW t \in Tasks, Call(t)
      PROVE  TypeOK'
  BY <1>1 DEF Call, Goto, ring, device
<1>2. ASSUME NEW t \in Tasks, Create(t)
      PROVE  TypeOK'
  BY <1>2 DEF Create, Goto, ring, device
<1>3. ASSUME NEW t \in Tasks, Take(t)
      PROVE  TypeOK'
  BY <1>3 DEF Take, Goto, ring, device
<1>4. ASSUME NEW t \in Tasks, TimesOut(t)
      PROVE  TypeOK'
  BY <1>4 DEF TimesOut, Goto, ring, device
<1>5. ASSUME NEW t \in Tasks, Copy(t)
      PROVE  TypeOK'
  BY <1>5 DEF Copy, Goto, ring, device
<1>6. ASSUME NEW t \in Tasks, PrepareFull(t)
      PROVE  TypeOK'
  BY <1>6 DEF PrepareFull, Goto, ring, device
<1>7. ASSUME NEW t \in Tasks, Prepare(t)
      PROVE  TypeOK'
  BY <1>7, NextDescInRing DEF Prepare, Goto, ring, device
<1>8. ASSUME NEW t \in Tasks, Resume(t)
      PROVE  TypeOK'
  BY <1>8 DEF Resume, Goto, ring, device
<1>9. ASSUME NEW t \in Tasks, Give(t)
      PROVE  TypeOK'
  BY <1>9 DEF Give, Goto, ring, device
<1>10. CASE DmaFetch
  BY <1>10 DEF DmaFetch, ring, device
<1>11. CASE DmaSuspends
  BY <1>11 DEF DmaSuspends, ring, device
<1>12. CASE DmaSent
  BY <1>12, NextDescInRing DEF DmaSent, ring, device
<1>13. CASE UNCHANGED vars
  BY <1>13 DEF vars, ring, device
<1> QED
  BY <1>1, <1>2, <1>3, <1>4, <1>5, <1>6, <1>7, <1>8, <1>9, <1>10, <1>11, <1>12, <1>13
  DEF Next, low_level_output

\* A step of a task in low_level_output keeps the inductive invariant.
LEMMA TaskStep ==
  ASSUME IInv, NEW t \in Tasks, low_level_output(t) \/ Call(t)
  PROVE  RingInv' /\ QueuedIsOwnCopy' /\ DmaInv'
<1> USE DEF IInv
<1>1. /\ pc \in [Tasks -> {"idle", "enter", "take", "copy", "own", "resume", "give"}]
      /\ tx \in Desc /\ DMATxDescToSet \in Desc
      /\ \A u \in Tasks \ {t} : pc'[u] = pc[u]
  BY DEF TypeOK, low_level_output, Call, Create, Take, TimesOut, Copy, PrepareFull,
         Prepare, Resume, Give, Goto
<1>2. CASE Call(t) \/ Create(t) \/ Take(t) \/ TimesOut(t) \/ PrepareFull(t) \/ Give(t)
  <2>1. UNCHANGED <<ring, device>>
    BY <1>2 DEF Call, Create, Take, TimesOut, PrepareFull, Give
  <2>2. pc[t] # "resume" /\ pc'[t] \notin {"own", "resume"}
    BY <1>1, <1>2 DEF Call, Create, Take, TimesOut, PrepareFull, Give, Goto
  <2>3. RingInv'
    BY <2>1, RingUnchanged DEF ring, device
  <2>4. QueuedIsOwnCopy'
    BY <1>1, <2>1, <2>2 DEF QueuedIsOwnCopy, ring
  <2>5. DmaInv'
    BY <1>1, <2>1, <2>2 DEF DmaInv, OnlyTx, ring, device
  <2> QED
    BY <2>3, <2>4, <2>5
<1>3. CASE Copy(t)
  <2>1. /\ dma # "suspending" /\ pc[t] = "copy" /\ pc'[t] = "own"
        /\ UNCHANGED <<own, DMATxDescToSet, tx, dma, TBUS>>
    BY <1>1, <1>3 DEF Copy, Goto, device
  <2>2. RingInv'
    BY <2>1, RingUnchanged
  <2>3. \A u \in Tasks : pc[u] = "own" => FALSE
    BY <2>1 DEF SemInv, Inside
  <2>4. \A u \in Tasks : pc'[u] = "own" => u = t
    BY <1>1, <2>3
  <2>5. holds'[DMATxDescToSet] = t
    BY <1>1, <1>3 DEF Copy, TypeOK
  <2>6. QueuedIsOwnCopy'
    BY <2>1, <2>4, <2>5 DEF QueuedIsOwnCopy
  <2>7. DmaInv'
    BY <1>1, <2>1 DEF DmaInv, OnlyTx
  <2> QED
    BY <2>2, <2>6, <2>7
<1>4. CASE Prepare(t)
  <2>1. /\ pc[t] = "own" /\ pc'[t] = "resume" /\ UNCHANGED device
        /\ own' = [own EXCEPT ![DMATxDescToSet] = TRUE]
        /\ own \in [Desc -> BOOLEAN]
    BY <1>1, <1>4 DEF Prepare, Goto, TypeOK
  <2>2. RingInv'
    BY <1>4, PrepareKeepsRing
  <2>3. \A u \in Tasks : pc'[u] # "own"
    BY <1>1, <2>1 DEF SemInv, Inside
  <2>4. QueuedIsOwnCopy'
    BY <2>3 DEF QueuedIsOwnCopy
  <2>5. dma = "suspending" => OnlyTx'
    <3>1. SUFFICES ASSUME dma = "suspending"
                   PROVE  OnlyTx'
      OBVIOUS
    <3>2. ~own[tx]
      BY <2>1, <3>1 DEF DmaInv
    <3>3. (\A d \in Desc : ~own[d]) /\ DMATxDescToSet = tx
      BY <3>2, NotOwnedMeansEmpty
    <3> QED
      BY <1>1, <2>1, <3>3 DEF OnlyTx, device
  <2>6. DmaInv'
    BY <1>1, <2>1, <2>3, <2>5 DEF DmaInv, device
  <2> QED
    BY <2>2, <2>4, <2>6
<1>5. CASE Resume(t)
  <2>1. pc[t] = "resume" /\ pc'[t] = "give" /\ UNCHANGED <<ring, tx>>
    BY <1>1, <1>5 DEF Resume, Goto
  <2>2. RingInv'
    BY <2>1, RingUnchanged DEF ring
  <2>3. QueuedIsOwnCopy'
    BY <1>1, <2>1 DEF QueuedIsOwnCopy, ring
  <2>4. CASE TBUS
    <3>1. ~TBUS' /\ dma' = "fetch"
      BY <1>5, <2>4 DEF Resume
    <3> QED
      BY <2>2, <2>3, <3>1 DEF DmaInv
  <2>5. CASE ~TBUS
    <3>1. TBUS' = TBUS /\ dma' = dma /\ dma # "suspended"
      BY <1>5, <2>5 DEF Resume, DmaInv
    <3>2. DmaInv'
      BY <1>1, <2>1, <3>1 DEF DmaInv, OnlyTx, ring
    <3> QED
      BY <2>2, <2>3, <3>2
  <2> QED
    BY <2>4, <2>5
<1> QED
  BY <1>2, <1>3, <1>4, <1>5 DEF low_level_output

\* So does a step of the DMA.
LEMMA DmaStep ==
  ASSUME IInv, DmaFetch \/ DmaSuspends \/ DmaSent
  PROVE  RingInv' /\ SemInv' /\ QueuedIsOwnCopy' /\ DmaInv'
<1> USE DEF IInv
<1>1. UNCHANGED <<pc, xTxSemaphore, holds, DMATxDescToSet>>
  BY DEF DmaFetch, DmaSuspends, DmaSent, ring
<1>2. SemInv' /\ QueuedIsOwnCopy'
  BY <1>1 DEF SemInv, Inside, QueuedIsOwnCopy
<1>3. CASE DmaFetch
  <2>1. UNCHANGED <<own, tx, TBUS>>
    BY <1>3 DEF DmaFetch, ring
  <2>2. RingInv'
    BY <1>1, <2>1, RingUnchanged
  <2>3. CASE own[tx]
    <3>1. dma' = "send" /\ dma = "fetch"
      BY <1>3, <2>3 DEF DmaFetch
    <3> QED
      BY <1>2, <2>1, <2>2, <2>3, <3>1 DEF DmaInv
  <2>4. CASE ~own[tx]
    <3>1. dma' = "suspending" /\ dma = "fetch"
      BY <1>3, <2>4 DEF DmaFetch
    <3>2. \A d \in Desc : ~own[d]
      BY <2>4, NotOwnedMeansEmpty
    <3>3. OnlyTx'
      BY <2>1, <3>2 DEF OnlyTx
    <3> QED
      BY <1>2, <2>1, <2>2, <2>4, <3>1, <3>3 DEF DmaInv
  <2> QED
    BY <2>3, <2>4
<1>4. CASE DmaSuspends
  <2>1. UNCHANGED <<own, tx>> /\ dma = "suspending" /\ dma' = "suspended" /\ TBUS'
    BY <1>4 DEF DmaSuspends, ring
  <2>2. RingInv'
    BY <1>1, <2>1, RingUnchanged
  <2>3. DmaInv'
    BY <1>1, <2>1 DEF DmaInv, OnlyTx
  <2> QED
    BY <1>2, <2>2, <2>3
<1>5. CASE DmaSent
  <2>1. dma = "send" /\ own[tx] /\ dma' = "fetch" /\ TBUS' = TBUS
    BY <1>5 DEF DmaSent, DmaInv
  <2>2. RingInv'
    BY <1>5, <2>1, SentKeepsRing
  <2>3. DmaInv'
    BY <2>1 DEF DmaInv
  <2> QED
    BY <1>2, <2>2, <2>3
<1> QED
  BY <1>3, <1>4, <1>5

LEMMA InitIInv == Init => IInv
<1> SUFFICES ASSUME Init PROVE IInv
  OBVIOUS
<1>1. TypeOK
  <2>1. 0 \in Desc
    BY TxbufnbAssumption DEF Desc
  <2> QED
    BY <2>1 DEF Init, TypeOK
<1>2. RingInv
  BY TxbufnbAssumption DEF Init, RingInv, Queue, Dist, Desc
<1>3. SemInv /\ QueuedIsOwnCopy /\ DmaInv
  BY DEF Init, SemInv, Inside, QueuedIsOwnCopy, DmaInv
<1> QED
  BY <1>1, <1>2, <1>3 DEF IInv

LEMMA StepIInv == IInv /\ [Next]_vars => IInv'
<1> SUFFICES ASSUME IInv, [Next]_vars PROVE IInv'
  OBVIOUS
<1> USE DEF IInv
<1>1. TypeOK'
  BY TypeStep
<1>2. ASSUME NEW t \in Tasks, low_level_output(t) \/ Call(t)
      PROVE  IInv'
  BY <1>1, <1>2, TaskStep, SemStep
<1>3. CASE DmaFetch \/ DmaSuspends \/ DmaSent
  BY <1>1, <1>3, DmaStep
<1>4. CASE UNCHANGED vars
  BY <1>1, <1>4 DEF vars, ring, device, RingInv, Queue, Dist, SemInv, Inside,
                    QueuedIsOwnCopy, DmaInv, OnlyTx
<1> QED
  BY <1>2, <1>3, <1>4 DEF Next

\* The descriptors and the pointers of the driver stay in the ring.
THEOREM TypeCorrect == Spec => []TypeOK
<1>1. IInv => TypeOK
  BY DEF IInv
<1> QED
  BY <1>1, InitIInv, StepIInv, PTL DEF Spec

\* The DMA is never left stopped with a full ring, the one state from which no
\* call of low_level_output wakes it: a ring of two descriptors is enough.
THEOREM NeverStalls == Spec => []NoStallWhenFull
<1>1. IInv => NoStallWhenFull
  <2> SUFFICES ASSUME IInv, dma = "suspended", \A t \in Tasks : pc[t] # "resume"
               PROVE  ~Full
    BY DEF NoStallWhenFull
  <2>1. OnlyTx /\ tx \in Desc
    BY DEF IInv, DmaInv, TypeOK
  <2>2. NextDesc(tx) \in Desc /\ NextDesc(tx) # tx
    BY <2>1, NextDescInRing
  <2> QED
    BY <2>1, <2>2 DEF OnlyTx, Full
<1> QED
  BY <1>1, InitIInv, StepIInv, PTL DEF Spec

\* What a call hands over to the DMA is what this call has copied.
THEOREM OwnCopyQueued == Spec => []QueuedIsOwnCopy
<1>1. IInv => QueuedIsOwnCopy
  BY DEF IInv
<1> QED
  BY <1>1, InitIInv, StepIInv, PTL DEF Spec

\* A frame that waits for the DMA is overwritten only when the ring is full.
THEOREM DamageNeedsFullRing == Spec => DamageOnlyWhenFull
<1> DEFINE A == \A d \in Desc : own[d] /\ intact[d] /\ ~intact'[d] => Full
<1>1. IInv /\ [Next]_vars => [A]_vars
  <2> SUFFICES ASSUME IInv, Next, NEW d \in Desc, own[d], intact[d], ~intact'[d]
               PROVE  Full
    BY DEF vars
  <2>1. /\ own \in [Desc -> BOOLEAN] /\ intact \in [Desc -> BOOLEAN]
        /\ DMATxDescToSet \in Desc
    BY DEF IInv, TypeOK
  <2>2. PICK t \in Tasks : Copy(t) \/ Prepare(t)
    BY DEF Next, low_level_output, Call, Create, Take, TimesOut, PrepareFull, Resume,
           Give, DmaFetch, DmaSuspends, DmaSent, ring
  <2>3. ~Prepare(t)
    BY <2>1 DEF Prepare
  <2>4. Copy(t)
    BY <2>2, <2>3
  <2>5. d = DMATxDescToSet
    BY <2>1, <2>4 DEF Copy
  <2> QED
    BY <2>5, OwnedMeansFull DEF IInv
<1> QED
  BY <1>1, InitIInv, StepIInv, PTL DEF Spec, DamageOnlyWhenFull

==============================================================================
