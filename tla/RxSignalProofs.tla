---------------------------- MODULE RxSignalProofs ----------------------------
(***************************************************************************)
(* RxSignal for any ring and any semaphore.  NoPhantomFrame counts the     *)
(* flag only while the interrupt has not acted on it; with that it is      *)
(* inductive together with TypeOK.                                         *)
(***************************************************************************)
EXTENDS RxSignal, TLAPS

\* Type correctness and the claims are kept by every step.
LEMMA SignalInductive ==
    ASSUME Sizes
    PROVE  Spec => [](TypeOK /\ NoPhantomFrame)
<1> USE DEF Sizes
<1>1. Init => TypeOK /\ NoPhantomFrame
  <2> SUFFICES ASSUME Init PROVE TypeOK /\ NoPhantomFrame
    OBVIOUS
  <2>1. ~reading /\ ~(flagR /\ isr = "idle")
    BY Zenon DEF Init
  <2>2. Claims = 0
    BY <2>1 DEF Init, Claims
  <2>3. NoPhantomFrame
    BY <2>2 DEF Init, NoPhantomFrame
  <2>4. flagR \in BOOLEAN /\ reading \in BOOLEAN
    BY Zenon DEF Init
  <2> QED  BY <2>3, <2>4 DEF Init, TypeOK
<1>2. TypeOK /\ NoPhantomFrame /\ [Next]_vars => (TypeOK /\ NoPhantomFrame)'
  <2> SUFFICES ASSUME TypeOK, NoPhantomFrame, [Next]_vars
               PROVE  TypeOK' /\ NoPhantomFrame'
    OBVIOUS
  <2> USE DEF TypeOK, NoPhantomFrame, Claims
  <2>1. CASE Complete  BY <2>1 DEF Complete
  <2>2. CASE Give
    <3>1. Claims' <= Claims
      BY <2>2 DEF Give
    <3> QED  BY <2>2, <3>1 DEF Give
  <2>3. CASE Clear  BY <2>3 DEF Clear
  <2>4. CASE Take  BY <2>4 DEF Take
  <2>5. CASE Read
    <3>1. reading /\ ~reading' /\ reading' \in BOOLEAN /\ flagR' = flagR /\ isr' = isr
      BY <2>5, Zenon DEF Read
    <3>2. Claims' = Claims - 1
      BY <2>5, <3>1 DEF Read
    <3> QED  BY <2>5, <3>1, <3>2 DEF Read
  <2>6. CASE UNCHANGED vars  BY <2>6 DEF vars
  <2> QED
    BY <2>1, <2>2, <2>3, <2>4, <2>5, <2>6 DEF Next
<1> QED
  BY <1>1, <1>2, PTL DEF Spec

\* ETH_IRQHandler and ethernetif_input keep the count of s_xSemaphore and the
\* frames of the ring within their limits.
THEOREM SignalTypes ==
    ASSUME Sizes
    PROVE  Spec => []TypeOK
  BY SignalInductive, PTL

\* However the DMA, the interrupt and the task interleave, the task never takes
\* a count without a complete frame in the ring: ETH_Get_Received_Frame_interrupt
\* always returns a descriptor.
THEOREM NoPhantom ==
    ASSUME Sizes
    PROVE  Spec => []NoPhantomFrame
  BY SignalInductive, PTL

\* A frame whose interrupt was merged with another's is never signalled later:
\* the backlog of the ring can only grow.
THEOREM LagGrows ==
    ASSUME Sizes
    PROVE  Spec => LagNeverShrinks
<1> USE DEF Sizes
<1>1. TypeOK /\ [Next]_vars => [ready - Claims <= ready' - Claims']_vars
  <2> SUFFICES ASSUME TypeOK, Next
               PROVE  ready - Claims <= ready' - Claims'
    OBVIOUS
  <2> USE DEF TypeOK, Claims
  <2>1. CASE Complete  BY <2>1 DEF Complete
  <2>2. CASE Give  BY <2>2 DEF Give
  <2>3. CASE Clear  BY <2>3 DEF Clear
  <2>4. CASE Take  BY <2>4 DEF Take
  <2>5. CASE Read  BY <2>5 DEF Read
  <2> QED
    BY <2>1, <2>2, <2>3, <2>4, <2>5 DEF Next
<1> QED
  BY <1>1, SignalInductive, PTL DEF Spec, LagNeverShrinks

\* A ring full of frames has a claim on one of them at least: while ETH_IRQHandler
\* runs, the count it gave is still there.
ClaimedInv ==
    /\ isr = "clear" => sem > 0
    /\ ready = RXBUFNB => Claims > 0

\* The backlog that merged interrupts leave behind never fills the ring: when
\* the DMA has no place left, a count or the flag brings the task to read.
THEOREM LagBounded ==
    ASSUME Sizes
    PROVE  Spec => [](ready - Claims < RXBUFNB)
<1> USE DEF Sizes
<1>1. Init => ClaimedInv
    BY DEF Init, ClaimedInv
<1>2. TypeOK /\ ClaimedInv /\ [Next]_vars => ClaimedInv'
  <2> SUFFICES ASSUME TypeOK, ClaimedInv, [Next]_vars
               PROVE  ClaimedInv'
    OBVIOUS
  <2> USE DEF TypeOK, ClaimedInv, Claims
  <2>1. CASE Complete  BY <2>1 DEF Complete
  <2>2. CASE Give
    <3>1. sem' > 0
      BY <2>2 DEF Give
    <3> QED  BY <2>2, <3>1 DEF Give
  <2>3. CASE Clear  BY <2>3 DEF Clear
  <2>4. CASE Take  BY <2>4 DEF Take
  <2>5. CASE Read
    <3>1. ready' # RXBUFNB /\ isr' = "idle"
      BY <2>5 DEF Read
    <3> QED  BY <3>1
  <2>6. CASE UNCHANGED vars  BY <2>6 DEF vars
  <2> QED
    BY <2>1, <2>2, <2>3, <2>4, <2>5, <2>6 DEF Next
<1>3. TypeOK /\ ClaimedInv => ready - Claims < RXBUFNB
  <2> SUFFICES ASSUME TypeOK, ClaimedInv PROVE ready - Claims < RXBUFNB
    OBVIOUS
  <2>1. Claims \in Nat /\ ready \in 0..RXBUFNB
    BY DEF TypeOK, Claims
  <2> QED  BY <2>1 DEF ClaimedInv
<1> QED
  BY <1>1, <1>2, <1>3, SignalInductive, PTL DEF Spec

==============================================================================
