-------------------------------- MODULE EthTx --------------------------------
(***************************************************************************)
(* The transmit path: low_level_output copies a frame into the buffer of   *)
(* the next descriptor under xTxSemaphore, ETH_Prepare_Transmit_Descriptors *)
(* hands the descriptor to the DMA and wakes it when it has stopped.       *)
(*                                                                         *)
(* main() is the first caller: netif_set_up sends a gratuitous ARP before  *)
(* the scheduler runs, and that call creates the semaphore.  After it come *)
(* tcpip_thread and, when USE_DHCP is defined, the task DHCPClient.        *)
(*                                                                         *)
(* A frame takes one descriptor: netif->mtu is 1500 and a buffer holds     *)
(* 1524 bytes, so the branch for longer frames is never taken.             *)
(***************************************************************************)
EXTENDS Integers

CONSTANTS
    ETH_TXBUFNB,   \* descriptors in the ring
    Callers        \* the tasks that send

main == "main"
Tasks == Callers \cup {main}

ASSUME TxbufnbAssumption == ETH_TXBUFNB \in Nat /\ ETH_TXBUFNB >= 2
ASSUME CallersAssumption == main \notin Callers

VARIABLES
    own,        \* the OWN bit of every descriptor: it belongs to the DMA
    intact,     \* the buffer holds what it held when its descriptor was handed over
    holds,      \* whose frame was last copied into the buffer
    DMATxDescToSet,
    tx,         \* the descriptor the DMA works on
    dma,        \* what the DMA does
    TBUS,       \* transmit buffer unavailable
    xTxSemaphore,
    pc          \* where every task is in low_level_output

ring == <<own, intact, holds, DMATxDescToSet>>
device == <<tx, dma, TBUS>>
vars == <<ring, device, xTxSemaphore, pc>>

Desc == 0 .. ETH_TXBUFNB - 1

TypeOK ==
    /\ own \in [Desc -> BOOLEAN]
    /\ intact \in [Desc -> BOOLEAN]
    /\ holds \in [Desc -> Tasks \cup {"nobody"}]
    /\ DMATxDescToSet \in Desc
    /\ tx \in Desc
    /\ dma \in {"fetch", "send", "suspending", "suspended"}
    /\ TBUS \in BOOLEAN
    /\ xTxSemaphore \in {"NULL", "free", "taken"}
    /\ pc \in [Tasks -> {"idle", "enter", "take", "copy", "own", "resume", "give"}]

\* Buffer2NextDescAddr, as ETH_DMATxDescChainInit sets it.
NextDesc(d) == IF d < ETH_TXBUFNB - 1 THEN d + 1 ELSE 0

\* ETH_DMATxDescChainInit and ETH_Start; main() is about to call netif_set_up.
Init ==
    /\ own = [d \in Desc |-> FALSE]
    /\ intact = [d \in Desc |-> TRUE]
    /\ holds = [d \in Desc |-> "nobody"]
    /\ DMATxDescToSet = 0
    /\ tx = 0
    /\ dma = "fetch"
    /\ TBUS = FALSE
    /\ xTxSemaphore = "NULL"
    /\ pc = [t \in Tasks |-> IF t = main THEN "enter" ELSE "idle"]

(***************************************************************************)
(* low_level_output                                                        *)
(***************************************************************************)
Goto(t, label) == pc' = [pc EXCEPT ![t] = label]

\* The stack has a frame; the scheduler runs when main() is through.
Call(t) ==
    /\ t \in Callers
    /\ pc[main] = "idle"
    /\ pc[t] = "idle"
    /\ Goto(t, "enter")
    /\ UNCHANGED <<ring, device, xTxSemaphore>>

\* if (xTxSemaphore == NULL) vSemaphoreCreateBinary(xTxSemaphore)
Create(t) ==
    /\ pc[t] = "enter"
    /\ xTxSemaphore' = IF xTxSemaphore = "NULL" THEN "free" ELSE xTxSemaphore
    /\ Goto(t, "take")
    /\ UNCHANGED <<ring, device>>

\* xSemaphoreTake(xTxSemaphore, netifGUARD_BLOCK_TIME) succeeds
Take(t) ==
    /\ pc[t] = "take"
    /\ xTxSemaphore = "free"
    /\ xTxSemaphore' = "taken"
    /\ Goto(t, "copy")
    /\ UNCHANGED <<ring, device>>

\* Mutant: the result of xSemaphoreTake is not looked at.
TimesOutGoesOn(t) ==
    /\ pc[t] = "take"
    /\ xTxSemaphore = "taken"
    /\ Goto(t, "copy")
    /\ UNCHANGED <<ring, device, xTxSemaphore>>

\* It does not: the frame is dropped, and the caller told ERR_OK all the same.
TimesOut(t) ==
    /\ pc[t] = "take"
    /\ xTxSemaphore = "taken"
    /\ Goto(t, "idle")
    /\ UNCHANGED <<ring, device, xTxSemaphore>>

\* The loop of memcpy, into the buffer of DMATxDescToSet, whoever owns it.
\* Copying a frame takes far longer than the DMA needs to raise TBUS once it
\* has found a descriptor that is not its own.
Copy(t) ==
    /\ pc[t] = "copy"
    /\ dma # "suspending"
    /\ holds' = [holds EXCEPT ![DMATxDescToSet] = t]
    /\ intact' = [intact EXCEPT ![DMATxDescToSet] = @ /\ ~own[DMATxDescToSet]]
    /\ Goto(t, "own")
    /\ UNCHANGED <<own, DMATxDescToSet, device, xTxSemaphore>>

\* ETH_Prepare_Transmit_Descriptors: ETH_ERROR when the DMA owns the
\* descriptor, which low_level_output ignores.
PrepareFull(t) ==
    /\ pc[t] = "own"
    /\ own[DMATxDescToSet]
    /\ Goto(t, "give")
    /\ UNCHANGED <<ring, device, xTxSemaphore>>

\* Mutant: DMATxDescToSet stays where it is.
PrepareStays(t) ==
    /\ pc[t] = "own"
    /\ ~own[DMATxDescToSet]
    /\ own' = [own EXCEPT ![DMATxDescToSet] = TRUE]
    /\ intact' = [intact EXCEPT ![DMATxDescToSet] = TRUE]
    /\ Goto(t, "resume")
    /\ UNCHANGED <<holds, DMATxDescToSet, device, xTxSemaphore>>

\* It sets OWN and moves on to the next descriptor.
Prepare(t) ==
    /\ pc[t] = "own"
    /\ ~own[DMATxDescToSet]
    /\ own' = [own EXCEPT ![DMATxDescToSet] = TRUE]
    /\ intact' = [intact EXCEPT ![DMATxDescToSet] = TRUE]
    /\ DMATxDescToSet' = NextDesc(DMATxDescToSet)
    /\ Goto(t, "resume")
    /\ UNCHANGED <<holds, device, xTxSemaphore>>

\* Mutant: TBUS is cleared but the DMA is not told to poll again.
ResumeNoDemand(t) ==
    /\ pc[t] = "resume"
    /\ TBUS' = FALSE
    /\ Goto(t, "give")
    /\ UNCHANGED <<ring, tx, dma, xTxSemaphore>>

\* When TBUS is set it is cleared and the DMA made to look at tx again.
Resume(t) ==
    /\ pc[t] = "resume"
    /\ IF TBUS
         THEN TBUS' = FALSE /\ dma' = "fetch"
         ELSE UNCHANGED <<TBUS, dma>>
    /\ Goto(t, "give")
    /\ UNCHANGED <<ring, tx, xTxSemaphore>>

\* xSemaphoreGive(xTxSemaphore); return ERR_OK
Give(t) ==
    /\ pc[t] = "give"
    /\ xTxSemaphore' = "free"
    /\ Goto(t, "idle")
    /\ UNCHANGED <<ring, device>>

low_level_output(t) ==
    \/ Create(t) \/ Take(t) \/ TimesOut(t) \/ Copy(t)
    \/ PrepareFull(t) \/ Prepare(t) \/ Resume(t) \/ Give(t)

(***************************************************************************)
(* The DMA (hardware)                                                      *)
(***************************************************************************)
\* It reads the descriptor: a frame to send, or none.
DmaFetch ==
    /\ dma = "fetch"
    /\ dma' = IF own[tx] THEN "send" ELSE "suspending"
    /\ UNCHANGED <<ring, tx, TBUS, xTxSemaphore, pc>>

\* Without a frame it raises TBUS and stops until it is told to poll.
DmaSuspends ==
    /\ dma = "suspending"
    /\ dma' = "suspended"
    /\ TBUS' = TRUE
    /\ UNCHANGED <<ring, tx, xTxSemaphore, pc>>

\* The frame is out: the descriptor goes back to the CPU.
DmaSent ==
    /\ dma = "send"
    /\ own' = [own EXCEPT ![tx] = FALSE]
    /\ tx' = NextDesc(tx)
    /\ dma' = "fetch"
    /\ UNCHANGED <<intact, holds, DMATxDescToSet, TBUS, xTxSemaphore, pc>>

Next ==
    \/ \E t \in Tasks : Call(t) \/ low_level_output(t)
    \/ DmaFetch \/ DmaSuspends \/ DmaSent

Spec == Init /\ [][Next]_vars

\* The DMA goes on by itself, and a task that has begun a call ends it.
FairSpec ==
    /\ Spec
    /\ WF_vars(DmaFetch) /\ WF_vars(DmaSuspends) /\ WF_vars(DmaSent)
    /\ \A t \in Tasks : WF_vars(low_level_output(t))

(***************************************************************************)
(* Properties                                                              *)
(***************************************************************************)
Full == \A d \in Desc : own[d]

\* The DMA may raise TBUS just after ETH_Prepare_Transmit_Descriptors has
\* looked at it and stop with a frame in the ring; the next call wakes it.
\* But a call that finds the ring full returns before it looks: were the DMA
\* ever stopped with a full ring, nothing would be sent again.
NoStallWhenFull ==
    dma = "suspended" /\ (\A t \in Tasks : pc[t] # "resume") => ~Full

\* A frame that waits for the DMA is damaged only by a call that finds the
\* ring full: the copy of low_level_output, which does not look at OWN, hits
\* an owned descriptor in no other case.
DamageOnlyWhenFull ==
    [][\A d \in Desc : own[d] /\ intact[d] /\ ~intact'[d] => Full]_vars

\* The descriptor handed over is the one this call has copied its frame into:
\* between the copy and OWN no other task has copied or moved DMATxDescToSet.
QueuedIsOwnCopy ==
    \A t \in Tasks : pc[t] = "own" => holds[DMATxDescToSet] = t

\* As long as frames keep being sent, every frame in the ring leaves it, also
\* the one that was queued while the DMA was stopping.
QueuedIsSent ==
    []<><<\E t \in Callers : Prepare(t) \/ PrepareFull(t)>>_vars
        => \A d \in Desc : own[d] ~> ~own[d]

\* The comment of ETH_Prepare_Transmit_Descriptors: OWN "gives the buffer back
\* to ETHERNET DMA"; the frame in it is the one that was queued.
QueuedStaysIntact == \A d \in Desc : own[d] => intact[d]

==============================================================================
