------------------------------- MODULE RxSignal -------------------------------
(***************************************************************************)
(* What the receive path of the Ethernet driver promises about its signal: *)
(* complete frames wait in the descriptor ring, the DMA raises the status  *)
(* flag R, ETH_IRQHandler turns the flag into a count of s_xSemaphore and  *)
(* the task Eth_if takes one count for every frame it reads.               *)
(*                                                                         *)
(* Nothing here knows about descriptors; EthRx shows that the driver's     *)
(* code behaves like this.                                                 *)
(***************************************************************************)
EXTENDS Integers

CONSTANTS
    RXBUFNB,   \* frames the ring can hold
    SEM_MAX    \* the limit of the counting semaphore

Sizes == RXBUFNB \in Nat \ {0} /\ SEM_MAX \in Nat \ {0}

VARIABLES
    ready,     \* complete frames nobody has read
    flagR,     \* the R bit of the DMA status register
    isr,       \* where ETH_IRQHandler is
    sem,       \* count of s_xSemaphore
    reading    \* Eth_if has taken a count and not yet found its frame

vars == <<ready, flagR, isr, sem, reading>>

TypeOK ==
    /\ ready \in 0..RXBUFNB
    /\ flagR \in BOOLEAN
    /\ isr \in {"idle", "clear"}
    /\ sem \in 0..SEM_MAX
    /\ reading \in BOOLEAN

Init ==
    /\ ready = 0
    /\ flagR = FALSE
    /\ isr = "idle"
    /\ sem = 0
    /\ reading = FALSE

\* The DMA completes a frame, at any time, also while the interrupt runs.
Complete ==
    /\ ready < RXBUFNB
    /\ ready' = ready + 1
    /\ flagR' = TRUE
    /\ UNCHANGED <<isr, sem, reading>>

\* The interrupt sees the flag and gives one count, however many frames it
\* stands for; a count beyond the limit is lost.
Give ==
    /\ isr = "idle"
    /\ flagR
    /\ isr' = "clear"
    /\ sem' = IF sem < SEM_MAX THEN sem + 1 ELSE sem
    /\ UNCHANGED <<ready, flagR, reading>>

\* The interrupt clears the flag and returns.
Clear ==
    /\ isr = "clear"
    /\ isr' = "idle"
    /\ flagR' = FALSE
    /\ UNCHANGED <<ready, sem, reading>>

\* The task takes a count.
Take ==
    /\ isr = "idle"
    /\ ~reading
    /\ sem > 0
    /\ sem' = sem - 1
    /\ reading' = TRUE
    /\ UNCHANGED <<ready, flagR, isr>>

\* The task finds its frame.
Read ==
    /\ isr = "idle"
    /\ reading
    /\ ready > 0
    /\ ready' = ready - 1
    /\ reading' = FALSE
    /\ UNCHANGED <<flagR, isr, sem>>

Next == Complete \/ Give \/ Clear \/ Take \/ Read

Spec == Init /\ [][Next]_vars

\* A count, and a flag the interrupt has yet to see, always stand for a frame
\* of their own: the task never looks for a frame that is not there.
Claims == sem + (IF reading THEN 1 ELSE 0) + (IF flagR /\ isr = "idle" THEN 1 ELSE 0)
NoPhantomFrame == Claims <= ready

\* Frames that no count and no flag stands for are never made good: their
\* number only grows, and each one for good takes a place of the ring and
\* delays what comes later by a frame.
LagNeverShrinks == [][ready - Claims <= ready' - Claims']_vars

==============================================================================
