----------------------------- MODULE SysTimeouts -----------------------------
(***************************************************************************)
(* lwIP's timers as the FreeRTOS port runs them: the start-up of the       *)
(* interface, which arms a timer before the scheduler runs, and the loop   *)
(* of tcpip_thread, which takes messages out of its mailbox and, while it  *)
(* waits, runs the timers.                                                 *)
(*                                                                         *)
(* The timers of a thread are a list in which the time of an element is    *)
(* relative to the one before it.  Time is accounted for only while the    *)
(* thread waits.  Next to the code's time every element carries `left',    *)
(* the ticks that really have to pass before it is due; Tick is the passing *)
(* of one tick at any point of the thread.                                 *)
(***************************************************************************)
EXTENDS Integers, SequencesExt

CONSTANTS
    MEMP_NUM_SYS_TIMEOUT,  \* elements in the timer pool
    Startup,               \* the timers tcpip_thread arms, in their order
    Interval,              \* the interval of every periodic timer
    User,                  \* the timer other threads arm and cancel by message
    UserMsecs,             \* the delays they ask for
    MaxMsgs                \* bound: messages that reach the mailbox

ARP_TMR == "arp_timer"         \* the port's timer, armed by ethernetif_init
TCP_TMR == "tcpip_tcp_timer"
Periodic == Range(Startup)
Handlers == Periodic \cup {ARP_TMR, TCP_TMR, User}
Longest == Max(Range(Interval) \cup UserMsecs)

\* tcpip_thread arms every timer once, and the handlers are different functions.
ASSUME StartupAssumption ==
    /\ Startup \in Seq(Periodic)
    /\ \A i, j \in 1..Len(Startup) : Startup[i] = Startup[j] => i = j
    /\ Periodic \cap {ARP_TMR, TCP_TMR, User} = {}
    /\ User \notin {ARP_TMR, TCP_TMR}

\* lwipopts.h has ten elements for six timers.
ASSUME PoolAssumption ==
    MEMP_NUM_SYS_TIMEOUT \in Nat /\ MEMP_NUM_SYS_TIMEOUT >= Len(Startup) + 3
ASSUME IntervalAssumption == Interval \in [Periodic \cup {ARP_TMR, TCP_TMR} -> Nat \ {0}]
ASSUME UserAssumption == UserMsecs \subseteq Nat /\ IsFiniteSet(UserMsecs) /\ MaxMsgs \in Nat

VARIABLES
    timeouts,   \* timeouts->next of tcpip_thread
    memp,       \* free elements of the pool
    lost,       \* elements that are in no list
    s_timeoutlist,  \* the tasks in the thread table
    pxCurrentTCB,   \* what xTaskGetCurrentTaskHandle returns
    pc,         \* where tcpip_thread is; main() until "start"
    started,    \* how many of Startup are armed
    forever,    \* the wait has no time limit
    waited,     \* ticks since StartTime
    running,    \* the element whose handler is called
    tcp_pcbs,   \* tcp_active_pcbs || tcp_tw_pcbs
    tcpip_tcp_timer_active,
    msgs        \* messages received so far

table == <<s_timeoutlist, pxCurrentTCB>>
list == <<timeouts, memp, lost>>
tcp == <<tcp_pcbs, tcpip_tcp_timer_active>>
vars == <<list, table, pc, started, forever, waited, running, tcp, msgs>>

Timer == [h : Handlers, time : 0..Longest, left : 0..Longest]
PC == {"ethif", "netif", "start", "again", "wait", "got", "msg", "timeout", "handler"}

TypeOK ==
    /\ timeouts \in Seq(Timer)
    /\ memp \in 0..MEMP_NUM_SYS_TIMEOUT
    /\ lost \in 0..MEMP_NUM_SYS_TIMEOUT
    /\ s_timeoutlist \subseteq {"tcpip_thread"}
    /\ pxCurrentTCB \in {"tcpip_thread", "Eth_if"}
    /\ pc \in PC
    /\ started \in 0..Len(Startup)
    /\ forever \in BOOLEAN
    /\ waited \in 0..Longest
    /\ running \in Timer
    /\ tcp_pcbs \in BOOLEAN
    /\ tcpip_tcp_timer_active \in BOOLEAN
    /\ msgs \in 0..MaxMsgs

\* tcpip_init has created tcpip_thread, the first task of all, so FreeRTOS
\* calls it the current task although main() still runs.
Init ==
    /\ timeouts = <<>>
    /\ memp = MEMP_NUM_SYS_TIMEOUT
    /\ lost = 0
    /\ s_timeoutlist = {"tcpip_thread"}
    /\ pxCurrentTCB = "tcpip_thread"
    /\ pc = "ethif"
    /\ started = 0
    /\ forever = FALSE
    /\ waited = 0
    /\ running = [h |-> ARP_TMR, time |-> 0, left |-> 0]
    /\ tcp_pcbs = FALSE
    /\ tcpip_tcp_timer_active = FALSE
    /\ msgs = 0

(***************************************************************************)
(* core/sys.c and sys_arch.c                                               *)
(***************************************************************************)
\* sys_arch_timeouts finds a list only for a task of the thread table.
sys_arch_timeouts == pxCurrentTCB \in s_timeoutlist

\* When the elements of a list are due, counted from its head: the sums of
\* their relative times.
Due(s) ==
    LET due[k \in 0..Len(s)] == IF k = 0 THEN 0 ELSE due[k - 1] + s[k].time
    IN  due

\* Mutant: the elements behind the new one are dropped.
InsertLosesTail(s, h, msecs) ==
    LET Rest(k) == msecs - Due(s)[k]
        k == Min({j \in 0..Len(s) : j = Len(s) \/ s[j + 1].time > Rest(j)})
    IN  SubSeq(s, 1, k) \o <<[h |-> h, time |-> Rest(k), left |-> msecs]>>

\* The list after sys_timeout: the new element goes behind the last element
\* that is due no later, and what is left of its delay is taken off the next.
Insert(s, h, msecs) ==
    LET Rest(k) == msecs - Due(s)[k]
        k == Min({j \in 0..Len(s) : j = Len(s) \/ s[j + 1].time > Rest(j)})
        t == [h |-> h, time |-> Rest(k), left |-> msecs]
        tail == SubSeq(s, k + 1, Len(s))
    IN  SubSeq(s, 1, k) \o <<t>>
          \o (IF tail = <<>> THEN tail ELSE [tail EXCEPT ![1].time = @ - t.time])

\* sys_timeout: an element of the pool, when there is one, goes into the list
\* of the current thread, when it has one.
sys_timeout(h, msecs) ==
    IF memp = 0
      THEN UNCHANGED list
      ELSE /\ memp' = memp - 1
           /\ IF sys_arch_timeouts
                THEN timeouts' = Insert(timeouts, h, msecs) /\ UNCHANGED lost
                ELSE lost' = lost + 1 /\ UNCHANGED timeouts

\* Mutant: the time of the removed element is not given to the next one.
UnlinkForgetsTime(s, k) == RemoveAt(s, k)

\* Unlinking element k: its time is added to that of the next one.
Unlink(s, k) ==
    RemoveAt(IF k < Len(s) THEN [s EXCEPT ![k + 1].time = @ + s[k].time] ELSE s, k)

\* sys_untimeout: the first element of the handler is unlinked and freed.
sys_untimeout(h) ==
    LET matches == {k \in DOMAIN timeouts : timeouts[k].h = h}
    IN  IF matches = {}
          THEN UNCHANGED list
          ELSE /\ timeouts' = Unlink(timeouts, Min(matches))
               /\ memp' = memp + 1
               /\ UNCHANGED lost

(***************************************************************************)
(* Start-up, in main()                                                     *)
(***************************************************************************)
\* low_level_init: the task Eth_if has a higher priority than tcpip_thread and
\* becomes the current task, unless there is no memory for it.  It is not
\* created with sys_thread_new and so is not in the table.
low_level_init ==
    /\ pc = "ethif"
    /\ pc' = "netif"
    /\ pxCurrentTCB' \in {"tcpip_thread", "Eth_if"}
    /\ UNCHANGED <<s_timeoutlist, list, started, forever, waited, running, tcp, msgs>>

\* ethernetif_init: sys_timeout(ARP_TMR_INTERVAL, arp_timer, NULL).
ethernetif_init ==
    /\ pc = "netif"
    /\ sys_timeout(ARP_TMR, Interval[ARP_TMR])
    /\ pc' = "start"
    /\ UNCHANGED <<table, started, forever, waited, running, tcp, msgs>>

(***************************************************************************)
(* tcpip_thread                                                            *)
(***************************************************************************)
\* The scheduler starts: the context switch to tcpip_thread.
Scheduled ==
    /\ pc = "start"
    /\ pxCurrentTCB # "tcpip_thread"
    /\ pxCurrentTCB' = "tcpip_thread"
    /\ UNCHANGED <<s_timeoutlist, list, pc, started, forever, waited, running, tcp, msgs>>

\* tcpip_thread arms its timers one after the other.
ThreadStart ==
    /\ pc = "start"
    /\ pxCurrentTCB = "tcpip_thread"
    /\ IF started < Len(Startup)
         THEN /\ sys_timeout(Startup[started + 1], Interval[Startup[started + 1]])
              /\ started' = started + 1
              /\ UNCHANGED pc
         ELSE pc' = "again" /\ UNCHANGED <<list, started>>
    /\ UNCHANGED <<table, forever, waited, running, tcp, msgs>>

\* Mutant: a time of zero is passed on, and means no limit.
FetchZero ==
    /\ pc = "again"
    /\ waited' = 0
    /\ forever' = (~sys_arch_timeouts \/ timeouts = <<>> \/ timeouts[1].time = 0)
    /\ pc' = "wait"
    /\ UNCHANGED <<table, list, started, running, tcp, msgs>>

\* sys_mbox_fetch up to its call of sys_arch_mbox_fetch: an element whose time
\* is zero has timed out already.
Fetch ==
    /\ pc = "again"
    /\ waited' = 0
    /\ forever' = (~sys_arch_timeouts \/ timeouts = <<>>)
    /\ pc' = IF ~forever' /\ timeouts[1].time = 0 THEN "timeout" ELSE "wait"
    /\ UNCHANGED <<table, list, started, running, tcp, msgs>>

\* xQueueReceive gives up.
TimedOut ==
    /\ pc = "wait"
    /\ ~forever
    /\ waited >= timeouts[1].time
    /\ pc' = "timeout"
    /\ UNCHANGED <<table, list, started, forever, waited, running, tcp, msgs>>

\* xQueueReceive returns a message, which may be after the time limit.
Received ==
    /\ pc = "wait"
    /\ msgs < MaxMsgs
    /\ msgs' = msgs + 1
    /\ pc' = "got"
    /\ UNCHANGED <<table, list, started, forever, waited, running, tcp>>

\* Mutant: the time waited is subtracted although it may be the larger one.
AccountBelowZero ==
    /\ pc = "got"
    /\ timeouts' = IF forever THEN timeouts ELSE [timeouts EXCEPT ![1].time = @ - waited]
    /\ pc' = "msg"
    /\ UNCHANGED <<table, memp, lost, started, forever, waited, running, tcp, msgs>>

\* The ticks from StartTime to EndTime are taken off the first element.
Account ==
    /\ pc = "got"
    /\ timeouts' = IF forever THEN timeouts
                   ELSE [timeouts EXCEPT ![1].time = IF waited < @ THEN @ - waited ELSE 0]
    /\ pc' = "msg"
    /\ UNCHANGED <<table, memp, lost, started, forever, waited, running, tcp, msgs>>

\* Mutant: the element is not given back to the pool.
UnlinkFirstLeaks ==
    /\ pc = "timeout"
    /\ timeouts' = Tail(timeouts)
    /\ running' = Head(timeouts)
    /\ pc' = "handler"
    /\ UNCHANGED <<table, memp, lost, started, forever, waited, tcp, msgs>>

\* The first element is unlinked and freed before its handler is called.
UnlinkFirst ==
    /\ pc = "timeout"
    /\ timeouts' = Tail(timeouts)
    /\ memp' = memp + 1
    /\ running' = Head(timeouts)
    /\ pc' = "handler"
    /\ UNCHANGED <<table, lost, started, forever, waited, tcp, msgs>>

\* Mutant: tcpip_tcp_timer_active stays set.
TcpTimerStaysActive ==
    /\ tcp_pcbs' \in {tcp_pcbs, FALSE}
    /\ UNCHANGED tcpip_tcp_timer_active
    /\ IF tcp_pcbs' THEN sys_timeout(TCP_TMR, Interval[TCP_TMR]) ELSE UNCHANGED list

\* tcpip_tcp_timer: tcp_tmr may remove the last pcb, and then the timer stops.
tcpip_tcp_timer ==
    /\ tcp_pcbs' \in {tcp_pcbs, FALSE}
    /\ tcpip_tcp_timer_active' = tcp_pcbs'
    /\ IF tcp_pcbs' THEN sys_timeout(TCP_TMR, Interval[TCP_TMR]) ELSE UNCHANGED list

\* The handler of the unlinked element.  The others do their work, which may
\* take the last pcb away (an address change aborts them), and arm themselves
\* again; what a user's handler does is of no interest here.
Handler ==
    /\ pc = "handler"
    /\ \/ running.h = TCP_TMR /\ tcpip_tcp_timer
       \/ /\ running.h \in Periodic \cup {ARP_TMR}
          /\ sys_timeout(running.h, Interval[running.h])
          /\ tcp_pcbs' \in {tcp_pcbs, FALSE}
          /\ UNCHANGED tcpip_tcp_timer_active
       \/ running.h = User /\ UNCHANGED <<list, tcp>>
    /\ pc' = "again"
    /\ UNCHANGED <<table, started, forever, waited, running, msgs>>

\* TCP_REG of a new pcb calls tcp_timer_needed.
tcp_timer_needed ==
    /\ tcp_pcbs' = TRUE
    /\ tcpip_tcp_timer_active' = TRUE
    /\ IF tcpip_tcp_timer_active
         THEN UNCHANGED list
         ELSE sys_timeout(TCP_TMR, Interval[TCP_TMR])

\* The message: it registers a pcb, may remove the last one, or is
\* tcpip_timeout's or tcpip_untimeout's.  A user keeps one timer at a time, as
\* sys_untimeout's comment asks.
Message ==
    /\ pc = "msg"
    /\ \/ tcp_timer_needed
       \/ tcp_pcbs' \in {tcp_pcbs, FALSE} /\ UNCHANGED <<tcpip_tcp_timer_active, list>>
       \/ /\ \A k \in DOMAIN timeouts : timeouts[k].h # User
          /\ \E msecs \in UserMsecs : sys_timeout(User, msecs)
          /\ UNCHANGED tcp
       \/ sys_untimeout(User) /\ UNCHANGED tcp
    /\ pc' = "again"
    /\ UNCHANGED <<table, started, forever, waited, running, msgs>>

\* One tick passes, whatever the thread is doing.
Tick ==
    /\ pc \notin {"ethif", "netif"}
    /\ timeouts' = [k \in DOMAIN timeouts |->
                      [timeouts[k] EXCEPT !.left = IF @ > 0 THEN @ - 1 ELSE 0]]
    /\ waited' = IF pc \in {"wait", "got"} /\ waited < Longest THEN waited + 1 ELSE waited
    /\ UNCHANGED <<memp, lost, table, pc, started, forever, running, tcp, msgs>>

tcpip_thread ==
    \/ low_level_init \/ ethernetif_init \/ Scheduled \/ ThreadStart \/ Fetch
    \/ TimedOut \/ Account \/ UnlinkFirst \/ Handler \/ Message

Next == tcpip_thread \/ Received \/ Tick

Spec == Init /\ [][Next]_vars

\* tcpip_thread has the highest priority but one and the task above it mostly
\* waits, so it runs; time passes.  Nobody owes it a message.
FairSpec == Spec /\ WF_vars(tcpip_thread) /\ WF_vars(Tick)

(***************************************************************************)
(* Properties                                                              *)
(***************************************************************************)
Pending(h) == {k \in DOMAIN timeouts : timeouts[k].h = h}
Calling(h) == pc = "handler" /\ running.h = h

\* No handler is called before its delay has really passed: whatever is
\* inserted, cancelled or accounted for late, the relative times of the list
\* never run ahead of the clock.
NeverEarly == pc = "handler" => running.left = 0

\* Where sys_timeout is about to be called: by ethernetif_init, by tcpip_thread
\* when it starts, by a handler that arms itself again, and by a message that
\* registers the first pcb or arms the user's timer.
Arming ==
    \/ pc = "netif"
    \/ pc = "start" /\ pxCurrentTCB = "tcpip_thread" /\ started < Len(Startup)
    \/ pc = "handler" /\ running.h # User
    \/ pc = "msg" /\ (~tcpip_tcp_timer_active \/ Pending(User) = {})

\* The assertion "sys_timeout: timeout != NULL": however often timers are armed,
\* cancelled and run, and although start-up may lose an element, the pool has
\* one whenever a timer is armed.
ElementFound == Arming => memp > 0

\* The assertion "sys_timeout: timeouts != NULL": whoever arms a timer has a
\* list to put it in.
TimeoutsFound == Arming => sys_arch_timeouts

\* While there are pcbs the TCP timer runs, and it never runs twice: the flag
\* tcpip_tcp_timer_active, the list and the handler agree.
TcpTimerArmed ==
    /\ tcp_pcbs => tcpip_tcp_timer_active
    /\ Cardinality(Pending(TCP_TMR)) + (IF Calling(TCP_TMR) THEN 1 ELSE 0)
         = IF tcpip_tcp_timer_active THEN 1 ELSE 0

\* A timer that tcpip_thread armed is never dropped from the list: inserting,
\* cancelling and running other timers leave it there exactly once.
PeriodicArmed ==
    \A i \in 1..started :
        Cardinality(Pending(Startup[i])) + (IF Calling(Startup[i]) THEN 1 ELSE 0) = 1

\* Once the messages stop, every periodic timer runs again and again.
PeriodicRuns == \A h \in Periodic : []<>Calling(h)

==============================================================================
