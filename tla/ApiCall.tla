------------------------------- MODULE ApiCall -------------------------------
(***************************************************************************)
(* What a netconn call promises its caller.  A thread asks, tcpip_thread   *)
(* answers exactly once, and only then does the thread go on: to its own   *)
(* work or to its next call.  NetconnApi, where the call is a message in a *)
(* mailbox, a pending operation of the netconn and a binary semaphore,     *)
(* implements this.                                                        *)
(***************************************************************************)
CONSTANT Threads

VARIABLE phase

Init == phase = [t \in Threads |-> "idle"]

\* The call is made; the api_msg is on the caller's stack.
Ask(t) ==
    /\ phase[t] = "idle"
    /\ phase' = [phase EXCEPT ![t] = "asked"]

\* The function has been executed, the operation it began has ended.
Answer(t) ==
    /\ phase[t] = "asked"
    /\ phase' = [phase EXCEPT ![t] = "answered"]

\* The caller has seen the answer; often it calls again at once.
Return(t) ==
    /\ phase[t] = "answered"
    /\ \E p \in {"idle", "asked"} : phase' = [phase EXCEPT ![t] = p]

Next == \E t \in Threads : Ask(t) \/ Answer(t) \/ Return(t)

Spec == Init /\ [][Next]_phase

==============================================================================
