---------------------------- MODULE Delegation -----------------------------
(***************************************************************************)
(* What with(lock, f) promises its callers: every call's functor is run    *)
(* exactly once, by some thread, alone, before the call returns.           *)
(***************************************************************************)
CONSTANT Threads

VARIABLE call       \* call[t]: "none", "pending", "running" or "done"

Init == call = [t \in Threads |-> "none"]

Step(t, from, to) ==
    /\ call[t] = from
    /\ call' = [call EXCEPT ![t] = to]

Request(t) == Step(t, "none", "pending")

Begin(t) ==
    /\ \A u \in Threads : call[u] # "running"
    /\ Step(t, "pending", "running")

Finish(t) == Step(t, "running", "done")

Return(t) == Step(t, "done", "none")

Next == \E t \in Threads : Request(t) \/ Begin(t) \/ Finish(t) \/ Return(t)

Safety == Init /\ [][Next]_call

\* No call waits forever for its functor to run.
Spec == Safety /\ \A t \in Threads : SF_call(Begin(t)) /\ WF_call(Finish(t))
============================================================================
