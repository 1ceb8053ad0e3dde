------------------------------ MODULE OnceCell -----------------------------
(***************************************************************************)
(* What singleton::get promises: one caller at a time tries to build the   *)
(* object; if that throws, so does its call, and another caller tries      *)
(* again; once the object is there, everybody gets it.                     *)
(***************************************************************************)
CONSTANT Threads

VARIABLES built, calls

Init == built = FALSE /\ calls = [t \in Threads |-> "none"]

Move(t, from, to) == calls[t] = from /\ calls' = [calls EXCEPT ![t] = to]

Call(t) == Move(t, "none", "called") /\ UNCHANGED built

Begin(t) ==
    /\ ~built /\ \A u \in Threads : calls[u] # "building"
    /\ Move(t, "called", "building") /\ UNCHANGED built

Build(t) == Move(t, "building", "called") /\ built' = TRUE

Throw(t) == Move(t, "building", "none") /\ UNCHANGED built

Return(t) == built /\ Move(t, "called", "none") /\ UNCHANGED built

Next == \E t \in Threads : Call(t) \/ Begin(t) \/ Build(t) \/ Throw(t) \/ Return(t)

cellVars == <<built, calls>>

Safety == Init /\ [][Next]_cellVars

\* Somebody tries as long as it takes, and nobody waits for ever for what is there.
Spec ==
    /\ Safety
    /\ WF_cellVars(\E t \in Threads : Begin(t))
    /\ \A t \in Threads : WF_cellVars(Build(t) \/ Throw(t)) /\ WF_cellVars(Return(t))
============================================================================
