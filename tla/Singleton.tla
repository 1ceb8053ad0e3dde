----------------------------- MODULE Singleton -----------------------------
(***************************************************************************)
(* include/ciel/core/singleton.hpp: get() by any number of threads, one    *)
(* access of state per step, with a constructor that may throw.            *)
(***************************************************************************)
CONSTANT Threads

VARIABLES
    state,      \* "Uninitialised", "Initialising" or "Initialised"
    res,        \* whether it points to the object
    s, pc       \* of a thread: the local of get, and where it is

singletonVars == <<state, res, s, pc>>

\* "out"; "loop" the test of the loop and the compare_exchange; "spin" the inner
\* loop; "construct"; "publish" and "unset" the stores after it; "return"
Init ==
    /\ state = "Uninitialised" /\ res = FALSE
    /\ s = [t \in Threads |-> "Uninitialised"]
    /\ pc = [t \in Threads |-> "out"]

Goto(t, where) == pc' = [pc EXCEPT ![t] = where]

\* What is done next depends on the state that was read.
Look(t) ==
    /\ s' = [s EXCEPT ![t] = state]
    /\ Goto(t, [Uninitialised |-> "loop", Initialising |-> "spin", Initialised |-> "return"][state])
    /\ UNCHANGED <<state, res>>

Get(t) == pc[t] = "out" /\ Look(t)

CasWins(t) ==
    /\ pc[t] = "loop" /\ state = s[t]
    /\ state' = "Initialising"
    /\ Goto(t, "construct")
    /\ UNCHANGED <<res, s>>

CasLoses(t) == pc[t] = "loop" /\ state # s[t] /\ Look(t)

\* A load that still finds Initialising changes nothing.
Spin(t) == pc[t] = "spin" /\ state # "Initialising" /\ Look(t)

Construct(t) ==
    /\ pc[t] = "construct"
    /\ \/ res' = TRUE /\ Goto(t, "publish")
       \/ Goto(t, "unset") /\ UNCHANGED res
    /\ UNCHANGED <<state, s>>

\* The winner's s is still Uninitialised, and it goes round once more.
Publish(t) ==
    /\ pc[t] = "publish"
    /\ state' = "Initialised"
    /\ Goto(t, "loop")
    /\ UNCHANGED <<res, s>>

\* Faulty variant: the exception leaves the state as it is.
Unset_Forgets(t) ==
    /\ pc[t] = "unset"
    /\ s' = [s EXCEPT ![t] = "Uninitialised"]
    /\ Goto(t, "out")
    /\ UNCHANGED <<state, res>>

\* The exception leaves get.
Unset(t) ==
    /\ pc[t] = "unset"
    /\ state' = "Uninitialised"
    /\ Goto(t, "out")
    /\ UNCHANGED <<res, s>>

Return(t) ==
    /\ pc[t] = "return"
    /\ s' = [s EXCEPT ![t] = "Uninitialised"]
    /\ Goto(t, "out")
    /\ UNCHANGED <<state, res>>

Inside(t) ==
    CasWins(t) \/ CasLoses(t) \/ Spin(t) \/ Construct(t) \/ Publish(t) \/ Unset(t) \/ Return(t)

SingletonNext == \E t \in Threads : Get(t) \/ Inside(t)

Safety == Init /\ [][SingletonNext]_singletonVars

\* A thread inside get is scheduled.
SingletonSpec ==
    /\ Safety
    /\ \A t \in Threads : WF_singletonVars(Inside(t))
----------------------------------------------------------------------------
\* A call has had its exception when state is put back.
Promise == INSTANCE OnceCell WITH
    built <- res,
    calls <- [t \in Threads |->
                 IF pc[t] = "out" THEN "none"
                 ELSE IF pc[t] \in {"construct", "unset"} THEN "building"
                 ELSE "called"]

\* The object is constructed once, by one thread, whoever throws before; a thread
\* that spins tries in its turn, and all get the object once it is there (get).
ImplementsOnce == Promise!Spec

----------------------------------------------------------------------------
\* Why: one thread at a time has won the compare_exchange and not yet stored the
\* outcome; it is the one that state tells of, and res is set just before.
Won(t) == pc[t] \in {"construct", "publish", "unset"}

OneWinner ==
    /\ state \in {"Uninitialised", "Initialising", "Initialised"} /\ res \in BOOLEAN
    /\ s \in [Threads -> {"Uninitialised", "Initialising", "Initialised"}]
    /\ pc \in [Threads ->
                {"out", "loop", "spin", "construct", "publish", "unset", "return"}]
    /\ \A t, u \in Threads : Won(t) /\ Won(u) => t = u
    /\ state = "Initialising" <=> \E t \in Threads : Won(t)
    /\ res <=> state = "Initialised" \/ \E t \in Threads : pc[t] = "publish"
    /\ \A t \in Threads :
          /\ Won(t) \/ pc[t] = "loop" => s[t] = "Uninitialised"
          /\ pc[t] = "return" => state = "Initialised"
============================================================================
