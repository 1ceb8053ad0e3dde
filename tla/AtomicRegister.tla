--------------------------- MODULE AtomicRegister --------------------------
(***************************************************************************)
(* What atomic_shared_ptr promises: a register of references to blocks     *)
(* whose operations take effect once and in one step, between their call   *)
(* and their return.  A block is made anew only when neither the register  *)
(* nor a thread refers to it.                                              *)
(***************************************************************************)
CONSTANTS Blocks, Threads, Null

VARIABLES reg,          \* the block the register refers to, or Null
          desired,      \* desired[t], expected[t]: the references of a thread
          expected,
          called        \* the operation that has not taken effect, or "none"

vars == <<reg, desired, expected, called>>

Init ==
    /\ reg = Null
    /\ desired = [t \in Threads |-> Null]
    /\ expected = [t \in Threads |-> Null]
    /\ called = [t \in Threads |-> "none"]

Create(t, b) ==
    /\ called[t] = "none" /\ desired[t] = Null
    /\ b # reg /\ \A u \in Threads : b # desired[u] /\ b # expected[u]
    /\ desired' = [desired EXCEPT ![t] = b]
    /\ UNCHANGED <<reg, expected, called>>

Drop(t) ==
    /\ called[t] = "none"
    /\ \/ desired' = [desired EXCEPT ![t] = Null] /\ UNCHANGED expected
       \/ expected' = [expected EXCEPT ![t] = Null] /\ UNCHANGED desired
    /\ UNCHANGED <<reg, called>>

Call(t, op) ==
    /\ called[t] = "none"
    /\ called' = [called EXCEPT ![t] = op]
    /\ UNCHANGED <<reg, desired, expected>>

Effect(t, op) ==
    /\ called[t] = op
    /\ called' = [called EXCEPT ![t] = "none"]

Load(t) ==
    /\ Effect(t, "load")
    /\ expected' = [expected EXCEPT ![t] = reg]
    /\ UNCHANGED <<reg, desired>>

Exchange(t) ==
    /\ Effect(t, "exchange")
    /\ reg' = desired[t]
    /\ desired' = [desired EXCEPT ![t] = reg]
    /\ UNCHANGED expected

CasSucceeds(t) ==
    /\ Effect(t, "compare_exchange")
    /\ expected[t] = reg
    /\ reg' = desired[t]
    /\ desired' = [desired EXCEPT ![t] = Null]
    /\ UNCHANGED expected

CasFails(t) ==
    /\ Effect(t, "compare_exchange")
    /\ expected[t] # reg
    /\ expected' = [expected EXCEPT ![t] = reg]
    /\ desired' = [desired EXCEPT ![t] = Null]
    /\ UNCHANGED reg

Next ==
    \E t \in Threads :
        \/ \E b \in Blocks : Create(t, b)
        \/ \E op \in {"load", "exchange", "compare_exchange"} : Call(t, op)
        \/ Drop(t) \/ Load(t) \/ Exchange(t) \/ CasSucceeds(t) \/ CasFails(t)

Spec == Init /\ [][Next]_vars
============================================================================
