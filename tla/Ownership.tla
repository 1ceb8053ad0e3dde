----------------------------- MODULE Ownership -----------------------------
(***************************************************************************)
(* What shared_ptr and weak_ptr promise about one managed object and its   *)
(* control block, with no counters: a set of owners, a set of observers,   *)
(* and the lifetime of the object and of the block.                        *)
(*                                                                         *)
(* The object without owners is first `alive`, then `expired`: a weak_ptr  *)
(* may still be locked in the first state and never in the second.         *)
(***************************************************************************)
CONSTANTS Shared,       \* shared_ptr objects
          Weak          \* weak_ptr objects

VARIABLES owners,       \* the shared_ptrs that own the object
          observers,    \* the weak_ptrs that refer to the block
          object,       \* "none", "alive", "expired" or "disposed"
          block         \* "none", "allocated" or "freed"

vars == <<owners, observers, object, block>>

Init ==
    /\ owners = {} /\ observers = {}
    /\ object = "none" /\ block = "none"

Create(s) ==
    /\ object = "none"
    /\ owners' = {s}
    /\ object' = "alive" /\ block' = "allocated"
    /\ UNCHANGED observers

\* No block could be allocated: the object handed over is disposed of.
CreateFails ==
    /\ object = "none"
    /\ object' = "disposed"
    /\ UNCHANGED <<owners, observers, block>>

Share(s, t) ==
    /\ s \in owners /\ t \in Shared \ owners
    /\ owners' = owners \cup {t}
    /\ UNCHANGED <<observers, object, block>>

Transfer(s, t) ==
    /\ s \in owners /\ t \in Shared \ owners
    /\ owners' = (owners \ {s}) \cup {t}
    /\ UNCHANGED <<observers, object, block>>

Drop(s) ==
    /\ s \in owners
    /\ owners' = owners \ {s}
    /\ UNCHANGED <<observers, object, block>>

Observe(h, w) ==
    /\ h \in owners \cup observers /\ w \in Weak \ observers
    /\ observers' = observers \cup {w}
    /\ UNCHANGED <<owners, object, block>>

TransferObserver(v, w) ==
    /\ v \in observers /\ w \in Weak \ observers
    /\ observers' = (observers \ {v}) \cup {w}
    /\ UNCHANGED <<owners, object, block>>

Forget(w) ==
    /\ w \in observers
    /\ observers' = observers \ {w}
    /\ UNCHANGED <<owners, object, block>>

\* A lock that succeeds; one that fails changes nothing.
Lock(w, s) ==
    /\ w \in observers /\ s \in Shared \ owners
    /\ object = "alive"
    /\ owners' = owners \cup {s}
    /\ UNCHANGED <<observers, object, block>>

Expire ==
    /\ object = "alive" /\ owners = {}
    /\ object' = "expired"
    /\ UNCHANGED <<owners, observers, block>>

Dispose ==
    /\ object = "expired"
    /\ object' = "disposed"
    /\ UNCHANGED <<owners, observers, block>>

Free ==
    /\ object = "disposed" /\ observers = {}
    /\ block = "allocated"
    /\ block' = "freed"
    /\ UNCHANGED <<owners, observers, object>>

Next ==
    \/ CreateFails
    \/ \E s \in Shared : Create(s) \/ Drop(s)
    \/ \E s, t \in Shared : Share(s, t) \/ Transfer(s, t)
    \/ \E h \in Shared \cup Weak, w \in Weak : Observe(h, w)
    \/ \E v, w \in Weak : TransferObserver(v, w)
    \/ \E w \in Weak : Forget(w)
    \/ \E w \in Weak, s \in Shared : Lock(w, s)
    \/ Expire \/ Dispose \/ Free

Safety == Init /\ [][Next]_vars

\* Nothing leaks: what no one refers to any more is cleaned up.
Spec == Safety /\ WF_vars(Expire) /\ WF_vars(Dispose) /\ WF_vars(Free)
============================================================================
