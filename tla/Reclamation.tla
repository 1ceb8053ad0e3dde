---------------------------- MODULE Reclamation ----------------------------
(***************************************************************************)
(* What hazard pointers promise about the objects behind one shared        *)
(* pointer: an object is reclaimed once, after it was retired, and while   *)
(* no reader holds it.  A reclaimed object's address may be used again.    *)
(***************************************************************************)
CONSTANTS Objects, Readers,
          Null

VARIABLES life,     \* life[o]: "free", "linked", "unlinked" or "retired"
          held      \* held[r]: the object reader r may use, or Null

Init == life = [o \in Objects |-> "free"] /\ held = [r \in Readers |-> Null]

\* A new object becomes reachable, in place of at most one other.
Link(o) ==
    /\ life[o] = "free"
    /\ life' = [p \in Objects |->
                    IF p = o THEN "linked"
                    ELSE IF life[p] = "linked" THEN "unlinked" ELSE life[p]]
    /\ UNCHANGED held

Retire(o) ==
    /\ life[o] = "unlinked"
    /\ life' = [life EXCEPT ![o] = "retired"]
    /\ UNCHANGED held

Acquire(r, o) ==
    /\ life[o] = "linked"
    /\ held' = [held EXCEPT ![r] = o]
    /\ UNCHANGED life

Release(r) ==
    /\ held' = [held EXCEPT ![r] = Null]
    /\ UNCHANGED life

Reclaim(o) ==
    /\ life[o] = "retired"
    /\ \A r \in Readers : held[r] # o
    /\ life' = [life EXCEPT ![o] = "free"]
    /\ UNCHANGED held

\* The end of the program reclaims whatever was retired.
ReclaimAll ==
    /\ \A r \in Readers : held[r] = Null
    /\ life' = [o \in Objects |-> IF life[o] = "retired" THEN "free" ELSE life[o]]
    /\ UNCHANGED held

Next ==
    \/ \E o \in Objects : Link(o) \/ Retire(o) \/ Reclaim(o)
    \/ \E r \in Readers : Release(r) \/ \E o \in Objects : Acquire(r, o)
    \/ ReclaimAll

Spec == Init /\ [][Next]_<<life, held>>
============================================================================
