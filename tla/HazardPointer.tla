--------------------------- MODULE HazardPointer ---------------------------
(***************************************************************************)
(* include/ciel/hazard_pointer.hpp: readers protect what one atomic        *)
(* pointer points to, writers replace it and retire the old object.  One   *)
(* access of the list of slots, or of the pointer, per step.               *)
(*                                                                         *)
(* A reader and a writer may be the same thread.  The store of a           *)
(* protection is a release store, which the processor may keep in its      *)
(* store buffer while the thread's next load goes ahead; it reaches memory *)
(* in a step of its own (Drain), before the thread's later stores.         *)
(*                                                                         *)
(* A retired_list is a set here: the order of its elements matters to no   *)
(* one, and an object that is retired is in no list yet.                   *)
(***************************************************************************)
EXTENDS Integers, FiniteSets

CONSTANTS Objects,
          Readers, Writers,
          InitialSlots,     \* what the constructor of the slot list makes
          MaxSlots,         \* bound: slots in the list
          Threshold,        \* cleanup_threshold, 1000
          Null,             \* nullptr
          Nothing           \* an empty store buffer

ASSUME HazardPointerAssumption ==
    /\ Readers \cap Writers = {} /\ IsFiniteSet(Readers \cup Writers)
    /\ InitialSlots \in Nat \ {0} /\ MaxSlots \in Nat /\ InitialSlots <= MaxSlots
    /\ Threshold \in Nat \ {0}
    /\ Null \notin Objects /\ Nothing \notin Objects \cup {Null}

VARIABLES
    src,            \* the client's std::atomic<T*>
    life,           \* life[o]: "free", "linked", "unlinked" or "retired"
    n,              \* the slots in the list are 1 .. n; 0 after its destruction
    in_use, protected_ptr, retired_list, num_retires, protected_set,
                    \* the fields of the slots
    pc, cur,        \* of a user: where it is, and its slot or 0, nullptr
    ptr,            \* of a user: what it protects or retires
    pending,        \* of a reader: the store in its buffer
    overtook,       \* of a reader, history: its last validating load went
                    \* ahead of the store of its protection
    pos             \* of a writer: the slots its cleanup has visited

slots == <<n, in_use, protected_ptr, retired_list, num_retires, protected_set>>
users == <<pc, cur, ptr, pending, overtook, pos>>
vars == <<src, life, n, in_use, protected_ptr, retired_list, num_retires, protected_set,
          pc, cur, ptr, pending, overtook, pos>>

Users == Readers \cup Writers
Slots == 1 .. MaxSlots

\* "idle"     has no slot
\* "scan"     in get_slot, loads cur's in_use, line 174; "take" exchanges it
\* "next"     loads cur's next, line 179; "append" tries to set it, line 183
\* A reader:
\* "ready"    has a hazard_pointer
\* "protect"  has loaded src into ptr, stores the protection, line 262
\* "validate" loads src again, line 264; "reset" clears the protection
\* "hold"     protect or try_protect has succeeded
\* A writer:
\* "push"     has a slot for the retired object
\* "collect"  cleanup scans the slots, lines 308-315; "sweep" reclaims
\* "return"   returns its slot
Getting == {"scan", "take", "next", "append"}
Collecting == {"collect", "sweep"}
States == Getting \cup Collecting \cup
          {"idle", "ready", "protect", "validate", "reset", "hold", "push", "return"}

Goto(u, state) == pc' = [pc EXCEPT ![u] = state]

Init ==
    /\ src = Null /\ life = [o \in Objects |-> "free"]
    /\ n = InitialSlots
    /\ in_use = [s \in Slots |-> FALSE]
    /\ protected_ptr = [s \in Slots |-> Null]
    /\ retired_list = [s \in Slots |-> {}]
    /\ num_retires = [s \in Slots |-> 0]
    /\ protected_set = [s \in Slots |-> {}]
    /\ pc = [u \in Users |-> "idle"] /\ cur = [u \in Users |-> 0]
    /\ ptr = [u \in Users |-> Null]
    /\ pending = [r \in Readers |-> Nothing]
    /\ overtook = [r \in Readers |-> FALSE]
    /\ pos = [w \in Writers |-> 0]

----------------------------------------------------------------------------
\* get_slot and return_slot.

StartGet(u) ==
    /\ Goto(u, "scan")
    /\ cur' = [cur EXCEPT ![u] = 1]

\* get_slot returns: make_hazard_pointer for a reader, retire for a writer.
GotSlot(u) == Goto(u, IF u \in Readers THEN "ready" ELSE "push")

Make(r) ==
    /\ pc[r] = "idle" /\ n > 0
    /\ StartGet(r)
    /\ UNCHANGED <<src, life, slots, ptr, pending, overtook, pos>>

ScanSlot(u) ==
    /\ pc[u] = "scan"
    /\ Goto(u, IF in_use[cur[u]] THEN "next" ELSE "take")
    /\ UNCHANGED <<src, life, slots, cur, ptr, pending, overtook, pos>>

\* Faulty variant: the slot seen unused is taken for still unused.
TakeSlot_Stores(u) ==
    /\ pc[u] = "take"
    /\ in_use' = [in_use EXCEPT ![cur[u]] = TRUE]
    /\ GotSlot(u)
    /\ UNCHANGED <<src, life, n, protected_ptr, retired_list, num_retires, protected_set>>
    /\ UNCHANGED <<cur, ptr, pending, overtook, pos>>

TakeSlot(u) ==
    /\ pc[u] = "take"
    /\ in_use' = [in_use EXCEPT ![cur[u]] = TRUE]
    /\ IF in_use[cur[u]] THEN Goto(u, "next") ELSE GotSlot(u)
    /\ UNCHANGED <<src, life, n, protected_ptr, retired_list, num_retires, protected_set>>
    /\ UNCHANGED <<cur, ptr, pending, overtook, pos>>

NextSlot(u) ==
    /\ pc[u] = "next"
    /\ IF cur[u] = n
       THEN Goto(u, "append") /\ UNCHANGED cur
       ELSE Goto(u, "scan") /\ cur' = [cur EXCEPT ![u] = cur[u] + 1]
    /\ UNCHANGED <<src, life, slots, ptr, pending, overtook, pos>>

\* The compare_exchange_weak of next, from nullptr to a new slot.  When it fails
\* the next turn is at what was found there: the slot another user has appended,
\* or, after a spurious failure, nullptr.  That turn is undefined, and u takes no
\* further step.
AppendSlot(u) ==
    /\ pc[u] = "append" /\ cur[u] # 0
    /\ \/ /\ cur[u] = n /\ n < MaxSlots
          /\ n' = n + 1
          /\ in_use' = [in_use EXCEPT ![n + 1] = TRUE]
          /\ cur' = [cur EXCEPT ![u] = n + 1]
          /\ GotSlot(u)
       \/ /\ cur' = [cur EXCEPT ![u] = IF cur[u] = n THEN 0 ELSE cur[u] + 1]
          /\ UNCHANGED <<n, in_use, pc>>
    /\ UNCHANGED <<src, life, protected_ptr, retired_list, num_retires, protected_set>>
    /\ UNCHANGED <<ptr, pending, overtook, pos>>

ReturnSlot(u) ==
    /\ in_use' = [in_use EXCEPT ![cur[u]] = FALSE]
    /\ Goto(u, "idle")
    /\ cur' = [cur EXCEPT ![u] = 0]
    /\ ptr' = [ptr EXCEPT ![u] = Null]
    /\ UNCHANGED <<src, life, n, protected_ptr, retired_list, num_retires, protected_set>>

----------------------------------------------------------------------------
\* Readers: protect, try_protect, reset_protection and the destructor.

\* A store goes into the buffer, when older ones have left it.
StoreProtection(r, value) ==
    /\ pending[r] = Nothing
    /\ pending' = [pending EXCEPT ![r] = value]

Drain(r) ==
    /\ pending[r] # Nothing
    /\ protected_ptr' = [protected_ptr EXCEPT ![cur[r]] = pending[r]]
    /\ pending' = [pending EXCEPT ![r] = Nothing]
    /\ UNCHANGED <<src, life, n, in_use, retired_list, num_retires, protected_set>>
    /\ UNCHANGED <<pc, cur, ptr, overtook, pos>>

\* protect's first load, or the caller's before try_protect.
LoadSource(r) ==
    /\ pc[r] \in {"ready", "hold"}
    /\ ptr' = [ptr EXCEPT ![r] = src]
    /\ Goto(r, "protect")
    /\ overtook' = [overtook EXCEPT ![r] = FALSE]
    /\ UNCHANGED <<src, life, slots, cur, pending, pos>>

Protect(r) ==
    /\ pc[r] = "protect"
    /\ StoreProtection(r, ptr[r])
    /\ Goto(r, "validate")
    /\ UNCHANGED <<src, life, slots, cur, ptr, overtook, pos>>

\* Faulty variant: the pointer loaded first is taken for still valid.
Validate_Skips(r) ==
    /\ pc[r] = "validate"
    /\ overtook' = [overtook EXCEPT ![r] = pending[r] # Nothing]
    /\ Goto(r, "hold")
    /\ UNCHANGED <<src, life, slots, cur, ptr, pending, pos>>

Validate(r) ==
    /\ pc[r] = "validate"
    /\ ptr' = [ptr EXCEPT ![r] = src]
    /\ overtook' = [overtook EXCEPT ![r] = pending[r] # Nothing]
    /\ Goto(r, IF src = ptr[r] THEN "hold" ELSE "reset")
    /\ UNCHANGED <<src, life, slots, cur, pending, pos>>

\* try_protect fails: protect tries again with the new pointer, another caller
\* may give up.
Reset(r) ==
    /\ pc[r] = "reset"
    /\ StoreProtection(r, Null)
    /\ pc' \in {[pc EXCEPT ![r] = "protect"], [pc EXCEPT ![r] = "ready"]}
    /\ overtook' = [overtook EXCEPT ![r] = FALSE]
    /\ UNCHANGED <<src, life, slots, cur, ptr, pos>>

\* reset_protection()
Release(r) ==
    /\ pc[r] = "hold"
    /\ StoreProtection(r, Null)
    /\ Goto(r, "ready")
    /\ overtook' = [overtook EXCEPT ![r] = FALSE]
    /\ UNCHANGED <<src, life, slots, cur, ptr, pos>>

\* The hazard_pointer is destroyed.  Its slot keeps the protection.
Drop(r) ==
    /\ pc[r] \in {"ready", "hold"}
    /\ pending[r] = Nothing
    /\ ReturnSlot(r)
    /\ overtook' = [overtook EXCEPT ![r] = FALSE]
    /\ UNCHANGED <<pending, pos>>

----------------------------------------------------------------------------
\* Writers: the client's exchange of src, and retire.

Replace(w, o) ==
    /\ pc[w] = "idle" /\ n > 0
    /\ life[o] = "free"
    /\ src' = o
    /\ life' = [p \in Objects |->
                    IF p = o THEN "linked" ELSE IF p = src THEN "unlinked" ELSE life[p]]
    /\ ptr' = [ptr EXCEPT ![w] = src]
    /\ IF src = Null THEN UNCHANGED <<pc, cur>> ELSE StartGet(w)
    /\ UNCHANGED <<slots, pending, overtook, pos>>

\* retire, and cleanup up to its first access of another slot.
Push(w) ==
    /\ pc[w] = "push"
    /\ retired_list' = [retired_list EXCEPT ![cur[w]] = @ \cup {ptr[w]}]
    /\ life' = [life EXCEPT ![ptr[w]] = "retired"]
    /\ ptr' = [ptr EXCEPT ![w] = Null]
    /\ LET count == num_retires[cur[w]] + 1 IN
        IF count >= Threshold
        THEN Goto(w, "collect") /\ num_retires' = [num_retires EXCEPT ![cur[w]] = 0]
        ELSE Goto(w, "return") /\ num_retires' = [num_retires EXCEPT ![cur[w]] = count]
    /\ UNCHANGED <<src, n, in_use, protected_ptr, protected_set, cur, pending, overtook, pos>>

\* One slot of the scan.
Collect(w) ==
    /\ pc[w] = "collect" /\ pos[w] < n
    /\ pos' = [pos EXCEPT ![w] = pos[w] + 1]
    /\ protected_set' = [protected_set EXCEPT ![cur[w]] =
          @ \cup ({protected_ptr[pos[w] + 1]} \ {Null})]
    /\ UNCHANGED <<src, life, n, in_use, protected_ptr, retired_list, num_retires>>
    /\ UNCHANGED <<pc, cur, ptr, pending, overtook>>

EndCollect(w) ==
    /\ pc[w] = "collect" /\ pos[w] = n
    /\ Goto(w, "sweep")
    /\ UNCHANGED <<src, life, slots, cur, ptr, pending, overtook, pos>>

\* Faulty variant: the object destroyed stays in the list.
Sweep_KeepsLink(w, o) ==
    /\ pc[w] = "sweep"
    /\ o \in retired_list[cur[w]] \ protected_set[cur[w]]
    /\ life[o] = "retired"
    /\ life' = [life EXCEPT ![o] = "free"]
    /\ UNCHANGED <<src, slots, users>>

\* hp_destroy of an object that is not protected.
Sweep(w, o) ==
    /\ pc[w] = "sweep"
    /\ o \in retired_list[cur[w]] \ protected_set[cur[w]]
    /\ retired_list' = [retired_list EXCEPT ![cur[w]] = @ \ {o}]
    /\ life' = [life EXCEPT ![o] = "free"]
    /\ UNCHANGED <<src, n, in_use, protected_ptr, num_retires, protected_set, users>>

\* Faulty variant: the sweep stops at the first object that is protected.
EndSweep_AtFirst(w) ==
    /\ pc[w] = "sweep"
    /\ \/ retired_list[cur[w]] \cap protected_set[cur[w]] # {}
       \/ retired_list[cur[w]] = {}
    /\ protected_set' = [protected_set EXCEPT ![cur[w]] = {}]
    /\ Goto(w, "return")
    /\ pos' = [pos EXCEPT ![w] = 0]
    /\ UNCHANGED <<src, life, n, in_use, protected_ptr, retired_list, num_retires>>
    /\ UNCHANGED <<cur, ptr, pending, overtook>>

EndSweep(w) ==
    /\ pc[w] = "sweep"
    /\ retired_list[cur[w]] \subseteq protected_set[cur[w]]
    /\ protected_set' = [protected_set EXCEPT ![cur[w]] = {}]
    /\ Goto(w, "return")
    /\ pos' = [pos EXCEPT ![w] = 0]
    /\ UNCHANGED <<src, life, n, in_use, protected_ptr, retired_list, num_retires>>
    /\ UNCHANGED <<cur, ptr, pending, overtook>>

EndRetire(w) ==
    /\ pc[w] = "return"
    /\ ReturnSlot(w)
    /\ UNCHANGED <<pending, overtook, pos>>

----------------------------------------------------------------------------
\* ~hazard_slot_headquarter, at the end of the program: every slot is deleted
\* and with it what its retired_list holds.
Shutdown ==
    /\ n > 0 /\ \A u \in Users : pc[u] = "idle"
    /\ n' = 0
    /\ life' = [o \in Objects |->
                    IF \E s \in 1 .. n : o \in retired_list[s] THEN "free" ELSE life[o]]
    /\ in_use' = [s \in Slots |-> FALSE]
    /\ protected_ptr' = [s \in Slots |-> Null]
    /\ retired_list' = [s \in Slots |-> {}]
    /\ num_retires' = [s \in Slots |-> 0]
    /\ UNCHANGED <<src, protected_set, users>>

GetSlot(u) == ScanSlot(u) \/ TakeSlot(u) \/ NextSlot(u) \/ AppendSlot(u)

Read(r) ==
    \/ LoadSource(r) \/ Protect(r) \/ Validate(r) \/ Reset(r)
    \/ Release(r) \/ Drop(r)

Retire(w) ==
    \/ Push(w) \/ Collect(w) \/ EndCollect(w)
    \/ EndSweep(w) \/ EndRetire(w) \/ \E o \in Objects : Sweep(w, o)

Next ==
    \/ \E u \in Users : GetSlot(u)
    \/ \E r \in Readers : Make(r) \/ Read(r) \/ Drain(r)
    \/ \E w \in Writers : Retire(w) \/ \E o \in Objects : Replace(w, o)
    \/ Shutdown

Spec == Init /\ [][Next]_vars

----------------------------------------------------------------------------
TypeOK ==
    /\ src \in Objects \cup {Null}
    /\ life \in [Objects -> {"free", "linked", "unlinked", "retired"}]
    /\ n \in 0 .. MaxSlots
    /\ in_use \in [Slots -> BOOLEAN]
    /\ protected_ptr \in [Slots -> Objects \cup {Null}]
    /\ retired_list \in [Slots -> SUBSET Objects]
    /\ num_retires \in [Slots -> 0 .. Threshold - 1]
    /\ protected_set \in [Slots -> SUBSET Objects]
    /\ pc \in [Users -> States]
    /\ cur \in [Users -> 0 .. n]
    /\ ptr \in [Users -> Objects \cup {Null}]
    /\ pending \in [Readers -> Objects \cup {Null, Nothing}]
    /\ overtook \in [Readers -> BOOLEAN]
    /\ pos \in [Writers -> 0 .. n]

HasSlot(u) == pc[u] \notin Getting \cup {"idle"}

\* A slot has one owner, and is in use exactly while it has one: a retired_list
\* and the other plain fields are never shared ("True if this hazard_slot is
\* currently owned by a thread").  The list grows to one slot per user at most: a
\* search appends only if each slot there had another owner when it passed, never
\* all of them at once.
OneOwner ==
    /\ \A u, v \in Users : HasSlot(u) /\ HasSlot(v) /\ cur[u] = cur[v] => u = v
    /\ \A s \in Slots : in_use[s] <=> \E u \in Users : HasSlot(u) /\ cur[u] = s

OneSlotPerUser == n <= InitialSlots \/ n <= Cardinality(Users)

SlotsOwnedOnce == TypeOK /\ OneOwner /\ OneSlotPerUser

\* A reader that may use ptr, its protection being in memory before it was
\* validated.
Protects(r) == pc[r] = "hold" /\ ~overtook[r] /\ ptr[r] # Null

\* Whichever slot retires it, a retired object is in exactly one list, and what
\* is in a list is retired: nothing is reclaimed twice or forgotten when slots
\* change hands or when the program ends.
RetiredOnce ==
    \A o \in Objects :
        /\ life[o] = "retired" => \E s \in 1 .. n : o \in retired_list[s]
        /\ \A s, t \in Slots :
              o \in retired_list[s] =>
                  life[o] = "retired" /\ (o \in retired_list[t] => s = t)

\* A slot's garbage is bounded: between cleanups it has the objects retired
\* since the last one and those that one found protected, one per slot at most.
GarbageBounded ==
    \A s \in 1 .. n :
        \/ \E w \in Writers : cur[w] = s /\ pc[w] \in Collecting
        \/ Cardinality(retired_list[s]) <= num_retires[s] + n

\* An object in use by a reader is not reclaimed ("Protects the object that it
\* points to. Other threads scan for the set of all such pointers before they
\* clean up").
HeldIsAlive ==
    \A r \in Readers : pc[r] = "hold" /\ ptr[r] # Null => life[ptr[r]] # "free"

\* get_slot never follows a null pointer (CIEL_ASSERT(cur != nullptr),
\* hazard_pointer.hpp:171).
CurNotNull == \A u \in Users : pc[u] \in Getting => cur[u] # 0

\* The promise holds for the readers whose validating load did not overtake the
\* store of their protection: no object is reclaimed that one of them uses, and
\* they start using only what is still linked.
Promise == INSTANCE Reclamation WITH
    held <- [r \in Readers |-> IF Protects(r) THEN ptr[r] ELSE Null]

ImplementsReclamation == Promise!Spec

----------------------------------------------------------------------------
\* Why they hold: together the following are inductive.

\* A user has a place in the list except when idle, or lost at its end.
Located ==
    /\ \A u \in Users : IF pc[u] = "idle" THEN cur[u] = 0 ELSE pc[u] = "append" \/ cur[u] # 0
    /\ \A r \in Readers : pc[r] \notin Collecting \cup {"push", "return"}
    /\ \A w \in Writers :
          pc[w] \notin {"ready", "protect", "validate", "reset", "hold"}

\* The slots a user has passed are those below its level.  An appender's level
\* says nothing: the slot it goes on to may be free by then.
Appenders == {u \in Users : pc[u] = "append"}
Level(u) == IF pc[u] = "next" THEN cur[u] + 1 ELSE cur[u]
Behind(i) == {u \in Users \ Appenders : Level(u) < i}

\* Whoever has passed i slots has left as many users behind; whoever appends has
\* seen the end of the list that way, and each that succeeds stays there.
OthersBehind ==
    /\ \A u \in Users \ Appenders : \A i \in 1 .. Level(u) : Cardinality(Behind(i)) >= i - 1
    /\ Appenders # {} => Cardinality(Users \ Appenders) >= n

\* The object in src is the linked one; one that was replaced and is not yet
\* retired belongs to the writer that replaced it.
Replacing(w) == pc[w] \in Getting \cup {"push"}

ReplacedOnce ==
    /\ \A o \in Objects : life[o] = "linked" <=> o = src
    /\ \A w \in Writers : Replacing(w) => ptr[w] # Null /\ life[ptr[w]] = "unlinked"
    /\ \A v, w \in Writers : Replacing(v) /\ Replacing(w) /\ ptr[v] = ptr[w] => v = w

\* A protection that has left the store buffer stays until its owner stores again.
Protected ==
    \A r \in Readers :
        /\ ~HasSlot(r) => pending[r] = Nothing
        /\ pc[r] = "validate" => pending[r] \in {ptr[r], Nothing}
        /\ pc[r] = "hold" /\ ~overtook[r] => pending[r] = Nothing
        /\ \/ pc[r] = "validate" /\ pending[r] = Nothing
           \/ pc[r] = "hold" /\ ~overtook[r]
           => protected_ptr[cur[r]] = ptr[r]

\* A cleanup has collected, or has still to visit, each protection of an object
\* in its list: none of them is new, since a reader starts with what is linked.
CleanupSees ==
    \A w \in Writers, r \in Readers :
        /\ pc[w] \in Collecting /\ Protects(r) /\ ptr[r] \in retired_list[cur[w]]
        => \/ ptr[r] \in protected_set[cur[w]]
           \/ pc[w] = "collect" /\ pos[w] < cur[r]

\* A protected_set has one object at most for each slot visited, and is empty
\* between cleanups.
CollectedBounded ==
    /\ \A w \in Writers :
          IF pc[w] \in Collecting
          THEN /\ IsFiniteSet(protected_set[cur[w]])
               /\ Cardinality(protected_set[cur[w]]) <= pos[w]
          ELSE pos[w] = 0
    /\ \A s \in Slots :
          /\ protected_set[s] # {} => \E w \in Writers : cur[w] = s /\ pc[w] \in Collecting
          /\ IsFiniteSet(retired_list[s])
          /\ s > n => retired_list[s] = {}

IInv ==
    /\ SlotsOwnedOnce /\ RetiredOnce /\ GarbageBounded
    /\ Located /\ OthersBehind /\ ReplacedOnce /\ Protected /\ CleanupSees /\ CollectedBounded
============================================================================
