----------------------------- MODULE SharedPtr -----------------------------
(***************************************************************************)
(* One control block of include/ciel/shared_ptr.hpp and the shared_ptr and *)
(* weak_ptr objects that refer to it, at the granularity of the atomic     *)
(* accesses of shared_count_ (module ReferenceCounter) and weak_count_.    *)
(*                                                                         *)
(* The processes are the smart pointer objects.  An operation on a pointer *)
(* runs on whichever thread calls it; the standard's rule that one object  *)
(* is not modified by two threads at once makes the object its own         *)
(* program counter.  Assignment, reset and swap are compositions of the    *)
(* constructors, moves and destructors below on temporaries, as in the     *)
(* code, where operator= swaps a temporary copy with *this.                *)
(***************************************************************************)
EXTENDS ReferenceCounter, FiniteSets

CONSTANTS Shared,           \* shared_ptr objects
          Weak,             \* weak_ptr objects
          MaxFailedLocks    \* bound: increments of a count stuck at zero

ASSUME SharedPtrAssumption ==
    /\ IsFiniteSet(Shared) /\ IsFiniteSet(Weak)
    /\ Shared \cap Weak = {}
    /\ Cardinality(Shared) < ZeroFlag
    /\ MaxFailedLocks \in Nat

VARIABLES
    weak_count,     \* weak_count_
    pc,             \* where each pointer object is, see States
    object,         \* "none", "alive" or "disposed"
    block,          \* "none", "allocated" or "freed"
    revived,        \* history: a lock found the count at 0, flag not yet set
    sawZero         \* history: some use_count() returned 0

vars == <<impl, weak_count, pc, object, block, revived, sawZero>>

Pointers == Shared \cup Weak

\* "null"     holds no control block
\* "live"     holds one
\* "zeroed"   its fetch_sub took shared_count_ to 0, the flag is not set yet
\* "dispose"  its decrement returned true, dispose() is next
\* "weak"     about to run weak_count_release
\* "sub"      weak_count_ was not 1, its fetch_sub is next
\* "destroy"  about to run destroy()
\* "wild"     it touched the block after destroy() freed it
States == {"null", "live", "zeroed", "dispose", "weak", "sub", "destroy", "wild"}

Live == {s \in Shared : pc[s] = "live"}

\* Those whose unit of weak_count_ is still there.
WeakRefs == {w \in Weak : pc[w] = "live"} \cup {h \in Pointers : pc[h] \in {"weak", "sub"}}

Goto(h, state) == pc' = [pc EXCEPT ![h] = state]

Init ==
    /\ impl = 0 /\ weak_count = 0
    /\ pc = [h \in Pointers |-> "null"]
    /\ object = "none" /\ block = "none"
    /\ revived = FALSE /\ sawZero = FALSE

----------------------------------------------------------------------------
\* Construction, copies and moves.

\* Faulty variant: the count starts at zero and the increment is forgotten.
Construct_StartsAtZero(s) ==
    /\ object = "none"
    /\ impl' = 0 /\ weak_count' = 1
    /\ Goto(s, "live")
    /\ object' = "alive" /\ block' = "allocated"
    /\ UNCHANGED <<revived, sawZero>>

\* A constructor that takes the object and allocates the control block,
\* allocate_shared included.
Construct(s) ==
    /\ object = "none"
    /\ impl' = 1 /\ weak_count' = 1
    /\ Goto(s, "live")
    /\ object' = "alive" /\ block' = "allocated"
    /\ UNCHANGED <<revived, sawZero>>

\* The same constructor when alloc_control_block throws.
ConstructThrows ==
    /\ object = "none"
    /\ object' = "disposed"
    /\ UNCHANGED <<impl, weak_count, pc, block, revived, sawZero>>

CopyShared(r, s) ==
    /\ pc[r] = "live" /\ pc[s] = "null"
    /\ FetchAdd(1)
    /\ Goto(s, "live")
    /\ UNCHANGED <<weak_count, object, block, revived, sawZero>>

\* A move between two pointers of one kind touches no counter.
Move(r, h) ==
    /\ pc[r] = "live" /\ pc[h] = "null"
    /\ pc' = [pc EXCEPT ![r] = "null", ![h] = "live"]
    /\ UNCHANGED <<impl, weak_count, object, block, revived, sawZero>>

\* weak_ptr(const shared_ptr&) and weak_ptr(const weak_ptr&).
CopyWeak(r, w) ==
    /\ pc[r] = "live" /\ pc[w] = "null"
    /\ weak_count' = weak_count + 1
    /\ Goto(w, "live")
    /\ UNCHANGED <<impl, object, block, revived, sawZero>>

----------------------------------------------------------------------------
\* weak_ptr::lock and shared_ptr(const weak_ptr&).

\* Faulty variant: the flag is not looked at.
LockSucceeds_IgnoresFlag(w, s) ==
    /\ pc[w] = "live" /\ pc[s] = "null"
    /\ FetchAdd(1)
    /\ Goto(s, "live")
    /\ UNCHANGED <<weak_count, object, block, revived, sawZero>>

LockSucceeds(w, s) ==
    /\ pc[w] = "live" /\ pc[s] = "null"
    /\ ~IsStuck
    /\ FetchAdd(1)
    /\ Goto(s, "live")
    /\ revived' = (revived \/ impl = 0)
    /\ UNCHANGED <<weak_count, object, block, sawZero>>

LockFails(w) ==
    /\ pc[w] = "live"
    /\ IsStuck
    /\ impl < ZeroFlag + MaxFailedLocks
    /\ FetchAdd(1)
    /\ UNCHANGED <<weak_count, pc, object, block, revived, sawZero>>

\* use_count() and expired().
UseCount(h) ==
    /\ pc[h] = "live"
    /\ sawZero' = (sawZero \/ LoadCount = 0)
    /\ UNCHANGED <<impl, weak_count, pc, object, block, revived>>

----------------------------------------------------------------------------
\* The destructors: shared_count_release and weak_count_release.

ReleaseShared(s) ==
    /\ pc[s] = "live"
    /\ FetchSub(1)
    /\ Goto(s, IF HitsZero(1) THEN "zeroed" ELSE "null")
    /\ UNCHANGED <<weak_count, object, block, revived, sawZero>>

\* Faulty variant: a store of the flag instead of the compare_exchange.
StickZero_Stores(s) ==
    /\ pc[s] = "zeroed" /\ block = "allocated"
    /\ impl' = ZeroFlag
    /\ Goto(s, "dispose")
    /\ UNCHANGED <<weak_count, object, block, revived, sawZero>>

\* Faulty variant: compare_exchange_weak, which may fail spuriously.
StickZero_Weak(s) ==
    /\ pc[s] = "zeroed" /\ block = "allocated"
    /\ \/ CasZeroFlag /\ Goto(s, IF SetsFlag THEN "dispose" ELSE "null")
       \/ Goto(s, "null") /\ UNCHANGED impl
    /\ UNCHANGED <<weak_count, object, block, revived, sawZero>>

StickZero(s) ==
    /\ pc[s] = "zeroed" /\ block = "allocated"
    /\ CasZeroFlag
    /\ Goto(s, IF SetsFlag THEN "dispose" ELSE "null")
    /\ UNCHANGED <<weak_count, object, block, revived, sawZero>>

Dispose(s) ==
    /\ pc[s] = "dispose" /\ block = "allocated"
    /\ object' = "disposed"
    /\ Goto(s, "weak")
    /\ UNCHANGED <<impl, weak_count, block, revived, sawZero>>

\* ~weak_ptr and weak_ptr::reset.
ReleaseWeak(w) ==
    /\ pc[w] = "live"
    /\ Goto(w, "weak")
    /\ UNCHANGED <<impl, weak_count, object, block, revived, sawZero>>

\* Faulty variant: the shortcut is taken one reference too early.
LoadWeakCount_OffByOne(h) ==
    /\ pc[h] = "weak" /\ block = "allocated"
    /\ Goto(h, IF weak_count <= 2 THEN "destroy" ELSE "sub")
    /\ UNCHANGED <<impl, weak_count, object, block, revived, sawZero>>

LoadWeakCount(h) ==
    /\ pc[h] = "weak" /\ block = "allocated"
    /\ Goto(h, IF weak_count = 1 THEN "destroy" ELSE "sub")
    /\ UNCHANGED <<impl, weak_count, object, block, revived, sawZero>>

SubWeakCount(h) ==
    /\ pc[h] = "sub" /\ block = "allocated"
    /\ weak_count' = weak_count - 1
    /\ Goto(h, IF weak_count = 1 THEN "destroy" ELSE "null")
    /\ UNCHANGED <<impl, object, block, revived, sawZero>>

Destroy(h) ==
    /\ pc[h] = "destroy" /\ block = "allocated"
    /\ block' = "freed"
    /\ Goto(h, "null")
    /\ UNCHANGED <<impl, weak_count, object, revived, sawZero>>

\* The next access of h is to a freed block.  Its outcome is undefined, and h
\* takes no further step.
TouchFreed(h) ==
    /\ pc[h] \in {"zeroed", "dispose", "weak", "sub", "destroy"}
    /\ block = "freed"
    /\ Goto(h, "wild")
    /\ UNCHANGED <<impl, weak_count, object, block, revived, sawZero>>

----------------------------------------------------------------------------
Construction == ConstructThrows \/ \E s \in Shared : Construct(s)

Copying ==
    \/ \E r, s \in Shared : CopyShared(r, s)
    \/ \E r \in Pointers, w \in Weak : CopyWeak(r, w)
    \/ \E r, h \in Shared : Move(r, h)
    \/ \E r, h \in Weak : Move(r, h)

Observing ==
    \/ \E w \in Weak, s \in Shared : LockSucceeds(w, s)
    \/ \E w \in Weak : LockFails(w)
    \/ \E h \in Pointers : UseCount(h)

SharedRelease(s) == ReleaseShared(s) \/ StickZero(s) \/ Dispose(s)

WeakRelease(h) == LoadWeakCount(h) \/ SubWeakCount(h) \/ Destroy(h) \/ TouchFreed(h)

Next ==
    \/ Construction \/ Copying \/ Observing
    \/ \E s \in Shared : SharedRelease(s)
    \/ \E w \in Weak : ReleaseWeak(w)
    \/ \E h \in Pointers : WeakRelease(h)

Safety == Init /\ [][Next]_vars

\* A destructor that has begun goes on: its thread is scheduled eventually.
\* Nothing makes a client copy, lock or drop a pointer.
Fairness ==
    /\ \A s \in Shared : WF_vars(StickZero(s)) /\ WF_vars(Dispose(s))
    /\ \A h \in Pointers : WF_vars(WeakRelease(h))

Spec == Safety /\ Fairness

----------------------------------------------------------------------------
\* Every variable has its type (the flag is worth ZeroFlag, so a stuck word is
\* at least that).
TypeOK ==
    /\ impl \in Nat /\ weak_count \in Nat
    /\ pc \in [Pointers -> States]
    /\ \A w \in Weak : pc[w] \notin {"zeroed", "dispose"}
    /\ object \in {"none", "alive", "disposed"}
    /\ block \in {"none", "allocated", "freed"}
    /\ revived \in BOOLEAN /\ sawZero \in BOOLEAN

\* Until the flag is set shared_count_ is the number of live shared_ptrs, and a
\* count of 0 has a decrement that is about to set the flag; once it is set no
\* shared_ptr is live, and the object is disposed of by exactly one of them
\* (control_block_base::shared_count_release).
SharedCountIsOwners ==
    /\ ~IsStuck =>
        /\ impl = Cardinality(Live)
        /\ object = "alive" /\ impl = 0 => \E s \in Shared : pc[s] = "zeroed"
        /\ \A s \in Shared : pc[s] \notin {"dispose", "weak", "sub", "destroy"}
    /\ IsStuck => Live = {} /\ object # "none"
    /\ \A s, t \in Shared : pc[s] = "dispose" /\ pc[t] = "dispose" => s = t
    /\ (IsStuck /\ object = "alive") <=> (\E s \in Shared : pc[s] = "dispose")
    /\ ~IsStuck /\ block # "none" => object = "alive"

\* weak_count_ is the number of weak references plus one for all the owners
\* together, kept until the object is disposed of ("weak_ref +
\* (shared_count_ != 0)"); a pointer destroys the block only when nothing refers
\* to it any more, and whatever refers to the block finds it allocated.  The
\* shortcut of weak_count_release leaves the count at 1, so it is not 0 then.
WeakCountIsReferences ==
    /\ (block = "allocated" /\ \A h \in Pointers : pc[h] # "destroy") =>
          weak_count = Cardinality(WeakRefs) + (IF object = "alive" THEN 1 ELSE 0)
    /\ \A h \in Pointers : pc[h] = "destroy" =>
          /\ block = "allocated" /\ object = "disposed" /\ WeakRefs = {}
          /\ \A g \in Pointers : pc[g] = "destroy" => g = h
    /\ Live # {} \/ WeakRefs # {} \/ object = "alive" => block = "allocated"

\* A pointer touches a freed block only if a lock once found the count at 0
\* before its flag was set (weak_ptr::lock between the fetch_sub and the
\* compare_exchange_strong of reference_counter::decrement).  Programs in which
\* that never happens never use the block after destroy().
FreedBlockNeedsRevival ==
    (\E h \in Pointers : pc[h] = "wild") => revived

\* What makes the three invariants above inductive: nothing happens before the
\* constructor, a count seen at 0 is stuck, and without a revival there is only
\* one decrement between its fetch_sub and its compare_exchange, which then
\* still finds 0.
Lifetimes ==
    /\ block = "none" =>
        /\ impl = 0 /\ object # "alive" /\ ~revived
        /\ \A h \in Pointers : pc[h] = "null"
    /\ object = "none" => block = "none"
    /\ sawZero => IsStuck
    /\ ~revived =>
        \A s, t \in Shared : pc[s] = "zeroed" =>
            impl = 0 /\ (pc[t] = "zeroed" => s = t)
    /\ FreedBlockNeedsRevival

IInv == TypeOK /\ SharedCountIsOwners /\ WeakCountIsReferences /\ Lifetimes

\* A count that has been seen at zero stays there: a use_count() of 0, and so an
\* expired() that answered true, is final, and from then on no pointer becomes an
\* owner ("once the counter decrements to zero, it will stuck at it and never
\* increment again").
ZeroIsFinal ==
    [][sawZero => sawZero' /\ Live' \subseteq Live /\ LoadCount' = 0]_vars

\* No control block is destroyed while a decrement of its shared_count_ is still
\* to access it ("The control block will be destroyed after decrementing to
\* zero").
NoUseAfterFree == \A h \in Pointers : pc[h] # "wild"

\* What the pointers promise, see module Ownership: the flag is what expires
\* the object.
Observers == {w \in Weak : pc[w] = "live"}

ObjectState == IF object = "alive" /\ IsStuck THEN "expired" ELSE object

Promise == INSTANCE Ownership WITH
    owners <- Live, observers <- Observers, object <- ObjectState

\* The pointers implement that promise: each object is disposed of exactly
\* once, when it has no owner and can get none, each block freed exactly once
\* when nothing refers to it, a lock succeeds only on a living object, and
\* nothing leaks.
ImplementsOwnership == Promise!Spec
============================================================================
