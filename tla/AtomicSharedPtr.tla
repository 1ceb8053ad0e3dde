-------------------------- MODULE AtomicSharedPtr --------------------------
(***************************************************************************)
(* include/ciel/atomic_shared_ptr.hpp on core/spinlock_ptr.hpp: one atomic *)
(* shared pointer, several control blocks, and threads that load, exchange *)
(* and compare_exchange it.                                                *)
(*                                                                         *)
(* A thread has two shared_ptrs, one to pass as `desired` and one as       *)
(* `expected`, which also takes what load returns.  store is an exchange   *)
(* whose result is dropped, and the destructor a store of nullptr.  A      *)
(* block and its object have one name; shared_count_ is a number here (see *)
(* SharedPtr for its accesses), and a block whose count falls to 0 is free *)
(* to be allocated again.                                                  *)
(***************************************************************************)
EXTENDS Integers, FiniteSets

CONSTANTS Blocks, Threads,
          Null              \* nullptr

ASSUME AtomicSharedPtrAssumption ==
    /\ IsFiniteSet(Threads)
    /\ Null \notin Blocks

VARIABLES
    ptr,                \* ptr_
    cb, locked,         \* control_block_: the pointer and its lock bit
    count,              \* count[b]: shared_count_, 0 when b is not allocated
    desired, expected,  \* of a thread: shared_ptrs, see Pairs
    dead,               \* of a thread: the block it is about to release
    pc

atomic == <<ptr, cb, locked>>
vars == <<ptr, cb, locked, count, desired, expected, dead, pc>>

Refs == Blocks \cup {Null}

\* The two fields of a shared_ptr.
Pairs == [ptr : Refs, cb : Refs]

Nil == [ptr |-> Null, cb |-> Null]

\* "idle"      outside the operations below
\* "release"   destroys a shared_ptr that refers to `dead`
\* load:       "loadLock", "loadRef" counts the result, "loadUnlock"
\* exchange:   "swapLock", "swapPtr" swaps ptr_, "swapCb" swaps the control
\*             blocks and unlocks
\* compare_exchange: "casLock", "casTest" compares and swaps ptr_,
\*             "casCb" swaps the control blocks and unlocks; or
\*             "casRelease" destroys the old value of expected, "casRef" counts
\*             its new one, "casUnlock"
Locking == {"loadLock", "swapLock", "casLock"}
Critical == {"loadRef", "loadUnlock", "swapPtr", "swapCb",
             "casTest", "casCb", "casRelease", "casRef", "casUnlock"}
States == Locking \cup Critical \cup {"idle", "release"}

Goto(t, state) == pc' = [pc EXCEPT ![t] = state]

Init ==
    /\ ptr = Null /\ cb = Null /\ locked = FALSE
    /\ count = [b \in Blocks |-> 0]
    /\ desired = [t \in Threads |-> Nil] /\ expected = [t \in Threads |-> Nil]
    /\ dead = [t \in Threads |-> Null]
    /\ pc = [t \in Threads |-> "idle"]

\* shared_add_ref and shared_count_release, with their test for nullptr.
AddRef(b) == count' = IF b = Null THEN count ELSE [count EXCEPT ![b] = @ + 1]

SubRef(b) == count' = IF b = Null THEN count ELSE [count EXCEPT ![b] = @ - 1]

----------------------------------------------------------------------------
\* The client.

Create(t, b) ==
    /\ pc[t] = "idle" /\ desired[t] = Nil
    /\ count[b] = 0
    /\ count' = [count EXCEPT ![b] = 1]
    /\ desired' = [desired EXCEPT ![t] = [ptr |-> b, cb |-> b]]
    /\ UNCHANGED <<atomic, expected, dead, pc>>

DropDesired(t) ==
    /\ pc[t] = "idle" /\ desired[t] # Nil
    /\ dead' = [dead EXCEPT ![t] = desired[t].cb]
    /\ desired' = [desired EXCEPT ![t] = Nil]
    /\ Goto(t, "release")
    /\ UNCHANGED <<atomic, count, expected>>

DropExpected(t) ==
    /\ pc[t] = "idle" /\ expected[t] # Nil
    /\ dead' = [dead EXCEPT ![t] = expected[t].cb]
    /\ expected' = [expected EXCEPT ![t] = Nil]
    /\ Goto(t, "release")
    /\ UNCHANGED <<atomic, count, desired>>

Call(t) ==
    /\ pc[t] = "idle"
    /\ \E op \in Locking : Goto(t, op)
    /\ UNCHANGED <<atomic, count, desired, expected, dead>>

Release(t) ==
    /\ pc[t] = "release"
    /\ SubRef(dead[t])
    /\ dead' = [dead EXCEPT ![t] = Null]
    /\ Goto(t, "idle")
    /\ UNCHANGED <<atomic, desired, expected>>

----------------------------------------------------------------------------
\* spinlock_ptr::lock.  A load that finds the bit set, and a compare_exchange
\* that fails, change nothing.

AfterLock == [loadLock |-> "loadRef", swapLock |-> "swapPtr", casLock |-> "casTest"]

Lock(t) ==
    /\ pc[t] \in Locking
    /\ ~locked
    /\ locked' = TRUE
    /\ Goto(t, AfterLock[pc[t]])
    /\ UNCHANGED <<ptr, cb, count, desired, expected, dead>>

\* spinlock_ptr::unlock and swap_unlock.
Unlock == locked' = FALSE /\ UNCHANGED cb

SwapUnlock(t) == locked' = FALSE /\ cb' = desired[t].cb

----------------------------------------------------------------------------
\* load

LoadRef(t) ==
    /\ pc[t] = "loadRef"
    /\ AddRef(cb)
    /\ dead' = [dead EXCEPT ![t] = expected[t].cb]
    /\ expected' = [expected EXCEPT ![t] = [ptr |-> ptr, cb |-> cb]]
    /\ Goto(t, "loadUnlock")
    /\ UNCHANGED <<atomic, desired>>

LoadUnlock(t) ==
    /\ pc[t] = "loadUnlock"
    /\ Unlock
    /\ Goto(t, "release")
    /\ UNCHANGED <<ptr, count, desired, expected, dead>>

----------------------------------------------------------------------------
\* exchange

\* Faulty variant: ptr_ is stored, and desired keeps its own.
SwapPtr_Stores(t) ==
    /\ pc[t] = "swapPtr"
    /\ ptr' = desired[t].ptr
    /\ Goto(t, "swapCb")
    /\ UNCHANGED <<cb, locked, count, desired, expected, dead>>

SwapPtr(t) ==
    /\ pc[t] = "swapPtr"
    /\ ptr' = desired[t].ptr
    /\ desired' = [desired EXCEPT ![t].ptr = ptr]
    /\ Goto(t, "swapCb")
    /\ UNCHANGED <<cb, locked, count, expected, dead>>

SwapCb(t) ==
    /\ pc[t] = "swapCb"
    /\ SwapUnlock(t)
    /\ desired' = [desired EXCEPT ![t].cb = cb]
    /\ Goto(t, "idle")
    /\ UNCHANGED <<ptr, count, expected, dead>>

----------------------------------------------------------------------------
\* compare_exchange_strong

CasSucceeds(t) ==
    /\ pc[t] = "casTest"
    /\ ptr = expected[t].ptr /\ cb = expected[t].cb
    /\ ptr' = desired[t].ptr
    /\ desired' = [desired EXCEPT ![t].ptr = ptr]
    /\ Goto(t, "casCb")
    /\ UNCHANGED <<cb, locked, count, expected, dead>>

\* desired is destroyed with the value it took over.
CasCb(t) ==
    /\ pc[t] = "casCb"
    /\ SwapUnlock(t)
    /\ dead' = [dead EXCEPT ![t] = cb]
    /\ desired' = [desired EXCEPT ![t] = Nil]
    /\ Goto(t, "release")
    /\ UNCHANGED <<ptr, count, expected>>

\* Faulty variant: expected keeps its value.
CasFails_KeepsExpected(t) ==
    /\ pc[t] = "casTest"
    /\ ptr # expected[t].ptr \/ cb # expected[t].cb
    /\ Goto(t, "casUnlock")
    /\ UNCHANGED <<atomic, count, desired, expected, dead>>

\* Faulty variant: the comparison is repeated while the bit is held.
CasFails_Spins(t) ==
    /\ pc[t] = "casTest"
    /\ ptr # expected[t].ptr \/ cb # expected[t].cb
    /\ UNCHANGED <<atomic, count, desired, expected, dead, pc>>

\* expected is overwritten with a reference that is not counted yet.
CasFails(t) ==
    /\ pc[t] = "casTest"
    /\ ptr # expected[t].ptr \/ cb # expected[t].cb
    /\ dead' = [dead EXCEPT ![t] = expected[t].cb]
    /\ expected' = [expected EXCEPT ![t] = [ptr |-> ptr, cb |-> cb]]
    /\ Goto(t, "casRelease")
    /\ UNCHANGED <<atomic, count, desired>>

\* Faulty variant: the bit is cleared for the destructor's sake.
CasRelease_Unlocks(t) ==
    /\ pc[t] = "casRelease"
    /\ Unlock
    /\ SubRef(dead[t])
    /\ dead' = [dead EXCEPT ![t] = Null]
    /\ Goto(t, "casRef")
    /\ UNCHANGED <<ptr, desired, expected>>

\* The destructor of the block's object may run here, with the bit set.
CasRelease(t) ==
    /\ pc[t] = "casRelease"
    /\ SubRef(dead[t])
    /\ dead' = [dead EXCEPT ![t] = Null]
    /\ Goto(t, "casRef")
    /\ UNCHANGED <<atomic, desired, expected>>

CasRef(t) ==
    /\ pc[t] = "casRef"
    /\ AddRef(expected[t].cb)
    /\ Goto(t, "casUnlock")
    /\ UNCHANGED <<atomic, desired, expected, dead>>

\* Then desired is destroyed.
CasUnlock(t) ==
    /\ pc[t] = "casUnlock"
    /\ Unlock
    /\ dead' = [dead EXCEPT ![t] = desired[t].cb]
    /\ desired' = [desired EXCEPT ![t] = Nil]
    /\ Goto(t, "release")
    /\ UNCHANGED <<ptr, count, expected>>

----------------------------------------------------------------------------
Load(t) == LoadRef(t) \/ LoadUnlock(t)

Exchange(t) == SwapPtr(t) \/ SwapCb(t)

CompareExchange(t) ==
    \/ CasSucceeds(t) \/ CasCb(t)
    \/ CasFails(t) \/ CasRelease(t) \/ CasRef(t) \/ CasUnlock(t)

Inside(t) == Load(t) \/ Exchange(t) \/ CompareExchange(t)

Client(t) ==
    \/ \E b \in Blocks : Create(t, b)
    \/ DropDesired(t) \/ DropExpected(t) \/ Call(t)

Next == \E t \in Threads : Client(t) \/ Release(t) \/ Lock(t) \/ Inside(t)

Safety == Init /\ [][Next]_vars

\* Threads are scheduled; nothing makes one that spins find the bit clear.
Fairness ==
    \A t \in Threads : WF_vars(Inside(t)) /\ WF_vars(Lock(t)) /\ WF_vars(Release(t))

Spec == Safety /\ Fairness
----------------------------------------------------------------------------
TypeOK ==
    /\ ptr \in Refs /\ cb \in Refs /\ locked \in BOOLEAN
    /\ count \in [Blocks -> Nat]
    /\ desired \in [Threads -> Pairs] /\ expected \in [Threads -> Pairs]
    /\ dead \in [Threads -> Refs]
    /\ pc \in [Threads -> States]

\* The count of a block is the number of references to it: the atomic's, those
\* of the threads' shared_ptrs and of those being destroyed.  A compare_exchange
\* that fails has a reference that is not counted for a while; meanwhile the
\* atomic's own reference keeps the block alive, so that no freed block is counted
\* (line 112).
CountsAgree ==
    /\ TypeOK
    /\ \A b \in Blocks :
        count[b] =
            (IF cb = b THEN 1 ELSE 0)
            + Cardinality({t \in Threads : desired[t].cb = b})
            + Cardinality({t \in Threads : expected[t].cb = b
                                           /\ pc[t] \notin {"casRelease", "casRef"}})
            + Cardinality({t \in Threads : dead[t] = b})
    /\ \A t \in Threads : pc[t] \in {"casRelease", "casRef"} => expected[t].cb = cb

\* The lock bit is set exactly while one thread is between lock and unlock.
LockExcludes ==
    /\ \A t, u \in Threads : pc[t] \in Critical /\ pc[u] \in Critical => t = u
    /\ locked <=> \E t \in Threads : pc[t] \in Critical

\* The two fields of the atomic, and of every shared_ptr outside the operations,
\* belong together, as the lock bit excludes all others: no load sees half an
\* exchange.
NoTornPair ==
    /\ LockExcludes
    /\ ~locked => ptr = cb
    /\ \A t \in Threads :
          /\ expected[t].ptr = expected[t].cb
          /\ pc[t] \notin {"swapCb", "casCb"} => desired[t].ptr = desired[t].cb

\* What these two rest on: only a thread with a half done exchange sees the two
\* fields differ, and then each is what the other is about to become, or was; and a
\* reference that is to be released has its release ahead of it.
HalfSwapped ==
    \A t \in Threads :
        /\ pc[t] \in Critical \ {"swapCb", "casCb"} => ptr = cb
        /\ pc[t] \in {"swapCb", "casCb"} => desired[t] = [ptr |-> cb, cb |-> ptr]
        /\ pc[t] = "casCb" => expected[t].cb = cb

ReleasesAhead ==
    \A t \in Threads : dead[t] # Null => pc[t] \in {"loadUnlock", "casRelease", "release"}

IInv == CountsAgree /\ NoTornPair /\ HalfSwapped /\ ReleasesAhead

\* The bit never stays set: an operation inside runs to its end without waiting
\* for another.
LockReleased == locked ~> ~locked

\* The operation that a thread has called and that has not taken effect: the
\* effect is the counting of a load, the exchange of the control blocks, and the
\* comparison when it fails.
Called(t) ==
    CASE pc[t] \in {"loadLock", "loadRef"} -> "load"
      [] pc[t] \in {"swapLock", "swapPtr", "swapCb"} -> "exchange"
      [] pc[t] \in {"casLock", "casTest", "casCb"} -> "compare_exchange"
      [] OTHER -> "none"

\* The operations are atomic, and no address is used again while a reference to
\* it is left, so that compare_exchange has no ABA.
Promise == INSTANCE AtomicRegister WITH
    reg <- cb,
    desired <- [t \in Threads |->
                    IF pc[t] \in {"casRelease", "casRef", "casUnlock"} THEN Null
                    ELSE desired[t].cb],
    expected <- [t \in Threads |-> expected[t].cb],
    called <- [t \in Threads |-> Called(t)]

ImplementsRegister == Promise!Spec
============================================================================
