--------------------------- MODULE SplitRefCount ---------------------------
(***************************************************************************)
(* include/ciel/experimental/atomic_shared_ptr.hpp: the atomic is a        *)
(* core/packed_ptr.hpp, a control block and a local count of the loads     *)
(* under way.  A load is counted there before it is counted in the block,  *)
(* and whoever replaces the block moves the local count to the block.      *)
(*                                                                         *)
(* The client is that of AtomicSharedPtr, and a shared_ptr is the block it *)
(* refers to.  A compare_exchange loop that only adds or subtracts 1 is    *)
(* one step: what it read before is compared, and nothing else depends on  *)
(* it.  compare_exchange is the strong one; the weak one is a turn of it.  *)
(* The copy of desired each turn is passed, and what is destroyed for it,  *)
(* cancel out.                                                             *)
(***************************************************************************)
EXTENDS Integers, FiniteSets

CONSTANTS Blocks, Threads,
          Wrap,             \* 2^16, the values of the local count
          Null              \* nullptr

\* The local count can count all threads, and be told from one that is below 0.
SplitAssumption ==
    /\ IsFiniteSet(Threads) /\ Null \notin Blocks
    /\ Wrap \in Nat /\ Cardinality(Threads) + 1 < Wrap

VARIABLES
    packed,             \* packed_control_block_: ptr and count
    remote,             \* remote[b]: shared_count_, 0 when b is not allocated
    desired, expected,  \* of a thread: the blocks of its shared_ptrs
    cur,                \* of a thread: the packed pointer it read
    dead,               \* of a thread: the block it is about to release
    pc,
    left,               \* history: the block a thread has pinned was replaced
                        \* since
    astray              \* history: a load decremented a local count that had
                        \* not been incremented for it

vars == <<packed, remote, desired, expected, cur, dead, pc, left, astray>>

Refs == Blocks \cup {Null}
Packed == [ptr : Refs, count : 0 .. Wrap - 1]

Pack(b, n) == [ptr |-> b, count |-> n % Wrap]

\* "idle"      outside the operations below
\* load:       "pin" increments the local count, "addRef" the block's, "unpin"
\*             decrements the local count, or "unpinRemote" the block's
\* exchange:   "swap", "help" moves the local count to the block
\* compare_exchange: "casLoad", "casTest", "casHelp"; or the steps of a load,
\*             "casPin" and so on; after that it starts again or fails
\* "release", "releaseRetry", "releaseFail"  destroy a shared_ptr that refers to
\*             `dead`, and return, start again, or go on to destroy desired
Loading == [pin |-> "addRef", addRef |-> "unpin", unpin |-> "unpinRemote",
            casPin |-> "casAddRef", casAddRef |-> "casUnpin", casUnpin |-> "casUnpinRemote"]

Releasing == [release |-> "idle", releaseRetry |-> "casLoad", releaseFail |-> "dropDesired"]

Calls == [load |-> "pin", exchange |-> "swap", compare_exchange |-> "casLoad"]

States == {"idle", "swap", "help", "casLoad", "casTest", "casHelp", "dropDesired",
           "unpinRemote", "casUnpinRemote"} \cup DOMAIN Loading \cup DOMAIN Releasing

Goto(t, state) == pc' = [pc EXCEPT ![t] = state]

Init ==
    /\ packed = Pack(Null, 0)
    /\ remote = [b \in Blocks |-> 0]
    /\ desired = [t \in Threads |-> Null] /\ expected = [t \in Threads |-> Null]
    /\ cur = [t \in Threads |-> Pack(Null, 0)]
    /\ dead = [t \in Threads |-> Null]
    /\ pc = [t \in Threads |-> "idle"]
    /\ left = [t \in Threads |-> FALSE] /\ astray = FALSE

\* shared_add_ref and shared_count_release, with their test for nullptr.
Add(b, n) == remote' = IF b = Null THEN remote ELSE [remote EXCEPT ![b] = @ + n]

\* The threads that have incremented the local count of b and not decremented it.
Pins(b) == {t \in Threads : cur[t].ptr = b /\ pc[t] \in
                {"addRef", "unpin", "unpinRemote", "casAddRef", "casUnpin", "casUnpinRemote"}}

\* What loads hold in addition to that.
Results(b) == {t \in Pins(b) : pc[t] \notin {"addRef", "casAddRef"}}

----------------------------------------------------------------------------
\* The client.

Create(t, b) ==
    /\ pc[t] = "idle" /\ desired[t] = Null
    /\ remote[b] = 0
    /\ remote' = [remote EXCEPT ![b] = 1]
    /\ desired' = [desired EXCEPT ![t] = b]
    /\ UNCHANGED <<packed, expected, cur, dead, pc, left, astray>>

\* desired is destroyed: by the client, or by a compare_exchange that fails.
DropDesired(t) ==
    /\ (pc[t] = "idle" /\ desired[t] # Null) \/ pc[t] = "dropDesired"
    /\ dead' = [dead EXCEPT ![t] = desired[t]]
    /\ desired' = [desired EXCEPT ![t] = Null]
    /\ Goto(t, "release")
    /\ UNCHANGED <<packed, remote, expected, cur, left, astray>>

DropExpected(t) ==
    /\ pc[t] = "idle" /\ expected[t] # Null
    /\ dead' = [dead EXCEPT ![t] = expected[t]]
    /\ expected' = [expected EXCEPT ![t] = Null]
    /\ Goto(t, "release")
    /\ UNCHANGED <<packed, remote, desired, cur, left, astray>>

Call(t) ==
    /\ pc[t] = "idle"
    /\ \E op \in DOMAIN Calls : Goto(t, Calls[op])
    /\ UNCHANGED <<packed, remote, desired, expected, cur, dead, left, astray>>

Release(t) ==
    /\ pc[t] \in DOMAIN Releasing
    /\ Add(dead[t], -1)
    /\ dead' = [dead EXCEPT ![t] = Null]
    /\ Goto(t, Releasing[pc[t]])
    /\ UNCHANGED <<packed, desired, expected, cur, left, astray>>

----------------------------------------------------------------------------
\* load, also at the end of a turn of compare_exchange.

\* cur goes out of scope.
Forget(t) ==
    /\ cur' = [cur EXCEPT ![t] = Pack(Null, 0)]
    /\ left' = [left EXCEPT ![t] = FALSE]

\* Faulty variant: a compare_exchange fails although the block is the one expected.
TakeResult_Spurious(t, b) ==
    /\ dead' = [dead EXCEPT ![t] = expected[t]]
    /\ expected' = [expected EXCEPT ![t] = b]
    /\ Forget(t)
    /\ Goto(t, IF pc[t] \in {"pin", "unpin", "unpinRemote"} THEN "release" ELSE "releaseFail")

\* The result b takes the place of expected, whose old value is destroyed.  A
\* compare_exchange starts again if it is the same.
TakeResult(t, b) ==
    /\ dead' = [dead EXCEPT ![t] = expected[t]]
    /\ expected' = [expected EXCEPT ![t] = b]
    /\ Forget(t)
    /\ Goto(t, IF pc[t] \in {"pin", "unpin", "unpinRemote"} THEN "release"
               ELSE IF b = expected[t] THEN "releaseRetry" ELSE "releaseFail")

\* increment_local_ref_count
Pin(t) ==
    /\ pc[t] \in {"pin", "casPin"} /\ packed.ptr # Null
    /\ packed' = Pack(packed.ptr, packed.count + 1)
    /\ cur' = [cur EXCEPT ![t] = packed']
    /\ left' = [left EXCEPT ![t] = FALSE]
    /\ Goto(t, Loading[pc[t]])
    /\ UNCHANGED <<remote, desired, expected, dead, astray>>

LoadNull(t) ==
    /\ pc[t] \in {"pin", "casPin"} /\ packed.ptr = Null
    /\ TakeResult(t, Null)
    /\ UNCHANGED <<packed, remote, desired, astray>>

AddRef(t) ==
    /\ pc[t] \in {"addRef", "casAddRef"}
    /\ Add(cur[t].ptr, 1)
    /\ Goto(t, Loading[pc[t]])
    /\ UNCHANGED <<packed, desired, expected, cur, dead, left, astray>>

\* Faulty variant: the local count is decremented, whosever it is.
Unpin_Blind(t) ==
    /\ pc[t] \in {"unpin", "casUnpin"}
    /\ packed' = Pack(packed.ptr, packed.count - 1)
    /\ TakeResult(t, cur[t].ptr)
    /\ UNCHANGED <<remote, desired, astray>>

\* decrement_local_ref_count
Unpin(t) ==
    /\ pc[t] \in {"unpin", "casUnpin"}
    /\ IF packed.ptr = cur[t].ptr
       THEN /\ packed' = Pack(packed.ptr, packed.count - 1)
            /\ astray' = (astray \/ left[t])
            /\ TakeResult(t, cur[t].ptr)
       ELSE Goto(t, Loading[pc[t]]) /\ UNCHANGED <<packed, expected, cur, dead, left, astray>>
    /\ UNCHANGED <<remote, desired>>

\* The end of decrement_local_ref_count: the pin has become, or is about to
\* become, a reference of the block.
UnpinRemote(t) ==
    /\ pc[t] \in {"unpinRemote", "casUnpinRemote"}
    /\ Add(cur[t].ptr, -1)
    /\ TakeResult(t, cur[t].ptr)
    /\ UNCHANGED <<packed, desired, astray>>

----------------------------------------------------------------------------
\* exchange and compare_exchange

\* Faulty variant: the local count stays behind.
PutDesired_Keeps(t) ==
    /\ packed' = Pack(desired[t], packed.count)
    /\ cur' = [cur EXCEPT ![t] = packed]
    /\ left' = [u \in Threads |-> left[u] \/ u \in Pins(packed.ptr)]

PutDesired(t) ==
    /\ packed' = Pack(desired[t], 0)
    /\ cur' = [cur EXCEPT ![t] = packed]
    /\ left' = [u \in Threads |-> left[u] \/ u \in Pins(packed.ptr)]

Swap(t) ==
    /\ pc[t] = "swap"
    /\ PutDesired(t)
    /\ desired' = [desired EXCEPT ![t] = packed.ptr]
    /\ Goto(t, IF packed.ptr = Null THEN "idle" ELSE "help")
    /\ UNCHANGED <<remote, expected, dead, astray>>

Help(t) ==
    /\ pc[t] = "help"
    /\ Add(cur[t].ptr, cur[t].count)
    /\ Forget(t)
    /\ Goto(t, "idle")
    /\ UNCHANGED <<packed, desired, expected, dead, astray>>

\* The count that is compared is read first.
CasLoad(t) ==
    /\ pc[t] = "casLoad"
    /\ cur' = [cur EXCEPT ![t] = Pack(expected[t], packed.count)]
    /\ Goto(t, "casTest")
    /\ UNCHANGED <<packed, remote, desired, expected, dead, left, astray>>

CasSucceeds(t) ==
    /\ pc[t] = "casTest" /\ packed = cur[t]
    /\ PutDesired(t)
    /\ desired' = [desired EXCEPT ![t] = Null]
    /\ Goto(t, IF packed.ptr = Null THEN "idle" ELSE "casHelp")
    /\ UNCHANGED <<remote, expected, dead, astray>>

\* Then the reference that the atomic had is released.
CasHelp(t) ==
    /\ pc[t] = "casHelp"
    /\ Add(cur[t].ptr, cur[t].count)
    /\ dead' = [dead EXCEPT ![t] = cur[t].ptr]
    /\ Forget(t)
    /\ Goto(t, "release")
    /\ UNCHANGED <<packed, desired, expected, astray>>

\* The weak compare_exchange may fail without cause.
CasFails(t) ==
    /\ pc[t] = "casTest"
    /\ Forget(t)
    /\ Goto(t, "casPin")
    /\ UNCHANGED <<packed, remote, desired, expected, dead, astray>>

----------------------------------------------------------------------------
\* The references to b: of the atomic, of shared_ptrs, those being destroyed,
\* the results of loads, and the one a compare_exchange has taken over.
References(b) ==
    (IF packed.ptr = b THEN 1 ELSE 0)
    + Cardinality({t \in Threads : desired[t] = b})
    + Cardinality({t \in Threads : expected[t] = b})
    + Cardinality({t \in Threads : dead[t] = b})
    + Cardinality({t \in Threads : pc[t] = "casHelp" /\ cur[t].ptr = b})
    + Cardinality(Results(b))

\* The local counts that are in nobody's memory but an exchange's.
Owing(b) == {t \in Threads : pc[t] \in {"help", "casHelp"} /\ cur[t].ptr = b}

FreedEarly(b) == remote[b] <= 0 /\ (References(b) > 0 \/ Pins(b) # {})

\* The local count went below 0, against the assertion of line 100.
Underflowed == packed.count > Cardinality(Threads)

\* The behaviour is undefined.
Undefined == Underflowed \/ \E b \in Blocks : FreedEarly(b)

Load(t) == Pin(t) \/ LoadNull(t) \/ AddRef(t) \/ Unpin(t) \/ UnpinRemote(t)

Exchange(t) == Swap(t) \/ Help(t)

CompareExchange(t) == CasLoad(t) \/ CasSucceeds(t) \/ CasHelp(t) \/ CasFails(t)

Client(t) ==
    \/ \E b \in Blocks : Create(t, b)
    \/ DropDesired(t) \/ DropExpected(t) \/ Call(t) \/ Release(t)

SplitNext ==
    /\ ~Undefined
    /\ \E t \in Threads : Client(t) \/ Load(t) \/ Exchange(t) \/ CompareExchange(t)

SplitSpec == Init /\ [][SplitNext]_vars
----------------------------------------------------------------------------
TypeOK ==
    /\ packed \in Packed /\ remote \in [Blocks -> Int]
    /\ desired \in [Threads -> Refs] /\ expected \in [Threads -> Refs]
    /\ cur \in [Threads -> Packed] /\ dead \in [Threads -> Refs]
    /\ pc \in [Threads -> States]
    /\ left \in [Threads -> BOOLEAN] /\ astray \in BOOLEAN

\* The local count as a number, while it is at most one below 0.
Local == IF Underflowed THEN packed.count - Wrap ELSE packed.count

\* What exchanges have yet to add to the count of b: one pair for each unit.
Owed(b) == {p \in Owing(b) \X (1 .. Wrap) : p[2] <= cur[p[1]].count}

\* The block's count, the local count while the block is in the atomic, and the
\* local counts that are being moved make up for the references and the pins.
SplitCountsAgree ==
    \A b \in Blocks :
        remote[b] + (IF packed.ptr = b THEN Local ELSE 0) + Cardinality(Owed(b))
            = References(b) + Cardinality(Pins(b))

\* The loads under way whose block has not been replaced since they pinned it.
Current == {t \in Pins(packed.ptr) : ~left[t]}

\* A block is freed early only while somebody has replaced it and has not moved
\* its local count yet.  The local count is that of the loads under way, until a
\* load whose block was replaced and put back meanwhile takes it for its own.
FaultsNeedReplacement ==
    /\ \A b \in Blocks : FreedEarly(b) => Owing(b) # {}
    /\ ~astray => packed.count = Cardinality(Current)

\* experimental/atomic_shared_ptr.hpp:66: once the local count is incremented, a
\* store is safe: a block that is referred to is not freed.
StoreIsSafe == \A b \in Blocks : ~FreedEarly(b)

\* A load has taken effect when it has pinned its block; so has a
\* compare_exchange that fails, if the block is another one than it expected.
Loaded(t) ==
    \/ pc[t] \in {"addRef", "unpin", "unpinRemote"}
    \/ pc[t] \in {"casAddRef", "casUnpin", "casUnpinRemote"} /\ cur[t].ptr # expected[t]

Failed(t) ==
    \/ pc[t] \in {"releaseFail", "dropDesired"}
    \/ pc[t] \in {"casAddRef", "casUnpin", "casUnpinRemote"} /\ Loaded(t)

Called(t) ==
    CASE pc[t] = "pin" -> "load"
      [] pc[t] = "swap" -> "exchange"
      [] pc[t] \in {"casLoad", "casTest", "casPin", "releaseRetry"} -> "compare_exchange"
      [] pc[t] \in {"casAddRef", "casUnpin", "casUnpinRemote"} /\ ~Loaded(t) -> "compare_exchange"
      [] OTHER -> "none"

\* The operations are atomic, until the behaviour is undefined.
SplitPromise == INSTANCE AtomicRegister WITH
    reg <- packed.ptr,
    desired <- [t \in Threads |-> IF Failed(t) THEN Null ELSE desired[t]],
    expected <- [t \in Threads |-> IF Loaded(t) THEN cur[t].ptr ELSE expected[t]],
    called <- [t \in Threads |-> Called(t)]

ImplementsRegister == SplitPromise!Spec
----------------------------------------------------------------------------
\* Why they hold: together the following are inductive.

\* A reference in dead has its release ahead of it.
ReleasesAhead == \A t \in Threads : dead[t] # Null => pc[t] \in DOMAIN Releasing

\* A pinned block is the one in the atomic unless it was replaced since; a
\* comparison is with expected, and only a block's local count is moved.
PinsCurrent ==
    \A t \in Threads :
        /\ \A b \in Refs : t \in Pins(b) => b # Null /\ (left[t] \/ b = packed.ptr)
        /\ pc[t] \in {"unpinRemote", "casUnpinRemote"} => left[t]
        /\ pc[t] = "casTest" => cur[t].ptr = expected[t]
        /\ pc[t] \in {"help", "casHelp"} => cur[t].ptr # Null

\* The local count falls behind the loads under way, and is never ahead of them.
LocalBounded ==
    /\ Local <= Cardinality(Current)
    /\ ~astray => Local = Cardinality(Current)

IInv == TypeOK /\ SplitCountsAgree /\ ReleasesAhead /\ PinsCurrent /\ LocalBounded
============================================================================
