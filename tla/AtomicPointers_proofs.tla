----------------------- MODULE AtomicPointers_proofs -----------------------
(***************************************************************************)
(* Theorems about both implementations of an atomic shared pointer, for    *)
(* any finite set of threads and any set of blocks: AtomicSharedPtr, then  *)
(* SplitRefCount (the instance Split of MCAtomicSharedPtr) for any width   *)
(* of its local count that has room for the threads.  In both the counts   *)
(* change by what one thread refers to and by what is in the atomic, so    *)
(* that what is left to prove of each action is arithmetic about that      *)
(* thread (CountsFollow, SplitCountsFollow).                               *)
(***************************************************************************)
EXTENDS MCAtomicSharedPtr, CardinalityLemmas, TLAPS

Actions(t) ==
    \/ \E b \in Blocks : Create(t, b)
    \/ DropDesired(t) \/ DropExpected(t) \/ Call(t) \/ Release(t) \/ Lock(t)
    \/ LoadRef(t) \/ LoadUnlock(t) \/ SwapPtr(t) \/ SwapCb(t)
    \/ CasSucceeds(t) \/ CasCb(t)
    \/ CasFails(t) \/ CasRelease(t) \/ CasRef(t) \/ CasUnlock(t)

\* The sets that CountsAgree counts, the references of one thread, and that of
\* the atomic.
Desiring(b) == {t \in Threads : desired[t].cb = b}

Expecting(b) == {t \in Threads : expected[t].cb = b /\ pc[t] \notin {"casRelease", "casRef"}}

Releasing(b) == {t \in Threads : dead[t] = b}

RefsOf(t, b) ==
    (IF t \in Desiring(b) THEN 1 ELSE 0)
    + (IF t \in Expecting(b) THEN 1 ELSE 0)
    + (IF t \in Releasing(b) THEN 1 ELSE 0)

RefOfAtomic(b) == IF cb = b THEN 1 ELSE 0

Referrers(b) ==
    RefOfAtomic(b)
    + Cardinality(Desiring(b)) + Cardinality(Expecting(b)) + Cardinality(Releasing(b))

OthersKeep(t) ==
    \A u \in Threads : u # t =>
        /\ desired'[u] = desired[u] /\ expected'[u] = expected[u]
        /\ dead'[u] = dead[u] /\ pc'[u] = pc[u]

\* Whatever a thread refers to has a count of at least that.
LEMMA Counted ==
  ASSUME CountsAgree, NEW b \in Blocks, NEW t \in Threads
  PROVE  count[b] \in Nat /\ RefsOf(t, b) + RefOfAtomic(b) <= count[b]
  <1>1. count[b] = Referrers(b) /\ count[b] \in Nat
    BY DEF CountsAgree, TypeOK, Referrers, RefOfAtomic, Desiring, Expecting, Releasing
  <1>2. IsFiniteSet(Desiring(b)) /\ IsFiniteSet(Expecting(b)) /\ IsFiniteSet(Releasing(b))
    BY AtomicSharedPtrAssumption, FS_Subset DEF Desiring, Expecting, Releasing
  <1>3. /\ Cardinality(Desiring(b)) \in Nat /\ Cardinality(Expecting(b)) \in Nat
        /\ Cardinality(Releasing(b)) \in Nat
        /\ t \in Desiring(b) => Cardinality(Desiring(b)) >= 1
        /\ t \in Expecting(b) => Cardinality(Expecting(b)) >= 1
        /\ t \in Releasing(b) => Cardinality(Releasing(b)) >= 1
    BY <1>2, OneMember
  <1>4. QED
    BY <1>1, <1>3 DEF Referrers, RefsOf, RefOfAtomic

\* If one thread moves, a count has to follow its references and the atomic's.
LEMMA CountsFollow ==
  ASSUME CountsAgree, NEW t \in Threads, OthersKeep(t), NEW b \in Blocks,
         count'[b] = count[b] + (RefsOf(t, b)' - RefsOf(t, b))
                              + (RefOfAtomic(b)' - RefOfAtomic(b))
  PROVE  count'[b] = Referrers(b)'
  <1>1. count[b] = Referrers(b)
    BY DEF CountsAgree, Referrers, RefOfAtomic, Desiring, Expecting, Releasing
  <1>2. IsFiniteSet(Desiring(b)) /\ IsFiniteSet(Expecting(b)) /\ IsFiniteSet(Releasing(b))
    BY AtomicSharedPtrAssumption, FS_Subset DEF Desiring, Expecting, Releasing
  <1>4. /\ Cardinality(Desiring(b)) \in Nat /\ Cardinality(Desiring(b)') \in Nat
        /\ Cardinality(Desiring(b)') = Cardinality(Desiring(b))
              + (IF t \in Desiring(b)' THEN 1 ELSE 0) - (IF t \in Desiring(b) THEN 1 ELSE 0)
    <2> DEFINE S == Desiring(b)
               T == Desiring(b)'
    <2>1. IsFiniteSet(S) /\ S \ {t} = T \ {t}
      BY <1>2 DEF Desiring, OthersKeep
    <2> HIDE DEF S, T
    <2>2. /\ Cardinality(S) \in Nat /\ Cardinality(T) \in Nat
          /\ Cardinality(T) =
                Cardinality(S) + (IF t \in T THEN 1 ELSE 0) - (IF t \in S THEN 1 ELSE 0)
      BY <2>1, OneMember
    <2>3. QED
      BY <2>2 DEF S, T
  <1>5. /\ Cardinality(Expecting(b)) \in Nat /\ Cardinality(Expecting(b)') \in Nat
        /\ Cardinality(Expecting(b)') = Cardinality(Expecting(b))
              + (IF t \in Expecting(b)' THEN 1 ELSE 0) - (IF t \in Expecting(b) THEN 1 ELSE 0)
    <2> DEFINE S == Expecting(b)
               T == Expecting(b)'
    <2>1. IsFiniteSet(S) /\ S \ {t} = T \ {t}
      BY <1>2 DEF Expecting, OthersKeep
    <2> HIDE DEF S, T
    <2>2. /\ Cardinality(S) \in Nat /\ Cardinality(T) \in Nat
          /\ Cardinality(T) =
                Cardinality(S) + (IF t \in T THEN 1 ELSE 0) - (IF t \in S THEN 1 ELSE 0)
      BY <2>1, OneMember
    <2>3. QED
      BY <2>2 DEF S, T
  <1>6. /\ Cardinality(Releasing(b)) \in Nat /\ Cardinality(Releasing(b)') \in Nat
        /\ Cardinality(Releasing(b)') = Cardinality(Releasing(b))
              + (IF t \in Releasing(b)' THEN 1 ELSE 0) - (IF t \in Releasing(b) THEN 1 ELSE 0)
    <2> DEFINE S == Releasing(b)
               T == Releasing(b)'
    <2>1. IsFiniteSet(S) /\ S \ {t} = T \ {t}
      BY <1>2 DEF Releasing, OthersKeep
    <2> HIDE DEF S, T
    <2>2. /\ Cardinality(S) \in Nat /\ Cardinality(T) \in Nat
          /\ Cardinality(T) =
                Cardinality(S) + (IF t \in T THEN 1 ELSE 0) - (IF t \in S THEN 1 ELSE 0)
      BY <2>1, OneMember
    <2>3. QED
      BY <2>2 DEF S, T
  <1>7. /\ Referrers(b)' = RefOfAtomic(b)' + Cardinality(Desiring(b)')
                + Cardinality(Expecting(b)') + Cardinality(Releasing(b)')
        /\ RefsOf(t, b)' = (IF t \in Desiring(b)' THEN 1 ELSE 0)
                + (IF t \in Expecting(b)' THEN 1 ELSE 0) + (IF t \in Releasing(b)' THEN 1 ELSE 0)
    BY DEF Referrers, RefsOf
  <1>8. RefOfAtomic(b) \in Nat /\ RefOfAtomic(b)' \in Nat
    BY DEF RefOfAtomic
  <1>9. QED
    BY <1>1, <1>4, <1>5, <1>6, <1>7, <1>8 DEF Referrers, RefsOf

\* What every action has in common.
LEMMA OneThreadMoves ==
  ASSUME TypeOK, NEW t \in Threads, Actions(t)
  PROVE  OthersKeep(t)
  <1>1. CASE \/ \E b \in Blocks : Create(t, b)
             \/ DropDesired(t) \/ DropExpected(t) \/ Call(t) \/ Release(t) \/ Lock(t)
    BY <1>1 DEF TypeOK, OthersKeep, Create, DropDesired, DropExpected, Call, Release, Lock, Goto
  <1>2. CASE LoadRef(t) \/ LoadUnlock(t) \/ SwapPtr(t) \/ SwapCb(t) \/ CasSucceeds(t) \/ CasCb(t)
    BY <1>2
    DEF TypeOK, OthersKeep, LoadRef, LoadUnlock, SwapPtr, SwapCb, CasSucceeds, CasCb, Goto
  <1>3. CASE CasFails(t) \/ CasRelease(t) \/ CasRef(t) \/ CasUnlock(t)
    BY <1>3 DEF TypeOK, OthersKeep, CasFails, CasRelease, CasRef, CasUnlock, Goto
  <1>4. QED
    BY <1>1, <1>2, <1>3 DEF Actions

\* A count that is decremented is not 0.
LEMMA SubRefType ==
  ASSUME CountsAgree, NEW t \in Threads, SubRef(dead[t])
  PROVE  count' \in [Blocks -> Nat]
  <1>1. dead[t] \in Refs /\ count \in [Blocks -> Nat]
    BY DEF CountsAgree, TypeOK
  <1>2. CASE dead[t] = Null
    BY <1>1, <1>2 DEF SubRef
  <1>3. CASE dead[t] \in Blocks
    <2>1. RefsOf(t, dead[t]) + RefOfAtomic(dead[t]) <= count[dead[t]]
      BY <1>3, Counted
    <2>2. RefsOf(t, dead[t]) \in Nat \ {0} /\ RefOfAtomic(dead[t]) \in Nat
      BY DEF RefsOf, RefOfAtomic, Releasing
    <2>3. count[dead[t]] - 1 \in Nat
      BY <1>1, <1>3, <2>1, <2>2
    <2>4. QED
      BY <1>1, <1>3, <2>3, AtomicSharedPtrAssumption DEF SubRef
  <1>4. QED
    BY <1>1, <1>2, <1>3 DEF Refs

\* Shared_ptrs keep their type when a field is replaced.
LEMMA PairTypes ==
  ASSUME TypeOK, NEW t \in Threads, NEW r \in Refs
  PROVE  /\ desired[t].ptr \in Refs /\ desired[t].cb \in Refs /\ expected[t].cb \in Refs
         /\ Nil \in Pairs /\ [ptr |-> ptr, cb |-> cb] \in Pairs
         /\ [desired EXCEPT ![t].ptr = r] \in [Threads -> Pairs]
         /\ [desired EXCEPT ![t].cb = r] \in [Threads -> Pairs]
  <1>1. desired[t] \in Pairs /\ expected[t] \in Pairs /\ ptr \in Refs /\ cb \in Refs /\ Null \in Refs
    BY DEF TypeOK, Refs
  <1>2. /\ [desired[t] EXCEPT !.ptr = r] \in Pairs
        /\ [desired[t] EXCEPT !.cb = r] \in Pairs
        /\ [ptr |-> ptr, cb |-> cb] \in Pairs /\ Nil \in Pairs
    BY <1>1 DEF Pairs, Nil
  <1>3. desired[t].ptr \in Refs /\ desired[t].cb \in Refs /\ expected[t].cb \in Refs
    BY <1>1 DEF Pairs
  <1>4. QED
    BY <1>2, <1>3 DEF TypeOK

LEMMA TypeStep ==
  ASSUME TypeOK, CountsAgree, NEW t \in Threads, Actions(t)
  PROVE  TypeOK'
  <1> USE DEF TypeOK, Goto, atomic
  <1>s. {"idle", "release"} \subseteq States /\ Locking \subseteq States /\ Critical \subseteq States
    BY DEF States
  <1>1. CASE \E b \in Blocks : Create(t, b)
    BY <1>1 DEF Create, Pairs, Refs
  <1>2. CASE DropDesired(t) \/ DropExpected(t)
    <2>1. dead'[t] \in Refs /\ dead' = [dead EXCEPT ![t] = dead'[t]]
      BY <1>2, PairTypes DEF DropDesired, DropExpected
    <2>2. desired' \in [Threads -> Pairs] /\ expected' \in [Threads -> Pairs]
      BY <1>2, PairTypes, ZenonT(40) DEF DropDesired, DropExpected
    <2>3. pc' \in [Threads -> States] /\ UNCHANGED <<ptr, cb, locked, count>>
      BY <1>2, <1>s DEF DropDesired, DropExpected
    <2>4. QED
      BY <2>1, <2>2, <2>3
  <1>c. CASE Call(t)
    BY <1>c, <1>s DEF Call
  <1>3. CASE Release(t) \/ CasRelease(t)
    BY <1>3, <1>s, SubRefType DEF Release, CasRelease, Refs, Critical
  <1>4. CASE Lock(t)
    BY <1>4, <1>s DEF Lock, AfterLock, Locking, Critical
  <1>5. CASE LoadRef(t) \/ CasRef(t)
    <2>1. count' \in [Blocks -> Nat]
      BY <1>5 DEF LoadRef, CasRef, AddRef
    <2>2. QED
      BY <1>5, <1>s, <2>1, PairTypes, ZenonT(40) DEF LoadRef, CasRef, Critical
  <1>6. CASE LoadUnlock(t) \/ CasUnlock(t)
    BY <1>6, <1>s, PairTypes DEF LoadUnlock, CasUnlock, Unlock
  <1>7. CASE SwapPtr(t) \/ CasSucceeds(t)
    <2>1. ptr \in Refs /\ desired' = [desired EXCEPT ![t].ptr = ptr]
      BY <1>7 DEF SwapPtr, CasSucceeds
    <2>2. desired' \in [Threads -> Pairs] /\ desired[t].ptr \in Refs
      BY <2>1, PairTypes
    <2>3. QED
      BY <1>7, <1>s, <2>2 DEF SwapPtr, CasSucceeds, Critical
  <1>8. CASE SwapCb(t) \/ CasCb(t)
    <2>1. cb \in Refs /\ desired[t].cb \in Refs /\ Nil \in Pairs
      BY PairTypes
    <2>2. CASE SwapCb(t)
      <3>1. desired' = [desired EXCEPT ![t].cb = cb]
        BY <2>2 DEF SwapCb
      <3>2. desired' \in [Threads -> Pairs]
        BY <2>1, <3>1, PairTypes
      <3>3. QED
        BY <1>s, <2>1, <2>2, <3>2 DEF SwapCb, SwapUnlock
    <2>3. CASE CasCb(t)
      BY <1>s, <2>1, <2>3 DEF CasCb, SwapUnlock
    <2>4. QED
      BY <1>8, <2>2, <2>3
  <1>9. CASE CasFails(t)
    BY <1>9, <1>s, PairTypes DEF CasFails, Critical
  <1>10. QED
    BY <1>1, <1>2, <1>c, <1>3, <1>4, <1>5, <1>6, <1>7, <1>8, <1>9 DEF Actions

\* RefsOf, with what the sets say of t.
LEMMA RefsOfThread ==
  ASSUME NEW t \in Threads, NEW b
  PROVE  /\ RefsOf(t, b) =
                (IF desired[t].cb = b THEN 1 ELSE 0)
                + (IF expected[t].cb = b /\ pc[t] \notin {"casRelease", "casRef"} THEN 1 ELSE 0)
                + (IF dead[t] = b THEN 1 ELSE 0)
         /\ RefsOf(t, b)' =
                (IF desired'[t].cb = b THEN 1 ELSE 0)
                + (IF expected'[t].cb = b /\ pc'[t] \notin {"casRelease", "casRef"} THEN 1 ELSE 0)
                + (IF dead'[t] = b THEN 1 ELSE 0)
  BY DEF RefsOf, Desiring, Expecting, Releasing

\* Every action moves the counts and the references alike.
LEMMA CountStep ==
  ASSUME IInv, TypeOK, NEW t \in Threads, Actions(t), NEW b \in Blocks
  PROVE  count'[b] = count[b] + (RefsOf(t, b)' - RefsOf(t, b))
                              + (RefOfAtomic(b)' - RefOfAtomic(b))
  <1> USE RefsOfThread, AtomicSharedPtrAssumption DEF TypeOK, Goto, atomic, RefOfAtomic
  <1>t. count[b] \in Nat
    OBVIOUS
  <1>1. ASSUME NEW c \in Blocks, Create(t, c)
        PROVE  count'[b] = count[b] + (RefsOf(t, b)' - RefsOf(t, b))
                              + (RefOfAtomic(b)' - RefOfAtomic(b))
    BY <1>1, <1>t DEF Create, Nil
  <1>2. CASE DropDesired(t) \/ DropExpected(t)
    <2>1. dead[t] = Null
      BY <1>2 DEF DropDesired, DropExpected, IInv, ReleasesAhead
    <2>2. CASE DropDesired(t)
      BY <1>t, <2>1, <2>2 DEF DropDesired, Nil
    <2>3. CASE DropExpected(t)
      BY <1>t, <2>1, <2>3 DEF DropExpected, Nil
    <2>4. QED
      BY <1>2, <2>2, <2>3
  <1>3. CASE Call(t) \/ Lock(t)
    BY <1>3, <1>t DEF Call, Lock, AfterLock, Locking
  <1>4. CASE Release(t)
    BY <1>4, <1>t DEF Release, SubRef
  <1>5. CASE LoadRef(t)
    BY <1>5, <1>t DEF LoadRef, AddRef, IInv, ReleasesAhead
  <1>6. CASE LoadUnlock(t)
    BY <1>6, <1>t DEF LoadUnlock, Unlock
  <1>7. CASE SwapPtr(t) \/ CasSucceeds(t)
    <2>1. desired'[t].cb = desired[t].cb
      <3>1. desired[t] \in Pairs /\ desired'[t] = [desired[t] EXCEPT !.ptr = ptr]
        BY <1>7 DEF SwapPtr, CasSucceeds
      <3>2. QED
        BY <3>1 DEF Pairs
    <2>2. QED
      BY <1>7, <1>t, <2>1 DEF SwapPtr, CasSucceeds
  <1>8. CASE SwapCb(t)
    BY <1>8, <1>t DEF SwapCb, SwapUnlock
  <1>9. CASE CasCb(t)
    BY <1>9, <1>t DEF CasCb, SwapUnlock, Nil, IInv, ReleasesAhead
  <1>10. CASE CasFails(t)
    BY <1>10, <1>t DEF CasFails, IInv, ReleasesAhead
  <1>11. CASE CasRelease(t)
    BY <1>11, <1>t DEF CasRelease, SubRef
  <1>12. CASE CasRef(t)
    BY <1>12, <1>t DEF CasRef, AddRef
  <1>13. CASE CasUnlock(t)
    BY <1>13, <1>t DEF CasUnlock, Unlock, Nil, IInv, ReleasesAhead
  <1>14. QED
    BY <1>1, <1>2, <1>3, <1>4, <1>5, <1>6, <1>7, <1>8, <1>9, <1>10, <1>11, <1>12, <1>13
    DEF Actions

LEMMA LockStep ==
  ASSUME TypeOK, LockExcludes, NEW t \in Threads, Actions(t)
  PROVE  LockExcludes'
  <1> USE DEF TypeOK, LockExcludes, Goto, atomic
  <1>0. \A u \in Threads : u # t => pc'[u] = pc[u]
    BY OneThreadMoves DEF OthersKeep
  <1>1. ASSUME pc[t] \notin Critical, pc'[t] \notin Critical, locked' = locked PROVE LockExcludes'
    BY <1>0, <1>1
  <1>2. ASSUME ~locked, pc'[t] \in Critical, locked' PROVE LockExcludes'
    BY <1>0, <1>2
  <1>3. ASSUME pc[t] \in Critical, pc'[t] \in Critical, locked' = locked PROVE LockExcludes'
    BY <1>0, <1>3
  <1>4. ASSUME pc[t] \in Critical, pc'[t] \notin Critical, ~locked' PROVE LockExcludes'
    BY <1>0, <1>4
  <1> USE DEF Critical, Locking
  <1>5. CASE (\E b \in Blocks : Create(t, b)) \/ DropDesired(t) \/ DropExpected(t) \/ Release(t)
    BY <1>1, <1>5 DEF Create, DropDesired, DropExpected, Release
  <1>6. CASE Call(t)
    BY <1>1, <1>6 DEF Call
  <1>7. CASE Lock(t)
    BY <1>2, <1>7 DEF Lock, AfterLock
  <1>8. CASE LoadRef(t) \/ SwapPtr(t) \/ CasSucceeds(t) \/ CasFails(t) \/ CasRelease(t) \/ CasRef(t)
    BY <1>3, <1>8 DEF LoadRef, SwapPtr, CasSucceeds, CasFails, CasRelease, CasRef
  <1>9. CASE LoadUnlock(t) \/ SwapCb(t) \/ CasCb(t) \/ CasUnlock(t)
    BY <1>4, <1>9 DEF LoadUnlock, SwapCb, CasCb, CasUnlock, Unlock, SwapUnlock
  <1>10. QED
    BY <1>5, <1>6, <1>7, <1>8, <1>9 DEF Actions

\* What the invariant says of the shared_ptrs of one thread.
PairsOf(t) ==
    /\ expected[t].ptr = expected[t].cb
    /\ pc[t] \notin {"swapCb", "casCb"} => desired[t].ptr = desired[t].cb
    /\ pc[t] \in {"swapCb", "casCb"} => desired[t] = [ptr |-> cb, cb |-> ptr]
    /\ pc[t] \in Critical \ {"swapCb", "casCb"} => ptr = cb
    /\ pc[t] \in {"casCb", "casRelease", "casRef"} => expected[t].cb = cb
    /\ dead[t] # Null => pc[t] \in {"loadUnlock", "casRelease", "release"}

LEMMA InvByThread ==
  TypeOK => (IInv <=> /\ \A b \in Blocks : count[b] = Referrers(b)
                      /\ LockExcludes
                      /\ ~locked => ptr = cb
                      /\ \A t \in Threads : PairsOf(t))
  BY DEF IInv, CountsAgree, NoTornPair, HalfSwapped, ReleasesAhead, PairsOf,
         Referrers, RefOfAtomic, Desiring, Expecting, Releasing

\* The atomic changes only in the hands of a thread inside, which excludes others.
LEMMA OthersPairs ==
  ASSUME TypeOK, IInv, NEW t \in Threads, Actions(t), NEW u \in Threads, u # t
  PROVE  PairsOf(u)'
  <1>1. /\ desired'[u] = desired[u] /\ expected'[u] = expected[u]
        /\ dead'[u] = dead[u] /\ pc'[u] = pc[u]
    BY OneThreadMoves DEF OthersKeep
  <1>2. PairsOf(u)
    BY InvByThread
  <1>3. (ptr' = ptr /\ cb' = cb) \/ pc[t] \in {"swapPtr", "swapCb", "casTest", "casCb"}
    BY DEF Actions, Create, DropDesired, DropExpected, Call, Release, Lock, LoadRef, LoadUnlock,
           SwapPtr, SwapCb, CasSucceeds, CasCb, CasFails, CasRelease, CasRef, CasUnlock, Unlock,
           atomic
  <1>4. pc[t] \in Critical => pc[u] \notin Critical
    BY DEF IInv, NoTornPair, LockExcludes
  <1>5. QED
    BY <1>1, <1>2, <1>3, <1>4 DEF PairsOf, Critical

\* The thread that moves keeps its pairs together, and the atomic's.
LEMMA OwnPairs ==
  ASSUME TypeOK, IInv, NEW t \in Threads, Actions(t)
  PROVE  PairsOf(t)' /\ (~locked' => ptr' = cb')
  <1>1. PairsOf(t) /\ (~locked => ptr = cb) /\ (pc[t] \in Critical => locked)
    BY InvByThread DEF LockExcludes
  <1> USE <1>1 DEF PairsOf, TypeOK, Goto, atomic, Critical, Locking, Nil
  <1>2. CASE \E b \in Blocks : Create(t, b)
    BY <1>2 DEF Create
  <1>3. CASE DropDesired(t)
    BY <1>3 DEF DropDesired
  <1>4. CASE DropExpected(t)
    BY <1>4 DEF DropExpected
  <1>5. CASE Call(t) \/ Release(t)
    BY <1>5 DEF Call, Release
  <1>6. CASE Lock(t)
    BY <1>6 DEF Lock, AfterLock
  <1>7. CASE LoadRef(t)
    BY <1>7 DEF LoadRef
  <1>8. CASE LoadUnlock(t) \/ CasUnlock(t)
    BY <1>8 DEF LoadUnlock, CasUnlock, Unlock
  <1>9. CASE SwapPtr(t) \/ CasSucceeds(t)
    <2>1. desired[t] \in Pairs /\ desired'[t] = [desired[t] EXCEPT !.ptr = ptr]
      BY <1>9 DEF SwapPtr, CasSucceeds
    <2>2. /\ desired[t].ptr = desired[t].cb /\ ptr = cb
          /\ ptr' = desired[t].ptr /\ cb' = cb
      BY <1>9 DEF SwapPtr, CasSucceeds
    <2>3. desired'[t] = [ptr |-> cb', cb |-> ptr']
      BY <2>1, <2>2 DEF Pairs
    <2>4. QED
      BY <1>9, <2>2, <2>3 DEF SwapPtr, CasSucceeds
  <1>10. CASE SwapCb(t)
    <2>1. desired'[t] = [ptr |-> cb, cb |-> cb] /\ cb' = ptr
      BY <1>10 DEF SwapCb, SwapUnlock
    <2>2. QED
      BY <1>10, <2>1 DEF SwapCb, SwapUnlock
  <1>11. CASE CasCb(t)
    BY <1>11 DEF CasCb, SwapUnlock
  <1>12. CASE CasFails(t)
    BY <1>12 DEF CasFails
  <1>13. CASE CasRelease(t) \/ CasRef(t)
    BY <1>13 DEF CasRelease, CasRef
  <1>14. QED
    BY <1>2, <1>3, <1>4, <1>5, <1>6, <1>7, <1>8, <1>9, <1>10, <1>11, <1>12, <1>13 DEF Actions

LEMMA InvStep ==
  ASSUME IInv, NEW t \in Threads, Actions(t)
  PROVE  IInv'
  <1>1. TypeOK /\ CountsAgree /\ LockExcludes
    BY DEF IInv, CountsAgree, NoTornPair
  <1>2. TypeOK'
    BY <1>1, TypeStep
  <1>3. \A b \in Blocks : count'[b] = Referrers(b)'
    BY <1>1, OneThreadMoves, CountStep, CountsFollow
  <1>4. LockExcludes'
    BY <1>1, LockStep
  <1>5. \A u \in Threads : PairsOf(u)'
    BY <1>1, OthersPairs, OwnPairs
  <1>6. ~locked' => ptr' = cb'
    BY <1>1, OwnPairs
  <1>7. QED
    BY <1>2, <1>3, <1>4, <1>5, <1>6
    DEF IInv, CountsAgree, NoTornPair, HalfSwapped, ReleasesAhead, PairsOf,
        Referrers, RefOfAtomic, Desiring, Expecting, Releasing

LEMMA InitIInv == Init => IInv
  <1> SUFFICES ASSUME Init PROVE IInv
    OBVIOUS
  <1>1. TypeOK
    BY DEF Init, TypeOK, Pairs, Refs, Nil, States
  <1>2. \A t \in Threads : PairsOf(t)
    BY DEF Init, PairsOf, Nil, Critical
  <1>3. ASSUME NEW b \in Blocks PROVE count[b] = Referrers(b)
    <2>1. Desiring(b) = {} /\ Expecting(b) = {} /\ Releasing(b) = {} /\ RefOfAtomic(b) = 0
      BY AtomicSharedPtrAssumption DEF Init, Nil, Desiring, Expecting, Releasing, RefOfAtomic
    <2>2. QED
      BY <2>1, FS_EmptySet DEF Init, Referrers
  <1>4. LockExcludes
    BY DEF Init, LockExcludes, Critical
  <1>5. QED
    BY <1>1, <1>2, <1>3, <1>4, InvByThread DEF Init

LEMMA NextIsAction ==
  Next <=> \E t \in Threads : Actions(t)
  BY DEF Next, Actions, Client, Inside, Load, Exchange, CompareExchange

\* In every state of every behaviour, for any number of threads and blocks, the
\* counts agree and whoever is inside an operation has what the next step needs.
THEOREM Invariance == Safety => []IInv
  <1>1. IInv /\ [Next]_vars => IInv'
    <2> SUFFICES ASSUME IInv, [Next]_vars PROVE IInv'
      OBVIOUS
    <2>1. CASE Next
      BY <2>1, NextIsAction, InvStep
    <2>2. CASE UNCHANGED vars
      <3>1. /\ ptr' = ptr /\ cb' = cb /\ locked' = locked /\ count' = count
            /\ desired' = desired /\ expected' = expected /\ dead' = dead /\ pc' = pc
        BY <2>2 DEF vars
      <3>2. CountsAgree'
        <4>1. TypeOK'
          BY <3>1 DEF IInv, CountsAgree, TypeOK
        <4>2. \A b \in Blocks : Referrers(b)' = Referrers(b)
          BY <3>1 DEF Referrers, RefOfAtomic, Desiring, Expecting, Releasing
        <4>3. QED
          BY <3>1, <4>1, <4>2
          DEF IInv, CountsAgree, Referrers, RefOfAtomic, Desiring, Expecting, Releasing
      <3>3. NoTornPair'
        BY <3>1 DEF IInv, NoTornPair, LockExcludes
      <3>4. HalfSwapped' /\ ReleasesAhead'
        BY <3>1 DEF IInv, HalfSwapped, ReleasesAhead
      <3>5. QED
        BY <3>2, <3>3, <3>4 DEF IInv
    <2>3. QED
      BY <2>1, <2>2
  <1>2. QED
    BY InitIInv, <1>1, PTL DEF Safety

\* However the threads interleave, the counts are those of the references there
\* are, so that no block is freed that is referred to (atomic_shared_ptr.hpp:112).
THEOREM CountsAgreeCorrect == Spec => []CountsAgree
  <1>1. IInv => CountsAgree
    BY DEF IInv
  <1>2. QED
    BY <1>1, Invariance, PTL DEF Spec

\* The lock bit excludes, and whoever is inside finds the two fields of the atomic
\* belonging together (spinlock_ptr.hpp).
THEOREM NoTornPairCorrect == Spec => []NoTornPair
  <1>1. IInv => NoTornPair
    BY DEF IInv
  <1>2. QED
    BY <1>1, Invariance, PTL DEF Spec
----------------------------------------------------------------------------
\* The refinement, as functions of one thread.
Wants(t) ==
    IF pc[t] \in {"casRelease", "casRef", "casUnlock"} THEN Null ELSE desired[t].cb

Desired == [t \in Threads |-> Wants(t)]

Expected == [t \in Threads |-> expected[t].cb]

CalledBy == [t \in Threads |-> Called(t)]

\* The promise sees of a step what it does to the references of one thread.
LEMMA OneThreadSeen ==
  ASSUME NEW t \in Threads, OthersKeep(t)
  PROVE  /\ Desired' = [Desired EXCEPT ![t] = Wants(t)']
         /\ Expected' = [Expected EXCEPT ![t] = expected'[t].cb]
         /\ CalledBy' = [CalledBy EXCEPT ![t] = Called(t)']
         /\ Desired[t] = Wants(t) /\ Expected[t] = expected[t].cb /\ CalledBy[t] = Called(t)
  BY DEF OthersKeep, Desired, Wants, Expected, CalledBy, Called

\* Nobody refers to a block that can be created again.
LEMMA FreshBlock ==
  ASSUME IInv, NEW t \in Threads, NEW b \in Blocks, count[b] = 0
  PROVE  b # cb /\ b # Wants(t) /\ b # expected[t].cb
  <1>1. RefsOf(t, b) + RefOfAtomic(b) <= 0 /\ RefsOf(t, b) \in Nat /\ RefOfAtomic(b) \in Nat
    BY Counted DEF RefsOf, RefOfAtomic, IInv
  <1>2. RefsOf(t, b) = 0 /\ RefOfAtomic(b) = 0
    BY <1>1
  <1>3. t \notin Desiring(b) /\ t \notin Expecting(b) /\ b # cb
    BY <1>2 DEF RefsOf, RefOfAtomic
  <1>4. QED
    BY <1>3, AtomicSharedPtrAssumption DEF Desiring, Expecting, Wants, IInv, CountsAgree

\* A step is invisible, or it is one of the promise.
LEMMA StepRefines ==
  ASSUME IInv, NEW t \in Threads, Actions(t)
  PROVE  Promise!Next \/ UNCHANGED Promise!vars
  <1>1. /\ Desired' = [Desired EXCEPT ![t] = Wants(t)']
        /\ Expected' = [Expected EXCEPT ![t] = expected'[t].cb]
        /\ CalledBy' = [CalledBy EXCEPT ![t] = Called(t)']
        /\ Desired[t] = Wants(t) /\ Expected[t] = expected[t].cb /\ CalledBy[t] = Called(t)
    BY OneThreadMoves, OneThreadSeen DEF IInv, CountsAgree
  <1>2. TypeOK /\ PairsOf(t) /\ (pc[t] \in Critical => locked) /\ (~locked => ptr = cb)
    BY InvByThread DEF IInv, CountsAgree, NoTornPair, LockExcludes
  <1>3. /\ Desired = [u \in Threads |->
                   IF pc[u] \in {"casRelease", "casRef", "casUnlock"} THEN Null
                   ELSE desired[u].cb]
        /\ Expected = [u \in Threads |-> expected[u].cb]
        /\ CalledBy = [u \in Threads |-> Called(u)]
        /\ Desired' = [u \in Threads |->
                   IF pc'[u] \in {"casRelease", "casRef", "casUnlock"} THEN Null
                   ELSE desired'[u].cb]
        /\ Expected' = [u \in Threads |-> expected'[u].cb]
        /\ CalledBy' = [u \in Threads |-> Called(u)']
    BY DEF Desired, Wants, Expected, CalledBy
  <1>4. ASSUME Wants(t)' = Wants(t), expected'[t].cb = expected[t].cb, Called(t)' = Called(t), cb' = cb
        PROVE  UNCHANGED Promise!vars
    <2>1. Desired' = Desired /\ Expected' = Expected /\ CalledBy' = CalledBy
      BY <1>1, <1>4 DEF Desired, Expected, CalledBy
    <2>2. QED
      BY <1>3, <1>4, <2>1 DEF Promise!vars
  <1> USE <1>2 DEF TypeOK, Goto, atomic, Wants, Called, Nil
  <1>5. ASSUME NEW b \in Blocks, Create(t, b)
        PROVE  Promise!Create(t, b)
    <2>1. b # cb /\ \A u \in Threads : b # Desired[u] /\ b # Expected[u]
      <3>1. count[b] = 0
        BY <1>5 DEF Create
      <3>2. \A u \in Threads : b # cb /\ b # Wants(u) /\ b # expected[u].cb
        BY <3>1, FreshBlock
      <3>3. QED
        BY <3>2 DEF Desired, Expected
    <2>2. /\ Called(t) = "none" /\ Called(t)' = "none" /\ Wants(t) = Null /\ Wants(t)' = b
          /\ expected' = expected /\ cb' = cb
      BY <1>5 DEF Create
    <2>3. Expected' = Expected /\ CalledBy' = CalledBy
      BY <1>1, <2>2 DEF Expected, CalledBy
    <2>4. QED
      BY <1>1, <1>3, <2>1, <2>2, <2>3 DEF Promise!Create
  <1>6. CASE DropDesired(t)
    <2>1. /\ Called(t) = "none" /\ Called(t)' = "none" /\ Wants(t)' = Null
          /\ expected' = expected /\ cb' = cb
      BY <1>6 DEF DropDesired
    <2>2. Expected' = Expected /\ CalledBy' = CalledBy
      BY <1>1, <2>1 DEF Expected, CalledBy
    <2>3. Promise!Drop(t)
      BY <1>1, <1>3, <2>1, <2>2 DEF Promise!Drop
    <2>4. QED
      BY <2>3 DEF Promise!Next
  <1>7. CASE DropExpected(t)
    <2>1. /\ Called(t) = "none" /\ Called(t)' = "none" /\ Wants(t)' = Wants(t)
          /\ expected'[t].cb = Null /\ cb' = cb
      BY <1>7 DEF DropExpected
    <2>2. Desired' = Desired
      BY <1>1, <2>1 DEF Desired
    <2>3. CalledBy' = CalledBy
      BY <1>1, <2>1 DEF CalledBy
    <2>4. Promise!Drop(t)
      BY <1>1, <1>3, <2>1, <2>2, <2>3 DEF Promise!Drop
    <2>5. QED
      BY <2>4 DEF Promise!Next
  <1>8. CASE Call(t)
    <2>1. PICK op \in Locking : Goto(t, op)
      BY <1>8 DEF Call
    <2>2. /\ Called(t) = "none" /\ Wants(t)' = Wants(t) /\ expected' = expected /\ cb' = cb
      BY <1>8, <2>1 DEF Call, Locking
    <2>3. PICK name \in {"load", "exchange", "compare_exchange"} : Called(t)' = name
      BY <1>8, <2>1 DEF Call, Locking
    <2>4. Expected' = Expected /\ Desired' = Desired
      BY <1>1, <2>2, ZenonT(40) DEF Expected, Desired
    <2>5. Promise!Call(t, name)
      BY <1>1, <1>3, <2>2, <2>3, <2>4 DEF Promise!Call
    <2>6. QED
      BY <2>5 DEF Promise!Next
  <1>9. CASE LoadRef(t)
    <2>1. /\ Called(t) = "load" /\ Called(t)' = "none" /\ Wants(t)' = Wants(t)
          /\ expected'[t].cb = cb /\ cb' = cb
      BY <1>9 DEF LoadRef
    <2>2. Desired' = Desired
      BY <1>1, <2>1 DEF Desired
    <2>3. Promise!Load(t)
      BY <1>1, <1>3, <2>1, <2>2 DEF Promise!Load, Promise!Effect
    <2>4. QED
      BY <2>3 DEF Promise!Next
  <1>10. CASE SwapCb(t)
    <2>1. /\ Called(t) = "exchange" /\ Called(t)' = "none" /\ Wants(t)' = cb
          /\ expected' = expected /\ cb' = Wants(t)
      BY <1>10 DEF SwapCb, SwapUnlock
    <2>2. Expected' = Expected
      BY <1>1, <2>1 DEF Expected
    <2>3. Promise!Exchange(t)
      BY <1>1, <1>3, <2>1, <2>2 DEF Promise!Exchange, Promise!Effect
    <2>4. QED
      BY <2>3 DEF Promise!Next
  <1>11. CASE CasCb(t)
    <2>1. /\ Called(t) = "compare_exchange" /\ Called(t)' = "none" /\ Wants(t)' = Null
          /\ expected' = expected /\ expected[t].cb = cb /\ cb' = Wants(t)
      BY <1>11 DEF CasCb, SwapUnlock, PairsOf
    <2>2. Expected' = Expected
      BY <1>1, <2>1 DEF Expected
    <2>3. Promise!CasSucceeds(t)
      BY <1>1, <1>3, <2>1, <2>2 DEF Promise!CasSucceeds, Promise!Effect
    <2>4. QED
      BY <2>3 DEF Promise!Next
  <1>12. CASE CasFails(t)
    <2>1. /\ Called(t) = "compare_exchange" /\ Called(t)' = "none" /\ Wants(t)' = Null
          /\ expected'[t].cb = cb /\ expected[t].cb # cb /\ cb' = cb
      BY <1>12 DEF CasFails, PairsOf, Critical
    <2>2. Promise!CasFails(t)
      BY <1>1, <1>3, <2>1 DEF Promise!CasFails, Promise!Effect
    <2>3. QED
      BY <2>2 DEF Promise!Next
  <1>13. CASE Release(t) \/ Lock(t) \/ LoadUnlock(t)
    BY <1>4, <1>13 DEF Release, Lock, LoadUnlock, Unlock, AfterLock, Locking
  <1>14. CASE SwapPtr(t) \/ CasSucceeds(t)
    <2>1. desired'[t].cb = desired[t].cb
      <3>1. desired[t] \in Pairs /\ desired'[t] = [desired[t] EXCEPT !.ptr = ptr]
        BY <1>14 DEF SwapPtr, CasSucceeds
      <3>2. QED
        BY <3>1 DEF Pairs
    <2>2. QED
      BY <1>4, <1>14, <2>1 DEF SwapPtr, CasSucceeds
  <1>15. CASE CasRelease(t) \/ CasRef(t) \/ CasUnlock(t)
    BY <1>4, <1>15 DEF CasRelease, CasRef, CasUnlock, Unlock
  <1>16. QED
    BY <1>5, <1>6, <1>7, <1>8, <1>9, <1>10, <1>11, <1>12, <1>13, <1>14, <1>15
    DEF Actions, Promise!Next

\* Each load, exchange and compare_exchange takes effect at once, and no block is
\* created while it is referred to: ImplementsRegister.
THEOREM RefinesRegister == Spec => ImplementsRegister
  <1>1. Init => Promise!Init
    <2> SUFFICES ASSUME Init PROVE Promise!Init
      OBVIOUS
    <2>1. QED
      BY DEF Init, Nil, Called, Promise!Init
  <1>2. ASSUME IInv, [Next]_vars
        PROVE  [Promise!Next]_(Promise!vars)
    <2>1. CASE Next
      BY <1>2, <2>1, NextIsAction, StepRefines
    <2>2. CASE UNCHANGED vars
      BY <2>2 DEF vars, Called, Promise!vars
    <2>3. QED
      BY <1>2, <2>1, <2>2
  <1>3. QED
    BY <1>1, <1>2, Invariance, PTL DEF Spec, Safety, ImplementsRegister, Promise!Spec

----------------------------------------------------------------------------

\* What is counted in the instance is what is counted here.
LEMMA SameCardinality ==
  /\ \A S : Split!IsFiniteSet(S) <=> IsFiniteSet(S)
  /\ \A S : Split!Cardinality(S) = Cardinality(S)
  <1>1. \A S : Split!IsFiniteSet(S) <=> IsFiniteSet(S)
    BY DEF IsFiniteSet, Split!IsFiniteSet
  <1>2. \A S : Split!Cardinality(S) = Cardinality(S)
    BY DEF Cardinality, Split!Cardinality
  <1>3. QED
    BY <1>1, <1>2

SplitActions(t) ==
    \/ \E b \in Blocks : Split!Create(t, b)
    \/ Split!DropDesired(t) \/ Split!DropExpected(t) \/ Split!Call(t) \/ Split!Release(t)
    \/ Split!Pin(t) \/ Split!LoadNull(t) \/ Split!AddRef(t) \/ Split!Unpin(t) \/ Split!UnpinRemote(t)
    \/ Split!Swap(t) \/ Split!Help(t)
    \/ Split!CasLoad(t) \/ Split!CasSucceeds(t) \/ Split!CasHelp(t) \/ Split!CasFails(t)

LEMMA SplitNextIsAction ==
  Split!SplitNext <=> ~Split!Undefined /\ \E t \in Threads : SplitActions(t)
  BY DEF Split!SplitNext, SplitActions, Split!Client, Split!Load, Split!Exchange, Split!CompareExchange

SplitOthersKeep(t) ==
    \A u \in Threads : u # t =>
        /\ desired2'[u] = desired2[u] /\ expected2'[u] = expected2[u]
        /\ cur'[u] = cur[u] /\ dead2'[u] = dead2[u] /\ pc2'[u] = pc2[u]

\* The tables of the places in the code.
LEMMA Places ==
  /\ DOMAIN Split!Loading = {"pin", "addRef", "unpin", "casPin", "casAddRef", "casUnpin"}
  /\ Split!Loading["pin"] = "addRef" /\ Split!Loading["addRef"] = "unpin" /\ Split!Loading["unpin"] = "unpinRemote"
  /\ Split!Loading["casPin"] = "casAddRef" /\ Split!Loading["casAddRef"] = "casUnpin"
  /\ Split!Loading["casUnpin"] = "casUnpinRemote"
  /\ DOMAIN Split!Releasing = {"release", "releaseRetry", "releaseFail"}
  /\ Split!Releasing["release"] = "idle" /\ Split!Releasing["releaseRetry"] = "casLoad"
  /\ Split!Releasing["releaseFail"] = "dropDesired"
  /\ DOMAIN Split!Calls = {"load", "exchange", "compare_exchange"}
  /\ Split!Calls["load"] = "pin" /\ Split!Calls["exchange"] = "swap"
  /\ Split!Calls["compare_exchange"] = "casLoad"
  BY DEF Split!Loading, Split!Releasing, Split!Calls

LEMMA PlacesAre ==
  Split!States = {"idle", "swap", "help", "casLoad", "casTest", "casHelp", "dropDesired",
            "unpinRemote", "casUnpinRemote", "pin", "addRef", "unpin", "casPin", "casAddRef",
            "casUnpin", "release", "releaseRetry", "releaseFail"}
  BY Places DEF Split!States

LEMMA PackIs ==
  ASSUME Split!SplitAssumption, NEW b \in Split!Refs, NEW n \in Int
  PROVE  /\ Split!Pack(b, n) \in Split!Packed /\ Split!Pack(b, n).ptr = b
         /\ n \in 0 .. Wrap - 1 => Split!Pack(b, n).count = n
         /\ n = 0 - 1 => Split!Pack(b, n).count = Wrap - 1
  <1>1. Wrap \in Nat /\ Wrap > 1
    <2>1. Cardinality(Threads) \in Nat
      BY FS_CardinalityType, SameCardinality DEF Split!SplitAssumption
    <2>2. QED
      BY <2>1, SameCardinality DEF Split!SplitAssumption
  <1>2. n % Wrap \in 0 .. Wrap - 1
    BY <1>1
  <1>3. n \in 0 .. Wrap - 1 => n % Wrap = n
    BY <1>1
  <1>4. (0 - 1) % Wrap = Wrap - 1
    BY <1>1
  <1>5. QED
    BY <1>2, <1>3, <1>4 DEF Split!Pack, Split!Packed

\* What takes the result of a load does to its thread.
LEMMA TakeResultIs ==
  ASSUME Split!SplitAssumption, Split!TypeOK, NEW t \in Threads, NEW b \in Split!Refs,
         Split!TakeResult(t, b)
  PROVE  /\ expected2'[t] = b /\ dead2'[t] = expected2[t]
         /\ cur'[t] = Split!Pack(Null, 0) /\ left'[t] = FALSE
         /\ pc2'[t] = IF pc2[t] \in {"pin", "unpin", "unpinRemote"} THEN "release"
                     ELSE IF b = expected2[t] THEN "releaseRetry" ELSE "releaseFail"
         /\ expected2' \in [Threads -> Split!Refs] /\ dead2' \in [Threads -> Split!Refs]
         /\ cur' \in [Threads -> Split!Packed] /\ left' \in [Threads -> BOOLEAN]
         /\ pc2' \in [Threads -> Split!States]
         /\ \A u \in Threads : u # t =>
               /\ expected2'[u] = expected2[u] /\ dead2'[u] = dead2[u]
               /\ cur'[u] = cur[u] /\ left'[u] = left[u] /\ pc2'[u] = pc2[u]
  <1> USE DEF Split!TypeOK
  <1>1. Split!Pack(Null, 0) \in Split!Packed
    <2>1. Null \in Split!Refs /\ 0 \in Int
      BY DEF Split!Refs
    <2>2. QED
      BY <2>1, PackIs
  <1>2. {"release", "releaseRetry", "releaseFail"} \subseteq Split!States
    BY PlacesAre
  <1>3. /\ dead2' = [dead2 EXCEPT ![t] = expected2[t]] /\ expected2' = [expected2 EXCEPT ![t] = b]
        /\ cur' = [cur EXCEPT ![t] = Split!Pack(Null, 0)] /\ left' = [left EXCEPT ![t] = FALSE]
    BY DEF Split!TakeResult, Split!Forget
  <1>4. pc2' = [pc2 EXCEPT ![t] =
                  IF pc2[t] \in {"pin", "unpin", "unpinRemote"} THEN "release"
                  ELSE IF b = expected2[t] THEN "releaseRetry" ELSE "releaseFail"]
    BY DEF Split!TakeResult, Split!Goto
  <1>5. /\ dead2' \in [Threads -> Split!Refs] /\ expected2' \in [Threads -> Split!Refs]
        /\ cur' \in [Threads -> Split!Packed] /\ left' \in [Threads -> BOOLEAN]
    BY <1>1, <1>3
  <1>6. pc2' \in [Threads -> Split!States]
    BY <1>2, <1>4
  <1>7. QED
    BY <1>3, <1>4, <1>5, <1>6

\* The atomic is given desired.
LEMMA PutDesiredIs ==
  ASSUME Split!SplitAssumption, Split!TypeOK, NEW t \in Threads, Split!PutDesired(t)
  PROVE  /\ packed' \in Split!Packed /\ packed'.ptr = desired2[t] /\ packed'.count = 0
         /\ cur' \in [Threads -> Split!Packed] /\ left' \in [Threads -> BOOLEAN]
         /\ cur'[t] = packed /\ \A u \in Threads : u # t => cur'[u] = cur[u]
         /\ \A u \in Threads : left'[u] = (left[u] \/ u \in Split!Pins(packed.ptr))
  <1>1. desired2[t] \in Split!Refs /\ packed \in Split!Packed /\ 0 \in 0 .. Wrap - 1
    BY FS_CardinalityType, SameCardinality DEF Split!TypeOK, Split!SplitAssumption
  <1>2. packed' \in Split!Packed /\ packed'.ptr = desired2[t] /\ packed'.count = 0
    BY <1>1, PackIs DEF Split!PutDesired
  <1>3. QED
    BY <1>1, <1>2 DEF Split!PutDesired, Split!TypeOK

LEMMA SplitOneThreadMoves ==
  ASSUME Split!SplitAssumption, Split!TypeOK, NEW t \in Threads, SplitActions(t)
  PROVE  SplitOthersKeep(t)
  <1>1. CASE \/ \E b \in Blocks : Split!Create(t, b)
             \/ Split!DropDesired(t) \/ Split!DropExpected(t) \/ Split!Call(t) \/ Split!Release(t) \/ Split!Pin(t)
    BY <1>1
    DEF Split!TypeOK, SplitOthersKeep, Split!Create, Split!DropDesired, Split!DropExpected,
        Split!Call, Split!Release, Split!Pin, Split!Goto
  <1>2. CASE Split!LoadNull(t)
    <2>1. Split!TakeResult(t, Null) /\ UNCHANGED desired2
      BY <1>2 DEF Split!LoadNull
    <2>2. QED
      BY <2>1, TakeResultIs DEF SplitOthersKeep, Split!Refs
  <1>3. CASE Split!Unpin(t) \/ Split!UnpinRemote(t)
    <2>1. cur[t].ptr \in Split!Refs /\ UNCHANGED desired2
      BY <1>3 DEF Split!Unpin, Split!UnpinRemote, Split!TypeOK, Split!Packed
    <2>2. CASE Split!TakeResult(t, cur[t].ptr)
      BY <2>1, <2>2, TakeResultIs, ZenonT(40) DEF SplitOthersKeep
    <2>3. CASE ~Split!TakeResult(t, cur[t].ptr)
      <3>1. Split!Goto(t, Split!Loading[pc2[t]]) /\ UNCHANGED <<expected2, cur, dead2>>
        BY <1>3, <2>3 DEF Split!Unpin, Split!UnpinRemote
      <3>2. QED
        BY <2>1, <3>1 DEF SplitOthersKeep, Split!Goto, Split!TypeOK
    <2>4. QED
      BY <2>2, <2>3
  <1>4. CASE Split!Swap(t) \/ Split!CasSucceeds(t)
    BY <1>4, PutDesiredIs
    DEF Split!TypeOK, SplitOthersKeep, Split!Swap, Split!CasSucceeds, Split!Goto
  <1>5. CASE Split!AddRef(t) \/ Split!Help(t) \/ Split!CasLoad(t) \/ Split!CasHelp(t) \/ Split!CasFails(t)
    BY <1>5
    DEF Split!TypeOK, SplitOthersKeep, Split!AddRef, Split!Help, Split!CasLoad, Split!CasHelp,
        Split!CasFails, Split!Forget, Split!Goto
  <1>6. QED
    BY <1>1, <1>2, <1>3, <1>4, <1>5 DEF SplitActions

LEMMA SplitTypeStep ==
  ASSUME Split!SplitAssumption, Split!TypeOK, NEW t \in Threads, SplitActions(t)
  PROVE  Split!TypeOK'
  <1> USE DEF Split!TypeOK, Split!Goto
  <1>s. {"idle", "swap", "help", "casLoad", "casTest", "casHelp", "casPin", "release"} \subseteq Split!States
    BY PlacesAre
  <1>p. Null \in Split!Refs /\ Blocks \subseteq Split!Refs /\ Split!Pack(Null, 0) \in Split!Packed
    <2>1. Null \in Split!Refs /\ Blocks \subseteq Split!Refs /\ 0 \in Int
      BY DEF Split!Refs
    <2>2. QED
      BY <2>1, PackIs
  <1>a. ASSUME NEW b \in Split!Refs, NEW n \in Int, Split!Add(b, n) PROVE remote' \in [Blocks -> Int]
    BY <1>a DEF Split!Add, Split!Refs
  <1>l. ASSUME pc2[t] \in DOMAIN Split!Loading PROVE Split!Loading[pc2[t]] \in Split!States
    BY <1>l, Places, PlacesAre
  <1>t. packed.ptr \in Split!Refs /\ packed.count \in Int /\ cur[t].ptr \in Split!Refs /\ cur[t].count \in Int
    BY DEF Split!Packed
  <1>1. CASE (\E b \in Blocks : Split!Create(t, b)) \/ Split!DropDesired(t) \/ Split!DropExpected(t)
    BY <1>1, <1>s, <1>p DEF Split!Create, Split!DropDesired, Split!DropExpected
  <1>2. CASE Split!Call(t)
    <2>1. PICK op \in DOMAIN Split!Calls : Split!Goto(t, Split!Calls[op])
      BY <1>2 DEF Split!Call
    <2>2. Split!Calls[op] \in Split!States
      BY Places, PlacesAre
    <2>3. QED
      BY <1>2, <2>1, <2>2 DEF Split!Call
  <1>3. CASE Split!Release(t)
    <2>1. Split!Releasing[pc2[t]] \in Split!States
      BY <1>3, Places, PlacesAre DEF Split!Release
    <2>2. remote' \in [Blocks -> Int]
      BY <1>3, <1>a DEF Split!Release
    <2>3. QED
      BY <1>3, <1>p, <2>1, <2>2 DEF Split!Release
  <1>4. CASE Split!Pin(t)
    <2>1. packed' \in Split!Packed
      BY <1>4, <1>t, PackIs DEF Split!Pin
    <2>2. Split!Loading[pc2[t]] \in Split!States
      BY <1>4, <1>l, Places DEF Split!Pin
    <2>3. QED
      BY <1>4, <2>1, <2>2 DEF Split!Pin
  <1>5. CASE Split!LoadNull(t)
    BY <1>5, <1>p, TakeResultIs DEF Split!LoadNull
  <1>6. CASE Split!AddRef(t)
    <2>1. remote' \in [Blocks -> Int]
      BY <1>6, <1>a, <1>t DEF Split!AddRef
    <2>2. Split!Loading[pc2[t]] \in Split!States
      BY <1>6, <1>l, Places DEF Split!AddRef
    <2>3. QED
      BY <1>6, <2>1, <2>2 DEF Split!AddRef
  <1>7. CASE Split!Unpin(t)
    <2>1. CASE packed.ptr = cur[t].ptr
      <3>1. packed' \in Split!Packed
        BY <1>7, <1>t, <2>1, PackIs DEF Split!Unpin
      <3>2. Split!TakeResult(t, cur[t].ptr) /\ astray' \in BOOLEAN /\ UNCHANGED <<remote, desired2>>
        BY <1>7, <2>1 DEF Split!Unpin
      <3>3. QED
        BY <1>t, <3>1, <3>2, TakeResultIs
    <2>2. CASE packed.ptr # cur[t].ptr
      <3>1. Split!Loading[pc2[t]] \in Split!States
        BY <1>7, <1>l, Places DEF Split!Unpin
      <3>2. QED
        BY <1>7, <2>2, <3>1 DEF Split!Unpin
    <2>3. QED
      BY <2>1, <2>2
  <1>8. CASE Split!UnpinRemote(t)
    <2>1. remote' \in [Blocks -> Int]
      BY <1>8, <1>a, <1>t DEF Split!UnpinRemote
    <2>2. Split!TakeResult(t, cur[t].ptr) /\ UNCHANGED <<packed, desired2, astray>>
      BY <1>8 DEF Split!UnpinRemote
    <2>3. QED
      BY <1>t, <2>1, <2>2, TakeResultIs
  <1>9. CASE Split!Swap(t)
    <2>1. Split!PutDesired(t) /\ desired2' \in [Threads -> Split!Refs] /\ pc2' \in [Threads -> Split!States]
      BY <1>9, <1>s, <1>t DEF Split!Swap
    <2>2. QED
      BY <1>9, <2>1, PutDesiredIs DEF Split!Swap
  <1>10. CASE Split!Help(t) \/ Split!CasHelp(t)
    <2>1. remote' \in [Blocks -> Int]
      BY <1>10, <1>a, <1>t DEF Split!Help, Split!CasHelp
    <2>2. QED
      BY <1>10, <1>s, <1>p, <1>t, <2>1, ZenonT(40) DEF Split!Help, Split!CasHelp, Split!Forget
  <1>11. CASE Split!CasLoad(t)
    <2>1. Split!Pack(expected2[t], packed.count) \in Split!Packed
      BY <1>t, PackIs
    <2>2. QED
      BY <1>11, <1>s, <2>1 DEF Split!CasLoad
  <1>12. CASE Split!CasSucceeds(t)
    <2>1. Split!PutDesired(t) /\ desired2' \in [Threads -> Split!Refs] /\ pc2' \in [Threads -> Split!States]
      BY <1>12, <1>s, <1>p DEF Split!CasSucceeds
    <2>2. QED
      BY <1>12, <2>1, PutDesiredIs DEF Split!CasSucceeds
  <1>13. CASE Split!CasFails(t)
    BY <1>13, <1>s, <1>p DEF Split!CasFails, Split!Forget
  <1>14. QED
    BY <1>1, <1>2, <1>3, <1>4, <1>5, <1>6, <1>7, <1>8, <1>9, <1>10, <1>11, <1>12, <1>13
    DEF SplitActions

----------------------------------------------------------------------------
\* What SplitCountsAgree counts, and the part of one thread and of the atomic in it.
SplitDesiring(b) == {t \in Threads : desired2[t] = b}

SplitExpecting(b) == {t \in Threads : expected2[t] = b}

Dying(b) == {t \in Threads : dead2[t] = b}

Moving(b) == {t \in Threads : pc2[t] = "casHelp" /\ cur[t].ptr = b}

Held(b) ==
    Cardinality(SplitDesiring(b)) + Cardinality(SplitExpecting(b)) + Cardinality(Dying(b))
    + Cardinality(Moving(b)) + Cardinality(Split!Results(b)) + Cardinality(Split!Pins(b))

Flag(p) == IF p THEN 1 ELSE 0

HeldBy(t, b) ==
    Flag(t \in SplitDesiring(b)) + Flag(t \in SplitExpecting(b)) + Flag(t \in Dying(b))
    + Flag(t \in Moving(b)) + Flag(t \in Split!Results(b)) + Flag(t \in Split!Pins(b))

OwedBy(t, b) == IF t \in Split!Owing(b) THEN cur[t].count ELSE 0

\* Without the reference of the atomic.
AtAtomic(b) == IF packed.ptr = b THEN Split!Local - 1 ELSE 0

LEMMA Sets ==
  ASSUME Split!SplitAssumption, NEW b
  PROVE  /\ IsFiniteSet(SplitDesiring(b)) /\ IsFiniteSet(SplitExpecting(b)) /\ IsFiniteSet(Dying(b))
         /\ IsFiniteSet(Moving(b)) /\ IsFiniteSet(Split!Results(b)) /\ IsFiniteSet(Split!Pins(b))
         /\ IsFiniteSet(Split!Owing(b)) /\ IsFiniteSet(Split!Current)
         /\ Cardinality(SplitDesiring(b)) \in Nat /\ Cardinality(SplitExpecting(b)) \in Nat
         /\ Cardinality(Dying(b)) \in Nat /\ Cardinality(Moving(b)) \in Nat
         /\ Cardinality(Split!Results(b)) \in Nat /\ Cardinality(Split!Pins(b)) \in Nat
         /\ Cardinality(Split!Current) \in Nat
  <1>1. /\ SplitDesiring(b) \subseteq Threads /\ SplitExpecting(b) \subseteq Threads
        /\ Dying(b) \subseteq Threads /\ Moving(b) \subseteq Threads
        /\ Split!Results(b) \subseteq Threads /\ Split!Pins(b) \subseteq Threads /\ Split!Owing(b) \subseteq Threads
        /\ Split!Current \subseteq Threads
    BY DEF SplitDesiring, SplitExpecting, Dying, Moving, Split!Results, Split!Pins, Split!Owing, Split!Current
  <1>2. ASSUME NEW S, S \subseteq Threads PROVE IsFiniteSet(S) /\ Cardinality(S) \in Nat
    BY <1>2, FS_Subset, FS_CardinalityType, SameCardinality DEF Split!SplitAssumption
  <1>3. QED
    BY <1>1, <1>2

\* The invariant and the terms above.
LEMMA Exactly ==
  ASSUME Split!SplitAssumption, Split!TypeOK
  PROVE  Split!SplitCountsAgree <=>
            \A b \in Blocks : remote[b] + AtAtomic(b) + Cardinality(Split!Owed(b)) = Held(b)
  <1>1. ASSUME NEW b \in Blocks
        PROVE  remote[b] + (IF packed.ptr = b THEN Split!Local ELSE 0) + Cardinality(Split!Owed(b))
                    = Split!References(b) + Cardinality(Split!Pins(b))
               <=> remote[b] + AtAtomic(b) + Cardinality(Split!Owed(b)) = Held(b)
    <2>1. Split!References(b) = (IF packed.ptr = b THEN 1 ELSE 0)
                + Cardinality(SplitDesiring(b)) + Cardinality(SplitExpecting(b)) + Cardinality(Dying(b))
                + Cardinality(Moving(b)) + Cardinality(Split!Results(b))
      BY SameCardinality DEF Split!References, SplitDesiring, SplitExpecting, Dying, Moving
    <2>2. remote[b] \in Int /\ Split!Local \in Int
      BY DEF Split!TypeOK, Split!Local, Split!Packed, Split!SplitAssumption
    <2>3. Cardinality(Split!Owed(b)) \in Int
      <3>1. IsFiniteSet(Split!Owing(b)) /\ IsFiniteSet(1 .. Wrap)
        BY Sets, FS_Interval, SameCardinality DEF Split!SplitAssumption
      <3>2. IsFiniteSet(Split!Owing(b) \X (1 .. Wrap))
        BY <3>1, FS_Product
      <3>3. IsFiniteSet(Split!Owed(b))
        BY <3>2, FS_Subset DEF Split!Owed
      <3>4. QED
        BY <3>3, FS_CardinalityType
    <2>4. QED
      BY Sets, <2>1, <2>2, <2>3 DEF AtAtomic, Held
  <1>2. QED
    BY <1>1, SameCardinality DEF Split!SplitCountsAgree

\* If one thread moves, the sums change by its part.
LEMMA HeldStep ==
  ASSUME Split!SplitAssumption, NEW t \in Threads, SplitOthersKeep(t), NEW b
  PROVE  /\ Held(b) \in Int /\ Held(b)' \in Int
         /\ HeldBy(t, b) \in Int /\ HeldBy(t, b)' \in Int
         /\ Held(b)' = Held(b) + HeldBy(t, b)' - HeldBy(t, b)
  <1>1. /\ SplitDesiring(b) \ {t} = SplitDesiring(b)' \ {t} /\ SplitExpecting(b) \ {t} = SplitExpecting(b)' \ {t}
        /\ Dying(b) \ {t} = Dying(b)' \ {t} /\ Moving(b) \ {t} = Moving(b)' \ {t}
    BY DEF SplitOthersKeep, SplitDesiring, SplitExpecting, Dying, Moving
  <1>2. Split!Pins(b) \ {t} = Split!Pins(b)' \ {t}
    BY DEF SplitOthersKeep, Split!Pins
  <1>3. Split!Results(b) \ {t} = Split!Results(b)' \ {t}
    BY <1>2 DEF SplitOthersKeep, Split!Results, Split!Pins
  <1>4. ASSUME NEW S, NEW T, IsFiniteSet(S), S \ {t} = T \ {t}
        PROVE  /\ Cardinality(S) \in Nat /\ Cardinality(T) \in Nat
               /\ Cardinality(T) = Cardinality(S) + Flag(t \in T) - Flag(t \in S)
    BY <1>4, OneMember DEF Flag
  <1>5. /\ Cardinality(SplitDesiring(b)) \in Nat /\ Cardinality(SplitDesiring(b)') \in Nat
        /\ Cardinality(SplitDesiring(b)') = Cardinality(SplitDesiring(b))
                + Flag(t \in SplitDesiring(b)') - Flag(t \in SplitDesiring(b))
    BY <1>1, <1>4, Sets
  <1>6. /\ Cardinality(SplitExpecting(b)) \in Nat /\ Cardinality(SplitExpecting(b)') \in Nat
        /\ Cardinality(SplitExpecting(b)') = Cardinality(SplitExpecting(b))
                + Flag(t \in SplitExpecting(b)') - Flag(t \in SplitExpecting(b))
    BY <1>1, <1>4, Sets
  <1>7. /\ Cardinality(Dying(b)) \in Nat /\ Cardinality(Dying(b)') \in Nat
        /\ Cardinality(Dying(b)') = Cardinality(Dying(b))
                + Flag(t \in Dying(b)') - Flag(t \in Dying(b))
    BY <1>1, <1>4, Sets
  <1>8. /\ Cardinality(Moving(b)) \in Nat /\ Cardinality(Moving(b)') \in Nat
        /\ Cardinality(Moving(b)') = Cardinality(Moving(b))
                + Flag(t \in Moving(b)') - Flag(t \in Moving(b))
    BY <1>1, <1>4, Sets
  <1>9. /\ Cardinality(Split!Pins(b)) \in Nat /\ Cardinality(Split!Pins(b)') \in Nat
        /\ Cardinality(Split!Pins(b)') = Cardinality(Split!Pins(b))
                + Flag(t \in Split!Pins(b)') - Flag(t \in Split!Pins(b))
    BY <1>2, <1>4, Sets
  <1>10. /\ Cardinality(Split!Results(b)) \in Nat /\ Cardinality(Split!Results(b)') \in Nat
         /\ Cardinality(Split!Results(b)') = Cardinality(Split!Results(b))
                + Flag(t \in Split!Results(b)') - Flag(t \in Split!Results(b))
    BY <1>3, <1>4, Sets
  <1>11. /\ HeldBy(t, b)' = Flag(t \in SplitDesiring(b)') + Flag(t \in SplitExpecting(b)')
                + Flag(t \in Dying(b)') + Flag(t \in Moving(b)') + Flag(t \in Split!Results(b)')
                + Flag(t \in Split!Pins(b)')
         /\ Held(b)' = Cardinality(SplitDesiring(b)') + Cardinality(SplitExpecting(b)')
                + Cardinality(Dying(b)') + Cardinality(Moving(b)') + Cardinality(Split!Results(b)')
                + Cardinality(Split!Pins(b)')
    BY DEF HeldBy, Held, Flag
  <1>12. \A p : Flag(p) \in Int
    BY DEF Flag
  <1>13. QED
    BY <1>5, <1>6, <1>7, <1>8, <1>9, <1>10, <1>11, <1>12 DEF HeldBy, Held

LEMMA OwedStep ==
  ASSUME Split!SplitAssumption, Split!TypeOK, Split!TypeOK', NEW t \in Threads,
         SplitOthersKeep(t), NEW b
  PROVE  /\ Cardinality(Split!Owed(b)) \in Int /\ Cardinality(Split!Owed(b))' \in Int
         /\ OwedBy(t, b) \in Int /\ OwedBy(t, b)' \in Int
         /\ Cardinality(Split!Owed(b))' = Cardinality(Split!Owed(b)) + OwedBy(t, b)' - OwedBy(t, b)
  <1> DEFINE f == [u \in Threads |-> cur[u].count]
             g == [u \in Threads |-> cur'[u].count]
             S == Split!Owing(b)
             T == {u \in Threads : pc2'[u] \in {"help", "casHelp"} /\ cur'[u].ptr = b}
  <1>1. IsFiniteSet(S) /\ S \ {t} = T \ {t} /\ S \subseteq Threads /\ T \subseteq Threads
    BY Sets DEF SplitOthersKeep, Split!Owing
  <1>2. Wrap \in Nat /\ \A u \in Threads : f[u] \in 0 .. Wrap /\ g[u] \in 0 .. Wrap
    BY SameCardinality DEF Split!TypeOK, Split!Packed, Split!SplitAssumption
  <1>3. \A u \in S \ {t} : f[u] = g[u]
    BY <1>1 DEF SplitOthersKeep
  <1>4. Split!Owed(b) = Units(S, f, Wrap) /\ Split!Owed(b)' = Units(T, g, Wrap)
    BY <1>1 DEF Split!Owed, Units, Split!Owing
  <1>5. /\ OwedBy(t, b) = IF t \in S THEN f[t] ELSE 0
        /\ OwedBy(t, b)' = IF t \in T THEN g[t] ELSE 0
    BY DEF OwedBy, Split!Owing
  <1>6. f[t] \in Int /\ g[t] \in Int
    BY <1>2
  <1> HIDE DEF f, g, S, T
  <1>7. \A u \in S : f[u] \in 0 .. Wrap
    BY <1>1, <1>2
  <1>8. \A u \in T : g[u] \in 0 .. Wrap
    BY <1>1, <1>2
  <1>9. /\ Cardinality(Units(S, f, Wrap)) \in Nat /\ Cardinality(Units(T, g, Wrap)) \in Nat
        /\ Cardinality(Units(T, g, Wrap)) =
              Cardinality(Units(S, f, Wrap)) + (IF t \in T THEN g[t] ELSE 0)
                  - (IF t \in S THEN f[t] ELSE 0)
    <2>1. Wrap \in Nat
      BY <1>2
    <2>2. QED
      BY <1>1, <1>3, <1>7, <1>8, <2>1, OneTerm
  <1>10. QED
    BY <1>4, <1>5, <1>6, <1>9

\* What is left to prove of each action.
LEMMA SplitCountsFollow ==
  ASSUME Split!SplitAssumption, Split!TypeOK, Split!TypeOK', Split!SplitCountsAgree,
         NEW t \in Threads, SplitOthersKeep(t),
         \A b \in Blocks :
            remote'[b] + AtAtomic(b)' + OwedBy(t, b)' - HeldBy(t, b)' =
                remote[b] + AtAtomic(b) + OwedBy(t, b) - HeldBy(t, b)
  PROVE  Split!SplitCountsAgree'
  <1>1. ASSUME NEW b \in Blocks
        PROVE  remote'[b] + AtAtomic(b)' + Cardinality(Split!Owed(b))' = Held(b)'
    <2>1. remote[b] + AtAtomic(b) + Cardinality(Split!Owed(b)) = Held(b)
      BY Exactly
    <2>2. remote[b] \in Int /\ remote'[b] \in Int /\ AtAtomic(b) \in Int /\ AtAtomic(b)' \in Int
      BY SameCardinality
      DEF Split!TypeOK, AtAtomic, Split!Local, Split!Packed, Split!SplitAssumption
    <2>3. QED
      BY <2>1, <2>2, HeldStep, OwedStep
  <1>2. ASSUME NEW b \in Blocks
        PROVE  Held(b)' = Split!References(b)' + Cardinality(Split!Pins(b)') - (IF packed'.ptr = b THEN 1 ELSE 0)
    <2>1. \A S : S \subseteq Threads => Cardinality(S) \in Int
      BY FS_Subset, FS_CardinalityType, SameCardinality DEF Split!SplitAssumption
    <2>2. /\ Cardinality(SplitDesiring(b)') \in Int /\ Cardinality(SplitExpecting(b)') \in Int
          /\ Cardinality(Dying(b)') \in Int /\ Cardinality(Moving(b)') \in Int
          /\ Cardinality(Split!Results(b)') \in Int /\ Cardinality(Split!Pins(b)') \in Int
      BY <2>1 DEF SplitDesiring, SplitExpecting, Dying, Moving, Split!Results, Split!Pins
    <2>3. Split!References(b)' = (IF packed'.ptr = b THEN 1 ELSE 0)
                + Cardinality(SplitDesiring(b)') + Cardinality(SplitExpecting(b)') + Cardinality(Dying(b)')
                + Cardinality(Moving(b)') + Cardinality(Split!Results(b)')
      BY SameCardinality DEF Split!References, SplitDesiring, SplitExpecting, Dying, Moving
    <2>4. Held(b)' = Cardinality(SplitDesiring(b)') + Cardinality(SplitExpecting(b)')
                + Cardinality(Dying(b)') + Cardinality(Moving(b)') + Cardinality(Split!Results(b)')
                + Cardinality(Split!Pins(b)')
      BY DEF Held
    <2>5. QED
      BY <2>2, <2>3, <2>4
  <1>3. ASSUME NEW b \in Blocks
        PROVE  remote'[b] + (IF packed'.ptr = b THEN Split!Local' ELSE 0) + Cardinality(Split!Owed(b)')
                    = Split!References(b)' + Cardinality(Split!Pins(b)')
    <2>1. AtAtomic(b)' = IF packed'.ptr = b THEN Split!Local' - 1 ELSE 0
      BY DEF AtAtomic
    <2>2. /\ remote'[b] \in Int /\ Split!Local' \in Int /\ Cardinality(Split!Owed(b)') \in Int
          /\ Held(b)' \in Int
      BY HeldStep, OwedStep, SameCardinality
      DEF Split!TypeOK, Split!Local, Split!Packed, Split!SplitAssumption
    <2>3. \A S : S \subseteq Threads => Cardinality(S) \in Int
      BY FS_Subset, FS_CardinalityType, SameCardinality DEF Split!SplitAssumption
    <2>4. Cardinality(Split!Pins(b)') \in Int
      BY <2>3 DEF Split!Pins
    <2>5. Split!References(b)' \in Int
      BY <2>3, SameCardinality DEF Split!References, Split!Results, Split!Pins
    <2>6. CASE packed'.ptr = b
      <3>1. AtAtomic(b)' = Split!Local' - 1
        BY <2>1, <2>6
      <3>2. remote'[b] + (Split!Local' - 1) + Cardinality(Split!Owed(b)')
                = Split!References(b)' + Cardinality(Split!Pins(b)') - 1
        BY <1>1, <1>2, <2>6, <3>1
      <3>3. QED
        BY <2>2, <2>4, <2>5, <2>6, <3>2
    <2>7. CASE packed'.ptr # b
      <3>1. AtAtomic(b)' = 0
        BY <2>1, <2>7
      <3>2. remote'[b] + 0 + Cardinality(Split!Owed(b)')
                = Split!References(b)' + Cardinality(Split!Pins(b)') - 0
        BY <1>1, <1>2, <2>7, <3>1
      <3>3. QED
        BY <2>2, <2>4, <2>5, <2>7, <3>2
    <2>8. QED
      BY <2>6, <2>7
  <1>4. QED
    BY <1>3, SameCardinality DEF Split!SplitCountsAgree

----------------------------------------------------------------------------
\* The local count as a number.
LEMMA LocalIs ==
  ASSUME Split!SplitAssumption, Split!TypeOK
  PROVE  /\ Cardinality(Threads) \in Nat /\ packed.count \in 0 .. Wrap - 1
         /\ Split!Local \in Int
         /\ ~Split!Underflowed => Split!Local = packed.count /\ packed.count <= Cardinality(Threads)
  <1>1. Cardinality(Threads) \in Nat
    BY FS_CardinalityType, SameCardinality DEF Split!SplitAssumption
  <1>2. QED
    BY <1>1, SameCardinality
    DEF Split!SplitAssumption, Split!TypeOK, Split!Packed, Split!Local, Split!Underflowed

LEMMA LocalAfter ==
  ASSUME Split!SplitAssumption, Split!TypeOK, NEW n \in Int, packed'.count = n % Wrap,
         n \in 0 - 1 .. Cardinality(Threads)
  PROVE  Split!Local' = n
  <1>1. Cardinality(Threads) \in Nat /\ Wrap \in Nat /\ Cardinality(Threads) + 1 < Wrap
    BY LocalIs, SameCardinality DEF Split!SplitAssumption
  <1>2. CASE n = 0 - 1
    <2>1. packed'.count = Wrap - 1
      BY <1>1, <1>2
    <2>2. QED
      BY <1>1, <1>2, <2>1, SameCardinality DEF Split!Local, Split!Underflowed
  <1>3. CASE n \in 0 .. Wrap - 1
    <2>1. packed'.count = n
      BY <1>1, <1>3
    <2>2. QED
      BY <1>1, <2>1, SameCardinality DEF Split!Local, Split!Underflowed
  <1>4. QED
    BY <1>1, <1>2, <1>3

\* A thread that has no pin has left room for one.
LEMMA RoomForPin ==
  ASSUME Split!SplitAssumption, NEW t \in Threads, t \notin Split!Current
  PROVE  Cardinality(Split!Current) + 1 <= Cardinality(Threads)
  <1>1. Split!Current \cup {t} \subseteq Threads
    BY DEF Split!Current, Split!Pins
  <1>2. Cardinality(Split!Current \cup {t}) = Cardinality(Split!Current) + 1
    BY Sets, FS_AddElement
  <1>3. Cardinality(Split!Current \cup {t}) <= Cardinality(Threads)
    BY <1>1, FS_Subset, SameCardinality DEF Split!SplitAssumption
  <1>4. QED
    BY <1>2, <1>3

LEMMA AfterPin ==
  ASSUME Split!SplitAssumption, Split!TypeOK, Split!LocalBounded, ~Split!Underflowed,
         NEW t \in Threads, Split!Pin(t)
  PROVE  /\ packed'.ptr = packed.ptr /\ Split!Local' = Split!Local + 1
         /\ cur'[t].ptr = packed.ptr
  <1>1. t \notin Split!Current
    BY DEF Split!Pin, Split!Current, Split!Pins
  <1>2. Split!Local + 1 <= Cardinality(Threads) /\ Split!Local = packed.count /\ Split!Local \in Nat
    BY <1>1, RoomForPin, LocalIs, Sets, SameCardinality DEF Split!LocalBounded
  <1>3. packed' = Split!Pack(packed.ptr, packed.count + 1) /\ cur' = [cur EXCEPT ![t] = packed']
    BY DEF Split!Pin
  <1>4. Split!Local' = Split!Local + 1
    BY <1>2, <1>3, LocalAfter, LocalIs DEF Split!Pack
  <1>5. QED
    BY <1>3, <1>4 DEF Split!Pack, Split!TypeOK

LEMMA AfterUnpin ==
  ASSUME Split!SplitAssumption, Split!TypeOK, ~Split!Underflowed,
         packed' = Split!Pack(packed.ptr, packed.count - 1)
  PROVE  packed'.ptr = packed.ptr /\ Split!Local' = Split!Local - 1
  <1>1. packed.count - 1 \in 0 - 1 .. Cardinality(Threads) /\ Split!Local = packed.count
    BY LocalIs
  <1>2. QED
    BY <1>1, LocalAfter DEF Split!Pack

LEMMA AfterPut ==
  ASSUME Split!SplitAssumption, Split!TypeOK, NEW t \in Threads, Split!PutDesired(t)
  PROVE  packed'.ptr = desired2[t] /\ Split!Local' = 0
  <1>1. Cardinality(Threads) \in Nat
    BY LocalIs
  <1>2. QED
    BY <1>1, PutDesiredIs, SameCardinality DEF Split!Local, Split!Underflowed

\* A load never sees a count that is ahead of the loads under way.
LEMMA LocalStep ==
  ASSUME Split!SplitAssumption, Split!TypeOK, Split!PinsCurrent, Split!LocalBounded,
         ~Split!Underflowed,
         NEW t \in Threads, SplitActions(t)
  PROVE  Split!LocalBounded'
  <1>1. /\ Split!Local \in Int /\ IsFiniteSet(Split!Current) /\ Cardinality(Split!Current) \in Nat
        /\ Split!Local <= Cardinality(Split!Current) /\ (~astray => Split!Local = Cardinality(Split!Current))
    BY LocalIs, Sets, SameCardinality DEF Split!LocalBounded
  <1>k. SplitOthersKeep(t)
    BY SplitOneThreadMoves
  <1>2. ASSUME Split!Current' \ {t} = Split!Current \ {t}, Split!Local' \in Int,
               Split!Local' <= Split!Local + Flag(t \in Split!Current') - Flag(t \in Split!Current),
               ~astray' => ~astray /\ Split!Local' = Split!Local + Flag(t \in Split!Current')
                                                          - Flag(t \in Split!Current)
        PROVE  Split!LocalBounded'
    <2>1. Cardinality(Split!Current') =
              Cardinality(Split!Current) + Flag(t \in Split!Current') - Flag(t \in Split!Current)
      BY <1>1, <1>2, OneMember DEF Flag
    <2>2. QED
      BY <1>1, <1>2, <2>1, SameCardinality DEF Split!LocalBounded, Flag
  <1>3. ASSUME packed'.ptr = packed.ptr, \A u \in Threads : u # t => left'[u] = left[u]
        PROVE  Split!Current' \ {t} = Split!Current \ {t}
    BY <1>3, <1>k DEF Split!Current, Split!Pins, SplitOthersKeep
  <1>4. ASSUME packed' = packed, t \notin Split!Current, t \notin Split!Current', astray' = astray,
               \A u \in Threads : u # t => left'[u] = left[u]
        PROVE  Split!LocalBounded'
    <2>1. Split!Local' = Split!Local
      BY <1>4, SameCardinality DEF Split!Local, Split!Underflowed
    <2>2. QED
      BY <1>1, <1>2, <1>3, <1>4, <2>1 DEF Flag
  <1>5. CASE \/ \E b \in Blocks : Split!Create(t, b)
             \/ Split!DropDesired(t) \/ Split!DropExpected(t) \/ Split!Call(t) \/ Split!Release(t)
    <2>1. /\ packed' = packed /\ left' = left /\ astray' = astray
          /\ pc2[t] \in {"idle", "dropDesired", "release", "releaseRetry", "releaseFail"}
          /\ pc2'[t] \in {"idle", "dropDesired", "release", "pin", "swap", "casLoad"}
      BY <1>5, Places
      DEF Split!Create, Split!DropDesired, Split!DropExpected, Split!Call, Split!Release,
             Split!Goto, Split!TypeOK
    <2>2. t \notin Split!Current /\ t \notin Split!Current'
      BY <2>1 DEF Split!Current, Split!Pins
    <2>3. QED
      BY <1>4, <2>1, <2>2
  <1>6. CASE Split!Pin(t)
    <2>1. /\ packed'.ptr = packed.ptr /\ Split!Local' = Split!Local + 1 /\ cur'[t].ptr = packed.ptr
          /\ left' = [left EXCEPT ![t] = FALSE] /\ astray' = astray
      BY <1>6, AfterPin DEF Split!Pin
    <2>2. pc2[t] \in {"pin", "casPin"} /\ pc2'[t] \in {"addRef", "casAddRef"}
      BY <1>6, Places DEF Split!Pin, Split!Goto, Split!TypeOK
    <2>3. t \notin Split!Current /\ t \in Split!Current'
      BY <2>1, <2>2 DEF Split!Current, Split!Pins, Split!TypeOK
    <2>4. QED
      BY <1>1, <1>2, <1>3, <2>1, <2>3 DEF Flag, Split!TypeOK
  <1>7. CASE Split!LoadNull(t)
    <2>1. /\ packed' = packed /\ astray' = astray /\ Split!TakeResult(t, Null) /\ Null \in Split!Refs
          /\ pc2[t] \in {"pin", "casPin"}
      BY <1>7 DEF Split!LoadNull, Split!Refs
    <2>2. /\ pc2'[t] \in {"release", "releaseRetry", "releaseFail"}
          /\ \A u \in Threads : u # t => left'[u] = left[u]
      BY <2>1, TakeResultIs
    <2>3. t \notin Split!Current /\ t \notin Split!Current'
      BY <2>1, <2>2 DEF Split!Current, Split!Pins
    <2>4. QED
      BY <1>4, <2>1, <2>2, <2>3
  <1>8. CASE Split!AddRef(t)
    <2>1. packed' = packed /\ left' = left /\ astray' = astray /\ cur' = cur
      BY <1>8 DEF Split!AddRef
    <2>2. pc2[t] \in {"addRef", "casAddRef"} /\ pc2'[t] \in {"unpin", "casUnpin"}
      BY <1>8, Places DEF Split!AddRef, Split!Goto, Split!TypeOK
    <2>3. Split!Local' = Split!Local /\ (t \in Split!Current <=> t \in Split!Current')
      BY <2>1, <2>2, SameCardinality
      DEF Split!Local, Split!Underflowed, Split!Current, Split!Pins
    <2>4. QED
      BY <1>1, <1>2, <1>3, <2>1, <2>3 DEF Flag
  <1>9. CASE Split!Unpin(t)
    <2>1. CASE packed.ptr = cur[t].ptr
      <3>1. /\ packed' = Split!Pack(packed.ptr, packed.count - 1) /\ Split!TakeResult(t, cur[t].ptr)
            /\ astray' = (astray \/ left[t]) /\ cur[t].ptr \in Split!Refs
            /\ pc2[t] \in {"unpin", "casUnpin"}
        BY <1>9, <2>1 DEF Split!Unpin, Split!TypeOK, Split!Packed
      <3>2. /\ pc2'[t] \in {"release", "releaseRetry", "releaseFail"}
            /\ \A u \in Threads : u # t => left'[u] = left[u]
        BY <3>1, TakeResultIs
      <3>3. packed'.ptr = packed.ptr /\ Split!Local' = Split!Local - 1
        BY <3>1, AfterUnpin
      <3>4. t \notin Split!Current' /\ (t \in Split!Current <=> ~left[t])
        BY <2>1, <3>1, <3>2 DEF Split!Current, Split!Pins
      <3>5. Split!Current' \ {t} = Split!Current \ {t}
        BY <1>3, <3>2, <3>3
      <3>6. ~astray' => ~astray /\ t \in Split!Current
        BY <3>1, <3>4
      <3>7. QED
        BY <1>1, <1>2, <3>3, <3>4, <3>5, <3>6 DEF Flag
    <2>2. CASE packed.ptr # cur[t].ptr
      <3>1. packed' = packed /\ left' = left /\ astray' = astray /\ cur' = cur
        BY <1>9, <2>2 DEF Split!Unpin
      <3>2. t \notin Split!Current /\ t \notin Split!Current'
        BY <2>2, <3>1 DEF Split!Current, Split!Pins
      <3>3. QED
        BY <1>4, <3>1, <3>2
    <2>3. QED
      BY <2>1, <2>2
  <1>10. CASE Split!UnpinRemote(t)
    <2>1. /\ packed' = packed /\ astray' = astray /\ Split!TakeResult(t, cur[t].ptr)
          /\ cur[t].ptr \in Split!Refs /\ pc2[t] \in {"unpinRemote", "casUnpinRemote"}
      BY <1>10 DEF Split!UnpinRemote, Split!TypeOK, Split!Packed
    <2>2. /\ pc2'[t] \in {"release", "releaseRetry", "releaseFail"}
          /\ \A u \in Threads : u # t => left'[u] = left[u]
      BY <2>1, TakeResultIs
    <2>3. t \notin Split!Current /\ t \notin Split!Current'
      BY <2>1, <2>2 DEF Split!Current, Split!Pins, Split!PinsCurrent
    <2>4. QED
      BY <1>4, <2>1, <2>2, <2>3
  <1>11. CASE Split!Swap(t) \/ Split!CasSucceeds(t)
    <2>1. /\ Split!PutDesired(t) /\ astray' = astray
          /\ pc2[t] \in {"swap", "casTest"} /\ pc2'[t] \in {"idle", "help", "casHelp"}
      BY <1>11 DEF Split!Swap, Split!CasSucceeds, Split!Goto, Split!TypeOK
    <2>2. /\ packed'.ptr = desired2[t] /\ Split!Local' = 0 /\ desired2[t] \in Split!Refs
          /\ \A u \in Threads : left'[u] = (left[u] \/ u \in Split!Pins(packed.ptr))
      BY <2>1, AfterPut, PutDesiredIs DEF Split!TypeOK
    <2>3. Split!Current' = {}
      <3>1. SUFFICES ASSUME NEW u \in Split!Current' PROVE FALSE
        OBVIOUS
      <3>2. u # t /\ u \in Threads
        BY <2>1 DEF Split!Current, Split!Pins
      <3>3. u \in Split!Pins(desired2[t]) /\ ~left'[u]
        BY <2>2, <3>2, <1>k DEF Split!Current, Split!Pins, SplitOthersKeep
      <3>4. ~left[u] /\ u \notin Split!Pins(packed.ptr)
        BY <2>2, <3>2, <3>3
      <3>5. desired2[t] = packed.ptr
        BY <2>2, <3>2, <3>3, <3>4 DEF Split!PinsCurrent
      <3>6. QED
        BY <3>3, <3>4, <3>5
    <2>4. QED
      BY <2>2, <2>3, FS_EmptySet, SameCardinality DEF Split!LocalBounded
  <1>12. CASE Split!Help(t) \/ Split!CasLoad(t) \/ Split!CasHelp(t) \/ Split!CasFails(t)
    <2>1. /\ packed' = packed /\ astray' = astray
          /\ \A u \in Threads : u # t => left'[u] = left[u]
          /\ pc2[t] \in {"help", "casLoad", "casHelp", "casTest"}
          /\ pc2'[t] \in {"idle", "casTest", "release", "casPin"}
      BY <1>12
      DEF Split!Help, Split!CasLoad, Split!CasHelp, Split!CasFails, Split!Forget, Split!Goto,
          Split!TypeOK
    <2>2. t \notin Split!Current /\ t \notin Split!Current'
      BY <2>1 DEF Split!Current, Split!Pins
    <2>3. QED
      BY <1>4, <2>1, <2>2
  <1>13. QED
    BY <1>5, <1>6, <1>7, <1>8, <1>9, <1>10, <1>11, <1>12 DEF SplitActions

----------------------------------------------------------------------------
\* What a thread holds of the block it has in cur.
Weight(place) ==
    IF place \in {"addRef", "casAddRef", "casHelp"} THEN 1
    ELSE IF place \in {"unpin", "unpinRemote", "casUnpin", "casUnpinRemote"} THEN 2
    ELSE 0

Part(ref, b) == IF ref = b THEN 1 ELSE 0

LEMMA PartsOf ==
  ASSUME NEW t \in Threads, NEW b
  PROVE  /\ HeldBy(t, b) = Part(desired2[t], b) + Part(expected2[t], b) + Part(dead2[t], b)
                           + (IF cur[t].ptr = b THEN Weight(pc2[t]) ELSE 0)
         /\ HeldBy(t, b)' = Part(desired2'[t], b) + Part(expected2'[t], b) + Part(dead2'[t], b)
                            + (IF cur'[t].ptr = b THEN Weight(pc2'[t]) ELSE 0)
         /\ OwedBy(t, b) = IF cur[t].ptr = b /\ pc2[t] \in {"help", "casHelp"}
                           THEN cur[t].count ELSE 0
         /\ OwedBy(t, b)' = IF cur'[t].ptr = b /\ pc2'[t] \in {"help", "casHelp"}
                            THEN cur'[t].count ELSE 0
  <1>1. /\ t \in SplitDesiring(b) <=> desired2[t] = b
        /\ t \in SplitExpecting(b) <=> expected2[t] = b
        /\ t \in Dying(b) <=> dead2[t] = b
        /\ t \in Moving(b) <=> cur[t].ptr = b /\ pc2[t] = "casHelp"
        /\ t \in Split!Pins(b) <=> cur[t].ptr = b /\ pc2[t] \in
              {"addRef", "casAddRef", "unpin", "unpinRemote", "casUnpin", "casUnpinRemote"}
        /\ t \in Split!Results(b) <=> cur[t].ptr = b /\ pc2[t] \in
              {"unpin", "unpinRemote", "casUnpin", "casUnpinRemote"}
        /\ t \in Split!Owing(b) <=> cur[t].ptr = b /\ pc2[t] \in {"help", "casHelp"}
    BY DEF SplitDesiring, SplitExpecting, Dying, Moving, Split!Pins, Split!Results, Split!Owing
  <1>2. /\ t \in SplitDesiring(b)' <=> desired2'[t] = b
        /\ t \in SplitExpecting(b)' <=> expected2'[t] = b
        /\ t \in Dying(b)' <=> dead2'[t] = b
        /\ t \in Moving(b)' <=> cur'[t].ptr = b /\ pc2'[t] = "casHelp"
        /\ t \in Split!Pins(b)' <=> cur'[t].ptr = b /\ pc2'[t] \in
              {"addRef", "casAddRef", "unpin", "unpinRemote", "casUnpin", "casUnpinRemote"}
        /\ t \in Split!Results(b)' <=> cur'[t].ptr = b /\ pc2'[t] \in
              {"unpin", "unpinRemote", "casUnpin", "casUnpinRemote"}
        /\ t \in Split!Owing(b)' <=> cur'[t].ptr = b /\ pc2'[t] \in {"help", "casHelp"}
    BY DEF SplitDesiring, SplitExpecting, Dying, Moving, Split!Pins, Split!Results, Split!Owing
  <1>3. OwedBy(t, b) = IF t \in Split!Owing(b) THEN cur[t].count ELSE 0
    BY DEF OwedBy
  <1>4. OwedBy(t, b)' = IF t \in Split!Owing(b)' THEN cur'[t].count ELSE 0
    BY DEF OwedBy
  <1>5. HeldBy(t, b)' = Flag(t \in SplitDesiring(b)') + Flag(t \in SplitExpecting(b)')
           + Flag(t \in Dying(b)') + Flag(t \in Moving(b)') + Flag(t \in Split!Results(b)')
           + Flag(t \in Split!Pins(b)')
    BY DEF HeldBy, Flag
  <1>6. /\ Flag(t \in Moving(b)) + Flag(t \in Split!Results(b)) + Flag(t \in Split!Pins(b))
             = IF cur[t].ptr = b THEN Weight(pc2[t]) ELSE 0
        /\ Flag(t \in Moving(b)') + Flag(t \in Split!Results(b)') + Flag(t \in Split!Pins(b)')
             = IF cur'[t].ptr = b THEN Weight(pc2'[t]) ELSE 0
    BY <1>1, <1>2 DEF Flag, Weight
  <1>7. /\ Flag(t \in SplitDesiring(b)) = Part(desired2[t], b)
        /\ Flag(t \in SplitExpecting(b)) = Part(expected2[t], b)
        /\ Flag(t \in Dying(b)) = Part(dead2[t], b)
        /\ Flag(t \in SplitDesiring(b)') = Part(desired2'[t], b)
        /\ Flag(t \in SplitExpecting(b)') = Part(expected2'[t], b)
        /\ Flag(t \in Dying(b)') = Part(dead2'[t], b)
    BY <1>1, <1>2 DEF Flag, Part
  <1>8. \A p : Flag(p) \in Int
    BY DEF Flag
  <1>9. /\ HeldBy(t, b) = Part(desired2[t], b) + Part(expected2[t], b) + Part(dead2[t], b)
                + (IF cur[t].ptr = b THEN Weight(pc2[t]) ELSE 0)
    BY <1>6, <1>7, <1>8 DEF HeldBy
  <1>10. HeldBy(t, b)' = Part(desired2'[t], b) + Part(expected2'[t], b) + Part(dead2'[t], b)
                + (IF cur'[t].ptr = b THEN Weight(pc2'[t]) ELSE 0)
    BY <1>5, <1>6, <1>7, <1>8
  <1>11. QED
    BY <1>1, <1>2, <1>3, <1>4, <1>9, <1>10

\* Null is counted nowhere.
LEMMA AddIs ==
  ASSUME Split!SplitAssumption, Split!TypeOK, NEW r \in Split!Refs, NEW n \in Int, Split!Add(r,
         n), NEW b \in Blocks
  PROVE  remote'[b] = remote[b] + (IF r = b THEN n ELSE 0)
  BY SameCardinality DEF Split!Add, Split!TypeOK, Split!SplitAssumption, Split!Refs

LEMMA SplitCountStep ==
  ASSUME Split!SplitAssumption, Split!TypeOK, Split!TypeOK', Split!ReleasesAhead,
         Split!PinsCurrent, Split!LocalBounded, Split!SplitCountsAgree,
         ~Split!Underflowed, NEW t \in Threads, SplitActions(t)
  PROVE  Split!SplitCountsAgree'
  <1> SUFFICES ASSUME NEW b \in Blocks
               PROVE  remote'[b] + AtAtomic(b)' + OwedBy(t, b)' - HeldBy(t, b)' =
                         remote[b] + AtAtomic(b) + OwedBy(t, b) - HeldBy(t, b)
    BY SplitCountsFollow, SplitOneThreadMoves
  <1>t. /\ remote[b] \in Int /\ b # Null /\ cur[t].count \in Int /\ cur[t].ptr \in Split!Refs
        /\ desired2[t] \in Split!Refs /\ expected2[t] \in Split!Refs /\ dead2[t] \in Split!Refs /\ Split!Local \in Int
        /\ pc2 \in [Threads -> Split!States] /\ Null \in Split!Refs /\ 0 - 1 \in Int
    BY LocalIs, SameCardinality
    DEF Split!TypeOK, Split!SplitAssumption, Split!Packed, Split!Refs
  <1>a. packed' = packed => AtAtomic(b)' = AtAtomic(b)
    BY DEF AtAtomic, Split!Local, Split!Underflowed
  <1>b. AtAtomic(b) \in Int /\ AtAtomic(b)' = IF packed'.ptr = b THEN Split!Local' - 1 ELSE 0
    BY <1>t DEF AtAtomic
  <1>n. Split!Pack(Null, 0).ptr = Null
    BY DEF Split!Pack
  <1>1. ASSUME NEW c \in Blocks, Split!Create(t, c)
        PROVE  remote'[b] + AtAtomic(b)' + OwedBy(t, b)' - HeldBy(t, b)' =
                  remote[b] + AtAtomic(b) + OwedBy(t, b) - HeldBy(t, b)
    <2>1. /\ expected2' = expected2 /\ dead2' = dead2 /\ cur' = cur /\ packed' = packed
          /\ desired2[t] = Null /\ desired2'[t] = c
          /\ Weight(pc2[t]) = 0 /\ Weight(pc2'[t]) = 0
          /\ pc2[t] \notin {"help", "casHelp"} /\ pc2'[t] \notin {"help", "casHelp"}
      BY <1>1 DEF Split!Create, Weight, Split!TypeOK
    <2>2. remote'[b] = remote[b] + (IF c = b THEN 1 ELSE 0)
      BY <1>1, <1>t DEF Split!Create, Split!TypeOK
    <2>3. QED
      BY <1>t, <1>a, <1>b, <2>1, <2>2, PartsOf DEF Part
  <1>3. CASE Split!DropDesired(t) \/ Split!DropExpected(t)
    <2>1. /\ dead2[t] = Null /\ cur' = cur /\ remote' = remote /\ packed' = packed
          /\ Weight(pc2[t]) = 0 /\ Weight(pc2'[t]) = 0
          /\ pc2[t] \notin {"help", "casHelp"} /\ pc2'[t] \notin {"help", "casHelp"}
      BY <1>3, <1>t, Places
      DEF Split!DropDesired, Split!DropExpected, Split!ReleasesAhead, Weight, Split!Goto
    <2>2. CASE Split!DropDesired(t)
      <3>1. dead2'[t] = desired2[t] /\ desired2'[t] = Null /\ expected2' = expected2
        BY <2>2 DEF Split!DropDesired, Split!TypeOK
      <3>2. QED
        BY <1>t, <1>a, <1>b, <2>1, <3>1, PartsOf DEF Part
    <2>3. CASE Split!DropExpected(t)
      <3>1. dead2'[t] = expected2[t] /\ expected2'[t] = Null /\ desired2' = desired2
        BY <2>3 DEF Split!DropExpected, Split!TypeOK
      <3>2. QED
        BY <1>t, <1>a, <1>b, <2>1, <3>1, PartsOf DEF Part
    <2>4. QED
      BY <1>3, <2>2, <2>3
  <1>4. CASE Split!Call(t) \/ Split!CasLoad(t) \/ Split!CasFails(t)
    <2>1. /\ desired2' = desired2 /\ expected2' = expected2 /\ dead2' = dead2 /\ remote' = remote
          /\ packed' = packed /\ Weight(pc2[t]) = 0 /\ Weight(pc2'[t]) = 0
          /\ pc2[t] \notin {"help", "casHelp"} /\ pc2'[t] \notin {"help", "casHelp"}
      BY <1>4, <1>t, Places DEF Split!Call, Split!CasLoad, Split!CasFails, Weight, Split!Goto
    <2>2. QED
      BY <1>t, <1>a, <1>b, <2>1, PartsOf
  <1>5. CASE Split!Release(t)
    <2>1. /\ desired2' = desired2 /\ expected2' = expected2 /\ dead2'[t] = Null
          /\ packed' = packed /\ cur' = cur /\ Split!Add(dead2[t], 0 - 1)
          /\ Weight(pc2[t]) = 0 /\ Weight(pc2'[t]) = 0
          /\ pc2[t] \notin {"help", "casHelp"} /\ pc2'[t] \notin {"help", "casHelp"}
      BY <1>5, <1>t, Places DEF Split!Release, Weight, Split!Goto, Split!TypeOK
    <2>2. remote'[b] = remote[b] + (IF dead2[t] = b THEN 0 - 1 ELSE 0)
      BY <1>t, <2>1, AddIs
    <2>3. QED
      BY <1>t, <1>a, <1>b, <2>1, <2>2, PartsOf DEF Part
  <1>6. CASE Split!Pin(t)
    <2>1. /\ packed'.ptr = packed.ptr /\ Split!Local' = Split!Local + 1 /\ cur'[t].ptr = packed.ptr
      BY <1>6, AfterPin
    <2>2. /\ desired2' = desired2 /\ expected2' = expected2 /\ dead2' = dead2 /\ remote' = remote
          /\ Weight(pc2[t]) = 0 /\ Weight(pc2'[t]) = 1
          /\ pc2[t] \notin {"help", "casHelp"} /\ pc2'[t] \notin {"help", "casHelp"}
      BY <1>6, <1>t, Places DEF Split!Pin, Weight, Split!Goto
    <2>3. AtAtomic(b)' = AtAtomic(b) + (IF packed.ptr = b THEN 1 ELSE 0)
      BY <1>t, <1>b, <2>1 DEF AtAtomic
    <2>4. OwedBy(t, b)' = 0 /\ OwedBy(t, b) = 0
      BY <2>2, PartsOf
    <2>5. /\ HeldBy(t, b) \in Int
          /\ HeldBy(t, b)' = HeldBy(t, b) + (IF packed.ptr = b THEN 1 ELSE 0)
      BY <2>1, <2>2, PartsOf DEF Part
    <2>6. QED
      BY <1>t, <1>b, <2>2, <2>3, <2>4, <2>5
  <1>7. CASE Split!AddRef(t)
    <2>1. /\ desired2' = desired2 /\ expected2' = expected2 /\ dead2' = dead2 /\ cur' = cur
          /\ packed' = packed /\ Weight(pc2[t]) = 1 /\ Weight(pc2'[t]) = 2 /\ Split!Add(cur[t].ptr, 1)
          /\ pc2[t] \notin {"help", "casHelp"} /\ pc2'[t] \notin {"help", "casHelp"}
      BY <1>7, <1>t, Places DEF Split!AddRef, Weight, Split!Goto
    <2>2. remote'[b] = remote[b] + (IF cur[t].ptr = b THEN 1 ELSE 0)
      BY <1>t, <2>1, AddIs
    <2>3. QED
      BY <1>t, <1>a, <1>b, <2>1, <2>2, PartsOf DEF Part
  \* The three ends of a load: nothing pinned, and the pin given back here or there.
  <1>8. ASSUME NEW r \in Split!Refs, Split!TakeResult(t, r), desired2' = desired2,
               pc2[t] \in {"pin", "casPin", "unpin", "casUnpin", "unpinRemote", "casUnpinRemote"}
        PROVE  /\ HeldBy(t, b)' = Part(desired2[t], b) + Part(r, b) + Part(expected2[t], b)
               /\ HeldBy(t, b) = Part(desired2[t], b) + Part(expected2[t], b)
                     + (IF cur[t].ptr = b THEN Weight(pc2[t]) ELSE 0)
               /\ OwedBy(t, b)' = 0 /\ OwedBy(t, b) = 0
    <2>1. /\ expected2'[t] = r /\ dead2'[t] = expected2[t] /\ cur'[t].ptr = Null
          /\ Weight(pc2'[t]) = 0 /\ pc2'[t] \notin {"help", "casHelp"}
      BY <1>8, <1>n, TakeResultIs DEF Weight
    <2>2. dead2[t] = Null /\ pc2[t] \notin {"help", "casHelp"}
      BY <1>8, Places DEF Split!ReleasesAhead
    <2>3. /\ HeldBy(t, b)' = Part(desired2[t], b) + Part(r, b) + Part(expected2[t], b) + 0
          /\ HeldBy(t, b) = Part(desired2[t], b) + Part(expected2[t], b) + 0
                     + (IF cur[t].ptr = b THEN Weight(pc2[t]) ELSE 0)
      BY <1>8, <1>t, <2>1, <2>2, PartsOf DEF Part
    <2>4. OwedBy(t, b)' = 0 /\ OwedBy(t, b) = 0
      BY <2>1, <2>2, PartsOf
    <2>5. QED
      BY <2>3, <2>4 DEF Part, Weight
  <1>9. CASE Split!LoadNull(t)
    <2>1. /\ Split!TakeResult(t, Null) /\ desired2' = desired2 /\ remote' = remote /\ packed' = packed
          /\ pc2[t] \in {"pin", "casPin"} /\ Weight(pc2[t]) = 0
      BY <1>9 DEF Split!LoadNull, Weight
    <2>2. QED
      BY <1>t, <1>a, <1>b, <1>8, <2>1 DEF Part
  <1>10. CASE Split!Unpin(t)
    <2>1. CASE packed.ptr = cur[t].ptr
      <3>1. /\ Split!TakeResult(t, cur[t].ptr) /\ desired2' = desired2 /\ remote' = remote
            /\ packed' = Split!Pack(packed.ptr, packed.count - 1)
            /\ pc2[t] \in {"unpin", "casUnpin"} /\ Weight(pc2[t]) = 2
        BY <1>10, <2>1 DEF Split!Unpin, Weight
      <3>2. packed'.ptr = packed.ptr /\ Split!Local' = Split!Local - 1
        BY <3>1, AfterUnpin
      <3>3. AtAtomic(b)' = AtAtomic(b) - (IF cur[t].ptr = b THEN 1 ELSE 0)
        BY <1>t, <1>b, <2>1, <3>2 DEF AtAtomic
      <3>4. QED
        BY <1>t, <1>b, <1>8, <3>1, <3>3 DEF Part
    <2>2. CASE packed.ptr # cur[t].ptr
      <3>1. /\ desired2' = desired2 /\ expected2' = expected2 /\ dead2' = dead2 /\ remote' = remote
            /\ packed' = packed /\ cur' = cur /\ Weight(pc2[t]) = 2 /\ Weight(pc2'[t]) = 2
            /\ pc2[t] \notin {"help", "casHelp"} /\ pc2'[t] \notin {"help", "casHelp"}
        BY <1>10, <1>t, <2>2, Places DEF Split!Unpin, Weight, Split!Goto
      <3>2. QED
        BY <1>t, <1>a, <1>b, <3>1, PartsOf
    <2>3. QED
      BY <2>1, <2>2
  <1>11. CASE Split!UnpinRemote(t)
    <2>1. /\ Split!TakeResult(t, cur[t].ptr) /\ desired2' = desired2 /\ packed' = packed
          /\ Split!Add(cur[t].ptr, 0 - 1)
          /\ pc2[t] \in {"unpinRemote", "casUnpinRemote"} /\ Weight(pc2[t]) = 2
      BY <1>11 DEF Split!UnpinRemote, Weight
    <2>2. remote'[b] = remote[b] + (IF cur[t].ptr = b THEN 0 - 1 ELSE 0)
      BY <1>t, <2>1, AddIs
    <2>3. QED
      BY <1>t, <1>a, <1>b, <1>8, <2>1, <2>2 DEF Part
  <1>12. CASE Split!Swap(t) \/ Split!CasSucceeds(t)
    <2>1. /\ Split!PutDesired(t) /\ expected2' = expected2 /\ dead2' = dead2 /\ remote' = remote
          /\ Weight(pc2[t]) = 0 /\ pc2[t] \notin {"help", "casHelp"}
      BY <1>12 DEF Split!Swap, Split!CasSucceeds, Weight
    <2>2. packed'.ptr = desired2[t] /\ Split!Local' = 0 /\ cur'[t] = packed /\ Split!Local = packed.count
      BY <2>1, AfterPut, PutDesiredIs, LocalIs
    <2>3. AtAtomic(b)' = IF desired2[t] = b THEN 0 - 1 ELSE 0
      BY <1>b, <2>2
    <2>4. AtAtomic(b) = IF packed.ptr = b THEN packed.count - 1 ELSE 0
      BY <2>2 DEF AtAtomic
    <2>5. packed.count \in Int
      BY LocalIs
    <2>6. CASE Split!Swap(t)
      <3>1. /\ desired2'[t] = packed.ptr /\ Weight(pc2'[t]) = 0
            /\ packed.ptr # Null => pc2'[t] = "help"
        BY <2>6, <1>t DEF Split!Swap, Weight, Split!Goto, Split!TypeOK
      <3>2. QED
        BY <1>t, <2>1, <2>2, <2>3, <2>4, <2>5, <3>1, PartsOf DEF Part
    <2>7. CASE Split!CasSucceeds(t)
      <3>1. /\ desired2'[t] = Null
            /\ packed.ptr # Null => pc2'[t] = "casHelp" /\ Weight(pc2'[t]) = 1
        BY <2>7, <1>t DEF Split!CasSucceeds, Weight, Split!Goto, Split!TypeOK
      <3>2. QED
        BY <1>t, <2>1, <2>2, <2>3, <2>4, <2>5, <3>1, PartsOf DEF Part
    <2>8. QED
      BY <1>12, <2>6, <2>7
  <1>13. CASE Split!Help(t) \/ Split!CasHelp(t)
    <2>1. /\ desired2' = desired2 /\ expected2' = expected2 /\ packed' = packed
          /\ Split!Add(cur[t].ptr, cur[t].count) /\ cur'[t].ptr = Null
          /\ pc2[t] \in {"help", "casHelp"} /\ dead2[t] = Null
      BY <1>13, <1>t, <1>n, Places
      DEF Split!Help, Split!CasHelp, Split!Forget, Split!ReleasesAhead, Split!TypeOK
    <2>2. remote'[b] = remote[b] + (IF cur[t].ptr = b THEN cur[t].count ELSE 0)
      BY <1>t, <2>1, AddIs
    <2>3. CASE Split!Help(t)
      <3>1. dead2' = dead2 /\ Weight(pc2[t]) = 0
        BY <2>3 DEF Split!Help, Weight
      <3>2. QED
        BY <1>t, <1>a, <1>b, <2>1, <2>2, <3>1, PartsOf DEF Part
    <2>4. CASE Split!CasHelp(t)
      <3>1. dead2'[t] = cur[t].ptr /\ Weight(pc2[t]) = 1
        BY <2>4 DEF Split!CasHelp, Weight, Split!TypeOK
      <3>2. QED
        BY <1>t, <1>a, <1>b, <2>1, <2>2, <3>1, PartsOf DEF Part
    <2>5. QED
      BY <1>13, <2>3, <2>4
  <1>14. QED
    BY <1>1, <1>3, <1>4, <1>5, <1>6, <1>7, <1>9, <1>10, <1>11, <1>12, <1>13 DEF SplitActions

LEMMA AheadStep ==
  ASSUME Split!SplitAssumption, Split!TypeOK, Split!ReleasesAhead, NEW t \in Threads,
         SplitActions(t)
  PROVE  Split!ReleasesAhead'
  <1>1. SplitOthersKeep(t)
    BY SplitOneThreadMoves
  <1>2. dead2'[t] # Null => pc2'[t] \in DOMAIN Split!Releasing
    <2>1. CASE \/ \E b \in Blocks : Split!Create(t, b)
               \/ Split!DropDesired(t) \/ Split!DropExpected(t) \/ Split!Call(t) \/ Split!Release(t) \/ Split!Pin(t)
      BY <2>1, Places
      DEF Split!Create, Split!DropDesired, Split!DropExpected, Split!Call, Split!Release,
             Split!Pin, Split!ReleasesAhead, Split!Goto, Split!TypeOK
    <2>2. ASSUME NEW r \in Split!Refs, Split!TakeResult(t, r)
          PROVE  pc2'[t] \in DOMAIN Split!Releasing
      BY <2>2, Places, TakeResultIs
    <2>3. CASE Split!LoadNull(t) \/ Split!Unpin(t) \/ Split!UnpinRemote(t)
      <3>1. Null \in Split!Refs /\ cur[t].ptr \in Split!Refs
        BY DEF Split!Refs, Split!TypeOK, Split!Packed
      <3>2. CASE UNCHANGED dead2
        <4>1. pc2[t] \in {"pin", "casPin", "unpin", "casUnpin", "unpinRemote", "casUnpinRemote"}
          BY <2>3 DEF Split!LoadNull, Split!Unpin, Split!UnpinRemote
        <4>2. QED
          BY <3>2, <4>1, Places DEF Split!ReleasesAhead
      <3>3. CASE Split!TakeResult(t, Null) \/ Split!TakeResult(t, cur[t].ptr)
        BY <2>2, <3>1, <3>3
      <3>4. QED
        BY <2>3, <3>2, <3>3 DEF Split!LoadNull, Split!Unpin, Split!UnpinRemote
    <2>4. CASE Split!AddRef(t) \/ Split!Swap(t) \/ Split!Help(t)
      BY <2>4, Places DEF Split!AddRef, Split!Swap, Split!Help, Split!ReleasesAhead
    <2>5. CASE Split!CasLoad(t) \/ Split!CasSucceeds(t) \/ Split!CasHelp(t) \/ Split!CasFails(t)
      BY <2>5, Places
      DEF Split!CasLoad, Split!CasSucceeds, Split!CasHelp, Split!CasFails, Split!ReleasesAhead,
          Split!Goto, Split!TypeOK
    <2>6. QED
      BY <2>1, <2>3, <2>4, <2>5 DEF SplitActions
  <1>3. QED
    BY <1>1, <1>2 DEF Split!ReleasesAhead, SplitOthersKeep

\* What PinsCurrent says of one thread.
PinOf(t) ==
    /\ t \in Split!Pins(cur[t].ptr) => cur[t].ptr # Null /\ (left[t] \/ cur[t].ptr = packed.ptr)
    /\ pc2[t] \in {"unpinRemote", "casUnpinRemote"} => left[t]
    /\ pc2[t] = "casTest" => cur[t].ptr = expected2[t]
    /\ pc2[t] \in {"help", "casHelp"} => cur[t].ptr # Null

LEMMA PinsByThread ==
  /\ Split!TypeOK => (Split!PinsCurrent <=> \A t \in Threads : PinOf(t))
  /\ Split!TypeOK' => (Split!PinsCurrent' <=> \A t \in Threads : PinOf(t)')
  <1>1. Split!TypeOK => \A t \in Threads : cur[t].ptr \in Split!Refs
    BY DEF Split!TypeOK, Split!Packed
  <1>2. Split!TypeOK' => \A t \in Threads : cur'[t].ptr \in Split!Refs
    BY DEF Split!TypeOK, Split!Packed
  <1>3. QED
    BY <1>1, <1>2 DEF Split!PinsCurrent, PinOf, Split!Pins

LEMMA PinsStep ==
  ASSUME Split!SplitAssumption, Split!TypeOK, Split!TypeOK', Split!PinsCurrent,
         NEW t \in Threads, SplitActions(t)
  PROVE  Split!PinsCurrent'
  <1>1. SplitOthersKeep(t)
    BY SplitOneThreadMoves
  <1>2. \A u \in Threads : PinOf(u)
    BY PinsByThread
  <1>3. \/ /\ packed'.ptr = packed.ptr
           /\ \A u \in Threads : u # t => left'[u] = left[u]
        \/ Split!PutDesired(t)
    <2>1. CASE \/ \E b \in Blocks : Split!Create(t, b)
               \/ Split!DropDesired(t) \/ Split!DropExpected(t) \/ Split!Call(t) \/ Split!Release(t)
               \/ Split!AddRef(t) \/ Split!Help(t) \/ Split!CasLoad(t) \/ Split!CasHelp(t) \/ Split!CasFails(t)
      BY <2>1
      DEF Split!Create, Split!DropDesired, Split!DropExpected, Split!Call, Split!Release,
          Split!AddRef, Split!Help, Split!CasLoad, Split!CasHelp,
                  Split!CasFails, Split!Forget, Split!TypeOK
    <2>2. CASE Split!Pin(t)
      BY <2>2 DEF Split!Pin, Split!Pack, Split!TypeOK
    <2>3. ASSUME NEW r \in Split!Refs, Split!TakeResult(t, r) PROVE \A u \in Threads : u # t => left'[u] = left[u]
      BY <2>3, TakeResultIs
    <2>4. CASE Split!LoadNull(t) \/ Split!Unpin(t) \/ Split!UnpinRemote(t)
      <3>1. Null \in Split!Refs /\ cur[t].ptr \in Split!Refs
        BY DEF Split!Refs, Split!TypeOK, Split!Packed
      <3>2. packed'.ptr = packed.ptr
        BY <2>4 DEF Split!LoadNull, Split!Unpin, Split!UnpinRemote, Split!Pack
      <3>3. Split!TakeResult(t, Null) \/ Split!TakeResult(t, cur[t].ptr) \/ left' = left
        BY <2>4 DEF Split!LoadNull, Split!Unpin, Split!UnpinRemote
      <3>4. QED
        BY <2>3, <3>1, <3>2, <3>3
    <2>5. CASE Split!Swap(t) \/ Split!CasSucceeds(t)
      BY <2>5 DEF Split!Swap, Split!CasSucceeds
    <2>6. QED
      BY <2>1, <2>2, <2>4, <2>5 DEF SplitActions
  <1>4. ASSUME NEW u \in Threads, u # t PROVE PinOf(u)'
    <2>1. CASE packed'.ptr = packed.ptr /\ left'[u] = left[u]
      BY <1>1, <1>2, <1>4, <2>1 DEF PinOf, Split!Pins, SplitOthersKeep
    <2>2. CASE Split!PutDesired(t)
      <3>1. left'[u] = (left[u] \/ u \in Split!Pins(packed.ptr))
        BY <2>2, PutDesiredIs
      <3>2. QED
        BY <1>1, <1>2, <1>4, <3>1 DEF PinOf, Split!Pins, SplitOthersKeep
    <2>3. QED
      BY <1>3, <1>4, <2>1, <2>2
  <1>n. Split!Pack(Null, 0).ptr = Null /\ cur[t].ptr \in Split!Refs /\ Null \in Split!Refs
    BY DEF Split!Pack, Split!TypeOK, Split!Packed, Split!Refs
  <1>5. PinOf(t)'
    <2>0. ASSUME pc2'[t] \in {"idle", "release", "releaseRetry", "releaseFail", "dropDesired",
                             "pin", "casPin", "swap", "casLoad"}
          PROVE  PinOf(t)'
      BY <2>0 DEF PinOf, Split!Pins
    <2>1. CASE \/ \E b \in Blocks : Split!Create(t, b)
               \/ Split!DropDesired(t) \/ Split!DropExpected(t) \/ Split!Call(t) \/ Split!Release(t)
               \/ Split!Help(t) \/ Split!CasHelp(t) \/ Split!CasFails(t)
      BY <2>0, <2>1, Places
      DEF Split!Create, Split!DropDesired, Split!DropExpected, Split!Call, Split!Release,
             Split!Help, Split!CasHelp, Split!CasFails, Split!Goto, Split!TypeOK
    <2>2. CASE Split!Pin(t)
      <3>1. packed'.ptr = packed.ptr /\ cur'[t] = packed' /\ pc2'[t] \in {"addRef", "casAddRef"}
        BY <2>2, Places DEF Split!Pin, Split!Pack, Split!Goto, Split!TypeOK
      <3>2. packed.ptr # Null
        BY <2>2 DEF Split!Pin
      <3>3. QED
        BY <3>1, <3>2 DEF PinOf, Split!Pins
    <2>3. CASE Split!AddRef(t)
      <3>1. /\ cur' = cur /\ left' = left /\ packed' = packed
            /\ pc2[t] \in {"addRef", "casAddRef"} /\ pc2'[t] \in {"unpin", "casUnpin"}
        BY <2>3, Places DEF Split!AddRef, Split!Goto, Split!TypeOK
      <3>2. QED
        BY <1>2, <3>1 DEF PinOf, Split!Pins
    <2>4. ASSUME NEW r \in Split!Refs, Split!TakeResult(t, r) PROVE PinOf(t)'
      BY <2>0, <2>4, TakeResultIs
    <2>5. CASE Split!LoadNull(t) \/ Split!UnpinRemote(t)
      BY <1>n, <2>4, <2>5 DEF Split!LoadNull, Split!UnpinRemote
    <2>6. CASE Split!Unpin(t)
      <3>1. CASE packed.ptr = cur[t].ptr
        BY <1>n, <2>4, <2>6, <3>1 DEF Split!Unpin
      <3>2. CASE packed.ptr # cur[t].ptr
        <4>1. /\ cur' = cur /\ left' = left /\ packed' = packed /\ pc2[t] \in {"unpin", "casUnpin"}
              /\ pc2'[t] \in {"unpinRemote", "casUnpinRemote"}
          BY <2>6, <3>2, Places DEF Split!Unpin, Split!Goto, Split!TypeOK
        <4>2. cur[t].ptr # Null /\ left[t]
          BY <1>2, <3>2, <4>1 DEF PinOf, Split!Pins
        <4>3. QED
          BY <4>1, <4>2 DEF PinOf
      <3>3. QED
        BY <3>1, <3>2
    <2>7. CASE Split!Swap(t) \/ Split!CasSucceeds(t)
      <3>1. /\ cur'[t] = packed
            /\ IF packed.ptr = Null THEN pc2'[t] = "idle" ELSE pc2'[t] \in {"help", "casHelp"}
        BY <2>7, PutDesiredIs DEF Split!Swap, Split!CasSucceeds, Split!Goto, Split!TypeOK
      <3>2. QED
        BY <2>0, <3>1 DEF PinOf, Split!Pins
    <2>8. CASE Split!CasLoad(t)
      <3>1. pc2'[t] = "casTest" /\ cur'[t].ptr = expected2[t] /\ expected2' = expected2
        BY <2>8 DEF Split!CasLoad, Split!Pack, Split!Goto, Split!TypeOK
      <3>2. QED
        BY <3>1 DEF PinOf, Split!Pins
    <2>9. QED
      BY <2>1, <2>2, <2>3, <2>5, <2>6, <2>7, <2>8 DEF SplitActions
  <1>6. QED
    BY <1>4, <1>5, PinsByThread

LEMMA SplitInitIInv ==
  ASSUME Split!SplitAssumption, Split!Init
  PROVE  Split!IInv
  <1>1. Split!TypeOK
    <2>1. Null \in Split!Refs /\ 0 \in Int /\ "idle" \in Split!States
      BY PlacesAre DEF Split!Refs
    <2>2. Split!Pack(Null, 0) \in Split!Packed
      BY <2>1, PackIs
    <2>3. QED
      BY <2>1, <2>2 DEF Split!Init, Split!TypeOK
  <1>2. packed.ptr = Null /\ packed.count = 0 /\ Split!Local = 0
    <2>1. Null \in Split!Refs /\ 0 \in 0 .. Wrap - 1 /\ Cardinality(Threads) \in Nat
      BY LocalIs, <1>1, SameCardinality DEF Split!Refs, Split!SplitAssumption
    <2>2. Split!Pack(Null, 0).ptr = Null /\ Split!Pack(Null, 0).count = 0
      BY <2>1, PackIs
    <2>3. QED
      BY <2>1, <2>2, SameCardinality DEF Split!Init, Split!Local, Split!Underflowed
  <1>3. Split!Current = {}
    BY DEF Split!Init, Split!Current, Split!Pins
  <1>4. Split!LocalBounded
    BY <1>2, <1>3, FS_EmptySet, SameCardinality DEF Split!LocalBounded
  <1>5. Split!SplitCountsAgree
    <2>1. ASSUME NEW b \in Blocks
          PROVE  remote[b] + AtAtomic(b) + Cardinality(Split!Owed(b)) = Held(b)
      <3>1. b # Null
        BY SameCardinality DEF Split!SplitAssumption
      <3>2. /\ SplitDesiring(b) = {} /\ SplitExpecting(b) = {} /\ Dying(b) = {} /\ Moving(b) = {}
            /\ Split!Pins(b) = {} /\ Split!Results(b) = {} /\ Split!Owed(b) = {}
        BY <3>1
        DEF Split!Init, SplitDesiring, SplitExpecting, Dying, Moving, Split!Pins,
            Split!Results, Split!Owed, Split!Owing
      <3>3. QED
        BY <1>2, <3>1, <3>2, FS_EmptySet DEF Split!Init, AtAtomic, Held
    <2>2. QED
      BY <1>1, <2>1, Exactly
  <1>6. Split!ReleasesAhead /\ Split!PinsCurrent
    BY DEF Split!Init, Split!ReleasesAhead, Split!PinsCurrent, Split!Pins
  <1>7. QED
    BY <1>1, <1>4, <1>5, <1>6 DEF Split!IInv

\* Nothing of the invariant is about anything but the variables.
LEMMA Stutters ==
  ASSUME Split!SplitAssumption, Split!IInv, UNCHANGED Split!vars
  PROVE  Split!IInv'
  <1>1. /\ packed' = packed /\ remote' = remote /\ desired2' = desired2 /\ expected2' = expected2
        /\ cur' = cur /\ dead2' = dead2 /\ pc2' = pc2 /\ left' = left /\ astray' = astray
    BY DEF Split!vars
  <1>2. Split!TypeOK' /\ Split!ReleasesAhead'
    BY <1>1 DEF Split!IInv, Split!TypeOK, Split!ReleasesAhead
  <1>3. Split!PinsCurrent'
    BY <1>1 DEF Split!IInv, Split!PinsCurrent, Split!Pins
  <1>4. Split!Local' = Split!Local /\ Split!Current' = Split!Current
    BY <1>1, SameCardinality DEF Split!Local, Split!Underflowed, Split!Current, Split!Pins
  <1>5. Split!LocalBounded'
    BY <1>1, <1>4, SameCardinality DEF Split!IInv, Split!LocalBounded
  <1>6. \A b : /\ Split!Owed(b)' = Split!Owed(b) /\ Split!Pins(b)' = Split!Pins(b)
               /\ Split!References(b)' = Split!References(b)
    BY <1>1, SameCardinality
    DEF Split!Owed, Split!Owing, Split!Pins, Split!References, Split!Results
  <1>7. Split!SplitCountsAgree'
    BY <1>1, <1>4, <1>6, SameCardinality DEF Split!IInv, Split!SplitCountsAgree
  <1>8. QED
    BY <1>2, <1>3, <1>5, <1>7 DEF Split!IInv

LEMMA SplitInvStep ==
  ASSUME Split!SplitAssumption, Split!IInv, [Split!SplitNext]_(Split!vars)
  PROVE  Split!IInv'
  <1>1. CASE Split!SplitNext
    <2>1. PICK t \in Threads : ~Split!Underflowed /\ SplitActions(t)
      BY <1>1, SplitNextIsAction DEF Split!Undefined
    <2>2. Split!TypeOK'
      BY <2>1, SplitTypeStep DEF Split!IInv
    <2>3. Split!LocalBounded'
      BY <2>1, LocalStep DEF Split!IInv
    <2>4. Split!ReleasesAhead' /\ Split!PinsCurrent'
      BY <2>1, <2>2, AheadStep, PinsStep DEF Split!IInv
    <2>5. Split!SplitCountsAgree'
      BY <2>1, <2>2, SplitCountStep DEF Split!IInv
    <2>6. QED
      BY <2>2, <2>3, <2>4, <2>5 DEF Split!IInv
  <1>2. CASE UNCHANGED Split!vars
    BY <1>2, Stutters
  <1>3. QED
    BY <1>1, <1>2

LEMMA SplitInvariance ==
  ASSUME Split!SplitAssumption
  PROVE  Split!SplitSpec => []Split!IInv
  <1>1. Split!Init => Split!IInv
    BY SplitInitIInv
  <1>2. Split!IInv /\ [Split!SplitNext]_(Split!vars) => Split!IInv'
    BY SplitInvStep
  <1>3. QED
    BY <1>1, <1>2, PTL DEF Split!SplitSpec

\* Through all interleavings the block's count, the local count and the counts on
\* their way from one to the other add up to the references and the loads under
\* way (experimental/atomic_shared_ptr.hpp:66-115).
THEOREM SplitCountsAgreeCorrect ==
  ASSUME Split!SplitAssumption
  PROVE  Split!SplitSpec => []Split!SplitCountsAgree
  <1>1. Split!IInv => Split!SplitCountsAgree
    BY DEF Split!IInv
  <1>2. QED
    BY <1>1, SplitInvariance, PTL

LEMMA FaultsFollow ==
  ASSUME Split!SplitAssumption, Split!IInv
  PROVE  Split!FaultsNeedReplacement
  <1>1. ASSUME NEW b \in Blocks, Split!FreedEarly(b), Split!Owing(b) = {}
        PROVE  FALSE
    <2>1. Cardinality(Split!Owed(b)) = 0
      BY <1>1, FS_EmptySet DEF Split!Owed
    <2>2. /\ Split!References(b) = (IF packed.ptr = b THEN 1 ELSE 0)
                + Cardinality(SplitDesiring(b)) + Cardinality(SplitExpecting(b)) + Cardinality(Dying(b))
                + Cardinality(Moving(b)) + Cardinality(Split!Results(b))
          /\ Cardinality(Split!Pins(b)) \in Nat
      BY Sets, SameCardinality
      DEF Split!References, SplitDesiring, SplitExpecting, Dying, Moving
    <2>3. Split!References(b) \in Nat /\ (packed.ptr = b => Split!References(b) >= 1)
      BY <2>2, Sets
    <2>4. remote[b] + (IF packed.ptr = b THEN Split!Local ELSE 0) + Cardinality(Split!Owed(b))
             = Split!References(b) + Cardinality(Split!Pins(b))
      BY SameCardinality DEF Split!IInv, Split!SplitCountsAgree
    <2>5. remote[b] \in Int /\ remote[b] <= 0 /\ Split!Local \in Int
      BY <1>1, LocalIs DEF Split!IInv, Split!TypeOK, Split!FreedEarly
    <2>6. CASE packed.ptr = b
      <3>1. Split!Current \subseteq Split!Pins(b) /\ IsFiniteSet(Split!Pins(b))
        BY <2>6, Sets DEF Split!Current
      <3>2. Cardinality(Split!Current) <= Cardinality(Split!Pins(b)) /\ Cardinality(Split!Current) \in Nat
        BY <3>1, Sets, FS_Subset
      <3>3. Split!Local <= Cardinality(Split!Pins(b))
        BY <2>2, <2>5, <3>2, SameCardinality DEF Split!IInv, Split!LocalBounded
      <3>4. QED
        BY <2>1, <2>2, <2>3, <2>4, <2>5, <2>6, <3>3
    <2>7. CASE packed.ptr # b
      <3>1. Split!References(b) = 0 /\ Cardinality(Split!Pins(b)) = 0
        BY <2>1, <2>2, <2>3, <2>4, <2>5, <2>7
      <3>2. Split!Pins(b) = {}
        BY <3>1, Sets, FS_EmptySet
      <3>3. QED
        BY <1>1, <3>1, <3>2 DEF Split!FreedEarly
    <2>8. QED
      BY <2>6, <2>7
  <1>2. ASSUME ~astray
        PROVE  packed.count = Cardinality(Split!Current)
    <2>1. Split!Local = Cardinality(Split!Current) /\ Cardinality(Split!Current) \in Nat
      BY <1>2, Sets, SameCardinality DEF Split!IInv, Split!LocalBounded
    <2>2. packed.count \in 0 .. Wrap - 1 /\ Wrap \in Nat
      BY LocalIs DEF Split!IInv, Split!SplitAssumption
    <2>3. QED
      BY <2>1, <2>2 DEF Split!Local
  <1>3. QED
    BY <1>1, <1>2, SameCardinality DEF Split!FaultsNeedReplacement

\* Whatever the interleaving, a block is freed too early only while the local
\* count of one that was replaced is on its way (experimental/atomic_shared_ptr.hpp:139), and the
\* local count is that of the loads under way until one of them has taken
\* another's for its own.
THEOREM FaultsNeedReplacementCorrect ==
  ASSUME Split!SplitAssumption
  PROVE  Split!SplitSpec => []Split!FaultsNeedReplacement
  <1>1. Split!IInv => Split!FaultsNeedReplacement
    BY FaultsFollow
  <1>2. QED
    BY <1>1, SplitInvariance, PTL
----------------------------------------------------------------------------
\* The refinement, as functions of one thread.
SplitWants(t) == IF Split!Failed(t) THEN Null ELSE desired2[t]

Sees(t) == IF Split!Loaded(t) THEN cur[t].ptr ELSE expected2[t]

SplitDesired == [t \in Threads |-> SplitWants(t)]

SplitExpected == [t \in Threads |-> Sees(t)]

SplitCalledBy == [t \in Threads |-> Split!Called(t)]

\* A compare_exchange that goes on as a load.
AsLoad == {"casAddRef", "casUnpin", "casUnpinRemote"}

LEMMA MapIs ==
  ASSUME NEW t \in Threads
  PROVE  /\ Split!Loaded(t) <=> \/ pc2[t] \in {"addRef", "unpin", "unpinRemote"}
                                \/ pc2[t] \in AsLoad /\ cur[t].ptr # expected2[t]
         /\ Split!Failed(t) <=> \/ pc2[t] \in {"releaseFail", "dropDesired"}
                                \/ pc2[t] \in AsLoad /\ cur[t].ptr # expected2[t]
         /\ Split!Called(t) = IF pc2[t] = "pin" THEN "load"
                        ELSE IF pc2[t] = "swap" THEN "exchange"
                        ELSE IF \/ pc2[t] \in {"casLoad", "casTest", "casPin", "releaseRetry"}
                                \/ pc2[t] \in AsLoad /\ cur[t].ptr = expected2[t]
                             THEN "compare_exchange"
                        ELSE "none"
         /\ Split!Loaded(t)' <=> \/ pc2'[t] \in {"addRef", "unpin", "unpinRemote"}
                                 \/ pc2'[t] \in AsLoad /\ cur'[t].ptr # expected2'[t]
         /\ Split!Failed(t)' <=> \/ pc2'[t] \in {"releaseFail", "dropDesired"}
                                 \/ pc2'[t] \in AsLoad /\ cur'[t].ptr # expected2'[t]
         /\ Split!Called(t)' = IF pc2'[t] = "pin" THEN "load"
                         ELSE IF pc2'[t] = "swap" THEN "exchange"
                         ELSE IF \/ pc2'[t] \in {"casLoad", "casTest", "casPin", "releaseRetry"}
                                 \/ pc2'[t] \in AsLoad /\ cur'[t].ptr = expected2'[t]
                              THEN "compare_exchange"
                         ELSE "none"
  <1>1. /\ Split!Loaded(t) <=> \/ pc2[t] \in {"addRef", "unpin", "unpinRemote"}
                               \/ pc2[t] \in AsLoad /\ cur[t].ptr # expected2[t]
        /\ Split!Loaded(t)' <=> \/ pc2'[t] \in {"addRef", "unpin", "unpinRemote"}
                                \/ pc2'[t] \in AsLoad /\ cur'[t].ptr # expected2'[t]
    BY DEF Split!Loaded, AsLoad
  <1>2. /\ Split!Failed(t) <=> \/ pc2[t] \in {"releaseFail", "dropDesired"}
                               \/ pc2[t] \in AsLoad /\ cur[t].ptr # expected2[t]
        /\ Split!Failed(t)' <=> \/ pc2'[t] \in {"releaseFail", "dropDesired"}
                                \/ pc2'[t] \in AsLoad /\ cur'[t].ptr # expected2'[t]
    BY DEF Split!Failed, Split!Loaded, AsLoad
  <1>3. Split!Called(t) = IF pc2[t] = "pin" THEN "load"
                    ELSE IF pc2[t] = "swap" THEN "exchange"
                    ELSE IF \/ pc2[t] \in {"casLoad", "casTest", "casPin", "releaseRetry"}
                            \/ pc2[t] \in AsLoad /\ cur[t].ptr = expected2[t]
                         THEN "compare_exchange"
                    ELSE "none"
    BY DEF Split!Called, Split!Loaded, AsLoad
  <1>4. Split!Called(t)' = IF pc2'[t] = "pin" THEN "load"
                     ELSE IF pc2'[t] = "swap" THEN "exchange"
                     ELSE IF \/ pc2'[t] \in {"casLoad", "casTest", "casPin", "releaseRetry"}
                             \/ pc2'[t] \in AsLoad /\ cur'[t].ptr = expected2'[t]
                          THEN "compare_exchange"
                     ELSE "none"
    BY DEF Split!Called, Split!Loaded, AsLoad
  <1>5. QED
    BY <1>1, <1>2, <1>3, <1>4

LEMMA SplitOneThreadSeen ==
  ASSUME NEW t \in Threads, SplitOthersKeep(t)
  PROVE  /\ SplitDesired' = [SplitDesired EXCEPT ![t] = SplitWants(t)']
         /\ SplitExpected' = [SplitExpected EXCEPT ![t] = Sees(t)']
         /\ SplitCalledBy' = [SplitCalledBy EXCEPT ![t] = Split!Called(t)']
         /\ SplitDesired[t] = SplitWants(t) /\ SplitExpected[t] = Sees(t) /\ SplitCalledBy[t] = Split!Called(t)
  <1>1. ASSUME NEW u \in Threads, u # t
        PROVE  SplitWants(u)' = SplitWants(u) /\ Sees(u)' = Sees(u) /\ Split!Called(u)' = Split!Called(u)
    BY <1>1, MapIs DEF SplitOthersKeep, SplitWants, Sees
  <1>2. QED
    BY <1>1 DEF SplitDesired, SplitExpected, SplitCalledBy

\* Nobody refers to a block that can be created again.
LEMMA SplitFreshBlock ==
  ASSUME Split!SplitAssumption, Split!TypeOK, ~Split!Undefined, NEW b \in Blocks,
         remote[b] = 0, NEW u \in Threads
  PROVE  b # packed.ptr /\ b # SplitWants(u) /\ b # Sees(u)
  <1>1. Split!References(b) = (IF packed.ptr = b THEN 1 ELSE 0)
                + Cardinality(SplitDesiring(b)) + Cardinality(SplitExpecting(b)) + Cardinality(Dying(b))
                + Cardinality(Moving(b)) + Cardinality(Split!Results(b))
    BY SameCardinality DEF Split!References, SplitDesiring, SplitExpecting, Dying, Moving
  <1>2. ~(Split!References(b) > 0) /\ Split!Pins(b) = {}
    BY DEF Split!Undefined, Split!FreedEarly
  <1>3. Cardinality(SplitDesiring(b)) = 0 /\ Cardinality(SplitExpecting(b)) = 0 /\ packed.ptr # b
    <2>1. /\ Cardinality(SplitDesiring(b)) \in Nat /\ Cardinality(SplitExpecting(b)) \in Nat
          /\ Cardinality(Dying(b)) \in Nat /\ Cardinality(Moving(b)) \in Nat
          /\ Cardinality(Split!Results(b)) \in Nat
      BY Sets
    <2>2. ~(Split!References(b) > 0)
      BY <1>2
    <2>3. CASE packed.ptr = b
      BY <1>1, <2>1, <2>2, <2>3
    <2>4. CASE packed.ptr # b
      <3>1. Split!References(b) = Cardinality(SplitDesiring(b)) + Cardinality(SplitExpecting(b))
                + Cardinality(Dying(b)) + Cardinality(Moving(b)) + Cardinality(Split!Results(b))
        BY <1>1, <2>1, <2>4
      <3>2. \A i, j, k, m, n \in Nat : ~(i + j + k + m + n > 0) => i = 0 /\ j = 0
        OBVIOUS
      <3>3. Cardinality(SplitDesiring(b)) = 0 /\ Cardinality(SplitExpecting(b)) = 0
        BY <2>1, <2>2, <3>1, <3>2
      <3>4. QED
        BY <2>4, <3>3
    <2>5. QED
      BY <2>3, <2>4
  <1>4. SplitDesiring(b) = {} /\ SplitExpecting(b) = {}
    BY <1>3, Sets, FS_EmptySet
  <1>5. desired2[u] # b /\ expected2[u] # b
    BY <1>4 DEF SplitDesiring, SplitExpecting
  <1>6. Split!Loaded(u) => cur[u].ptr # b
    BY <1>2, MapIs DEF Split!Pins, AsLoad
  <1>7. QED
    BY <1>3, <1>5, <1>6, SameCardinality DEF SplitWants, Sees, Split!SplitAssumption

\* A step is invisible, or it is one of the promise.
LEMMA SplitStepRefines ==
  ASSUME Split!SplitAssumption, Split!IInv, ~Split!Undefined, NEW t \in Threads, SplitActions(t)
  PROVE  Split!SplitPromise!Next \/ UNCHANGED Split!SplitPromise!vars
  <1>1. /\ SplitDesired' = [SplitDesired EXCEPT ![t] = SplitWants(t)']
        /\ SplitExpected' = [SplitExpected EXCEPT ![t] = Sees(t)']
        /\ SplitCalledBy' = [SplitCalledBy EXCEPT ![t] = Split!Called(t)']
        /\ SplitDesired[t] = SplitWants(t) /\ SplitExpected[t] = Sees(t) /\ SplitCalledBy[t] = Split!Called(t)
    BY SplitOneThreadMoves, SplitOneThreadSeen DEF Split!IInv
  <1>2. Split!TypeOK /\ PinOf(t)
    BY PinsByThread DEF Split!IInv
  <1>3. /\ SplitDesired = [u \in Threads |-> IF Split!Failed(u) THEN Null ELSE desired2[u]]
        /\ SplitExpected = [u \in Threads |-> IF Split!Loaded(u) THEN cur[u].ptr ELSE expected2[u]]
        /\ SplitCalledBy = [u \in Threads |-> Split!Called(u)]
        /\ SplitDesired' = [u \in Threads |-> IF Split!Failed(u)' THEN Null ELSE desired2'[u]]
        /\ SplitExpected' = [u \in Threads |-> IF Split!Loaded(u)' THEN cur'[u].ptr ELSE expected2'[u]]
        /\ SplitCalledBy' = [u \in Threads |-> Split!Called(u)']
    BY DEF SplitDesired, SplitWants, SplitExpected, Sees, SplitCalledBy
  <1>4. /\ SplitWants(t)' = SplitWants(t) => SplitDesired' = SplitDesired
        /\ Sees(t)' = Sees(t) => SplitExpected' = SplitExpected
        /\ Split!Called(t)' = Split!Called(t) => SplitCalledBy' = SplitCalledBy
    BY <1>1 DEF SplitDesired, SplitExpected, SplitCalledBy
  <1>5. ASSUME SplitWants(t)' = SplitWants(t), Sees(t)' = Sees(t), Split!Called(t)' = Split!Called(t),
               packed'.ptr = packed.ptr
        PROVE  UNCHANGED Split!SplitPromise!vars
    BY <1>3, <1>4, <1>5 DEF Split!SplitPromise!vars
  <1>l. ASSUME Split!Called(t) = "load", Split!Called(t)' = "none", SplitWants(t)' = SplitWants(t),
               Sees(t)' = packed.ptr, packed'.ptr = packed.ptr
        PROVE  Split!SplitPromise!Next
    <2>1. Split!SplitPromise!Load(t)
      BY <1>1, <1>3, <1>4, <1>l DEF Split!SplitPromise!Load, Split!SplitPromise!Effect
    <2>2. QED
      BY <2>1 DEF Split!SplitPromise!Next
  <1>f. ASSUME Split!Called(t) = "compare_exchange", Split!Called(t)' = "none", SplitWants(t)' = Null,
               Sees(t) # packed.ptr, Sees(t)' = packed.ptr, packed'.ptr = packed.ptr
        PROVE  Split!SplitPromise!Next
    <2>1. Split!SplitPromise!CasFails(t)
      BY <1>1, <1>3, <1>f DEF Split!SplitPromise!CasFails, Split!SplitPromise!Effect
    <2>2. QED
      BY <2>1 DEF Split!SplitPromise!Next
  <1>n. cur[t].ptr \in Split!Refs /\ Null \in Split!Refs
    BY <1>2 DEF Split!TypeOK, Split!Packed, Split!Refs
  <1>6. ASSUME NEW b \in Blocks, Split!Create(t, b)
        PROVE  Split!SplitPromise!Next
    <2>1. b # packed.ptr /\ \A u \in Threads : b # SplitDesired[u] /\ b # SplitExpected[u]
      <3>1. remote[b] = 0
        BY <1>6 DEF Split!Create
      <3>2. \A u \in Threads : b # packed.ptr /\ b # SplitWants(u) /\ b # Sees(u)
        BY <1>2, <3>1, SplitFreshBlock
      <3>3. QED
        BY <3>2 DEF SplitDesired, SplitExpected
    <2>2. /\ pc2[t] = "idle" /\ pc2'[t] = "idle" /\ desired2[t] = Null /\ desired2'[t] = b
          /\ expected2' = expected2 /\ packed' = packed
      BY <1>2, <1>6 DEF Split!Create, Split!TypeOK
    <2>3. /\ Split!Called(t) = "none" /\ Split!Called(t)' = "none" /\ SplitWants(t) = Null /\ SplitWants(t)' = b
          /\ Sees(t)' = Sees(t)
      BY <2>2, MapIs DEF SplitWants, Sees, AsLoad
    <2>4. Split!SplitPromise!Create(t, b)
      BY <1>1, <1>3, <1>4, <2>1, <2>2, <2>3 DEF Split!SplitPromise!Create
    <2>5. QED
      BY <2>4 DEF Split!SplitPromise!Next
  <1>7. CASE Split!DropDesired(t)
    <2>1. /\ pc2'[t] = "release" /\ desired2'[t] = Null /\ expected2' = expected2 /\ packed' = packed
          /\ pc2[t] \in {"idle", "dropDesired"}
      BY <1>2, <1>7 DEF Split!DropDesired, Split!Goto, Split!TypeOK
    <2>2. /\ Split!Called(t) = "none" /\ Split!Called(t)' = "none" /\ SplitWants(t)' = Null /\ Sees(t)' = Sees(t)
      BY <2>1, MapIs DEF SplitWants, Sees, AsLoad
    <2>3. Split!SplitPromise!Drop(t)
      BY <1>1, <1>3, <1>4, <2>1, <2>2 DEF Split!SplitPromise!Drop
    <2>4. QED
      BY <2>3 DEF Split!SplitPromise!Next
  <1>8. CASE Split!DropExpected(t)
    <2>1. /\ pc2[t] = "idle" /\ pc2'[t] = "release" /\ expected2'[t] = Null /\ desired2' = desired2
          /\ packed' = packed
      BY <1>2, <1>8 DEF Split!DropExpected, Split!Goto, Split!TypeOK
    <2>2. /\ Split!Called(t) = "none" /\ Split!Called(t)' = "none" /\ SplitWants(t)' = SplitWants(t) /\ Sees(t)' = Null
      BY <2>1, MapIs DEF SplitWants, Sees, AsLoad
    <2>3. Split!SplitPromise!Drop(t)
      BY <1>1, <1>3, <1>4, <2>1, <2>2 DEF Split!SplitPromise!Drop
    <2>4. QED
      BY <2>3 DEF Split!SplitPromise!Next
  <1>9. CASE Split!Call(t)
    <2>1. PICK op \in {"load", "exchange", "compare_exchange"} : pc2'[t] = Split!Calls[op]
      BY <1>2, <1>9, Places DEF Split!Call, Split!Goto, Split!TypeOK
    <2>2. /\ pc2[t] = "idle" /\ desired2' = desired2 /\ expected2' = expected2 /\ packed' = packed
      BY <1>9 DEF Split!Call
    <2>3. /\ Split!Called(t) = "none" /\ Split!Called(t)' = op /\ SplitWants(t)' = SplitWants(t) /\ Sees(t)' = Sees(t)
      BY <2>1, <2>2, Places, MapIs DEF SplitWants, Sees, AsLoad
    <2>4. Split!SplitPromise!Call(t, op)
      BY <1>1, <1>3, <1>4, <2>2, <2>3 DEF Split!SplitPromise!Call
    <2>5. QED
      BY <2>4 DEF Split!SplitPromise!Next
  <1>10. CASE Split!Release(t)
    <2>1. /\ desired2' = desired2 /\ expected2' = expected2 /\ packed' = packed
          /\ \/ pc2[t] = "release" /\ pc2'[t] = "idle"
             \/ pc2[t] = "releaseRetry" /\ pc2'[t] = "casLoad"
             \/ pc2[t] = "releaseFail" /\ pc2'[t] = "dropDesired"
      BY <1>2, <1>10, Places DEF Split!Release, Split!Goto, Split!TypeOK
    <2>2. SplitWants(t)' = SplitWants(t) /\ Sees(t)' = Sees(t) /\ Split!Called(t)' = Split!Called(t)
      BY <2>1, MapIs DEF SplitWants, Sees, AsLoad
    <2>3. QED
      BY <1>5, <2>1, <2>2
  <1>11. CASE Split!Pin(t)
    <2>1. /\ desired2' = desired2 /\ expected2' = expected2 /\ packed'.ptr = packed.ptr
          /\ cur'[t].ptr = packed.ptr
          /\ \/ pc2[t] = "pin" /\ pc2'[t] = "addRef"
             \/ pc2[t] = "casPin" /\ pc2'[t] = "casAddRef"
      BY <1>2, <1>11, Places DEF Split!Pin, Split!Pack, Split!Goto, Split!TypeOK
    <2>2. CASE pc2[t] = "pin"
      <3>1. /\ Split!Called(t) = "load" /\ Split!Called(t)' = "none" /\ SplitWants(t)' = SplitWants(t)
            /\ Sees(t)' = packed.ptr
        BY <2>1, <2>2, MapIs DEF SplitWants, Sees, AsLoad
      <3>2. QED
        BY <1>l, <2>1, <3>1
    <2>3. CASE pc2[t] = "casPin" /\ packed.ptr # expected2[t]
      <3>1. /\ Split!Called(t) = "compare_exchange" /\ Split!Called(t)' = "none" /\ SplitWants(t)' = Null
            /\ Sees(t) = expected2[t] /\ Sees(t)' = packed.ptr
        BY <2>1, <2>3, MapIs DEF SplitWants, Sees, AsLoad
      <3>2. QED
        BY <1>f, <2>1, <2>3, <3>1
    <2>4. CASE pc2[t] = "casPin" /\ packed.ptr = expected2[t]
      <3>1. Split!Called(t)' = Split!Called(t) /\ SplitWants(t)' = SplitWants(t) /\ Sees(t)' = Sees(t)
        BY <2>1, <2>4, MapIs DEF SplitWants, Sees, AsLoad
      <3>2. QED
        BY <1>5, <2>1, <3>1
    <2>5. QED
      BY <2>1, <2>2, <2>3, <2>4
  <1>12. CASE Split!LoadNull(t)
    <2>1. /\ desired2' = desired2 /\ packed' = packed /\ packed.ptr = Null /\ Split!TakeResult(t, Null)
          /\ pc2[t] \in {"pin", "casPin"}
      BY <1>12 DEF Split!LoadNull
    <2>2. /\ expected2'[t] = Null
          /\ pc2'[t] = IF pc2[t] = "pin" THEN "release"
                      ELSE IF Null = expected2[t] THEN "releaseRetry" ELSE "releaseFail"
      BY <1>2, <1>n, <2>1, TakeResultIs
    <2>3. CASE pc2[t] = "pin"
      <3>1. /\ Split!Called(t) = "load" /\ Split!Called(t)' = "none" /\ SplitWants(t)' = SplitWants(t)
            /\ Sees(t)' = packed.ptr
        BY <2>1, <2>2, <2>3, MapIs DEF SplitWants, Sees, AsLoad
      <3>2. QED
        BY <1>l, <2>1, <3>1
    <2>4. CASE pc2[t] = "casPin" /\ expected2[t] # Null
      <3>1. /\ Split!Called(t) = "compare_exchange" /\ Split!Called(t)' = "none" /\ SplitWants(t)' = Null
            /\ Sees(t) = expected2[t] /\ Sees(t)' = packed.ptr
        BY <2>1, <2>2, <2>4, MapIs DEF SplitWants, Sees, AsLoad
      <3>2. QED
        BY <1>f, <2>1, <2>4, <3>1
    <2>5. CASE pc2[t] = "casPin" /\ expected2[t] = Null
      <3>1. Split!Called(t)' = Split!Called(t) /\ SplitWants(t)' = SplitWants(t) /\ Sees(t)' = Sees(t)
        BY <2>1, <2>2, <2>5, MapIs DEF SplitWants, Sees, AsLoad
      <3>2. QED
        BY <1>5, <2>1, <3>1
    <2>6. QED
      BY <2>1, <2>3, <2>4, <2>5
  <1>13. CASE Split!AddRef(t)
    <2>1. /\ desired2' = desired2 /\ expected2' = expected2 /\ packed' = packed /\ cur' = cur
          /\ \/ pc2[t] = "addRef" /\ pc2'[t] = "unpin"
             \/ pc2[t] = "casAddRef" /\ pc2'[t] = "casUnpin"
      BY <1>2, <1>13, Places DEF Split!AddRef, Split!Goto, Split!TypeOK
    <2>2. SplitWants(t)' = SplitWants(t) /\ Sees(t)' = Sees(t) /\ Split!Called(t)' = Split!Called(t)
      BY <2>1, MapIs DEF SplitWants, Sees, AsLoad
    <2>3. QED
      BY <1>5, <2>1, <2>2
  <1>14. ASSUME Split!TakeResult(t, cur[t].ptr), desired2' = desired2, packed'.ptr = packed.ptr,
                pc2[t] \in {"unpin", "unpinRemote", "casUnpin", "casUnpinRemote"}
         PROVE  UNCHANGED Split!SplitPromise!vars
    <2>1. /\ expected2'[t] = cur[t].ptr
          /\ pc2'[t] = IF pc2[t] \in {"unpin", "unpinRemote"} THEN "release"
                      ELSE IF cur[t].ptr = expected2[t] THEN "releaseRetry" ELSE "releaseFail"
      BY <1>2, <1>n, <1>14, TakeResultIs
    <2>2. SplitWants(t)' = SplitWants(t) /\ Sees(t)' = Sees(t) /\ Split!Called(t)' = Split!Called(t)
      BY <1>14, <2>1, MapIs DEF SplitWants, Sees, AsLoad
    <2>3. QED
      BY <1>5, <1>14, <2>2
  <1>15. CASE Split!Unpin(t)
    <2>1. CASE packed.ptr = cur[t].ptr
      BY <1>14, <1>15, <2>1 DEF Split!Unpin, Split!Pack
    <2>2. CASE packed.ptr # cur[t].ptr
      <3>1. /\ desired2' = desired2 /\ expected2' = expected2 /\ packed' = packed /\ cur' = cur
            /\ \/ pc2[t] = "unpin" /\ pc2'[t] = "unpinRemote"
               \/ pc2[t] = "casUnpin" /\ pc2'[t] = "casUnpinRemote"
        BY <1>2, <1>15, <2>2, Places DEF Split!Unpin, Split!Goto, Split!TypeOK
      <3>2. SplitWants(t)' = SplitWants(t) /\ Sees(t)' = Sees(t) /\ Split!Called(t)' = Split!Called(t)
        BY <3>1, MapIs DEF SplitWants, Sees, AsLoad
      <3>3. QED
        BY <1>5, <3>1, <3>2
    <2>3. QED
      BY <2>1, <2>2
  <1>16. CASE Split!UnpinRemote(t)
    BY <1>14, <1>16 DEF Split!UnpinRemote
  <1>17. CASE Split!Swap(t)
    <2>1. packed'.ptr = desired2[t]
      BY <1>2, <1>17, PutDesiredIs DEF Split!Swap
    <2>2. /\ pc2[t] = "swap" /\ pc2'[t] \in {"idle", "help"} /\ desired2'[t] = packed.ptr
          /\ expected2' = expected2
      BY <1>2, <1>17 DEF Split!Swap, Split!Goto, Split!TypeOK
    <2>3. /\ Split!Called(t) = "exchange" /\ Split!Called(t)' = "none" /\ SplitWants(t) = desired2[t]
          /\ SplitWants(t)' = packed.ptr /\ Sees(t)' = Sees(t)
      BY <2>2, MapIs DEF SplitWants, Sees, AsLoad
    <2>4. Split!SplitPromise!Exchange(t)
      BY <1>1, <1>3, <1>4, <2>1, <2>3 DEF Split!SplitPromise!Exchange, Split!SplitPromise!Effect
    <2>5. QED
      BY <2>4 DEF Split!SplitPromise!Next
  <1>18. CASE Split!CasSucceeds(t)
    <2>1. packed'.ptr = desired2[t] /\ packed = cur[t]
      BY <1>2, <1>18, PutDesiredIs DEF Split!CasSucceeds
    <2>2. /\ pc2[t] = "casTest" /\ pc2'[t] \in {"idle", "casHelp"} /\ desired2'[t] = Null
          /\ expected2' = expected2
      BY <1>2, <1>18 DEF Split!CasSucceeds, Split!Goto, Split!TypeOK
    <2>3. /\ Split!Called(t) = "compare_exchange" /\ Split!Called(t)' = "none" /\ SplitWants(t) = desired2[t]
          /\ SplitWants(t)' = Null /\ Sees(t)' = Sees(t) /\ Sees(t) = expected2[t]
      BY <2>2, MapIs DEF SplitWants, Sees, AsLoad
    <2>4. expected2[t] = packed.ptr
      BY <1>2, <2>1, <2>2 DEF PinOf
    <2>5. Split!SplitPromise!CasSucceeds(t)
      BY <1>1, <1>3, <1>4, <2>1, <2>3, <2>4
      DEF Split!SplitPromise!CasSucceeds, Split!SplitPromise!Effect
    <2>6. QED
      BY <2>5 DEF Split!SplitPromise!Next
  <1>19. CASE Split!Help(t) \/ Split!CasHelp(t) \/ Split!CasLoad(t) \/ Split!CasFails(t)
    <2>1. /\ desired2' = desired2 /\ expected2' = expected2 /\ packed' = packed
          /\ \/ pc2[t] = "help" /\ pc2'[t] = "idle"
             \/ pc2[t] = "casHelp" /\ pc2'[t] = "release"
             \/ pc2[t] = "casLoad" /\ pc2'[t] = "casTest"
             \/ pc2[t] = "casTest" /\ pc2'[t] = "casPin"
      BY <1>2, <1>19
      DEF Split!Help, Split!CasHelp, Split!CasLoad, Split!CasFails, Split!Goto, Split!TypeOK
    <2>2. SplitWants(t)' = SplitWants(t) /\ Sees(t)' = Sees(t) /\ Split!Called(t)' = Split!Called(t)
      BY <2>1, MapIs DEF SplitWants, Sees, AsLoad
    <2>3. QED
      BY <1>5, <2>1, <2>2
  <1>20. QED
    BY <1>6, <1>7, <1>8, <1>9, <1>10, <1>11, <1>12, <1>13, <1>15, <1>16, <1>17, <1>18, <1>19
    DEF SplitActions

\* Until the behaviour is undefined the operations are those of a register: each
\* takes effect in one step between its call and its return, and no block is made
\* anew that somebody refers to (experimental/atomic_shared_ptr.hpp).
THEOREM SplitRefinesRegister ==
  ASSUME Split!SplitAssumption
  PROVE  Split!SplitSpec => Split!ImplementsRegister
  <1>1. Split!Init => Split!SplitPromise!Init
    <2> SUFFICES ASSUME Split!Init PROVE Split!SplitPromise!Init
      OBVIOUS
    <2>1. \A t \in Threads : ~Split!Failed(t) /\ ~Split!Loaded(t) /\ Split!Called(t) = "none"
      BY MapIs DEF Split!Init, AsLoad
    <2>2. packed.ptr = Null
      BY DEF Split!Init, Split!Pack
    <2>3. QED
      BY <2>1, <2>2 DEF Split!Init, Split!SplitPromise!Init
  <1>2. ASSUME Split!IInv, [Split!SplitNext]_(Split!vars)
        PROVE  [Split!SplitPromise!Next]_(Split!SplitPromise!vars)
    <2>1. CASE Split!SplitNext
      BY <1>2, <2>1, SplitNextIsAction, SplitStepRefines
    <2>2. CASE UNCHANGED Split!vars
      <3>1. /\ packed' = packed /\ desired2' = desired2 /\ expected2' = expected2 /\ cur' = cur
            /\ pc2' = pc2
        BY <2>2 DEF Split!vars
      <3>2. \A t \in Threads : /\ Split!Failed(t)' = Split!Failed(t) /\ Split!Loaded(t)' = Split!Loaded(t)
                               /\ Split!Called(t)' = Split!Called(t)
        BY <3>1 DEF Split!Failed, Split!Loaded, Split!Called
      <3>3. QED
        BY <3>1, <3>2 DEF Split!SplitPromise!vars
    <2>3. QED
      BY <1>2, <2>1, <2>2
  <1>3. QED
    BY <1>1, <1>2, SplitInvariance, PTL
    DEF Split!SplitSpec, Split!ImplementsRegister, Split!SplitPromise!Spec
----------------------------------------------------------------------------
\* MCAtomicSharedPtr: a behaviour of it is one of both modules, the
\* implementation that is not used standing still.
LEMMA MCIsBoth == MCSpec => Spec /\ Split!SplitSpec
  <1>1. MCInit => Init /\ Split!Init
    BY DEF MCInit
  <1>2. [SpinStep \/ SplitStep \/ Stop]_<<kind, vars, split>>
            => [Next]_vars /\ [Split!SplitNext]_(Split!vars)
    BY DEF SpinStep, SplitStep, Stop, split, Split!vars
  <1>3. QED
    BY <1>1, <1>2, PTL DEF MCSpec, Spec, Safety, Split!SplitSpec

\* Through all interleavings the block's count, the local count and the counts on
\* their way from one to the other add up to the references and the loads under
\* way (experimental/atomic_shared_ptr.hpp:66-115).
THEOREM SplitCountsAlwaysAgree == MCSpec => []SplitCountsAgree
  <1>1. Split!IInv => SplitCountsAgree
    BY DEF Split!IInv, SplitCountsAgree
  <1>2. Split!SplitSpec => []Split!IInv
    BY SplitInvariance, SplitAssumption
  <1>3. QED
    BY <1>1, <1>2, MCIsBoth, PTL

\* Until a block is replaced and its local count is on its way none is freed early
\* (experimental/atomic_shared_ptr.hpp:90-113, 139).
THEOREM FaultsAlwaysNeedReplacement == MCSpec => []FaultsNeedReplacement
  <1>1. Split!SplitSpec => []Split!FaultsNeedReplacement
    BY FaultsNeedReplacementCorrect, SplitAssumption
  <1>2. Split!FaultsNeedReplacement <=> FaultsNeedReplacement
    BY DEF FaultsNeedReplacement
  <1>3. QED
    BY <1>1, <1>2, MCIsBoth, PTL

\* Both implementations make load, exchange and compare_exchange atomic, the one
\* with the split count until its behaviour is undefined (atomic_shared_ptr.hpp
\* and experimental/atomic_shared_ptr.hpp).
THEOREM BothImplementRegister == MCSpec => ImplementsRegister /\ SplitImplementsRegister
  <1>1. Split!SplitSpec => Split!ImplementsRegister
    BY SplitRefinesRegister, SplitAssumption
  <1>2. Split!ImplementsRegister <=> SplitImplementsRegister
    BY DEF SplitImplementsRegister
  <1>3. QED
    BY <1>1, <1>2, RefinesRegister, MCIsBoth, PTL
============================================================================
