-------------------------- MODULE SharedPtr_proofs --------------------------
(***************************************************************************)
(* Theorems about module SharedPtr for any number of pointers.  The        *)
(* inductive invariant is IInv: the two counters equal the sizes of the    *)
(* sets they count, and Lifetimes.                                         *)
(***************************************************************************)
EXTENDS SharedPtr, CardinalityLemmas, TLAPS

\* Live and WeakRefs are finite, and there are fewer live pointers than the
\* flag is worth, fewer still while some shared_ptr is not live.
LEMMA FiniteHolders ==
  ASSUME TypeOK
  PROVE  /\ IsFiniteSet(Live) /\ IsFiniteSet(WeakRefs)
         /\ Cardinality(Live) < ZeroFlag
         /\ \A s \in Shared : s \notin Live => Cardinality(Live) + 1 < ZeroFlag
  <1>1. Live \subseteq Shared
    BY DEF Live
  <1>2. IsFiniteSet(Shared) /\ IsFiniteSet(Weak)
    BY SharedPtrAssumption
  <1>3. IsFiniteSet(Live) /\ Cardinality(Live) <= Cardinality(Shared)
    BY <1>1, <1>2, FS_Subset
  <1>4. IsFiniteSet(Pointers)
    BY <1>2, FS_Union DEF Pointers
  <1>5. WeakRefs \subseteq Pointers
    BY DEF WeakRefs, Pointers
  <1>6. IsFiniteSet(WeakRefs)
    BY <1>4, <1>5, FS_Subset
  <1>7. /\ Cardinality(Live) \in Nat /\ Cardinality(Shared) \in Nat
        /\ ZeroFlag \in Nat /\ Cardinality(Shared) < ZeroFlag
    BY <1>2, <1>3, FS_CardinalityType, SharedPtrAssumption, ZeroFlagAssumption
  <1>8. ASSUME NEW s \in Shared, s \notin Live
        PROVE  Cardinality(Live) + 1 < ZeroFlag
    <2>1. Live \cup {s} \in SUBSET Shared
      BY <1>1
    <2>2. Cardinality(Live \cup {s}) <= Cardinality(Shared)
      BY <1>2, <2>1, FS_Subset
    <2>3. Cardinality(Live \cup {s}) = Cardinality(Live) + 1
      BY <1>3, <1>8, Counting
    <2>4. QED
      BY <1>7, <2>2, <2>3
  <1>9. QED
    BY <1>3, <1>6, <1>7, <1>8

\* What one step of a pointer does to the two sets.
LEMMA GotoSets ==
  ASSUME TypeOK, NEW h \in Pointers, NEW state \in States, Goto(h, state)
  PROVE  /\ pc' \in [Pointers -> States]
         /\ Live' = IF h \in Shared /\ state = "live" THEN Live \cup {h} ELSE Live \ {h}
         /\ WeakRefs' = IF (h \in Weak /\ state = "live") \/ state \in {"weak", "sub"}
                        THEN WeakRefs \cup {h} ELSE WeakRefs \ {h}
         /\ pc'[h] = state
         /\ \A g \in Pointers : g # h => pc'[g] = pc[g]
  <1>1. /\ pc' \in [Pointers -> States] /\ pc'[h] = state
        /\ \A g \in Pointers : g # h => pc'[g] = pc[g]
    BY DEF TypeOK, Goto
  <1>2. \A g \in Shared : g \in Live' <=> pc'[g] = "live"
    BY DEF Live
  <1>3. \A g \in Pointers : g \in WeakRefs' <=>
                  (g \in Weak /\ pc'[g] = "live") \/ pc'[g] \in {"weak", "sub"}
    BY DEF WeakRefs, Pointers
  <1>4. Live' = IF h \in Shared /\ state = "live" THEN Live \cup {h} ELSE Live \ {h}
    BY <1>1, <1>2 DEF Live, Pointers
  <1>5. WeakRefs' = IF (h \in Weak /\ state = "live") \/ state \in {"weak", "sub"}
                    THEN WeakRefs \cup {h} ELSE WeakRefs \ {h}
    BY <1>1, <1>3 DEF WeakRefs, Pointers
  <1>6. QED
    BY <1>1, <1>4, <1>5

LEMMA InitIInv == Init => IInv
  <1> SUFFICES ASSUME Init PROVE IInv
    OBVIOUS
  <1>1. Live = {} /\ WeakRefs = {}
    BY DEF Init, Live, WeakRefs, Pointers
  <1>2. Cardinality(Live) = 0
    BY <1>1, FS_EmptySet
  <1>3. impl = 0 /\ ~IsStuck
    BY ZeroFlagAssumption DEF Init, IsStuck
  <1>4. TypeOK
    BY SharedPtrAssumption DEF Init, TypeOK, States, Pointers
  <1>5. SharedCountIsOwners
    BY <1>2, <1>3 DEF Init, SharedCountIsOwners, Pointers
  <1>6. WeakCountIsReferences
    BY <1>1 DEF Init, WeakCountIsReferences, Pointers
  <1>7. Lifetimes
    BY <1>3 DEF Init, Lifetimes, FreedBlockNeedsRevival, Pointers
  <1>8. QED
    BY <1>4, <1>5, <1>6, <1>7 DEF IInv

\* A new owner: a copy of a live pointer, or a lock.
LEMMA NewOwner ==
  ASSUME IInv, NEW s \in Shared, pc[s] = "null", ~IsStuck, block = "allocated",
         FetchAdd(1), Goto(s, "live"),
         revived' \in BOOLEAN, revived => revived', impl = 0 => revived',
         UNCHANGED <<weak_count, object, block, sawZero>>
  PROVE  IInv'
  <1>1. /\ IsFiniteSet(Live) /\ Cardinality(Live) + 1 < ZeroFlag
        /\ s \notin Live /\ s \in Pointers /\ s \notin Weak /\ s \notin WeakRefs
    BY FiniteHolders, SharedPtrAssumption DEF IInv, Live, WeakRefs, Pointers
  <1>2. /\ Live' = Live \cup {s} /\ WeakRefs' = WeakRefs
        /\ pc' \in [Pointers -> States] /\ pc'[s] = "live"
        /\ \A g \in Pointers : g # s => pc'[g] = pc[g]
    BY <1>1, GotoSets DEF IInv, States
  <1>3. Cardinality(Live') = Cardinality(Live) + 1
    BY <1>1, <1>2, Counting
  <1>4. impl' = impl + 1 /\ impl = Cardinality(Live) /\ object = "alive" /\ ~IsStuck'
    <2>1. Cardinality(Live) \in Nat
      BY <1>1, FS_CardinalityType
    <2>2. impl = Cardinality(Live) /\ object = "alive"
      BY DEF IInv, SharedCountIsOwners
    <2>3. QED
      BY <1>1, <2>1, <2>2, ZeroFlagAssumption DEF FetchAdd, IsStuck
  <1>5. TypeOK'
    BY <1>1, <1>2, <1>4 DEF IInv, TypeOK, Pointers
  <1>6. SharedCountIsOwners'
    BY <1>1, <1>2, <1>3, <1>4, ZeroFlagAssumption
    DEF IInv, TypeOK, SharedCountIsOwners, IsStuck, Pointers
  <1>7. WeakCountIsReferences'
    BY <1>1, <1>2, <1>4 DEF IInv, WeakCountIsReferences, Pointers
  <1>8. Lifetimes'
    BY <1>1, <1>2, <1>4 DEF IInv, TypeOK, Lifetimes, FreedBlockNeedsRevival, IsStuck, Pointers
  <1>9. QED
    BY <1>5, <1>6, <1>7, <1>8 DEF IInv

LEMMA ConstructStep ==
  ASSUME IInv, NEW s \in Shared, Construct(s)
  PROVE  IInv'
  <1>1. /\ block = "none" /\ impl = 0 /\ ~revived /\ ~sawZero
        /\ \A h \in Pointers : pc[h] = "null"
    BY ZeroFlagAssumption
    DEF IInv, TypeOK, Lifetimes, Construct, IsStuck
  <1>2. Live = {} /\ WeakRefs = {} /\ s \in Pointers /\ s \notin Weak
    BY <1>1, SharedPtrAssumption DEF Live, WeakRefs, Pointers
  <1>3. /\ Live' = {s} /\ WeakRefs' = {}
        /\ pc' \in [Pointers -> States] /\ pc'[s] = "live"
        /\ \A g \in Pointers : g # s => pc'[g] = pc[g]
    <2>1. /\ Live' = Live \cup {s} /\ WeakRefs' = WeakRefs \ {s}
          /\ pc' \in [Pointers -> States] /\ pc'[s] = "live"
          /\ \A g \in Pointers : g # s => pc'[g] = pc[g]
      BY <1>2, GotoSets DEF IInv, States, Construct
    <2>2. QED
      BY <1>2, <2>1
  <1>4. Cardinality(Live') = 1 /\ Cardinality(WeakRefs') = 0
    BY <1>3, FS_Singleton, FS_EmptySet
  <1>5. impl' = 1 /\ ~IsStuck'
    <2>1. Cardinality(Live) = 0
      BY <1>2, FS_EmptySet
    <2>2. 1 < ZeroFlag
      BY <1>2, <2>1, FiniteHolders DEF IInv
    <2>3. QED
      BY <2>2, ZeroFlagAssumption DEF Construct, IsStuck
  <1>6. TypeOK'
    BY <1>1, <1>3, <1>5, SharedPtrAssumption DEF IInv, TypeOK, Construct, Pointers
  <1>7. SharedCountIsOwners'
    BY <1>1, <1>3, <1>4, <1>5 DEF SharedCountIsOwners, Construct, Pointers
  <1>8. WeakCountIsReferences'
    BY <1>1, <1>3, <1>4 DEF WeakCountIsReferences, Construct, Pointers
  <1>9. Lifetimes'
    BY <1>1, <1>3 DEF Lifetimes, FreedBlockNeedsRevival, Construct, Pointers
  <1>10. QED
    BY <1>6, <1>7, <1>8, <1>9 DEF IInv

LEMMA ConstructThrowsStep ==
  ASSUME IInv, ConstructThrows
  PROVE  IInv'
  <1>1. /\ block = "none" /\ impl = 0 /\ ~IsStuck /\ Live' = Live /\ WeakRefs' = WeakRefs
    BY ZeroFlagAssumption
    DEF IInv, Lifetimes, ConstructThrows, IsStuck, Live, WeakRefs
  <1>2. QED
    BY <1>1
    DEF IInv, TypeOK, SharedCountIsOwners, WeakCountIsReferences, Lifetimes,
        FreedBlockNeedsRevival, ConstructThrows, IsStuck, Pointers

\* A copy of a live shared_ptr: the count is at least 1, so nothing is revived.
LEMMA CopySharedStep ==
  ASSUME IInv, NEW r \in Shared, NEW s \in Shared, CopyShared(r, s)
  PROVE  IInv'
  <1>1. r \in Live
    BY DEF CopyShared, Live
  <1>2. ~IsStuck /\ block = "allocated"
    BY <1>1 DEF IInv, SharedCountIsOwners, WeakCountIsReferences
  <1>3. impl # 0
    <2>1. Cardinality(Live) >= 1 /\ impl = Cardinality(Live)
      BY <1>1, <1>2, FiniteHolders, Counting DEF IInv, SharedCountIsOwners
    <2>2. QED
      BY <2>1
  <1>4. QED
    BY <1>2, <1>3, NewOwner DEF CopyShared, IInv, TypeOK

LEMMA LockSucceedsStep ==
  ASSUME IInv, NEW w \in Weak, NEW s \in Shared, LockSucceeds(w, s)
  PROVE  IInv'
  <1>1. w \in WeakRefs
    BY DEF LockSucceeds, WeakRefs
  <1>2. block = "allocated"
    BY <1>1 DEF IInv, WeakCountIsReferences
  <1>3. revived' \in BOOLEAN /\ (revived => revived') /\ (impl = 0 => revived')
    BY DEF LockSucceeds, IInv, TypeOK
  <1>4. QED
    BY <1>2, <1>3, NewOwner DEF LockSucceeds

LEMMA LockFailsStep ==
  ASSUME IInv, NEW w \in Weak, LockFails(w)
  PROVE  IInv'
  <1>1. /\ Live' = Live /\ WeakRefs' = WeakRefs
        /\ impl \in Nat /\ impl' \in Nat /\ IsStuck /\ IsStuck' /\ impl # 0
    BY ZeroFlagAssumption DEF LockFails, FetchAdd, Live, WeakRefs, IInv, TypeOK, IsStuck
  <1>2. TypeOK'
    BY <1>1 DEF IInv, TypeOK, LockFails
  <1>3. SharedCountIsOwners'
    BY <1>1 DEF IInv, SharedCountIsOwners, LockFails
  <1>4. WeakCountIsReferences'
    BY <1>1 DEF IInv, WeakCountIsReferences, LockFails
  <1>5. Lifetimes'
    BY <1>1 DEF IInv, Lifetimes, FreedBlockNeedsRevival, LockFails
  <1>6. QED
    BY <1>2, <1>3, <1>4, <1>5 DEF IInv

LEMMA UseCountStep ==
  ASSUME IInv, NEW h \in Pointers, UseCount(h)
  PROVE  IInv'
  <1>1. /\ Live' = Live /\ WeakRefs' = WeakRefs
        /\ IsStuck' <=> IsStuck
        /\ sawZero' \in BOOLEAN
        /\ sawZero' => IsStuck
    BY DEF UseCount, Live, WeakRefs, IInv, TypeOK, Lifetimes, IsStuck, LoadCount
  <1>2. TypeOK' /\ SharedCountIsOwners'
    BY <1>1 DEF IInv, TypeOK, SharedCountIsOwners, UseCount
  <1>3. WeakCountIsReferences' /\ Lifetimes'
    BY <1>1 DEF IInv, WeakCountIsReferences, Lifetimes, FreedBlockNeedsRevival, UseCount
  <1>4. QED
    BY <1>2, <1>3 DEF IInv

LEMMA MoveSharedStep ==
  ASSUME IInv, NEW r \in Shared, NEW h \in Shared, Move(r, h)
  PROVE  IInv'
  <1>1. /\ pc' \in [Pointers -> States] /\ r # h /\ r \in Pointers /\ h \in Pointers
        /\ pc[r] = "live" /\ pc[h] = "null" /\ pc'[r] = "null" /\ pc'[h] = "live"
        /\ \A g \in Pointers : g # r /\ g # h => pc'[g] = pc[g]
        /\ UNCHANGED <<impl, weak_count, object, block, revived, sawZero>>
    BY DEF Move, IInv, TypeOK, Pointers, States
  <1>2. /\ r \in Live /\ h \notin Live /\ Live' = (Live \ {r}) \cup {h}
        /\ WeakRefs' = WeakRefs
    BY <1>1, SharedPtrAssumption DEF Live, WeakRefs, Pointers
  <1>3. Cardinality(Live') = Cardinality(Live)
    <2>1. IsFiniteSet(Live \ {r}) /\ Cardinality(Live \ {r}) = Cardinality(Live) - 1
      BY <1>2, FiniteHolders, Counting DEF IInv
    <2>2. Cardinality(Live') = Cardinality(Live \ {r}) + 1
      BY <1>2, <2>1, Counting
    <2>3. Cardinality(Live) \in Nat
      BY FiniteHolders, Counting DEF IInv
    <2>4. QED
      BY <2>1, <2>2, <2>3
  <1>4. (IsStuck' <=> IsStuck) /\ ~IsStuck /\ block = "allocated"
    BY <1>1, <1>2 DEF IsStuck, IInv, SharedCountIsOwners, WeakCountIsReferences
  <1>5. TypeOK'
    BY <1>1, SharedPtrAssumption DEF IInv, TypeOK, Pointers
  <1>6. SharedCountIsOwners'
    BY <1>1, <1>2, <1>3, <1>4 DEF IInv, SharedCountIsOwners, Pointers
  <1>7. WeakCountIsReferences'
    BY <1>1, <1>2, <1>4 DEF IInv, WeakCountIsReferences, Pointers
  <1>8. Lifetimes'
    BY <1>1, <1>4 DEF IInv, Lifetimes, FreedBlockNeedsRevival, Pointers
  <1>9. QED
    BY <1>5, <1>6, <1>7, <1>8 DEF IInv

LEMMA MoveWeakStep ==
  ASSUME IInv, NEW r \in Weak, NEW h \in Weak, Move(r, h)
  PROVE  IInv'
  <1>1. /\ pc' \in [Pointers -> States] /\ r # h /\ r \in Pointers /\ h \in Pointers
        /\ pc[r] = "live" /\ pc[h] = "null" /\ pc'[r] = "null" /\ pc'[h] = "live"
        /\ \A g \in Pointers : g # r /\ g # h => pc'[g] = pc[g]
        /\ UNCHANGED <<impl, weak_count, object, block, revived, sawZero>>
    BY DEF Move, IInv, TypeOK, Pointers, States
  <1>2. /\ r \in WeakRefs /\ h \notin WeakRefs /\ WeakRefs' = (WeakRefs \ {r}) \cup {h}
        /\ Live' = Live
    BY <1>1, SharedPtrAssumption DEF Live, WeakRefs, Pointers
  <1>3. Cardinality(WeakRefs') = Cardinality(WeakRefs)
    <2>1. IsFiniteSet(WeakRefs \ {r}) /\ Cardinality(WeakRefs \ {r}) = Cardinality(WeakRefs) - 1
      BY <1>2, FiniteHolders, Counting DEF IInv
    <2>2. Cardinality(WeakRefs') = Cardinality(WeakRefs \ {r}) + 1
      BY <1>2, <2>1, Counting
    <2>3. Cardinality(WeakRefs) \in Nat
      BY FiniteHolders, Counting DEF IInv
    <2>4. QED
      BY <2>1, <2>2, <2>3
  <1>4. (IsStuck' <=> IsStuck) /\ block = "allocated"
    BY <1>1, <1>2 DEF IsStuck, IInv, WeakCountIsReferences
  <1>5. TypeOK'
    BY <1>1 DEF IInv, TypeOK, Pointers
  <1>6. SharedCountIsOwners'
    BY <1>1, <1>2, <1>4, SharedPtrAssumption DEF IInv, SharedCountIsOwners, Pointers
  <1>7. WeakCountIsReferences'
    BY <1>1, <1>2, <1>3, <1>4 DEF IInv, WeakCountIsReferences, Pointers
  <1>8. Lifetimes'
    BY <1>1, <1>4, SharedPtrAssumption DEF IInv, Lifetimes, FreedBlockNeedsRevival, Pointers
  <1>9. QED
    BY <1>5, <1>6, <1>7, <1>8 DEF IInv

LEMMA CopyWeakStep ==
  ASSUME IInv, NEW r \in Pointers, NEW w \in Weak, CopyWeak(r, w)
  PROVE  IInv'
  <1>1. w \in Pointers /\ w \notin Shared /\ w \notin WeakRefs /\ w \notin Live
    BY SharedPtrAssumption DEF CopyWeak, Pointers, WeakRefs, Live
  <1>2. /\ Live' = Live /\ WeakRefs' = WeakRefs \cup {w}
        /\ pc' \in [Pointers -> States] /\ pc'[w] = "live"
        /\ \A g \in Pointers : g # w => pc'[g] = pc[g]
        /\ UNCHANGED <<impl, object, block, revived, sawZero>>
        /\ weak_count' = weak_count + 1
    BY <1>1, GotoSets DEF IInv, States, CopyWeak
  <1>3. /\ Cardinality(WeakRefs') = Cardinality(WeakRefs) + 1
        /\ Cardinality(WeakRefs) \in Nat
    BY <1>1, <1>2, FiniteHolders, Counting DEF IInv
  <1>4. r \in Live \cup WeakRefs
    BY DEF CopyWeak, Live, WeakRefs, Pointers
  <1>5. block = "allocated" /\ (IsStuck' <=> IsStuck)
    BY <1>2, <1>4 DEF IInv, WeakCountIsReferences, IsStuck
  <1>6. \A h \in Pointers : pc[h] # "destroy"
    <2> SUFFICES ASSUME NEW h \in Pointers, pc[h] = "destroy" PROVE FALSE
      OBVIOUS
    <2>1. WeakRefs = {} /\ object = "disposed"
      BY DEF IInv, WeakCountIsReferences
    <2>2. Live = {}
      BY <1>5, <2>1 DEF IInv, SharedCountIsOwners
    <2>3. QED
      BY <1>4, <2>1, <2>2
  <1>7. TypeOK'
    BY <1>2 DEF IInv, TypeOK, Pointers
  <1>8. SharedCountIsOwners'
    BY <1>1, <1>2, <1>5 DEF IInv, SharedCountIsOwners, Pointers
  <1>9. WeakCountIsReferences'
    BY <1>2, <1>3, <1>5, <1>6 DEF IInv, TypeOK, WeakCountIsReferences, Pointers
  <1>10. Lifetimes'
    BY <1>1, <1>2, <1>5 DEF IInv, Lifetimes, FreedBlockNeedsRevival, Pointers
  <1>11. QED
    BY <1>7, <1>8, <1>9, <1>10 DEF IInv

LEMMA ReleaseSharedStep ==
  ASSUME IInv, NEW s \in Shared, ReleaseShared(s)
  PROVE  IInv'
  <1> DEFINE next == IF HitsZero(1) THEN "zeroed" ELSE "null"
  <1>1. s \in Live /\ s \in Pointers /\ s \notin WeakRefs /\ s \notin Weak
    BY SharedPtrAssumption DEF ReleaseShared, Live, Pointers, WeakRefs
  <1>2. ~IsStuck /\ block = "allocated" /\ object = "alive" /\ impl = Cardinality(Live)
    BY <1>1 DEF IInv, SharedCountIsOwners, WeakCountIsReferences
  <1>3. /\ Live' = Live \ {s} /\ WeakRefs' = WeakRefs
        /\ pc' \in [Pointers -> States] /\ pc'[s] = next
        /\ \A g \in Pointers : g # s => pc'[g] = pc[g]
    BY <1>1, GotoSets DEF IInv, States, ReleaseShared
  <1>4. /\ Cardinality(Live') = Cardinality(Live) - 1
        /\ Cardinality(Live) \in Nat /\ Cardinality(Live) >= 1
    BY <1>1, <1>3, FiniteHolders, Counting, ZenonT(40) DEF IInv
  <1>5. impl' = impl - 1 /\ impl' \in Nat /\ ~IsStuck'
    BY <1>2, <1>4, ZeroFlagAssumption DEF ReleaseShared, FetchSub, IsStuck
  <1>6. impl' = 0 <=> next = "zeroed"
    BY <1>2, <1>4, <1>5 DEF HitsZero
  <1>7. ~revived => \A t \in Shared : pc[t] # "zeroed"
    BY <1>2, <1>4 DEF IInv, Lifetimes
  <1>8. TypeOK'
    BY <1>1, <1>3, <1>5 DEF IInv, TypeOK, ReleaseShared, Pointers
  <1>9. SharedCountIsOwners'
    BY <1>1, <1>2, <1>3, <1>4, <1>5, <1>6 DEF IInv, SharedCountIsOwners, ReleaseShared, Pointers
  <1>10. WeakCountIsReferences'
    BY <1>1, <1>2, <1>3 DEF IInv, WeakCountIsReferences, ReleaseShared, Pointers
  <1>11. Lifetimes'
    <2>1. block' # "none" /\ object' # "none" /\ revived' = revived /\ ~sawZero'
      BY <1>2 DEF ReleaseShared, IInv, Lifetimes, TypeOK
    <2>2. FreedBlockNeedsRevival'
      BY <1>1, <1>3, <2>1 DEF IInv, Lifetimes, FreedBlockNeedsRevival
    <2>3. ASSUME ~revived', NEW t \in Shared, NEW u \in Shared, pc'[t] = "zeroed"
          PROVE  impl' = 0 /\ (pc'[u] = "zeroed" => t = u)
      BY <1>3, <1>6, <1>7, <2>1, <2>3 DEF Pointers
    <2>4. QED
      BY <2>1, <2>2, <2>3 DEF Lifetimes
  <1>12. QED
    BY <1>8, <1>9, <1>10, <1>11 DEF IInv

LEMMA StickZeroStep ==
  ASSUME IInv, NEW s \in Shared, StickZero(s)
  PROVE  IInv'
  <1> DEFINE next == IF SetsFlag THEN "dispose" ELSE "null"
  <1>1. /\ s \in Pointers /\ s \notin Weak /\ s \notin Live /\ s \notin WeakRefs
        /\ pc[s] = "zeroed" /\ block = "allocated"
    BY SharedPtrAssumption DEF StickZero, Live, WeakRefs, Pointers
  <1>2. /\ Live' = Live /\ WeakRefs' = WeakRefs
        /\ pc' \in [Pointers -> States] /\ pc'[s] = next
        /\ \A g \in Pointers : g # s => pc'[g] = pc[g]
        /\ UNCHANGED <<weak_count, object, block, revived, sawZero>>
    <2>1. Live' = Live \ {s} /\ WeakRefs' = WeakRefs \ {s}
      BY <1>1, GotoSets DEF IInv, States, StickZero
    <2>2. QED
      BY <1>1, <2>1, GotoSets DEF IInv, States, StickZero
  <1>3. TypeOK'
    BY <1>1, <1>2, ZeroFlagAssumption
    DEF IInv, TypeOK, StickZero, CasZeroFlag, Pointers
  <1>4. WeakCountIsReferences'
    BY <1>1, <1>2 DEF IInv, WeakCountIsReferences, Pointers
  <1>5. CASE SetsFlag
    <2>1. /\ impl = 0 /\ impl' = ZeroFlag /\ ~IsStuck /\ IsStuck' /\ object = "alive"
          /\ pc'[s] = "dispose"
      BY <1>1, <1>2, <1>5, ZeroFlagAssumption
      DEF StickZero, CasZeroFlag, SetsFlag, IsStuck, IInv, SharedCountIsOwners
    <2>2. Live = {}
      BY <2>1, FiniteHolders, FS_EmptySet DEF IInv, SharedCountIsOwners
    <2>3. SharedCountIsOwners'
      BY <1>1, <1>2, <2>1, <2>2 DEF IInv, SharedCountIsOwners, Pointers
    <2>4. Lifetimes'
      <3>1. FreedBlockNeedsRevival'
        BY <1>1, <1>2, <2>1 DEF IInv, Lifetimes, FreedBlockNeedsRevival
      <3>2. ASSUME ~revived', NEW t \in Shared
            PROVE  pc'[t] # "zeroed"
        BY <1>1, <1>2, <2>1, <3>2 DEF IInv, Lifetimes, Pointers
      <3>3. QED
        BY <1>1, <1>2, <2>1, <3>1, <3>2 DEF IInv, Lifetimes
    <2>5. QED
      BY <1>3, <1>4, <2>3, <2>4 DEF IInv
  <1>6. CASE ~SetsFlag
    <2>1. impl # 0 /\ impl' = impl /\ (IsStuck' <=> IsStuck) /\ pc'[s] = "null"
      BY <1>2, <1>6 DEF StickZero, CasZeroFlag, SetsFlag, IsStuck
    <2>2. SharedCountIsOwners'
      BY <1>1, <1>2, <2>1 DEF IInv, SharedCountIsOwners, Pointers
    <2>3. Lifetimes'
      BY <1>1, <1>2, <2>1 DEF IInv, Lifetimes, FreedBlockNeedsRevival, Pointers
    <2>4. QED
      BY <1>3, <1>4, <2>2, <2>3 DEF IInv
  <1>7. QED
    BY <1>5, <1>6

LEMMA DisposeStep ==
  ASSUME IInv, NEW s \in Shared, Dispose(s)
  PROVE  IInv'
  <1>1. /\ s \in Pointers /\ s \notin Weak /\ s \notin Live /\ s \notin WeakRefs
        /\ pc[s] = "dispose" /\ block = "allocated"
    BY SharedPtrAssumption DEF Dispose, Live, WeakRefs, Pointers
  <1>2. /\ Live' = Live /\ WeakRefs' = WeakRefs \cup {s}
        /\ pc' \in [Pointers -> States] /\ pc'[s] = "weak"
        /\ \A g \in Pointers : g # s => pc'[g] = pc[g]
        /\ UNCHANGED <<impl, weak_count, block, revived, sawZero>> /\ object' = "disposed"
    <2>1. Live' = Live \ {s}
      BY <1>1, GotoSets DEF IInv, States, Dispose
    <2>2. QED
      BY <1>1, <2>1, GotoSets DEF IInv, States, Dispose
  <1>3. IsStuck /\ object = "alive" /\ Live = {} /\ (IsStuck' <=> IsStuck)
    BY <1>1, <1>2 DEF IInv, SharedCountIsOwners, IsStuck
  <1>4. /\ Cardinality(WeakRefs') = Cardinality(WeakRefs) + 1
        /\ Cardinality(WeakRefs) \in Nat
    BY <1>1, <1>2, FiniteHolders, Counting DEF IInv
  <1>5. \A h \in Pointers : pc[h] # "destroy"
    BY <1>3 DEF IInv, WeakCountIsReferences
  <1>6. TypeOK'
    BY <1>1, <1>2 DEF IInv, TypeOK, Pointers
  <1>7. SharedCountIsOwners'
    BY <1>1, <1>2, <1>3 DEF IInv, SharedCountIsOwners, Pointers
  <1>8. WeakCountIsReferences'
    BY <1>1, <1>2, <1>3, <1>4, <1>5 DEF IInv, WeakCountIsReferences, Pointers
  <1>9. Lifetimes'
    BY <1>1, <1>2, <1>3 DEF IInv, Lifetimes, FreedBlockNeedsRevival, Pointers
  <1>10. QED
    BY <1>6, <1>7, <1>8, <1>9 DEF IInv

LEMMA ReleaseWeakStep ==
  ASSUME IInv, NEW w \in Weak, ReleaseWeak(w)
  PROVE  IInv'
  <1>1. /\ w \in Pointers /\ w \notin Shared /\ w \notin Live /\ w \in WeakRefs
    BY SharedPtrAssumption DEF ReleaseWeak, Live, WeakRefs, Pointers
  <1>2. /\ Live' = Live /\ WeakRefs' = WeakRefs
        /\ pc' \in [Pointers -> States] /\ pc'[w] = "weak"
        /\ \A g \in Pointers : g # w => pc'[g] = pc[g]
        /\ UNCHANGED <<impl, weak_count, object, block, revived, sawZero>>
    <2>1. Live' = Live \ {w} /\ WeakRefs' = WeakRefs \cup {w}
      BY <1>1, GotoSets DEF IInv, States, ReleaseWeak
    <2>2. QED
      BY <1>1, <2>1, GotoSets DEF IInv, States, ReleaseWeak
  <1>3. (IsStuck' <=> IsStuck) /\ block = "allocated"
    BY <1>1, <1>2 DEF IsStuck, IInv, WeakCountIsReferences
  <1>4. TypeOK'
    BY <1>2 DEF IInv, TypeOK, Pointers
  <1>5. SharedCountIsOwners'
    BY <1>1, <1>2, <1>3 DEF IInv, SharedCountIsOwners, Pointers
  <1>6. WeakCountIsReferences'
    BY <1>1, <1>2, <1>3 DEF IInv, WeakCountIsReferences, Pointers
  <1>7. Lifetimes'
    BY <1>1, <1>2, <1>3 DEF IInv, Lifetimes, FreedBlockNeedsRevival, Pointers
  <1>8. QED
    BY <1>4, <1>5, <1>6, <1>7 DEF IInv

\* A pointer that is giving up its unit of weak_count_: the count is exact, no
\* one else is destroying the block, and if it is the only reference the object
\* has been disposed of.
LEMMA Releasing ==
  ASSUME IInv, NEW h \in Pointers, pc[h] \in {"weak", "sub"}, block = "allocated"
  PROVE  /\ h \in WeakRefs /\ h \notin Live /\ (IsStuck \/ h \in Weak)
         /\ \A g \in Pointers : pc[g] # "destroy"
         /\ weak_count = Cardinality(WeakRefs) + (IF object = "alive" THEN 1 ELSE 0)
         /\ Cardinality(WeakRefs \ {h}) = Cardinality(WeakRefs) - 1
         /\ Cardinality(WeakRefs) \in Nat /\ weak_count >= 1
         /\ weak_count = 1 => WeakRefs = {h} /\ object = "disposed" /\ Live = {}
  <1>1. h \in WeakRefs /\ h \notin Live /\ (IsStuck \/ h \in Weak)
    BY DEF WeakRefs, Live, IInv, SharedCountIsOwners, Pointers
  <1>2. \A g \in Pointers : pc[g] # "destroy"
    BY <1>1 DEF IInv, WeakCountIsReferences
  <1>3. weak_count = Cardinality(WeakRefs) + (IF object = "alive" THEN 1 ELSE 0)
    BY <1>2 DEF IInv, WeakCountIsReferences
  <1>4. /\ Cardinality(WeakRefs \ {h}) = Cardinality(WeakRefs) - 1
        /\ Cardinality(WeakRefs) \in Nat /\ Cardinality(WeakRefs) >= 1
        /\ Cardinality(WeakRefs) = 1 => WeakRefs = {h}
    BY <1>1, FiniteHolders, Counting, ZenonT(40) DEF IInv
  <1>5. ASSUME weak_count = 1
        PROVE  WeakRefs = {h} /\ object = "disposed" /\ Live = {}
    <2>1. WeakRefs = {h} /\ object # "alive"
      BY <1>3, <1>4, <1>5
    <2>2. object # "none"
      BY DEF IInv, Lifetimes
    <2>3. Live = {}
      BY <2>1 DEF IInv, SharedCountIsOwners
    <2>4. QED
      BY <2>1, <2>2, <2>3 DEF IInv, TypeOK
  <1>6. QED
    BY <1>1, <1>2, <1>3, <1>4, <1>5

LEMMA LoadWeakCountStep ==
  ASSUME IInv, NEW h \in Pointers, LoadWeakCount(h)
  PROVE  IInv'
  <1> DEFINE next == IF weak_count = 1 THEN "destroy" ELSE "sub"
  <1>1. pc[h] = "weak" /\ block = "allocated"
    BY DEF LoadWeakCount
  <1>2. /\ h \in WeakRefs /\ h \notin Live /\ (IsStuck \/ h \in Weak)
        /\ \A g \in Pointers : pc[g] # "destroy"
        /\ weak_count = 1 => WeakRefs = {h} /\ object = "disposed" /\ Live = {}
    BY <1>1, Releasing
  <1>3. /\ Live' = Live /\ pc' \in [Pointers -> States] /\ pc'[h] = next
        /\ WeakRefs' = IF weak_count = 1 THEN {} ELSE WeakRefs
        /\ \A g \in Pointers : g # h => pc'[g] = pc[g]
        /\ UNCHANGED <<impl, weak_count, object, block, revived, sawZero>>
    <2>1. /\ pc' \in [Pointers -> States] /\ pc'[h] = next
          /\ \A g \in Pointers : g # h => pc'[g] = pc[g]
          /\ Live' = Live \ {h}
          /\ WeakRefs' = IF next = "sub" THEN WeakRefs \cup {h} ELSE WeakRefs \ {h}
      BY GotoSets DEF IInv, States, LoadWeakCount
    <2>2. QED
      BY <1>2, <2>1 DEF LoadWeakCount
  <1>4. IsStuck' <=> IsStuck
    BY <1>3 DEF IsStuck
  <1>5. TypeOK'
    BY <1>3 DEF IInv, TypeOK, Pointers
  <1>6. SharedCountIsOwners'
    <2>1. h \in Shared => IsStuck
      BY <1>1 DEF IInv, SharedCountIsOwners
    <2>2. QED
      BY <1>1, <1>3, <1>4, <2>1 DEF IInv, SharedCountIsOwners, Pointers
  <1>7. WeakCountIsReferences'
    <2>1. CASE weak_count = 1
      BY <1>1, <1>2, <1>3, <2>1 DEF WeakCountIsReferences
    <2>2. CASE weak_count # 1
      BY <1>1, <1>2, <1>3, <2>2 DEF IInv, WeakCountIsReferences
    <2>3. QED
      BY <2>1, <2>2
  <1>8. Lifetimes'
    BY <1>1, <1>3, <1>4 DEF IInv, Lifetimes, FreedBlockNeedsRevival, Pointers
  <1>9. QED
    BY <1>5, <1>6, <1>7, <1>8 DEF IInv

LEMMA SubWeakCountStep ==
  ASSUME IInv, NEW h \in Pointers, SubWeakCount(h)
  PROVE  IInv'
  <1> DEFINE next == IF weak_count = 1 THEN "destroy" ELSE "null"
  <1>1. pc[h] = "sub" /\ block = "allocated"
    BY DEF SubWeakCount
  <1>2. /\ h \in WeakRefs /\ h \notin Live /\ (IsStuck \/ h \in Weak)
        /\ \A g \in Pointers : pc[g] # "destroy"
        /\ weak_count = Cardinality(WeakRefs) + (IF object = "alive" THEN 1 ELSE 0)
        /\ Cardinality(WeakRefs \ {h}) = Cardinality(WeakRefs) - 1
        /\ Cardinality(WeakRefs) \in Nat /\ weak_count >= 1
        /\ weak_count = 1 => WeakRefs = {h} /\ object = "disposed" /\ Live = {}
    BY <1>1, Releasing
  <1>3. /\ Live' = Live /\ pc' \in [Pointers -> States] /\ pc'[h] = next
        /\ WeakRefs' = WeakRefs \ {h} /\ weak_count' = weak_count - 1
        /\ \A g \in Pointers : g # h => pc'[g] = pc[g]
        /\ UNCHANGED <<impl, object, block, revived, sawZero>>
    <2>1. /\ pc' \in [Pointers -> States] /\ pc'[h] = next
          /\ \A g \in Pointers : g # h => pc'[g] = pc[g]
          /\ Live' = Live \ {h} /\ WeakRefs' = WeakRefs \ {h}
      BY GotoSets DEF IInv, States, SubWeakCount
    <2>2. QED
      BY <1>2, <2>1 DEF SubWeakCount
  <1>4. IsStuck' <=> IsStuck
    BY <1>3 DEF IsStuck
  <1>5. TypeOK'
    <2>1. weak_count' \in Nat
      BY <1>2, <1>3 DEF IInv, TypeOK
    <2>2. QED
      BY <1>3, <2>1 DEF IInv, TypeOK, Pointers
  <1>6. SharedCountIsOwners'
    <2>1. h \in Shared => IsStuck
      BY <1>1 DEF IInv, SharedCountIsOwners
    <2>2. QED
      BY <1>1, <1>3, <1>4, <2>1 DEF IInv, SharedCountIsOwners, Pointers
  <1>7. WeakCountIsReferences'
    <2>1. CASE weak_count = 1
      BY <1>1, <1>2, <1>3, <2>1 DEF WeakCountIsReferences
    <2>2. CASE weak_count # 1
      <3>1. weak_count' = Cardinality(WeakRefs') + (IF object' = "alive" THEN 1 ELSE 0)
        BY <1>2, <1>3
      <3>2. QED
        BY <1>1, <1>2, <1>3, <2>2, <3>1 DEF WeakCountIsReferences
    <2>3. QED
      BY <2>1, <2>2
  <1>8. Lifetimes'
    BY <1>1, <1>3, <1>4 DEF IInv, Lifetimes, FreedBlockNeedsRevival, Pointers
  <1>9. QED
    BY <1>5, <1>6, <1>7, <1>8 DEF IInv

LEMMA DestroyStep ==
  ASSUME IInv, NEW h \in Pointers, Destroy(h)
  PROVE  IInv'
  <1>1. /\ pc[h] = "destroy" /\ block = "allocated" /\ object = "disposed" /\ WeakRefs = {}
        /\ \A g \in Pointers : pc[g] = "destroy" => g = h
        /\ h \notin Live
    BY DEF Destroy, IInv, WeakCountIsReferences, Live
  <1>2. IsStuck /\ Live = {}
    BY <1>1 DEF IInv, SharedCountIsOwners
  <1>3. /\ Live' = {} /\ WeakRefs' = {}
        /\ pc' \in [Pointers -> States] /\ pc'[h] = "null"
        /\ \A g \in Pointers : g # h => pc'[g] = pc[g]
        /\ UNCHANGED <<impl, weak_count, object, revived, sawZero>> /\ block' = "freed"
    <2>1. /\ pc' \in [Pointers -> States] /\ pc'[h] = "null"
          /\ \A g \in Pointers : g # h => pc'[g] = pc[g]
          /\ Live' = Live \ {h} /\ WeakRefs' = WeakRefs \ {h}
      BY GotoSets DEF IInv, States, Destroy
    <2>2. QED
      BY <1>1, <1>2, <2>1 DEF Destroy
  <1>4. IsStuck'
    BY <1>2, <1>3 DEF IsStuck
  <1>5. TypeOK'
    BY <1>3 DEF IInv, TypeOK, Pointers
  <1>6. SharedCountIsOwners'
    BY <1>1, <1>2, <1>3, <1>4 DEF IInv, SharedCountIsOwners, Pointers
  <1>7. WeakCountIsReferences'
    BY <1>1, <1>3 DEF WeakCountIsReferences
  <1>8. Lifetimes'
    BY <1>1, <1>3, <1>4 DEF IInv, Lifetimes, FreedBlockNeedsRevival, Pointers
  <1>9. QED
    BY <1>5, <1>6, <1>7, <1>8 DEF IInv

\* Without a revival a pointer between its fetch_sub and its compare_exchange
\* still sees 0, so the flag is not set, the object is alive and the block is
\* allocated.
LEMMA TouchFreedStep ==
  ASSUME IInv, NEW h \in Pointers, TouchFreed(h)
  PROVE  IInv'
  <1>1. /\ pc[h] \in {"zeroed", "dispose"} /\ h \in Shared /\ block = "freed"
        /\ h \notin Live /\ h \notin WeakRefs
    BY DEF TouchFreed, IInv, TypeOK, WeakCountIsReferences, WeakRefs, Live, Pointers
  <1>2. object # "alive" /\ Live = {} /\ WeakRefs = {} /\ object # "none"
    BY <1>1 DEF IInv, WeakCountIsReferences, Lifetimes
  <1>3. IsStuck
    BY <1>1, <1>2 DEF IInv, SharedCountIsOwners
  <1>4. pc[h] = "zeroed"
    BY <1>1, <1>2 DEF IInv, SharedCountIsOwners
  <1>5. revived
    BY <1>1, <1>3, <1>4, ZeroFlagAssumption DEF IInv, Lifetimes, IsStuck
  <1>6. /\ Live' = {} /\ WeakRefs' = {}
        /\ pc' \in [Pointers -> States] /\ pc'[h] = "wild"
        /\ \A g \in Pointers : g # h => pc'[g] = pc[g]
        /\ UNCHANGED <<impl, weak_count, object, block, revived, sawZero>>
    <2>1. /\ pc' \in [Pointers -> States] /\ pc'[h] = "wild"
          /\ \A g \in Pointers : g # h => pc'[g] = pc[g]
          /\ Live' = Live \ {h} /\ WeakRefs' = WeakRefs \ {h}
      BY GotoSets DEF IInv, States, TouchFreed
    <2>2. QED
      BY <1>2, <2>1 DEF TouchFreed
  <1>7. IsStuck'
    BY <1>3, <1>6 DEF IsStuck
  <1>8. TypeOK'
    BY <1>6 DEF IInv, TypeOK, Pointers
  <1>9. SharedCountIsOwners'
    BY <1>1, <1>2, <1>3, <1>4, <1>6, <1>7 DEF IInv, SharedCountIsOwners, Pointers
  <1>10. WeakCountIsReferences'
    BY <1>1, <1>2, <1>6 DEF IInv, WeakCountIsReferences, Pointers
  <1>11. Lifetimes'
    BY <1>1, <1>2, <1>5, <1>6, <1>7 DEF IInv, Lifetimes, FreedBlockNeedsRevival, Pointers
  <1>12. QED
    BY <1>8, <1>9, <1>10, <1>11 DEF IInv

LEMMA StutterStep ==
  ASSUME IInv, UNCHANGED vars
  PROVE  IInv'
  <1>1. Live' = Live /\ WeakRefs' = WeakRefs /\ (IsStuck' <=> IsStuck)
    BY DEF vars, Live, WeakRefs, IsStuck
  <1>2. TypeOK' /\ SharedCountIsOwners'
    BY <1>1 DEF vars, IInv, TypeOK, SharedCountIsOwners
  <1>3. WeakCountIsReferences' /\ Lifetimes'
    BY <1>1 DEF vars, IInv, WeakCountIsReferences, Lifetimes, FreedBlockNeedsRevival
  <1>4. QED
    BY <1>2, <1>3 DEF IInv

-----------------------------------------------------------------------------
LEMMA StepIInv == IInv /\ [Next]_vars => IInv'
  <1> SUFFICES ASSUME IInv, [Next]_vars PROVE IInv'
    OBVIOUS
  <1>1. CASE Construction
    BY <1>1, ConstructStep, ConstructThrowsStep DEF Construction
  <1>2. CASE Copying
    BY <1>2, CopySharedStep, CopyWeakStep, MoveSharedStep, MoveWeakStep DEF Copying
  <1>3. CASE Observing
    BY <1>3, LockSucceedsStep, LockFailsStep, UseCountStep DEF Observing
  <1>4. ASSUME NEW s \in Shared, SharedRelease(s) PROVE IInv'
    BY <1>4, ReleaseSharedStep, StickZeroStep, DisposeStep DEF SharedRelease
  <1>5. ASSUME NEW w \in Weak, ReleaseWeak(w) PROVE IInv'
    BY <1>5, ReleaseWeakStep
  <1>6. ASSUME NEW h \in Pointers, WeakRelease(h) PROVE IInv'
    BY <1>6, LoadWeakCountStep, SubWeakCountStep, DestroyStep, TouchFreedStep
    DEF WeakRelease
  <1>7. CASE UNCHANGED vars
    BY <1>7, StutterStep
  <1>8. QED
    BY <1>1, <1>2, <1>3, <1>4, <1>5, <1>6, <1>7 DEF Next

LEMMA Invariance == Safety => []IInv
  BY InitIInv, StepIInv, PTL DEF Safety

\* The variables keep their types: in particular neither counter goes below 0.
THEOREM TypeCorrect == Safety => []TypeOK
  <1>1. IInv => TypeOK
    BY DEF IInv
  <1>2. QED
    BY <1>1, Invariance, PTL

\* shared_count_ counts the owners until its flag is set, and exactly one
\* pointer disposes of the object.
THEOREM SharedCountCorrect == Safety => []SharedCountIsOwners
  <1>1. IInv => SharedCountIsOwners
    BY DEF IInv
  <1>2. QED
    BY <1>1, Invariance, PTL

\* weak_count_ counts the references, and the block is freed after the last.
THEOREM WeakCountCorrect == Safety => []WeakCountIsReferences
  <1>1. IInv => WeakCountIsReferences
    BY DEF IInv
  <1>2. QED
    BY <1>1, Invariance, PTL

\* Only a program in which a lock revives a count of 0 uses a freed block.
THEOREM FreedBlockCorrect == Safety => []FreedBlockNeedsRevival
  <1>1. IInv => FreedBlockNeedsRevival
    BY DEF IInv, Lifetimes
  <1>2. QED
    BY <1>1, Invariance, PTL

-----------------------------------------------------------------------------
\* A stuck count stays stuck and an observation of 0 is remembered: the only
\* step that lowers the word needs a live shared_ptr.
LEMMA StuckStep ==
  ASSUME IInv, Next
  PROVE  (IsStuck => IsStuck') /\ (sawZero => sawZero')
  <1>1. impl \in Nat /\ ZeroFlag \in Nat /\ ZeroFlag > 0
    BY ZeroFlagAssumption DEF IInv, TypeOK
  <1>2. CASE Construction
    <2>1. impl = 0 /\ ~IsStuck /\ UNCHANGED sawZero
      BY <1>1, <1>2
      DEF Construction, Construct, ConstructThrows, IInv, Lifetimes, IsStuck
    <2>2. QED
      BY <2>1
  <1>3. CASE Copying
    BY <1>1, <1>3 DEF Copying, CopyShared, CopyWeak, Move, FetchAdd, IsStuck
  <1>4. CASE Observing
    <2>1. ASSUME NEW w \in Weak, NEW s \in Shared, LockSucceeds(w, s)
          PROVE  (IsStuck => IsStuck') /\ (sawZero => sawZero')
      BY <2>1 DEF LockSucceeds
    <2>2. ASSUME NEW w \in Weak, LockFails(w)
          PROVE  (IsStuck => IsStuck') /\ (sawZero => sawZero')
      <3>1. impl' = impl + 1 /\ sawZero' = sawZero
        BY <2>2 DEF LockFails, FetchAdd
      <3>2. IsStuck => IsStuck'
        BY <1>1, <3>1 DEF IsStuck
      <3>3. QED
        BY <3>1, <3>2
    <2>3. ASSUME NEW h \in Pointers, UseCount(h)
          PROVE  (IsStuck => IsStuck') /\ (sawZero => sawZero')
      BY <2>3 DEF UseCount, IsStuck
    <2>4. QED
      BY <1>4, <2>1, <2>2, <2>3 DEF Observing
  <1>5. ASSUME NEW s \in Shared, SharedRelease(s)
        PROVE  (IsStuck => IsStuck') /\ (sawZero => sawZero')
    <2>1. CASE ReleaseShared(s)
      <3>1. s \in Live
        BY <2>1 DEF ReleaseShared, Live
      <3>2. ~IsStuck
        BY <3>1 DEF IInv, SharedCountIsOwners
      <3>3. QED
        BY <2>1, <3>2 DEF ReleaseShared
    <2>2. CASE StickZero(s)
      BY <1>1, <2>2 DEF StickZero, CasZeroFlag, SetsFlag, IsStuck
    <2>3. CASE Dispose(s)
      BY <2>3 DEF Dispose, IsStuck
    <2>4. QED
      BY <1>5, <2>1, <2>2, <2>3 DEF SharedRelease
  <1>6. ASSUME NEW w \in Weak, ReleaseWeak(w)
        PROVE  (IsStuck => IsStuck') /\ (sawZero => sawZero')
    BY <1>6 DEF ReleaseWeak, IsStuck
  <1>7. ASSUME NEW h \in Pointers, WeakRelease(h)
        PROVE  (IsStuck => IsStuck') /\ (sawZero => sawZero')
    BY <1>7 DEF WeakRelease, LoadWeakCount, SubWeakCount, Destroy, TouchFreed, IsStuck
  <1>8. QED
    BY <1>2, <1>3, <1>4, <1>5, <1>6, <1>7 DEF Next

\* A use_count() of 0 is final.
THEOREM ZeroIsFinalCorrect == Safety => ZeroIsFinal
  <1>1. ASSUME IInv, IInv', [Next]_vars
        PROVE  [sawZero => sawZero' /\ Live' \subseteq Live /\ LoadCount' = 0]_vars
    <2> SUFFICES ASSUME Next, sawZero
                 PROVE  sawZero' /\ Live' \subseteq Live /\ LoadCount' = 0
      BY <1>1
    <2>1. IsStuck
      BY <1>1 DEF IInv, Lifetimes
    <2>2. sawZero' /\ IsStuck'
      BY <1>1, <2>1, StuckStep
    <2>3. Live' = {}
      BY <1>1, <2>2 DEF IInv, SharedCountIsOwners
    <2>4. QED
      BY <2>2, <2>3 DEF LoadCount
  <1>2. QED
    BY <1>1, Invariance, PTL DEF Safety, ZeroIsFinal

-----------------------------------------------------------------------------
\* The refinement of Ownership, one step of the code at a time.

LEMMA GotoObservers ==
  ASSUME TypeOK, NEW h \in Pointers, NEW state \in States, Goto(h, state)
  PROVE  Observers' = IF h \in Weak /\ state = "live"
                      THEN Observers \cup {h} ELSE Observers \ {h}
  BY GotoSets DEF Observers, Pointers

LEMMA InitRefines == Init => Promise!Init
  <1> SUFFICES ASSUME Init PROVE Promise!Init
    OBVIOUS
  <1>1. Live = {} /\ Observers = {} /\ ObjectState = "none"
    BY DEF Init, Live, Observers, Pointers, ObjectState
  <1>2. QED
    BY <1>1 DEF Init, Promise!Init

LEMMA ConstructionRefines ==
  ASSUME IInv, IInv', Construction
  PROVE  Promise!Next
  <1>1. ASSUME ConstructThrows PROVE Promise!CreateFails
    BY <1>1 DEF ConstructThrows, Promise!CreateFails, Live, Observers, ObjectState, IsStuck
  <1>2. ASSUME NEW s \in Shared, Construct(s) PROVE Promise!Create(s)
    <2>1. \A h \in Pointers : pc[h] = "null"
      BY <1>2 DEF Construct, IInv, Lifetimes
    <2>2. s \in Pointers /\ s \notin Weak /\ Live = {} /\ Observers = {}
      BY <2>1, SharedPtrAssumption DEF Pointers, Live, Observers
    <2>3. Live' = {s} /\ Observers' = Observers
      <3>1. Live' = Live \cup {s} /\ Observers' = Observers \ {s}
        BY <1>2, <2>2, GotoSets, GotoObservers DEF IInv, States, Construct
      <3>2. QED
        BY <2>2, <3>1
    <2>4. ObjectState = "none" /\ ObjectState' = "alive"
      <3>1. ~IsStuck'
        BY <2>3 DEF IInv, SharedCountIsOwners
      <3>2. QED
        BY <1>2, <3>1 DEF Construct, ObjectState
    <2>5. QED
      BY <1>2, <2>3, <2>4 DEF Construct, Promise!Create
  <1>3. QED
    BY <1>1, <1>2 DEF Construction, Promise!Next

LEMMA CopyingRefines ==
  ASSUME IInv, IInv', Copying
  PROVE  Promise!Next
  <1>1. ASSUME NEW r \in Shared, NEW s \in Shared, CopyShared(r, s)
        PROVE  Promise!Share(r, s)
    <2>1. /\ r \in Live /\ s \notin Live /\ s \in Pointers /\ s \notin Weak
          /\ s \notin Observers
      BY <1>1, SharedPtrAssumption DEF CopyShared, Live, Pointers, Observers
    <2>2. Live' = Live \cup {s} /\ Observers' = Observers \ {s}
      BY <1>1, <2>1, GotoSets, GotoObservers DEF IInv, States, CopyShared
    <2>3. ObjectState' = ObjectState
      <3>1. ~IsStuck /\ ~IsStuck'
        BY <2>1, <2>2 DEF IInv, SharedCountIsOwners
      <3>2. QED
        BY <1>1, <3>1 DEF CopyShared, ObjectState
    <2>4. QED
      BY <1>1, <2>1, <2>2, <2>3 DEF CopyShared, Promise!Share
  <1>2. ASSUME NEW r \in Pointers, NEW w \in Weak, CopyWeak(r, w)
        PROVE  Promise!Observe(r, w)
    <2>1. /\ r \in Live \cup Observers /\ w \notin Observers /\ w \in Pointers
          /\ w \notin Shared /\ w \notin Live
      BY <1>2, SharedPtrAssumption DEF CopyWeak, Live, Pointers, Observers
    <2>2. Live' = Live \ {w} /\ Observers' = Observers \cup {w}
      BY <1>2, <2>1, GotoSets, GotoObservers DEF IInv, States, CopyWeak
    <2>3. QED
      BY <1>2, <2>1, <2>2 DEF CopyWeak, ObjectState, IsStuck, Promise!Observe
  <1>3. ASSUME NEW r \in Shared, NEW h \in Shared, Move(r, h)
        PROVE  Promise!Transfer(r, h)
    <2>1. /\ r \in Live /\ h \notin Live /\ Live' = (Live \ {r}) \cup {h}
          /\ Observers' = Observers
      BY <1>3, SharedPtrAssumption DEF Move, Live, Observers, IInv, TypeOK, Pointers
    <2>2. QED
      BY <1>3, <2>1 DEF Move, ObjectState, IsStuck, Promise!Transfer
  <1>4. ASSUME NEW r \in Weak, NEW h \in Weak, Move(r, h)
        PROVE  Promise!TransferObserver(r, h)
    <2>1. /\ r \in Observers /\ h \notin Observers
          /\ Observers' = (Observers \ {r}) \cup {h} /\ Live' = Live
      BY <1>4, SharedPtrAssumption DEF Move, Live, Observers, IInv, TypeOK, Pointers
    <2>2. QED
      BY <1>4, <2>1 DEF Move, ObjectState, IsStuck, Promise!TransferObserver
  <1>5. QED
    BY <1>1, <1>2, <1>3, <1>4 DEF Copying, Promise!Next, Pointers

LEMMA ObservingRefines ==
  ASSUME IInv, IInv', Observing
  PROVE  Promise!Next \/ UNCHANGED Promise!vars
  <1>1. ASSUME NEW w \in Weak, NEW s \in Shared, LockSucceeds(w, s)
        PROVE  Promise!Lock(w, s)
    <2>1. /\ w \in Observers /\ s \notin Live /\ s \in Pointers /\ s \notin Weak
          /\ s \notin Observers /\ w \in WeakRefs
      BY <1>1, SharedPtrAssumption DEF LockSucceeds, Live, Pointers, Observers, WeakRefs
    <2>2. Live' = Live \cup {s} /\ Observers' = Observers \ {s}
      BY <1>1, <2>1, GotoSets, GotoObservers DEF IInv, States, LockSucceeds
    <2>3. ~IsStuck /\ ~IsStuck' /\ object = "alive"
      BY <1>1, <2>1, <2>2
      DEF LockSucceeds, IInv, SharedCountIsOwners, WeakCountIsReferences
    <2>4. QED
      BY <1>1, <2>1, <2>2, <2>3 DEF LockSucceeds, ObjectState, Promise!Lock
  <1>2. ASSUME NEW w \in Weak, LockFails(w) PROVE UNCHANGED Promise!vars
    BY <1>2, ZeroFlagAssumption
    DEF LockFails, FetchAdd, IInv, TypeOK, Live, Observers, ObjectState, IsStuck, Promise!vars
  <1>3. ASSUME NEW h \in Pointers, UseCount(h) PROVE UNCHANGED Promise!vars
    BY <1>3 DEF UseCount, Live, Observers, ObjectState, IsStuck, Promise!vars
  <1>4. QED
    BY <1>1, <1>2, <1>3 DEF Observing, Promise!Next

LEMMA SharedReleaseRefines ==
  ASSUME IInv, IInv', NEW s \in Shared, SharedRelease(s)
  PROVE  Promise!Next \/ UNCHANGED Promise!vars
  <1>1. s \in Pointers /\ s \notin Weak /\ s \notin Observers
    BY SharedPtrAssumption DEF Pointers, Observers
  <1>2. ASSUME ReleaseShared(s) PROVE Promise!Drop(s)
    <2>1. s \in Live
      BY <1>2 DEF ReleaseShared, Live
    <2>2. Live' = Live \ {s} /\ Observers' = Observers \ {s}
      BY <1>1, <1>2, GotoSets, GotoObservers DEF IInv, States, ReleaseShared
    <2>3. ~IsStuck
      BY <2>1 DEF IInv, SharedCountIsOwners
    <2>4. ~IsStuck'
      BY <1>2, <2>3, ZeroFlagAssumption
      DEF ReleaseShared, FetchSub, IsStuck, IInv, TypeOK
    <2>5. QED
      BY <1>1, <1>2, <2>1, <2>2, <2>3, <2>4 DEF ReleaseShared, ObjectState, Promise!Drop
  <1>3. ASSUME StickZero(s) PROVE Promise!Expire \/ UNCHANGED Promise!vars
    <2>1. s \notin Live
      BY <1>3 DEF StickZero, Live
    <2>2. Live' = Live /\ Observers' = Observers
      <3>1. Live' = Live \ {s} /\ Observers' = Observers \ {s}
        BY <1>1, <1>3, GotoSets, GotoObservers DEF IInv, States, StickZero
      <3>2. QED
        BY <1>1, <2>1, <3>1
    <2>3. CASE SetsFlag
      <3>1. ~IsStuck /\ IsStuck' /\ object = "alive" /\ object' = object /\ block' = block
        BY <1>3, <2>3, ZeroFlagAssumption
        DEF StickZero, CasZeroFlag, SetsFlag, IsStuck, IInv, SharedCountIsOwners
      <3>2. Live = {}
        BY <2>2, <3>1 DEF IInv, SharedCountIsOwners
      <3>3. QED
        BY <2>2, <3>1, <3>2 DEF ObjectState, Promise!Expire
    <2>4. CASE ~SetsFlag
      BY <1>3, <2>2, <2>4
      DEF StickZero, CasZeroFlag, SetsFlag, IsStuck, ObjectState, Promise!vars
    <2>5. QED
      BY <2>3, <2>4
  <1>4. ASSUME Dispose(s) PROVE Promise!Dispose
    <2>1. s \notin Live
      BY <1>4 DEF Dispose, Live
    <2>2. Live' = Live /\ Observers' = Observers
      <3>1. Live' = Live \ {s} /\ Observers' = Observers \ {s}
        BY <1>1, <1>4, GotoSets, GotoObservers DEF IInv, States, Dispose
      <3>2. QED
        BY <1>1, <2>1, <3>1
    <2>3. IsStuck /\ object = "alive"
      BY <1>4 DEF Dispose, IInv, SharedCountIsOwners
    <2>4. QED
      BY <1>4, <2>2, <2>3 DEF Dispose, ObjectState, Promise!Dispose
  <1>5. QED
    BY <1>2, <1>3, <1>4 DEF SharedRelease, Promise!Next

LEMMA WeakReleaseRefines ==
  ASSUME IInv, IInv', NEW h \in Pointers, WeakRelease(h)
  PROVE  Promise!Next \/ UNCHANGED Promise!vars
  <1>1. pc[h] # "live" /\ h \notin Live /\ h \notin Observers
    BY DEF WeakRelease, LoadWeakCount, SubWeakCount, Destroy, TouchFreed, Live, Observers
  <1>2. /\ Live' = Live /\ Observers' = Observers
        /\ UNCHANGED <<impl, object>>
    <2>1. PICK state \in {"null", "sub", "destroy", "wild"} : Goto(h, state)
      BY DEF WeakRelease, LoadWeakCount, SubWeakCount, Destroy, TouchFreed
    <2>2. Live' = Live \ {h} /\ Observers' = Observers \ {h}
      BY <2>1, GotoSets, GotoObservers DEF IInv, States
    <2>3. QED
      BY <1>1, <2>2 DEF WeakRelease, LoadWeakCount, SubWeakCount, Destroy, TouchFreed
  <1>3. UNCHANGED ObjectState
    BY <1>2 DEF ObjectState, IsStuck
  <1>4. CASE Destroy(h)
    <2>1. object = "disposed" /\ WeakRefs = {}
      BY <1>4 DEF Destroy, IInv, WeakCountIsReferences
    <2>2. Observers = {} /\ ObjectState = "disposed"
      BY <2>1 DEF Observers, WeakRefs, ObjectState
    <2>3. Promise!Free
      BY <1>2, <1>3, <1>4, <2>2 DEF Destroy, Promise!Free
    <2>4. QED
      BY <2>3 DEF Promise!Next
  <1>5. CASE LoadWeakCount(h) \/ SubWeakCount(h) \/ TouchFreed(h)
    BY <1>2, <1>3, <1>5 DEF LoadWeakCount, SubWeakCount, TouchFreed, Promise!vars
  <1>6. QED
    BY <1>4, <1>5 DEF WeakRelease

LEMMA StepRefines ==
  ASSUME IInv, IInv', [Next]_vars
  PROVE  [Promise!Next]_(Promise!vars)
  <1>1. ASSUME NEW w \in Weak, ReleaseWeak(w) PROVE Promise!Forget(w)
    <2>1. w \in Pointers /\ w \notin Shared /\ w \notin Live /\ w \in Observers
      BY <1>1, SharedPtrAssumption DEF ReleaseWeak, Live, Pointers, Observers
    <2>2. Live' = Live \ {w} /\ Observers' = Observers \ {w}
      BY <1>1, <2>1, GotoSets, GotoObservers DEF IInv, States, ReleaseWeak
    <2>3. QED
      BY <1>1, <2>1, <2>2 DEF ReleaseWeak, ObjectState, IsStuck, Promise!Forget
  <1>2. CASE UNCHANGED vars
    BY <1>2 DEF vars, Live, Observers, ObjectState, IsStuck, Promise!vars
  <1>3. CASE Next
    BY <1>1, <1>3, ConstructionRefines, CopyingRefines, ObservingRefines,
       SharedReleaseRefines, WeakReleaseRefines
    DEF Next, Promise!Next
  <1>4. QED
    BY <1>2, <1>3

\* Whatever the interleaving, the counters behave as the set of owners and the
\* set of observers they stand for.
THEOREM RefinesOwnership == Safety => Promise!Safety
  BY InitRefines, StepRefines, Invariance, PTL DEF Safety, Promise!Safety

=============================================================================
