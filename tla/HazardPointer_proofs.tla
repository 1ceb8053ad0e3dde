------------------------ MODULE HazardPointer_proofs ------------------------
(***************************************************************************)
(* Theorems about module HazardPointer for any finite set of users and any *)
(* set of objects, whatever the list of slots starts with and grows to.    *)
(***************************************************************************)
EXTENDS HazardPointer, CardinalityLemmas, TLAPS

\* The place of one user.
LEMMA Placed ==
  ASSUME TypeOK, Located, NEW u \in Users, pc[u] # "idle", pc[u] = "append" => cur[u] # 0
  PROVE  cur[u] \in 1 .. n /\ cur[u] \in Slots /\ n > 0
  BY HazardPointerAssumption DEF TypeOK, Located, Slots

LEMMA TypeStep ==
  ASSUME TypeOK, Located, ReplacedOnce, CollectedBounded, Next
  PROVE  TypeOK'
  <1>1. /\ Readers \subseteq Users /\ Writers \subseteq Users
        /\ States = {"idle", "scan", "take", "next", "append", "ready", "protect", "validate",
                     "reset", "hold", "push", "collect", "sweep", "return"}
        /\ n \in Nat /\ MaxSlots \in Nat /\ \A s \in Slots : s \in Nat
        /\ Threshold \in Nat \ {0}
    BY HazardPointerAssumption DEF TypeOK, Users, Slots, States, Getting, Collecting
  <1>2. ASSUME NEW u \in Users, ScanSlot(u)
        PROVE  TypeOK'
    BY <1>1, <1>2, Placed DEF TypeOK, ScanSlot, Goto, slots, users
  <1>3. ASSUME NEW u \in Users, TakeSlot(u)
        PROVE  TypeOK'
    BY <1>1, <1>3, Placed DEF TypeOK, TakeSlot, GotSlot, Goto, slots, users
  <1>4. ASSUME NEW u \in Users, NextSlot(u)
        PROVE  TypeOK'
    BY <1>1, <1>4, Placed DEF TypeOK, NextSlot, Goto, slots, users
  <1>5. ASSUME NEW u \in Users, AppendSlot(u)
        PROVE  TypeOK'
    <2>1. /\ n' \in 0 .. MaxSlots /\ n <= n'
          /\ \E i \in 0 .. n' : cur' = [cur EXCEPT ![u] = i]
      <3>1. cur[u] \in 0 .. n /\ n \in 0 .. MaxSlots
        BY <1>5 DEF TypeOK
      <3>2. CASE cur[u] = n /\ n < MaxSlots /\ n' = n + 1 /\ cur' = [cur EXCEPT ![u] = n + 1]
        <4>1. n + 1 \in 0 .. n' /\ n' \in 0 .. MaxSlots /\ n <= n'
          BY <1>1, <3>1, <3>2
        <4>2. QED
          BY <3>2, <4>1
      <3>3. CASE n' = n /\ cur' = [cur EXCEPT ![u] = IF cur[u] = n THEN 0 ELSE cur[u] + 1]
        <4> DEFINE i == IF cur[u] = n THEN 0 ELSE cur[u] + 1
        <4>1. i \in 0 .. n' /\ n' \in 0 .. MaxSlots /\ n <= n'
          BY <1>1, <3>1, <3>3
        <4>2. cur' = [cur EXCEPT ![u] = i]
          BY <3>3
        <4> HIDE DEF i
        <4>3. QED
          BY <4>1, <4>2
      <3>4. QED
        BY <1>5, <3>2, <3>3 DEF AppendSlot
    <2>2. cur' \in [Users -> 0 .. n'] /\ pos \in [Writers -> 0 .. n']
      BY <1>1, <1>5, <2>1 DEF TypeOK
    <2>3. pc' \in [Users -> States] /\ in_use' \in [Slots -> BOOLEAN]
      BY <1>1, <1>5 DEF TypeOK, AppendSlot, GotSlot, Goto
    <2>4. QED
      BY <1>5, <2>1, <2>2, <2>3 DEF TypeOK, AppendSlot
  <1>6. ASSUME NEW r \in Readers, Make(r)
        PROVE  TypeOK'
    BY <1>1, <1>6, Placed DEF TypeOK, Make, StartGet, Goto, slots, users
  <1>7. ASSUME NEW r \in Readers, Drain(r)
        PROVE  TypeOK'
    BY <1>1, <1>7, Placed DEF TypeOK, Drain, Goto, slots, users
  <1>8. ASSUME NEW r \in Readers, LoadSource(r)
        PROVE  TypeOK'
    BY <1>1, <1>8, Placed DEF TypeOK, LoadSource, Goto, slots, users
  <1>9. ASSUME NEW r \in Readers, Protect(r)
        PROVE  TypeOK'
    BY <1>1, <1>9, Placed DEF TypeOK, Protect, StoreProtection, Goto, slots, users
  <1>10. ASSUME NEW r \in Readers, Validate(r)
        PROVE  TypeOK'
    BY <1>1, <1>10, Placed DEF TypeOK, Validate, Goto, slots, users
  <1>11. ASSUME NEW r \in Readers, Reset(r)
        PROVE  TypeOK'
    BY <1>1, <1>11, Placed DEF TypeOK, Reset, StoreProtection, Goto, slots, users
  <1>12. ASSUME NEW r \in Readers, Release(r)
        PROVE  TypeOK'
    BY <1>1, <1>12, Placed DEF TypeOK, Release, StoreProtection, Goto, slots, users
  <1>13. ASSUME NEW r \in Readers, Drop(r)
        PROVE  TypeOK'
    BY <1>1, <1>13, Placed DEF TypeOK, Drop, ReturnSlot, Goto, slots, users
  <1>14. ASSUME NEW w \in Writers, Push(w)
        PROVE  TypeOK'
    <2>1. cur[w] \in Slots /\ ptr[w] \in Objects /\ w \in Users
      BY <1>1, <1>14, Placed DEF TypeOK, Push, ReplacedOnce, Replacing
    <2>2. num_retires' \in [Slots -> 0 .. Threshold - 1] /\ pc' \in [Users -> States]
      BY <1>1, <1>14, <2>1 DEF TypeOK, Push, Goto
    <2>3. QED
      BY <1>14, <2>1, <2>2 DEF TypeOK, Push
  <1>15. ASSUME NEW w \in Writers, Collect(w)
        PROVE  TypeOK'
    <2>1. pos[w] + 1 \in 0 .. n /\ pos[w] + 1 \in Slots /\ cur[w] \in Slots
      <3>1. pc[w] = "collect" /\ w \in Users
        BY <1>1, <1>15 DEF Collect
      <3>2. cur[w] \in Slots
        BY <3>1, Placed
      <3>3. QED
        BY <1>1, <1>15, <3>2 DEF TypeOK, Collect, Slots
    <2>2. {protected_ptr[pos[w] + 1]} \ {Null} \subseteq Objects
      BY <2>1 DEF TypeOK
    <2>3. QED
      BY <1>1, <1>15, <2>1, <2>2 DEF TypeOK, Collect
  <1>16. ASSUME NEW w \in Writers, EndCollect(w)
        PROVE  TypeOK'
    BY <1>1, <1>16, Placed DEF TypeOK, EndCollect, Goto, slots, users
  <1>17. ASSUME NEW w \in Writers, EndSweep(w)
        PROVE  TypeOK'
    BY <1>1, <1>17, Placed DEF TypeOK, EndSweep, Goto, slots, users
  <1>18. ASSUME NEW w \in Writers, EndRetire(w)
        PROVE  TypeOK'
    BY <1>1, <1>18, Placed DEF TypeOK, EndRetire, ReturnSlot, Goto, slots, users
  <1>19. ASSUME NEW w \in Writers, NEW o \in Objects, Replace(w, o)
        PROVE  TypeOK'
    BY <1>1, <1>19 DEF TypeOK, Replace, StartGet, Goto, slots, users
  <1>20. ASSUME NEW w \in Writers, NEW o \in Objects, Sweep(w, o)
        PROVE  TypeOK'
    BY <1>1, <1>20 DEF TypeOK, Sweep, Goto, slots, users
  <1>21. CASE Shutdown
    <2>1. \A u \in Users : cur[u] = 0
      BY <1>21 DEF Located, Shutdown
    <2>2. \A w \in Writers : pos[w] = 0
      BY <1>1, <1>21 DEF CollectedBounded, Shutdown, Collecting
    <2>3. cur \in [Users -> 0 .. 0] /\ pos \in [Writers -> 0 .. 0]
      BY <2>1, <2>2 DEF TypeOK
    <2>4. QED
      BY <1>1, <1>21, <2>3 DEF TypeOK, Shutdown, users
  <1>22. QED
    BY <1>2, <1>3, <1>4, <1>5, <1>6, <1>7, <1>8, <1>9, <1>10, <1>11, <1>12, <1>13, <1>14, <1>15, <1>16, <1>17, <1>18, <1>19, <1>20, <1>21
       DEF Next, GetSlot, Read, Retire

LEMMA PlaceStep ==
  ASSUME TypeOK, Located, Next
  PROVE  Located'
  <1>1. /\ Users = Readers \cup Writers /\ Readers \cap Writers = {}
        /\ n \in Nat /\ \A u \in Users : cur[u] \in Nat
    BY HazardPointerAssumption DEF TypeOK, Users
  <1>2. ASSUME NEW u \in Users, ScanSlot(u)
        PROVE  Located'
    BY <1>1, <1>2 DEF TypeOK, Located, Getting, Collecting, Goto, ScanSlot, slots, users
  <1>3. ASSUME NEW u \in Users, TakeSlot(u)
        PROVE  Located'
    BY <1>1, <1>3 DEF TypeOK, Located, Getting, Collecting, Goto, TakeSlot, GotSlot, slots, users
  <1>4. ASSUME NEW u \in Users, NextSlot(u)
        PROVE  Located'
    BY <1>1, <1>4 DEF TypeOK, Located, Getting, Collecting, Goto, NextSlot, slots, users
  <1>5. ASSUME NEW u \in Users, AppendSlot(u)
        PROVE  Located'
    BY <1>1, <1>5 DEF TypeOK, Located, Getting, Collecting, Goto, AppendSlot, GotSlot, slots, users
  <1>6. ASSUME NEW r \in Readers, Make(r)
        PROVE  Located'
    BY <1>1, <1>6 DEF TypeOK, Located, Getting, Collecting, Goto, Make, StartGet, slots, users
  <1>7. ASSUME NEW r \in Readers, Drain(r)
        PROVE  Located'
    BY <1>1, <1>7 DEF TypeOK, Located, Getting, Collecting, Goto, Drain, slots, users
  <1>8. ASSUME NEW r \in Readers, LoadSource(r)
        PROVE  Located'
    BY <1>1, <1>8 DEF TypeOK, Located, Getting, Collecting, Goto, LoadSource, slots, users
  <1>9. ASSUME NEW r \in Readers, Protect(r)
        PROVE  Located'
    BY <1>1, <1>9 DEF TypeOK, Located, Getting, Collecting, Goto, Protect, StoreProtection, slots, users
  <1>10. ASSUME NEW r \in Readers, Validate(r)
        PROVE  Located'
    BY <1>1, <1>10 DEF TypeOK, Located, Getting, Collecting, Goto, Validate, slots, users
  <1>11. ASSUME NEW r \in Readers, Reset(r)
        PROVE  Located'
    BY <1>1, <1>11 DEF TypeOK, Located, Getting, Collecting, Goto, Reset, StoreProtection, slots, users
  <1>12. ASSUME NEW r \in Readers, Release(r)
        PROVE  Located'
    BY <1>1, <1>12 DEF TypeOK, Located, Getting, Collecting, Goto, Release, StoreProtection, slots, users
  <1>13. ASSUME NEW r \in Readers, Drop(r)
        PROVE  Located'
    BY <1>1, <1>13 DEF TypeOK, Located, Getting, Collecting, Goto, Drop, ReturnSlot, slots, users
  <1>14. ASSUME NEW w \in Writers, Push(w)
        PROVE  Located'
    BY <1>1, <1>14 DEF TypeOK, Located, Getting, Collecting, Goto, Push, slots, users
  <1>15. ASSUME NEW w \in Writers, Collect(w)
        PROVE  Located'
    BY <1>1, <1>15 DEF TypeOK, Located, Getting, Collecting, Goto, Collect, slots, users
  <1>16. ASSUME NEW w \in Writers, EndCollect(w)
        PROVE  Located'
    BY <1>1, <1>16 DEF TypeOK, Located, Getting, Collecting, Goto, EndCollect, slots, users
  <1>17. ASSUME NEW w \in Writers, EndSweep(w)
        PROVE  Located'
    BY <1>1, <1>17 DEF TypeOK, Located, Getting, Collecting, Goto, EndSweep, slots, users
  <1>18. ASSUME NEW w \in Writers, EndRetire(w)
        PROVE  Located'
    BY <1>1, <1>18 DEF TypeOK, Located, Getting, Collecting, Goto, EndRetire, ReturnSlot, slots, users
  <1>19. ASSUME NEW w \in Writers, NEW o \in Objects, Replace(w, o)
        PROVE  Located'
    BY <1>1, <1>19 DEF TypeOK, Located, Getting, Collecting, Goto, Replace, StartGet, slots, users
  <1>20. ASSUME NEW w \in Writers, NEW o \in Objects, Sweep(w, o)
        PROVE  Located'
    BY <1>1, <1>20 DEF TypeOK, Located, Getting, Collecting, Goto, Sweep, slots, users
  <1>21. CASE Shutdown
    BY <1>1, <1>21 DEF TypeOK, Located, Getting, Collecting, Goto, Shutdown, slots, users
  <1>22. QED
    BY <1>2, <1>3, <1>4, <1>5, <1>6, <1>7, <1>8, <1>9, <1>10, <1>11, <1>12, <1>13, <1>14, <1>15, <1>16, <1>17, <1>18, <1>19, <1>20, <1>21
       DEF Next, GetSlot, Read, Retire

\* A step that leaves every owner where it is.
LEMMA SameOwners ==
  ASSUME OneOwner, in_use' = in_use,
         \A v \in Users : (HasSlot(v)' <=> HasSlot(v)) /\ (HasSlot(v) => cur'[v] = cur[v])
  PROVE  OneOwner'
  BY DEF OneOwner, Slots

\* A step in which one user gets a slot that nobody has.
LEMMA NewOwner ==
  ASSUME OneOwner, NEW u \in Users, NEW s \in Slots, ~HasSlot(u), ~in_use[s],
         in_use' = [in_use EXCEPT ![s] = TRUE], in_use \in [Slots -> BOOLEAN],
         HasSlot(u)', cur'[u] = s,
         \A v \in Users \ {u} : (HasSlot(v)' <=> HasSlot(v)) /\ cur'[v] = cur[v]
  PROVE  OneOwner'
  <1>1. \A v \in Users : HasSlot(v) => cur[v] # s
    BY DEF OneOwner
  <1>2. ASSUME NEW v \in Users, NEW w \in Users, HasSlot(v)', HasSlot(w)', cur'[v] = cur'[w]
        PROVE  v = w
    BY <1>1, <1>2 DEF OneOwner
  <1>3. ASSUME NEW t \in Slots
        PROVE  in_use'[t] <=> \E v \in Users : HasSlot(v)' /\ cur'[v] = t
    <2>1. CASE t = s
      BY <2>1
    <2>2. CASE t # s
      BY <2>2 DEF OneOwner
    <2>3. QED
      BY <2>1, <2>2
  <1>4. QED
    BY <1>2, <1>3 DEF OneOwner

\* A step in which one user returns its slot.
LEMMA NoOwner ==
  ASSUME OneOwner, NEW u \in Users, HasSlot(u), cur[u] \in Slots,
         in_use' = [in_use EXCEPT ![cur[u]] = FALSE], in_use \in [Slots -> BOOLEAN],
         ~HasSlot(u)',
         \A v \in Users \ {u} : (HasSlot(v)' <=> HasSlot(v)) /\ cur'[v] = cur[v]
  PROVE  OneOwner'
  <1>1. \A v \in Users \ {u} : HasSlot(v) => cur[v] # cur[u]
    BY DEF OneOwner
  <1>2. ASSUME NEW v \in Users, NEW w \in Users, HasSlot(v)', HasSlot(w)', cur'[v] = cur'[w]
        PROVE  v = w
    BY <1>2 DEF OneOwner
  <1>3. ASSUME NEW t \in Slots
        PROVE  in_use'[t] <=> \E v \in Users : HasSlot(v)' /\ cur'[v] = t
    <2>1. CASE t = cur[u]
      BY <1>1, <2>1
    <2>2. CASE t # cur[u]
      BY <2>2 DEF OneOwner
    <2>3. QED
      BY <2>1, <2>2
  <1>4. QED
    BY <1>2, <1>3 DEF OneOwner

\* Slots change hands one at a time.
LEMMA OwnerStep ==
  ASSUME TypeOK, Located, OneOwner, Next
  PROVE  OneOwner'
  <1>1. /\ Readers \subseteq Users /\ Writers \subseteq Users
        /\ n \in Nat /\ \A s \in Slots : s \in Nat
        /\ \A u \in Users : cur[u] \in 0 .. n
    BY HazardPointerAssumption DEF TypeOK, Users, Slots
  <1>2. ASSUME NEW u \in Users, ScanSlot(u)
        PROVE  OneOwner'
    BY <1>1, Placed, <1>2 DEF TypeOK, OneOwner, HasSlot, Getting, Goto, ScanSlot, slots, users
  <1>3. ASSUME NEW u \in Users, TakeSlot(u)
        PROVE  OneOwner'
    <2>1. cur[u] \in Slots /\ pc[u] = "take" /\ cur' = cur
      BY <1>3, Placed DEF TakeSlot
    <2>2. PICK state \in {"next", "ready", "push"} :
             /\ pc' = [pc EXCEPT ![u] = state]
             /\ state = "next" <=> in_use[cur[u]]
      BY <1>3 DEF TakeSlot, GotSlot, Goto
    <2>3. ~HasSlot(u) /\ \A v \in Users \ {u} : (HasSlot(v)' <=> HasSlot(v))
      BY <2>1, <2>2 DEF TypeOK, HasSlot, Getting
    <2>4. HasSlot(u)' <=> state # "next"
      BY <2>2 DEF TypeOK, HasSlot, Getting
    <2>5. in_use' = [in_use EXCEPT ![cur[u]] = TRUE] /\ in_use \in [Slots -> BOOLEAN]
      BY <1>3 DEF TypeOK, TakeSlot
    <2>6. CASE state = "next"
      <3>1. in_use' = in_use
        BY <2>1, <2>2, <2>5, <2>6
      <3>2. QED
        BY <2>1, <2>3, <2>4, <2>6, <3>1, SameOwners
    <2>7. CASE state # "next"
      BY <2>1, <2>2, <2>3, <2>4, <2>5, <2>7, NewOwner
    <2>8. QED
      BY <2>6, <2>7
  <1>4. ASSUME NEW u \in Users, NextSlot(u)
        PROVE  OneOwner'
    <2>1. PICK state \in Getting : pc' = [pc EXCEPT ![u] = state]
      BY <1>4 DEF NextSlot, Goto, Getting
    <2>2. pc[u] \in Getting /\ \A v \in Users \ {u} : cur'[v] = cur[v]
      BY <1>4 DEF TypeOK, NextSlot, Getting
    <2>3. \A v \in Users : (HasSlot(v)' <=> HasSlot(v)) /\ (HasSlot(v) => cur'[v] = cur[v])
      BY <2>1, <2>2 DEF TypeOK, HasSlot
    <2>4. QED
      BY <1>4, <2>3, SameOwners DEF NextSlot, slots
  <1>5. ASSUME NEW u \in Users, AppendSlot(u)
        PROVE  OneOwner'
    <2>1. pc[u] = "append" /\ ~HasSlot(u) /\ \A v \in Users \ {u} : cur'[v] = cur[v]
      BY <1>5 DEF TypeOK, AppendSlot, HasSlot, Getting
    <2>2. CASE UNCHANGED <<in_use, pc>>
      BY <2>1, <2>2, SameOwners DEF HasSlot
    <2>3. CASE /\ n < MaxSlots /\ in_use' = [in_use EXCEPT ![n + 1] = TRUE]
               /\ cur' = [cur EXCEPT ![u] = n + 1] /\ GotSlot(u)
      <3>1. n + 1 \in Slots /\ cur'[u] = n + 1
        BY <1>1, <2>3, HazardPointerAssumption DEF TypeOK, Slots
      <3>2. HasSlot(u)' /\ \A v \in Users \ {u} : (HasSlot(v)' <=> HasSlot(v))
        BY <2>3 DEF TypeOK, GotSlot, Goto, HasSlot, Getting
      <3>3. ~in_use[n + 1]
        <4>1. \A v \in Users : cur[v] # n + 1
          BY <1>1
        <4>2. QED
          BY <3>1, <4>1 DEF OneOwner
      <3>4. in_use \in [Slots -> BOOLEAN]
        BY DEF TypeOK
      <3>5. QED
        BY <2>1, <2>3, <3>1, <3>2, <3>3, <3>4, NewOwner
    <2>4. QED
      BY <1>5, <2>2, <2>3 DEF AppendSlot
  <1>6. ASSUME NEW r \in Readers, Make(r)
        PROVE  OneOwner'
    <2>1. pc[r] = "idle" /\ pc' = [pc EXCEPT ![r] = pc'[r]] /\ pc'[r] \in Getting
      BY <1>1, <1>6 DEF TypeOK, Make, StartGet, Goto, Getting
    <2>2. \A v \in Users \ {r} : cur'[v] = cur[v]
      BY <1>1, <1>6 DEF TypeOK, Make, StartGet
    <2>3. \A v \in Users : (HasSlot(v)' <=> HasSlot(v)) /\ (HasSlot(v) => cur'[v] = cur[v])
      BY <1>1, <2>1, <2>2 DEF TypeOK, HasSlot
    <2>4. QED
      BY <1>6, <2>3, SameOwners DEF Make, StartGet, slots
  <1>7. ASSUME NEW r \in Readers, Drain(r)
        PROVE  OneOwner'
    BY <1>1, Placed, <1>7 DEF TypeOK, OneOwner, HasSlot, Getting, Goto, Drain, slots, users
  <1>8. ASSUME NEW r \in Readers, LoadSource(r)
        PROVE  OneOwner'
    BY <1>1, Placed, <1>8 DEF TypeOK, OneOwner, HasSlot, Getting, Goto, LoadSource, slots, users
  <1>9. ASSUME NEW r \in Readers, Protect(r)
        PROVE  OneOwner'
    BY <1>1, Placed, <1>9 DEF TypeOK, OneOwner, HasSlot, Getting, Goto, Protect, StoreProtection, slots, users
  <1>10. ASSUME NEW r \in Readers, Validate(r)
        PROVE  OneOwner'
    BY <1>1, Placed, <1>10 DEF TypeOK, OneOwner, HasSlot, Getting, Goto, Validate, slots, users
  <1>11. ASSUME NEW r \in Readers, Reset(r)
        PROVE  OneOwner'
    <2>1. PICK state \in {"protect", "ready"} : pc' = [pc EXCEPT ![r] = state]
      BY <1>11 DEF Reset
    <2>2. \A v \in Users : (HasSlot(v)' <=> HasSlot(v))
      BY <1>1, <1>11, <2>1 DEF TypeOK, HasSlot, Getting, Reset
    <2>3. QED
      BY <1>11, <2>2 DEF OneOwner, Reset, slots
  <1>12. ASSUME NEW r \in Readers, Release(r)
        PROVE  OneOwner'
    BY <1>1, Placed, <1>12 DEF TypeOK, OneOwner, HasSlot, Getting, Goto, Release, StoreProtection, slots, users
  <1>13. ASSUME NEW r \in Readers, Drop(r)
        PROVE  OneOwner'
    <2>1. r \in Users /\ HasSlot(r) /\ cur[r] \in Slots
      BY <1>1, <1>13, Placed DEF Drop, HasSlot, Getting
    <2>2. pc' = [pc EXCEPT ![r] = "idle"] /\ cur' = [cur EXCEPT ![r] = 0]
      BY <1>13 DEF Drop, ReturnSlot, Goto
    <2>3. ~HasSlot(r)' /\ \A v \in Users \ {r} : (HasSlot(v)' <=> HasSlot(v)) /\ cur'[v] = cur[v]
      BY <2>1, <2>2 DEF TypeOK, HasSlot
    <2>4. in_use' = [in_use EXCEPT ![cur[r]] = FALSE] /\ in_use \in [Slots -> BOOLEAN]
      BY <1>13 DEF TypeOK, Drop, ReturnSlot
    <2>5. QED
      BY <2>1, <2>3, <2>4, NoOwner
  <1>14. ASSUME NEW w \in Writers, Push(w)
        PROVE  OneOwner'
    <2>1. PICK state \in {"collect", "return"} : pc' = [pc EXCEPT ![w] = state]
      BY <1>14 DEF Push, Goto
    <2>2. \A v \in Users : (HasSlot(v)' <=> HasSlot(v))
      BY <1>1, <1>14, <2>1 DEF TypeOK, HasSlot, Getting, Push
    <2>3. QED
      BY <1>14, <2>2 DEF OneOwner, Push
  <1>15. ASSUME NEW w \in Writers, Collect(w)
        PROVE  OneOwner'
    BY <1>1, Placed, <1>15 DEF TypeOK, OneOwner, HasSlot, Getting, Goto, Collect, slots, users
  <1>16. ASSUME NEW w \in Writers, EndCollect(w)
        PROVE  OneOwner'
    BY <1>1, Placed, <1>16 DEF TypeOK, OneOwner, HasSlot, Getting, Goto, EndCollect, slots, users
  <1>17. ASSUME NEW w \in Writers, EndSweep(w)
        PROVE  OneOwner'
    BY <1>1, Placed, <1>17 DEF TypeOK, OneOwner, HasSlot, Getting, Goto, EndSweep, slots, users
  <1>18. ASSUME NEW w \in Writers, EndRetire(w)
        PROVE  OneOwner'
    <2>1. w \in Users /\ HasSlot(w) /\ cur[w] \in Slots
      BY <1>1, <1>18, Placed DEF EndRetire, HasSlot, Getting
    <2>2. pc' = [pc EXCEPT ![w] = "idle"] /\ cur' = [cur EXCEPT ![w] = 0]
      BY <1>18 DEF EndRetire, ReturnSlot, Goto
    <2>3. ~HasSlot(w)' /\ \A v \in Users \ {w} : (HasSlot(v)' <=> HasSlot(v)) /\ cur'[v] = cur[v]
      BY <2>1, <2>2 DEF TypeOK, HasSlot
    <2>4. in_use' = [in_use EXCEPT ![cur[w]] = FALSE] /\ in_use \in [Slots -> BOOLEAN]
      BY <1>18 DEF TypeOK, EndRetire, ReturnSlot
    <2>5. QED
      BY <2>1, <2>3, <2>4, NoOwner
  <1>19. ASSUME NEW w \in Writers, NEW o \in Objects, Replace(w, o)
        PROVE  OneOwner'
    <2>1. pc[w] = "idle" /\ in_use' = in_use /\ w \in Users
      BY <1>1, <1>19 DEF Replace, slots
    <2>2. ~HasSlot(w)' /\ \A v \in Users \ {w} : (HasSlot(v)' <=> HasSlot(v)) /\ cur'[v] = cur[v]
      BY <1>1, <1>19 DEF TypeOK, HasSlot, Getting, Goto, Replace, StartGet
    <2>3. ~HasSlot(w)
      BY <2>1 DEF HasSlot
    <2>4. QED
      BY <2>1, <2>2, <2>3, SameOwners
  <1>20. ASSUME NEW w \in Writers, NEW o \in Objects, Sweep(w, o)
        PROVE  OneOwner'
    BY <1>1, Placed, <1>20 DEF TypeOK, OneOwner, HasSlot, Getting, Goto, Sweep, slots, users
  <1>21. CASE Shutdown
    BY <1>1, Placed, <1>21 DEF TypeOK, OneOwner, HasSlot, Getting, Goto, Shutdown, slots, users
  <1>22. QED
    BY <1>2, <1>3, <1>4, <1>5, <1>6, <1>7, <1>8, <1>9, <1>10, <1>11, <1>12, <1>13, <1>14, <1>15, <1>16, <1>17, <1>18, <1>19, <1>20, <1>21
       DEF Next, GetSlot, Read, Retire

----------------------------------------------------------------------------
\* The bound of the list.

\* How many users there are in a set of them.
LEMMA SomeUsers ==
  ASSUME NEW S, NEW T, S \subseteq T, T \subseteq Users
  PROVE  /\ IsFiniteSet(S) /\ IsFiniteSet(T)
         /\ Cardinality(S) \in Nat /\ Cardinality(T) \in Nat
         /\ Cardinality(S) <= Cardinality(T)
  BY HazardPointerAssumption, FS_Subset, FS_CardinalityType DEF Users

LEMMA LevelType ==
  ASSUME TypeOK, NEW u \in Users
  PROVE  Level(u) \in 0 .. n + 1
  BY DEF TypeOK, Level

\* No step of a search: nobody passes a slot or goes back.
LEMMA LevelsStay ==
  ASSUME OthersBehind, n' = n, Appenders' = Appenders,
         \A u \in Users \ Appenders : Level(u)' = Level(u)
  PROVE  OthersBehind'
  <1>1. ASSUME NEW i PROVE Behind(i)' = Behind(i)
    BY DEF Behind
  <1>2. QED
    BY <1>1 DEF OthersBehind

\* A user passes a slot that another one has, or starts.
LEMMA LevelRises ==
  ASSUME TypeOK, OthersBehind, n' = n, Appenders' = Appenders,
         NEW u \in Users \ Appenders, Level(u)' = Level(u) + 1,
         \A v \in Users \ Appenders : v # u => Level(v)' = Level(v),
         Level(u) = 0 \/ \E v \in Users \ Appenders : v # u /\ Level(v) = Level(u)
  PROVE  OthersBehind'
  <1>1. \A v \in Users : Level(v) \in Nat
    BY LevelType DEF TypeOK
  <1>2. ASSUME NEW v \in Users \ Appenders, NEW i \in 1 .. Level(v)'
        PROVE  Cardinality(Behind(i)') >= i - 1
    <2>1. CASE i # Level(u) + 1
      <3>1. Behind(i)' = Behind(i)
        BY <1>1, <2>1 DEF Behind
      <3>2. i \in 1 .. Level(v)
        BY <1>1, <2>1
      <3>3. QED
        BY <3>1, <3>2 DEF OthersBehind
    <2>2. CASE i = Level(u) + 1 /\ Level(u) = 0
      <3>1. Behind(i)' \subseteq Users
        BY DEF Behind
      <3>2. QED
        BY <2>2, <3>1, SomeUsers
    <2>3. CASE i = Level(u) + 1 /\ Level(u) # 0
      <3>1. PICK x \in Users \ Appenders : x # u /\ Level(x) = Level(u)
        BY <2>3
      <3>2. Cardinality(Behind(Level(u))) >= Level(u) - 1
        BY <1>1, <2>3 DEF OthersBehind
      <3>3. Behind(Level(u)) \cup {x} \subseteq Behind(i)' /\ Behind(i)' \subseteq Users
        BY <1>1, <2>3, <3>1 DEF Behind
      <3>4. x \notin Behind(Level(u)) /\ Behind(Level(u)) \subseteq Users
        BY <1>1, <3>1 DEF Behind
      <3> DEFINE S == Behind(Level(u))
                 T == Behind(i)'
      <3> HIDE DEF S, T
      <3>5. /\ S \cup {x} \subseteq T /\ T \subseteq Users /\ x \notin S /\ S \subseteq Users
            /\ Cardinality(S) >= Level(u) - 1
        BY <3>2, <3>3, <3>4 DEF S, T
      <3>6. IsFiniteSet(S) /\ Cardinality(S \cup {x}) = Cardinality(S) + 1 /\ Cardinality(S) \in Nat
        BY <3>5, SomeUsers, Counting
      <3>7. Cardinality(T) >= Cardinality(S \cup {x}) /\ Cardinality(T) \in Nat
        BY <3>5, SomeUsers
      <3>8. Cardinality(T) >= i - 1
        BY <1>1, <2>3, <3>5, <3>6, <3>7
      <3>9. QED
        BY <3>8 DEF T
    <2>4. QED
      BY <2>1, <2>2, <2>3
  <1>3. QED
    BY <1>2 DEF OthersBehind

\* A user gives up its slot.
LEMMA LevelFalls ==
  ASSUME TypeOK, OthersBehind, n' = n, Appenders' = Appenders,
         NEW u \in Users \ Appenders, Level(u)' = 0,
         \A v \in Users \ Appenders : v # u => Level(v)' = Level(v)
  PROVE  OthersBehind'
  <1>1. ASSUME NEW v \in Users \ Appenders, NEW i \in 1 .. Level(v)'
        PROVE  Cardinality(Behind(i)') >= i - 1
    <2>1. v # u /\ i \in 1 .. Level(v)
      BY LevelType
    <2>2. Cardinality(Behind(i)) >= i - 1
      BY <2>1 DEF OthersBehind
    <2>3. Behind(i) \subseteq Behind(i)' /\ Behind(i)' \subseteq Users
      BY <2>1 DEF Behind
    <2> DEFINE S == Behind(i)
               T == Behind(i)'
    <2> HIDE DEF S, T
    <2>4. Cardinality(S) \in Nat /\ Cardinality(T) \in Nat /\ Cardinality(S) <= Cardinality(T)
      BY <2>3, SomeUsers DEF S, T
    <2>5. Cardinality(T) >= i - 1
      BY <2>2, <2>4 DEF S
    <2>6. QED
      BY <2>5 DEF T
  <1>2. QED
    BY <1>1 DEF OthersBehind

\* A user sees the end of the list.
LEMMA EndSeen ==
  ASSUME TypeOK, OthersBehind, n' = n,
         NEW u \in Users \ Appenders, Level(u) = n + 1, Appenders' = Appenders \cup {u},
         \A v \in Users \ Appenders : v # u => Level(v)' = Level(v)
  PROVE  OthersBehind'
  <1>1. n \in Nat /\ \A v \in Users : Level(v) \in 0 .. n + 1
    BY LevelType DEF TypeOK
  <1>2. ASSUME NEW v \in Users \ Appenders', NEW i \in 1 .. Level(v)'
        PROVE  Cardinality(Behind(i)') >= i - 1
    <2>1. i \in 1 .. Level(v) /\ i <= n + 1 /\ v \in Users \ Appenders
      BY <1>1
    <2>2. Behind(i)' = Behind(i)
      BY <1>1, <2>1 DEF Behind
    <2>3. QED
      BY <2>1, <2>2 DEF OthersBehind
  <1>3. Cardinality(Users \ Appenders') >= n
    <2>1. Cardinality(Behind(n + 1)) >= n
      BY <1>1 DEF OthersBehind
    <2>2. Behind(n + 1) \subseteq Users \ Appenders' /\ Users \ Appenders' \subseteq Users
      BY <1>1 DEF Behind
    <2> DEFINE S == Behind(n + 1)
               T == Users \ Appenders'
    <2> HIDE DEF S, T
    <2>3. Cardinality(S) \in Nat /\ Cardinality(T) \in Nat /\ Cardinality(S) <= Cardinality(T)
      BY <2>2, SomeUsers DEF S, T
    <2>4. Cardinality(T) >= n
      BY <1>1, <2>1, <2>3 DEF S
    <2>5. QED
      BY <2>4 DEF T
  <1>4. QED
    BY <1>2, <1>3 DEF OthersBehind

\* A user appends a slot, and has it.
LEMMA Appended ==
  ASSUME TypeOK, OthersBehind, n' = n + 1,
         NEW u \in Appenders, Appenders' = Appenders \ {u}, Level(u)' = n + 1,
         \A v \in Users \ Appenders : Level(v)' = Level(v)
  PROVE  OthersBehind' /\ n' <= Cardinality(Users)
  <1>1. n \in Nat /\ \A v \in Users : Level(v) \in 0 .. n + 1
    BY LevelType DEF TypeOK
  <1>2. u \in Users /\ Appenders \subseteq Users
    BY DEF Appenders
  <1> DEFINE S == Users \ Appenders
             T == Users \ Appenders'
  <1>3. T = S \cup {u} /\ u \notin S /\ T \subseteq Users /\ S \subseteq Users
        /\ Cardinality(S) >= n
    BY <1>2 DEF OthersBehind
  <1> HIDE DEF S, T
  <1>4. IsFiniteSet(S) /\ Cardinality(S) \in Nat
    BY <1>3, SomeUsers
  <1>5. Cardinality(T) = Cardinality(S) + 1
    BY <1>3, <1>4, Counting
  <1>6. Cardinality(T) <= Cardinality(Users) /\ Cardinality(Users) \in Nat
    BY <1>3, SomeUsers
  <1>7. ASSUME NEW v \in T, NEW i \in 1 .. Level(v)'
        PROVE  Cardinality(Behind(i)') >= i - 1
    <2>1. i <= n + 1 /\ i \in Nat
      BY <1>1, <1>3 DEF S
    <2>2. Behind(i) \subseteq Behind(i)' /\ Behind(i)' \subseteq Users
      BY DEF Behind
    <2>3. Cardinality(Behind(i)) >= i - 1
      <3>1. CASE \E x \in S : i <= Level(x)
        BY <1>1, <3>1 DEF S, OthersBehind
      <3>2. CASE \A x \in S : ~(i <= Level(x))
        <4>1. Behind(i) = S
          BY <1>1, <2>1, <3>2 DEF S, Behind
        <4>2. QED
          BY <1>1, <1>3, <1>4, <2>1, <4>1
      <3>3. QED
        BY <3>1, <3>2
    <2> DEFINE P == Behind(i)
               Q == Behind(i)'
    <2> HIDE DEF P, Q
    <2>4. Cardinality(P) \in Nat /\ Cardinality(Q) \in Nat /\ Cardinality(P) <= Cardinality(Q)
      BY <2>2, SomeUsers DEF P, Q
    <2>5. Cardinality(Q) >= i - 1
      BY <2>1, <2>3, <2>4 DEF P
    <2>6. QED
      BY <2>5 DEF Q
  <1>8. OthersBehind'
    BY <1>1, <1>3, <1>4, <1>5, <1>7 DEF T, OthersBehind
  <1>9. QED
    BY <1>1, <1>3, <1>4, <1>5, <1>6, <1>8

LEMMA BoundStep ==
  ASSUME TypeOK, Located, OneOwner, OneSlotPerUser, OthersBehind, Next
  PROVE  OthersBehind' /\ OneSlotPerUser'
  <1>1. /\ Readers \subseteq Users /\ Writers \subseteq Users
        /\ n \in Nat /\ InitialSlots \in Nat
        /\ \A u \in Users : cur[u] \in 0 .. n /\ Level(u) \in 0 .. n + 1
    BY HazardPointerAssumption, LevelType DEF TypeOK, Users
  <1>2. ASSUME n' = n PROVE OneSlotPerUser'
    BY <1>2 DEF OneSlotPerUser, Users
  \* Of the slot that a user passes there is an owner.
  <1>3. ASSUME NEW u \in Users \ Appenders, cur[u] \in Slots, in_use[cur[u]], ~HasSlot(u)
        PROVE  \E v \in Users \ Appenders : v # u /\ Level(v) = cur[u]
    BY <1>3 DEF OneOwner, HasSlot, Appenders, Level, Getting
  <1>4. ASSUME NEW u \in Users, ScanSlot(u)
        PROVE  OthersBehind' /\ OneSlotPerUser'
    <2>1. n' = n /\ Appenders' = Appenders /\ u \in Users \ Appenders
      BY <1>4 DEF TypeOK, ScanSlot, Goto, Appenders, slots
    <2>2. \A v \in Users \ Appenders : v # u => Level(v)' = Level(v)
      BY <1>4 DEF TypeOK, ScanSlot, Goto, Level
    <2>3. CASE in_use[cur[u]]
      <3>1. Level(u) = cur[u] /\ Level(u)' = Level(u) + 1 /\ ~HasSlot(u) /\ cur[u] \in Slots
        BY <1>4, <2>3, Placed DEF TypeOK, ScanSlot, Goto, Level, HasSlot, Getting
      <3>2. QED
        BY <1>2, <1>3, <2>1, <2>2, <2>3, <3>1, LevelRises
    <2>4. CASE ~in_use[cur[u]]
      <3>1. Level(u)' = Level(u)
        BY <1>4, <2>4 DEF TypeOK, ScanSlot, Goto, Level
      <3>2. QED
        BY <1>2, <2>1, <2>2, <3>1, LevelsStay
    <2>5. QED
      BY <2>3, <2>4
  <1>5. ASSUME NEW u \in Users, TakeSlot(u)
        PROVE  OthersBehind' /\ OneSlotPerUser'
    <2>1. n' = n /\ Appenders' = Appenders /\ u \in Users \ Appenders
      BY <1>5 DEF TypeOK, TakeSlot, GotSlot, Goto, Appenders
    <2>2. \A v \in Users \ Appenders : v # u => Level(v)' = Level(v)
      BY <1>5 DEF TypeOK, TakeSlot, GotSlot, Goto, Level
    <2>3. CASE in_use[cur[u]]
      <3>1. Level(u) = cur[u] /\ Level(u)' = Level(u) + 1 /\ ~HasSlot(u) /\ cur[u] \in Slots
        BY <1>5, <2>3, Placed DEF TypeOK, TakeSlot, Goto, Level, HasSlot, Getting
      <3>2. QED
        BY <1>2, <1>3, <2>1, <2>2, <2>3, <3>1, LevelRises
    <2>4. CASE ~in_use[cur[u]]
      <3>1. Level(u)' = Level(u)
        BY <1>5, <2>4 DEF TypeOK, TakeSlot, GotSlot, Goto, Level
      <3>2. QED
        BY <1>2, <2>1, <2>2, <3>1, LevelsStay
    <2>5. QED
      BY <2>3, <2>4
  <1>6. ASSUME NEW u \in Users, NextSlot(u)
        PROVE  OthersBehind' /\ OneSlotPerUser'
    <2>1. n' = n /\ u \in Users \ Appenders /\ Level(u) = cur[u] + 1
      BY <1>6 DEF NextSlot, Appenders, Level, slots
    <2>2. \A v \in Users \ Appenders : v # u => Level(v)' = Level(v)
      BY <1>6 DEF TypeOK, NextSlot, Goto, Level
    <2>3. CASE cur[u] = n
      <3>1. Appenders' = Appenders \cup {u}
        BY <1>6, <2>3 DEF TypeOK, NextSlot, Goto, Appenders
      <3>2. QED
        BY <1>2, <2>1, <2>2, <2>3, <3>1, EndSeen
    <2>4. CASE cur[u] # n
      <3>1. Appenders' = Appenders /\ Level(u)' = Level(u)
        BY <1>6, <2>1, <2>4 DEF TypeOK, NextSlot, Goto, Appenders, Level
      <3>2. QED
        BY <1>2, <2>1, <2>2, <3>1, LevelsStay
    <2>5. QED
      BY <2>3, <2>4
  <1>7. ASSUME NEW u \in Users, AppendSlot(u)
        PROVE  OthersBehind' /\ OneSlotPerUser'
    <2>1. u \in Appenders
      BY <1>7 DEF AppendSlot, Appenders
    <2>2. \A v \in Users : v # u => Level(v)' = Level(v)
      BY <1>7 DEF TypeOK, AppendSlot, GotSlot, Goto, Level
    <2>3. CASE n' = n + 1
      <3>1. Appenders' = Appenders \ {u} /\ Level(u)' = n + 1
        BY <1>7, <2>3 DEF TypeOK, AppendSlot, GotSlot, Goto, Appenders, Level
      <3>2. OthersBehind' /\ n' <= Cardinality(Users)
        BY <2>1, <2>2, <2>3, <3>1, Appended
      <3>3. QED
        BY <3>2 DEF OneSlotPerUser, Users
    <2>4. CASE n' = n
      <3>1. Appenders' = Appenders
        BY <1>7, <2>4 DEF TypeOK, AppendSlot, Appenders
      <3>2. QED
        BY <1>2, <2>1, <2>2, <2>4, <3>1, LevelsStay
    <2>5. QED
      BY <1>7, <2>3, <2>4 DEF AppendSlot
  <1>8. ASSUME NEW u \in Users, pc[u] = "idle", StartGet(u), n' = n
        PROVE  OthersBehind' /\ OneSlotPerUser'
    <2>1. Appenders' = Appenders /\ u \in Users \ Appenders
      BY <1>8 DEF TypeOK, StartGet, Goto, Appenders
    <2>2. \A v \in Users \ Appenders : v # u => Level(v)' = Level(v)
      BY <1>8 DEF TypeOK, StartGet, Goto, Level
    <2>3. Level(u) = 0 /\ Level(u)' = Level(u) + 1
      BY <1>8 DEF TypeOK, Located, StartGet, Goto, Level
    <2>4. QED
      BY <1>2, <1>8, <2>1, <2>2, <2>3, LevelRises
  <1>9. ASSUME NEW u \in Users, HasSlot(u), ReturnSlot(u)
        PROVE  OthersBehind' /\ OneSlotPerUser'
    <2>1. n' = n /\ Appenders' = Appenders /\ u \in Users \ Appenders
      BY <1>9 DEF TypeOK, HasSlot, Getting, ReturnSlot, Goto, Appenders
    <2>2. \A v \in Users \ Appenders : v # u => Level(v)' = Level(v)
      BY <1>9 DEF TypeOK, ReturnSlot, Goto, Level
    <2>3. Level(u)' = 0
      BY <1>9 DEF TypeOK, ReturnSlot, Goto, Level
    <2>4. QED
      BY <1>2, <2>1, <2>2, <2>3, LevelFalls
  \* The other steps are made by a user with a slot, which keeps it.
  <1>10. ASSUME NEW u \in Users, NEW state \in States \ (Getting \cup {"idle"}),
                pc' = [pc EXCEPT ![u] = state], HasSlot(u), cur' = cur, n' = n
         PROVE  OthersBehind' /\ OneSlotPerUser'
    <2>1. Appenders' = Appenders
      BY <1>10 DEF TypeOK, HasSlot, Getting, Appenders
    <2>2. \A v \in Users : Level(v)' = Level(v)
      BY <1>10 DEF TypeOK, HasSlot, Getting, Level
    <2>3. QED
      BY <1>2, <1>10, <2>1, <2>2, LevelsStay
  <1>11. ASSUME pc' = pc, cur' = cur, n' = n
         PROVE  OthersBehind' /\ OneSlotPerUser'
    <2>1. Appenders' = Appenders /\ \A v \in Users : Level(v)' = Level(v)
      BY <1>11 DEF Appenders, Level
    <2>2. QED
      BY <1>2, <1>11, <2>1, LevelsStay
  <1>12. \A u \in Users : pc[u] \notin Getting \cup {"idle"} => HasSlot(u)
    BY DEF HasSlot
  <1>13. States \ (Getting \cup {"idle"}) =
            {"ready", "protect", "validate", "reset", "hold", "push", "collect", "sweep", "return"}
    BY DEF States, Getting, Collecting
  <1>14. ASSUME NEW r \in Readers, Make(r) \/ Drop(r)
         PROVE  OthersBehind' /\ OneSlotPerUser'
    BY <1>1, <1>8, <1>9, <1>12, <1>14 DEF Make, Drop, Getting, slots
  <1>15. ASSUME NEW r \in Readers, LoadSource(r) \/ Protect(r) \/ Validate(r)
         PROVE  OthersBehind' /\ OneSlotPerUser'
    BY <1>1, <1>10, <1>12, <1>13, <1>15
       DEF LoadSource, Protect, Validate, Getting, Goto, slots
  <1>16. ASSUME NEW r \in Readers, Reset(r) \/ Release(r)
         PROVE  OthersBehind' /\ OneSlotPerUser'
    BY <1>1, <1>10, <1>12, <1>13, <1>16 DEF Reset, Release, Getting, Goto, slots
  <1>17. ASSUME NEW w \in Writers, Push(w) \/ EndCollect(w) \/ EndSweep(w)
         PROVE  OthersBehind' /\ OneSlotPerUser'
    BY <1>1, <1>10, <1>12, <1>13, <1>17
       DEF Push, EndCollect, EndSweep, Getting, Goto, slots
  <1>18. ASSUME NEW w \in Writers, EndRetire(w)
         PROVE  OthersBehind' /\ OneSlotPerUser'
    BY <1>1, <1>9, <1>12, <1>18 DEF EndRetire, Getting
  <1>19. ASSUME NEW w \in Writers, NEW o \in Objects, Replace(w, o)
         PROVE  OthersBehind' /\ OneSlotPerUser'
    BY <1>1, <1>8, <1>11, <1>19 DEF Replace, slots
  <1>20. ASSUME NEW r \in Readers, Drain(r)
         PROVE  OthersBehind' /\ OneSlotPerUser'
    BY <1>11, <1>20 DEF Drain
  <1>21. ASSUME NEW w \in Writers, Collect(w) \/ \E o \in Objects : Sweep(w, o)
         PROVE  OthersBehind' /\ OneSlotPerUser'
    BY <1>11, <1>21 DEF Collect, Sweep, users
  <1>22. CASE Shutdown
    <2>1. n' = 0 /\ Appenders' = {} /\ \A u \in Users : Level(u)' = 0
      BY <1>22 DEF Shutdown, Located, Appenders, Level, users
    <2>2. ASSUME NEW u \in Users \ Appenders', NEW i \in 1 .. Level(u)' PROVE FALSE
      BY <2>1
    <2>3. OthersBehind'
      BY <2>1, <2>2 DEF OthersBehind
    <2>4. QED
      BY <1>1, <2>1, <2>3 DEF OneSlotPerUser
  <1>23. QED
    BY <1>4, <1>5, <1>6, <1>7, <1>14, <1>15, <1>16, <1>17, <1>18, <1>19, <1>20, <1>21, <1>22
       DEF Next, GetSlot, Read, Retire

----------------------------------------------------------------------------
\* The objects.

LEMMA RetireStep ==
  ASSUME TypeOK, Located, ReplacedOnce, RetiredOnce, Next
  PROVE  RetiredOnce'
  <1>1. /\ n \in Nat /\ \A s \in 1 .. n : s \in Slots
        /\ \A s \in Slots : s \in Nat
        /\ Null \notin Objects /\ Users = Readers \cup Writers
    BY HazardPointerAssumption DEF TypeOK, Slots, Users
  <1>2. ASSUME NEW u \in Users, ScanSlot(u)
        PROVE  RetiredOnce'
    BY <1>1, Placed, <1>2 DEF TypeOK, RetiredOnce, ScanSlot, slots, users
  <1>3. ASSUME NEW u \in Users, TakeSlot(u)
        PROVE  RetiredOnce'
    BY <1>1, Placed, <1>3 DEF TypeOK, RetiredOnce, TakeSlot, GotSlot, slots, users
  <1>4. ASSUME NEW u \in Users, NextSlot(u)
        PROVE  RetiredOnce'
    BY <1>1, Placed, <1>4 DEF TypeOK, RetiredOnce, NextSlot, slots, users
  <1>5. ASSUME NEW u \in Users, AppendSlot(u)
        PROVE  RetiredOnce'
    BY <1>1, Placed, <1>5 DEF TypeOK, RetiredOnce, AppendSlot, GotSlot, slots, users
  <1>6. ASSUME NEW r \in Readers, Make(r)
        PROVE  RetiredOnce'
    BY <1>1, Placed, <1>6 DEF TypeOK, RetiredOnce, Make, StartGet, slots, users
  <1>7. ASSUME NEW r \in Readers, Drain(r)
        PROVE  RetiredOnce'
    BY <1>1, Placed, <1>7 DEF TypeOK, RetiredOnce, Drain, slots, users
  <1>8. ASSUME NEW r \in Readers, LoadSource(r)
        PROVE  RetiredOnce'
    BY <1>1, Placed, <1>8 DEF TypeOK, RetiredOnce, LoadSource, slots, users
  <1>9. ASSUME NEW r \in Readers, Protect(r)
        PROVE  RetiredOnce'
    BY <1>1, Placed, <1>9 DEF TypeOK, RetiredOnce, Protect, StoreProtection, slots, users
  <1>10. ASSUME NEW r \in Readers, Validate(r)
        PROVE  RetiredOnce'
    BY <1>1, Placed, <1>10 DEF TypeOK, RetiredOnce, Validate, slots, users
  <1>11. ASSUME NEW r \in Readers, Reset(r)
        PROVE  RetiredOnce'
    BY <1>1, Placed, <1>11 DEF TypeOK, RetiredOnce, Reset, StoreProtection, slots, users
  <1>12. ASSUME NEW r \in Readers, Release(r)
        PROVE  RetiredOnce'
    BY <1>1, Placed, <1>12 DEF TypeOK, RetiredOnce, Release, StoreProtection, slots, users
  <1>13. ASSUME NEW r \in Readers, Drop(r)
        PROVE  RetiredOnce'
    BY <1>1, Placed, <1>13 DEF TypeOK, RetiredOnce, Drop, ReturnSlot, slots, users
  <1>14. ASSUME NEW w \in Writers, Push(w)
        PROVE  RetiredOnce'
    <2>1. cur[w] \in 1 .. n /\ cur[w] \in Slots /\ ptr[w] \in Objects /\ life[ptr[w]] = "unlinked"
      BY <1>1, <1>14, Placed DEF TypeOK, ReplacedOnce, Replacing, Push
    <2>2. \A o \in Objects : life'[o] = IF o = ptr[w] THEN "retired" ELSE life[o]
      BY <1>14, <2>1 DEF TypeOK, Push
    <2>3. \A s \in Slots : retired_list'[s] =
                IF s = cur[w] THEN retired_list[s] \cup {ptr[w]} ELSE retired_list[s]
      BY <1>14, <2>1 DEF TypeOK, Push
    <2>4. n' = n
      BY <1>14 DEF Push
    <2>5. ASSUME NEW o \in Objects
          PROVE  life'[o] = "retired" => \E s \in 1 .. n' : o \in retired_list'[s]
      <3>1. CASE o = ptr[w]
        BY <2>1, <2>3, <2>4, <3>1
      <3>2. CASE o # ptr[w]
        <4>1. SUFFICES ASSUME life[o] = "retired"
                       PROVE  \E s \in 1 .. n : o \in retired_list'[s]
          BY <2>2, <2>4, <3>2
        <4>2. PICK s \in 1 .. n : o \in retired_list[s]
          BY <4>1 DEF RetiredOnce
        <4>3. QED
          BY <1>1, <2>3, <4>2
      <3>3. QED
        BY <3>1, <3>2
    <2>6. ASSUME NEW o \in Objects, NEW s \in Slots, NEW t \in Slots, o \in retired_list'[s]
          PROVE  life'[o] = "retired" /\ (o \in retired_list'[t] => s = t)
      <3>1. CASE o = ptr[w]
        <4>1. o \notin retired_list[s] /\ o \notin retired_list[t]
          BY <2>1, <3>1 DEF RetiredOnce
        <4>2. QED
          BY <2>2, <2>3, <2>6, <3>1, <4>1
      <3>2. CASE o # ptr[w]
        <4>1. o \in retired_list[s] /\ (o \in retired_list'[t] => o \in retired_list[t])
          BY <2>3, <2>6, <3>2
        <4>2. life[o] = "retired" /\ (o \in retired_list[t] => s = t)
          BY <4>1 DEF RetiredOnce
        <4>3. QED
          BY <2>2, <3>2, <4>1, <4>2
      <3>3. QED
        BY <3>1, <3>2
    <2>7. QED
      BY <2>5, <2>6 DEF RetiredOnce
  <1>15. ASSUME NEW w \in Writers, Collect(w)
        PROVE  RetiredOnce'
    BY <1>1, Placed, <1>15 DEF TypeOK, RetiredOnce, Collect, slots, users
  <1>16. ASSUME NEW w \in Writers, EndCollect(w)
        PROVE  RetiredOnce'
    BY <1>1, Placed, <1>16 DEF TypeOK, RetiredOnce, EndCollect, slots, users
  <1>17. ASSUME NEW w \in Writers, EndSweep(w)
        PROVE  RetiredOnce'
    BY <1>1, Placed, <1>17 DEF TypeOK, RetiredOnce, EndSweep, slots, users
  <1>18. ASSUME NEW w \in Writers, EndRetire(w)
        PROVE  RetiredOnce'
    BY <1>1, Placed, <1>18 DEF TypeOK, RetiredOnce, EndRetire, ReturnSlot, slots, users
  <1>19. ASSUME NEW w \in Writers, NEW o \in Objects, Replace(w, o)
        PROVE  RetiredOnce'
    <2>1. \A p \in Objects : life'[p] = "retired" <=> life[p] = "retired"
      BY <1>19 DEF TypeOK, ReplacedOnce, Replace
    <2>2. QED
      BY <1>19, <2>1 DEF RetiredOnce, Replace, slots
  <1>20. ASSUME NEW w \in Writers, NEW o \in Objects, Sweep(w, o)
        PROVE  RetiredOnce'
    <2>1. cur[w] \in 1 .. n /\ cur[w] \in Slots
      <3>1. pc[w] = "sweep" /\ w \in Users
        BY <1>1, <1>20 DEF Sweep
      <3>2. QED
        BY <3>1, Placed
    <2>2. QED
      BY <1>1, <1>20, <2>1 DEF TypeOK, RetiredOnce, Sweep, users
  <1>21. CASE Shutdown
    BY <1>1, Placed, <1>21 DEF TypeOK, RetiredOnce, Shutdown, slots, users
  <1>22. QED
    BY <1>2, <1>3, <1>4, <1>5, <1>6, <1>7, <1>8, <1>9, <1>10, <1>11, <1>12, <1>13, <1>14, <1>15, <1>16, <1>17, <1>18, <1>19, <1>20, <1>21
       DEF Next, GetSlot, Read, Retire

LEMMA ReplaceStep ==
  ASSUME TypeOK, Located, ReplacedOnce, RetiredOnce, Next
  PROVE  ReplacedOnce'
  <1>1. /\ n \in Nat /\ \A s \in 1 .. n : s \in Slots
        /\ \A s \in Slots : s \in Nat
        /\ Null \notin Objects
        /\ Users = Readers \cup Writers /\ Readers \cap Writers = {}
    BY HazardPointerAssumption DEF TypeOK, Slots, Users
  <1>2. ASSUME NEW u \in Users, ScanSlot(u)
        PROVE  ReplacedOnce'
    BY <1>1, <1>2 DEF TypeOK, ReplacedOnce, Replacing, Getting, Goto, ScanSlot, slots, users
  <1>3. ASSUME NEW u \in Users, TakeSlot(u)
        PROVE  ReplacedOnce'
    BY <1>1, <1>3 DEF TypeOK, ReplacedOnce, Replacing, Getting, Goto, TakeSlot, GotSlot, slots, users
  <1>4. ASSUME NEW u \in Users, NextSlot(u)
        PROVE  ReplacedOnce'
    BY <1>1, <1>4 DEF TypeOK, ReplacedOnce, Replacing, Getting, Goto, NextSlot, slots, users
  <1>5. ASSUME NEW u \in Users, AppendSlot(u)
        PROVE  ReplacedOnce'
    BY <1>1, <1>5 DEF TypeOK, ReplacedOnce, Replacing, Getting, Goto, AppendSlot, GotSlot, slots, users
  <1>6. ASSUME NEW r \in Readers, Make(r)
        PROVE  ReplacedOnce'
    BY <1>1, <1>6 DEF TypeOK, ReplacedOnce, Replacing, Getting, Goto, Make, StartGet, slots, users
  <1>7. ASSUME NEW r \in Readers, Drain(r)
        PROVE  ReplacedOnce'
    BY <1>1, <1>7 DEF TypeOK, ReplacedOnce, Replacing, Getting, Goto, Drain, slots, users
  <1>8. ASSUME NEW r \in Readers, LoadSource(r)
        PROVE  ReplacedOnce'
    BY <1>1, <1>8 DEF TypeOK, ReplacedOnce, Replacing, Getting, Goto, LoadSource, slots, users
  <1>9. ASSUME NEW r \in Readers, Protect(r)
        PROVE  ReplacedOnce'
    BY <1>1, <1>9 DEF TypeOK, ReplacedOnce, Replacing, Getting, Goto, Protect, StoreProtection, slots, users
  <1>10. ASSUME NEW r \in Readers, Validate(r)
        PROVE  ReplacedOnce'
    BY <1>1, <1>10 DEF TypeOK, ReplacedOnce, Replacing, Getting, Goto, Validate, slots, users
  <1>11. ASSUME NEW r \in Readers, Reset(r)
        PROVE  ReplacedOnce'
    BY <1>1, <1>11 DEF TypeOK, ReplacedOnce, Replacing, Getting, Goto, Reset, StoreProtection, slots, users
  <1>12. ASSUME NEW r \in Readers, Release(r)
        PROVE  ReplacedOnce'
    BY <1>1, <1>12 DEF TypeOK, ReplacedOnce, Replacing, Getting, Goto, Release, StoreProtection, slots, users
  <1>13. ASSUME NEW r \in Readers, Drop(r)
        PROVE  ReplacedOnce'
    BY <1>1, <1>13 DEF TypeOK, ReplacedOnce, Replacing, Getting, Goto, Drop, ReturnSlot, slots, users
  <1>14. ASSUME NEW w \in Writers, Push(w)
        PROVE  ReplacedOnce'
    BY <1>1, <1>14 DEF TypeOK, ReplacedOnce, Replacing, Getting, Goto, Push, slots, users
  <1>15. ASSUME NEW w \in Writers, Collect(w)
        PROVE  ReplacedOnce'
    BY <1>1, <1>15 DEF TypeOK, ReplacedOnce, Replacing, Getting, Goto, Collect, slots, users
  <1>16. ASSUME NEW w \in Writers, EndCollect(w)
        PROVE  ReplacedOnce'
    BY <1>1, <1>16 DEF TypeOK, ReplacedOnce, Replacing, Getting, Goto, EndCollect, slots, users
  <1>17. ASSUME NEW w \in Writers, EndSweep(w)
        PROVE  ReplacedOnce'
    BY <1>1, <1>17 DEF TypeOK, ReplacedOnce, Replacing, Getting, Goto, EndSweep, slots, users
  <1>18. ASSUME NEW w \in Writers, EndRetire(w)
        PROVE  ReplacedOnce'
    BY <1>1, <1>18 DEF TypeOK, ReplacedOnce, Replacing, Getting, Goto, EndRetire, ReturnSlot, slots, users
  <1>19. ASSUME NEW w \in Writers, NEW o \in Objects, Replace(w, o)
        PROVE  ReplacedOnce'
    BY <1>1, <1>19 DEF TypeOK, ReplacedOnce, Replacing, Getting, Goto, Replace, StartGet, slots, users
  <1>20. ASSUME NEW w \in Writers, NEW o \in Objects, Sweep(w, o)
        PROVE  ReplacedOnce'
    <2>1. life[o] = "retired"
      BY <1>1, <1>20, Placed DEF RetiredOnce, Sweep
    <2>2. QED
      BY <1>20, <2>1 DEF TypeOK, ReplacedOnce, Replacing, Sweep, users
  <1>21. CASE Shutdown
    <2>1. ASSUME NEW o \in Objects
          PROVE  life'[o] = "linked" <=> life[o] = "linked"
      <3>1. life'[o] = IF \E s \in 1 .. n : o \in retired_list[s] THEN "free" ELSE life[o]
        BY <1>21 DEF Shutdown
      <3>2. (\E s \in 1 .. n : o \in retired_list[s]) => life[o] = "retired"
        BY <1>1 DEF RetiredOnce
      <3>3. QED
        BY <3>1, <3>2
    <2>2. \A w \in Writers : pc'[w] = "idle"
      BY <1>1, <1>21 DEF Shutdown, users
    <2>3. QED
      BY <1>21, <2>1, <2>2 DEF ReplacedOnce, Replacing, Getting, Shutdown
  <1>22. QED
    BY <1>2, <1>3, <1>4, <1>5, <1>6, <1>7, <1>8, <1>9, <1>10, <1>11, <1>12, <1>13, <1>14, <1>15, <1>16, <1>17, <1>18, <1>19, <1>20, <1>21
       DEF Next, GetSlot, Read, Retire

----------------------------------------------------------------------------
\* The protections.

LEMMA ProtectStep ==
  ASSUME TypeOK, Located, OneOwner, Protected, Next
  PROVE  Protected'
  <1>1. /\ n \in Nat /\ \A s \in 1 .. n : s \in Slots
        /\ Null \notin Objects /\ Nothing \notin Objects \cup {Null}
        /\ Users = Readers \cup Writers /\ Readers \cap Writers = {}
    BY HazardPointerAssumption DEF TypeOK, Slots, Users
  <1>2. ASSUME NEW u \in Users, ScanSlot(u)
        PROVE  Protected'
    BY <1>1, Placed, <1>2 DEF TypeOK, Protected, HasSlot, Getting, Goto, ScanSlot, slots, users
  <1>3. ASSUME NEW u \in Users, TakeSlot(u)
        PROVE  Protected'
    BY <1>1, Placed, <1>3 DEF TypeOK, Protected, HasSlot, Getting, Goto, TakeSlot, GotSlot, slots, users
  <1>4. ASSUME NEW u \in Users, NextSlot(u)
        PROVE  Protected'
    BY <1>1, Placed, <1>4 DEF TypeOK, Protected, HasSlot, Getting, Goto, NextSlot, slots, users
  <1>5. ASSUME NEW u \in Users, AppendSlot(u)
        PROVE  Protected'
    BY <1>1, Placed, <1>5 DEF TypeOK, Protected, HasSlot, Getting, Goto, AppendSlot, GotSlot, slots, users
  <1>6. ASSUME NEW r \in Readers, Make(r)
        PROVE  Protected'
    BY <1>1, Placed, <1>6 DEF TypeOK, Protected, HasSlot, Getting, Goto, Make, StartGet, slots, users
  <1>7. ASSUME NEW r \in Readers, Drain(r)
        PROVE  Protected'
    <2>1. HasSlot(r) /\ cur[r] \in Slots
      <3>1. r \in Users /\ HasSlot(r)
        BY <1>1, <1>7 DEF Protected, Drain
      <3>2. pc[r] \notin {"idle", "append"}
        BY <3>1 DEF HasSlot, Getting
      <3>3. QED
        BY <3>1, <3>2, Placed
    <2>2. /\ protected_ptr' = [protected_ptr EXCEPT ![cur[r]] = pending[r]]
          /\ pending' = [pending EXCEPT ![r] = Nothing]
          /\ pc' = pc /\ cur' = cur /\ ptr' = ptr /\ overtook' = overtook
      BY <1>7 DEF Drain
    <2>3. CASE pc[r] = "validate" => pending[r] = ptr[r]
      <3>1. ASSUME NEW q \in Readers, q # r, HasSlot(q)
            PROVE  protected_ptr'[cur[q]] = protected_ptr[cur[q]]
        BY <1>1, <2>1, <2>2, <3>1 DEF OneOwner, TypeOK
      <3>2. \A q \in Readers : pc[q] \in {"validate", "hold"} => HasSlot(q)
        BY DEF HasSlot, Getting
      <3>3. \A q \in Readers : q # r => pending'[q] = pending[q]
        BY <2>2 DEF TypeOK
      <3>4. protected_ptr'[cur[r]] = pending[r] /\ pending'[r] = Nothing /\ pending[r] # Nothing
        BY <1>7, <2>1, <2>2 DEF TypeOK, Drain
      <3>5. HasSlot(r)' /\ \A q \in Readers : HasSlot(q)' <=> HasSlot(q)
        BY <2>1, <2>2 DEF HasSlot
      <3>6. QED
        BY <2>2, <2>3, <3>1, <3>2, <3>3, <3>4, <3>5 DEF Protected
    <2>4. QED
      BY <1>7, <2>3 DEF Protected, Drain
  <1>8. ASSUME NEW r \in Readers, LoadSource(r)
        PROVE  Protected'
    BY <1>1, Placed, <1>8 DEF TypeOK, Protected, HasSlot, Getting, Goto, LoadSource, slots, users
  <1>9. ASSUME NEW r \in Readers, Protect(r)
        PROVE  Protected'
    BY <1>1, Placed, <1>9 DEF TypeOK, Protected, HasSlot, Getting, Goto, Protect, StoreProtection, slots, users
  <1>10. ASSUME NEW r \in Readers, Validate(r)
        PROVE  Protected'
    BY <1>1, Placed, <1>10 DEF TypeOK, Protected, HasSlot, Getting, Goto, Validate, slots, users
  <1>11. ASSUME NEW r \in Readers, Reset(r)
        PROVE  Protected'
    BY <1>1, Placed, <1>11 DEF TypeOK, Protected, HasSlot, Getting, Goto, Reset, StoreProtection, slots, users
  <1>12. ASSUME NEW r \in Readers, Release(r)
        PROVE  Protected'
    BY <1>1, Placed, <1>12 DEF TypeOK, Protected, HasSlot, Getting, Goto, Release, StoreProtection, slots, users
  <1>13. ASSUME NEW r \in Readers, Drop(r)
        PROVE  Protected'
    BY <1>1, Placed, <1>13 DEF TypeOK, Protected, HasSlot, Getting, Goto, Drop, ReturnSlot, slots, users
  <1>14. ASSUME NEW w \in Writers, Push(w)
        PROVE  Protected'
    BY <1>1, Placed, <1>14 DEF TypeOK, Protected, HasSlot, Getting, Goto, Push, slots, users
  <1>15. ASSUME NEW w \in Writers, Collect(w)
        PROVE  Protected'
    BY <1>1, Placed, <1>15 DEF TypeOK, Protected, HasSlot, Getting, Goto, Collect, slots, users
  <1>16. ASSUME NEW w \in Writers, EndCollect(w)
        PROVE  Protected'
    BY <1>1, Placed, <1>16 DEF TypeOK, Protected, HasSlot, Getting, Goto, EndCollect, slots, users
  <1>17. ASSUME NEW w \in Writers, EndSweep(w)
        PROVE  Protected'
    BY <1>1, Placed, <1>17 DEF TypeOK, Protected, HasSlot, Getting, Goto, EndSweep, slots, users
  <1>18. ASSUME NEW w \in Writers, EndRetire(w)
        PROVE  Protected'
    BY <1>1, Placed, <1>18 DEF TypeOK, Protected, HasSlot, Getting, Goto, EndRetire, ReturnSlot, slots, users
  <1>19. ASSUME NEW w \in Writers, NEW o \in Objects, Replace(w, o)
        PROVE  Protected'
    BY <1>1, Placed, <1>19 DEF TypeOK, Protected, HasSlot, Getting, Goto, Replace, StartGet, slots, users
  <1>20. ASSUME NEW w \in Writers, NEW o \in Objects, Sweep(w, o)
        PROVE  Protected'
    BY <1>1, Placed, <1>20 DEF TypeOK, Protected, HasSlot, Getting, Goto, Sweep, slots, users
  <1>21. CASE Shutdown
    BY <1>1, Placed, <1>21 DEF TypeOK, Protected, HasSlot, Getting, Goto, Shutdown, slots, users
  <1>22. QED
    BY <1>2, <1>3, <1>4, <1>5, <1>6, <1>7, <1>8, <1>9, <1>10, <1>11, <1>12, <1>13, <1>14, <1>15, <1>16, <1>17, <1>18, <1>19, <1>20, <1>21
       DEF Next, GetSlot, Read, Retire

LEMMA CleanupStep ==
  ASSUME TypeOK, Located, OneOwner, Protected, RetiredOnce, ReplacedOnce,
         CollectedBounded, CleanupSees, Next
  PROVE  CleanupSees'
  <1>1. /\ n \in Nat /\ \A s \in 1 .. n : s \in Slots
        /\ Null \notin Objects /\ Nothing \notin Objects \cup {Null}
        /\ Users = Readers \cup Writers /\ Readers \cap Writers = {}
    BY HazardPointerAssumption DEF TypeOK, Slots, Users
  <1>2. ASSUME NEW u \in Users, ScanSlot(u)
        PROVE  CleanupSees'
    BY <1>1, Placed, <1>2 DEF TypeOK, CleanupSees, Protects, Collecting, Getting, Goto, ScanSlot, slots, users
  <1>3. ASSUME NEW u \in Users, TakeSlot(u)
        PROVE  CleanupSees'
    BY <1>1, Placed, <1>3 DEF TypeOK, CleanupSees, Protects, Collecting, Getting, Goto, TakeSlot, GotSlot, slots, users
  <1>4. ASSUME NEW u \in Users, NextSlot(u)
        PROVE  CleanupSees'
    BY <1>1, Placed, <1>4 DEF TypeOK, CleanupSees, Protects, Collecting, Getting, Goto, NextSlot, slots, users
  <1>5. ASSUME NEW u \in Users, AppendSlot(u)
        PROVE  CleanupSees'
    <2>1. pc[u] = "append" /\ pc'[u] \notin Collecting \cup {"hold"}
      BY <1>5 DEF TypeOK, AppendSlot, GotSlot, Goto, Collecting
    <2>2. \A v \in Users \ {u} : pc'[v] = pc[v] /\ cur'[v] = cur[v]
      BY <1>5 DEF TypeOK, AppendSlot, GotSlot, Goto
    <2>3. UNCHANGED <<ptr, pos, overtook, retired_list, protected_set>>
      BY <1>5 DEF AppendSlot
    <2>4. QED
      BY <1>1, <2>1, <2>2, <2>3 DEF CleanupSees, Protects
  <1>6. ASSUME NEW r \in Readers, Make(r)
        PROVE  CleanupSees'
    BY <1>1, Placed, <1>6 DEF TypeOK, CleanupSees, Protects, Collecting, Getting, Goto, Make, StartGet, slots, users
  <1>7. ASSUME NEW r \in Readers, Drain(r)
        PROVE  CleanupSees'
    BY <1>1, Placed, <1>7 DEF TypeOK, CleanupSees, Protects, Collecting, Getting, Goto, Drain, slots, users
  <1>8. ASSUME NEW r \in Readers, LoadSource(r)
        PROVE  CleanupSees'
    BY <1>1, Placed, <1>8 DEF TypeOK, CleanupSees, Protects, Collecting, Getting, Goto, LoadSource, slots, users
  <1>9. ASSUME NEW r \in Readers, Protect(r)
        PROVE  CleanupSees'
    BY <1>1, Placed, <1>9 DEF TypeOK, CleanupSees, Protects, Collecting, Getting, Goto, Protect, StoreProtection, slots, users
  <1>10. ASSUME NEW r \in Readers, Validate(r)
        PROVE  CleanupSees'
        <2>1. ASSUME NEW w \in Writers, pc[w] \in Collecting
          PROVE  src \notin retired_list[cur[w]]
      BY <1>1, <2>1, Placed DEF TypeOK, RetiredOnce, ReplacedOnce, Collecting
    <2>2. QED
      BY <1>1, <1>10, <2>1
         DEF TypeOK, CleanupSees, Protects, Collecting, Goto, Validate, slots
  <1>11. ASSUME NEW r \in Readers, Reset(r)
        PROVE  CleanupSees'
    BY <1>1, Placed, <1>11 DEF TypeOK, CleanupSees, Protects, Collecting, Getting, Goto, Reset, StoreProtection, slots, users
  <1>12. ASSUME NEW r \in Readers, Release(r)
        PROVE  CleanupSees'
    BY <1>1, Placed, <1>12 DEF TypeOK, CleanupSees, Protects, Collecting, Getting, Goto, Release, StoreProtection, slots, users
  <1>13. ASSUME NEW r \in Readers, Drop(r)
        PROVE  CleanupSees'
    BY <1>1, Placed, <1>13 DEF TypeOK, CleanupSees, Protects, Collecting, Getting, Goto, Drop, ReturnSlot, slots, users
  <1>14. ASSUME NEW w \in Writers, Push(w)
        PROVE  CleanupSees'
        <2>1. ASSUME NEW v \in Writers, v # w, pc[v] \in Collecting
          PROVE  cur[v] # cur[w] /\ retired_list'[cur[v]] = retired_list[cur[v]]
      <3>1. cur[v] # cur[w]
        BY <1>1, <1>14, <2>1 DEF OneOwner, HasSlot, Collecting, Getting, Push
      <3>2. QED
        BY <1>14, <3>1 DEF TypeOK, Push
    <2>2. pos[w] = 0 /\ \A q \in Readers : pc[q] = "hold" => cur[q] > 0
      BY <1>1, <1>14, Placed DEF CollectedBounded, Collecting, Push
    <2>3. pc'[w] # "sweep" /\ \A u \in Users : u # w => pc'[u] = pc[u]
      BY <1>1, <1>14 DEF TypeOK, Push, Goto
    <2>4. \A q \in Readers : Protects(q)' => Protects(q) /\ ptr'[q] = ptr[q]
      BY <1>1, <1>14, <2>3 DEF TypeOK, Push, Protects
    <2>5. protected_set' = protected_set /\ cur' = cur /\ pos' = pos
      BY <1>14 DEF Push
    <2>6. QED
      BY <1>1, <2>1, <2>2, <2>3, <2>4, <2>5 DEF CleanupSees, Collecting, Protects
  <1>15. ASSUME NEW w \in Writers, Collect(w)
        PROVE  CleanupSees'
        <2>1. cur[w] \in Slots /\ pos[w] + 1 \in Slots /\ pos[w] \in Nat
      BY <1>1, <1>15, Placed DEF TypeOK, Collect
    <2>2. /\ pc' = pc /\ cur' = cur /\ ptr' = ptr /\ overtook' = overtook
          /\ retired_list' = retired_list
          /\ pos' = [pos EXCEPT ![w] = pos[w] + 1]
          /\ protected_set' = [protected_set EXCEPT ![cur[w]] =
                protected_set[cur[w]] \cup ({protected_ptr[pos[w] + 1]} \ {Null})]
      BY <1>15 DEF Collect
    <2>3. ASSUME NEW v \in Writers, NEW q \in Readers,
                 pc[v] \in Collecting, Protects(q), ptr[q] \in retired_list[cur[v]]
          PROVE  \/ ptr[q] \in protected_set'[cur[v]]
                 \/ pc[v] = "collect" /\ pos'[v] < cur[q]
      <3>1. CASE v # w
        <4>1. pos'[v] = pos[v] /\ protected_set[cur[v]] \subseteq protected_set'[cur[v]]
          BY <2>1, <2>2, <3>1 DEF TypeOK
        <4>2. QED
          BY <2>3, <4>1 DEF CleanupSees
      <3>2. CASE v = w /\ ptr[q] \in protected_set[cur[w]]
        BY <2>1, <2>2, <3>2 DEF TypeOK
      <3>3. CASE v = w /\ pos[w] < cur[q]
        <4>1. cur[q] \in Nat /\ protected_ptr[cur[q]] = ptr[q] /\ ptr[q] # Null
          BY <1>1, <2>3 DEF TypeOK, Protected, Protects
        <4>2. pos'[w] = pos[w] + 1
              /\ protected_set'[cur[w]] =
                    protected_set[cur[w]] \cup ({protected_ptr[pos[w] + 1]} \ {Null})
          BY <2>1, <2>2 DEF TypeOK
        <4>3. pos[w] + 1 < cur[q] \/ pos[w] + 1 = cur[q]
          BY <2>1, <3>3, <4>1
        <4>4. QED
          BY <1>15, <3>3, <4>1, <4>2, <4>3 DEF Collect
      <3>4. QED
        BY <2>3, <3>1, <3>2, <3>3 DEF CleanupSees
    <2>4. QED
      BY <2>2, <2>3 DEF CleanupSees, Protects
  <1>16. ASSUME NEW w \in Writers, EndCollect(w)
        PROVE  CleanupSees'
    BY <1>1, Placed, <1>16 DEF TypeOK, CleanupSees, Protects, Collecting, Getting, Goto, EndCollect, slots, users
  <1>17. ASSUME NEW w \in Writers, EndSweep(w)
        PROVE  CleanupSees'
        <2>1. ASSUME NEW v \in Writers, v # w, pc[v] \in Collecting
          PROVE  protected_set'[cur[v]] = protected_set[cur[v]]
      <3>1. cur[v] # cur[w]
        BY <1>1, <1>17, <2>1 DEF OneOwner, HasSlot, Collecting, Getting, EndSweep
      <3>2. QED
        BY <1>17, <3>1 DEF TypeOK, EndSweep
    <2>2. pc'[w] = "return" /\ \A u \in Users : u # w => pc'[u] = pc[u]
      BY <1>1, <1>17 DEF TypeOK, EndSweep, Goto
    <2>3. /\ cur' = cur /\ ptr' = ptr /\ overtook' = overtook /\ retired_list' = retired_list
          /\ \A v \in Writers : v # w => pos'[v] = pos[v]
      BY <1>17 DEF TypeOK, EndSweep
    <2>4. \A q \in Readers : Protects(q)' <=> Protects(q)
      BY <1>1, <2>2, <2>3 DEF Protects
    <2>5. QED
      BY <1>1, <2>1, <2>2, <2>3, <2>4 DEF CleanupSees, Collecting
  <1>18. ASSUME NEW w \in Writers, EndRetire(w)
        PROVE  CleanupSees'
    BY <1>1, Placed, <1>18 DEF TypeOK, CleanupSees, Protects, Collecting, Getting, Goto, EndRetire, ReturnSlot, slots, users
  <1>19. ASSUME NEW w \in Writers, NEW o \in Objects, Replace(w, o)
        PROVE  CleanupSees'
    BY <1>1, Placed, <1>19 DEF TypeOK, CleanupSees, Protects, Collecting, Getting, Goto, Replace, StartGet, slots, users
  <1>20. ASSUME NEW w \in Writers, NEW o \in Objects, Sweep(w, o)
        PROVE  CleanupSees'
    BY <1>1, Placed, <1>20 DEF TypeOK, CleanupSees, Protects, Collecting, Getting, Goto, Sweep, slots, users
  <1>21. CASE Shutdown
    BY <1>1, Placed, <1>21 DEF TypeOK, CleanupSees, Protects, Collecting, Getting, Goto, Shutdown, slots, users
  <1>22. QED
    BY <1>2, <1>3, <1>4, <1>5, <1>6, <1>7, <1>8, <1>9, <1>10, <1>11, <1>12, <1>13, <1>14, <1>15, <1>16, <1>17, <1>18, <1>19, <1>20, <1>21
       DEF Next, GetSlot, Read, Retire

----------------------------------------------------------------------------
\* The garbage.

LEMMA CollectedStep ==
  ASSUME TypeOK, Located, OneOwner, CollectedBounded, Next
  PROVE  CollectedBounded'
  <1>1. /\ n \in Nat /\ \A s \in 1 .. n : s \in Slots
        /\ \A s \in Slots : s \in Nat
        /\ Null \notin Objects
        /\ Users = Readers \cup Writers /\ Readers \cap Writers = {}
    BY HazardPointerAssumption DEF TypeOK, Slots, Users
  <1>2. ASSUME NEW u \in Users, ScanSlot(u)
        PROVE  CollectedBounded'
    BY <1>1, Placed, <1>2 DEF TypeOK, CollectedBounded, Collecting, Getting, Goto, ScanSlot, slots, users
  <1>3. ASSUME NEW u \in Users, TakeSlot(u)
        PROVE  CollectedBounded'
    BY <1>1, Placed, <1>3 DEF TypeOK, CollectedBounded, Collecting, Getting, Goto, TakeSlot, GotSlot, slots, users
  <1>4. ASSUME NEW u \in Users, NextSlot(u)
        PROVE  CollectedBounded'
    BY <1>1, Placed, <1>4 DEF TypeOK, CollectedBounded, Collecting, Getting, Goto, NextSlot, slots, users
  <1>5. ASSUME NEW u \in Users, AppendSlot(u)
        PROVE  CollectedBounded'
    BY <1>1, Placed, <1>5 DEF TypeOK, CollectedBounded, Collecting, Getting, Goto, AppendSlot, GotSlot, slots, users
  <1>6. ASSUME NEW r \in Readers, Make(r)
        PROVE  CollectedBounded'
    BY <1>1, Placed, <1>6 DEF TypeOK, CollectedBounded, Collecting, Getting, Goto, Make, StartGet, slots, users
  <1>7. ASSUME NEW r \in Readers, Drain(r)
        PROVE  CollectedBounded'
    BY <1>1, Placed, <1>7 DEF TypeOK, CollectedBounded, Collecting, Getting, Goto, Drain, slots, users
  <1>8. ASSUME NEW r \in Readers, LoadSource(r)
        PROVE  CollectedBounded'
    BY <1>1, Placed, <1>8 DEF TypeOK, CollectedBounded, Collecting, Getting, Goto, LoadSource, slots, users
  <1>9. ASSUME NEW r \in Readers, Protect(r)
        PROVE  CollectedBounded'
    BY <1>1, Placed, <1>9 DEF TypeOK, CollectedBounded, Collecting, Getting, Goto, Protect, StoreProtection, slots, users
  <1>10. ASSUME NEW r \in Readers, Validate(r)
        PROVE  CollectedBounded'
    BY <1>1, Placed, <1>10 DEF TypeOK, CollectedBounded, Collecting, Getting, Goto, Validate, slots, users
  <1>11. ASSUME NEW r \in Readers, Reset(r)
        PROVE  CollectedBounded'
    BY <1>1, Placed, <1>11 DEF TypeOK, CollectedBounded, Collecting, Getting, Goto, Reset, StoreProtection, slots, users
  <1>12. ASSUME NEW r \in Readers, Release(r)
        PROVE  CollectedBounded'
    BY <1>1, Placed, <1>12 DEF TypeOK, CollectedBounded, Collecting, Getting, Goto, Release, StoreProtection, slots, users
  <1>13. ASSUME NEW r \in Readers, Drop(r)
        PROVE  CollectedBounded'
    BY <1>1, Placed, <1>13 DEF TypeOK, CollectedBounded, Collecting, Getting, Goto, Drop, ReturnSlot, slots, users
  <1>14. ASSUME NEW w \in Writers, Push(w)
        PROVE  CollectedBounded'
    <2>1. cur[w] \in Slots /\ cur[w] \in 1 .. n /\ w \in Users
      BY <1>1, <1>14, Placed DEF Push
    <2>2. ASSUME NEW v \in Writers, v # w, pc[v] \in Collecting
          PROVE  cur[v] # cur[w]
      BY <1>1, <1>14, <2>2 DEF OneOwner, HasSlot, Collecting, Getting, Push
    <2>3. protected_set[cur[w]] = {} /\ pos[w] = 0
      BY <1>14, <2>1, <2>2 DEF CollectedBounded, Collecting, Push
    <2>4. IsFiniteSet(retired_list[cur[w]] \cup {ptr[w]})
      <3>1. IsFiniteSet(retired_list[cur[w]])
        BY <2>1 DEF CollectedBounded
      <3>2. QED
        BY <3>1, FS_AddElement
    <2>5. /\ \A s \in Slots : IsFiniteSet(retired_list'[s])
          /\ \A s \in Slots : s > n => retired_list'[s] = {}
      BY <1>1, <1>14, <2>1, <2>4 DEF TypeOK, CollectedBounded, Push
    <2>6. pc'[w] \in {"collect", "return"} /\ \A u \in Users : u # w => pc'[u] = pc[u]
      BY <1>1, <1>14 DEF TypeOK, Push, Goto
    <2>7. protected_set' = protected_set /\ cur' = cur /\ pos' = pos /\ n' = n
      BY <1>14 DEF Push
    <2>8. pc[w] \notin Collecting
      BY <1>14 DEF Push, Collecting
    <2>9. ASSUME NEW v \in Writers
          PROVE  IF pc'[v] \in Collecting
                 THEN /\ IsFiniteSet(protected_set'[cur'[v]])
                      /\ Cardinality(protected_set'[cur'[v]]) <= pos'[v]
                 ELSE pos'[v] = 0
      <3>1. CASE v = w
        BY <2>3, <2>7, <3>1, FS_EmptySet
      <3>2. CASE v # w
        BY <1>1, <2>6, <2>7, <3>2 DEF CollectedBounded
      <3>3. QED
        BY <3>1, <3>2
    <2>10. QED
      BY <1>1, <2>5, <2>6, <2>7, <2>8, <2>9 DEF CollectedBounded
  <1>15. ASSUME NEW w \in Writers, Collect(w)
        PROVE  CollectedBounded'
    <2>1. cur[w] \in Slots /\ cur[w] \in 1 .. n /\ w \in Users
      BY <1>1, <1>15, Placed DEF Collect
    <2>2. ASSUME NEW v \in Writers, v # w, pc[v] \in Collecting
          PROVE  cur[v] # cur[w]
      BY <1>1, <1>15, <2>2 DEF OneOwner, HasSlot, Collecting, Getting, Collect
    <2>3. /\ pc' = pc /\ cur' = cur /\ retired_list' = retired_list /\ n' = n
          /\ pos' = [pos EXCEPT ![w] = pos[w] + 1]
          /\ protected_set' = [protected_set EXCEPT ![cur[w]] =
                protected_set[cur[w]] \cup ({protected_ptr[pos[w] + 1]} \ {Null})]
          /\ pc[w] \in Collecting
      BY <1>15 DEF Collect, Collecting
    <2> DEFINE S == protected_set[cur[w]]
               T == protected_set'[cur[w]]
               p == protected_ptr[pos[w] + 1]
    <2>4. T = S \/ T = S \cup {p}
      BY <2>1, <2>3 DEF TypeOK
    <2>5. IsFiniteSet(S) /\ Cardinality(S) <= pos[w] /\ pos[w] \in Nat /\ pos'[w] = pos[w] + 1
      BY <2>3 DEF TypeOK, CollectedBounded
    <2> HIDE DEF S, T, p
    <2>6. IsFiniteSet(T) /\ Cardinality(T) <= pos'[w]
      <3>1. CASE T = S
        <4>1. Cardinality(S) \in Nat
          BY <2>5, FS_CardinalityType
        <4>2. QED
          BY <2>5, <3>1, <4>1
      <3>2. CASE T = S \cup {p}
        <4>1. IsFiniteSet(T) /\ Cardinality(S) \in Nat
              /\ (Cardinality(T) = Cardinality(S) \/ Cardinality(T) = Cardinality(S) + 1)
          BY <2>5, <3>2, Counting
        <4>2. QED
          BY <2>5, <4>1
      <3>3. QED
        BY <2>4, <3>1, <3>2
    <2>7. ASSUME NEW v \in Writers
          PROVE  IF pc'[v] \in Collecting
                 THEN /\ IsFiniteSet(protected_set'[cur'[v]])
                      /\ Cardinality(protected_set'[cur'[v]]) <= pos'[v]
                 ELSE pos'[v] = 0
      <3>1. CASE v = w
        BY <2>3, <2>6, <3>1 DEF T
      <3>2. CASE v # w
        <4>1. pos'[v] = pos[v] /\ pc'[v] = pc[v] /\ cur'[v] = cur[v]
          BY <2>3, <3>2 DEF TypeOK
        <4>2. pc[v] \in Collecting => protected_set'[cur[v]] = protected_set[cur[v]]
          BY <2>2, <2>3, <3>2 DEF TypeOK
        <4>3. QED
          BY <4>1, <4>2 DEF CollectedBounded
      <3>3. QED
        BY <3>1, <3>2
    <2>8. \A s \in Slots : protected_set'[s] # {} => protected_set[s] # {} \/ s = cur[w]
      BY <2>3 DEF TypeOK
    <2>9. QED
      BY <2>3, <2>7, <2>8 DEF CollectedBounded
  <1>16. ASSUME NEW w \in Writers, EndCollect(w)
        PROVE  CollectedBounded'
    BY <1>1, Placed, <1>16 DEF TypeOK, CollectedBounded, Collecting, Getting, Goto, EndCollect, slots, users
  <1>17. ASSUME NEW w \in Writers, EndSweep(w)
        PROVE  CollectedBounded'
    <2>1. cur[w] \in Slots /\ cur[w] \in 1 .. n /\ w \in Users
      BY <1>1, <1>17, Placed DEF EndSweep
    <2>2. ASSUME NEW v \in Writers, v # w, pc[v] \in Collecting
          PROVE  cur[v] # cur[w]
      BY <1>1, <1>17, <2>2 DEF OneOwner, HasSlot, Collecting, Getting, EndSweep
    <2>3. /\ cur' = cur /\ retired_list' = retired_list /\ n' = n
          /\ pos' = [pos EXCEPT ![w] = 0]
          /\ protected_set' = [protected_set EXCEPT ![cur[w]] = {}]
          /\ pc' = [pc EXCEPT ![w] = "return"]
      BY <1>17 DEF EndSweep, Goto
    <2>4. ASSUME NEW v \in Writers
          PROVE  IF pc'[v] \in Collecting
                 THEN /\ IsFiniteSet(protected_set'[cur'[v]])
                      /\ Cardinality(protected_set'[cur'[v]]) <= pos'[v]
                 ELSE pos'[v] = 0
      <3>1. CASE v = w
        BY <1>1, <2>3, <3>1 DEF TypeOK, Collecting
      <3>2. CASE v # w
        <4>1. pos'[v] = pos[v] /\ pc'[v] = pc[v] /\ cur'[v] = cur[v]
          BY <1>1, <2>3, <3>2 DEF TypeOK
        <4>2. pc[v] \in Collecting => protected_set'[cur[v]] = protected_set[cur[v]]
          BY <2>2, <2>3, <3>2 DEF TypeOK
        <4>3. QED
          BY <4>1, <4>2 DEF CollectedBounded
      <3>3. QED
        BY <3>1, <3>2
    <2>5. ASSUME NEW s \in Slots, protected_set'[s] # {}
          PROVE  \E v \in Writers : cur'[v] = s /\ pc'[v] \in Collecting
      <3>1. s # cur[w] /\ protected_set[s] # {}
        BY <2>1, <2>3, <2>5 DEF TypeOK
      <3>2. PICK v \in Writers : cur[v] = s /\ pc[v] \in Collecting
        BY <3>1 DEF CollectedBounded
      <3>3. v # w /\ pc'[v] = pc[v]
        BY <1>1, <2>3, <3>1, <3>2 DEF TypeOK
      <3>4. QED
        BY <2>3, <3>2, <3>3
    <2>6. QED
      BY <2>3, <2>4, <2>5 DEF CollectedBounded
  <1>18. ASSUME NEW w \in Writers, EndRetire(w)
        PROVE  CollectedBounded'
    BY <1>1, Placed, <1>18 DEF TypeOK, CollectedBounded, Collecting, Getting, Goto, EndRetire, ReturnSlot, slots, users
  <1>19. ASSUME NEW w \in Writers, NEW o \in Objects, Replace(w, o)
        PROVE  CollectedBounded'
    BY <1>1, Placed, <1>19 DEF TypeOK, CollectedBounded, Collecting, Getting, Goto, Replace, StartGet, slots, users
  <1>20. ASSUME NEW w \in Writers, NEW o \in Objects, Sweep(w, o)
        PROVE  CollectedBounded'
    <2>1. cur[w] \in Slots
      BY <1>1, <1>20, Placed DEF Sweep
    <2>2. IsFiniteSet(retired_list[cur[w]] \ {o})
      BY <2>1, Counting DEF CollectedBounded
    <2>3. \A s \in Slots : IsFiniteSet(retired_list'[s]) /\ (s > n => retired_list'[s] = {})
      BY <1>20, <2>1, <2>2 DEF TypeOK, CollectedBounded, Sweep
    <2>4. QED
      BY <1>20, <2>3 DEF CollectedBounded, Sweep, users
  <1>21. CASE Shutdown
    <2>1. \A w \in Writers : pc[w] \notin Collecting
      BY <1>1, <1>21 DEF Shutdown, Collecting
    <2>2. \A s \in Slots : retired_list'[s] = {} /\ IsFiniteSet(retired_list'[s])
      BY <1>21, FS_EmptySet DEF Shutdown
    <2>3. pc' = pc /\ pos' = pos /\ cur' = cur /\ protected_set' = protected_set
      BY <1>21 DEF Shutdown, users
    <2>4. QED
      BY <2>1, <2>2, <2>3 DEF CollectedBounded
  <1>22. QED
    BY <1>2, <1>3, <1>4, <1>5, <1>6, <1>7, <1>8, <1>9, <1>10, <1>11, <1>12, <1>13, <1>14, <1>15, <1>16, <1>17, <1>18, <1>19, <1>20, <1>21
       DEF Next, GetSlot, Read, Retire

LEMMA GarbageStep ==
  ASSUME TypeOK, Located, OneOwner, CollectedBounded, GarbageBounded, Next
  PROVE  GarbageBounded'
  <1>1. /\ n \in Nat /\ \A s \in 1 .. n : s \in Slots
        /\ \A s \in Slots : s \in Nat
        /\ Null \notin Objects
        /\ Users = Readers \cup Writers /\ Readers \cap Writers = {}
    BY HazardPointerAssumption DEF TypeOK, Slots, Users
  <1>2. ASSUME NEW u \in Users, ScanSlot(u)
        PROVE  GarbageBounded'
    BY <1>1, Placed, <1>2 DEF TypeOK, GarbageBounded, Collecting, Getting, Goto, ScanSlot, slots, users
  <1>3. ASSUME NEW u \in Users, TakeSlot(u)
        PROVE  GarbageBounded'
    BY <1>1, Placed, <1>3 DEF TypeOK, GarbageBounded, Collecting, Getting, Goto, TakeSlot, GotSlot, slots, users
  <1>4. ASSUME NEW u \in Users, NextSlot(u)
        PROVE  GarbageBounded'
    BY <1>1, Placed, <1>4 DEF TypeOK, GarbageBounded, Collecting, Getting, Goto, NextSlot, slots, users
  <1>5. ASSUME NEW u \in Users, AppendSlot(u)
        PROVE  GarbageBounded'
    <2>1. n' \in {n, n + 1} /\ n' \in 0 .. MaxSlots
      <3>1. n \in 0 .. MaxSlots /\ MaxSlots \in Nat
        BY HazardPointerAssumption DEF TypeOK
      <3>2. n' = n \/ (n' = n + 1 /\ n < MaxSlots)
        BY <1>5 DEF AppendSlot
      <3>3. QED
        BY <3>1, <3>2
    <2>2. /\ retired_list' = retired_list /\ num_retires' = num_retires
          /\ pc[u] \notin Collecting /\ \A v \in Users : v # u => pc'[v] = pc[v] /\ cur'[v] = cur[v]
      BY <1>5 DEF TypeOK, AppendSlot, GotSlot, Goto, Collecting
    <2>3. ASSUME NEW s \in 1 .. n
          PROVE  \/ \E v \in Writers : cur'[v] = s /\ pc'[v] \in Collecting
                 \/ Cardinality(retired_list'[s]) <= num_retires'[s] + n'
      <3>1. CASE \E v \in Writers : cur[v] = s /\ pc[v] \in Collecting
        BY <1>1, <2>2, <3>1
      <3>2. CASE Cardinality(retired_list[s]) <= num_retires[s] + n
        <4>1. Cardinality(retired_list[s]) \in Nat
          BY <1>1, FS_CardinalityType DEF CollectedBounded
        <4>2. num_retires[s] \in Nat
          BY <1>1 DEF TypeOK
        <4>3. QED
          BY <1>1, <2>1, <2>2, <3>2, <4>1, <4>2
      <3>3. QED
        BY <3>1, <3>2 DEF GarbageBounded
    <2>4. ASSUME NEW s \in 1 .. n', s \notin 1 .. n
          PROVE  Cardinality(retired_list'[s]) <= num_retires'[s] + n'
      <3>1. s > n /\ s \in Slots
        BY <1>1, <2>1, <2>4 DEF Slots
      <3>2. Cardinality(retired_list'[s]) = 0
        BY <2>2, <3>1, FS_EmptySet DEF CollectedBounded
      <3>3. num_retires'[s] \in Nat
        BY <2>2, <3>1 DEF TypeOK
      <3>4. QED
        BY <1>1, <2>1, <3>2, <3>3
    <2>5. QED
      BY <2>3, <2>4 DEF GarbageBounded
  <1>6. ASSUME NEW r \in Readers, Make(r)
        PROVE  GarbageBounded'
    BY <1>1, Placed, <1>6 DEF TypeOK, GarbageBounded, Collecting, Getting, Goto, Make, StartGet, slots, users
  <1>7. ASSUME NEW r \in Readers, Drain(r)
        PROVE  GarbageBounded'
    BY <1>1, Placed, <1>7 DEF TypeOK, GarbageBounded, Collecting, Getting, Goto, Drain, slots, users
  <1>8. ASSUME NEW r \in Readers, LoadSource(r)
        PROVE  GarbageBounded'
    BY <1>1, Placed, <1>8 DEF TypeOK, GarbageBounded, Collecting, Getting, Goto, LoadSource, slots, users
  <1>9. ASSUME NEW r \in Readers, Protect(r)
        PROVE  GarbageBounded'
    BY <1>1, Placed, <1>9 DEF TypeOK, GarbageBounded, Collecting, Getting, Goto, Protect, StoreProtection, slots, users
  <1>10. ASSUME NEW r \in Readers, Validate(r)
        PROVE  GarbageBounded'
    BY <1>1, Placed, <1>10 DEF TypeOK, GarbageBounded, Collecting, Getting, Goto, Validate, slots, users
  <1>11. ASSUME NEW r \in Readers, Reset(r)
        PROVE  GarbageBounded'
    BY <1>1, Placed, <1>11 DEF TypeOK, GarbageBounded, Collecting, Getting, Goto, Reset, StoreProtection, slots, users
  <1>12. ASSUME NEW r \in Readers, Release(r)
        PROVE  GarbageBounded'
    BY <1>1, Placed, <1>12 DEF TypeOK, GarbageBounded, Collecting, Getting, Goto, Release, StoreProtection, slots, users
  <1>13. ASSUME NEW r \in Readers, Drop(r)
        PROVE  GarbageBounded'
    BY <1>1, Placed, <1>13 DEF TypeOK, GarbageBounded, Collecting, Getting, Goto, Drop, ReturnSlot, slots, users
  <1>14. ASSUME NEW w \in Writers, Push(w)
        PROVE  GarbageBounded'
    <2>1. cur[w] \in Slots /\ cur[w] \in 1 .. n /\ w \in Users
      BY <1>1, <1>14, Placed DEF Push
    <2>2. ASSUME NEW v \in Writers, v # w, pc[v] \in Collecting
          PROVE  cur[v] # cur[w]
      BY <1>1, <1>14, <2>2 DEF OneOwner, HasSlot, Collecting, Getting, Push
    <2>3. /\ cur' = cur /\ n' = n
          /\ retired_list' = [retired_list EXCEPT ![cur[w]] = retired_list[cur[w]] \cup {ptr[w]}]
          /\ \A u \in Users : u # w => pc'[u] = pc[u]
          /\ pc[w] \notin Collecting
      BY <1>1, <1>14 DEF TypeOK, Push, Goto, Collecting
    <2>4. ASSUME NEW s \in 1 .. n, s # cur[w]
          PROVE  \/ \E v \in Writers : cur'[v] = s /\ pc'[v] \in Collecting
                 \/ Cardinality(retired_list'[s]) <= num_retires'[s] + n'
      <3>1. retired_list'[s] = retired_list[s] /\ num_retires'[s] = num_retires[s]
        BY <1>1, <1>14, <2>3, <2>4 DEF TypeOK, Push
      <3>2. QED
        BY <1>1, <2>3, <3>1 DEF GarbageBounded
    <2>5. CASE num_retires[cur[w]] + 1 >= Threshold
      <3>1. pc'[w] \in Collecting
        BY <1>1, <1>14, <2>5 DEF TypeOK, Push, Goto, Collecting
      <3>2. QED
        BY <2>3, <2>4, <3>1 DEF GarbageBounded
    <2>6. CASE ~(num_retires[cur[w]] + 1 >= Threshold)
      <3>1. num_retires'[cur[w]] = num_retires[cur[w]] + 1 /\ num_retires[cur[w]] \in Nat
        BY <1>14, <2>1, <2>6 DEF TypeOK, Push
      <3>2. Cardinality(retired_list[cur[w]]) <= num_retires[cur[w]] + n
        BY <2>1, <2>2, <2>3 DEF GarbageBounded
      <3>3. IsFiniteSet(retired_list[cur[w]])
        BY <2>1 DEF CollectedBounded
      <3>4. retired_list'[cur[w]] = retired_list[cur[w]] \cup {ptr[w]}
        BY <2>1, <2>3 DEF TypeOK
      <3> DEFINE S == retired_list[cur[w]]
                 T == retired_list'[cur[w]]
                 x == ptr[w]
      <3>5. IsFiniteSet(S) /\ T = S \cup {x}
        BY <3>3, <3>4
      <3> HIDE DEF S, T, x
      <3>6. Cardinality(S) \in Nat /\ Cardinality(T) <= Cardinality(S) + 1 /\ Cardinality(T) \in Nat
        <4>1. Cardinality(S) \in Nat /\ (x \in S => T = S)
              /\ (x \notin S => Cardinality(S \cup {x}) = Cardinality(S) + 1)
          <5>1. x \in S => T = S
            BY <3>5
          <5>2. QED
            BY <3>5, <5>1, Counting
        <4>2. QED
          BY <3>5, <4>1
      <3>7. Cardinality(T) <= num_retires'[cur[w]] + n'
        BY <1>1, <2>3, <3>1, <3>2, <3>6 DEF S
      <3>8. QED
        BY <2>3, <2>4, <3>7 DEF GarbageBounded, T
    <2>7. QED
      BY <2>5, <2>6
  <1>15. ASSUME NEW w \in Writers, Collect(w)
        PROVE  GarbageBounded'
    BY <1>1, Placed, <1>15 DEF TypeOK, GarbageBounded, Collecting, Getting, Goto, Collect, slots, users
  <1>16. ASSUME NEW w \in Writers, EndCollect(w)
        PROVE  GarbageBounded'
    BY <1>1, Placed, <1>16 DEF TypeOK, GarbageBounded, Collecting, Getting, Goto, EndCollect, slots, users
  <1>17. ASSUME NEW w \in Writers, EndSweep(w)
        PROVE  GarbageBounded'
    <2>1. cur[w] \in Slots /\ w \in Users
      BY <1>1, <1>17, Placed DEF EndSweep
    <2>2. /\ retired_list[cur[w]] \subseteq protected_set[cur[w]]
          /\ IsFiniteSet(protected_set[cur[w]])
          /\ Cardinality(protected_set[cur[w]]) <= pos[w]
          /\ pos[w] \in 0 .. n
      BY <1>17 DEF TypeOK, CollectedBounded, Collecting, EndSweep
    <2>3. /\ Cardinality(retired_list[cur[w]]) <= Cardinality(protected_set[cur[w]])
          /\ Cardinality(retired_list[cur[w]]) \in Nat
          /\ Cardinality(protected_set[cur[w]]) \in Nat
      BY <2>2, FS_Subset, FS_CardinalityType
    <2>4. num_retires[cur[w]] \in Nat
      BY <2>1 DEF TypeOK
    <2>5. Cardinality(retired_list[cur[w]]) <= num_retires[cur[w]] + n
      BY <1>1, <2>2, <2>3, <2>4
    <2>6. /\ cur' = cur /\ retired_list' = retired_list /\ n' = n /\ num_retires' = num_retires
          /\ \A u \in Users : u # w => pc'[u] = pc[u]
      BY <1>17 DEF TypeOK, EndSweep, Goto
    <2>7. QED
      BY <1>1, <2>5, <2>6 DEF GarbageBounded
  <1>18. ASSUME NEW w \in Writers, EndRetire(w)
        PROVE  GarbageBounded'
    BY <1>1, Placed, <1>18 DEF TypeOK, GarbageBounded, Collecting, Getting, Goto, EndRetire, ReturnSlot, slots, users
  <1>19. ASSUME NEW w \in Writers, NEW o \in Objects, Replace(w, o)
        PROVE  GarbageBounded'
    BY <1>1, Placed, <1>19 DEF TypeOK, GarbageBounded, Collecting, Getting, Goto, Replace, StartGet, slots, users
  <1>20. ASSUME NEW w \in Writers, NEW o \in Objects, Sweep(w, o)
        PROVE  GarbageBounded'
    BY <1>1, Placed, <1>20 DEF TypeOK, GarbageBounded, Collecting, Getting, Goto, Sweep, slots, users
  <1>21. CASE Shutdown
    BY <1>1, Placed, <1>21 DEF TypeOK, GarbageBounded, Collecting, Getting, Goto, Shutdown, slots, users
  <1>22. QED
    BY <1>2, <1>3, <1>4, <1>5, <1>6, <1>7, <1>8, <1>9, <1>10, <1>11, <1>12, <1>13, <1>14, <1>15, <1>16, <1>17, <1>18, <1>19, <1>20, <1>21
       DEF Next, GetSlot, Read, Retire

----------------------------------------------------------------------------
\* The invariants.

LEMMA InitHolds == Init => IInv
  <1> SUFFICES ASSUME Init PROVE IInv
    OBVIOUS
  <1> USE DEF Init
  <1>1. /\ n \in 0 .. MaxSlots /\ InitialSlots \in Nat /\ 0 \in 0 .. n /\ 0 \in 0 .. Threshold - 1
        /\ "idle" \in States /\ "idle" \notin Getting \cup Collecting
        /\ \A u \in Users : pc[u] = "idle"
    BY HazardPointerAssumption DEF States, Getting, Collecting
  <1>2. SlotsOwnedOnce
    <2>1. TypeOK
      BY <1>1 DEF TypeOK
    <2>2. QED
      BY <1>1, <2>1 DEF SlotsOwnedOnce, OneOwner, HasSlot, OneSlotPerUser
  <1>3. \A s \in 1 .. n : s \in Slots
    BY HazardPointerAssumption DEF Slots
  <1>4. RetiredOnce
    BY DEF RetiredOnce
  <1>5. GarbageBounded
    <2>1. ASSUME NEW s \in 1 .. n PROVE Cardinality(retired_list[s]) <= num_retires[s] + n
      BY <1>1, <1>3, FS_EmptySet
    <2>2. QED
      BY <2>1 DEF GarbageBounded
  <1>6. Located /\ ReplacedOnce
    BY <1>1, HazardPointerAssumption
       DEF Located, ReplacedOnce, Replacing, Users, Getting, Collecting
  <1>7. Protected /\ CleanupSees
    BY <1>1 DEF Protected, CleanupSees, Protects, Users
  <1>8. OthersBehind
    <2>1. Appenders = {} /\ \A u \in Users : Level(u) = 0
      BY <1>1 DEF Appenders, Level
    <2>2. ASSUME NEW u \in Users \ Appenders, NEW i \in 1 .. Level(u) PROVE FALSE
      BY <2>1
    <2>3. QED
      BY <2>1, <2>2 DEF OthersBehind
  <1>9. CollectedBounded
    <2>1. IsFiniteSet({})
      BY FS_EmptySet
    <2>2. QED
      BY <1>1, <2>1 DEF CollectedBounded, Users
  <1>10. QED
    BY <1>2, <1>4, <1>5, <1>6, <1>7, <1>8, <1>9 DEF IInv

LEMMA StepHolds == IInv /\ [Next]_vars => IInv'
  <1> SUFFICES ASSUME IInv, [Next]_vars PROVE IInv'
    OBVIOUS
  <1>1. CASE Next
    BY <1>1, TypeStep, PlaceStep, OwnerStep, BoundStep, RetireStep, ReplaceStep,
       ProtectStep, CleanupStep, CollectedStep, GarbageStep
       DEF IInv, SlotsOwnedOnce
  <1>2. CASE UNCHANGED vars
    <2> USE <1>2 DEF vars
    <2>1. SlotsOwnedOnce'
      BY DEF IInv, SlotsOwnedOnce, TypeOK, OneOwner, HasSlot, OneSlotPerUser, Users
    <2>2. RetiredOnce' /\ GarbageBounded'
      BY DEF IInv, RetiredOnce, GarbageBounded
    <2>3. Located' /\ ReplacedOnce' /\ Protected'
      BY DEF IInv, Located, ReplacedOnce, Replacing, Protected, HasSlot
    <2>4. OthersBehind'
      BY LevelsStay DEF IInv, Appenders, Level
    <2>5. CleanupSees' /\ CollectedBounded'
      BY DEF IInv, CleanupSees, Protects, CollectedBounded
    <2>6. QED
      BY <2>1, <2>2, <2>3, <2>4, <2>5 DEF IInv
  <1>3. QED
    BY <1>1, <1>2

\* The invariant that the others rest on.
THEOREM Invariance == Spec => []IInv
  BY InitHolds, StepHolds, PTL DEF Spec

\* No slot has two owners, and the list grows to one slot per user at most.
THEOREM SlotsOwnedOnceCorrect == Spec => []SlotsOwnedOnce
  BY Invariance, PTL DEF IInv

\* A retired object is in one retired_list, until it is reclaimed.
THEOREM RetiredOnceCorrect == Spec => []RetiredOnce
  BY Invariance, PTL DEF IInv

\* A slot keeps no more garbage than was retired since its last cleanup and
\* there are slots.
THEOREM GarbageBoundedCorrect == Spec => []GarbageBounded
  BY Invariance, PTL DEF IInv

----------------------------------------------------------------------------
\* The refinement.

HeldBy(r) == IF Protects(r) THEN ptr[r] ELSE Null
Held == [r \in Readers |-> HeldBy(r)]

LEMMA StepRefines ==
  ASSUME IInv, Next
  PROVE  Promise!Next \/ UNCHANGED <<life, Held>>
  <1>1. /\ Users = Readers \cup Writers /\ Readers \cap Writers = {} /\ Null \notin Objects
        /\ \A s \in 1 .. n : s \in Slots
    BY HazardPointerAssumption DEF IInv, SlotsOwnedOnce, TypeOK, Users, Slots
  <1>2. TypeOK /\ OneOwner /\ Located /\ ReplacedOnce /\ RetiredOnce /\ Protected /\ CleanupSees
    BY DEF IInv, SlotsOwnedOnce
  <1>3. /\ Held = [r \in Readers |-> IF Protects(r) THEN ptr[r] ELSE Null]
        /\ Held' = [r \in Readers |-> IF Protects(r)' THEN ptr'[r] ELSE Null]
    BY DEF Held, HeldBy
  <1>4. ASSUME \A r \in Readers : HeldBy(r)' = HeldBy(r) PROVE Held' = Held
    BY <1>4 DEF Held
  \* Readers.  What one of them did not hold it can only have validated.
  <1>5. ASSUME NEW r \in Readers, life' = life, HeldBy(r)' \in {HeldBy(r), Null},
               \A q \in Readers : q # r => HeldBy(q)' = HeldBy(q)
        PROVE  Promise!Next \/ UNCHANGED <<life, Held>>
    <2>1. CASE HeldBy(r)' = HeldBy(r)
      BY <1>4, <1>5, <2>1
    <2>2. CASE HeldBy(r)' = Null
      <3>1. Held' = [Held EXCEPT ![r] = Null]
        BY <1>5, <2>2 DEF Held
      <3>2. Promise!Release(r)
        BY <1>3, <1>5, <3>1 DEF Promise!Release
      <3>3. QED
        BY <3>2 DEF Promise!Next
    <2>3. QED
      BY <1>5, <2>1, <2>2
  <1>6. ASSUME NEW r \in Readers,
               \/ Make(r) \/ Drain(r) \/ LoadSource(r) \/ Protect(r)
               \/ Reset(r) \/ Release(r) \/ Drop(r)
        PROVE  Promise!Next \/ UNCHANGED <<life, Held>>
    <2>1. life' = life
      BY <1>6 DEF Make, Drain, LoadSource, Protect, Reset, Release, Drop, ReturnSlot
    <2>2. \A q \in Readers : q # r => HeldBy(q)' = HeldBy(q)
      <3>1. CASE Make(r) \/ Drain(r) \/ LoadSource(r) \/ Protect(r)
        BY <1>1, <1>2, <3>1
           DEF TypeOK, HeldBy, Protects, Make, StartGet, Drain, LoadSource, Protect, Goto
      <3>2. CASE Reset(r) \/ Release(r) \/ Drop(r)
        BY <1>1, <1>2, <3>2
           DEF TypeOK, HeldBy, Protects, Reset, Release, Drop, ReturnSlot, Goto
      <3>3. QED
        BY <1>6, <3>1, <3>2
    <2>3. HeldBy(r)' \in {HeldBy(r), Null}
      <3>1. CASE Make(r) \/ Drain(r) \/ LoadSource(r) \/ Protect(r)
        BY <1>1, <1>2, <3>1
           DEF TypeOK, HeldBy, Protects, Make, StartGet, Drain, LoadSource, Protect, Goto
      <3>2. CASE Reset(r) \/ Release(r) \/ Drop(r)
        BY <1>1, <1>2, <3>2
           DEF TypeOK, HeldBy, Protects, Reset, Release, Drop, ReturnSlot, Goto
      <3>3. QED
        BY <1>6, <3>1, <3>2
    <2>4. QED
      BY <1>5, <2>1, <2>2, <2>3
  <1>7. ASSUME NEW r \in Readers, Validate(r)
        PROVE  Promise!Next \/ UNCHANGED <<life, Held>>
    <2>1. /\ life' = life /\ ptr'[r] = src /\ HeldBy(r) = Null
          /\ \A q \in Readers : q # r => HeldBy(q)' = HeldBy(q)
      BY <1>1, <1>2, <1>7 DEF TypeOK, HeldBy, Protects, Validate, Goto
    <2>2. CASE HeldBy(r)' = Null
      BY <1>5, <2>1, <2>2
    <2>3. CASE HeldBy(r)' # Null
      <3>1. PICK o \in Objects : HeldBy(r)' = o /\ src = o
        BY <1>2, <2>1, <2>3 DEF TypeOK, HeldBy
      <3>2. life[o] = "linked"
        BY <1>2, <3>1 DEF ReplacedOnce
      <3>3. Held' = [Held EXCEPT ![r] = o]
        BY <2>1, <3>1 DEF Held
      <3>4. Promise!Acquire(r, o)
        BY <1>3, <2>1, <3>2, <3>3 DEF Promise!Acquire
      <3>5. QED
        BY <3>1, <3>4 DEF Promise!Next
    <2>4. QED
      BY <2>2, <2>3
  \* The other steps acquire and release nothing.
  <1>8. ASSUME UNCHANGED <<ptr, overtook>>, \A r \in Readers : pc'[r] = "hold" <=> pc[r] = "hold"
        PROVE  Held' = Held
    BY <1>4, <1>8 DEF HeldBy, Protects
  <1>9. ASSUME NEW u \in Users, GetSlot(u)
        PROVE  UNCHANGED <<life, Held>>
    <2>1. UNCHANGED <<life, ptr, overtook>>
      BY <1>9 DEF GetSlot, ScanSlot, TakeSlot, NextSlot, AppendSlot
    <2>2. \A r \in Users : pc'[r] = "hold" <=> pc[r] = "hold"
      <3>1. CASE ScanSlot(u) \/ NextSlot(u)
        BY <1>2, <3>1 DEF TypeOK, ScanSlot, NextSlot, Goto
      <3>2. CASE TakeSlot(u) \/ AppendSlot(u)
        BY <1>2, <3>2 DEF TypeOK, TakeSlot, AppendSlot, GotSlot, Goto
      <3>3. QED
        BY <1>9, <3>1, <3>2 DEF GetSlot
    <2>3. QED
      BY <1>1, <1>8, <2>1, <2>2
  <1>10. ASSUME NEW w \in Writers, NEW o \in Objects, Replace(w, o)
         PROVE  Promise!Link(o)
    <2>1. \A r \in Readers : HeldBy(r)' = HeldBy(r)
      BY <1>1, <1>2, <1>10 DEF TypeOK, HeldBy, Protects, Replace, StartGet, Goto
    <2>2. life' = [p \in Objects |->
                      IF p = o THEN "linked"
                      ELSE IF life[p] = "linked" THEN "unlinked" ELSE life[p]]
      BY <1>2, <1>10 DEF ReplacedOnce, Replace
    <2>3. QED
      BY <1>3, <1>4, <1>10, <2>1, <2>2 DEF Promise!Link, Replace
  <1>11. ASSUME NEW w \in Writers, Push(w)
         PROVE  ptr[w] \in Objects /\ Promise!Retire(ptr[w])
    <2>1. ptr[w] \in Objects /\ life[ptr[w]] = "unlinked"
      BY <1>1, <1>2, <1>11 DEF TypeOK, ReplacedOnce, Replacing, Push
    <2>2. \A r \in Readers : HeldBy(r)' = HeldBy(r)
      BY <1>1, <1>2, <1>11 DEF TypeOK, HeldBy, Protects, Push, Goto
    <2>3. life' = [life EXCEPT ![ptr[w]] = "retired"]
      BY <1>11 DEF Push
    <2>4. QED
      BY <1>3, <1>4, <2>1, <2>2, <2>3 DEF Promise!Retire
  <1>12. ASSUME NEW w \in Writers, Collect(w) \/ EndCollect(w) \/ EndSweep(w) \/ EndRetire(w)
         PROVE  UNCHANGED <<life, Held>>
    <2>1. life' = life
      BY <1>12 DEF Collect, EndCollect, EndSweep, EndRetire, ReturnSlot
    <2>2. \A r \in Readers : HeldBy(r)' = HeldBy(r)
      <3>1. CASE Collect(w) \/ EndCollect(w)
        BY <1>1, <1>2, <3>1 DEF TypeOK, HeldBy, Protects, Collect, EndCollect, Goto
      <3>2. CASE EndSweep(w) \/ EndRetire(w)
        BY <1>1, <1>2, <3>2 DEF TypeOK, HeldBy, Protects, EndSweep, EndRetire, ReturnSlot, Goto
      <3>3. QED
        BY <1>12, <3>1, <3>2
    <2>3. QED
      BY <1>4, <2>1, <2>2
  <1>13. ASSUME NEW w \in Writers, NEW o \in Objects, Sweep(w, o)
         PROVE  Promise!Reclaim(o)
    <2>1. cur[w] \in Slots /\ o \in retired_list[cur[w]] /\ o \notin protected_set[cur[w]]
          /\ pc[w] = "sweep"
      BY <1>1, <1>2, <1>13, Placed DEF Sweep
    <2>2. life[o] = "retired"
      BY <1>2, <2>1 DEF RetiredOnce
    <2>3. ASSUME NEW r \in Readers PROVE HeldBy(r) # o
      BY <1>1, <1>2, <2>1 DEF HeldBy, CleanupSees, Collecting
    <2>4. life' = [life EXCEPT ![o] = "free"] /\ UNCHANGED <<ptr, overtook, pc>>
      BY <1>13 DEF Sweep, users
    <2>5. Held' = Held
      BY <1>8, <2>4
    <2>6. QED
      BY <1>3, <2>2, <2>3, <2>4, <2>5 DEF Promise!Reclaim, HeldBy
  <1>14. CASE Shutdown
    <2>1. UNCHANGED <<ptr, overtook, pc>> /\ \A r \in Readers : HeldBy(r) = Null
      BY <1>1, <1>14 DEF Shutdown, users, HeldBy, Protects
    <2>2. ASSUME NEW o \in Objects
          PROVE  (\E s \in 1 .. n : o \in retired_list[s]) <=> life[o] = "retired"
      BY <1>1, <1>2 DEF RetiredOnce
    <2>3. life' = [o \in Objects |-> IF life[o] = "retired" THEN "free" ELSE life[o]]
      BY <1>14, <2>2 DEF Shutdown
    <2>4. Held' = Held
      BY <1>8, <2>1
    <2>5. Promise!ReclaimAll
      BY <1>3, <2>1, <2>3, <2>4 DEF Promise!ReclaimAll, HeldBy
    <2>6. QED
      BY <2>5 DEF Promise!Next
  <1>15. QED
    BY <1>6, <1>7, <1>9, <1>10, <1>11, <1>12, <1>13, <1>14
       DEF Next, Read, Retire, Promise!Next

\* An object is reclaimed once, after it was retired, and never while a reader
\* uses it whose protection was in memory before it was validated.
THEOREM RefinesReclamation == Spec => ImplementsReclamation
  <1>1. Init => Promise!Init
    BY DEF Init, Protects, Users, Promise!Init
  <1>2. ASSUME IInv, [Next]_vars
        PROVE  [Promise!Next]_(<<life,
                    [r \in Readers |-> IF Protects(r) THEN ptr[r] ELSE Null]>>)
    <2>1. CASE Next
      BY <1>2, <2>1, StepRefines DEF Held, HeldBy
    <2>2. CASE UNCHANGED vars
      BY <2>2 DEF vars, Protects
    <2>3. QED
      BY <1>2, <2>1, <2>2
  <1>3. QED
    BY <1>1, <1>2, Invariance, PTL DEF Spec, ImplementsReclamation, Promise!Spec
=============================================================================
