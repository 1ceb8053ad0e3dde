-------------------------- MODULE LockFree_proofs ---------------------------
(***************************************************************************)
(* Theorems about two of the components that MCConcurrent runs:            *)
(* TreiberStack for any finite set of nodes, any threads and any width of  *)
(* its count, and Singleton for any set of threads.                        *)
(*                                                                         *)
(* What is in the stack is found by a walk along the links.  A walk of any *)
(* length is followed by induction: the first place where two walks differ *)
(* is the least element of a set of naturals.  After that, every step is   *)
(* about the sequence that can be walked before and after it.              *)
(***************************************************************************)
EXTENDS TreiberStack, FiniteSetTheorems, SequenceTheorems, WellFoundedInduction, TLAPS

VARIABLES state, res, seen, at

Once == INSTANCE Singleton WITH s <- seen, pc <- at

----------------------------------------------------------------------------
\* Walks.

\* A set of naturals has a least element.
LEMMA LeastNat ==
  ASSUME NEW S \in SUBSET Nat, S # {}
  PROVE  \E m \in S : \A k \in S : m <= k
  <1> DEFINE R == {ss \in Nat \X Nat : ss[1] < ss[2]}
  <1>1. IsWellFoundedOn(R, Nat)
    BY NatLessThanWellFounded DEF OpToRel
  <1> HIDE DEF R
  <1>2. PICK m \in S : \A k \in S : ~(<<k, m>> \in R)
    BY <1>1, WFMin
  <1>3. \A k \in S : ~(k < m)
    BY <1>2 DEF R
  <1>4. QED
    BY <1>3

\* A sequence of nodes without repetitions is no longer than there are nodes.
LEMMA WalkIsShort ==
  ASSUME StackAssumption, NEW s \in Seq(Nodes), \A i, j \in DOMAIN s : s[i] = s[j] => i = j
  PROVE  Len(s) \in Nat /\ Len(s) <= Cardinality(Nodes) /\ Cardinality(Nodes) \in Nat
  <1>1. Len(s) \in Nat /\ DOMAIN s = 1 .. Len(s) /\ s \in [1 .. Len(s) -> Nodes]
    OBVIOUS
  <1>2. s \in Injection(1 .. Len(s), Nodes)
    BY <1>1 DEF Injection, IsInjective
  <1>3. Cardinality(1 .. Len(s)) <= Cardinality(Nodes)
    BY <1>2, FS_Injection DEF StackAssumption
  <1>4. Cardinality(1 .. Len(s)) = Len(s)
    BY <1>1, FS_Interval
  <1>5. QED
    BY <1>1, <1>3, <1>4, FS_CardinalityType DEF StackAssumption

\* The walk is the only one there is.
LEMMA WalkIs ==
  ASSUME StackAssumption, NEW s, NEW top, NEW succ, IsWalk(s, top, succ)
  PROVE  Walk(top, succ) = s
  <1> DEFINE N == Cardinality(Nodes)
             Follows(f) == f = [k \in 0 .. N |->
                   IF k = 0 THEN top ELSE IF f[k - 1] = Null THEN Null ELSE succ[f[k - 1]]]
             w == [k \in 0 .. N |-> IF k < Len(s) THEN s[k + 1] ELSE Null]
             node == CHOOSE f : Follows(f)
  <1>1. /\ s \in Seq(Nodes) /\ Len(s) \in Nat /\ N \in Nat /\ Len(s) <= N
        /\ top = IF Len(s) = 0 THEN Null ELSE s[1]
        /\ \A i \in 1 .. Len(s) : s[i] # Null /\ succ[s[i]] = IF i = Len(s) THEN Null ELSE s[i + 1]
    <2>1. s \in Seq(Nodes) /\ \A i, j \in DOMAIN s : s[i] = s[j] => i = j
      BY DEF IsWalk
    <2>2. Len(s) \in Nat /\ N \in Nat /\ Len(s) <= N
      BY <2>1, WalkIsShort
    <2>3. (s = <<>>) <=> Len(s) = 0
      BY <2>1
    <2>4. QED
      BY <2>1, <2>2, <2>3 DEF IsWalk, StackAssumption
  <1> HIDE DEF N
  <1>2. Follows(w)
    <2>1. ASSUME NEW k \in 0 .. N
          PROVE  w[k] = IF k = 0 THEN top ELSE IF w[k - 1] = Null THEN Null ELSE succ[w[k - 1]]
      <3>1. CASE k = 0
        BY <1>1, <3>1
      <3>2. CASE k # 0
        <4>1. k - 1 \in 0 .. N /\ w[k - 1] = IF k - 1 < Len(s) THEN s[k] ELSE Null
          BY <1>1, <3>2
        <4>2. CASE k <= Len(s)
          BY <1>1, <3>2, <4>1, <4>2
        <4>3. CASE ~(k <= Len(s))
          BY <1>1, <3>2, <4>1, <4>3, SMTT(40)
        <4>4. QED
          BY <4>2, <4>3
      <3>3. QED
        BY <3>1, <3>2
    <2>2. QED
      BY <2>1
  <1>3. Follows(node)
    BY <1>2
  <1>4. node = w
    <2> HIDE DEF node
    <2>1. \A k \in 0 .. N : node[k] = w[k]
      <3> DEFINE Differ == {k \in 0 .. N : node[k] # w[k]}
      <3> SUFFICES ASSUME Differ # {} PROVE FALSE
        OBVIOUS
      <3>1. Differ \in SUBSET Nat
        BY <1>1
      <3>2. PICK m \in Differ : \A k \in Differ : m <= k
        <4> HIDE DEF Differ
        <4>1. QED
          BY <3>1, LeastNat
      <3>3. CASE m = 0
        BY <1>1, <1>2, <1>3, <3>2, <3>3
      <3>4. CASE m # 0
        <4>1. m - 1 \in 0 .. N /\ m \in 0 .. N /\ m - 1 \notin Differ
          BY <1>1, <3>2, <3>4
        <4>2. node[m - 1] = w[m - 1]
          BY <4>1
        <4> HIDE DEF w
        <4>3. node[m] = w[m]
          BY <1>2, <1>3, <3>4, <4>1, <4>2
        <4>4. QED
          BY <3>2, <4>3
      <3>5. QED
        BY <3>3, <3>4
    <2>2. QED
      BY <1>2, <1>3, <2>1
  <1>5. Walk(top, succ) = [k \in {i \in 1 .. N : node[i - 1] # Null} |-> node[k - 1]]
    BY DEF Walk, N
  <1>6. {i \in 1 .. N : w[i - 1] # Null} = 1 .. Len(s)
    BY <1>1
  <1>7. \A i \in 1 .. Len(s) : w[i - 1] = s[i]
    BY <1>1
  <1>8. s = [i \in 1 .. Len(s) |-> s[i]]
    BY <1>1
  <1> HIDE DEF node, w
  <1>9. {i \in 1 .. N : node[i - 1] # Null} = 1 .. Len(s)
    BY <1>4, <1>6
  <1>10. Walk(top, succ) = [i \in 1 .. Len(s) |-> s[i]]
    BY <1>4, <1>5, <1>7, <1>9
  <1>11. QED
    BY <1>8, <1>10

\* The stack after a step is whatever can be walked then.
LEMMA NewChain ==
  ASSUME StackAssumption, NEW s, IsWalk(s, ptr', next')
  PROVE  Chain' = s /\ IsWalk(Chain', ptr', next')
  <1>1. Walk(ptr', next') = s
    BY WalkIs
  <1>2. QED
    BY <1>1 DEF Chain

\* Links of nodes outside the stack do not matter to it.
LEMMA OtherLinks ==
  ASSUME StackAssumption, IsWalk(Chain, ptr, next), ptr' = ptr,
         \A n \in Members(Chain) : next'[n] = next[n]
  PROVE  Chain' = Chain /\ IsWalk(Chain', ptr', next')
  <1>1. \A i \in DOMAIN Chain : next'[Chain[i]] = next[Chain[i]]
    BY DEF Members
  <1>2. IsWalk(Chain, ptr', next')
    BY <1>1 DEF IsWalk
  <1>3. QED
    BY <1>2, NewChain

LEMMA BatchIs ==
  ASSUME StackAssumption, StackTypeOK, Apart, NEW t \in Threads
  PROVE  /\ batch[t] \in Seq(Nodes) /\ Len(batch[t]) \in Nat /\ DOMAIN batch[t] = 1 .. Len(batch[t])
         /\ pc[t] \in {"link", "cas"} =>
               /\ batch[t] \in Batches /\ Len(batch[t]) > 0
               /\ batch[t][Len(batch[t])] \in Members(batch[t])
               /\ \A i, j \in DOMAIN batch[t] : batch[t][i] = batch[t][j] => i = j
  <1>1. batch[t] \in Batches \cup {<<>>} /\ <<>> \in Seq(Nodes)
    BY DEF StackTypeOK
  <1>2. batch[t] \in Seq(Nodes)
    BY <1>1 DEF StackAssumption
  <1>3. Len(batch[t]) \in Nat /\ DOMAIN batch[t] = 1 .. Len(batch[t])
    BY <1>2
  <1>4. ASSUME pc[t] \in {"link", "cas"}
        PROVE  batch[t] \in Batches /\ Len(batch[t]) > 0
    <2>1. batch[t] # <<>>
      BY <1>4 DEF Apart
    <2>2. QED
      BY <1>1, <1>2, <2>1
  <1>5. QED
    BY <1>2, <1>3, <1>4 DEF StackAssumption, Members

\* A store_conditional that succeeds without having overslept does so before any
\* other update since the read.
LEMMA FreshStore ==
  ASSUME StackAssumption, StackTypeOK, Counted, NEW t \in Threads, NEW n, Busy(t),
         Store(t, n), ~overslept'
  PROVE  age[t] = 0
  <1>1. CASE kindOfAba = "PackedPtr"
    <2>1. age[t] \in 0 .. Wrap /\ age[t] # Wrap /\ Wrap \in Nat /\ count \in 0 .. Wrap - 1
      BY <1>1 DEF Store, StackTypeOK, StackAssumption
    <2>2. old[t].count = count
      BY <1>1 DEF Store, Packed
    <2>3. count \in {old[t].count + age[t], old[t].count + age[t] - Wrap}
      BY <1>1, <2>1 DEF Counted
    <2>4. QED
      BY <2>1, <2>2, <2>3
  <1>2. CASE kindOfAba # "PackedPtr"
    BY <1>2 DEF Counted
  <1>3. QED
    BY <1>1, <1>2

\* The stack with a batch in front of it.
LEMMA WalkJoined ==
  ASSUME NEW b \in Seq(Nodes), NEW s, NEW top, NEW succ, IsWalk(s, top, succ), b # <<>>,
         \A i, j \in DOMAIN b : b[i] = b[j] => i = j,
         Members(b) \cap Members(s) = {},
         \A i \in 1 .. Len(b) - 1 : succ[b[i]] = b[i + 1],
         succ[b[Len(b)]] = top
  PROVE  IsWalk(b \o s, Head(b), succ)
  <1>1. PICK m \in Nat : m = Len(b) /\ m > 0 /\ DOMAIN b = 1 .. m
    OBVIOUS
  <1>2. PICK n \in Nat : n = Len(s) /\ DOMAIN s = 1 .. n /\ s \in Seq(Nodes)
    BY DEF IsWalk
  <1>3. PICK c : c = b \o s
    OBVIOUS
  <1>4. /\ c \in Seq(Nodes) /\ Len(c) = m + n /\ DOMAIN c = 1 .. m + n
        /\ \A i \in 1 .. m : c[i] = b[i]
        /\ \A k \in 1 .. n : c[m + k] = s[k]
    <2>1. /\ c \in Seq(Nodes) /\ Len(c) = m + n
          /\ \A i \in 1 .. m + n : c[i] = IF i <= m THEN b[i] ELSE s[i - m]
      BY <1>1, <1>2, <1>3, ConcatProperties
    <2>2. \A k \in 1 .. n : m + k \in 1 .. m + n /\ ~(m + k <= m) /\ m + k - m = k
      OBVIOUS
    <2>3. QED
      BY <2>1, <2>2
  <1>5. \A i \in 1 .. m + n : i \in 1 .. m \/ \E k \in 1 .. n : i = m + k
    <2>1. \A i \in 1 .. m + n : i \in 1 .. m \/ (i - m \in 1 .. n /\ i = m + (i - m))
      OBVIOUS
    <2>2. QED
      BY <2>1
  <1>6. \A i \in 1 .. m, k \in 1 .. n : b[i] # s[k]
    <2>1. \A i \in 1 .. m : b[i] \in Members(b)
      BY <1>1 DEF Members
    <2>2. \A k \in 1 .. n : s[k] \in Members(s)
      BY <1>2 DEF Members
    <2>3. QED
      BY <2>1, <2>2
  <1>7. ASSUME NEW i \in DOMAIN c, NEW j \in DOMAIN c, c[i] = c[j]
        PROVE  i = j
    <2>1. \A x, y \in 1 .. n : s[x] = s[y] => x = y
      BY <1>2 DEF IsWalk
    <2>2. \A x, y \in 1 .. m : b[x] = b[y] => x = y
      BY <1>1
    <2>3. CASE i \in 1 .. m /\ j \in 1 .. m
      BY <1>4, <1>7, <2>2, <2>3
    <2>4. ASSUME NEW k \in 1 .. n, i = m + k, NEW h \in 1 .. n, j = m + h
          PROVE  i = j
      <3>1. c[i] = s[k] /\ c[j] = s[h]
        BY <1>4, <2>4
      <3>2. QED
        BY <1>7, <2>1, <2>4, <3>1
    <2>5. ASSUME NEW k \in 1 .. n, i = m + k, j \in 1 .. m
          PROVE  FALSE
      <3>1. c[i] = s[k] /\ c[j] = b[j]
        BY <1>4, <2>5
      <3>2. QED
        BY <1>6, <1>7, <2>5, <3>1
    <2>6. ASSUME NEW h \in 1 .. n, j = m + h, i \in 1 .. m
          PROVE  FALSE
      <3>1. c[i] = b[i] /\ c[j] = s[h]
        BY <1>4, <2>6
      <3>2. QED
        BY <1>6, <1>7, <2>6, <3>1
    <2>7. QED
      BY <1>4, <1>5, <2>3, <2>4, <2>5, <2>6
  <1>8. ASSUME NEW i \in DOMAIN c
        PROVE  succ[c[i]] = IF i = m + n THEN Null ELSE c[i + 1]
    <2>1. CASE i \in 1 .. m /\ i # m
      <3>1. i \in 1 .. m - 1 /\ i + 1 \in 1 .. m /\ i # m + n
        BY <2>1
      <3>2. QED
        BY <1>1, <1>4, <2>1, <3>1
    <2>2. CASE i = m
      <3>1. succ[c[i]] = top
        BY <1>1, <1>4, <2>2
      <3>2. CASE n = 0
        <4>1. top = Null
          BY <1>2, <3>2 DEF IsWalk
        <4>2. QED
          BY <2>2, <3>1, <3>2, <4>1
      <3>3. CASE n # 0
        <4>1. top = s[1]
          BY <1>2, <3>3 DEF IsWalk
        <4>2. 1 \in 1 .. n /\ i # m + n
          BY <2>2, <3>3
        <4>3. c[m + 1] = s[1]
          BY <1>4, <4>2
        <4>4. QED
          BY <2>2, <3>1, <4>1, <4>2, <4>3
      <3>4. QED
        BY <3>2, <3>3
    <2>3. ASSUME NEW k \in 1 .. n, i = m + k
          PROVE  succ[c[i]] = IF i = m + n THEN Null ELSE c[i + 1]
      <3>1. succ[c[i]] = IF k = n THEN Null ELSE s[k + 1]
        BY <1>2, <1>4, <2>3 DEF IsWalk
      <3>2. k = n <=> i = m + n
        BY <2>3
      <3>3. k # n => k + 1 \in 1 .. n /\ i + 1 = m + (k + 1)
        BY <2>3
      <3>4. k # n => c[m + (k + 1)] = s[k + 1]
        BY <1>4, <3>3
      <3>5. QED
        BY <3>1, <3>2, <3>3, <3>4
    <2>4. QED
      BY <1>4, <1>5, <2>1, <2>2, <2>3
  <1>9. c # <<>> /\ Head(b) = c[1]
    <2>1. 1 \in 1 .. m /\ Len(c) # 0
      BY <1>1, <1>4
    <2>2. QED
      BY <1>1, <1>4, <2>1
  <1>10. IsWalk(c, c[1], succ)
    BY <1>4, <1>7, <1>8, <1>9 DEF IsWalk
  <1>11. QED
    BY <1>3, <1>9, <1>10

\* The stack without its top.
LEMMA WalkCut ==
  ASSUME NEW s, NEW top, NEW succ, IsWalk(s, top, succ), s # <<>>
  PROVE  IsWalk(Tail(s), succ[top], succ) /\ Members(Tail(s)) \subseteq Members(s)
  <1>1. /\ s \in Seq(Nodes) /\ Len(s) \in Nat /\ Len(s) > 0 /\ DOMAIN s = 1 .. Len(s) /\ top = s[1]
    BY DEF IsWalk
  <1>2. /\ Tail(s) \in Seq(Nodes) /\ Len(Tail(s)) = Len(s) - 1
        /\ DOMAIN Tail(s) = 1 .. Len(s) - 1
        /\ \A i \in 1 .. Len(s) - 1 : Tail(s)[i] = s[i + 1]
    BY <1>1
  <1> DEFINE c == Tail(s)
  <1> HIDE DEF c
  <1>3. ASSUME NEW i \in DOMAIN c, NEW j \in DOMAIN c, c[i] = c[j]
        PROVE  i = j
    <2>1. s[i + 1] = s[j + 1] /\ i + 1 \in DOMAIN s /\ j + 1 \in DOMAIN s
      BY <1>1, <1>2, <1>3 DEF c
    <2>2. i + 1 = j + 1
      BY <2>1 DEF IsWalk
    <2>3. QED
      BY <1>2, <1>1, <2>2 DEF c
  <1>4. ASSUME NEW i \in DOMAIN c
        PROVE  succ[c[i]] = IF i = Len(c) THEN Null ELSE c[i + 1]
    <2>1. i + 1 \in DOMAIN s /\ c[i] = s[i + 1] /\ (i = Len(c) <=> i + 1 = Len(s))
      BY <1>1, <1>2 DEF c
    <2>2. succ[c[i]] = IF i = Len(c) THEN Null ELSE s[i + 1 + 1]
      BY <2>1 DEF IsWalk
    <2>3. i # Len(c) => c[i + 1] = s[i + 1 + 1]
      BY <1>1, <1>2 DEF c
    <2>4. QED
      BY <2>2, <2>3
  <1>5. succ[top] = IF c = <<>> THEN Null ELSE c[1]
    <2>1. succ[top] = IF 1 = Len(s) THEN Null ELSE s[1 + 1]
      BY <1>1 DEF IsWalk
    <2>2. c = <<>> <=> Len(s) = 1
      <3>1. c \in Seq(Nodes) /\ Len(c) = Len(s) - 1
        BY <1>2 DEF c
      <3>2. c = <<>> <=> Len(c) = 0
        BY <3>1, EmptySeq
      <3>3. QED
        BY <1>1, <3>1, <3>2
    <2>3. Len(s) # 1 => c[1] = s[1 + 1]
      BY <1>1, <1>2 DEF c
    <2>4. QED
      BY <2>1, <2>2, <2>3
  <1>6. Members(c) \subseteq Members(s)
    BY <1>1, <1>2 DEF Members, c
  <1>7. QED
    BY <1>2, <1>3, <1>4, <1>5, <1>6 DEF IsWalk, c

----------------------------------------------------------------------------
\* The types.

LEMMA Links ==
  ASSUME StackAssumption, StackTypeOK, NEW t \in Threads, NEW s \in Batches, StartPush(t, s)
  PROVE  /\ s \in Seq(Nodes) /\ Len(s) \in Nat /\ Len(s) > 0 /\ DOMAIN s = 1 .. Len(s)
         /\ \A i, j \in DOMAIN s : s[i] = s[j] => i = j
         /\ next' \in [Nodes -> Nodes \cup {Null}]
         /\ \A i \in 1 .. Len(s) - 1 : next'[s[i]] = s[i + 1]
         /\ \A n \in Nodes : n \notin Members(s) => next'[n] = next[n]
  <1>1. /\ s \in Seq(Nodes) /\ Len(s) \in Nat /\ Len(s) > 0 /\ DOMAIN s = 1 .. Len(s)
        /\ \A i, j \in DOMAIN s : s[i] = s[j] => i = j
    BY DEF StackAssumption
  <1> DEFINE Before(n) == CHOOSE i \in 1 .. Len(s) - 1 : s[i] = n
  <1>2. next' = [n \in Nodes |-> IF \E i \in 1 .. Len(s) - 1 : s[i] = n
                                 THEN s[1 + Before(n)] ELSE next[n]]
    BY DEF StartPush
  <1>3. ASSUME NEW n \in Nodes, NEW i \in 1 .. Len(s) - 1, s[i] = n
        PROVE  Before(n) = i /\ 1 + Before(n) \in 1 .. Len(s) /\ s[1 + Before(n)] \in Nodes
    <2>1. Before(n) \in 1 .. Len(s) - 1 /\ s[Before(n)] = n
      BY <1>3
    <2> HIDE DEF Before
    <2>2. Before(n) = i
      BY <1>1, <1>3, <2>1
    <2>3. 1 + Before(n) \in 1 .. Len(s)
      BY <1>1, <2>1
    <2>4. QED
      BY <1>1, <2>2, <2>3
  <1> HIDE DEF Before
  <1>4. next' \in [Nodes -> Nodes \cup {Null}]
    BY <1>2, <1>3 DEF StackTypeOK
  <1>5. ASSUME NEW i \in 1 .. Len(s) - 1
        PROVE  next'[s[i]] = s[i + 1]
    <2>1. s[i] \in Nodes
      BY <1>1
    <2>2. Before(s[i]) = i
      BY <1>3, <2>1
    <2>3. next'[s[i]] = s[1 + i]
      BY <1>2, <2>1, <2>2
    <2>4. 1 + i = i + 1
      BY <1>1
    <2>5. QED
      BY <2>3, <2>4
  <1>6. ASSUME NEW n \in Nodes, n \notin Members(s)
        PROVE  next'[n] = next[n]
    <2>1. \A i \in 1 .. Len(s) - 1 : s[i] # n
      BY <1>1, <1>6 DEF Members
    <2>2. QED
      BY <1>2, <2>1
  <1>7. QED
    BY <1>1, <1>4, <1>5, <1>6

LEMMA Values ==
  ASSUME StackAssumption, StackTypeOK
  PROVE  /\ Nothing \in [ptr : Nodes \cup {Null}, count : 0 .. Wrap - 1]
         /\ Packed \in [ptr : Nodes \cup {Null}, count : 0 .. Wrap - 1]
         /\ DOMAIN Retries = {"cas", "popCas", "all"}
         /\ Retries["cas"] = "link" /\ Retries["popCas"] = "next" /\ Retries["all"] = "all"
         /\ \A t \in Threads : Seen(t) \in Nodes \cup {Null}
         /\ (count + 1) % Wrap = IF count + 1 = Wrap THEN 0 ELSE count + 1
         /\ (count + 1) % Wrap \in 0 .. Wrap - 1
  <1>1. Wrap \in Nat /\ Wrap > 0 /\ count \in 0 .. Wrap - 1
    BY DEF StackAssumption, StackTypeOK
  <1>2. /\ (count + 1) % Wrap = IF count + 1 = Wrap THEN 0 ELSE count + 1
        /\ (count + 1) % Wrap \in 0 .. Wrap - 1
    BY <1>1
  <1>3. 0 \in 0 .. Wrap - 1
    BY <1>1
  <1>4. QED
    BY <1>1, <1>2, <1>3 DEF Nothing, Packed, Retries, Seen, StackTypeOK

LEMMA StoreTypes ==
  ASSUME StackAssumption, StackTypeOK, NEW t \in Threads, NEW n \in Nodes \cup {Null}, Store(t, n),
         Finish(t), UNCHANGED <<kindOfAba, locked, next>>
  PROVE  StackTypeOK'
  <1>1. ptr' \in Nodes \cup {Null} /\ count' \in 0 .. Wrap - 1 /\ overslept' \in BOOLEAN
    BY Values DEF Store, StackTypeOK
  <1>2. age' \in [Threads -> 0 .. Wrap]
    <2>1. \A u \in Threads : Older(t)[u] \in 0 .. Wrap
      BY DEF StackTypeOK, StackAssumption, Older
    <2>2. QED
      BY <2>1 DEF Store, Older
  <1>3. /\ pc' \in [Threads -> {"idle", "link", "next", "unlock"} \cup DOMAIN Retries]
        /\ batch' \in [Threads -> Batches \cup {<<>>}] /\ nxt' \in [Threads -> Nodes \cup {Null}]
        /\ old' \in [Threads -> [ptr : Nodes \cup {Null}, count : 0 .. Wrap - 1]]
    BY Values DEF Finish, StackTypeOK
  <1>4. next' = next /\ locked' = locked
    OBVIOUS
  <1>5. QED
    BY <1>1, <1>2, <1>3, <1>4 DEF StackTypeOK

LEMMA ReadTypes ==
  ASSUME StackAssumption, StackTypeOK, NEW t \in Threads, NEW where \in {"link", "next", "all"},
         Read(t, where)
  PROVE  /\ pc' \in [Threads -> {"idle", "link", "next", "unlock"} \cup DOMAIN Retries]
         /\ old' \in [Threads -> [ptr : Nodes \cup {Null}, count : 0 .. Wrap - 1]]
         /\ locked' \in BOOLEAN /\ age' = age
  <1>1. /\ pc' \in [Threads -> {"idle", "link", "next", "unlock"} \cup DOMAIN Retries]
        /\ age' = age
    BY Values DEF Read, StackTypeOK
  <1>2. old' \in [Threads -> [ptr : Nodes \cup {Null}, count : 0 .. Wrap - 1]]
    <2>1. old' = [old EXCEPT ![t] = Packed] \/ old' = old
      BY DEF Read
    <2>2. QED
      BY <2>1, Values DEF StackTypeOK
  <1>3. locked' \in BOOLEAN
    BY DEF Read, StackTypeOK
  <1>4. QED
    BY <1>1, <1>2, <1>3

LEMMA TypeStep ==
  ASSUME StackAssumption, StackTypeOK, ~overslept => Apart, [StackNext]_stackVars
  PROVE  StackTypeOK'
  <1>1. CASE UNCHANGED stackVars
    BY <1>1 DEF stackVars, StackTypeOK
  <1> SUFFICES ASSUME Apart, NEW t \in Threads,
                      Operate(t) \/ StartPop(t) \/ \E s \in Batches : StartPush(t, s)
               PROVE  StackTypeOK'
    BY <1>1 DEF StackNext
  <1>2. ASSUME NEW s \in Batches, StartPush(t, s)
        PROVE  StackTypeOK'
    <2>1. next' \in [Nodes -> Nodes \cup {Null}]
      BY <1>2, Links
    <2>2. batch' \in [Threads -> Batches \cup {<<>>}]
      BY <1>2 DEF StartPush, StackTypeOK
    <2>3. /\ pc' \in [Threads -> {"idle", "link", "next", "unlock"} \cup DOMAIN Retries]
          /\ old' \in [Threads -> [ptr : Nodes \cup {Null}, count : 0 .. Wrap - 1]]
          /\ locked' \in BOOLEAN /\ age' = age
      BY <1>2, ReadTypes DEF StartPush
    <2>4. UNCHANGED <<kindOfAba, ptr, count, nxt, overslept>>
      BY <1>2 DEF StartPush
    <2>5. QED
      BY <2>1, <2>2, <2>3, <2>4 DEF StackTypeOK
  <1>3. CASE StartPop(t)
    <2>1. /\ pc' \in [Threads -> {"idle", "link", "next", "unlock"} \cup DOMAIN Retries]
          /\ old' \in [Threads -> [ptr : Nodes \cup {Null}, count : 0 .. Wrap - 1]]
          /\ locked' \in BOOLEAN /\ age' = age
      BY <1>3, ReadTypes DEF StartPop
    <2>2. UNCHANGED <<kindOfAba, ptr, count, next, batch, nxt, overslept>>
      BY <1>3 DEF StartPop
    <2>3. QED
      BY <2>1, <2>2 DEF StackTypeOK
  <1>4. CASE LinkTop(t)
    <2>1. next' \in [Nodes -> Nodes \cup {Null}]
      BY <1>4, Values DEF LinkTop, StackTypeOK
    <2>2. pc' \in [Threads -> {"idle", "link", "next", "unlock"} \cup DOMAIN Retries]
      BY <1>4, Values DEF LinkTop, StackTypeOK
    <2>3. QED
      BY <1>4, <2>1, <2>2 DEF LinkTop, StackTypeOK
  <1>5. CASE PushCas(t)
    <2>1. Head(batch[t]) \in Nodes \cup {Null}
      BY <1>5, BatchIs DEF PushCas
    <2>2. QED
      BY <1>5, <2>1, StoreTypes DEF PushCas
  <1>6. CASE FindEmpty(t)
    <2>1. age' \in [Threads -> 0 .. Wrap]
      BY <1>6 DEF FindEmpty, StackTypeOK, StackAssumption
    <2>2. /\ pc' \in [Threads -> {"idle", "link", "next", "unlock"} \cup DOMAIN Retries]
          /\ batch' \in [Threads -> Batches \cup {<<>>}] /\ nxt' \in [Threads -> Nodes \cup {Null}]
          /\ old' \in [Threads -> [ptr : Nodes \cup {Null}, count : 0 .. Wrap - 1]]
      BY <1>6, Values DEF FindEmpty, Finish, StackTypeOK
    <2>3. QED
      BY <1>6, <2>1, <2>2 DEF FindEmpty, StackTypeOK
  <1>7. CASE PopNext(t)
    <2>1. nxt' \in [Threads -> Nodes \cup {Null}]
      BY <1>7, Values DEF PopNext, StackTypeOK
    <2>2. pc' \in [Threads -> {"idle", "link", "next", "unlock"} \cup DOMAIN Retries]
      BY <1>7, Values DEF PopNext, StackTypeOK
    <2>3. QED
      BY <1>7, <2>1, <2>2 DEF PopNext, StackTypeOK
  <1>8. CASE PopCas(t)
    <2>1. nxt[t] \in Nodes \cup {Null}
      BY DEF StackTypeOK
    <2>2. QED
      BY <1>8, <2>1, StoreTypes DEF PopCas
  <1>9. CASE PopAll(t)
    BY <1>9, StoreTypes DEF PopAll
  <1>10. CASE Fails(t)
    <2>1. /\ age' \in [Threads -> 0 .. Wrap] /\ nxt' \in [Threads -> Nodes \cup {Null}]
          /\ old' \in [Threads -> [ptr : Nodes \cup {Null}, count : 0 .. Wrap - 1]]
      BY <1>10, Values DEF Fails, StackTypeOK, StackAssumption
    <2>2. pc' \in [Threads -> {"idle", "link", "next", "unlock"} \cup DOMAIN Retries]
      BY <1>10, Values DEF Fails, StackTypeOK
    <2>3. QED
      BY <1>10, <2>1, <2>2 DEF Fails, StackTypeOK
  <1>11. CASE Unlock(t)
    BY <1>11 DEF Unlock, StackTypeOK
  <1>12. QED
    BY <1>2, <1>3, <1>4, <1>5, <1>6, <1>7, <1>8, <1>9, <1>10, <1>11 DEF Operate

----------------------------------------------------------------------------
\* The steps, each with what it does to the stack.

Steady == Apart /\ Counted /\ ReadsHold

\* What everybody else has read stays true if the step is no update.
LEMMA OthersRead ==
  ASSUME StackAssumption, StackTypeOK, Apart, ReadsHold, NEW t \in Threads,
         UNCHANGED <<kindOfAba, ptr, count>>,
         \A u \in Threads : u # t => /\ pc'[u] = pc[u] /\ old'[u] = old[u] /\ age'[u] = age[u]
                                     /\ nxt'[u] = nxt[u] /\ batch'[u] = batch[u],
         \A n \in Members(Chain) : next'[n] = next[n],
         \A u \in Threads : u # t => \A n \in Members(batch[u]) : next'[n] = next[n],
         NEW u \in Threads, u # t
  PROVE  (Busy(u) /\ age[u] = 0 =>
            /\ Seen(u) = ptr
            /\ pc[u] = "cas" => next[batch[u][Len(batch[u])]] = ptr
            /\ pc[u] = "popCas" => ptr # Null /\ nxt[u] = next[ptr])'
  <1>1. SUFFICES ASSUME Busy(u)', age'[u] = 0
                 PROVE  /\ Seen(u)' = ptr'
                        /\ pc'[u] = "cas" => next'[batch'[u][Len(batch'[u])]] = ptr'
                        /\ pc'[u] = "popCas" => ptr' # Null /\ nxt'[u] = next'[ptr']
    OBVIOUS
  <1>2. Busy(u) /\ age[u] = 0
    BY <1>1 DEF Busy
  <1>3. /\ Seen(u) = ptr
        /\ pc[u] = "cas" => next[batch[u][Len(batch[u])]] = ptr
        /\ pc[u] = "popCas" => ptr # Null /\ nxt[u] = next[ptr]
    BY <1>2 DEF ReadsHold
  <1>4. Seen(u)' = ptr'
    BY <1>3 DEF Seen
  <1>5. ASSUME pc[u] = "cas"
        PROVE  next'[batch[u][Len(batch[u])]] = ptr
    BY <1>3, <1>5, BatchIs
  <1>6. ASSUME pc[u] = "popCas"
        PROVE  ptr # Null /\ nxt[u] = next'[ptr]
    <2>1. ptr # Null /\ ptr = IF Chain = <<>> THEN Null ELSE Chain[1]
      BY <1>3, <1>6 DEF Apart, IsWalk
    <2>2. 1 \in DOMAIN Chain
      BY <2>1 DEF Apart, IsWalk
    <2>3. ptr \in Members(Chain)
      BY <2>1, <2>2 DEF Members
    <2>4. QED
      BY <1>3, <1>6, <2>1, <2>3
  <1>7. QED
    BY <1>4, <1>5, <1>6

LEMMA StartPushStep ==
  ASSUME StackAssumption, StackTypeOK, Steady, NEW t \in Threads, NEW s \in Batches,
         StartPush(t, s)
  PROVE  Steady' /\ Chain' = Chain
  <1>1. Apart /\ Counted /\ ReadsHold
    BY DEF Steady
  <1>2. /\ s \in Seq(Nodes) /\ Len(s) \in Nat /\ Len(s) > 0 /\ DOMAIN s = 1 .. Len(s)
        /\ \A i \in 1 .. Len(s) - 1 : next'[s[i]] = s[i + 1]
        /\ \A n \in Nodes : n \notin Members(s) => next'[n] = next[n]
    BY Links
  <1>3. /\ Members(s) \cap Members(Chain) = {}
        /\ \A u \in Threads : Members(s) \cap Members(batch[u]) = {}
    BY DEF StartPush, Free
  <1>4. /\ pc[t] = "idle" /\ pc'[t] = "link" /\ batch'[t] = s /\ age' = age
        /\ UNCHANGED <<kindOfAba, ptr, count, nxt, overslept>>
        /\ IF kindOfAba = "PackedPtr" THEN old'[t] = Packed /\ locked' = locked
           ELSE ~locked /\ locked' = TRUE
        /\ \A u \in Threads : u # t => pc'[u] = pc[u] /\ old'[u] = old[u] /\ batch'[u] = batch[u]
    BY DEF StartPush, Read, StackTypeOK
  <1>5. /\ \A n \in Members(Chain) : n \in Nodes /\ next'[n] = next[n]
        /\ \A u \in Threads : \A n \in Members(batch[u]) : n \in Nodes /\ next'[n] = next[n]
    <2>1. \A n \in Members(Chain) : n \in Nodes
      BY <1>1 DEF Apart, IsWalk, Members
    <2>2. \A u \in Threads : \A n \in Members(batch[u]) : n \in Nodes
      BY <1>1, BatchIs DEF Members
    <2>3. QED
      BY <1>2, <1>3, <2>1, <2>2
  <1>6. Chain' = Chain /\ IsWalk(Chain', ptr', next')
    BY <1>1, <1>4, <1>5, OtherLinks DEF Apart
  <1>7. Apart'
    <2>1. ASSUME NEW u \in Threads
          PROVE  /\ batch'[u] # <<>> <=> pc'[u] \in {"link", "cas"}
                 /\ Members(batch'[u]) \cap Members(Chain') = {}
                 /\ \A v \in Threads : v # u => Members(batch'[u]) \cap Members(batch'[v]) = {}
                 /\ \A i \in 1 .. Len(batch'[u]) - 1 : next'[batch'[u][i]] = batch'[u][i + 1]
      <3>1. CASE u = t
        BY <1>2, <1>3, <1>4, <1>6, <3>1
      <3>2. CASE u # t
        <4>1. \A i \in 1 .. Len(batch[u]) - 1 : next'[batch[u][i]] = batch[u][i + 1]
          <5>1. \A i \in 1 .. Len(batch[u]) - 1 : batch[u][i] \in Members(batch[u])
            BY <1>1, BatchIs DEF Members
          <5>2. QED
            BY <1>1, <1>5, <5>1 DEF Apart
        <4>2. QED
          BY <1>1, <1>3, <1>4, <1>6, <3>2, <4>1 DEF Apart
      <3>3. QED
        BY <3>1, <3>2
    <2>2. QED
      BY <1>6, <2>1 DEF Apart
  <1>8. Counted'
    <2>1. CASE kindOfAba = "PackedPtr"
      <3>1. age[t] = 0 /\ old'[t].count = count
        BY <1>1, <1>4, <2>1 DEF Counted, Packed
      <3>2. count \in {old'[t].count + age[t], old'[t].count + age[t] - Wrap}
        BY <3>1 DEF StackTypeOK
      <3>3. QED
        BY <1>1, <1>4, <2>1, <3>1, <3>2 DEF Counted, Busy
    <2>2. CASE kindOfAba # "PackedPtr"
      BY <1>1, <1>4, <2>2 DEF Counted
    <2>3. QED
      BY <2>1, <2>2
  <1>9. ReadsHold'
    <2>1. Seen(t)' = ptr'
      BY <1>4 DEF Seen, Packed
    <2>2. QED
      BY <1>1, <1>4, <1>5, <2>1, OthersRead DEF ReadsHold
  <1>10. QED
    BY <1>6, <1>7, <1>8, <1>9 DEF Steady


\* A step that neither updates the top nor links.
LEMMA ApartStays ==
  ASSUME StackAssumption, StackTypeOK, Apart, NEW t \in Threads, UNCHANGED <<ptr, next>>,
         \A u \in Threads : u # t => pc'[u] = pc[u] /\ batch'[u] = batch[u],
         batch'[t] \in {batch[t], <<>>}, batch'[t] # <<>> <=> pc'[t] \in {"link", "cas"}
  PROVE  Apart' /\ Chain' = Chain
  <1>1. Chain' = Chain /\ IsWalk(Chain', ptr', next')
    BY OtherLinks DEF Apart
  <1>2. Members(<<>>) = {} /\ Members(batch'[t]) \subseteq Members(batch[t])
    <2>1. Members(<<>>) = {}
      BY DEF Members
    <2>2. QED
      BY <2>1
  <1>3. ASSUME NEW u \in Threads
        PROVE  /\ batch'[u] # <<>> <=> pc'[u] \in {"link", "cas"}
               /\ Members(batch'[u]) \cap Members(Chain') = {}
               /\ \A v \in Threads : v # u => Members(batch'[u]) \cap Members(batch'[v]) = {}
               /\ \A i \in 1 .. Len(batch'[u]) - 1 : next'[batch'[u][i]] = batch'[u][i + 1]
    <2>1. \A v \in Threads : Members(batch'[v]) \subseteq Members(batch[v])
      BY <1>2
    <2>2. /\ Members(batch'[u]) \cap Members(Chain') = {}
          /\ \A v \in Threads : v # u => Members(batch'[u]) \cap Members(batch'[v]) = {}
      BY <1>1, <2>1 DEF Apart
    <2>3. \A i \in 1 .. Len(batch'[u]) - 1 : next'[batch'[u][i]] = batch'[u][i + 1]
      <3>1. CASE batch'[u] = <<>>
        BY <3>1
      <3>2. CASE batch'[u] = batch[u]
        BY <3>2 DEF Apart
      <3>3. QED
        BY <3>1, <3>2
    <2>4. QED
      BY <2>2, <2>3 DEF Apart
  <1>4. QED
    BY <1>1, <1>3 DEF Apart

LEMMA QuietStep ==
  ASSUME StackAssumption, StackTypeOK, Steady, NEW t \in Threads,
         StartPop(t) \/ FindEmpty(t) \/ PopNext(t) \/ Fails(t) \/ Unlock(t)
  PROVE  Steady' /\ Chain' = Chain
  <1>1. Apart /\ Counted /\ ReadsHold
    BY DEF Steady
  <1>2. /\ UNCHANGED <<kindOfAba, ptr, count, next, overslept>>
        /\ \A u \in Threads : u # t => /\ pc'[u] = pc[u] /\ old'[u] = old[u] /\ age'[u] = age[u]
                                       /\ nxt'[u] = nxt[u] /\ batch'[u] = batch[u]
    BY DEF StackTypeOK, StartPop, Read, FindEmpty, Finish, PopNext, Fails, Unlock
  <1>3. /\ batch'[t] \in {batch[t], <<>>}
        /\ batch'[t] # <<>> <=> pc'[t] \in {"link", "cas"}
    <2>1. batch[t] # <<>> <=> pc[t] \in {"link", "cas"}
      BY <1>1 DEF Apart
    <2>2. CASE StartPop(t)
      BY <2>1, <2>2 DEF StartPop, Read, StackTypeOK
    <2>3. CASE FindEmpty(t)
      BY <2>1, <2>3 DEF FindEmpty, Finish, StackTypeOK
    <2>4. CASE PopNext(t)
      BY <2>1, <2>4 DEF PopNext, StackTypeOK
    <2>5. CASE Fails(t)
      BY <2>1, <2>5, Values DEF Fails, StackTypeOK
    <2>6. CASE Unlock(t)
      BY <2>1, <2>6 DEF Unlock, StackTypeOK
    <2>7. QED
      BY <2>2, <2>3, <2>4, <2>5, <2>6
  <1>4. Apart' /\ Chain' = Chain
    BY <1>1, <1>2, <1>3, ApartStays
  <1>5. Counted'
    <2>1. CASE kindOfAba = "PackedPtr"
      <3>1. /\ pc'[t] # "unlock" /\ (pc'[t] = "idle" => age'[t] = 0)
            /\ Busy(t)' /\ age'[t] < Wrap => count \in {old'[t].count + age'[t],
                                                        old'[t].count + age'[t] - Wrap}
        <4>1. count = count + 0 /\ Packed.count = count
          BY DEF StackTypeOK, Packed
        <4>2. CASE StartPop(t)
          BY <1>1, <2>1, <4>1, <4>2 DEF StartPop, Read, StackTypeOK, Counted, Busy
        <4>3. CASE FindEmpty(t)
          BY <1>1, <2>1, <4>3 DEF FindEmpty, Finish, StackTypeOK, Counted, Busy
        <4>4. CASE PopNext(t)
          BY <1>1, <2>1, <4>4 DEF PopNext, StackTypeOK, Counted, Busy
        <4>5. CASE Fails(t)
          BY <1>1, <2>1, <4>1, <4>5, Values DEF Fails, StackTypeOK, Counted, Busy
        <4>6. CASE Unlock(t)
          BY <1>1, <2>1, <4>6 DEF Unlock, Counted
        <4>7. QED
          BY <4>2, <4>3, <4>4, <4>5, <4>6
      <3>2. QED
        BY <1>1, <1>2, <2>1, <3>1 DEF Counted, Busy
    <2>2. CASE kindOfAba # "PackedPtr"
      <3>1. /\ age'[t] = 0
            /\ pc'[t] # "idle" => locked' /\ \A u \in Threads : pc[u] # "idle" => u = t
            /\ locked' # locked => \A u \in Threads : pc[u] # "idle" => u = t
        <4>1. age[t] = 0 /\ (pc[t] # "idle" => locked /\ \A u \in Threads : pc[u] # "idle" => u = t)
          BY <1>1, <2>2 DEF Counted
        <4>2. CASE StartPop(t)
          BY <1>1, <2>2, <4>1, <4>2 DEF StartPop, Read, StackTypeOK, Counted
        <4>3. CASE FindEmpty(t)
          BY <4>1, <4>3 DEF FindEmpty, StackTypeOK
        <4>4. CASE PopNext(t)
          BY <4>1, <4>4 DEF PopNext
        <4>5. CASE Fails(t)
          BY <2>2, <4>5 DEF Fails
        <4>6. CASE Unlock(t)
          BY <4>1, <4>6 DEF Unlock, StackTypeOK
        <4>7. QED
          BY <4>2, <4>3, <4>4, <4>5, <4>6
      <3>2. QED
        BY <1>1, <1>2, <2>2, <3>1 DEF Counted
    <2>3. QED
      BY <2>1, <2>2
  <1>6. ReadsHold'
    <2>1. (Busy(t) /\ age[t] = 0 =>
             /\ Seen(t) = ptr
             /\ pc[t] = "cas" => next[batch[t][Len(batch[t])]] = ptr
             /\ pc[t] = "popCas" => ptr # Null /\ nxt[t] = next[ptr])'
      <3>1. CASE StartPop(t)
        BY <1>2, <3>1 DEF StartPop, Read, StackTypeOK, Seen, Packed
      <3>2. CASE FindEmpty(t) \/ Unlock(t)
        BY <3>2 DEF FindEmpty, Finish, Unlock, StackTypeOK, Busy
      <3>3. CASE PopNext(t)
        BY <1>1, <1>2, <3>3 DEF PopNext, StackTypeOK, Seen, ReadsHold, Busy
      <3>4. CASE Fails(t)
        BY <1>2, <3>4, Values DEF Fails, StackTypeOK, Seen, Packed
      <3>5. QED
        BY <3>1, <3>2, <3>3, <3>4
    <2>2. QED
      BY <1>1, <1>2, <2>1, OthersRead DEF ReadsHold
  <1>7. QED
    BY <1>4, <1>5, <1>6 DEF Steady

LEMMA LinkTopStep ==
  ASSUME StackAssumption, StackTypeOK, Steady, NEW t \in Threads, LinkTop(t)
  PROVE  Steady' /\ Chain' = Chain
  <1>1. Apart /\ Counted /\ ReadsHold
    BY DEF Steady
  <1>2. /\ pc[t] = "link" /\ pc'[t] = "cas" /\ \A u \in Threads : u # t => pc'[u] = pc[u]
        /\ next' = [next EXCEPT ![batch[t][Len(batch[t])]] = Seen(t)]
        /\ UNCHANGED <<kindOfAba, ptr, count, locked, batch, old, nxt, age, overslept>>
    BY DEF LinkTop, StackTypeOK
  <1> DEFINE b == batch[t]
             last == b[Len(b)]
  <1>3. /\ b \in Seq(Nodes) /\ Len(b) \in Nat /\ Len(b) > 0 /\ DOMAIN b = 1 .. Len(b)
        /\ last \in Members(b) /\ last \in Nodes
        /\ \A i, j \in DOMAIN b : b[i] = b[j] => i = j
    <2>1. /\ b \in Seq(Nodes) /\ Len(b) \in Nat /\ Len(b) > 0 /\ DOMAIN b = 1 .. Len(b)
          /\ last \in Members(b) /\ \A i, j \in DOMAIN b : b[i] = b[j] => i = j
      BY <1>1, <1>2, BatchIs
    <2>2. QED
      BY <2>1
  <1> HIDE DEF b, last
  <1>4. /\ next'[last] = Seen(t)
        /\ \A n \in Nodes : n # last => next'[n] = next[n]
    BY <1>2, <1>3 DEF StackTypeOK, b, last
  <1>5. /\ \A n \in Members(Chain) : n \in Nodes /\ n # last
        /\ \A u \in Threads : u # t => \A n \in Members(batch[u]) : n \in Nodes /\ n # last
    <2>1. \A n \in Members(Chain) : n \in Nodes
      BY <1>1 DEF Apart, IsWalk, Members
    <2>2. \A u \in Threads : \A n \in Members(batch[u]) : n \in Nodes
      BY <1>1, BatchIs DEF Members
    <2>3. Members(b) \cap Members(Chain) = {}
      BY <1>1 DEF Apart, b
    <2>4. \A u \in Threads : u # t => Members(b) \cap Members(batch[u]) = {}
      BY <1>1 DEF Apart, b
    <2>5. QED
      BY <1>3, <2>1, <2>2, <2>3, <2>4
  <1>6. Chain' = Chain /\ IsWalk(Chain', ptr', next')
    BY <1>1, <1>2, <1>4, <1>5, OtherLinks DEF Apart
  <1>7. Apart'
    <2>1. ASSUME NEW u \in Threads
          PROVE  \A i \in 1 .. Len(batch[u]) - 1 : next'[batch[u][i]] = batch[u][i + 1]
      <3>1. CASE u = t
        <4>1. ASSUME NEW i \in 1 .. Len(b) - 1
              PROVE  b[i] \in Nodes /\ b[i] # last
          <5>1. \A m \in Nat : m > 0 => /\ m \in 1 .. m
                                       /\ \A k \in 1 .. m - 1 : k \in 1 .. m /\ k # m
            OBVIOUS
          <5>2. i \in DOMAIN b /\ Len(b) \in DOMAIN b /\ i # Len(b)
            BY <1>3, <5>1
          <5>3. QED
            BY <1>3, <5>2 DEF last
        <4>2. \A i \in 1 .. Len(b) - 1 : next[b[i]] = b[i + 1]
          BY <1>1 DEF Apart, b
        <4>3. QED
          BY <1>4, <3>1, <4>1, <4>2 DEF b
      <3>2. CASE u # t
        <4>1. \A i \in 1 .. Len(batch[u]) - 1 : batch[u][i] \in Members(batch[u])
          BY <1>1, BatchIs DEF Members
        <4>2. QED
          BY <1>1, <1>4, <1>5, <3>2, <4>1 DEF Apart
      <3>3. QED
        BY <3>1, <3>2
    <2>2. ASSUME NEW u \in Threads
          PROVE  /\ batch[u] # <<>> <=> pc'[u] \in {"link", "cas"}
                 /\ Members(batch[u]) \cap Members(Chain) = {}
                 /\ \A v \in Threads : v # u => Members(batch[u]) \cap Members(batch[v]) = {}
      BY <1>1, <1>2 DEF Apart
    <2>3. batch' = batch
      BY <1>2
    <2>4. QED
      BY <1>6, <2>1, <2>2, <2>3 DEF Apart
  <1>8. Counted'
    BY <1>1, <1>2 DEF Counted, Busy
  <1>9. ReadsHold'
    <2>1. (Busy(t) /\ age[t] = 0 =>
             /\ Seen(t) = ptr
             /\ pc[t] = "cas" => next[batch[t][Len(batch[t])]] = ptr
             /\ pc[t] = "popCas" => ptr # Null /\ nxt[t] = next[ptr])'
      <3>1. age[t] = 0 => Seen(t) = ptr
        BY <1>1, <1>2 DEF ReadsHold, Busy
      <3>2. QED
        BY <1>2, <1>4, <3>1 DEF Seen, b, last
    <2>2. QED
      BY <1>1, <1>2, <1>4, <1>5, <2>1, OthersRead DEF ReadsHold
  <1>10. QED
    BY <1>6, <1>7, <1>8, <1>9 DEF Steady


\* What an update does to the others: their reads are older.
LEMMA UpdateStep ==
  ASSUME StackAssumption, StackTypeOK, Counted, NEW t \in Threads, NEW n, Busy(t), Store(t, n),
         Finish(t), UNCHANGED <<kindOfAba, locked>>
  PROVE  Counted' /\ ReadsHold'
  <1>1. /\ age' = Older(t) /\ age'[t] = 0
        /\ pc'[t] = (IF kindOfAba = "PackedPtr" THEN "idle" ELSE "unlock")
        /\ count' = (IF kindOfAba = "PackedPtr" THEN (count + 1) % Wrap ELSE count)
        /\ kindOfAba' = kindOfAba /\ locked' = locked
        /\ \A u \in Threads : u # t => pc'[u] = pc[u] /\ old'[u] = old[u]
    BY DEF Store, Finish, Older, StackTypeOK
  <1>2. \A u \in Threads : /\ u # t /\ pc[u] = "idle" => age'[u] = 0
                           /\ u # t /\ pc[u] # "idle" =>
                                 age'[u] = IF age[u] < Wrap THEN age[u] + 1 ELSE Wrap
                           /\ age[u] \in 0 .. Wrap /\ old[u].count \in 0 .. Wrap - 1
    BY <1>1 DEF Older, StackTypeOK
  <1>3. Wrap \in Nat /\ Wrap > 0 /\ count \in 0 .. Wrap - 1
    BY DEF StackAssumption, StackTypeOK
  <1>4. CASE kindOfAba = "PackedPtr"
    <2>1. ASSUME NEW u \in Threads, u # t
          PROVE  /\ pc[u] # "unlock" /\ (pc[u] = "idle" => age'[u] = 0)
                 /\ Busy(u) => age'[u] # 0
                 /\ Busy(u) /\ age'[u] < Wrap => count' \in {old[u].count + age'[u],
                                                             old[u].count + age'[u] - Wrap}
      <3>1. pc[u] # "unlock" /\ (pc[u] = "idle" => age'[u] = 0)
        BY <1>2, <1>4, <2>1 DEF Counted
      <3>2. ASSUME Busy(u)
            PROVE  /\ age'[u] # 0
                   /\ age'[u] < Wrap => count' \in {old[u].count + age'[u],
                                                    old[u].count + age'[u] - Wrap}
        <4>1. age'[u] = IF age[u] < Wrap THEN age[u] + 1 ELSE Wrap
          BY <1>2, <2>1, <3>2 DEF Busy
        <4>2. age[u] \in 0 .. Wrap /\ old[u].count \in 0 .. Wrap - 1
          BY <1>2
        <4>3. age[u] < Wrap => count \in {old[u].count + age[u], old[u].count + age[u] - Wrap}
          BY <1>4, <3>2 DEF Counted
        <4>4. count' = IF count + 1 = Wrap THEN 0 ELSE count + 1
          BY <1>1, <1>4, Values
        <4>5. QED
          BY <1>3, <4>1, <4>2, <4>3, <4>4
      <3>3. QED
        BY <3>1, <3>2
    <2>2. ASSUME NEW u \in Threads
          PROVE  /\ pc'[u] # "unlock" /\ (pc'[u] = "idle" => age'[u] = 0)
                 /\ ~(Busy(u)' /\ age'[u] = 0)
                 /\ Busy(u)' /\ age'[u] < Wrap => count' \in {old'[u].count + age'[u],
                                                              old'[u].count + age'[u] - Wrap}
      <3>1. CASE u = t
        BY <1>1, <1>4, <3>1 DEF Busy
      <3>2. CASE u # t
        BY <1>1, <2>1, <3>2 DEF Busy
      <3>3. QED
        BY <3>1, <3>2
    <2>3. QED
      BY <1>1, <1>4, <2>2 DEF Counted, ReadsHold
  <1>5. CASE kindOfAba # "PackedPtr"
    <2>1. locked /\ \A u \in Threads : u # t => pc[u] = "idle"
      BY <1>5 DEF Counted, Busy
    <2>2. \A u \in Threads : age'[u] = 0 /\ (u # t => pc'[u] = "idle") /\ ~Busy(u)'
      BY <1>1, <1>2, <1>5, <2>1 DEF Busy
    <2>3. QED
      BY <1>1, <1>5, <2>1, <2>2 DEF Counted, ReadsHold
  <1>6. QED
    BY <1>4, <1>5

\* The links stay, and what is in the stack now was there or in t's batch.
LEMMA UpdateApart ==
  ASSUME StackAssumption, StackTypeOK, Apart, NEW t \in Threads, next' = next, Finish(t),
         NEW s, IsWalk(s, ptr', next'), Members(s) \subseteq Members(Chain) \cup Members(batch[t])
  PROVE  Apart' /\ Chain' = s
  <1>1. Chain' = s /\ IsWalk(Chain', ptr', next')
    BY NewChain
  <1>2. /\ batch'[t] = <<>> /\ pc'[t] \in {"idle", "unlock"}
        /\ \A u \in Threads : u # t => batch'[u] = batch[u] /\ pc'[u] = pc[u]
    BY DEF Finish, StackTypeOK
  <1>3. Members(<<>>) = {}
    BY DEF Members
  <1>4. ASSUME NEW u \in Threads
        PROVE  /\ batch'[u] # <<>> <=> pc'[u] \in {"link", "cas"}
               /\ Members(batch'[u]) \cap Members(s) = {}
               /\ \A v \in Threads : v # u => Members(batch'[u]) \cap Members(batch'[v]) = {}
               /\ \A i \in 1 .. Len(batch'[u]) - 1 : next'[batch'[u][i]] = batch'[u][i + 1]
    <2>1. CASE u = t
      BY <1>2, <1>3, <2>1
    <2>2. CASE u # t
      <3>1. /\ Members(batch[u]) \cap Members(Chain) = {}
            /\ \A v \in Threads : v # u => Members(batch[u]) \cap Members(batch[v]) = {}
            /\ batch[u] # <<>> <=> pc[u] \in {"link", "cas"}
            /\ \A i \in 1 .. Len(batch[u]) - 1 : next[batch[u][i]] = batch[u][i + 1]
        BY DEF Apart
      <3>2. Members(batch[u]) \cap Members(s) = {}
        BY <2>2, <3>1
      <3>3. \A v \in Threads : v # u => Members(batch[u]) \cap Members(batch'[v]) = {}
        BY <1>2, <1>3, <3>1
      <3>4. QED
        BY <1>2, <2>2, <3>1, <3>2, <3>3
    <2>3. QED
      BY <2>1, <2>2
  <1>5. QED
    BY <1>1, <1>4 DEF Apart

LEMMA PushCasStep ==
  ASSUME StackAssumption, StackTypeOK, Steady, NEW t \in Threads, PushCas(t), ~overslept'
  PROVE  Steady' /\ batch[t] \in Batches /\ Chain' = batch[t] \o Chain
  <1>1. Apart /\ Counted /\ ReadsHold
    BY DEF Steady
  <1>2. /\ pc[t] = "cas" /\ Busy(t) /\ Store(t, Head(batch[t])) /\ Finish(t)
        /\ UNCHANGED <<kindOfAba, locked>> /\ next' = next /\ ptr' = Head(batch[t])
    BY DEF PushCas, Busy, Store
  <1>3. age[t] = 0
    BY <1>1, <1>2, FreshStore
  <1>4. next[batch[t][Len(batch[t])]] = ptr
    BY <1>1, <1>2, <1>3 DEF ReadsHold
  <1>5. /\ batch[t] \in Batches /\ batch[t] \in Seq(Nodes) /\ batch[t] # <<>>
        /\ \A i, j \in DOMAIN batch[t] : batch[t][i] = batch[t][j] => i = j
    BY <1>1, <1>2, BatchIs DEF Apart
  <1>6. IsWalk(batch[t] \o Chain, Head(batch[t]), next)
    <2>1. /\ IsWalk(Chain, ptr, next) /\ Members(batch[t]) \cap Members(Chain) = {}
          /\ \A i \in 1 .. Len(batch[t]) - 1 : next[batch[t][i]] = batch[t][i + 1]
      BY <1>1 DEF Apart
    <2>2. QED
      BY <1>4, <1>5, <2>1, WalkJoined
  <1>7. Members(batch[t] \o Chain) \subseteq Members(Chain) \cup Members(batch[t])
    <2>1. Chain \in Seq(Nodes) /\ Len(Chain) \in Nat /\ Len(batch[t]) \in Nat
      BY <1>1, <1>5 DEF Apart, IsWalk
    <2>2. \A k \in 1 .. Len(batch[t]) + Len(Chain) :
             k <= Len(batch[t]) \/ k - Len(batch[t]) \in 1 .. Len(Chain)
      BY <2>1
    <2>3. /\ DOMAIN (batch[t] \o Chain) = 1 .. Len(batch[t]) + Len(Chain)
          /\ \A k \in 1 .. Len(batch[t]) + Len(Chain) :
                (batch[t] \o Chain)[k] = IF k <= Len(batch[t]) THEN batch[t][k]
                                         ELSE Chain[k - Len(batch[t])]
      BY <1>5, <2>1, ConcatProperties, LenProperties
    <2>4. /\ DOMAIN Chain = 1 .. Len(Chain) /\ DOMAIN batch[t] = 1 .. Len(batch[t])
      BY <1>5, <2>1
    <2>5. \A k \in 1 .. Len(batch[t]) + Len(Chain) : k <= Len(batch[t]) => k \in 1 .. Len(batch[t])
      BY <2>1
    <2>6. QED
      BY <2>2, <2>3, <2>4, <2>5 DEF Members
  <1>8. Apart' /\ Chain' = batch[t] \o Chain
    BY <1>1, <1>2, <1>6, <1>7, UpdateApart
  <1>9. Counted' /\ ReadsHold'
    BY <1>1, <1>2, UpdateStep
  <1>10. QED
    BY <1>5, <1>8, <1>9 DEF Steady

LEMMA PopCasStep ==
  ASSUME StackAssumption, StackTypeOK, Steady, NEW t \in Threads, PopCas(t), ~overslept'
  PROVE  Steady' /\ Chain # <<>> /\ Chain' = Tail(Chain)
  <1>1. Apart /\ Counted /\ ReadsHold
    BY DEF Steady
  <1>2. /\ pc[t] = "popCas" /\ Busy(t) /\ Store(t, nxt[t]) /\ Finish(t)
        /\ UNCHANGED <<kindOfAba, locked>> /\ next' = next /\ ptr' = nxt[t]
    BY DEF PopCas, Busy, Store
  <1>3. age[t] = 0
    BY <1>1, <1>2, FreshStore
  <1>4. ptr # Null /\ nxt[t] = next[ptr]
    BY <1>1, <1>2, <1>3 DEF ReadsHold
  <1>5. IsWalk(Chain, ptr, next) /\ Chain # <<>>
    BY <1>1, <1>4 DEF Apart, IsWalk
  <1>6. IsWalk(Tail(Chain), next[ptr], next) /\ Members(Tail(Chain)) \subseteq Members(Chain)
    BY <1>5, WalkCut
  <1>7. Apart' /\ Chain' = Tail(Chain)
    BY <1>1, <1>2, <1>4, <1>6, UpdateApart
  <1>8. Counted' /\ ReadsHold'
    BY <1>1, <1>2, UpdateStep
  <1>9. QED
    BY <1>5, <1>7, <1>8 DEF Steady

LEMMA PopAllStep ==
  ASSUME StackAssumption, StackTypeOK, Steady, NEW t \in Threads, PopAll(t), ~overslept'
  PROVE  Steady' /\ Chain # <<>> /\ Chain' = <<>>
  <1>1. Apart /\ Counted /\ ReadsHold
    BY DEF Steady
  <1>2. /\ Busy(t) /\ Store(t, Null) /\ Finish(t) /\ Seen(t) # Null
        /\ UNCHANGED <<kindOfAba, locked>> /\ next' = next /\ ptr' = Null
    BY DEF PopAll, Busy, Store
  <1>3. age[t] = 0
    BY <1>1, <1>2, FreshStore
  <1>4. ptr # Null
    BY <1>1, <1>2, <1>3 DEF ReadsHold
  <1>5. Chain # <<>>
    BY <1>1, <1>4 DEF Apart, IsWalk
  <1>6. IsWalk(<<>>, ptr', next') /\ Members(<<>>) = {}
    BY <1>2 DEF IsWalk, Members
  <1>7. Apart' /\ Chain' = <<>>
    BY <1>1, <1>2, <1>6, UpdateApart
  <1>8. Counted' /\ ReadsHold'
    BY <1>1, <1>2, UpdateStep
  <1>9. QED
    BY <1>5, <1>7, <1>8 DEF Steady

----------------------------------------------------------------------------
\* All together.

LEMMA StackInit ==
  ASSUME StackAssumption, Init
  PROVE  StackIInv /\ Chain = <<>>
  <1>1. IsWalk(<<>>, ptr, next)
    BY DEF Init, IsWalk
  <1>2. Chain = <<>>
    BY <1>1, WalkIs DEF Chain
  <1>3. StackTypeOK
    <2>1. 0 \in 0 .. Wrap - 1 /\ 0 \in 0 .. Wrap
      BY DEF StackAssumption
    <2>2. QED
      BY <2>1 DEF Init, StackTypeOK, Nothing
  <1>4. Apart
    <2>1. Members(<<>>) = {} /\ \A t \in Threads : batch[t] = <<>> /\ pc[t] = "idle"
      BY DEF Init, Members
    <2>2. QED
      BY <1>1, <1>2, <2>1 DEF Apart
  <1>5. Counted /\ ReadsHold
    BY DEF Init, Counted, ReadsHold, Busy
  <1>6. QED
    BY <1>2, <1>3, <1>4, <1>5 DEF StackIInv

LEMMA StackStep ==
  ASSUME StackAssumption, StackIInv, StackNext
  PROVE  ~overslept' => Steady' /\ (Promise!Next \/ Chain' = Chain)
  <1> SUFFICES ASSUME ~overslept', StackTypeOK, Steady, NEW t \in Threads,
                      Operate(t) \/ StartPop(t) \/ \E s \in Batches : StartPush(t, s)
               PROVE  Steady' /\ (Promise!Next \/ Chain' = Chain)
    BY DEF StackIInv, Steady, StackNext
  <1>1. CASE \E s \in Batches : StartPush(t, s)
    BY <1>1, StartPushStep
  <1>2. CASE StartPop(t) \/ FindEmpty(t) \/ PopNext(t) \/ Fails(t) \/ Unlock(t)
    BY <1>2, QuietStep
  <1>3. CASE LinkTop(t)
    BY <1>3, LinkTopStep
  <1>4. CASE PushCas(t)
    BY <1>4, PushCasStep DEF Promise!Next, Promise!Put
  <1>5. CASE PopCas(t)
    BY <1>5, PopCasStep DEF Promise!Next, Promise!Take
  <1>6. CASE PopAll(t)
    BY <1>6, PopAllStep DEF Promise!Next, Promise!TakeAll
  <1>7. QED
    BY <1>1, <1>2, <1>3, <1>4, <1>5, <1>6 DEF Operate

LEMMA StackInvariance ==
  ASSUME StackAssumption, StackIInv, [StackNext]_stackVars
  PROVE  StackIInv'
  <1>1. StackTypeOK'
    BY TypeStep DEF StackIInv
  <1>2. CASE StackNext
    BY <1>1, <1>2, StackStep DEF StackIInv, Steady
  <1>3. CASE UNCHANGED stackVars
    <2>1. Chain' = Chain
      BY <1>3 DEF stackVars, Chain
    <2>2. QED
      BY <1>1, <1>3, <2>1 DEF stackVars, StackIInv, Apart, Counted, ReadsHold, Busy, Seen
  <1>4. QED
    BY <1>2, <1>3

\* Every push, pop and pop_all is that of a stack and takes effect in one step, for
\* any number of threads and nodes, with either aba and whatever is popped and pushed
\* again in between, unless it slept through as many updates as the count has values
\* (treiber_stack.hpp:31-83, aba.hpp:20-23).
THEOREM RefinesStack ==
  ASSUME StackAssumption
  PROVE  StackSpec => ImplementsStack
  <1>1. Init => StackIInv
    BY StackInit
  <1>2. StackIInv /\ [StackNext]_stackVars => StackIInv'
    BY StackInvariance
  <1>3. Init => Promise!Init
    BY StackInit DEF Promise!Init
  <1>4. StackIInv /\ [StackNext]_stackVars => [~overslept' => Promise!Next]_Chain
    <2> SUFFICES ASSUME StackIInv, [StackNext]_stackVars
                 PROVE  [~overslept' => Promise!Next]_Chain
      OBVIOUS
    <2>1. CASE StackNext
      BY <2>1, StackStep
    <2>2. CASE UNCHANGED stackVars
      BY <2>2 DEF stackVars, Chain
    <2>3. QED
      BY <2>1, <2>2
  <1>5. StackIInv => StackTypeOK
    BY DEF StackIInv
  <1>6. QED
    BY <1>1, <1>2, <1>3, <1>4, <1>5, PTL DEF StackSpec, ImplementsStack

----------------------------------------------------------------------------
\* The singleton.

\* What a thread in get has called for, as Promise sees it.
CallOf(t) ==
    IF at[t] = "out" THEN "none"
    ELSE IF at[t] \in {"construct", "unset"} THEN "building"
    ELSE "called"

Calls == [t \in Threads |-> CallOf(t)]

\* The steps that read state go at it says.
LEMMA Looks ==
  ASSUME Once!OneWinner, NEW t \in Threads, Once!Look(t), ~Once!Won(t)
  PROVE  /\ at' = [at EXCEPT ![t] = at'[t]] /\ seen' = [seen EXCEPT ![t] = state]
         /\ state' = state /\ res' = res
         /\ \/ at'[t] = "loop" /\ state = "Uninitialised"
            \/ at'[t] = "spin" /\ state = "Initialising"
            \/ at'[t] = "return" /\ state = "Initialised"
  BY DEF Once!OneWinner, Once!Look, Once!Goto

LEMMA LookKeeps ==
  ASSUME Once!OneWinner, NEW t \in Threads, Once!Look(t), ~Once!Won(t)
  PROVE  Once!OneWinner'
  BY Looks DEF Once!OneWinner, Once!Won

\* One thread at a time has won.
LEMMA WinnerStep ==
  ASSUME Once!OneWinner, Once!SingletonNext
  PROVE  Once!OneWinner'
  <1> PICK t \in Threads : Once!Get(t) \/ Once!Inside(t)
    BY DEF Once!SingletonNext
  <1>1. CASE Once!Get(t) \/ Once!CasLoses(t) \/ Once!Spin(t)
    BY <1>1, LookKeeps DEF Once!Get, Once!CasLoses, Once!Spin, Once!Won
  <1>2. CASE Once!CasWins(t)
    BY <1>2 DEF Once!OneWinner, Once!Won, Once!CasWins, Once!Goto
  <1>3. CASE Once!Construct(t)
    <2>1. CASE res' = TRUE /\ Once!Goto(t, "publish")
      BY <1>3, <2>1 DEF Once!OneWinner, Once!Won, Once!Construct, Once!Goto
    <2>2. CASE Once!Goto(t, "unset") /\ UNCHANGED res
      BY <1>3, <2>2 DEF Once!OneWinner, Once!Won, Once!Construct, Once!Goto
    <2>3. QED
      BY <1>3, <2>1, <2>2 DEF Once!Construct
  <1>4. CASE Once!Publish(t)
    BY <1>4 DEF Once!OneWinner, Once!Won, Once!Publish, Once!Goto
  <1>5. CASE Once!Unset(t)
    BY <1>5 DEF Once!OneWinner, Once!Won, Once!Unset, Once!Goto
  <1>6. CASE Once!Return(t)
    BY <1>6 DEF Once!OneWinner, Once!Won, Once!Return, Once!Goto
  <1>7. QED
    BY <1>1, <1>2, <1>3, <1>4, <1>5, <1>6 DEF Once!Inside

\* One thread at a time constructs the object, and res tells whether it is there.
THEOREM OneWinnerCorrect == Once!Safety => []Once!OneWinner
  <1>1. Once!Init => Once!OneWinner
    BY DEF Once!Init, Once!OneWinner, Once!Won
  <1>2. ASSUME Once!OneWinner, [Once!SingletonNext]_(Once!singletonVars)
        PROVE  Once!OneWinner'
    <2>1. CASE UNCHANGED Once!singletonVars
      BY <1>2, <2>1 DEF Once!singletonVars, Once!OneWinner, Once!Won
    <2>2. QED
      BY <1>2, <2>1, WinnerStep
  <1>3. QED
    BY <1>1, <1>2, PTL DEF Once!Safety

LEMMA StepRefines ==
  ASSUME Once!OneWinner, Once!SingletonNext
  PROVE  Once!Promise!Next \/ UNCHANGED <<res, Calls>>
  <1> PICK t \in Threads : Once!Get(t) \/ Once!Inside(t)
    BY DEF Once!SingletonNext
  <1>1. /\ Calls = [u \in Threads |->
                       IF at[u] = "out" THEN "none"
                       ELSE IF at[u] \in {"construct", "unset"} THEN "building" ELSE "called"]
        /\ Calls' = [u \in Threads |->
                       IF at'[u] = "out" THEN "none"
                       ELSE IF at'[u] \in {"construct", "unset"} THEN "building" ELSE "called"]
    BY DEF Calls, CallOf
  <1>2. Calls' = [Calls EXCEPT ![t] = CallOf(t)'] /\ Calls[t] = CallOf(t)
    <2>1. \A u \in Threads : u # t => at'[u] = at[u]
      BY DEF Once!OneWinner, Once!Get, Once!Inside, Once!CasWins, Once!CasLoses, Once!Spin,
             Once!Construct, Once!Publish, Once!Unset,
             Once!Return, Once!Look, Once!Goto
    <2>2. QED
      BY <2>1 DEF Calls, CallOf
  <1>3. ASSUME CallOf(t)' = CallOf(t), res' = res
        PROVE  UNCHANGED <<res, Calls>>
    BY <1>2, <1>3 DEF Calls
  <1>4. CASE Once!Get(t)
    <2>1. CallOf(t) = "none" /\ CallOf(t)' = "called" /\ res' = res
      BY <1>4, Looks DEF Once!Get, Once!Won, CallOf
    <2>2. Once!Promise!Call(t)
      BY <1>1, <1>2, <2>1 DEF Once!Promise!Call, Once!Promise!Move
    <2>3. QED
      BY <2>2 DEF Once!Promise!Next
  <1>5. CASE Once!CasLoses(t) \/ Once!Spin(t)
    BY <1>3, <1>5, Looks DEF Once!CasLoses, Once!Spin, Once!Won, CallOf
  <1>6. CASE Once!CasWins(t)
    <2>1. CallOf(t) = "called" /\ CallOf(t)' = "building" /\ res' = res
      BY <1>6 DEF Once!OneWinner, Once!CasWins, Once!Goto, CallOf
    <2>2. ~res /\ \A u \in Threads : CallOf(u) # "building"
      BY <1>6 DEF Once!OneWinner, Once!CasWins, Once!Won, CallOf
    <2>3. Once!Promise!Begin(t)
      BY <1>1, <1>2, <2>1, <2>2 DEF Once!Promise!Begin, Once!Promise!Move, CallOf
    <2>4. QED
      BY <2>3 DEF Once!Promise!Next
  <1>7. CASE Once!Construct(t)
    <2>1. CallOf(t) = "building"
      BY <1>7 DEF Once!Construct, CallOf
    <2>2. CASE res' = TRUE /\ Once!Goto(t, "publish")
      <3>1. CallOf(t)' = "called"
        BY <2>2 DEF Once!OneWinner, Once!Goto, CallOf
      <3>2. Once!Promise!Build(t)
        BY <1>1, <1>2, <2>1, <2>2, <3>1 DEF Once!Promise!Build, Once!Promise!Move
      <3>3. QED
        BY <3>2 DEF Once!Promise!Next
    <2>3. CASE Once!Goto(t, "unset") /\ UNCHANGED res
      <3>1. CallOf(t)' = "building"
        BY <2>3 DEF Once!OneWinner, Once!Goto, CallOf
      <3>2. QED
        BY <1>3, <2>1, <2>3, <3>1
    <2>4. QED
      BY <1>7, <2>2, <2>3 DEF Once!Construct
  <1>8. CASE Once!Publish(t)
    BY <1>3, <1>8 DEF Once!OneWinner, Once!Publish, Once!Goto, CallOf
  <1>9. CASE Once!Unset(t)
    <2>1. CallOf(t) = "building" /\ CallOf(t)' = "none" /\ res' = res
      BY <1>9 DEF Once!OneWinner, Once!Unset, Once!Goto, CallOf
    <2>2. Once!Promise!Throw(t)
      BY <1>1, <1>2, <2>1 DEF Once!Promise!Throw, Once!Promise!Move
    <2>3. QED
      BY <2>2 DEF Once!Promise!Next
  <1>10. CASE Once!Return(t)
    <2>1. res /\ CallOf(t) = "called" /\ CallOf(t)' = "none" /\ res' = res
      BY <1>10 DEF Once!OneWinner, Once!Return, Once!Goto, CallOf
    <2>2. Once!Promise!Return(t)
      BY <1>1, <1>2, <2>1 DEF Once!Promise!Return, Once!Promise!Move
    <2>3. QED
      BY <2>2 DEF Once!Promise!Next
  <1>11. QED
    BY <1>4, <1>5, <1>6, <1>7, <1>8, <1>9, <1>10 DEF Once!Inside

\* The object is constructed by one call at a time, again only if that threw, and
\* nobody returns without it: the part of ImplementsOnce that is not liveness.
THEOREM RefinesOnceCell == Once!Safety => Once!Promise!Safety
  <1>1. Once!Init => Once!Promise!Init
    BY DEF Once!Init, Once!Promise!Init
  <1>2. ASSUME Once!OneWinner, [Once!SingletonNext]_(Once!singletonVars)
        PROVE  [Once!Promise!Next]_(Once!Promise!cellVars)
    <2>1. CASE Once!SingletonNext
      BY <1>2, <2>1, StepRefines DEF Calls, CallOf, Once!Promise!cellVars
    <2>2. CASE UNCHANGED Once!singletonVars
      BY <2>2 DEF Once!singletonVars, Once!Promise!cellVars
    <2>3. QED
      BY <1>2, <2>1, <2>2
  <1>3. QED
    BY <1>1, <1>2, OneWinnerCorrect, PTL DEF Once!Safety, Once!Promise!Safety
=============================================================================
