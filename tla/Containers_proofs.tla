------------------------- MODULE Containers_proofs --------------------------
(***************************************************************************)
(* Theorems about the modules Vector, InplaceVector and Function, for any  *)
(* capacity, values, functions and callables.                              *)
(*                                                                         *)
(* A call is followed slot by slot.  Of the sequences that a property      *)
(* compares, the lemmas up to PrefixIf say which value is at which place,  *)
(* so that what is left of a step is arithmetic about one slot.            *)
(***************************************************************************)
EXTENDS MCContainers, CardinalityLemmas, SequenceTheorems, TLAPS

----------------------------------------------------------------------------
\* Sequences, by their elements.

\* What a call o asks for, what is left and what is expected of the elements b.
AskedOf(o, b) ==
    [j \in 1 .. o.n |-> IF o.src.kind = "values" THEN o.src.values[j] ELSE b[o.src.at]]

RemainingOf(o, b) == IF o.src.kind = "rvalue" THEN [b EXCEPT ![o.src.at] = Moved] ELSE b

FrontOf(o, b) == SubSeq(RemainingOf(o, b), 1, o.pos - 1)

ExpectedOf(o, b) ==
    CASE o.name = "insert" -> FrontOf(o, b) \o AskedOf(o, b)
                              \o SubSeq(RemainingOf(o, b), o.pos, Len(b))
      [] o.name = "resize" -> FrontOf(o, b) \o AskedOf(o, b)
      [] o.name \in {"assign", "assign_range"} -> AskedOf(o, b)
      [] o.name = "erase" -> FrontOf(o, b) \o SubSeq(b, o.pos + o.n, Len(b))
      [] OTHER -> b

SourceOf(o, b) ==
    /\ o.name # "erase" /\ o.src.kind = "values" => Len(o.src.values) >= o.n
    /\ o.src.kind # "values" => o.src.at \in 1 .. Len(b)
    /\ o.src.kind = "rvalue" => o.name = "insert" /\ o.n = 1

ContentsOf(d, s) == [i \in 1 .. s |-> d[i]]

LEMMA OfCall ==
  /\ Asked = AskedOf(op, before) /\ Remaining = RemainingOf(op, before)
  /\ Expected = ExpectedOf(op, before) /\ (SourceGiven <=> SourceOf(op, before))
  /\ Contents = ContentsOf(data, size)
  BY DEF Asked, AskedOf, Remaining, RemainingOf, Expected, ExpectedOf, InFront, FrontOf,
         SourceGiven, SourceOf, Contents, ContentsOf

LEMMA OfCallNext ==
  /\ Asked' = AskedOf(op', before') /\ Remaining' = RemainingOf(op', before')
  /\ Expected' = ExpectedOf(op', before') /\ (SourceGiven' <=> SourceOf(op', before'))
  /\ Contents' = ContentsOf(data', size')
  BY DEF Asked, AskedOf, Remaining, RemainingOf, Expected, ExpectedOf, InFront, FrontOf,
         SourceGiven, SourceOf, Contents, ContentsOf

LEMMA OpsHave ==
  ASSUME NEW o \in Ops
  PROVE  /\ o.pos \in 1 .. MaxSize + 1 /\ o.n \in Nat /\ o.grows \in BOOLEAN
         /\ o.src.kind \in {"values", "element", "rvalue"}
         /\ o.src.values \in Seq(Objects) /\ o.src.at \in 0 .. MaxSize
         /\ o.name \in {"none", "insert", "assign", "assign_range", "resize", "reserve",
                        "shrink", "erase"}
  BY DEF Ops, Sources

LEMMA AskedIs ==
  ASSUME NEW o \in Ops, NEW b \in Seq(Objects), SourceOf(o, b), o.name # "erase"
  PROVE  /\ AskedOf(o, b) \in Seq(Objects) /\ Len(AskedOf(o, b)) = o.n
         /\ \A j \in 1 .. o.n :
               AskedOf(o, b)[j] = IF o.src.kind = "values" THEN o.src.values[j]
                                  ELSE b[o.src.at]
  <1>1. o.n \in Nat /\ o.src.values \in Seq(Objects)
    BY OpsHave
  <1>2. \A j \in 1 .. o.n :
            (IF o.src.kind = "values" THEN o.src.values[j] ELSE b[o.src.at]) \in Objects
    <2>1. CASE o.src.kind = "values"
      <3>1. Len(o.src.values) >= o.n
        BY <2>1 DEF SourceOf
      <3>2. QED
        BY <1>1, <2>1, <3>1, ElementOfSeq
    <2>2. CASE o.src.kind # "values"
      BY <2>2, ElementOfSeq DEF SourceOf
    <2>3. QED
      BY <1>1, <2>1, <2>2
  <1>3. QED
    BY <1>1, <1>2 DEF AskedOf

LEMMA RemainingIs ==
  ASSUME NEW o \in Ops, NEW b \in Seq(Objects), SourceOf(o, b)
  PROVE  /\ RemainingOf(o, b) \in Seq(Objects) /\ Len(RemainingOf(o, b)) = Len(b)
         /\ \A i \in 1 .. Len(b) :
               RemainingOf(o, b)[i] = IF o.src.kind = "rvalue" /\ i = o.src.at THEN Moved
                                      ELSE b[i]
  <1>1. CASE o.src.kind = "rvalue"
    BY <1>1, ExceptSeq DEF SourceOf, RemainingOf, Objects
  <1>2. CASE o.src.kind # "rvalue"
    BY <1>2 DEF RemainingOf
  <1>3. QED
    BY <1>1, <1>2

LEMMA FrontIs ==
  ASSUME NEW o \in Ops, NEW b \in Seq(Objects), SourceOf(o, b), o.pos <= Len(b) + 1
  PROVE  /\ FrontOf(o, b) \in Seq(Objects) /\ Len(FrontOf(o, b)) = o.pos - 1
         /\ \A i \in 1 .. o.pos - 1 : FrontOf(o, b)[i] = RemainingOf(o, b)[i]
  <1>1. o.pos \in Nat \ {0} /\ Len(b) \in Nat
    BY OpsHave, SlotsAssumption
  <1>2. \A i \in 1 .. o.pos - 1 : RemainingOf(o, b)[i] \in Objects
    BY <1>1, RemainingIs, ElementOfSeq
  <1>3. QED
    BY <1>1, <1>2, SubSeqProperties DEF FrontOf

LEMMA Joined ==
  ASSUME NEW u \in Seq(Objects), NEW v \in Seq(Objects)
  PROVE  /\ u \o v \in Seq(Objects) /\ Len(u \o v) = Len(u) + Len(v)
         /\ \A i \in 1 .. Len(u) + Len(v) :
               (u \o v)[i] = IF i <= Len(u) THEN u[i] ELSE v[i - Len(u)]
  BY ConcatProperties

LEMMA Piece ==
  ASSUME NEW r \in Seq(Objects), NEW p \in Nat, NEW l \in Nat, Len(r) = l, p <= l
  PROVE  /\ SubSeq(r, 1, p) \in Seq(Objects) /\ Len(SubSeq(r, 1, p)) = p
         /\ \A i \in 1 .. p : SubSeq(r, 1, p)[i] = r[i]
         /\ SubSeq(r, p + 1, l) \in Seq(Objects) /\ Len(SubSeq(r, p + 1, l)) = l - p
         /\ \A i \in 1 .. l - p : SubSeq(r, p + 1, l)[i] = r[i + p]
  <1>1. \A i \in 1 .. l : r[i] \in Objects
    BY ElementOfSeq
  <1>2. /\ SubSeq(r, 1, p) \in Seq(Objects) /\ Len(SubSeq(r, 1, p)) = p
        /\ \A i \in 1 .. p : SubSeq(r, 1, p)[i] = r[i]
    <2>1. \A i \in 1 .. p : r[i] \in Objects
      BY <1>1
    <2>2. QED
      BY <2>1, SubSeqProperties
  <1>3. /\ SubSeq(r, p + 1, l) \in Seq(Objects) /\ Len(SubSeq(r, p + 1, l)) = l - p
        /\ \A i \in 1 .. l - p : SubSeq(r, p + 1, l)[i] = r[p + 1 + i - 1]
    <2>1. \A i \in p + 1 .. l : r[i] \in Objects
      BY <1>1
    <2>2. /\ l - (p + 1) + 1 = l - p
          /\ p + 1 <= l => l - (p + 1) + 1 = l - p
          /\ ~(p + 1 <= l) => 0 = l - p
      OBVIOUS
    <2>3. QED
      BY <2>1, <2>2, SubSeqProperties
  <1>4. \A i \in 1 .. l - p : p + 1 + i - 1 = i + p
    OBVIOUS
  <1>5. QED
    BY <1>2, <1>3, <1>4

LEMMA InsertIs ==
  ASSUME NEW o \in Ops, NEW b \in Seq(Objects), SourceOf(o, b), o.pos <= Len(b) + 1,
         o.name = "insert"
  PROVE  /\ ExpectedOf(o, b) \in Seq(Objects) /\ Len(ExpectedOf(o, b)) = Len(b) + o.n
         /\ \A i \in 1 .. Len(b) + o.n :
               ExpectedOf(o, b)[i] =
                  IF i < o.pos THEN RemainingOf(o, b)[i]
                  ELSE IF i < o.pos + o.n THEN AskedOf(o, b)[i - (o.pos - 1)]
                  ELSE RemainingOf(o, b)[i - o.n]
  <1>1. PICK p \in Nat, n \in Nat, l \in Nat :
          o.pos = p + 1 /\ o.n = n /\ Len(b) = l /\ p <= l /\ o.pos - 1 = p
    <2>1. o.pos - 1 \in Nat /\ o.n \in Nat /\ Len(b) \in Nat
      BY OpsHave, SlotsAssumption
    <2>2. o.pos = (o.pos - 1) + 1 /\ o.pos - 1 <= Len(b)
      BY OpsHave, SlotsAssumption, LenProperties
    <2>3. QED
      BY <1>1, <2>1, <2>2
  <1> DEFINE r == RemainingOf(o, b)
             a == AskedOf(o, b)
             f == SubSeq(r, 1, p)
             t == SubSeq(r, p + 1, l)
  <1>2. r \in Seq(Objects) /\ Len(r) = l /\ a \in Seq(Objects) /\ Len(a) = n
    BY <1>1, RemainingIs, AskedIs
  <1>3. ExpectedOf(o, b) = (f \o a) \o t
    BY <1>1 DEF ExpectedOf, FrontOf
  <1> HIDE DEF r, a
  <1>4. /\ f \in Seq(Objects) /\ Len(f) = p /\ \A i \in 1 .. p : f[i] = r[i]
        /\ t \in Seq(Objects) /\ Len(t) = l - p /\ \A i \in 1 .. l - p : t[i] = r[i + p]
    BY <1>1, <1>2, Piece
  <1> HIDE DEF f, t
  <1> DEFINE g == f \o a
  <1>5. /\ g \in Seq(Objects) /\ Len(g) = p + n
        /\ \A i \in 1 .. p + n : g[i] = IF i <= p THEN f[i] ELSE a[i - p]
    <2>1. f \in Seq(Objects) /\ a \in Seq(Objects) /\ Len(f) = p /\ Len(a) = n
      BY <1>2, <1>4
    <2>2. QED
      BY <2>1, Joined
  <1> HIDE DEF g
  <1> DEFINE x == g \o t
  <1>6. /\ x \in Seq(Objects) /\ Len(x) = (p + n) + (l - p)
        /\ \A i \in 1 .. (p + n) + (l - p) :
              x[i] = IF i <= p + n THEN g[i] ELSE t[i - (p + n)]
    <2>1. /\ g \in Seq(Objects) /\ t \in Seq(Objects)
          /\ Len(g) = p + n /\ Len(t) = l - p
      BY <1>4, <1>5
    <2>2. /\ x \in Seq(Objects) /\ Len(x) = Len(g) + Len(t)
          /\ \A i \in 1 .. Len(g) + Len(t) :
                x[i] = IF i <= Len(g) THEN g[i] ELSE t[i - Len(g)]
      BY <2>1, Joined
    <2>3. QED
      BY <2>1, <2>2
  <1> HIDE DEF x
  <1>7. (p + n) + (l - p) = l + n
    BY <1>1
  <1>n. p \in Nat /\ n \in Nat /\ l \in Nat
    BY <1>1
  <1>8. ASSUME NEW i \in 1 .. l + n
        PROVE  x[i] = IF i <= p THEN r[i] ELSE IF i <= p + n THEN a[i - p] ELSE r[i - n]
    <2>1. CASE i <= p
      BY <1>4, <1>5, <1>6, <1>7, <2>1
    <2>2. CASE i > p /\ i <= p + n
      BY <1>n, <1>5, <1>6, <1>7, <2>2
    <2>3. CASE i > p + n
      <3>1. i - (p + n) \in 1 .. l - p /\ i - (p + n) + p = i - n
        BY <1>1, <2>3
      <3>2. t[i - (p + n)] = r[i - n]
        BY <1>4, <3>1
      <3>3. x[i] = t[i - (p + n)]
        BY <1>6, <1>7, <2>3
      <3>4. QED
        BY <2>3, <3>2, <3>3
    <2>4. QED
      BY <1>n, <2>1, <2>2, <2>3
  <1>9. \A i \in 1 .. l + n : (i < p + 1 <=> i <= p) /\ (i < p + 1 + n <=> i <= p + n)
    OBVIOUS
  <1>10. QED
    BY <1>1, <1>3, <1>6, <1>7, <1>8, <1>9 DEF x, g, r, a

LEMMA ResizeIs ==
  ASSUME NEW o \in Ops, NEW b \in Seq(Objects), SourceOf(o, b), o.pos <= Len(b) + 1,
         o.name = "resize"
  PROVE  /\ ExpectedOf(o, b) \in Seq(Objects) /\ Len(ExpectedOf(o, b)) = o.pos - 1 + o.n
         /\ \A i \in 1 .. o.pos - 1 + o.n :
               ExpectedOf(o, b)[i] = IF i < o.pos THEN RemainingOf(o, b)[i]
                                     ELSE AskedOf(o, b)[i - (o.pos - 1)]
  <1>1. PICK p \in Nat, n \in Nat, l \in Nat :
          o.pos = p + 1 /\ o.n = n /\ Len(b) = l /\ p <= l /\ o.pos - 1 = p
    <2>1. o.pos - 1 \in Nat /\ o.n \in Nat /\ Len(b) \in Nat
      BY OpsHave, SlotsAssumption
    <2>2. o.pos = (o.pos - 1) + 1 /\ o.pos - 1 <= Len(b)
      BY OpsHave, SlotsAssumption, LenProperties
    <2>3. QED
      BY <2>1, <2>2
  <1> DEFINE r == RemainingOf(o, b)
             a == AskedOf(o, b)
             f == SubSeq(r, 1, p)
  <1>2. r \in Seq(Objects) /\ Len(r) = l /\ a \in Seq(Objects) /\ Len(a) = n
    BY <1>1, RemainingIs, AskedIs
  <1>3. ExpectedOf(o, b) = f \o a
    BY <1>1 DEF ExpectedOf, FrontOf
  <1> HIDE DEF r, a
  <1>4. f \in Seq(Objects) /\ Len(f) = p /\ \A i \in 1 .. p : f[i] = r[i]
    BY <1>1, <1>2, Piece
  <1> HIDE DEF f
  <1>5. /\ f \o a \in Seq(Objects) /\ Len(f \o a) = p + n
        /\ \A i \in 1 .. p + n : (f \o a)[i] = IF i <= p THEN f[i] ELSE a[i - p]
    <2>1. f \in Seq(Objects) /\ a \in Seq(Objects) /\ Len(f) = p /\ Len(a) = n
      BY <1>2, <1>4
    <2>2. QED
      BY <2>1, Joined
  <1>6. \A i \in 1 .. p + n : i < p + 1 <=> i <= p
    OBVIOUS
  <1>7. \A i \in 1 .. p + n : (f \o a)[i] = IF i <= p THEN r[i] ELSE a[i - p]
    BY <1>4, <1>5
  <1>8. QED
    BY <1>1, <1>3, <1>5, <1>6, <1>7 DEF r, a

LEMMA EraseIs ==
  ASSUME NEW o \in Ops, NEW b \in Seq(Objects), o.src.kind # "rvalue",
         o.pos + o.n <= Len(b) + 1, o.name = "erase"
  PROVE  /\ ExpectedOf(o, b) \in Seq(Objects) /\ Len(ExpectedOf(o, b)) = Len(b) - o.n
         /\ \A i \in 1 .. Len(b) - o.n :
               ExpectedOf(o, b)[i] = IF i < o.pos THEN b[i] ELSE b[i + o.n]
  <1>1. PICK p \in Nat, n \in Nat, l \in Nat :
          o.pos = p + 1 /\ o.n = n /\ Len(b) = l /\ p + n <= l /\ o.pos - 1 = p
    <2>1. o.pos - 1 \in Nat /\ o.n \in Nat /\ Len(b) \in Nat
      BY OpsHave, SlotsAssumption
    <2>2. o.pos = (o.pos - 1) + 1 /\ (o.pos - 1) + o.n <= Len(b)
      BY OpsHave, SlotsAssumption, LenProperties
    <2>3. QED
      BY <2>1, <2>2
  <1> DEFINE f == SubSeq(b, 1, p)
             t == SubSeq(b, p + n + 1, l)
  <1>2. ExpectedOf(o, b) = f \o t
    <2>1. p + 1 + n = p + n + 1
      OBVIOUS
    <2>2. QED
      BY <1>1, <2>1 DEF ExpectedOf, FrontOf, RemainingOf
  <1>3. f \in Seq(Objects) /\ Len(f) = p /\ \A i \in 1 .. p : f[i] = b[i]
    BY <1>1, Piece
  <1>4. /\ t \in Seq(Objects) /\ Len(t) = l - (p + n)
        /\ \A i \in 1 .. l - (p + n) : t[i] = b[i + (p + n)]
    <2>1. p + n \in Nat
      OBVIOUS
    <2>2. QED
      BY <1>1, <2>1, Piece
  <1> HIDE DEF f, t
  <1>5. /\ f \o t \in Seq(Objects) /\ Len(f \o t) = p + (l - (p + n))
        /\ \A i \in 1 .. p + (l - (p + n)) : (f \o t)[i] = IF i <= p THEN f[i] ELSE t[i - p]
    <2>1. f \in Seq(Objects) /\ t \in Seq(Objects) /\ Len(f) = p /\ Len(t) = l - (p + n)
      BY <1>3, <1>4
    <2>2. QED
      BY <2>1, Joined
  <1>6. p + (l - (p + n)) = l - n
    BY <1>1
  <1>n. p \in Nat /\ n \in Nat /\ l \in Nat
    BY <1>1
  <1>7. ASSUME NEW i \in 1 .. l - n
        PROVE  (f \o t)[i] = IF i <= p THEN b[i] ELSE b[i + n]
    <2>1. CASE i <= p
      BY <1>3, <1>5, <1>6, <2>1
    <2>2. CASE i > p
      <3>1. i - p \in 1 .. l - (p + n) /\ i - p + (p + n) = i + n
        BY <1>1, <2>2
      <3>2. QED
        BY <1>1, <1>4, <1>5, <1>6, <2>2, <3>1
    <2>3. i <= p \/ i > p
      BY <1>n
    <2>4. QED
      BY <2>1, <2>2, <2>3
  <1>8. \A i \in 1 .. l - n : i < p + 1 <=> i <= p
    OBVIOUS
  <1>9. QED
    BY <1>1, <1>2, <1>5, <1>6, <1>7, <1>8

LEMMA OthersAre ==
  ASSUME NEW o \in Ops, NEW b \in Seq(Objects)
  PROVE  /\ o.name \in {"assign", "assign_range"} => ExpectedOf(o, b) = AskedOf(o, b)
         /\ o.name \in {"none", "reserve", "shrink"} => ExpectedOf(o, b) = b
  BY DEF ExpectedOf

\* What the slots have to hold to be a sequence, or the front of one.
LEMMA ContentsAre ==
  ASSUME NEW s \in Nat, NEW d, \A i \in 1 .. s : d[i] \in Objects
  PROVE  /\ ContentsOf(d, s) \in Seq(Objects) /\ Len(ContentsOf(d, s)) = s
         /\ \A i \in 1 .. s : ContentsOf(d, s)[i] = d[i]
  BY DEF ContentsOf

LEMMA SequenceIf ==
  ASSUME NEW s \in Nat, NEW d, NEW t \in Seq(Objects),
         s = Len(t), \A i \in 1 .. s : d[i] = t[i]
  PROVE  ContentsOf(d, s) = t
  <1>1. \A i \in 1 .. s : d[i] \in Objects
    BY ElementOfSeq
  <1>2. QED
    BY <1>1, ContentsAre, SeqEqual

LEMMA PrefixIf ==
  ASSUME NEW s \in Nat, NEW d, NEW t \in Seq(Objects),
         s <= Len(t), \A i \in 1 .. s : d[i] = t[i]
  PROVE  IsPrefix(ContentsOf(d, s), t)
  <1> DEFINE c == ContentsOf(d, s)
  <1>1. Len(t) \in Nat /\ \A i \in 1 .. s : t[i] \in Objects
    BY LenProperties, ElementOfSeq
  <1>2. c \in Seq(Objects) /\ Len(c) = s /\ \A i \in 1 .. s : c[i] = t[i]
    BY <1>1, ContentsAre
  <1> HIDE DEF c
  <1>3. SubSeq(c, 1, s) = c
    BY <1>2, SubSeqFull
  <1>4. /\ SubSeq(t, 1, s) \in Seq(Objects) /\ Len(SubSeq(t, 1, s)) = s
        /\ \A i \in 1 .. s : SubSeq(t, 1, s)[i] = t[i]
    BY <1>1, SubSeqProperties
  <1>5. SubSeq(t, 1, s) = c
    BY <1>2, <1>4, SeqEqual
  <1>6. QED
    BY <1>2, <1>3, <1>5 DEF IsPrefix, c

----------------------------------------------------------------------------
\* The slots, one by one.

Occupied(i, s, r) == i <= s \/ (r.lo <= i /\ i < r.hi)

Apart(s, r) == r.hi <= r.lo \/ s < r.lo

Ranges == [lo : 1 .. MaxSize + 1, hi : 1 .. MaxSize + 1]

LEMMA AccountedBySlot ==
  ASSUME NEW d, NEW s \in 0 .. MaxSize, NEW r \in Ranges
  PROVE  (/\ {i \in Positions : d[i] # Raw} = 1 .. s \cup r.lo .. r.hi - 1
          /\ \A i \in r.lo .. r.hi - 1 : i > s)
         <=> (/\ \A i \in Positions : d[i] # Raw <=> Occupied(i, s, r)
              /\ Apart(s, r))
  <1>1. /\ MaxSize \in Nat /\ s \in Nat /\ s <= MaxSize
        /\ r.lo \in Nat \ {0} /\ r.hi \in Nat \ {0} /\ r.hi <= MaxSize + 1
    BY SlotsAssumption DEF Ranges
  <1>2. (\A i \in r.lo .. r.hi - 1 : i > s) <=> Apart(s, r)
    <2>1. r.lo <= r.hi - 1 => r.lo \in r.lo .. r.hi - 1
      BY <1>1
    <2>2. QED
      BY <1>1, <2>1 DEF Apart
  <1>3. \A i : i \in 1 .. s \cup r.lo .. r.hi - 1 <=> i \in Positions /\ Occupied(i, s, r)
    BY <1>1 DEF Positions, Occupied
  <1>4. QED
    BY <1>2, <1>3

LEMMA AccountedNow ==
  ASSUME TypeOK
  PROVE  ElementsAccounted <=> /\ \A i \in Positions : data[i] # Raw <=> Occupied(i, size, rd)
                               /\ Apart(size, rd)
  <1>1. size \in 0 .. MaxSize /\ rd \in Ranges
    BY DEF TypeOK, Ranges
  <1>2. QED
    BY <1>1, AccountedBySlot DEF ElementsAccounted

LEMMA AccountedNext ==
  ASSUME TypeOK'
  PROVE  ElementsAccounted' <=> /\ \A i \in Positions : data'[i] # Raw <=> Occupied(i, size', rd')
                                /\ Apart(size', rd')
  <1>1. size' \in 0 .. MaxSize /\ rd' \in Ranges
    BY DEF TypeOK, Ranges
  <1>2. QED
    BY <1>1, AccountedBySlot DEF ElementsAccounted

LEMMA Numbers ==
  ASSUME TypeOK
  PROVE  /\ MaxSize \in Nat \ {0} /\ size \in Nat /\ size <= MaxSize
         /\ op.pos \in Nat \ {0} /\ op.pos <= MaxSize + 1 /\ op.n \in Nat
         /\ rd.lo \in Nat \ {0} /\ rd.hi \in Nat \ {0}
         /\ rd.lo <= MaxSize + 1 /\ rd.hi <= MaxSize + 1
         /\ step \in Nat /\ Len(before) \in Nat /\ op.src.at \in Nat
  BY SlotsAssumption, OpsHave, LenProperties DEF TypeOK

\* A slot that is not raw memory has an object in it.
LEMMA ObjectIn ==
  ASSUME TypeOK, ElementsAccounted, NEW i \in Positions, Occupied(i, size, rd)
  PROVE  data[i] \in Objects
  BY AccountedNow DEF TypeOK

\* The call and what it began with stay: so does what it asks for.
LEMMA CallKept ==
  ASSUME UNCHANGED <<op, before>>
  PROVE  /\ Asked' = Asked /\ Remaining' = Remaining /\ Expected' = Expected
         /\ SourceGiven' <=> SourceGiven
  BY OfCall, OfCallNext

\* Until it returns, nothing is promised of a call.
LEMMA NotYet ==
  ASSUME pc' # "return"
  PROVE  DoneAsAsked' /\ ThrowKeeps'
  BY DEF DoneAsAsked, ThrowKeeps

\* A call that returns has what is expected of it.
LEMMA ReturnsIf ==
  ASSUME TypeOK, SourceGiven, op.pos <= Len(before) + 1, UNCHANGED <<op, before>>,
         ~threw', size' \in Nat, Expected \in Seq(Objects),
         size' = Len(Expected), \A i \in 1 .. size' : data'[i] = Expected[i]
  PROVE  DoneAsAsked' /\ ThrowKeeps'
  <1>1. Contents' = Expected'
    BY CallKept, OfCallNext, SequenceIf
  <1>2. QED
    BY <1>1 DEF DoneAsAsked, ThrowKeeps

----------------------------------------------------------------------------
\* Reading the values of a call.

\* The parts of the invariant.
LEMMA InvParts ==
  ASSUME NEW room, SlotsInv(room)
  PROVE  /\ TypeOK /\ ElementsAccounted /\ LoopsFollow(room) /\ DoneAsAsked /\ ThrowKeeps
         /\ SourceGiven /\ size <= room /\ op.pos <= Len(before) + 1
         /\ op \in Ops /\ before \in Seq(Objects)
         /\ data \in [Positions -> Objects \cup {Raw}]
  BY DEF SlotsInv, LoopsFollow, TypeOK

LEMMA ReadInFill ==
  ASSUME NEW room \in 0 .. MaxSize, SlotsInv(room), pc = "fill", Made < op.n,
         op.src.kind # "values"
  PROVE  /\ ReadAt \in Positions /\ Occupied(ReadAt, size, rd)
         /\ data[ReadAt] = before[op.src.at] /\ op.src.at \in 1 .. Len(before)
  <1>1. /\ Filling(room) /\ op.src.at \in 1 .. Len(before)
        /\ op.pos <= Len(before) + 1 /\ TypeOK
    BY InvParts DEF LoopsFollow, SourceGiven
  <1>n. PICK s \in Nat, p \in Nat, n \in Nat, l \in Nat, lo \in Nat, hi \in Nat,
             max \in Nat, at \in Nat :
          /\ size = s /\ op.pos = p /\ op.n = n /\ Len(before) = l
          /\ rd.lo = lo /\ rd.hi = hi /\ MaxSize = max /\ op.src.at = at
    BY <1>1, Numbers
  <1>2. /\ TailCount = hi - lo /\ Made = s - (p - 1)
        /\ s <= max /\ 1 <= p /\ p <= l + 1 /\ hi <= max + 1 /\ 1 <= at /\ at <= l
        /\ s - (p - 1) < n
    BY <1>1, <1>n, Numbers DEF TailCount, Made
  <1>3. CASE op.name \in {"insert", "resize"}
    <2>1. /\ p - 1 <= s
          /\ hi - lo = l - (p - 1)
          /\ hi - lo > 0 => lo = p + n
          /\ \A i \in 1 .. p - 1 : data[i] = before[i]
          /\ \A i \in lo .. hi - 1 : data[i] = before[i - n]
      BY <1>1, <1>n, <1>2, <1>3 DEF Filling, Rest
    <2>2. CASE hi - lo > 0 /\ at >= p
      <3>1. ReadAt = at + n
        BY <1>n, <1>2, <2>2 DEF ReadAt
      <3>2. /\ at + n \in lo .. hi - 1 /\ at + n \in 1 .. max /\ at + n - n = at
            /\ lo <= at + n /\ at + n < hi
        BY <1>n, <1>2, <2>1, <2>2
      <3>3. data[at + n] = before[at]
        BY <2>1, <3>2
      <3>4. QED
        BY <1>1, <1>n, <3>1, <3>2, <3>3 DEF Occupied, Positions
    <2>3. CASE ~(hi - lo > 0 /\ at >= p)
      <3>1. ReadAt = at
        BY <1>n, <1>2, <2>3 DEF ReadAt
      <3>2. at \in 1 .. p - 1 /\ at <= s /\ at \in 1 .. max
        BY <1>n, <1>2, <2>1, <2>3
      <3>3. QED
        BY <1>1, <1>n, <2>1, <3>1, <3>2 DEF Occupied, Positions
    <2>4. QED
      BY <2>2, <2>3
  <1>4. CASE op.name \notin {"insert", "resize"}
    <2>1. /\ p = 1 /\ rd = Empty /\ at <= s
          /\ \A j \in 1 .. s : data[op.pos - 1 + j] = Asked[j]
      BY <1>1, <1>n, <1>2, <1>4, SMTT(40) DEF Filling
    <2>2. ReadAt = at
      BY <1>n, <2>1 DEF ReadAt, TailCount, Empty
    <2>3. at \in 1 .. s /\ at \in 1 .. n /\ at \in 1 .. max /\ op.pos - 1 + at = at
      BY <1>n, <1>2, <2>1
    <2>4. Asked[at] = before[at]
      BY <1>n, <2>3 DEF Asked
    <2>5. QED
      BY <1>1, <1>n, <2>1, <2>2, <2>3, <2>4 DEF Occupied, Positions
  <1>5. QED
    BY <1>3, <1>4

LEMMA ReadInOverwrite ==
  ASSUME NEW room \in 0 .. MaxSize, SlotsInv(room), pc = "overwrite",
         op.src.kind # "values"
  PROVE  /\ ReadAt = op.src.at /\ ReadAt \in 1 .. size /\ op.src.at \in 1 .. Len(before)
         /\ data[ReadAt] = before[op.src.at]
  <1>1. rd = Empty /\ Overwriting(room) /\ op.src.at \in 1 .. Len(before)
    BY InvParts DEF LoopsFollow, SourceGiven
  <1>2. ReadAt = op.src.at
    BY <1>1 DEF ReadAt, TailCount, Empty
  <1>3. QED
    BY <1>1, <1>2, InvParts, Numbers DEF Overwriting

\* The next value is the one asked for, and an object.
LEMMA NextValue ==
  ASSUME SourceGiven, op \in Ops, before \in Seq(Objects), NEW j \in 1 .. op.n,
         op.name # "erase",
         op.src.kind # "values" => data[ReadAt] = before[op.src.at]
  PROVE  Value(j) = Asked[j] /\ Asked[j] \in Objects
  <1>1. Asked \in Seq(Objects) /\ Len(Asked) = op.n
    BY OfCall, AskedIs
  <1>2. Asked[j] \in Objects
    BY <1>1, ElementOfSeq
  <1>3. Value(j) = Asked[j]
    BY DEF Value, Asked
  <1>4. QED
    BY <1>2, <1>3

----------------------------------------------------------------------------
\* The loops within the capacity, step by step.

\* Fill makes one more value behind the others.
LEMMA FillKeeps ==
  ASSUME NEW room \in 0 .. MaxSize, SlotsInv(room), Fill
  PROVE  SlotsInv(room)'
  <1>1. /\ Filling(room) /\ TypeOK /\ ElementsAccounted /\ SourceGiven /\ LoopsFollow(room)
        /\ op \in Ops /\ before \in Seq(Objects) /\ data \in [Positions -> Objects \cup {Raw}]
        /\ pc = "fill" /\ Made < op.n /\ op.pos <= Len(before) + 1
    BY InvParts DEF LoopsFollow, Fill
  <1>n. PICK s \in Nat, p \in Nat, n \in Nat, l \in Nat, lo \in Nat, hi \in Nat,
             max \in Nat, m \in Nat, at \in Nat :
          /\ size = s /\ op.pos = p /\ op.n = n /\ Len(before) = l
          /\ rd.lo = lo /\ rd.hi = hi /\ MaxSize = max /\ room = m /\ op.src.at = at
    <2>1. room \in Nat
      BY SlotsAssumption
    <2>2. QED
      BY <1>1, <2>1, Numbers
  <1>t. /\ s \in Nat /\ p \in Nat /\ n \in Nat /\ l \in Nat /\ lo \in Nat /\ hi \in Nat
        /\ max \in Nat /\ m \in Nat /\ at \in Nat
    BY <1>n
  <1>2. /\ TailCount = hi - lo /\ Made = s - (p - 1) /\ p - 1 <= s /\ s - (p - 1) < n
        /\ 1 <= p /\ p <= l + 1 /\ hi <= max + 1 /\ 1 <= lo /\ m <= max
        /\ p - 1 + n + (hi - lo) <= m
        /\ hi - lo = l - (p - 1) \/ (lo = 1 /\ hi = 1 /\ p = 1)
        /\ hi - lo > 0 => lo = p + n
    BY <1>1, <1>n, Numbers DEF TailCount, Made, Filling, Empty
  <1>3. /\ s + 1 <= m /\ s + 1 \in 1 .. max /\ (hi > lo => s + 1 < lo)
        /\ s - (p - 1) + 1 \in 1 .. n
    BY <1>n, <1>2
  <1> DEFINE w == Asked[s - (p - 1) + 1]
  <1>4. op.name # "erase"
    BY <1>1 DEF Filling
  <1>5. Value(Made + 1) = w /\ w \in Objects
    BY <1>1, <1>n, <1>2, <1>3, <1>4, NextValue, ReadInFill
  <1>6. /\ UNCHANGED <<traits, rd, op, pc, step, before, threw>> /\ size' = s + 1
        /\ data' = [AfterRead EXCEPT ![s + 1] = w]
    BY <1>1, <1>n, <1>2, <1>5 DEF Fill
  <1>7. /\ data' \in [Positions -> Objects \cup {Raw}]
        /\ \A i \in Positions :
              data'[i] = IF i = s + 1 THEN w
                         ELSE IF op.src.kind = "rvalue" /\ i = ReadAt THEN Moved ELSE data[i]
    <2>1. /\ AfterRead \in [Positions -> Objects \cup {Raw}]
          /\ \A i \in Positions :
                AfterRead[i] = IF op.src.kind = "rvalue" /\ i = ReadAt THEN Moved ELSE data[i]
      BY <1>1 DEF AfterRead, Objects
    <2>2. QED
      BY <1>5, <1>6, <2>1
  <1> HIDE DEF w
  <1>8. TypeOK'
    BY <1>1, <1>3, <1>6, <1>7, <1>n DEF TypeOK
  <1>9. ElementsAccounted'
    <2>1. Apart(size', rd')
      BY <1>3, <1>6, <1>n DEF Apart
    <2>2. ASSUME NEW i \in Positions
          PROVE  data'[i] # Raw <=> Occupied(i, size', rd')
      <3>1. data[i] # Raw <=> Occupied(i, size, rd)
        BY <1>1, AccountedNow
      <3>2. Occupied(i, size', rd') <=> i = s + 1 \/ Occupied(i, size, rd)
        <4>1. i \in Nat
          BY <1>n DEF Positions
        <4>2. i <= s + 1 <=> i = s + 1 \/ i <= s
          BY <4>1
        <4>3. QED
          BY <1>6, <1>n, <4>2 DEF Occupied
      <3>3. op.src.kind = "rvalue" => Occupied(ReadAt, size, rd)
        BY <1>1, ReadInFill
      <3>4. w # Raw /\ Moved # Raw
        BY <1>5, SlotsAssumption DEF Objects
      <3>5. QED
        BY <1>7, <3>1, <3>2, <3>3, <3>4
    <2>3. QED
      BY <1>8, <2>1, <2>2, AccountedNext
  <1>10. /\ Asked' = Asked /\ Remaining' = Remaining /\ SourceGiven'
         /\ TailCount' = TailCount /\ Made' = s - (p - 1) + 1
    <2>1. s + 1 - (p - 1) = s - (p - 1) + 1
      BY <1>n
    <2>2. QED
      BY <1>1, <1>6, <1>n, <2>1, CallKept DEF TailCount, Made
  <1>11. \A j \in 1 .. s - (p - 1) + 1 : data'[p - 1 + j] = Asked[j]
    <2>1. ASSUME NEW j \in 1 .. s - (p - 1) + 1
          PROVE  data'[p - 1 + j] = Asked[j]
      <3>1. p - 1 + j \in 1 .. max
        BY <1>n, <1>2, <1>3
      <3>2. CASE j = s - (p - 1) + 1
        <4>1. p - 1 + j = s + 1
          BY <1>n, <3>2
        <4>2. QED
          BY <1>7, <1>n, <3>1, <3>2, <4>1 DEF w, Positions
      <3>3. CASE j # s - (p - 1) + 1
        <4>1. /\ j \in 1 .. s - (p - 1) /\ p - 1 + j # s + 1
              /\ n > 1
          BY <1>n, <1>2, <3>3
        <4>2. op.src.kind # "rvalue"
          BY <1>1, <1>n, <4>1 DEF SourceGiven
        <4>3. data[p - 1 + j] = Asked[j]
          BY <1>1, <1>2, <1>n, <4>1 DEF Filling
        <4>4. QED
          BY <1>7, <1>n, <3>1, <4>1, <4>2, <4>3 DEF Positions
      <3>4. QED
        BY <3>2, <3>3
    <2>2. QED
      BY <2>1
  <1>12. ASSUME op.name \in {"insert", "resize"} PROVE Filling(room)'
    <2>1. /\ op.name = "insert" => ~op.grows
          /\ hi - lo = l - (p - 1)
          /\ hi - lo > 0 => op.name = "insert"
          /\ \A i \in 1 .. p - 1 : data[i] = before[i]
          /\ \A i \in lo .. hi - 1 : data[i] = before[i - n]
      BY <1>1, <1>2, <1>n, <1>12 DEF Filling, Rest
    <2>2. Rest' = Remaining
      <3>1. CASE Made' < op'.n
        <4>1. op.src.kind # "rvalue"
          BY <1>1, <1>2, <1>6, <1>10, <1>n, <3>1 DEF SourceGiven
        <4>2. QED
          BY <1>6, <3>1, <4>1 DEF Rest, Remaining
      <3>2. CASE ~(Made' < op'.n)
        BY <1>10, <3>2 DEF Rest
      <3>3. QED
        BY <3>1, <3>2
    <2>3. \A i \in 1 .. l :
             Remaining[i] = IF op.src.kind = "rvalue" /\ i = op.src.at THEN Moved
                            ELSE before[i]
      BY <1>1, <1>n, OfCall, RemainingIs
    <2>4. ReadAt = IF hi - lo > 0 /\ at >= p THEN at + n ELSE at
      BY <1>2, <1>n DEF ReadAt
    <2>5. op.src.kind = "rvalue" => 1 <= at /\ at <= l
      BY <1>1, <1>n DEF SourceGiven
    <2>6. ASSUME NEW i \in 1 .. p - 1
          PROVE  data'[i] = Remaining[i]
      <3>1. i \in 1 .. l /\ i \in 1 .. max /\ i # s + 1
        BY <1>n, <1>2, <1>3
      <3>2. op.src.kind = "rvalue" => (i = ReadAt <=> i = at)
        BY <1>n, <1>2, <2>4, <2>5
      <3>3. QED
        BY <1>7, <1>n, <2>1, <2>3, <3>1, <3>2 DEF Positions
    <2>7. ASSUME NEW i \in lo .. hi - 1
          PROVE  data'[i] = Remaining[i - n]
      <3>a. i \in Nat /\ lo <= i /\ i < hi /\ hi > lo
        BY <1>n
      <3>1. i \in 1 .. max /\ i # s + 1 /\ i - n \in 1 .. l /\ i - n >= p /\ hi - lo > 0
        BY <1>n, <1>2, <1>3, <2>1, <3>a
      <3>2. op.src.kind = "rvalue" => (i = ReadAt <=> i - n = at)
        BY <1>t, <2>4, <2>5, <3>1, <3>a
      <3>3. QED
        BY <1>7, <1>n, <2>1, <2>3, <3>1, <3>2 DEF Positions
    <2>8. QED
      <3>1. /\ op'.pos = p /\ op'.n = n /\ rd'.lo = lo /\ rd'.hi = hi /\ Len(before') = l
            /\ TailCount' = hi - lo
        BY <1>2, <1>6, <1>10, <1>n
      <3>2. /\ p - 1 <= s + 1 /\ s - (p - 1) + 1 <= n
        BY <1>2, <1>t
      <3>3. QED
        BY <1>2, <1>6, <1>10, <1>11, <1>12, <1>n, <2>1, <2>2, <2>6, <2>7, <3>1, <3>2
        DEF Filling
  <1>13. ASSUME op.name \notin {"insert", "resize"} PROVE Filling(room)'
    <2>1. /\ op.name \in {"assign", "assign_range"} /\ p = 1 /\ rd = Empty
          /\ op.src.kind # "values" => op.src.at <= s
      BY <1>1, <1>n, <1>13 DEF Filling
    <2>2. op.src.kind # "values" => op.src.at <= s + 1
      BY <1>1, <1>n, <2>1, Numbers
    <2>3. /\ op'.pos = p /\ op'.n = n /\ TailCount' = hi - lo
          /\ p - 1 <= s + 1 /\ s - (p - 1) + 1 <= n
      BY <1>2, <1>6, <1>10, <1>n
    <2>4. QED
      BY <1>2, <1>6, <1>10, <1>11, <1>n, <2>1, <2>2, <2>3 DEF Filling
  <1>14. LoopsFollow(room)'
    BY <1>1, <1>3, <1>6, <1>10, <1>12, <1>13, <1>n DEF LoopsFollow
  <1>15. QED
    BY <1>1, <1>6, <1>8, <1>9, <1>14, NotYet DEF SlotsInv

\* What relocating the elements behind the position has to lead to.
LEMMA FillAfterRelocating ==
  ASSUME NEW room \in 0 .. MaxSize, SlotsInv(room), pc = "relocate",
         op' = op, before' = before, Made' = 0, size' = op.pos - 1,
         TailCount' = Len(before) - (op.pos - 1), rd'.lo = op.pos + op.n,
         \A i \in 1 .. op.pos - 1 : data'[i] = before[i],
         \A i \in rd'.lo .. rd'.hi - 1 : data'[i] = before[i - op.n]
  PROVE  Filling(room)'
  <1>1. Relocating(room) /\ TypeOK /\ op.pos <= Len(before) + 1
    BY InvParts DEF LoopsFollow
  <1>2. op.name = "insert" /\ op.n >= 1 /\ ~op.grows /\ Len(before) + op.n <= room
    BY <1>1 DEF Relocating
  <1>n. PICK p \in Nat, n \in Nat, l \in Nat, m \in Nat :
          op.pos = p /\ op.n = n /\ Len(before) = l /\ room = m
    <2>1. room \in Nat
      BY SlotsAssumption
    <2>2. QED
      BY <1>1, <2>1, Numbers
  <1>3. Rest' = before
    BY <1>2, <1>n DEF Rest
  <1>4. /\ p - 1 + n + (l - (p - 1)) <= m /\ 0 <= n /\ p - 1 <= p - 1
        /\ \A j \in 1 .. 0 : data'[p - 1 + j] = Asked'[j]
    BY <1>2, <1>n
  <1>5. QED
    BY <1>2, <1>3, <1>4, <1>n DEF Filling

\* RelocateAll moves all of them at once.
LEMMA RelocateAllKeeps ==
  ASSUME NEW room \in 0 .. MaxSize, SlotsInv(room), RelocateAll
  PROVE  SlotsInv(room)'
  <1>1. /\ Relocating(room) /\ TypeOK /\ ElementsAccounted /\ SourceGiven /\ LoopsFollow(room)
        /\ op \in Ops /\ before \in Seq(Objects) /\ data \in [Positions -> Objects \cup {Raw}]
        /\ pc = "relocate" /\ op.pos <= Len(before) + 1
    BY InvParts DEF LoopsFollow, RelocateAll
  <1>n. PICK s \in Nat, p \in Nat, n \in Nat, l \in Nat, lo \in Nat, hi \in Nat,
             max \in Nat, m \in Nat :
          /\ size = s /\ op.pos = p /\ op.n = n /\ Len(before) = l
          /\ rd.lo = lo /\ rd.hi = hi /\ MaxSize = max /\ room = m
    <2>1. room \in Nat
      BY SlotsAssumption
    <2>2. QED
      BY <1>1, <2>1, Numbers
  <1>t. /\ s \in Nat /\ p \in Nat /\ n \in Nat /\ l \in Nat /\ lo \in Nat /\ hi \in Nat
        /\ max \in Nat /\ m \in Nat
    BY <1>n
  <1>2. /\ 1 <= p /\ n >= 1 /\ p <= s /\ s <= l /\ l + n <= m /\ m <= max
        /\ lo = s + n + 1 /\ hi = l + n + 1
        /\ \A i \in 1 .. s : data[i] = before[i]
        /\ \A i \in lo .. hi - 1 : data[i] = before[i - n]
    BY <1>1, <1>n, Numbers DEF Relocating
  <1>3. /\ UNCHANGED <<traits, op, step, before, threw>> /\ pc' = "fill"
        /\ size' = p - 1 /\ rd' = [rd EXCEPT !.lo = p + n]
        /\ data' = [i \in Positions |->
              IF i \in p + n .. s + n THEN data[i - n]
              ELSE IF i \in p .. s THEN Raw ELSE data[i]]
    BY <1>n DEF RelocateAll
  <1>4. rd' = [lo |-> p + n, hi |-> hi]
    BY <1>1, <1>3, <1>n DEF TypeOK
  <1>5. \A i \in Positions : i \in Nat /\ 1 <= i /\ i <= max
    BY <1>n DEF Positions
  <1>6. \A i \in Positions : data[i] # Raw <=> i <= s \/ (lo <= i /\ i < hi)
    BY <1>1, <1>n, AccountedNow DEF Occupied
  <1>7. \A i \in Positions : i \in p + n .. s + n => i - n \in Positions /\ i - n <= s
    BY <1>t, <1>n, <1>2, <1>5 DEF Positions
  <1>8. TypeOK'
    <2>1. data' \in [Positions -> Objects \cup {Raw}]
      BY <1>1, <1>3, <1>7
    <2>2. p - 1 \in 0 .. max /\ p + n \in 1 .. max + 1 /\ hi \in 1 .. max + 1
      BY <1>t, <1>2
    <2>3. QED
      BY <1>1, <1>3, <1>4, <1>n, <2>1, <2>2 DEF TypeOK, Loops
  <1>9. ElementsAccounted'
    <2>1. Apart(size', rd')
      BY <1>3, <1>4, <1>2, <1>t DEF Apart
    <2>2. ASSUME NEW i \in Positions
          PROVE  data'[i] # Raw <=> i <= p - 1 \/ (p + n <= i /\ i < hi)
      <3>1. CASE i \in p + n .. s + n
        <4>1. data'[i] = data[i - n] /\ data[i - n] # Raw
          BY <1>3, <1>6, <1>7, <3>1
        <4>2. p + n <= i /\ i < hi
          BY <1>t, <1>2, <1>5, <3>1
        <4>3. QED
          BY <4>1, <4>2
      <3>2. CASE i \notin p + n .. s + n /\ i \in p .. s
        <4>1. data'[i] = Raw
          BY <1>3, <3>2
        <4>2. ~(i <= p - 1) /\ ~(p + n <= i)
          BY <1>t, <1>2, <1>5, <3>2
        <4>3. QED
          BY <4>1, <4>2
      <3>3. CASE i \notin p + n .. s + n /\ i \notin p .. s
        <4>1. data'[i] = data[i]
          BY <1>3, <3>3
        <4>2. (i <= s \/ (lo <= i /\ i < hi)) <=> (i <= p - 1 \/ (p + n <= i /\ i < hi))
          BY <1>t, <1>2, <1>5, <3>3
        <4>3. QED
          BY <1>6, <4>1, <4>2
      <3>4. QED
        BY <3>1, <3>2, <3>3
    <2>3. \A i \in Positions : data'[i] # Raw <=> Occupied(i, size', rd')
      BY <1>3, <1>4, <2>2 DEF Occupied
    <2>4. QED
      BY <1>8, <2>1, <2>3, AccountedNext
  <1>10. Filling(room)'
    <2>1. Made' = 0 /\ TailCount' = l - (p - 1)
      <3>1. (p - 1) - (p - 1) = 0 /\ hi - (p + n) = l - (p - 1)
        BY <1>t, <1>2
      <3>2. QED
        BY <1>3, <1>4, <1>n, <3>1 DEF Made, TailCount
    <2>2. ASSUME NEW i \in 1 .. p - 1
          PROVE  data'[i] = before[i]
      <3>1. i \in 1 .. max /\ i \notin p + n .. s + n /\ i \notin p .. s /\ i \in 1 .. s
        BY <1>t, <1>2
      <3>2. QED
        BY <1>2, <1>3, <1>n, <3>1 DEF Positions
    <2>3. ASSUME NEW i \in p + n .. hi - 1
          PROVE  data'[i] = before[i - n]
      <3>1. i \in 1 .. max
        BY <1>t, <1>2
      <3>2. CASE i \in p + n .. s + n
        <4>1. i - n \in 1 .. s
          BY <1>t, <1>2, <3>2
        <4>2. QED
          BY <1>2, <1>3, <1>n, <3>1, <3>2, <4>1 DEF Positions
      <3>3. CASE i \notin p + n .. s + n
        <4>1. i \in lo .. hi - 1 /\ i \notin p .. s
          BY <1>t, <1>2, <3>3
        <4>2. QED
          BY <1>2, <1>3, <1>n, <3>1, <3>3, <4>1 DEF Positions
      <3>4. QED
        BY <3>2, <3>3
    <2>4. QED
      BY <1>1, <1>3, <1>4, <1>n, <2>1, <2>2, <2>3, FillAfterRelocating
  <1>11. LoopsFollow(room)'
    <2>1. p - 1 <= m
      BY <1>t, <1>2
    <2>2. QED
      BY <1>1, <1>3, <1>10, <1>n, <2>1, CallKept DEF LoopsFollow
  <1>12. QED
    BY <1>3, <1>8, <1>9, <1>11, NotYet DEF SlotsInv

\* RelocateOne moves the last one.
LEMMA RelocateOneKeeps ==
  ASSUME NEW room \in 0 .. MaxSize, SlotsInv(room), RelocateOne
  PROVE  SlotsInv(room)'
  <1>1. /\ Relocating(room) /\ TypeOK /\ ElementsAccounted /\ SourceGiven /\ LoopsFollow(room)
        /\ op \in Ops /\ before \in Seq(Objects) /\ data \in [Positions -> Objects \cup {Raw}]
        /\ pc = "relocate" /\ op.pos <= Len(before) + 1
    BY InvParts DEF LoopsFollow, RelocateOne
  <1>n. PICK s \in Nat, p \in Nat, n \in Nat, l \in Nat, lo \in Nat, hi \in Nat,
             max \in Nat, m \in Nat :
          /\ size = s /\ op.pos = p /\ op.n = n /\ Len(before) = l
          /\ rd.lo = lo /\ rd.hi = hi /\ MaxSize = max /\ room = m
    <2>1. room \in Nat
      BY SlotsAssumption
    <2>2. QED
      BY <1>1, <2>1, Numbers
  <1>t. /\ s \in Nat /\ p \in Nat /\ n \in Nat /\ l \in Nat /\ lo \in Nat /\ hi \in Nat
        /\ max \in Nat /\ m \in Nat
    BY <1>n
  <1>2. /\ 1 <= p /\ n >= 1 /\ p <= s /\ s <= l /\ l + n <= m /\ m <= max
        /\ lo = s + n + 1 /\ hi = l + n + 1
        /\ \A i \in 1 .. s : data[i] = before[i]
        /\ \A i \in lo .. hi - 1 : data[i] = before[i - n]
    BY <1>1, <1>n, Numbers DEF Relocating
  <1>3. /\ UNCHANGED <<traits, op, step, before, threw>>
        /\ pc' = IF s = p THEN "fill" ELSE "relocate"
        /\ size' = s - 1 /\ rd' = [rd EXCEPT !.lo = lo - 1]
        /\ data' = [data EXCEPT ![s + n] = data[s], ![s] = Raw]
    BY <1>n DEF RelocateOne
  <1>4. rd' = [lo |-> s + n, hi |-> hi]
    <2>1. lo - 1 = s + n
      BY <1>t, <1>2
    <2>2. QED
      BY <1>1, <1>3, <1>n, <2>1 DEF TypeOK
  <1>f. size' = s - 1 /\ rd'.lo = s + n /\ rd'.hi = hi /\ op'.pos = p /\ op'.n = n
        /\ op' = op /\ before' = before /\ Len(before') = l
    BY <1>3, <1>4, <1>n
  <1>5. \A i \in Positions : i \in Nat /\ 1 <= i /\ i <= max
    BY <1>n DEF Positions
  <1>6. \A i \in Positions : data[i] # Raw <=> i <= s \/ (lo <= i /\ i < hi)
    BY <1>1, <1>n, AccountedNow DEF Occupied
  <1>7. s \in Positions /\ s + n \in Positions /\ s + n # s
    <2>1. s \in 1 .. max /\ s + n \in 1 .. max /\ s + n # s
      BY <1>t, <1>2
    <2>2. QED
      BY <1>n, <2>1 DEF Positions
  <1>8. /\ data' \in [Positions -> Objects \cup {Raw}]
        /\ \A i \in Positions : data'[i] = IF i = s + n THEN data[s]
                                           ELSE IF i = s THEN Raw ELSE data[i]
    BY <1>1, <1>3, <1>7
  <1>9. TypeOK'
    <2>1. s - 1 \in 0 .. max /\ s + n \in 1 .. max + 1 /\ hi \in 1 .. max + 1
      BY <1>t, <1>2
    <2>2. QED
      BY <1>1, <1>3, <1>4, <1>8, <1>n, <2>1, SMTT(40) DEF TypeOK, Loops
  <1>10. ElementsAccounted'
    <2>1. Apart(size', rd')
      BY <1>3, <1>4, <1>2, <1>t DEF Apart
    <2>2. ASSUME NEW i \in Positions
          PROVE  data'[i] # Raw <=> i <= s - 1 \/ (s + n <= i /\ i < hi)
      <3>1. CASE i = s + n
        <4>1. data'[i] # Raw
          BY <1>6, <1>7, <1>8, <3>1, <1>t
        <4>2. s + n <= i /\ i < hi
          BY <1>t, <1>2, <3>1
        <4>3. QED
          BY <4>1, <4>2
      <3>2. CASE i = s
        <4>1. ~(i <= s - 1) /\ ~(s + n <= i)
          BY <1>t, <1>2, <3>2
        <4>2. QED
          BY <1>7, <1>8, <3>2, <4>1
      <3>3. CASE i # s /\ i # s + n
        <4>1. (i <= s \/ (lo <= i /\ i < hi)) <=> (i <= s - 1 \/ (s + n <= i /\ i < hi))
          BY <1>t, <1>2, <1>5, <3>3
        <4>2. QED
          BY <1>6, <1>8, <3>3, <4>1
      <3>4. QED
        BY <3>1, <3>2, <3>3
    <2>3. \A i \in Positions : data'[i] # Raw <=> Occupied(i, size', rd')
      BY <1>f, <2>2 DEF Occupied
    <2>4. QED
      BY <1>9, <2>1, <2>3, AccountedNext
  <1>11. ASSUME NEW i \in 1 .. s - 1
         PROVE  data'[i] = before[i]
    <2>1. i \in 1 .. max /\ i # s /\ i # s + n /\ i \in 1 .. s
      BY <1>t, <1>2
    <2>2. QED
      BY <1>2, <1>8, <1>n, <2>1 DEF Positions
  <1>12. ASSUME NEW i \in s + n .. hi - 1
         PROVE  data'[i] = before[i - n]
    <2>1. i \in 1 .. max /\ i # s
      BY <1>t, <1>2
    <2>2. CASE i = s + n
      <3>1. i - n = s /\ s \in 1 .. s
        BY <1>t, <1>2, <2>2
      <3>2. QED
        BY <1>2, <1>8, <1>n, <2>1, <2>2, <3>1 DEF Positions
    <2>3. CASE i # s + n
      <3>1. i \in lo .. hi - 1
        BY <1>t, <1>2, <2>3
      <3>2. QED
        BY <1>2, <1>8, <1>n, <2>1, <2>3, <3>1 DEF Positions
    <2>4. QED
      BY <2>2, <2>3
  <1>13. ASSUME s = p PROVE Filling(room)'
    <2>1. Made' = 0 /\ TailCount' = l - (p - 1)
      <3>1. (s - 1) - (p - 1) = 0 /\ hi - (s + n) = l - (p - 1)
        BY <1>t, <1>2, <1>13
      <3>2. QED
        BY <1>3, <1>4, <1>n, <3>1 DEF Made, TailCount
    <2>2. /\ size' = op.pos - 1 /\ TailCount' = Len(before) - (op.pos - 1)
          /\ rd'.lo = op.pos + op.n
      BY <1>f, <1>13, <1>n, <2>1
    <2>3. \A i \in 1 .. op.pos - 1 : data'[i] = before[i]
      BY <1>11, <1>13, <1>n
    <2>4. \A i \in rd'.lo .. rd'.hi - 1 : data'[i] = before[i - op.n]
      BY <1>12, <1>f, <1>n
    <2>5. QED
      BY <1>1, <1>f, <2>1, <2>2, <2>3, <2>4, FillAfterRelocating
  <1>14. ASSUME s # p PROVE Relocating(room)'
    <2>1. p <= s - 1 /\ s - 1 <= l /\ s + n = (s - 1) + n + 1
      BY <1>t, <1>2, <1>14
    <2>2. op.name = "insert" /\ ~op.grows
      BY <1>1 DEF Relocating
    <2>3. QED
      BY <1>2, <1>f, <1>11, <1>12, <1>n, <2>1, <2>2 DEF Relocating
  <1>15. LoopsFollow(room)'
    <2>1. s - 1 <= m
      BY <1>t, <1>2
    <2>2. QED
      BY <1>1, <1>3, <1>13, <1>14, <1>n, <2>1, CallKept DEF LoopsFollow
  <1>16. QED
    BY <1>3, <1>9, <1>10, <1>15, NotYet DEF SlotsInv

\* A call is over: nothing is in the range_destroyer, and what is left is as expected.
LEMMA OverIf ==
  ASSUME NEW room \in 0 .. MaxSize, SlotsInv(room), pc' = "return", ~threw',
         UNCHANGED <<traits, op, before>>, rd' = Empty, step' \in 0 .. MaxSize,
         data' \in [Positions -> Objects \cup {Raw}],
         Expected \in Seq(Objects), size' = Len(Expected), NEW r \in 0 .. MaxSize, size' <= r,
         \A i \in Positions : data'[i] # Raw <=> i <= size',
         \A i \in 1 .. size' : data'[i] = Expected[i], threw' \in BOOLEAN
  PROVE  SlotsInv(r)'
  <1>1. /\ TypeOK /\ SourceGiven /\ op.pos <= Len(before) + 1 /\ LoopsFollow(room)
    BY InvParts
  <1>2. size' \in 0 .. MaxSize /\ size' \in Nat
    BY LenProperties, SlotsAssumption
  <1>3. Empty \in Ranges /\ Empty.lo = 1 /\ Empty.hi = 1
    BY SlotsAssumption DEF Empty, Ranges
  <1>4. TypeOK'
    BY <1>1, <1>2, <1>3 DEF TypeOK, Ranges, Loops
  <1>5. ElementsAccounted'
    <2>1. \A i \in Positions : Occupied(i, size', rd') <=> i <= size'
      BY <1>2, <1>3, SlotsAssumption DEF Occupied, Positions
    <2>2. Apart(size', rd')
      BY <1>3 DEF Apart
    <2>3. QED
      BY <1>4, <2>1, <2>2, AccountedNext
  <1>6. DoneAsAsked' /\ ThrowKeeps'
    BY <1>1, <1>2, ReturnsIf
  <1>7. LoopsFollow(r)'
    BY <1>1, CallKept DEF LoopsFollow
  <1>8. QED
    BY <1>4, <1>5, <1>6, <1>7 DEF SlotsInv

\* EndFill takes in the elements behind.
LEMMA EndFillKeeps ==
  ASSUME NEW room \in 0 .. MaxSize, SlotsInv(room), EndFill
  PROVE  SlotsInv(room)'
  <1>1. /\ Filling(room) /\ TypeOK /\ ElementsAccounted /\ SourceGiven /\ LoopsFollow(room)
        /\ op \in Ops /\ before \in Seq(Objects) /\ data \in [Positions -> Objects \cup {Raw}]
        /\ pc = "fill" /\ Made = op.n /\ op.pos <= Len(before) + 1 /\ ~threw
    BY InvParts DEF LoopsFollow, EndFill
  <1>n. PICK s \in Nat, p \in Nat, n \in Nat, l \in Nat, lo \in Nat, hi \in Nat,
             max \in Nat, m \in Nat :
          /\ size = s /\ op.pos = p /\ op.n = n /\ Len(before) = l
          /\ rd.lo = lo /\ rd.hi = hi /\ MaxSize = max /\ room = m
    <2>1. room \in Nat
      BY SlotsAssumption
    <2>2. QED
      BY <1>1, <2>1, Numbers
  <1>t. /\ s \in Nat /\ p \in Nat /\ n \in Nat /\ l \in Nat /\ lo \in Nat /\ hi \in Nat
        /\ max \in Nat /\ m \in Nat
    BY <1>n
  <1>2. /\ TailCount = hi - lo /\ Made = s - (p - 1)
        /\ 1 <= p /\ p <= l + 1 /\ hi <= max + 1 /\ 1 <= lo /\ m <= max
        /\ p - 1 + n + (hi - lo) <= m
        /\ hi - lo > 0 => lo = p + n
    BY <1>1, <1>n, Numbers DEF TailCount, Made, Filling, Empty
  <1>3. s = p - 1 + n
    BY <1>1, <1>n, <1>2
  <1>4. /\ UNCHANGED <<traits, data, op, step, before, threw>> /\ pc' = "return"
        /\ size' = s + (hi - lo) /\ rd' = Empty
    BY <1>n, <1>2 DEF EndFill
  <1>5. \A i \in Positions : i \in Nat /\ 1 <= i /\ i <= max
    BY <1>n DEF Positions
  <1>6. \A i \in Positions : data[i] # Raw <=> i <= s \/ (lo <= i /\ i < hi)
    BY <1>1, <1>n, AccountedNow DEF Occupied
  <1>7. Asked \in Seq(Objects) /\ Len(Asked) = n
    BY <1>1, <1>n, OfCall, AskedIs DEF Filling
  <1>8. CASE op.name \in {"insert", "resize"}
    <2>1. /\ hi - lo = l - (p - 1)
          /\ hi - lo > 0 => op.name = "insert"
          /\ \A i \in 1 .. p - 1 : data[i] = Remaining[i]
          /\ \A i \in lo .. hi - 1 : data[i] = Remaining[i - n]
      <3>1. Rest = Remaining
        BY <1>1, <1>n DEF Rest
      <3>2. QED
        BY <1>1, <1>2, <1>n, <1>8, <3>1 DEF Filling
    <2>2. \A j \in 1 .. n : data[p - 1 + j] = Asked[j]
      BY <1>1, <1>n DEF Filling
    <2>3. /\ Expected \in Seq(Objects) /\ Len(Expected) = s + (hi - lo)
          /\ \A i \in 1 .. s + (hi - lo) :
                Expected[i] = IF i < p THEN Remaining[i]
                              ELSE IF i < p + n THEN Asked[i - (p - 1)]
                              ELSE Remaining[i - n]
      <3>1. CASE op.name = "insert"
        <4>1. /\ Expected \in Seq(Objects) /\ Len(Expected) = l + n
              /\ \A i \in 1 .. l + n :
                    Expected[i] = IF i < p THEN Remaining[i]
                                  ELSE IF i < p + n THEN Asked[i - (p - 1)]
                                  ELSE Remaining[i - n]
          BY <1>1, <1>n, <3>1, OfCall, InsertIs
        <4>2. l + n = s + (hi - lo)
          BY <1>t, <1>3, <2>1
        <4>3. QED
          BY <4>1, <4>2
      <3>2. CASE op.name = "resize"
        <4>1. /\ Expected \in Seq(Objects) /\ Len(Expected) = p - 1 + n
              /\ \A i \in 1 .. p - 1 + n :
                    Expected[i] = IF i < p THEN Remaining[i] ELSE Asked[i - (p - 1)]
          BY <1>1, <1>n, <3>2, OfCall, ResizeIs
        <4>2. p - 1 + n = s + (hi - lo)
          BY <1>t, <1>2, <1>3, <2>1, <3>2
        <4>3. \A i \in 1 .. p - 1 + n : i < p + n
          BY <1>t
        <4>4. QED
          BY <4>1, <4>2, <4>3
      <3>3. QED
        BY <1>8, <3>1, <3>2
    <2>4. ASSUME NEW i \in 1 .. s + (hi - lo)
          PROVE  data[i] = Expected[i]
      <3>1. CASE i < p
        <4>1. i \in 1 .. p - 1
          BY <1>t, <3>1
        <4>2. QED
          BY <2>1, <2>3, <3>1, <4>1
      <3>2. CASE i >= p /\ i < p + n
        <4>1. i - (p - 1) \in 1 .. n /\ p - 1 + (i - (p - 1)) = i /\ ~(i < p)
          BY <1>t, <3>2
        <4>2. QED
          BY <2>2, <2>3, <3>2, <4>1
      <3>3. CASE i >= p + n
        <4>1. i \in lo .. hi - 1 /\ ~(i < p) /\ ~(i < p + n)
          BY <1>t, <1>2, <1>3, <2>1, <3>3
        <4>2. QED
          BY <2>1, <2>3, <4>1
      <3>4. i < p \/ (i >= p /\ i < p + n) \/ i >= p + n
        BY <1>t
      <3>5. QED
        BY <3>1, <3>2, <3>3, <3>4
    <2>5. ASSUME NEW i \in Positions
          PROVE  data[i] # Raw <=> i <= s + (hi - lo)
      <3>1. (i <= s \/ (lo <= i /\ i < hi)) <=> i <= s + (hi - lo)
        BY <1>t, <1>2, <1>3, <1>5, <2>1
      <3>2. QED
        BY <1>6, <3>1
    <2>6. s + (hi - lo) <= m
      BY <1>t, <1>2, <1>3
    <2>7. step \in 0 .. MaxSize /\ threw \in BOOLEAN
      BY <1>1 DEF TypeOK
    <2>8. QED
      BY <1>1, <1>4, <1>n, <2>3, <2>4, <2>5, <2>6, <2>7, OverIf
  <1>9. CASE op.name \notin {"insert", "resize"}
    <2>1. /\ op.name \in {"assign", "assign_range"} /\ p = 1 /\ rd = Empty
          /\ \A j \in 1 .. n : data[p - 1 + j] = Asked[j]
      BY <1>1, <1>n, <1>9 DEF Filling
    <2>2. Expected = Asked
      BY <1>1, <2>1, OfCall, OthersAre
    <2>3. lo = 1 /\ hi = 1 /\ s + (hi - lo) = n /\ \A j \in 1 .. n : p - 1 + j = j
      BY <1>n, <1>3, <2>1 DEF Empty
    <2>4. \A j \in 1 .. n : data[j] = Asked[j]
      BY <2>1, <2>3
    <2>5. \A i \in Positions : data[i] # Raw <=> i <= n
      BY <1>t, <1>3, <1>5, <1>6, <2>1, <2>3
    <2>6. n <= m
      BY <1>t, <1>2, <2>1, <2>3
    <2>7. step \in 0 .. MaxSize /\ threw \in BOOLEAN
      BY <1>1 DEF TypeOK
    <2>8. QED
      BY <1>1, <1>4, <1>7, <1>n, <2>2, <2>3, <2>4, <2>5, <2>6, <2>7, OverIf
  <1>10. QED
    BY <1>8, <1>9

\* Overwrite assigns one more value.
LEMMA OverwriteKeeps ==
  ASSUME NEW room \in 0 .. MaxSize, SlotsInv(room), Overwrite
  PROVE  SlotsInv(room)'
  <1>1. /\ Overwriting(room) /\ TypeOK /\ ElementsAccounted /\ SourceGiven /\ LoopsFollow(room)
        /\ op \in Ops /\ before \in Seq(Objects) /\ data \in [Positions -> Objects \cup {Raw}]
        /\ pc = "overwrite" /\ step < Kept /\ rd = Empty
    BY InvParts DEF LoopsFollow, Overwrite
  <1>n. PICK s \in Nat, n \in Nat, k \in Nat, max \in Nat :
          size = s /\ op.n = n /\ step = k /\ MaxSize = max
    BY <1>1, Numbers
  <1>t. s \in Nat /\ n \in Nat /\ k \in Nat /\ max \in Nat
    BY <1>n
  <1>2. k < n /\ k < s /\ s <= max
    BY <1>1, <1>n, Numbers DEF Kept
  <1>3. k + 1 \in 1 .. n /\ k + 1 \in 1 .. s /\ k + 1 \in 1 .. max /\ k + 1 \in 0 .. max
    BY <1>t, <1>2
  <1> DEFINE w == Asked[k + 1]
  <1>4. Value(k + 1) = w /\ w \in Objects
    BY <1>1, <1>n, <1>3, ReadInOverwrite, NextValue DEF Overwriting
  <1>5. /\ UNCHANGED <<traits, size, rd, op, pc, before, threw>> /\ step' = k + 1
        /\ data' = [data EXCEPT ![k + 1] = w]
    BY <1>n, <1>4 DEF Overwrite
  <1>6. /\ data' \in [Positions -> Objects \cup {Raw}]
        /\ \A i \in Positions : data'[i] = IF i = k + 1 THEN w ELSE data[i]
        /\ k + 1 \in Positions
    BY <1>1, <1>3, <1>4, <1>5, <1>n DEF Positions
  <1>w. \A j \in 1 .. n : j = k + 1 => w = Asked[j]
    OBVIOUS
  <1> HIDE DEF w
  <1>7. TypeOK'
    BY <1>1, <1>3, <1>5, <1>6, <1>n DEF TypeOK
  <1>8. ElementsAccounted'
    <2>1. Occupied(k + 1, size, rd) /\ w # Raw
      BY <1>3, <1>4, <1>n, SlotsAssumption DEF Occupied, Objects
    <2>2. \A i \in Positions : data'[i] # Raw <=> Occupied(i, size, rd)
      BY <1>1, <1>6, <2>1, AccountedNow
    <2>3. Apart(size, rd)
      BY <1>1, AccountedNow
    <2>4. QED
      BY <1>5, <1>7, <2>2, <2>3, AccountedNext
  <1>9. Overwriting(room)'
    <2>1. Asked' = Asked
      BY <1>5, CallKept
    <2>2. ASSUME NEW j \in 1 .. k + 1
          PROVE  data'[j] = Asked[j]
      <3>1. j \in 1 .. max /\ j \in 1 .. n
        BY <1>t, <1>3
      <3>2. CASE j = k + 1
        BY <1>6, <1>w, <1>n, <3>1, <3>2 DEF Positions
      <3>3. CASE j # k + 1
        <4>1. j \in 1 .. k
          BY <1>t, <3>3
        <4>2. QED
          BY <1>1, <1>6, <1>n, <3>1, <3>3, <4>1 DEF Positions, Overwriting
      <3>4. QED
        BY <3>2, <3>3
    <2>3. ASSUME op.src.kind # "values"
          PROVE  data'[op.src.at] = before[op.src.at]
      <3>1. op.src.at \in 1 .. s /\ op.src.at \in 1 .. max /\ op.src.at \in Positions
        BY <1>1, <1>2, <1>n, <2>3 DEF Overwriting, SourceGiven, Positions
      <3>2. w = before[op.src.at]
        BY <1>3, <1>n, <2>3 DEF w, Asked
      <3>3. QED
        BY <1>1, <1>6, <2>3, <3>1, <3>2 DEF Overwriting
    <2>4. Kept' = Kept /\ k + 1 <= Kept
      BY <1>1, <1>5, <1>n, <1>3 DEF Kept
    <2>5. QED
      BY <1>1, <1>5, <1>n, <2>1, <2>2, <2>3, <2>4 DEF Overwriting
  <1>10. LoopsFollow(room)'
    BY <1>1, <1>5, <1>9, CallKept DEF LoopsFollow
  <1>11. QED
    BY <1>1, <1>5, <1>7, <1>8, <1>10, NotYet DEF SlotsInv

\* EndOverwrite destroys the elements that are left over, or goes on behind them.
LEMMA EndOverwriteKeeps ==
  ASSUME NEW room \in 0 .. MaxSize, SlotsInv(room), EndOverwrite
  PROVE  SlotsInv(room)'
  <1>1. /\ Overwriting(room) /\ TypeOK /\ ElementsAccounted /\ SourceGiven /\ LoopsFollow(room)
        /\ op \in Ops /\ before \in Seq(Objects) /\ data \in [Positions -> Objects \cup {Raw}]
        /\ pc = "overwrite" /\ step = Kept /\ rd = Empty /\ ~threw
        /\ UNCHANGED <<traits, rd, op, step, before, threw>>
        /\ step \in 0 .. MaxSize /\ threw \in BOOLEAN /\ size <= room
    BY InvParts DEF LoopsFollow, EndOverwrite, TypeOK
  <1>n. PICK s \in Nat, n \in Nat, max \in Nat, m \in Nat :
          size = s /\ op.n = n /\ MaxSize = max /\ room = m
    <2>1. room \in Nat
      BY SlotsAssumption
    <2>2. QED
      BY <1>1, <2>1, Numbers
  <1>t. s \in Nat /\ n \in Nat /\ max \in Nat /\ m \in Nat
    BY <1>n
  <1>2. /\ op.name \in {"assign", "assign_range"} /\ op.pos = 1 /\ n <= m /\ s <= m /\ m <= max
        /\ \A j \in 1 .. Kept : data[j] = Asked[j]
        /\ op.src.kind # "values" => op.src.at <= s
    BY <1>1, <1>n DEF Overwriting
  <1>3. /\ \A i \in Positions : i \in Nat /\ 1 <= i /\ i <= max
        /\ \A i \in Positions : data[i] # Raw <=> i <= s
    <2>1. \A i \in Positions : i \in Nat /\ 1 <= i /\ i <= max
      BY <1>n DEF Positions
    <2>2. \A i \in Positions : Occupied(i, size, rd) <=> i <= s
      BY <1>1, <1>n, <2>1 DEF Occupied, Empty
    <2>3. QED
      BY <1>1, <2>1, <2>2, AccountedNow
  <1>4. Asked \in Seq(Objects) /\ Len(Asked) = n /\ Expected = Asked
    BY <1>1, <1>2, <1>n, OfCall, AskedIs, OthersAre
  <1>5. CASE s > n
    <2>1. /\ Kept = n /\ pc' = "return" /\ size' = n
          /\ data' = [i \in Positions |-> IF i >= n + 1 THEN Raw ELSE data[i]]
      BY <1>n, <1>5 DEF EndOverwrite, DestroyFrom, Kept
    <2>2. data' \in [Positions -> Objects \cup {Raw}]
      BY <1>1, <2>1
    <2>3. \A i \in Positions : data'[i] # Raw <=> i <= n
      BY <1>t, <1>3, <1>5, <2>1
    <2>4. ASSUME NEW i \in 1 .. n
          PROVE  data'[i] = Expected[i]
      <3>1. i \in 1 .. max /\ ~(i >= n + 1)
        BY <1>t, <1>2
      <3>2. QED
        BY <1>2, <1>4, <1>n, <2>1, <3>1 DEF Positions
    <2>5. QED
      BY <1>1, <1>2, <1>4, <1>n, <2>1, <2>2, <2>3, <2>4, OverIf
  <1>6. CASE s <= n
    <2>1. Kept = s /\ pc' = "fill" /\ UNCHANGED <<data, size>> /\ ~(s > n)
      BY <1>n, <1>6 DEF EndOverwrite, Kept
    <2>2. TypeOK'
      BY <1>1, <2>1 DEF TypeOK, Loops
    <2>3. ElementsAccounted'
      BY <1>1, <2>1 DEF ElementsAccounted
    <2>4. Filling(room)'
      <3>1. /\ 1 - 1 = 0 /\ s - 0 = s /\ 0 <= s /\ 0 + n + 0 <= m
            /\ \A j \in 1 .. s : 1 - 1 + j = j
        BY <1>t, <1>2
      <3>2. TailCount' = 0 /\ Made' = s /\ Asked' = Asked
        BY <1>1, <1>2, <1>n, <2>1, <3>1, CallKept DEF TailCount, Made, Empty
      <3>3. \A j \in 1 .. s : data'[1 - 1 + j] = Asked[j]
        BY <1>2, <2>1, <3>1
      <3>4. QED
        BY <1>1, <1>2, <1>6, <1>n, <2>1, <3>1, <3>2, <3>3 DEF Filling
    <2>5. LoopsFollow(room)'
      BY <1>1, <2>1, <2>4, CallKept DEF LoopsFollow
    <2>6. QED
      BY <1>1, <2>1, <2>2, <2>3, <2>5, NotYet DEF SlotsInv
  <1>7. QED
    BY <1>t, <1>5, <1>6

\* What an erasure is to lead to.
LEMMA ErasedIf ==
  ASSUME NEW room \in 0 .. MaxSize, SlotsInv(room), pc = "shift", pc' = "return",
         UNCHANGED <<traits, rd, op, before, threw>>, step' \in 0 .. MaxSize,
         data' \in [Positions -> Objects \cup {Raw}], size' = size - op.n,
         \A i \in Positions : data'[i] # Raw <=> i <= size',
         \A i \in 1 .. op.pos - 1 : data'[i] = before[i],
         \A i \in op.pos .. size' : data'[i] = before[i + op.n]
  PROVE  SlotsInv(room)'
  <1>1. /\ Shifting /\ TypeOK /\ SourceGiven /\ op \in Ops /\ before \in Seq(Objects)
        /\ rd = Empty /\ ~threw /\ threw \in BOOLEAN /\ size <= room
    BY InvParts DEF LoopsFollow, TypeOK
  <1>n. PICK s \in Nat, p \in Nat, n \in Nat, m \in Nat :
          size = s /\ op.pos = p /\ op.n = n /\ room = m
    <2>1. room \in Nat
      BY SlotsAssumption
    <2>2. QED
      BY <1>1, <2>1, Numbers
  <1>2. /\ p + n <= s /\ s <= m /\ Len(before) = s /\ op.name = "erase"
        /\ op.src.kind # "rvalue"
    BY <1>1, <1>n DEF Shifting, SourceGiven
  <1>3. /\ Expected \in Seq(Objects) /\ Len(Expected) = s - n
        /\ \A i \in 1 .. s - n : Expected[i] = IF i < p THEN before[i] ELSE before[i + n]
    <2>1. p + n <= s + 1
      BY <1>n, <1>2
    <2>2. QED
      BY <1>1, <1>2, <1>n, <2>1, OfCall, EraseIs
  <1>4. ASSUME NEW i \in 1 .. s - n
        PROVE  data'[i] = Expected[i]
    <2>1. i < p => i \in 1 .. p - 1
      BY <1>n
    <2>2. ~(i < p) => i \in p .. s - n
      BY <1>n
    <2>3. QED
      BY <1>3, <1>n, <2>1, <2>2
  <1>5. s - n <= m
    BY <1>n, <1>2
  <1>6. QED
    BY <1>1, <1>3, <1>4, <1>5, <1>n, OverIf

\* ShiftAll moves all of them at once.
LEMMA ShiftAllKeeps ==
  ASSUME NEW room \in 0 .. MaxSize, SlotsInv(room), ShiftAll
  PROVE  SlotsInv(room)'
  <1>1. /\ Shifting /\ TypeOK /\ ElementsAccounted /\ data \in [Positions -> Objects \cup {Raw}]
        /\ pc = "shift" /\ rd = Empty /\ step = 0 /\ step \in 0 .. MaxSize
    BY InvParts DEF LoopsFollow, ShiftAll, TypeOK, Shifting
  <1>n. PICK s \in Nat, p \in Nat, n \in Nat, max \in Nat :
          size = s /\ op.pos = p /\ op.n = n /\ MaxSize = max
    BY <1>1, Numbers
  <1>t. s \in Nat /\ p \in Nat /\ n \in Nat /\ max \in Nat
    BY <1>n
  <1>2. /\ 1 <= p /\ n >= 1 /\ p + n <= s /\ s <= max
        /\ \A i \in 1 .. p - 1 : data[i] = before[i]
        /\ \A i \in p + n .. s : data[i] = before[i]
    BY <1>1, <1>n, Numbers DEF Shifting
  <1>3. /\ \A i \in Positions : i \in Nat /\ 1 <= i /\ i <= max
        /\ \A i \in Positions : data[i] # Raw <=> i <= s
    <2>1. \A i \in Positions : i \in Nat /\ 1 <= i /\ i <= max
      BY <1>n DEF Positions
    <2>2. \A i \in Positions : Occupied(i, size, rd) <=> i <= s
      BY <1>1, <1>n, <2>1 DEF Occupied, Empty
    <2>3. QED
      BY <1>1, <2>1, <2>2, AccountedNow
  <1>4. /\ UNCHANGED <<traits, rd, op, step, before, threw>> /\ size' = s - n /\ pc' = "return"
        /\ data' = [i \in Positions |->
              IF i < p THEN data[i] ELSE IF i + n <= s THEN data[i + n] ELSE Raw]
    BY <1>n DEF ShiftAll
  <1>5. \A i \in Positions : i + n <= s => i + n \in Positions /\ i + n \in 1 .. max
    <2>1. \A i \in Positions : i + n <= s => i + n \in 1 .. max
      BY <1>t, <1>2, <1>3
    <2>2. QED
      BY <1>n, <2>1 DEF Positions
  <1>6. data' \in [Positions -> Objects \cup {Raw}]
    BY <1>1, <1>4, <1>5
  <1>7. ASSUME NEW i \in Positions
        PROVE  data'[i] # Raw <=> i <= s - n
    <2>1. CASE i < p
      BY <1>t, <1>2, <1>3, <1>4, <2>1
    <2>2. CASE ~(i < p) /\ i + n <= s
      <3>1. data'[i] = data[i + n] /\ data[i + n] # Raw
        BY <1>3, <1>4, <1>5, <2>2
      <3>2. i <= s - n
        BY <1>t, <1>3, <2>2
      <3>3. QED
        BY <3>1, <3>2
    <2>3. CASE ~(i < p) /\ ~(i + n <= s)
      <3>1. data'[i] = Raw
        BY <1>4, <2>3
      <3>2. ~(i <= s - n)
        BY <1>t, <1>3, <2>3
      <3>3. QED
        BY <3>1, <3>2
    <2>4. QED
      BY <2>1, <2>2, <2>3
  <1>8. ASSUME NEW i \in 1 .. p - 1
        PROVE  data'[i] = before[i]
    <2>1. i \in 1 .. max /\ i < p
      BY <1>t, <1>2
    <2>2. QED
      BY <1>2, <1>4, <1>n, <2>1 DEF Positions
  <1>9. ASSUME NEW i \in p .. s - n
        PROVE  data'[i] = before[i + n]
    <2>1. i \in 1 .. max /\ ~(i < p) /\ i + n <= s /\ i + n \in p + n .. s
      BY <1>t, <1>2
    <2>2. QED
      BY <1>2, <1>4, <1>n, <2>1 DEF Positions
  <1>10. QED
    BY <1>1, <1>4, <1>6, <1>7, <1>8, <1>9, <1>n, ErasedIf

\* ShiftOne moves the next one.
LEMMA ShiftOneKeeps ==
  ASSUME NEW room \in 0 .. MaxSize, SlotsInv(room), ShiftOne
  PROVE  SlotsInv(room)'
  <1>1. /\ Shifting /\ TypeOK /\ ElementsAccounted /\ LoopsFollow(room) /\ SourceGiven
        /\ data \in [Positions -> Objects \cup {Raw}]
        /\ pc = "shift" /\ rd = Empty /\ traits # "relocatable"
    BY InvParts DEF LoopsFollow, ShiftOne
  <1>n. PICK s \in Nat, p \in Nat, n \in Nat, k \in Nat, max \in Nat :
          size = s /\ op.pos = p /\ op.n = n /\ step = k /\ MaxSize = max
    BY <1>1, Numbers
  <1>t. s \in Nat /\ p \in Nat /\ n \in Nat /\ k \in Nat /\ max \in Nat
    BY <1>n
  <1>2. /\ 1 <= p /\ n >= 1 /\ p + n <= s /\ s <= max /\ p + n + k <= s
        /\ Len(before) = s /\ op.name = "erase"
        /\ \A i \in 1 .. p - 1 : data[i] = before[i]
        /\ \A i \in p .. p + k - 1 : data[i] = before[i + n]
        /\ \A i \in p + n + k .. s : data[i] = before[i]
    BY <1>1, <1>n, Numbers DEF Shifting, ShiftOne
  <1>3. /\ \A i \in Positions : i \in Nat /\ 1 <= i /\ i <= max
        /\ \A i \in Positions : data[i] # Raw <=> i <= s
    <2>1. \A i \in Positions : i \in Nat /\ 1 <= i /\ i <= max
      BY <1>n DEF Positions
    <2>2. \A i \in Positions : Occupied(i, size, rd) <=> i <= s
      BY <1>1, <1>n, <2>1 DEF Occupied, Empty
    <2>3. QED
      BY <1>1, <2>1, <2>2, AccountedNow
  <1>4. /\ UNCHANGED <<traits, size, rd, op, pc, before, threw>> /\ step' = k + 1
        /\ data' = [data EXCEPT ![p + k] = data[p + n + k], ![p + n + k] = Moved]
    BY <1>n DEF ShiftOne
  <1>5. p + k \in Positions /\ p + n + k \in Positions /\ p + n + k # p + k
    <2>1. p + k \in 1 .. max /\ p + n + k \in 1 .. max /\ p + n + k # p + k
      BY <1>t, <1>2
    <2>2. QED
      BY <1>n, <2>1 DEF Positions
  <1>6. /\ data' \in [Positions -> Objects \cup {Raw}]
        /\ \A i \in Positions : data'[i] = IF i = p + n + k THEN Moved
                                           ELSE IF i = p + k THEN data[p + n + k] ELSE data[i]
    BY <1>1, <1>4, <1>5 DEF Objects
  <1>7. TypeOK'
    <2>1. k + 1 \in 0 .. max
      BY <1>t, <1>2
    <2>2. QED
      BY <1>1, <1>4, <1>6, <1>n, <2>1 DEF TypeOK
  <1>8. ElementsAccounted'
    <2>1. p + k <= s /\ p + n + k <= s
      BY <1>t, <1>2
    <2>2. \A i \in Positions : data'[i] # Raw <=> data[i] # Raw
      BY <1>3, <1>5, <1>6, <2>1, SlotsAssumption
    <2>3. QED
      BY <1>1, <1>4, <1>7, <2>2, AccountedNow, AccountedNext
  <1>9. Shifting'
    <2>1. ASSUME NEW i \in 1 .. p - 1
          PROVE  data'[i] = before[i]
      <3>1. i \in 1 .. max /\ i # p + k /\ i # p + n + k
        BY <1>t, <1>2
      <3>2. QED
        BY <1>2, <1>6, <1>n, <3>1 DEF Positions
    <2>2. ASSUME NEW i \in p .. p + (k + 1) - 1
          PROVE  data'[i] = before[i + n]
      <3>1. i \in 1 .. max /\ i # p + n + k
        BY <1>t, <1>2
      <3>2. CASE i = p + k
        <4>1. i + n = p + n + k /\ p + n + k \in p + n + k .. s
          BY <1>t, <1>2, <3>2
        <4>2. QED
          BY <1>2, <1>6, <1>n, <3>1, <3>2, <4>1 DEF Positions
      <3>3. CASE i # p + k
        <4>1. i \in p .. p + k - 1
          BY <1>t, <3>3
        <4>2. QED
          BY <1>2, <1>6, <1>n, <3>1, <3>3, <4>1 DEF Positions
      <3>4. QED
        BY <3>2, <3>3
    <2>3. ASSUME NEW i \in p + n + (k + 1) .. s
          PROVE  data'[i] = before[i]
      <3>1. i \in 1 .. max /\ i # p + k /\ i # p + n + k /\ i \in p + n + k .. s
        BY <1>t, <1>2
      <3>2. QED
        BY <1>2, <1>6, <1>n, <3>1 DEF Positions
    <2>4. p + n + (k + 1) <= s + 1
      BY <1>t, <1>2
    <2>5. /\ op'.pos = p /\ op'.n = n /\ size' = s /\ step' = k + 1 /\ before' = before
          /\ traits' # "relocatable" /\ op'.name = "erase" /\ Len(before') = s
      BY <1>1, <1>2, <1>4, <1>n
    <2>6. QED
      BY <1>2, <2>1, <2>2, <2>3, <2>4, <2>5 DEF Shifting
  <1>10. LoopsFollow(room)'
    BY <1>1, <1>4, <1>9, CallKept DEF LoopsFollow
  <1>11. QED
    BY <1>1, <1>4, <1>7, <1>8, <1>10, NotYet DEF SlotsInv

\* EndShift destroys those that were moved from at the end.
LEMMA EndShiftKeeps ==
  ASSUME NEW room \in 0 .. MaxSize, SlotsInv(room), EndShift
  PROVE  SlotsInv(room)'
  <1>1. /\ Shifting /\ TypeOK /\ ElementsAccounted /\ data \in [Positions -> Objects \cup {Raw}]
        /\ pc = "shift" /\ rd = Empty /\ step \in 0 .. MaxSize
    BY InvParts DEF LoopsFollow, EndShift, TypeOK
  <1>n. PICK s \in Nat, p \in Nat, n \in Nat, k \in Nat, max \in Nat :
          size = s /\ op.pos = p /\ op.n = n /\ step = k /\ MaxSize = max
    BY <1>1, Numbers
  <1>t. s \in Nat /\ p \in Nat /\ n \in Nat /\ k \in Nat /\ max \in Nat
    BY <1>n
  <1>2. /\ 1 <= p /\ n >= 1 /\ p + n <= s /\ s <= max /\ p + n + k = s + 1
        /\ \A i \in 1 .. p - 1 : data[i] = before[i]
        /\ \A i \in p .. p + k - 1 : data[i] = before[i + n]
    BY <1>1, <1>n, Numbers DEF Shifting, EndShift
  <1>3. /\ \A i \in Positions : i \in Nat /\ 1 <= i /\ i <= max
        /\ \A i \in Positions : data[i] # Raw <=> i <= s
    <2>1. \A i \in Positions : i \in Nat /\ 1 <= i /\ i <= max
      BY <1>n DEF Positions
    <2>2. \A i \in Positions : Occupied(i, size, rd) <=> i <= s
      BY <1>1, <1>n, <2>1 DEF Occupied, Empty
    <2>3. QED
      BY <1>1, <2>1, <2>2, AccountedNow
  <1>4. p + k - 1 = s - n
    BY <1>t, <1>2
  <1>5. /\ UNCHANGED <<traits, rd, op, step, before, threw>> /\ size' = s - n /\ pc' = "return"
        /\ data' = [i \in Positions |-> IF i >= p + k THEN Raw ELSE data[i]]
    BY <1>n, <1>4 DEF EndShift, DestroyFrom
  <1>6. data' \in [Positions -> Objects \cup {Raw}]
    BY <1>1, <1>5
  <1>7. ASSUME NEW i \in Positions
        PROVE  data'[i] # Raw <=> i <= s - n
    <2>1. (i <= s - n <=> ~(i >= p + k)) /\ (i <= s - n => i <= s)
      BY <1>t, <1>2, <1>3, <1>4
    <2>2. QED
      BY <1>3, <1>5, <2>1
  <1>8. ASSUME NEW i \in 1 .. p - 1
        PROVE  data'[i] = before[i]
    <2>1. i \in 1 .. max /\ ~(i >= p + k)
      BY <1>t, <1>2
    <2>2. QED
      BY <1>2, <1>5, <1>n, <2>1 DEF Positions
  <1>9. ASSUME NEW i \in p .. s - n
        PROVE  data'[i] = before[i + n]
    <2>1. i \in 1 .. max /\ ~(i >= p + k) /\ i \in p .. p + k - 1
      BY <1>t, <1>2, <1>4
    <2>2. QED
      BY <1>2, <1>5, <1>n, <2>1 DEF Positions
  <1>10. QED
    BY <1>1, <1>5, <1>6, <1>7, <1>8, <1>9, <1>n, ErasedIf

\* A call that throws destroys what the range_destroyer has; the elements stay.
LEMMA ThrowsKeeps ==
  ASSUME NEW room \in 0 .. MaxSize, SlotsInv(room), Throws
  PROVE  SlotsInv(room)'
  <1>1. /\ TypeOK /\ ElementsAccounted /\ SourceGiven /\ LoopsFollow(room)
        /\ op \in Ops /\ before \in Seq(Objects) /\ data \in [Positions -> Objects \cup {Raw}]
        /\ op.pos <= Len(before) + 1 /\ size <= room
        /\ UNCHANGED <<traits, size, op, step, before>>
        /\ rd' = Empty /\ pc' = "return" /\ threw'
    BY InvParts DEF LoopsFollow, Throws, Unwind
  <1>n. PICK s \in Nat, p \in Nat, n \in Nat, l \in Nat, lo \in Nat, hi \in Nat, max \in Nat :
          /\ size = s /\ op.pos = p /\ op.n = n /\ Len(before) = l
          /\ rd.lo = lo /\ rd.hi = hi /\ MaxSize = max
    BY <1>1, Numbers
  <1>t. /\ s \in Nat /\ p \in Nat /\ n \in Nat /\ l \in Nat /\ lo \in Nat /\ hi \in Nat
        /\ max \in Nat
    BY <1>n
  <1>2. 1 <= p /\ p <= l + 1 /\ s <= max
    BY <1>1, <1>n, Numbers
  <1>3. /\ \A i \in Positions : i \in Nat /\ 1 <= i /\ i <= max
        /\ \A i \in Positions : data[i] # Raw <=> i <= s \/ (lo <= i /\ i < hi)
        /\ hi <= lo \/ s < lo
    BY <1>1, <1>n, AccountedNow DEF Occupied, Apart, Positions
  <1>4. data' = [i \in Positions |-> IF i \in lo .. hi - 1 THEN Raw ELSE data[i]]
    BY <1>n DEF Throws, Unwind
  <1>5. data' \in [Positions -> Objects \cup {Raw}]
    BY <1>1, <1>4
  <1>6. ASSUME NEW i \in Positions
        PROVE  data'[i] # Raw <=> i <= s
    <2>1. (i \in lo .. hi - 1 <=> lo <= i /\ i < hi) /\ (i <= s => ~(lo <= i /\ i < hi))
      BY <1>t, <1>3
    <2>2. QED
      BY <1>3, <1>4, <2>1
  <1>7. ASSUME NEW i \in 1 .. s
        PROVE  data'[i] = data[i]
    <2>1. i \in Positions /\ i \notin lo .. hi - 1
      BY <1>t, <1>2, <1>3, <1>n DEF Positions
    <2>2. QED
      BY <1>4, <2>1
  <1>8. TypeOK'
    <2>1. Empty \in Ranges
      BY SlotsAssumption DEF Empty, Ranges
    <2>2. QED
      BY <1>1, <1>5, <2>1 DEF TypeOK, Ranges, Loops, Throws, Unwind
  <1>9. ElementsAccounted'
    <2>1. \A i \in Positions : Occupied(i, size', rd') <=> i <= s
      BY <1>1, <1>3, <1>n DEF Occupied, Empty
    <2>2. Apart(size', rd')
      BY <1>1 DEF Apart, Empty
    <2>3. QED
      BY <1>6, <1>8, <2>1, <2>2, AccountedNext
  <1>10. LoopsFollow(room)'
    BY <1>1, CallKept DEF LoopsFollow
  <1>11. /\ Asked' = Asked /\ Remaining' = Remaining /\ Expected' = Expected
         /\ Contents' = ContentsOf(data', s)
    BY <1>1, <1>n, CallKept, OfCallNext
  <1>12. ASSUME op.name \in {"insert", "resize", "reserve"}
         PROVE  /\ s >= p - 1
                /\ \E t \in {before, Remaining, Expected} : IsPrefix(ContentsOf(data', s), t)
                /\ op.name # "resize" /\ (op.grows \/ (n = 1 /\ p = l + 1))
                   => ContentsOf(data', s) \in {before, Remaining}
    <2>1. CASE pc = "fill"
      <3>1. Filling(room) /\ Made < op.n
        BY <1>1, <2>1 DEF LoopsFollow, Throws
      <3>2. /\ p - 1 <= s /\ Made = s - (p - 1) /\ s - (p - 1) < n
            /\ op.name \in {"insert", "resize"} /\ (op.name = "insert" => ~op.grows)
            /\ \A i \in 1 .. p - 1 : data[i] = before[i]
            /\ \A j \in 1 .. s - (p - 1) : data[p - 1 + j] = Asked[j]
        BY <1>n, <1>12, <3>1 DEF Filling, Rest, Made
      <3>3. CASE s = p - 1
        <4>1. s <= l /\ \A i \in 1 .. s : data'[i] = before[i]
          BY <1>t, <1>2, <1>7, <3>2, <3>3
        <4>2. IsPrefix(ContentsOf(data', s), before)
          BY <1>1, <1>n, <4>1, PrefixIf
        <4>3. p = l + 1 => ContentsOf(data', s) = before
          <5>1. p = l + 1 => s = l
            BY <1>t, <3>3
          <5>2. QED
            BY <1>1, <1>n, <4>1, <5>1, SequenceIf
        <4>4. s >= p - 1 /\ (~op.grows \/ op.name = "resize")
          BY <1>t, <3>2, <3>3
        <4>5. QED
          BY <3>2, <3>3, <4>2, <4>3, <4>4, <1>t
      <3>4. CASE s # p - 1
        <4>1. n > 1 /\ p - 1 < s /\ s < p - 1 + n
          BY <1>t, <1>2, <3>2, <3>4
        <4>2. op.src.kind # "rvalue"
          BY <1>1, <1>n, <4>1 DEF SourceGiven
        <4>3. Remaining = before
          BY <4>2 DEF Remaining
        <4>4. /\ Expected \in Seq(Objects) /\ Len(Expected) >= p - 1 + n
              /\ \A i \in 1 .. p - 1 + n :
                    Expected[i] = IF i < p THEN before[i] ELSE Asked[i - (p - 1)]
          <5>1. CASE op.name = "insert"
            <6>1. /\ Expected \in Seq(Objects) /\ Len(Expected) = l + n
                  /\ \A i \in 1 .. l + n :
                        Expected[i] = IF i < p THEN Remaining[i]
                                      ELSE IF i < p + n THEN Asked[i - (p - 1)]
                                      ELSE Remaining[i - n]
              BY <1>1, <1>n, <5>1, OfCall, InsertIs
            <6>2. /\ l + n >= p - 1 + n
                  /\ \A i \in 1 .. p - 1 + n : i \in 1 .. l + n /\ i < p + n
              BY <1>t, <1>2
            <6>3. QED
              BY <4>3, <6>1, <6>2
          <5>2. CASE op.name = "resize"
            <6>1. /\ Expected \in Seq(Objects) /\ Len(Expected) = p - 1 + n
                  /\ \A i \in 1 .. p - 1 + n :
                        Expected[i] = IF i < p THEN Remaining[i] ELSE Asked[i - (p - 1)]
              BY <1>1, <1>n, <5>2, OfCall, ResizeIs
            <6>2. p - 1 + n >= p - 1 + n
              BY <1>t
            <6>3. QED
              BY <4>3, <6>1, <6>2
          <5>3. op.name = "insert" \/ op.name = "resize"
            BY <3>2
          <5>4. QED
            BY <5>1, <5>2, <5>3
        <4>5. ASSUME NEW i \in 1 .. s
              PROVE  data'[i] = Expected[i]
          <5>1. i \in 1 .. p - 1 + n
            BY <1>t, <4>1
          <5>2. CASE i < p
            <6>1. i \in 1 .. p - 1
              BY <1>t, <5>2
            <6>2. QED
              BY <1>7, <3>2, <4>4, <5>1, <5>2, <6>1
          <5>3. CASE ~(i < p)
            <6>1. i - (p - 1) \in 1 .. s - (p - 1) /\ p - 1 + (i - (p - 1)) = i
              BY <1>t, <4>1, <5>3
            <6>2. QED
              BY <1>7, <3>2, <4>4, <5>1, <5>3, <6>1
          <5>4. QED
            BY <5>2, <5>3
        <4>6. s <= Len(Expected)
          <5>1. Len(Expected) \in Nat
            BY <4>4, LenProperties
          <5>2. QED
            BY <1>t, <4>1, <4>4, <5>1
        <4>7. IsPrefix(ContentsOf(data', s), Expected)
          BY <1>t, <4>4, <4>5, <4>6, PrefixIf
        <4>8. s >= p - 1 /\ ~(n = 1)
          BY <1>t, <4>1
        <4>9. QED
          BY <3>2, <4>7, <4>8
      <3>5. QED
        BY <3>3, <3>4
    <2>2. CASE pc = "relocate"
      <3>1. Relocating(room)
        BY <1>1, <2>2 DEF LoopsFollow
      <3>2. /\ ~op.grows /\ p <= s /\ s <= l /\ \A i \in 1 .. s : data[i] = before[i]
        BY <1>n, <3>1 DEF Relocating
      <3>3. s >= p - 1 /\ ~(p = l + 1)
        BY <1>t, <1>2, <3>2
      <3>4. IsPrefix(ContentsOf(data', s), before)
        BY <1>1, <1>7, <1>n, <3>2, PrefixIf
      <3>5. QED
        BY <3>2, <3>3, <3>4
    <2>3. CASE pc \in {"overwrite", "shift"}
      BY <1>1, <1>12, <2>3 DEF LoopsFollow, Overwriting, Shifting
    <2>4. QED
      BY <2>1, <2>2, <2>3 DEF Throws
  <1>13. ThrowKeeps'
    <2>1. /\ op' = op /\ before' = before /\ size' = s /\ Len(before') = l
          /\ op'.pos = p /\ op'.n = n
      BY <1>1, <1>n
    <2>2. QED
      BY <1>11, <1>12, <2>1 DEF ThrowKeeps
  <1>14. DoneAsAsked'
    BY <1>1 DEF DoneAsAsked
  <1>15. QED
    BY <1>8, <1>9, <1>10, <1>13, <1>14 DEF SlotsInv

\* The next call begins with nothing of this one.
LEMMA ReturnKeeps ==
  ASSUME NEW room \in 0 .. MaxSize, SlotsInv(room), Return
  PROVE  SlotsInv(room)'
  <1>1. /\ TypeOK /\ ElementsAccounted /\ size <= room /\ rd = Empty
        /\ UNCHANGED <<traits, data, size, rd>>
        /\ op' = NoOp /\ pc' = "idle" /\ step' = 0 /\ before' = <<>> /\ threw' = FALSE
    BY InvParts DEF LoopsFollow, Return
  <1>2. NoOp \in Ops /\ NoOp.pos = 1 /\ NoOp.n = 0 /\ NoOp.src.kind = "values" /\ NoOp.src.values = <<>>
    <2>1. Given(<<>>) \in Sources
      BY SlotsAssumption DEF Given, Sources
    <2>2. QED
      BY <2>1, SlotsAssumption DEF NoOp, Ops, Given
  <1>3. <<>> \in Seq(Objects) /\ Len(<<>>) = 0
    OBVIOUS
  <1>4. TypeOK'
    <2>1. 0 \in 0 .. MaxSize /\ "idle" \in Loops /\ FALSE \in BOOLEAN
      BY SlotsAssumption DEF Loops
    <2>2. traits \in Traits /\ data \in [Positions -> Objects \cup {Raw}]
          /\ size \in 0 .. MaxSize /\ rd \in [lo : 1 .. MaxSize + 1, hi : 1 .. MaxSize + 1]
      BY <1>1 DEF TypeOK
    <2>3. before' \in Seq(Objects) /\ op' \in Ops /\ pc' \in Loops /\ step' \in 0 .. MaxSize
          /\ threw' \in BOOLEAN
      BY <1>1, <1>2, <1>3, <2>1
    <2>4. QED
      BY <1>1, <2>2, <2>3 DEF TypeOK
  <1>5. ElementsAccounted'
    BY <1>1 DEF ElementsAccounted
  <1>6. LoopsFollow(room)'
    BY <1>1, <1>2, <1>3 DEF LoopsFollow, SourceGiven
  <1>7. QED
    BY <1>1, <1>4, <1>5, <1>6, NotYet DEF SlotsInv

LEMMA InPlaceKeeps ==
  ASSUME NEW room \in 0 .. MaxSize, SlotsInv(room), InPlace
  PROVE  SlotsInv(room)'
  BY RelocateAllKeeps, RelocateOneKeeps, FillKeeps, EndFillKeeps, OverwriteKeeps,
     EndOverwriteKeeps, ShiftAllKeeps, ShiftOneKeeps, EndShiftKeeps, ThrowsKeeps, ReturnKeeps
  DEF InPlace

----------------------------------------------------------------------------
\* How a call begins.

\* Between calls the slots hold the elements and nothing else.
LEMMA BetweenCalls ==
  ASSUME NEW room \in 0 .. MaxSize, SlotsInv(room), pc = "idle"
  PROVE  /\ rd = Empty /\ step = 0 /\ size \in Nat /\ size <= room /\ size \in 0 .. MaxSize
         /\ Contents \in Seq(Objects) /\ Len(Contents) = size
         /\ \A i \in 1 .. size : Contents[i] = data[i]
         /\ \A i \in Positions : data[i] # Raw <=> i <= size
         /\ data \in [Positions -> Objects \cup {Raw}] /\ traits \in Traits
  <1>1. /\ TypeOK /\ ElementsAccounted /\ rd = Empty /\ step = 0 /\ size \in 0 .. MaxSize
        /\ size <= room /\ data \in [Positions -> Objects \cup {Raw}] /\ traits \in Traits
    BY InvParts DEF LoopsFollow, TypeOK
  <1>2. size \in Nat /\ MaxSize \in Nat
    BY <1>1, SlotsAssumption
  <1>3. \A i \in Positions : data[i] # Raw <=> i <= size
    <2>1. \A i \in Positions : Occupied(i, size, rd) <=> i <= size
      BY <1>1, <1>2 DEF Occupied, Empty, Positions
    <2>2. QED
      BY <1>1, <2>1, AccountedNow
  <1>4. \A i \in 1 .. size : i \in Positions /\ i <= size /\ data[i] \in Objects
    <2>1. \A i \in 1 .. size : i \in Positions /\ i <= size
      BY <1>1, <1>2 DEF Positions
    <2>2. QED
      BY <1>1, <1>3, <2>1
  <1>5. Contents = ContentsOf(data, size)
    BY OfCall
  <1>6. QED
    BY <1>1, <1>2, <1>3, <1>4, <1>5, ContentsAre

\* A call begins: it may destroy some of the last elements.
LEMMA Begins ==
  ASSUME NEW room \in 0 .. MaxSize, SlotsInv(room), pc = "idle",
         op' \in Ops, op'.pos <= size + 1, SourceOf(op', Contents),
         before' = Contents, threw' = FALSE, pc' \in Loops \ {"idle"},
         UNCHANGED <<traits, step>>,
         size' \in Nat, size' <= size, data' \in [Positions -> Objects \cup {Raw}],
         \A i \in Positions : data'[i] # Raw <=> i <= size',
         rd' \in Ranges, rd'.lo = rd'.hi,
         pc' \notin {"relocate", "fill"} => rd' = Empty,
         pc' = "relocate" => Relocating(room)',
         pc' = "fill" => Filling(room)',
         pc' = "overwrite" => Overwriting(room)',
         pc' = "shift" => Shifting',
         pc' = "return" => Contents' = Expected'
  PROVE  SlotsInv(room)'
  <1>1. /\ step = 0 /\ size \in Nat /\ size <= room /\ size \in 0 .. MaxSize /\ room \in Nat
        /\ Contents \in Seq(Objects) /\ Len(Contents) = size /\ MaxSize \in Nat
        /\ traits \in Traits
    BY BetweenCalls, SlotsAssumption
  <1>2. size' \in 0 .. MaxSize /\ size' <= room
    BY <1>1
  <1>3. TypeOK'
    <2>a. before' \in Seq(Objects)
      BY <1>1
    <2>b. threw' \in BOOLEAN
      OBVIOUS
    <2>c. step' \in 0 .. MaxSize
      BY <1>1
    <2>d. traits' \in Traits
      BY <1>1
    <2>1. before' \in Seq(Objects) /\ threw' \in BOOLEAN /\ step' \in 0 .. MaxSize
          /\ traits' \in Traits /\ pc' \in Loops
      BY <2>a, <2>b, <2>c, <2>d
    <2>2. rd' \in [lo : 1 .. MaxSize + 1, hi : 1 .. MaxSize + 1]
      BY DEF Ranges
    <2>3. QED
      BY <1>2, <2>1, <2>2 DEF TypeOK
  <1>4. ElementsAccounted'
    <2>1. rd'.lo \in Nat
      BY <1>1 DEF Ranges
    <2>2. \A i \in Positions : Occupied(i, size', rd') <=> i <= size'
      BY <1>1, <2>1 DEF Occupied, Positions
    <2>3. Apart(size', rd')
      BY <2>1 DEF Apart
    <2>4. QED
      BY <1>3, <2>2, <2>3, AccountedNext
  <1>5. LoopsFollow(room)'
    BY <1>1, <1>2, OfCallNext DEF LoopsFollow
  <1>6. DoneAsAsked' /\ ThrowKeeps'
    BY DEF DoneAsAsked, ThrowKeeps
  <1>7. QED
    BY <1>3, <1>4, <1>5, <1>6 DEF SlotsInv

\* A refused call has done nothing.
LEMMA Refused ==
  ASSUME NEW room \in 0 .. MaxSize, SlotsInv(room), NEW o \in Ops, Refuse(o),
         o.pos <= size + 1, SourceOf(o, Contents)
  PROVE  SlotsInv(room)'
  <1>1. /\ pc = "idle" /\ op' = o /\ pc' = "return" /\ before' = Contents /\ threw' = TRUE
        /\ UNCHANGED <<traits, data, size, rd, step>>
    BY DEF Refuse
  <1>2. /\ rd = Empty /\ size \in Nat /\ size <= room
        /\ Contents \in Seq(Objects) /\ Len(Contents) = size /\ TypeOK /\ ElementsAccounted
        /\ o.pos \in Nat
    BY <1>1, BetweenCalls, InvParts, OpsHave, SlotsAssumption
  <1>3. TypeOK'
    BY <1>1, <1>2 DEF TypeOK, Loops
  <1>4. ElementsAccounted'
    BY <1>1, <1>2 DEF ElementsAccounted
  <1>5. LoopsFollow(room)'
    BY <1>1, <1>2, OfCallNext DEF LoopsFollow
  <1>6. DoneAsAsked'
    BY <1>1 DEF DoneAsAsked
  <1>7. ThrowKeeps'
    <2>1. Contents' = Contents
      BY <1>1 DEF Contents
    <2>2. IsPrefix(Contents, Contents)
      <3>1. \A i \in 1 .. size : data[i] = Contents[i]
        BY <1>1, BetweenCalls
      <3>2. size <= Len(Contents) /\ Contents = ContentsOf(data, size)
        BY <1>2, OfCall
      <3>3. QED
        BY <1>2, <3>1, <3>2, PrefixIf
    <2>3. size' >= op'.pos - 1
      BY <1>1, <1>2
    <2>4. QED
      BY <1>1, <2>1, <2>2, <2>3 DEF ThrowKeeps
  <1>8. QED
    BY <1>3, <1>4, <1>5, <1>6, <1>7 DEF SlotsInv

\* One that goes on behind the elements, or needs room behind its position first.
LEMMA BeginsFill ==
  ASSUME NEW room \in 0 .. MaxSize, SlotsInv(room), NEW o \in Ops, Start(o, "fill"),
         UNCHANGED <<traits, data, size, rd, step>>,
         o.name \in {"insert", "resize"}, ~o.grows, o.pos = size + 1, size + o.n <= room,
         SourceOf(o, Contents)
  PROVE  SlotsInv(room)'
  <1>1. pc = "idle" /\ op' = o /\ pc' = "fill" /\ before' = Contents /\ threw' = FALSE
    BY DEF Start
  <1>2. /\ rd = Empty /\ size \in Nat /\ room \in Nat /\ o.n \in Nat
        /\ Contents \in Seq(Objects) /\ Len(Contents) = size
        /\ \A i \in 1 .. size : Contents[i] = data[i]
        /\ data \in [Positions -> Objects \cup {Raw}]
        /\ \A i \in Positions : data[i] # Raw <=> i <= size
    BY <1>1, BetweenCalls, OpsHave, SlotsAssumption
  <1>n. PICK s \in Nat, n \in Nat, m \in Nat :
          size = s /\ o.n = n /\ room = m /\ o.pos = s + 1 /\ Len(Contents) = s
    BY <1>2
  <1>3. /\ s + 1 - 1 = s /\ s - s = 0 /\ s + n + 0 = s + n /\ s + n <= m
        /\ \A i \in 1 .. s : i \in 1 .. s + 1 - 1
    BY <1>n
  <1>4. /\ Made' = 0 /\ TailCount' = 0 /\ op'.pos - 1 = s /\ rd' = Empty
        /\ Empty.lo = 1 /\ Empty.hi = 1
    BY <1>1, <1>2, <1>n, <1>3 DEF Made, TailCount, Empty
  <1>5. Rest' = Contents
    <2>1. CASE n = 0
      BY <1>1, <1>4, <1>n, <2>1 DEF Rest, Remaining, SourceOf
    <2>2. CASE n # 0
      BY <1>1, <1>4, <1>n, <2>2 DEF Rest
    <2>3. QED
      BY <2>1, <2>2
  <1>6. Filling(room)'
    BY <1>1, <1>2, <1>n, <1>3, <1>4, <1>5 DEF Filling
  <1>7. Empty \in Ranges
    BY SlotsAssumption DEF Empty, Ranges
  <1>8. o.pos <= size + 1 /\ size <= size
    BY <1>n
  <1>9. QED
    BY <1>1, <1>2, <1>4, <1>6, <1>7, <1>8, Begins DEF Loops

LEMMA BeginsRelocate ==
  ASSUME NEW room \in 0 .. MaxSize, SlotsInv(room), NEW o \in Ops, Start(o, "relocate"),
         UNCHANGED <<traits, data, size, step>>,
         rd' = [lo |-> size + o.n + 1, hi |-> size + o.n + 1],
         o.name = "insert", ~o.grows, o.n >= 1, o.pos <= size, size + o.n <= room,
         SourceOf(o, Contents)
  PROVE  SlotsInv(room)'
  <1>1. pc = "idle" /\ op' = o /\ pc' = "relocate" /\ before' = Contents /\ threw' = FALSE
    BY DEF Start
  <1>2. /\ size \in Nat /\ room \in Nat /\ o.n \in Nat /\ o.pos \in Nat /\ MaxSize \in Nat
        /\ room <= MaxSize
        /\ Contents \in Seq(Objects) /\ Len(Contents) = size
        /\ \A i \in 1 .. size : Contents[i] = data[i]
        /\ data \in [Positions -> Objects \cup {Raw}]
        /\ \A i \in Positions : data[i] # Raw <=> i <= size
    BY <1>1, BetweenCalls, OpsHave, SlotsAssumption
  <1>3. rd' \in Ranges /\ rd'.lo = size + o.n + 1 /\ rd'.hi = size + o.n + 1
    BY <1>2 DEF Ranges
  <1>4. \A i \in rd'.lo .. rd'.hi - 1 : FALSE
    BY <1>2, <1>3
  <1>5. Relocating(room)'
    BY <1>1, <1>2, <1>3, <1>4 DEF Relocating
  <1>6. o.pos <= size + 1 /\ size <= size
    BY <1>2
  <1>7. QED
    BY <1>1, <1>2, <1>3, <1>5, <1>6, Begins DEF Loops

LEMMA Destroyed ==
  ASSUME NEW room \in 0 .. MaxSize, SlotsInv(room), pc = "idle",
         NEW first \in 1 .. size + 1, DestroyFrom(first)
  PROVE  /\ size' = first - 1 /\ size' \in Nat /\ size' <= size
         /\ data' \in [Positions -> Objects \cup {Raw}]
         /\ \A i \in Positions : data'[i] # Raw <=> i <= size'
         /\ \A i \in 1 .. first - 1 : data'[i] = data[i]
  <1>1. /\ size \in Nat /\ size <= MaxSize /\ MaxSize \in Nat
        /\ data \in [Positions -> Objects \cup {Raw}]
        /\ \A i \in Positions : data[i] # Raw <=> i <= size
    BY BetweenCalls, SlotsAssumption
  <1>2. /\ size' = first - 1
        /\ data' = [i \in Positions |-> IF i >= first THEN Raw ELSE data[i]]
    BY DEF DestroyFrom
  <1>n. PICK s \in Nat, f \in Nat, max \in Nat : size = s /\ first = f /\ MaxSize = max
    BY <1>1
  <1>3. 1 <= f /\ f <= s + 1 /\ s <= max /\ f - 1 \in Nat /\ f - 1 <= s
    BY <1>1, <1>n
  <1>4. \A i \in Positions : i \in Nat /\ 1 <= i /\ i <= max
    BY <1>n DEF Positions
  <1>5. \A i \in Positions : data'[i] # Raw <=> i <= f - 1
    <2>1. \A i \in Positions : (i <= f - 1 <=> ~(i >= f)) /\ (i <= f - 1 => i <= s)
      BY <1>n, <1>3, <1>4
    <2>2. QED
      BY <1>1, <1>2, <1>n, <2>1
  <1>6. \A i \in 1 .. f - 1 : i \in Positions /\ ~(i >= f)
    <2>1. \A i \in 1 .. f - 1 : i \in 1 .. max /\ ~(i >= f)
      BY <1>n, <1>3
    <2>2. QED
      BY <1>n, <2>1 DEF Positions
  <1>7. data' \in [Positions -> Objects \cup {Raw}]
    BY <1>1, <1>2
  <1>8. QED
    BY <1>2, <1>3, <1>5, <1>6, <1>7, <1>n

\* One that assigns to the elements there are, once those left over are destroyed.
LEMMA BeginsOverwrite ==
  ASSUME NEW room \in 0 .. MaxSize, SlotsInv(room), NEW o \in Ops, Start(o, "overwrite"),
         UNCHANGED <<traits, rd, step>>,
         o.name \in {"assign", "assign_range"}, o.pos = 1, o.n <= room, SourceOf(o, Contents),
         \/ UNCHANGED <<data, size>>
         \/ o.n < size /\ o.src.kind = "values" /\ DestroyFrom(o.n + 1)
  PROVE  SlotsInv(room)'
  <1>1. pc = "idle" /\ op' = o /\ pc' = "overwrite" /\ before' = Contents /\ threw' = FALSE
    BY DEF Start
  <1>2. /\ rd = Empty /\ step = 0 /\ size \in Nat /\ room \in Nat /\ o.n \in Nat
        /\ Contents \in Seq(Objects) /\ Len(Contents) = size
        /\ \A i \in 1 .. size : Contents[i] = data[i]
        /\ data \in [Positions -> Objects \cup {Raw}]
        /\ \A i \in Positions : data[i] # Raw <=> i <= size
    BY <1>1, BetweenCalls, OpsHave, SlotsAssumption
  <1>3. /\ size' \in Nat /\ size' <= size /\ data' \in [Positions -> Objects \cup {Raw}]
        /\ \A i \in Positions : data'[i] # Raw <=> i <= size'
    <2>1. CASE UNCHANGED <<data, size>>
      BY <1>2, <2>1
    <2>2. CASE o.n < size /\ DestroyFrom(o.n + 1)
      <3>1. o.n + 1 \in 1 .. size + 1
        BY <1>2, <2>2
      <3>2. QED
        BY <1>1, <2>2, <3>1, Destroyed
    <2>3. QED
      BY <2>1, <2>2
  <1>4. o.src.kind # "values" =>
           o.src.at <= size' /\ data'[o.src.at] = Contents[o.src.at]
    BY <1>2 DEF SourceOf
  <1>5. Overwriting(room)'
    <2>1. step' = 0 /\ 0 <= Kept' /\ op'.n = o.n
      BY <1>1, <1>2, <1>3 DEF Kept
    <2>2. \A j \in 1 .. 0 : data'[j] = Asked'[j]
      OBVIOUS
    <2>3. QED
      BY <1>1, <1>2, <1>4, <2>1, <2>2 DEF Overwriting
  <1>6. Empty \in Ranges /\ Empty.lo = Empty.hi /\ o.pos <= size + 1
    BY <1>2, SlotsAssumption DEF Empty, Ranges
  <1>7. QED
    BY <1>1, <1>2, <1>3, <1>5, <1>6, Begins DEF Loops

\* One that destroys the last elements, and is done.
LEMMA BeginsTruncate ==
  ASSUME NEW room \in 0 .. MaxSize, SlotsInv(room), NEW o \in Ops, Start(o, "return"),
         UNCHANGED <<traits, rd, step>>, o.src.kind = "values", SourceOf(o, Contents),
         o.pos <= size + 1, DestroyFrom(o.pos),
         (o.name = "resize" /\ o.n = 0) \/ (o.name = "erase" /\ o.pos + o.n = size + 1)
  PROVE  SlotsInv(room)'
  <1>1. pc = "idle" /\ op' = o /\ pc' = "return" /\ before' = Contents /\ threw' = FALSE
    BY DEF Start
  <1>2. /\ rd = Empty /\ size \in Nat /\ o.pos \in Nat \ {0} /\ o.n \in Nat
        /\ Contents \in Seq(Objects) /\ Len(Contents) = size
        /\ \A i \in 1 .. size : Contents[i] = data[i]
    <2>1. o.pos \in 1 .. MaxSize + 1 /\ o.n \in Nat /\ MaxSize \in Nat
      BY OpsHave, SlotsAssumption
    <2>2. QED
      BY <1>1, <2>1, BetweenCalls
  <1>3. o.pos \in 1 .. size + 1
    BY <1>2
  <1>4. /\ size' = o.pos - 1 /\ size' \in Nat /\ size' <= size
        /\ data' \in [Positions -> Objects \cup {Raw}]
        /\ \A i \in Positions : data'[i] # Raw <=> i <= size'
        /\ \A i \in 1 .. o.pos - 1 : data'[i] = data[i]
    BY <1>1, <1>3, Destroyed
  <1> DEFINE e == ExpectedOf(o, Contents)
  <1>5. /\ e \in Seq(Objects) /\ Len(e) = o.pos - 1
        /\ \A i \in 1 .. o.pos - 1 : e[i] = Contents[i]
    <2>1. CASE o.name = "resize" /\ o.n = 0
      <3>1. /\ e \in Seq(Objects) /\ Len(e) = o.pos - 1 + o.n
            /\ \A i \in 1 .. o.pos - 1 + o.n :
                  e[i] = IF i < o.pos THEN RemainingOf(o, Contents)[i]
                         ELSE AskedOf(o, Contents)[i - (o.pos - 1)]
        BY <1>2, <2>1, ResizeIs
      <3>2. RemainingOf(o, Contents) = Contents
        BY DEF RemainingOf
      <3>3. o.pos - 1 + o.n = o.pos - 1 /\ \A i \in 1 .. o.pos - 1 : i < o.pos
        BY <1>2, <2>1
      <3>4. QED
        BY <3>1, <3>2, <3>3
    <2>2. CASE o.name = "erase" /\ o.pos + o.n = size + 1
      <3>1. /\ e \in Seq(Objects) /\ Len(e) = size - o.n
            /\ \A i \in 1 .. size - o.n :
                  e[i] = IF i < o.pos THEN Contents[i] ELSE Contents[i + o.n]
        <4>1. o.pos + o.n <= Len(Contents) + 1 /\ o.src.kind # "rvalue"
          BY <1>2, <2>2
        <4>2. QED
          BY <1>2, <2>2, <4>1, EraseIs
      <3>2. size - o.n = o.pos - 1 /\ \A i \in 1 .. o.pos - 1 : i < o.pos
        BY <1>2, <2>2
      <3>3. QED
        BY <3>1, <3>2
    <2>3. QED
      BY <2>1, <2>2
  <1>6. Contents' = Expected'
    <2>1. Contents' = ContentsOf(data', size') /\ Expected' = e
      BY <1>1, OfCallNext
    <2>2. \A i \in 1 .. size' : data'[i] = e[i]
      <3>1. \A i \in 1 .. o.pos - 1 : i \in 1 .. size
        BY <1>2, <1>3
      <3>2. QED
        BY <1>2, <1>4, <1>5, <3>1
    <2>3. QED
      BY <1>4, <1>5, <2>1, <2>2, SequenceIf
  <1>7. Empty \in Ranges /\ Empty.lo = Empty.hi
    BY SlotsAssumption DEF Empty, Ranges
  <1>8. QED
    BY <1>1, <1>2, <1>4, <1>6, <1>7, Begins DEF Loops

LEMMA NoOpIs ==
  /\ NoOp \in Ops /\ NoOp.pos = 1 /\ NoOp.n = 0 /\ NoOp.src.kind = "values"
  /\ NoOp.src.values = <<>> /\ Len(NoOp.src.values) = 0 /\ ~NoOp.grows /\ NoOp.src \in Sources
  <1>1. Given(<<>>) \in Sources
    BY SlotsAssumption DEF Given, Sources
  <1>2. QED
    BY <1>1, SlotsAssumption DEF NoOp, Ops, Given

Erasing(first, n) ==
    LET o == [NoOp EXCEPT !.name = "erase", !.pos = first, !.n = n] IN
    IF first + n - 1 = size
    THEN Start(o, "return") /\ DestroyFrom(first) /\ UNCHANGED <<traits, rd, step>>
    ELSE Start(o, "shift") /\ UNCHANGED <<traits, data, size, rd, step>>

LEMMA StartEraseKeeps ==
  ASSUME NEW room \in 0 .. MaxSize, SlotsInv(room), StartErase
  PROVE  SlotsInv(room)'
  <1>a. \E first \in 1 .. size : \E n \in 1 .. size - first + 1 : Erasing(first, n)
    BY Zenon DEF StartErase, Erasing
  <1>b. PICK first \in 1 .. size : \E n \in 1 .. size - first + 1 : Erasing(first, n)
    BY <1>a
  <1>1. PICK n \in 1 .. size - first + 1 : Erasing(first, n)
    BY <1>b
  <1> DEFINE o == [NoOp EXCEPT !.name = "erase", !.pos = first, !.n = n]
  <1>2. pc = "idle"
    BY <1>1 DEF Erasing, Start
  <1>3. /\ rd = Empty /\ step = 0 /\ size \in Nat /\ size <= MaxSize /\ MaxSize \in Nat
        /\ Contents \in Seq(Objects) /\ Len(Contents) = size
        /\ \A i \in 1 .. size : Contents[i] = data[i]
        /\ data \in [Positions -> Objects \cup {Raw}]
        /\ \A i \in Positions : data[i] # Raw <=> i <= size
    BY <1>2, BetweenCalls, SlotsAssumption
  <1>4. /\ first \in 1 .. MaxSize + 1 /\ n \in Nat /\ n >= 1 /\ first \in Nat /\ first >= 1
        /\ first + n <= size + 1
    <2>1. first \in 1 .. size /\ n \in 1 .. size - first + 1
      OBVIOUS
    <2>2. QED
      BY <1>3, <2>1
  <1>5. /\ o \in Ops /\ o.name = "erase" /\ o.pos = first /\ o.n = n /\ o.src.kind = "values"
    BY <1>4, NoOpIs DEF NoOp, Ops
  <1> HIDE DEF o, Erasing
  <1>6. SourceOf(o, Contents) /\ o.pos <= size + 1
    BY <1>3, <1>4, <1>5 DEF SourceOf
  <1>7. CASE first + n - 1 = size
    <2>1. Start(o, "return") /\ DestroyFrom(o.pos) /\ UNCHANGED <<traits, rd, step>>
      BY <1>1, <1>5, <1>7 DEF o, Erasing
    <2>2. o.pos + o.n = size + 1
      BY <1>3, <1>4, <1>5, <1>7
    <2>3. QED
      BY <1>5, <1>6, <2>1, <2>2, BeginsTruncate
  <1>8. CASE first + n - 1 # size
    <2>1. Start(o, "shift") /\ UNCHANGED <<traits, data, size, rd, step>>
      BY <1>1, <1>8 DEF o, Erasing
    <2>2. op' = o /\ pc' = "shift" /\ before' = Contents /\ threw' = FALSE
      BY <2>1 DEF Start
    <2>n. PICK s \in Nat, p \in Nat, k \in Nat :
            size = s /\ first = p /\ n = k /\ o.pos = p /\ o.n = k /\ Len(Contents) = s
      BY <1>3, <1>4, <1>5
    <2>3. /\ 1 <= p /\ k >= 1 /\ p + k <= s /\ p + k + 0 <= s + 1
          /\ \A i \in 1 .. p - 1 : i \in 1 .. s
          /\ \A i \in p .. p + 0 - 1 : FALSE
          /\ \A i \in p + k + 0 .. s : i \in 1 .. s
      BY <1>4, <1>8, <2>n
    <2>4. Shifting'
      BY <1>3, <1>5, <2>1, <2>2, <2>3, <2>n DEF Shifting
    <2>5. Empty \in Ranges /\ Empty.lo = Empty.hi /\ size <= size
      BY <1>3, SlotsAssumption DEF Empty, Ranges
    <2>6. QED
      BY <1>2, <1>3, <1>5, <1>6, <2>1, <2>2, <2>4, <2>5, Begins DEF Loops
  <1>9. QED
    BY <1>7, <1>8

----------------------------------------------------------------------------
\* The calls of an inplace_vector.

CallNames == {"insert", "assign", "assign_range", "resize", "reserve", "shrink", "erase"}

\* src can give n values to a call on s elements.
Gives(src, n, s) ==
    /\ src \in Sources
    /\ src.kind = "values" => Len(src.values) >= n
    /\ src.kind # "values" => src.at \in 1 .. s
    /\ src.kind = "rvalue" => n = 1

CallOf(name, pos, n, src) == [NoOp EXCEPT !.name = name, !.pos = pos, !.n = n, !.src = src]

LEMMA CallIs ==
  ASSUME NEW name \in CallNames, NEW pos \in 1 .. MaxSize + 1, NEW n \in Nat, NEW src \in Sources,
         NEW o, o = CallOf(name, pos, n, src)
  PROVE  /\ o \in Ops /\ o.name = name /\ o.pos = pos /\ o.n = n /\ o.src = src /\ ~o.grows
  BY NoOpIs DEF NoOp, Ops, CallNames, CallOf

LEMMA ListsAre ==
  ASSUME NEW s \in Lists
  PROVE  /\ s \in Seq(Objects) /\ s \in Seq(Values) /\ Len(s) \in Nat
         /\ s # <<>> => Len(s) >= 1
  <1>1. PICK n \in 0 .. MaxCount : s \in [1 .. n -> Values]
    BY DEF Lists
  <1>2. n \in Nat /\ s \in Seq(Values) /\ Len(s) = n
    BY <1>1, SlotsAssumption
  <1>3. s \in Seq(Objects)
    BY <1>1, <1>2 DEF Objects
  <1>4. s # <<>> => n # 0
    BY <1>2, EmptySeq
  <1>5. QED
    BY <1>2, <1>3, <1>4

LEMMA GivenIs ==
  ASSUME NEW s \in Seq(Objects), NEW k
  PROVE  Gives(Given(s), Len(s), k) /\ Given(s).kind = "values" /\ Given(s).values = s
  BY SlotsAssumption, LenProperties DEF Gives, Given, Sources

LEMMA ElementIs ==
  ASSUME NEW s \in 0 .. MaxSize, NEW k \in 1 .. s, NEW n
  PROVE  /\ Gives(Element(k), n, s) /\ Element(k).kind = "element" /\ Element(k).at = k
         /\ Gives(Rvalue(k), 1, s) /\ Rvalue(k).kind = "rvalue"
  <1>1. k \in 0 .. MaxSize
    BY SlotsAssumption
  <1>2. Element(k) \in Sources /\ Rvalue(k) \in Sources
    BY <1>1 DEF Element, Rvalue, Sources
  <1>3. QED
    BY <1>2 DEF Element, Rvalue, Gives

LEMMA RepeatIs ==
  ASSUME NEW n \in Nat, NEW v \in Values, NEW s
  PROVE  Gives(Repeat(n, v), n, s) /\ Repeat(n, v).kind = "values"
  <1> DEFINE r == [j \in 1 .. n |-> v]
  <1>1. r \in Seq(Objects) /\ Len(r) = n
    BY DEF Objects
  <1>2. Repeat(n, v) = Given(r)
    BY DEF Repeat
  <1> HIDE DEF r
  <1>3. QED
    BY <1>1, <1>2, GivenIs

LEMMA GivesSource ==
  ASSUME NEW o \in Ops, NEW b \in Seq(Objects), Gives(o.src, o.n, Len(b)),
         o.src.kind = "rvalue" => o.name = "insert"
  PROVE  SourceOf(o, b)
  BY DEF SourceOf, Gives

\* An insertion there is room for.
InsertsWithin(o) ==
    /\ IF o.pos = size + 1
       THEN Start(o, "fill") /\ UNCHANGED rd
       ELSE Start(o, "relocate") /\ rd' = [lo |-> size + o.n + 1, hi |-> size + o.n + 1]
    /\ UNCHANGED <<traits, data, size, step>>

LEMMA InsertsWithinKeeps ==
  ASSUME NEW room \in 0 .. MaxSize, SlotsInv(room), NEW o \in Ops, InsertsWithin(o),
         o.name = "insert", ~o.grows, o.n >= 1, o.pos <= size + 1, size + o.n <= room,
         Gives(o.src, o.n, size)
  PROVE  SlotsInv(room)'
  <1>1. pc = "idle"
    BY DEF InsertsWithin, Start
  <1>2. size \in Nat /\ Contents \in Seq(Objects) /\ Len(Contents) = size /\ rd = Empty
    BY <1>1, BetweenCalls
  <1>3. SourceOf(o, Contents)
    BY <1>2, GivesSource
  <1>4. o.pos \in Nat
    BY OpsHave, SlotsAssumption
  <1>5. CASE o.pos = size + 1
    BY <1>3, <1>5, BeginsFill DEF InsertsWithin
  <1>6. CASE o.pos # size + 1
    <2>1. o.pos <= size
      BY <1>2, <1>4, <1>6
    <2>2. QED
      BY <1>3, <1>6, <2>1, BeginsRelocate DEF InsertsWithin
  <1>7. QED
    BY <1>5, <1>6

LEMMA InplaceInsertKeeps ==
  ASSUME SlotsInv(MaxSize), pc = "idle", NEW pos \in 1 .. size + 1, NEW n \in Nat, n >= 1, NEW src,
         Gives(src, n, size), InplaceInsert(pos, n, src)
  PROVE  SlotsInv(MaxSize)'
  <1>1. /\ MaxSize \in 0 .. MaxSize /\ MaxSize \in Nat
    BY SlotsAssumption
  <1>2. size \in Nat /\ size <= MaxSize /\ Contents \in Seq(Objects) /\ Len(Contents) = size
    BY <1>1, BetweenCalls
  <1> DEFINE o == CallOf("insert", pos, n, src)
  <1>3. /\ o \in Ops /\ o.name = "insert" /\ o.pos = pos /\ o.n = n /\ o.src = src /\ ~o.grows
    <2>1. pos \in 1 .. MaxSize + 1 /\ "insert" \in CallNames /\ src \in Sources
      BY <1>1, <1>2 DEF Gives, CallNames
    <2>2. QED
      BY <2>1, CallIs
  <1>4. IF size + n > MaxSize THEN Refuse(o)
        ELSE /\ IF pos = size + 1
                THEN Start(o, "fill") /\ UNCHANGED rd
                ELSE Start(o, "relocate") /\ rd' = [lo |-> size + n + 1, hi |-> size + n + 1]
             /\ UNCHANGED <<traits, data, size, step>>
    BY DEF InplaceInsert, CallOf
  <1> HIDE DEF o
  <1>5. CASE size + n > MaxSize
    <2>1. SourceOf(o, Contents) /\ o.pos <= size + 1
      BY <1>2, <1>3, GivesSource
    <2>2. QED
      BY <1>1, <1>3, <1>4, <1>5, <2>1, Refused
  <1>6. CASE ~(size + n > MaxSize)
    <2>1. InsertsWithin(o)
      BY <1>3, <1>4, <1>6 DEF InsertsWithin
    <2>2. size + o.n <= MaxSize /\ o.pos <= size + 1
      BY <1>1, <1>2, <1>3, <1>6
    <2>3. QED
      BY <1>1, <1>3, <2>1, <2>2, InsertsWithinKeeps
  <1>7. QED
    BY <1>5, <1>6

LEMMA TryAppendKeeps ==
  ASSUME SlotsInv(MaxSize), pc = "idle", NEW s \in Lists, TryAppend(s)
  PROVE  SlotsInv(MaxSize)'
  <1>1. /\ MaxSize \in 0 .. MaxSize /\ MaxSize \in Nat
    BY SlotsAssumption
  <1>2. size \in Nat /\ size <= MaxSize /\ Contents \in Seq(Objects) /\ Len(Contents) = size
    BY <1>1, BetweenCalls
  <1> DEFINE k == Min({Len(s), MaxSize - size})
             fit == SubSeq(s, 1, k)
  <1>3. s \in Seq(Objects) /\ Len(s) \in Nat
    BY ListsAre
  <1>4. k \in Nat /\ k <= Len(s) /\ k <= MaxSize - size
    <2>1. \E x \in {Len(s), MaxSize - size} : \A y \in {Len(s), MaxSize - size} : x <= y
      BY <1>1, <1>2, <1>3
    <2>2. k \in {Len(s), MaxSize - size} /\ \A y \in {Len(s), MaxSize - size} : k <= y
      BY <2>1 DEF Min
    <2>3. QED
      BY <1>1, <1>2, <1>3, <2>2
  <1> HIDE DEF k
  <1>5. fit \in Seq(Objects) /\ Len(fit) = k
    BY <1>3, <1>4, Piece
  <1> HIDE DEF fit
  <1> DEFINE o == CallOf("insert", size + 1, Len(fit), Given(fit))
  <1>6. Gives(Given(fit), Len(fit), size) /\ Given(fit).kind = "values"
    BY <1>5, GivenIs
  <1>7. /\ o \in Ops /\ o.name = "insert" /\ o.pos = size + 1 /\ o.n = k /\ ~o.grows
        /\ o.src = Given(fit)
    <2>1. size + 1 \in 1 .. MaxSize + 1 /\ "insert" \in CallNames /\ Given(fit) \in Sources
      BY <1>1, <1>2, <1>6 DEF Gives, CallNames
    <2>2. Len(fit) \in Nat
      BY <1>4, <1>5
    <2>3. QED
      BY <1>5, <2>1, <2>2, CallIs
  <1>8. Start(o, "fill") /\ UNCHANGED <<traits, data, size, rd, step>>
    BY DEF TryAppend, CallOf, fit, k
  <1> HIDE DEF o
  <1>9. SourceOf(o, Contents)
    BY <1>2, <1>5, <1>6, <1>7, GivesSource
  <1>10. size + o.n <= MaxSize
    BY <1>1, <1>2, <1>4, <1>7
  <1>11. QED
    BY <1>1, <1>7, <1>8, <1>9, <1>10, BeginsFill

LEMMA InplaceResizeKeeps ==
  ASSUME SlotsInv(MaxSize), pc = "idle", NEW count \in 0 .. MaxSize + 1, NEW src,
         count > size => Gives(src, count - size, size), src.kind # "rvalue",
         InplaceResize(count, src)
  PROVE  SlotsInv(MaxSize)'
  <1>1. /\ MaxSize \in 0 .. MaxSize /\ MaxSize \in Nat /\ count \in Nat
    BY SlotsAssumption
  <1>2. size \in Nat /\ size <= MaxSize /\ Contents \in Seq(Objects) /\ Len(Contents) = size
    BY <1>1, BetweenCalls
  <1>3. "resize" \in CallNames /\ Gives(NoOp.src, 0, size)
    BY NoOpIs DEF CallNames, Gives
  <1>4. CASE count > MaxSize
    <2> DEFINE o == [[NoOp EXCEPT !.name = "resize"] EXCEPT !.pos = size + 1]
    <2>1. Refuse(o)
      BY <1>4, Zenon DEF InplaceResize
    <2>2. /\ o \in Ops /\ o.name = "resize" /\ o.pos = size + 1 /\ o.n = 0 /\ o.src = NoOp.src
      <3>1. size + 1 \in 1 .. MaxSize + 1 /\ 0 \in Nat
        BY <1>1, <1>2
      <3>2. QED
        BY <3>1, NoOpIs DEF NoOp, Ops
    <2> HIDE DEF o
    <2>3. SourceOf(o, Contents) /\ o.pos <= size + 1
      BY <1>2, <1>3, <2>2, NoOpIs, GivesSource
    <2>4. QED
      BY <1>1, <2>1, <2>2, <2>3, Refused
  <1>5. CASE count <= size
    <2> DEFINE o == [[NoOp EXCEPT !.name = "resize"] EXCEPT !.pos = count + 1]
    <2>1. ~(count > MaxSize)
      BY <1>1, <1>2, <1>5
    <2>2. Start(o, "return") /\ DestroyFrom(count + 1) /\ UNCHANGED <<traits, rd, step>>
      BY <1>5, <2>1, Zenon DEF InplaceResize
    <2>3. /\ o \in Ops /\ o.name = "resize" /\ o.pos = count + 1 /\ o.n = 0 /\ o.src = NoOp.src
      <3>1. count + 1 \in 1 .. MaxSize + 1 /\ 0 \in Nat
        BY <1>1, <2>1
      <3>2. QED
        BY <3>1, NoOpIs DEF NoOp, Ops
    <2> HIDE DEF o
    <2>4. SourceOf(o, Contents) /\ o.pos <= size + 1 /\ o.src.kind = "values"
      BY <1>1, <1>2, <1>3, <1>5, <2>3, NoOpIs, GivesSource
    <2>5. QED
      BY <1>1, <2>2, <2>3, <2>4, BeginsTruncate
  <1>6. CASE ~(count > MaxSize) /\ ~(count <= size)
    <2> DEFINE o == CallOf("resize", size + 1, count - size, src)
    <2>1. Start(o, "fill") /\ UNCHANGED <<traits, data, size, rd, step>>
      BY <1>6 DEF InplaceResize, CallOf, NoOp
    <2>2. Gives(src, count - size, size)
      BY <1>1, <1>2, <1>6
    <2>3. /\ o \in Ops /\ o.name = "resize" /\ o.pos = size + 1 /\ o.n = count - size
          /\ o.src = src /\ ~o.grows
      <3>1. size + 1 \in 1 .. MaxSize + 1 /\ count - size \in Nat /\ src \in Sources
        BY <1>1, <1>2, <1>6, <2>2 DEF Gives
      <3>2. QED
        BY <1>3, <3>1, CallIs
    <2> HIDE DEF o
    <2>4. SourceOf(o, Contents)
      BY <1>2, <2>2, <2>3, GivesSource
    <2>5. size + o.n <= MaxSize
      BY <1>1, <1>2, <1>6, <2>3
    <2>6. QED
      BY <1>1, <2>1, <2>3, <2>4, <2>5, BeginsFill
  <1>7. QED
    BY <1>4, <1>5, <1>6

\* An assignment of values from elsewhere, there being room for them.
AssignsWithin(o) ==
    /\ Start(o, "overwrite")
    /\ IF size > o.n THEN DestroyFrom(o.n + 1) ELSE UNCHANGED <<data, size>>
    /\ UNCHANGED <<traits, rd, step>>

LEMMA AssignsWithinKeeps ==
  ASSUME NEW room \in 0 .. MaxSize, SlotsInv(room), NEW o \in Ops, AssignsWithin(o),
         o.name \in {"assign", "assign_range"}, o.pos = 1, o.n <= room,
         o.src.kind = "values", Gives(o.src, o.n, size)
  PROVE  SlotsInv(room)'
  <1>1. pc = "idle"
    BY DEF AssignsWithin, Start
  <1>2. size \in Nat /\ Contents \in Seq(Objects) /\ Len(Contents) = size /\ o.n \in Nat
    BY <1>1, BetweenCalls, OpsHave
  <1>3. SourceOf(o, Contents)
    BY <1>2, GivesSource
  <1>4. \/ UNCHANGED <<data, size>>
        \/ o.n < size /\ DestroyFrom(o.n + 1)
    BY <1>2 DEF AssignsWithin
  <1>5. QED
    BY <1>3, <1>4, BeginsOverwrite DEF AssignsWithin

LEMMA InplaceAssignKeeps ==
  ASSUME SlotsInv(MaxSize), pc = "idle", NEW s \in Lists, InplaceAssign(s)
  PROVE  SlotsInv(MaxSize)'
  <1>1. /\ MaxSize \in 0 .. MaxSize /\ MaxSize \in Nat
    BY SlotsAssumption
  <1>2. /\ size \in Nat /\ size <= MaxSize /\ Contents \in Seq(Objects) /\ Len(Contents) = size
        /\ s \in Seq(Objects) /\ Len(s) \in Nat
    BY <1>1, BetweenCalls, ListsAre
  <1> DEFINE o == [NoOp EXCEPT !.name = "assign", !.n = Len(s), !.src = Given(s)]
  <1>3. Gives(Given(s), Len(s), size) /\ Given(s).kind = "values"
    BY <1>2, GivenIs
  <1>4. /\ o \in Ops /\ o.name = "assign" /\ o.pos = 1 /\ o.n = Len(s) /\ o.src = Given(s)
    <2>1. Given(s) \in Sources
      BY <1>3 DEF Gives
    <2>2. QED
      BY <1>2, <2>1, NoOpIs DEF NoOp, Ops
  <1>5. IF Len(s) > MaxSize THEN Refuse(o)
        ELSE /\ Start(o, "overwrite")
             /\ IF size > Len(s) THEN DestroyFrom(Len(s) + 1) ELSE UNCHANGED <<data, size>>
             /\ UNCHANGED <<traits, rd, step>>
    BY Zenon DEF InplaceAssign
  <1> HIDE DEF o
  <1>6. SourceOf(o, Contents) /\ o.pos <= size + 1
    BY <1>2, <1>3, <1>4, GivesSource
  <1>7. CASE Len(s) > MaxSize
    BY <1>1, <1>4, <1>5, <1>6, <1>7, Refused
  <1>8. CASE ~(Len(s) > MaxSize)
    <2>1. AssignsWithin(o)
      BY <1>4, <1>5, <1>8 DEF AssignsWithin
    <2>2. o.n <= MaxSize
      BY <1>1, <1>2, <1>4, <1>8
    <2>3. QED
      BY <1>1, <1>3, <1>4, <2>1, <2>2, AssignsWithinKeeps
  <1>9. QED
    BY <1>7, <1>8

LEMMA InplaceCallKeeps ==
  ASSUME SlotsInv(MaxSize), InplaceCall
  PROVE  SlotsInv(MaxSize)'
  <1>1. MaxSize \in 0 .. MaxSize /\ MaxSize \in Nat /\ MaxCount \in Nat /\ size \in 0 .. MaxSize
    BY SlotsAssumption, InvParts DEF TypeOK
  <1>2. ASSUME NEW pos \in 1 .. size + 1, NEW s \in Lists \ {<<>>}, InplaceInsert(pos, Len(s), Given(s))
        PROVE  SlotsInv(MaxSize)'
    <2>1. /\ Len(s) \in Nat /\ Len(s) >= 1 /\ Gives(Given(s), Len(s), size)
      BY ListsAre, GivenIs
    <2>2. pc = "idle"
      BY <1>2 DEF InplaceInsert, Refuse, Start
    <2>3. QED
      BY <1>2, <2>1, <2>2, InplaceInsertKeeps
  <1>3. ASSUME NEW pos \in 1 .. size + 1, NEW k \in 1 .. size, NEW n \in 1 .. MaxCount,
               InplaceInsert(pos, n, Element(k)) \/ InplaceInsert(pos, 1, Rvalue(k))
        PROVE  SlotsInv(MaxSize)'
    <2>1. n \in Nat /\ n >= 1 /\ Gives(Element(k), n, size) /\ Gives(Rvalue(k), 1, size)
      BY <1>1, ElementIs
    <2>2. pc = "idle"
      BY <1>3 DEF InplaceInsert, Refuse, Start
    <2>3. QED
      BY <1>3, <2>1, <2>2, InplaceInsertKeeps
  <1>4. ASSUME NEW pos \in 1 .. size + 1, NEW k \in 1 .. size, InplaceInsert(pos, 1, Rvalue(k))
        PROVE  SlotsInv(MaxSize)'
    <2>1. Gives(Rvalue(k), 1, size)
      BY <1>1, ElementIs
    <2>2. pc = "idle"
      BY <1>4 DEF InplaceInsert, Refuse, Start
    <2>3. QED
      BY <1>4, <2>1, <2>2, InplaceInsertKeeps
  <1>5. ASSUME NEW s \in Lists, TryAppend(s) \/ InplaceAssign(s)
        PROVE  SlotsInv(MaxSize)'
    <2>1. pc = "idle"
      BY <1>5 DEF TryAppend, InplaceAssign, Refuse, Start
    <2>2. QED
      BY <1>5, <2>1, TryAppendKeeps, InplaceAssignKeeps
  <1>6. ASSUME NEW count \in 0 .. MaxSize + 1, NEW v \in Values,
               InplaceResize(count, Repeat(count - size, v))
        PROVE  SlotsInv(MaxSize)'
    <2>1. pc = "idle"
      BY <1>6 DEF InplaceResize, Refuse, Start
    <2>2. count > size => Gives(Repeat(count - size, v), count - size, size)
      <3>1. count > size => count - size \in Nat
        BY <1>1
      <3>2. QED
        BY <3>1, RepeatIs
    <2>3. Repeat(count - size, v).kind # "rvalue"
      BY DEF Repeat, Given
    <2>4. QED
      BY <1>6, <2>1, <2>2, <2>3, InplaceResizeKeeps
  <1>7. ASSUME NEW count \in 0 .. MaxSize + 1, NEW k \in 1 .. size, InplaceResize(count, Element(k))
        PROVE  SlotsInv(MaxSize)'
    <2>1. pc = "idle"
      BY <1>7 DEF InplaceResize, Refuse, Start
    <2>2. Gives(Element(k), count - size, size) /\ Element(k).kind # "rvalue"
      BY <1>1, ElementIs
    <2>3. QED
      BY <1>7, <2>1, <2>2, InplaceResizeKeeps
  <1>8. CASE StartErase
    BY <1>1, <1>8, StartEraseKeeps
  <1>9. QED
    BY <1>2, <1>3, <1>4, <1>5, <1>6, <1>7, <1>8 DEF InplaceCall

LEMMA SlotsBegin ==
  ASSUME Init, NEW room \in 0 .. MaxSize
  PROVE  SlotsInv(room)
  <1>1. /\ traits \in Traits /\ data = [i \in Positions |-> Raw] /\ size = 0 /\ rd = Empty
        /\ op = NoOp /\ pc = "idle" /\ step = 0 /\ before = <<>> /\ threw = FALSE
        /\ MaxSize \in Nat /\ room \in Nat
    BY SlotsAssumption DEF Init
  <1>2. Empty \in Ranges /\ Empty.lo = 1 /\ Empty.hi = 1
    BY <1>1, SlotsAssumption DEF Empty, Ranges
  <1>3. data \in [Positions -> Objects \cup {Raw}] /\ before \in Seq(Objects) /\ Len(before) = 0
    BY <1>1
  <1>4. TypeOK
    <2>1. threw \in BOOLEAN
      BY <1>1
    <2>2. pc \in Loops /\ op \in Ops /\ size \in 0 .. MaxSize /\ step \in 0 .. MaxSize
      BY <1>1, NoOpIs DEF Loops
    <2>3. QED
      BY <1>1, <1>2, <1>3, <2>1, <2>2 DEF TypeOK, Ranges
  <1>5. ElementsAccounted
    <2>1. \A i \in Positions : ~(data[i] # Raw) /\ ~Occupied(i, size, rd)
      BY <1>1, <1>2 DEF Occupied, Positions
    <2>2. Apart(size, rd)
      BY <1>1, <1>2 DEF Apart
    <2>3. QED
      BY <1>4, <2>1, <2>2, AccountedNow
  <1>6. LoopsFollow(room)
    BY <1>1, <1>2, <1>3, NoOpIs DEF LoopsFollow, SourceGiven
  <1>7. DoneAsAsked /\ ThrowKeeps
    BY <1>1 DEF DoneAsAsked, ThrowKeeps
  <1>8. QED
    BY <1>4, <1>5, <1>6, <1>7 DEF SlotsInv

LEMMA SlotsStutter ==
  ASSUME NEW room \in 0 .. MaxSize, SlotsInv(room), UNCHANGED slots
  PROVE  SlotsInv(room)'
  <1>1. UNCHANGED <<traits, data, size, rd, op, pc, step, before, threw>>
    BY DEF slots
  <1>2. /\ Asked' = Asked /\ Remaining' = Remaining /\ Expected' = Expected
        /\ (SourceGiven' <=> SourceGiven) /\ Contents' = Contents
    BY <1>1, CallKept DEF Contents
  <1>3. TypeOK' /\ ElementsAccounted'
    BY <1>1, InvParts DEF TypeOK, ElementsAccounted
  <1>4. DoneAsAsked' /\ ThrowKeeps'
    BY <1>1, <1>2, InvParts DEF DoneAsAsked, ThrowKeeps
  <1>5. /\ Made' = Made /\ TailCount' = TailCount /\ Kept' = Kept /\ Rest' = Rest
    BY <1>1, <1>2 DEF Made, TailCount, Kept, Rest
  <1>6. /\ Relocating(room)' <=> Relocating(room)
        /\ Filling(room)' <=> Filling(room)
        /\ Overwriting(room)' <=> Overwriting(room)
        /\ Shifting' <=> Shifting
    <2>1. Relocating(room)' <=> Relocating(room)
      BY <1>1 DEF Relocating
    <2>2. Filling(room)' <=> Filling(room)
      BY <1>1, <1>2, <1>5 DEF Filling
    <2>3. Overwriting(room)' <=> Overwriting(room)
      BY <1>1, <1>2, <1>5 DEF Overwriting
    <2>4. Shifting' <=> Shifting
      BY <1>1 DEF Shifting
    <2>5. QED
      BY <2>1, <2>2, <2>3, <2>4
  <1>7. LoopsFollow(room)'
    <2>1. LoopsFollow(room)
      BY InvParts
    <2>2. QED
      BY <1>1, <1>2, <1>6, <2>1 DEF LoopsFollow
  <1>8. QED
    BY <1>3, <1>4, <1>7 DEF SlotsInv

LEMMA LoopsInPlace ==
  ASSUME InPlace
  PROVE  pc \in InplaceLoops \ {"idle"} /\ pc' \in InplaceLoops
  <1>1. CASE RelocateAll \/ RelocateOne
    BY <1>1 DEF RelocateAll, RelocateOne, InplaceLoops
  <1>2. CASE Fill \/ EndFill
    BY <1>2 DEF Fill, EndFill, InplaceLoops
  <1>3. CASE Overwrite \/ EndOverwrite
    BY <1>3 DEF Overwrite, EndOverwrite, InplaceLoops
  <1>4. CASE ShiftAll \/ ShiftOne \/ EndShift
    BY <1>4 DEF ShiftAll, ShiftOne, EndShift, InplaceLoops
  <1>5. CASE Throws \/ Return
    BY <1>5 DEF Throws, Unwind, Return, InplaceLoops
  <1>6. QED
    BY <1>1, <1>2, <1>3, <1>4, <1>5 DEF InPlace

LEMMA CallsInPlace ==
  ASSUME InplaceCall
  PROVE  pc' \in InplaceLoops
  <1>1. ASSUME NEW pos, NEW n, NEW src, InplaceInsert(pos, n, src)
        PROVE  pc' \in InplaceLoops
    BY <1>1 DEF InplaceInsert, Refuse, Start, InplaceLoops
  <1>2. ASSUME NEW s, TryAppend(s) \/ InplaceAssign(s)
        PROVE  pc' \in InplaceLoops
    BY <1>2 DEF TryAppend, InplaceAssign, Refuse, Start, InplaceLoops
  <1>3. ASSUME NEW count, NEW src, InplaceResize(count, src)
        PROVE  pc' \in InplaceLoops
    BY <1>3 DEF InplaceResize, Refuse, Start, InplaceLoops
  <1>4. CASE StartErase
    BY <1>4 DEF StartErase, Start, InplaceLoops
  <1>5. QED
    BY <1>1, <1>2, <1>3, <1>4 DEF InplaceCall

LEMMA InplaceStep ==
  ASSUME InplaceIInv, [InplaceNext]_slots
  PROVE  InplaceIInv'
  <1>1. MaxSize \in 0 .. MaxSize
    BY SlotsAssumption
  <1>2. SlotsInv(MaxSize)'
    BY <1>1, InplaceCallKeeps, InPlaceKeeps, SlotsStutter DEF InplaceIInv, InplaceNext
  <1>3. pc' \in InplaceLoops
    BY LoopsInPlace, CallsInPlace DEF InplaceIInv, InplaceNext, slots
  <1>4. QED
    BY <1>2, <1>3 DEF InplaceIInv

----------------------------------------------------------------------------
\* The growth of a vector.

Buffers == [data : [Positions -> Objects \cup {Raw}], cap : 0 .. MaxSize,
            first : 1 .. MaxSize + 1, last : 1 .. MaxSize + 1]

\* What a buffer has, slot by slot.
BufferOK(b) ==
    /\ \A i \in Positions : b.data[i] # Raw <=> b.first <= i /\ i < b.last
    /\ b.first # b.last => b.last - 1 <= b.cap

LEMMA BufferBySlot ==
  ASSUME NEW b \in Buffers
  PROVE  (/\ {i \in Positions : b.data[i] # Raw} = b.first .. b.last - 1
          /\ b.first # b.last => b.last - 1 <= b.cap)
         <=> BufferOK(b)
  <1>1. /\ MaxSize \in Nat /\ b.first \in Nat \ {0} /\ b.last \in Nat /\ b.last <= MaxSize + 1
    BY SlotsAssumption DEF Buffers
  <1>2. \A i : i \in b.first .. b.last - 1 <=> i \in Positions /\ b.first <= i /\ i < b.last
    BY <1>1 DEF Positions
  <1>3. QED
    BY <1>2 DEF BufferOK

LEMMA VectorParts ==
  ASSUME IInv
  PROVE  /\ SlotsInv(cap) /\ GrowthFollows /\ TypeOK /\ ElementsAccounted /\ SourceGiven
         /\ cap \in 0 .. MaxSize /\ cap \in Nat /\ MaxSize \in Nat \ {0} /\ size <= cap
         /\ sb \in Buffers /\ sb.first <= sb.last /\ BufferOK(sb)
         /\ op \in Ops /\ before \in Seq(Objects) /\ op.pos <= Len(before) + 1
         /\ data \in [Positions -> Objects \cup {Raw}] /\ traits \in Traits
         /\ pc \notin {"relocate", "fill"} => rd = Empty
         /\ pc # "return" => ~threw
  <1>1. SlotsInv(cap) /\ VectorTypeOK /\ BufferAccounted /\ GrowthFollows
    BY DEF IInv
  <1>2. sb \in Buffers
    BY <1>1 DEF VectorTypeOK, Buffers
  <1>3. BufferOK(sb)
    BY <1>1, <1>2, BufferBySlot DEF BufferAccounted
  <1>4. cap \in Nat /\ MaxSize \in Nat \ {0}
    BY <1>1, SlotsAssumption DEF VectorTypeOK
  <1>5. /\ TypeOK /\ ElementsAccounted /\ LoopsFollow(cap) /\ traits \in Traits
    BY <1>1, InvParts DEF VectorTypeOK, TypeOK
  <1>6. QED
    BY <1>1, <1>2, <1>3, <1>4, <1>5, InvParts DEF VectorTypeOK, LoopsFollow

\* The capacity is another after the step, and the same all through the lemmas above.
LEMMA RoomIs ==
  ASSUME NEW r, r = cap', SlotsInv(r)'
  PROVE  SlotsInv(cap)'
  BY DEF SlotsInv, LoopsFollow, Relocating, Filling, Overwriting

LEMMA RoomWas ==
  ASSUME NEW r, r = cap, SlotsInv(cap)
  PROVE  SlotsInv(r)
  OBVIOUS

LEMMA VectorKeeps ==
  ASSUME NEW r \in 0 .. MaxSize, r = cap', SlotsInv(r)', sb' \in Buffers, sb'.first <= sb'.last,
         BufferOK(sb'), GrowthFollows'
  PROVE  IInv'
  <1>1. SlotsInv(cap)'
    BY RoomIs
  <1>2. TypeOK' /\ size' <= cap'
    BY <1>1 DEF SlotsInv, LoopsFollow
  <1>3. BufferAccounted'
    BY BufferBySlot DEF BufferAccounted
  <1>4. VectorTypeOK'
    BY <1>2 DEF VectorTypeOK, Buffers
  <1>5. QED
    BY <1>1, <1>3, <1>4 DEF IInv

LEMMA NoBufferIs ==
  /\ NoBuffer \in Buffers /\ NoBuffer.first <= NoBuffer.last /\ BufferOK(NoBuffer)
  <1>1. /\ NoBuffer.data = [i \in Positions |-> Raw] /\ NoBuffer.first = 1 /\ NoBuffer.last = 1
    BY DEF NoBuffer, NoSlots
  <1>2. NoBuffer \in Buffers
    BY SlotsAssumption DEF NoBuffer, NoSlots, Buffers
  <1>3. \A i \in Positions : ~(1 <= i /\ i < 1)
    BY SlotsAssumption DEF Positions
  <1>4. QED
    BY <1>1, <1>2, <1>3 DEF BufferOK

\* Outside of its growth.
LEMMA NotGrowing ==
  ASSUME NEW r \in 0 .. MaxSize, r = cap', SlotsInv(r)', sb' = NoBuffer,
         pc' \notin GrowthLoops \cup {"reset"}
  PROVE  IInv'
  <1>1. GrowthFollows'
    BY DEF GrowthFollows, GrowthLoops
  <1>2. QED
    BY <1>1, NoBufferIs, VectorKeeps

LEMMA InPlaceOfVector ==
  ASSUME IInv, InPlace, UNCHANGED <<cap, sb>>
  PROVE  IInv'
  <1>1. pc \in InplaceLoops \ {"idle"} /\ pc' \in InplaceLoops
    BY LoopsInPlace
  <1>2. sb = NoBuffer
    BY <1>1, VectorParts DEF GrowthFollows, GrowthLoops, InplaceLoops
  <1>r. PICK r \in 0 .. MaxSize : r = cap
    BY VectorParts
  <1>3. SlotsInv(r)'
    BY <1>r, VectorParts, RoomWas, InPlaceKeeps
  <1>4. QED
    BY <1>1, <1>2, <1>3, <1>r, NotGrowing DEF GrowthLoops, InplaceLoops

\* While it grows, an element becomes another object, or stays what it is.
LEMMA ElementsStay ==
  ASSUME NEW room \in 0 .. MaxSize, SlotsInv(room), pc \in GrowthLoops, pc' \in GrowthLoops,
         UNCHANGED <<traits, size, rd, op, step, before, threw>>,
         data' \in [Positions -> Objects \cup {Raw}],
         \A i \in Positions : data'[i] # Raw <=> data[i] # Raw
  PROVE  SlotsInv(room)'
  <1>1. /\ TypeOK /\ ElementsAccounted /\ LoopsFollow(room) /\ SourceGiven
    BY InvParts
  <1>2. TypeOK'
    BY <1>1 DEF TypeOK, GrowthLoops, Loops
  <1>3. ElementsAccounted'
    BY <1>1, <1>2, AccountedNow, AccountedNext
  <1>4. LoopsFollow(room)'
    BY <1>1, CallKept DEF LoopsFollow, GrowthLoops
  <1>5. QED
    BY <1>2, <1>3, <1>4, NotYet DEF SlotsInv, GrowthLoops

\* Its old slots are given up.
LEMMA ElementsGone ==
  ASSUME NEW room \in 0 .. MaxSize, SlotsInv(room), pc \in GrowthLoops, pc' \in GrowthLoops,
         UNCHANGED <<traits, rd, op, step, before, threw>>, data' = NoSlots, size' = 0
  PROVE  SlotsInv(room)'
  <1>1. /\ TypeOK /\ LoopsFollow(room) /\ SourceGiven /\ rd = Empty /\ room \in Nat
    BY InvParts, SlotsAssumption DEF LoopsFollow, GrowthLoops
  <1>2. \A i \in Positions : data'[i] = Raw /\ i \in Nat /\ i >= 1
    BY SlotsAssumption DEF NoSlots, Positions
  <1>3. TypeOK'
    <2>1. data' \in [Positions -> Objects \cup {Raw}] /\ size' \in 0 .. MaxSize
      BY SlotsAssumption DEF NoSlots
    <2>2. QED
      BY <1>1, <2>1 DEF TypeOK, GrowthLoops, Loops
  <1>4. ElementsAccounted'
    <2>1. /\ \A i \in Positions : ~Occupied(i, size', rd')
          /\ Apart(size', rd')
      BY <1>1, <1>2 DEF Occupied, Apart, Empty
    <2>2. QED
      BY <1>2, <1>3, <2>1, AccountedNext
  <1>5. LoopsFollow(room)'
    BY <1>1, CallKept DEF LoopsFollow, GrowthLoops
  <1>6. QED
    BY <1>3, <1>4, <1>5, NotYet DEF SlotsInv, GrowthLoops

LEMMA InGrowth ==
  ASSUME IInv, pc \in GrowthLoops
  PROVE  /\ Growing /\ rd = Empty /\ ~threw
         /\ pc \in GrowthLoops \ {"takeOver"} => size = Len(before)
         /\ sb.first \in Nat \ {0} /\ sb.last \in Nat /\ sb.last <= MaxSize + 1
         /\ sb.cap \in Nat /\ sb.cap <= MaxSize
         /\ op.pos \in Nat \ {0} /\ op.n \in Nat /\ Len(before) \in Nat /\ size \in Nat
         /\ Len(before) + op.n <= sb.cap /\ op.src.at \in Nat
         /\ (size = Len(before) => op.pos <= size + 1 /\ size + op.n <= sb.cap)
         /\ sb.data \in [Positions -> Objects \cup {Raw}]
         /\ Asked \in Seq(Objects) /\ Len(Asked) = op.n
         /\ Remaining \in Seq(Objects) /\ Len(Remaining) = Len(before)
  <1>1. /\ Growing /\ rd = Empty /\ ~threw
        /\ pc \in GrowthLoops \ {"takeOver"} => size = Len(before)
    BY VectorParts DEF GrowthFollows, GrowthLoops
  <1>2. /\ sb.first \in Nat \ {0} /\ sb.last \in Nat /\ sb.last <= MaxSize + 1
        /\ sb.cap \in Nat /\ sb.cap <= MaxSize /\ sb.data \in [Positions -> Objects \cup {Raw}]
    BY VectorParts DEF Buffers
  <1>3. /\ op.pos \in Nat \ {0} /\ op.n \in Nat /\ Len(before) \in Nat /\ size \in Nat
        /\ op.src.at \in Nat
    BY VectorParts, Numbers
  <1>4. Len(before) + op.n <= sb.cap /\ op.pos <= Len(before) + 1
    BY <1>1, VectorParts DEF Growing
  <1>5. Asked \in Seq(Objects) /\ Len(Asked) = op.n
    BY <1>1, VectorParts, OfCall, AskedIs DEF Growing
  <1>6. Remaining \in Seq(Objects) /\ Len(Remaining) = Len(before)
    BY VectorParts, OfCall, RemainingIs
  <1>7. QED
    BY <1>1, <1>2, <1>3, <1>4, <1>5, <1>6

\* MakeNew makes one more of the new values.
LEMMA MakeNewKeeps ==
  ASSUME IInv, MakeNew
  PROVE  IInv'
  <1>1. /\ pc = "makeNew" /\ pc \in GrowthLoops /\ sb.last - sb.first < op.n
        /\ UNCHANGED <<traits, size, rd, op, pc, step, before, threw, cap>>
        /\ sb' = [sb EXCEPT !.data[sb.last] = Value(sb.last - sb.first + 1), !.last = @ + 1]
        /\ data' = AfterRead
    BY DEF MakeNew, GrowthLoops
  <1>2. MakingNew /\ Growing /\ size = Len(before)
    BY <1>1, VectorParts DEF GrowthFollows, GrowthLoops
  <1>n. PICK p \in Nat, n \in Nat, l \in Nat, f \in Nat, la \in Nat, c \in Nat, max \in Nat :
          /\ op.pos = p /\ op.n = n /\ Len(before) = l /\ size = l
          /\ sb.first = f /\ sb.last = la /\ sb.cap = c /\ MaxSize = max
    BY <1>1, <1>2, InGrowth, VectorParts
  <1>t. /\ p \in Nat /\ n \in Nat /\ l \in Nat /\ f \in Nat /\ la \in Nat /\ c \in Nat
        /\ max \in Nat
    BY <1>n
  <1>3. /\ f = p /\ 1 <= p /\ p <= l + 1 /\ f <= la /\ la - f < n /\ l + n <= c /\ c <= max
        /\ n >= 1 /\ la <= max + 1 /\ op.name \in {"insert", "resize"}
        /\ \A i \in 1 .. l : data[i] = IF la = f THEN before[i] ELSE Remaining[i]
        /\ op.pos <= Len(before) + 1
    BY <1>1, <1>2, <1>n, InGrowth, VectorParts, SMTT(40) DEF MakingNew
  <1>4. la - f + 1 \in 1 .. n /\ la \in 1 .. max /\ la + 1 \in 1 .. max + 1 /\ f <= la + 1
        /\ la <= c /\ la + 1 <= p + n
    BY <1>t, <1>3
  <1>5. ASSUME op.src.kind # "values"
        PROVE  /\ ReadAt = op.src.at /\ op.src.at \in 1 .. l /\ op.src.at \in Positions
               /\ data[ReadAt] = before[op.src.at] /\ data[ReadAt] # Raw
    <2>1. op.src.at \in 1 .. l
      BY <1>5, <1>n, VectorParts DEF SourceGiven
    <2>2. ReadAt = op.src.at
      BY <1>1, InGrowth DEF ReadAt, TailCount, Empty
    <2>3. op.src.kind = "rvalue" => la = f
      <3>1. op.src.kind = "rvalue" => n = 1
        BY <1>n, VectorParts DEF SourceGiven
      <3>2. n = 1 => la = f
        BY <1>t, <1>3
      <3>3. QED
        BY <3>1, <3>2
    <2>4. data[op.src.at] = before[op.src.at]
      BY <1>3, <2>1, <2>3 DEF Remaining
    <2>5. op.src.at \in Positions
      BY <1>t, <1>3, <1>n, <2>1 DEF Positions
    <2>6. before[op.src.at] \in Objects
      BY <1>n, <2>1, VectorParts, ElementOfSeq
    <2>7. QED
      BY <2>1, <2>2, <2>4, <2>5, <2>6, SlotsAssumption DEF Objects
  <1> DEFINE w == Asked[la - f + 1]
  <1>6. Value(la - f + 1) = w /\ w \in Objects
    BY <1>3, <1>4, <1>5, <1>n, VectorParts, NextValue
  <1>7. sb' \in Buffers /\ sb'.first = f /\ sb'.last = la + 1 /\ sb'.cap = c
        /\ \A i \in Positions : sb'.data[i] = IF i = la THEN w ELSE sb.data[i]
    <2>1. sb \in Buffers /\ la \in Positions
      BY <1>4, <1>n, VectorParts DEF Positions
    <2>2. sb' = [sb EXCEPT !.data[la] = w, !.last = la + 1]
      BY <1>1, <1>6, <1>n
    <2>3. QED
      BY <1>4, <1>6, <1>n, <2>1, <2>2 DEF Buffers
  <1>w. \A j \in 1 .. n : j = la - f + 1 => w = Asked[j]
    OBVIOUS
  <1> HIDE DEF w
  <1>8. /\ data' \in [Positions -> Objects \cup {Raw}]
        /\ \A i \in Positions : data'[i] # Raw <=> data[i] # Raw
        /\ \A i \in Positions :
              data'[i] = IF op.src.kind = "rvalue" /\ i = op.src.at THEN Moved ELSE data[i]
    <2>1. data \in [Positions -> Objects \cup {Raw}]
      BY VectorParts
    <2>2. CASE op.src.kind = "rvalue"
      <3>1. data' = [data EXCEPT ![op.src.at] = Moved]
        BY <1>1, <1>5, <2>2 DEF AfterRead
      <3>2. QED
        BY <1>5, <2>1, <2>2, <3>1, SlotsAssumption DEF Objects
    <2>3. CASE op.src.kind # "rvalue"
      BY <1>1, <2>1, <2>3 DEF AfterRead
    <2>4. QED
      BY <2>2, <2>3
  <1>r. PICK r \in 0 .. MaxSize : r = cap
    BY VectorParts
  <1>9. SlotsInv(r)'
    BY <1>1, <1>8, <1>r, VectorParts, RoomWas, ElementsStay
  <1>10. BufferOK(sb')
    <2>1. ASSUME NEW i \in Positions
          PROVE  sb'.data[i] # Raw <=> f <= i /\ i < la + 1
      <3>1. i \in Nat
        BY SlotsAssumption DEF Positions
      <3>2. sb.data[i] # Raw <=> f <= i /\ i < la
        BY <1>n, VectorParts DEF BufferOK
      <3>3. CASE i = la
        <4>1. f <= i /\ i < la + 1 /\ w # Raw
          BY <1>t, <1>3, <1>6, <3>3, SlotsAssumption DEF Objects
        <4>2. QED
          BY <1>7, <3>3, <4>1
      <3>4. CASE i # la
        <4>1. i < la + 1 <=> i < la
          BY <1>t, <3>1, <3>4
        <4>2. QED
          BY <1>7, <3>2, <3>4, <4>1
      <3>5. QED
        BY <3>3, <3>4
    <2>2. la + 1 - 1 <= c
      BY <1>t, <1>4
    <2>3. QED
      BY <1>7, <2>1, <2>2 DEF BufferOK
  <1>11. BufferHolds'
    <2>1. ASSUME NEW i \in f .. la
          PROVE  sb'.data[i] = IF i < p THEN Remaining[i]
                               ELSE IF i < p + n THEN Asked[i - (p - 1)]
                               ELSE Remaining[i - n]
      <3>1. i \in Positions /\ i >= p /\ i < p + n /\ i \in Nat
        <4>1. i \in 1 .. max /\ i >= p /\ i < p + n
          BY <1>t, <1>3, <1>4
        <4>2. QED
          BY <1>n, <4>1 DEF Positions
      <3>2. CASE i = la
        <4>1. i - (p - 1) = la - f + 1 /\ i - (p - 1) \in 1 .. n /\ ~(i < p)
          BY <1>t, <1>3, <1>4, <3>2
        <4>2. QED
          BY <1>7, <1>w, <3>1, <3>2, <4>1
      <3>3. CASE i # la
        <4>1. i \in f .. la - 1
          BY <1>t, <3>3
        <4>2. QED
          BY <1>2, <1>7, <1>n, <3>1, <3>3, <4>1 DEF Growing, BufferHolds
      <3>4. QED
        BY <3>2, <3>3
    <2>2. Asked' = Asked /\ Remaining' = Remaining
      BY <1>1, CallKept
    <2>3. la + 1 - 1 = la
      BY <1>t
    <2>4. sb'.first = f /\ sb'.last - 1 = la /\ op'.pos = p /\ op'.n = n
      BY <1>1, <1>7, <1>n, <2>3
    <2>5. QED
      BY <2>1, <2>2, <2>4 DEF BufferHolds
  <1>12. Growing'
    BY <1>1, <1>2, <1>7, <1>11, <1>n DEF Growing
  <1>13. MakingNew'
    <2>1. ASSUME NEW i \in 1 .. l
          PROVE  data'[i] = Remaining[i]
      <3>1. i \in Positions /\ i \in 1 .. l
        BY <1>t, <1>3, <1>n DEF Positions
      <3>2. Remaining[i] = IF op.src.kind = "rvalue" /\ i = op.src.at THEN Moved ELSE before[i]
        BY <1>n, <3>1, VectorParts, OfCall, RemainingIs
      <3>3. data[i] = before[i] \/ data[i] = Remaining[i]
        BY <1>3
      <3>4. QED
        BY <1>8, <3>1, <3>2, <3>3
    <2>2. la + 1 # f
      BY <1>t, <1>3
    <2>3. Remaining' = Remaining /\ sb'.first # sb'.last
      BY <1>1, <1>7, <2>2, CallKept
    <2>4. /\ op'.pos = p /\ op'.n = n /\ size' = l /\ op'.name = op.name
      BY <1>1, <1>n
    <2>5. QED
      BY <1>3, <1>4, <1>7, <2>1, <2>3, <2>4 DEF MakingNew
  <1>14. GrowthFollows'
    BY <1>1, <1>2, <1>12, <1>13 DEF GrowthFollows, GrowthLoops
  <1>15. sb'.first <= sb'.last
    BY <1>4, <1>7
  <1>16. QED
    BY <1>1, <1>7, <1>9, <1>10, <1>14, <1>15, <1>r, VectorKeeps

LEMMA EndMakeNewKeeps ==
  ASSUME IInv, EndMakeNew
  PROVE  IInv'
  <1>1. /\ pc = "makeNew" /\ pc \in GrowthLoops /\ sb.last - sb.first = op.n
        /\ pc' = "moveFront" /\ pc' \in GrowthLoops
        /\ UNCHANGED <<traits, data, size, rd, op, step, before, threw, cap, sb>>
    BY DEF EndMakeNew, GrowthLoops
  <1>2. MakingNew /\ Growing /\ size = Len(before)
    BY <1>1, VectorParts DEF GrowthFollows, GrowthLoops
  <1>r. PICK r \in 0 .. MaxSize : r = cap
    BY VectorParts
  <1>3. SlotsInv(r)'
    BY <1>1, <1>r, VectorParts, RoomWas, ElementsStay
  <1>4. Asked' = Asked /\ Remaining' = Remaining
    BY <1>1, CallKept
  <1>5. Growing'
    BY <1>1, <1>2, <1>4 DEF Growing, BufferHolds
  <1>6. MovingFront'
    <2>1. sb.last = op.pos + op.n /\ sb.last # sb.first /\ sb.first <= op.pos /\ sb.first = op.pos
      BY <1>1, <1>2, InGrowth DEF MakingNew
    <2>2. \A i \in 1 .. size : data[i] = Remaining[i]
      BY <1>2, <2>1 DEF MakingNew
    <2>3. QED
      BY <1>1, <1>4, <2>1, <2>2 DEF MovingFront
  <1>7. GrowthFollows'
    BY <1>1, <1>2, <1>5, <1>6 DEF GrowthFollows
  <1>8. QED
    BY <1>1, <1>3, <1>7, <1>r, VectorParts, VectorKeeps

LEMMA NothingLeft ==
  /\ NoSlots \in [Positions -> Objects \cup {Raw}] /\ \A i \in Positions : NoSlots[i] = Raw
  BY DEF NoSlots

\* MoveAll moves everything at once.
LEMMA MoveAllKeeps ==
  ASSUME IInv, MoveAll
  PROVE  IInv'
  <1>1. /\ pc = "moveFront" /\ pc \in GrowthLoops /\ traits = "relocatable"
        /\ pc' = "takeOver" /\ pc' \in GrowthLoops /\ data' = NoSlots /\ size' = 0
        /\ UNCHANGED <<traits, rd, op, step, before, threw, cap>>
    BY DEF MoveAll, GrowthLoops
  <1>2. MovingFront /\ Growing /\ size = Len(before)
    BY <1>1, VectorParts DEF GrowthFollows, GrowthLoops
  <1>n. PICK p \in Nat, n \in Nat, l \in Nat, la \in Nat, c \in Nat, max \in Nat :
          /\ op.pos = p /\ op.n = n /\ Len(before) = l /\ size = l
          /\ sb.last = la /\ sb.cap = c /\ MaxSize = max
    BY <1>1, <1>2, InGrowth, VectorParts
  <1>t. p \in Nat /\ n \in Nat /\ l \in Nat /\ la \in Nat /\ c \in Nat /\ max \in Nat
    BY <1>n
  <1>3. /\ sb.first = p /\ 1 <= p /\ p <= l + 1 /\ l + n <= c /\ c <= max
        /\ \A i \in 1 .. l : data[i] = Remaining[i]
        /\ la = p + n \/ (la = p /\ p = l + 1 /\ Reserved)
    <2>1. Reserved => la = p /\ p = l + 1
      BY <1>2, <1>n DEF Growing, Reserved
    <2>2. sb.first = p
      BY <1>1, <1>2, <1>n DEF MovingFront
    <2>3. 1 <= p /\ p <= l + 1 /\ l + n <= c /\ c <= max
      BY <1>1, <1>2, <1>n, InGrowth
    <2>4. ASSUME NEW i \in 1 .. l
          PROVE  data[i] = Remaining[i]
      <3>1. i < p \/ i >= p
        BY <1>t
      <3>2. QED
        BY <1>2, <1>n, <2>2, <3>1 DEF MovingFront
    <2>5. la = p + n \/ Reserved
      BY <1>2, <1>n DEF MovingFront
    <2>6. QED
      BY <2>1, <2>2, <2>3, <2>4, <2>5
  <1> DEFINE k == la + l - (p - 1)
  <1>4. /\ k \in Nat /\ k = la + l - (p - 1) /\ la <= k /\ 1 <= k /\ k <= c + 1 /\ k \in 1 .. max + 1
        /\ p <= la /\ (la = p + n => k = l + n + 1) /\ (p = l + 1 => k = la)
    BY <1>t, <1>3
  <1> HIDE DEF k
  <1>5. /\ \A i \in Positions : i \in Nat /\ 1 <= i /\ i <= max
        /\ \A i \in Positions : data[i] # Raw <=> i <= l
        /\ \A i \in Positions : sb.data[i] # Raw <=> p <= i /\ i < la
    <2>1. \A i \in Positions : i \in Nat /\ 1 <= i /\ i <= max
      BY <1>n DEF Positions
    <2>2. \A i \in Positions : Occupied(i, size, rd) <=> i <= l
      BY <1>1, <1>n, <2>1, InGrowth DEF Occupied, Empty
    <2>3. QED
      BY <1>3, <1>n, <2>1, <2>2, VectorParts, AccountedNow DEF BufferOK
  <1>6. \A i \in Positions : i >= la /\ i < k => p + i - la \in Positions /\ p + i - la \in p .. l
    <2>1. \A i \in Positions : i >= la /\ i < k => p + i - la \in 1 .. max /\ p + i - la \in p .. l
      BY <1>t, <1>3, <1>4, <1>5
    <2>2. QED
      BY <1>n, <2>1 DEF Positions
  <1>7. sb' \in Buffers /\ sb'.first = 1 /\ sb'.last = k /\ sb'.cap = c
        /\ sb'.data = [i \in Positions |->
              IF i < p THEN data[i]
              ELSE IF i >= la /\ i < k THEN data[p + i - la] ELSE sb.data[i]]
    <2>1. sb \in Buffers /\ data \in [Positions -> Objects \cup {Raw}]
      BY VectorParts
    <2> DEFINE d == [i \in Positions |->
              IF i < p THEN data[i]
              ELSE IF i >= la /\ i < k THEN data[p + i - la] ELSE sb.data[i]]
    <2>2. sb' = [sb EXCEPT !.data = d, !.first = 1, !.last = k]
      BY <1>4, <1>n DEF MoveAll
    <2>3. d \in [Positions -> Objects \cup {Raw}]
      BY <1>6, <2>1 DEF Buffers
    <2>4. 1 \in 1 .. max + 1
      BY <1>t
    <2> HIDE DEF d
    <2>5. sb' \in Buffers /\ sb'.first = 1 /\ sb'.last = k /\ sb'.cap = c /\ sb'.data = d
      BY <1>4, <1>n, <2>1, <2>2, <2>3, <2>4 DEF Buffers
    <2>6. QED
      BY <2>5 DEF d
  <1>8. BufferOK(sb')
    <2>1. ASSUME NEW i \in Positions
          PROVE  sb'.data[i] # Raw <=> 1 <= i /\ i < k
      <3>1. CASE i < p
        <4>1. sb'.data[i] = data[i] /\ i <= l /\ 1 <= i /\ i < k
          BY <1>t, <1>3, <1>4, <1>5, <1>7, <3>1
        <4>2. QED
          BY <1>5, <4>1
      <3>2. CASE ~(i < p) /\ i >= la /\ i < k
        <4>1. sb'.data[i] = data[p + i - la] /\ p + i - la <= l /\ p + i - la \in Positions
          BY <1>6, <1>7, <3>2, <1>t
        <4>2. QED
          BY <1>5, <3>2, <4>1
      <3>3. CASE ~(i < p) /\ ~(i >= la /\ i < k)
        <4>1. sb'.data[i] = sb.data[i]
          BY <1>7, <3>3
        <4>2. p <= i /\ i < la <=> 1 <= i /\ i < k
          BY <1>t, <1>4, <1>5, <3>3
        <4>3. QED
          BY <1>5, <4>1, <4>2
      <3>4. QED
        BY <3>1, <3>2, <3>3
    <2>2. k - 1 <= c
      BY <1>t, <1>4
    <2>3. QED
      BY <1>7, <2>1, <2>2 DEF BufferOK
  <1>9. BufferHolds'
    <2>1. ASSUME NEW i \in 1 .. k - 1
          PROVE  sb'.data[i] = IF i < p THEN Remaining[i]
                               ELSE IF i < p + n THEN Asked[i - (p - 1)]
                               ELSE Remaining[i - n]
      <3>0. i \in Nat /\ 1 <= i /\ i < k /\ i \in Positions
        <4>1. i \in Nat /\ 1 <= i /\ i < k /\ i \in 1 .. max
          BY <1>t, <1>3, <1>4
        <4>2. QED
          BY <1>n, <4>1 DEF Positions
      <3>1. CASE i < p
        <4>1. i \in 1 .. l
          BY <1>t, <1>3, <3>0, <3>1
        <4>2. QED
          BY <1>3, <1>7, <3>0, <3>1, <4>1
      <3>2. CASE ~(i < p) /\ i < la
        <4>1. i \in p .. la - 1 /\ ~(i >= la /\ i < k)
          BY <1>t, <3>0, <3>2
        <4>2. sb'.data[i] = sb.data[i]
          BY <1>7, <3>0, <3>2, <4>1
        <4>3. QED
          BY <1>2, <1>3, <1>n, <4>1, <4>2 DEF Growing, BufferHolds
      <3>3. CASE ~(i < p) /\ ~(i < la)
        <4>1. i >= la /\ p + i - la \in p .. l
          BY <1>t, <1>6, <3>0, <3>3
        <4>2. la = p + n
          BY <1>t, <1>3, <1>4, <3>0, <4>1
        <4>3. ~(i < p + n) /\ p + i - la = i - n /\ i - n \in 1 .. l
          BY <1>t, <1>3, <3>0, <4>1, <4>2
        <4>4. sb'.data[i] = data[p + i - la]
          BY <1>7, <3>0, <3>3, <4>1
        <4>5. QED
          BY <1>3, <3>3, <4>3, <4>4
      <3>4. QED
        BY <3>1, <3>2, <3>3
    <2>2. Asked' = Asked /\ Remaining' = Remaining
      BY <1>1, CallKept
    <2>3. op'.pos = p /\ op'.n = n
      BY <1>1, <1>n
    <2>4. QED
      BY <1>7, <2>1, <2>2, <2>3 DEF BufferHolds
  <1>10. Growing'
    BY <1>1, <1>2, <1>7, <1>9, <1>n DEF Growing
  <1>11. TakingOver'
    <2>1. la = p + n => k = Len(before) + op.n + 1
      BY <1>4, <1>n
    <2>2. Reserved /\ p = l + 1 /\ la = p => Reserved'
      BY <1>1, <1>4, <1>7, <1>n DEF Reserved
    <2>3. QED
      BY <1>1, <1>3, <1>7, <2>1, <2>2 DEF TakingOver
  <1>12. GrowthFollows'
    BY <1>1, <1>10, <1>11 DEF GrowthFollows
  <1>r. PICK r \in 0 .. MaxSize : r = cap
    BY VectorParts
  <1>13. SlotsInv(r)'
    BY <1>1, <1>r, VectorParts, RoomWas, ElementsGone
  <1>14. QED
    BY <1>1, <1>4, <1>7, <1>8, <1>12, <1>13, <1>r, VectorKeeps

\* What Left does to the elements.
LEMMA LeftIs ==
  ASSUME data \in [Positions -> Objects \cup {Raw}], NEW k \in Positions, data[k] # Raw,
         data' = Left(k)
  PROVE  /\ data' \in [Positions -> Objects \cup {Raw}]
         /\ \A i \in Positions : data'[i] # Raw <=> data[i] # Raw
         /\ \A i \in Positions : i # k \/ traits # "nothrow" => data'[i] = data[i]
  <1>1. CASE traits = "nothrow"
    <2>1. data' = [data EXCEPT ![k] = Moved] /\ Moved # Raw /\ Moved \in Objects
      BY <1>1, SlotsAssumption DEF Left, Objects
    <2>2. QED
      BY <1>1, <2>1
  <1>2. CASE traits # "nothrow"
    BY <1>2 DEF Left
  <1>3. QED
    BY <1>1, <1>2

LEMMA MoveFrontKeeps ==
  ASSUME IInv, MoveFront
  PROVE  IInv'
  <1>1. /\ pc = "moveFront" /\ pc \in GrowthLoops /\ traits # "relocatable" /\ sb.first > 1
        /\ UNCHANGED <<traits, size, rd, op, pc, step, before, threw, cap>>
    BY DEF MoveFront, GrowthLoops
  <1>2. MovingFront /\ Growing /\ size = Len(before)
    BY <1>1, VectorParts DEF GrowthFollows, GrowthLoops
  <1>n. PICK p \in Nat, n \in Nat, l \in Nat, f \in Nat, la \in Nat, c \in Nat, max \in Nat :
          /\ op.pos = p /\ op.n = n /\ Len(before) = l /\ size = l
          /\ sb.first = f + 1 /\ sb.last = la /\ sb.cap = c /\ MaxSize = max /\ f >= 1
    <2>1. sb.first - 1 \in Nat /\ sb.first = (sb.first - 1) + 1 /\ sb.first - 1 >= 1
      BY <1>1, InGrowth
    <2>2. QED
      BY <1>1, <1>2, <2>1, InGrowth, VectorParts
  <1>t. /\ p \in Nat /\ n \in Nat /\ l \in Nat /\ f \in Nat /\ la \in Nat /\ c \in Nat
        /\ max \in Nat /\ f >= 1
    BY <1>n
  <1>3. /\ f + 1 <= p /\ p <= l + 1 /\ f + 1 <= la /\ l + n <= c /\ c <= max /\ la <= max + 1
        /\ (la = p + n \/ Reserved) /\ (Reserved => la = p)
    <2>1. Reserved => la = p
      BY <1>n DEF Reserved
    <2>2. QED
      BY <1>1, <1>2, <1>n, <2>1, InGrowth, VectorParts DEF MovingFront
  <1>4. /\ f \in 1 .. max /\ f \in 1 .. max + 1 /\ f \in 1 .. l /\ f < f + 1 /\ f + 1 - 1 = f
        /\ f <= la /\ la - 1 <= c /\ f # la /\ f <= p
    <2>1. n >= 0 /\ p <= c + 1 /\ p + n <= c + 1
      BY <1>t, <1>3
    <2>2. la <= c + 1
      BY <1>3, <2>1
    <2>3. QED
      BY <1>t, <1>3, <2>2
  <1>5. /\ \A i \in Positions : i \in Nat /\ 1 <= i /\ i <= max
        /\ \A i \in Positions : data[i] # Raw <=> i <= l
        /\ \A i \in Positions : sb.data[i] # Raw <=> f + 1 <= i /\ i < la
        /\ data \in [Positions -> Objects \cup {Raw}] /\ f \in Positions
    <2>1. \A i \in Positions : i \in Nat /\ 1 <= i /\ i <= max
      BY <1>n DEF Positions
    <2>2. \A i \in Positions : Occupied(i, size, rd) <=> i <= l
      BY <1>1, <1>n, <2>1, InGrowth DEF Occupied, Empty
    <2>3. QED
      BY <1>4, <1>n, <2>1, <2>2, VectorParts, AccountedNow DEF BufferOK, Positions
  <1>6. data[f] # Raw /\ data[f] \in Objects /\ data[f] = Remaining[f]
    <2>1. data[f] # Raw
      BY <1>t, <1>4, <1>5
    <2>2. data[f] = Remaining[f]
      BY <1>2, <1>4, <1>n DEF MovingFront
    <2>3. QED
      BY <1>5, <2>1, <2>2
  <1>7. /\ sb' \in Buffers /\ sb'.first = f /\ sb'.last = la /\ sb'.cap = c
        /\ \A i \in Positions : sb'.data[i] = IF i = f THEN data[f] ELSE sb.data[i]
        /\ data' = Left(f)
    <2>1. sb \in Buffers
      BY VectorParts
    <2>a. sb.first - 1 = f
      BY <1>4, <1>n
    <2>b. sb' = [sb EXCEPT !.data[sb.first - 1] = data[sb.first - 1], !.first = sb.first - 1]
          /\ data' = Left(sb.first - 1)
      BY DEF MoveFront
    <2>2. sb' = [sb EXCEPT !.data[f] = data[f], !.first = f] /\ data' = Left(f)
      BY <2>a, <2>b
    <2>3. QED
      BY <1>4, <1>5, <1>6, <1>n, <2>1, <2>2 DEF Buffers
  <1>8. /\ data' \in [Positions -> Objects \cup {Raw}]
        /\ \A i \in Positions : data'[i] # Raw <=> data[i] # Raw
        /\ \A i \in Positions : i # f \/ traits # "nothrow" => data'[i] = data[i]
    BY <1>5, <1>6, <1>7, LeftIs
  <1>9. BufferOK(sb')
    <2>1. ASSUME NEW i \in Positions
          PROVE  sb'.data[i] # Raw <=> f <= i /\ i < la
      <3>1. CASE i = f
        <4>1. f <= i /\ i < la
          BY <1>t, <1>4, <3>1
        <4>2. QED
          BY <1>6, <1>7, <3>1, <4>1
      <3>2. CASE i # f
        <4>1. f <= i <=> f + 1 <= i
          BY <1>t, <1>5, <3>2
        <4>2. QED
          BY <1>5, <1>7, <3>2, <4>1
      <3>3. QED
        BY <3>1, <3>2
    <2>2. QED
      BY <1>4, <1>7, <2>1 DEF BufferOK
  <1>10. BufferHolds'
    <2>1. ASSUME NEW i \in f .. la - 1
          PROVE  sb'.data[i] = IF i < p THEN Remaining[i]
                               ELSE IF i < p + n THEN Asked[i - (p - 1)]
                               ELSE Remaining[i - n]
      <3>1. i \in Positions
        <4>1. i \in 1 .. max
          BY <1>t, <1>3
        <4>2. QED
          BY <1>n, <4>1 DEF Positions
      <3>2. CASE i = f
        <4>1. i < p
          BY <1>t, <1>3, <3>2
        <4>2. QED
          BY <1>6, <1>7, <3>1, <3>2, <4>1
      <3>3. CASE i # f
        <4>1. i \in f + 1 .. la - 1
          BY <1>t, <3>3
        <4>2. QED
          BY <1>2, <1>7, <1>n, <3>1, <3>3, <4>1 DEF Growing, BufferHolds
      <3>4. QED
        BY <3>2, <3>3
    <2>2. Asked' = Asked /\ Remaining' = Remaining /\ op'.pos = p /\ op'.n = n
      BY <1>1, <1>n, CallKept
    <2>3. QED
      BY <1>7, <2>1, <2>2 DEF BufferHolds
  <1>11. Growing'
    BY <1>1, <1>2, <1>7, <1>10, <1>n DEF Growing
  <1>12. MovingFront'
    <2>1. ASSUME NEW i \in 1 .. l, i < f \/ i >= p \/ traits = "throwing"
          PROVE  data'[i] = Remaining[i]
      <3>1. i \in Positions
        <4>1. i \in 1 .. max
          BY <1>t, <1>3
        <4>2. QED
          BY <1>n, <4>1 DEF Positions
      <3>2. i < f + 1 \/ i >= p \/ traits = "throwing"
        BY <1>t, <2>1
      <3>3. data[i] = Remaining[i]
        BY <1>2, <1>n, <3>2 DEF MovingFront
      <3>4. i # f \/ traits # "nothrow"
        BY <1>t, <1>3, <2>1
      <3>5. QED
        BY <1>8, <3>1, <3>3, <3>4
    <2>2. Reserved => Reserved'
      BY <1>1, <1>7, <1>n DEF Reserved
    <2>3. Remaining' = Remaining /\ op'.pos = p /\ op'.n = n /\ size' = l /\ traits' = traits
      BY <1>1, <1>n, CallKept
    <2>4. QED
      BY <1>1, <1>3, <1>4, <1>7, <2>1, <2>2, <2>3 DEF MovingFront
  <1>13. GrowthFollows'
    BY <1>1, <1>2, <1>11, <1>12 DEF GrowthFollows
  <1>r. PICK r \in 0 .. MaxSize : r = cap
    BY VectorParts
  <1>14. SlotsInv(r)'
    BY <1>1, <1>8, <1>r, VectorParts, RoomWas, ElementsStay
  <1>15. QED
    BY <1>1, <1>4, <1>7, <1>9, <1>13, <1>14, <1>r, VectorKeeps

LEMMA EndMoveFrontKeeps ==
  ASSUME IInv, EndMoveFront
  PROVE  IInv'
  <1>1. /\ pc = "moveFront" /\ pc \in GrowthLoops /\ traits # "relocatable" /\ sb.first = 1
        /\ pc' = "moveBack" /\ pc' \in GrowthLoops
        /\ UNCHANGED <<traits, data, size, rd, op, step, before, threw, cap, sb>>
    BY DEF EndMoveFront, GrowthLoops
  <1>2. MovingFront /\ Growing /\ size = Len(before)
    BY <1>1, VectorParts DEF GrowthFollows, GrowthLoops
  <1>r. PICK r \in 0 .. MaxSize : r = cap
    BY VectorParts
  <1>3. SlotsInv(r)'
    BY <1>1, <1>r, VectorParts, RoomWas, ElementsStay
  <1>4. Asked' = Asked /\ Remaining' = Remaining
    BY <1>1, CallKept
  <1>5. Growing'
    BY <1>1, <1>2, <1>4 DEF Growing, BufferHolds
  <1>6. MovingBack'
    <2>1. op.pos <= size => sb.last = op.pos + op.n
      BY <1>2, InGrowth, <1>1 DEF MovingFront, Reserved, Growing
    <2>2. sb.last = op.pos + op.n => sb.last >= op.pos + op.n /\ Behind = op.pos
      BY <1>1, InGrowth DEF Behind
    <2>3. op.pos <= size => op.pos <= size + 1
      BY <1>1, InGrowth
    <2>4. sb.last = op.pos + op.n \/ Reserved
      BY <1>2 DEF MovingFront
    <2>5. \A i \in 1 .. size : (i >= op.pos /\ i >= Behind) \/ traits = "throwing" => data[i] = Remaining[i]
      BY <1>2 DEF MovingFront
    <2>6. Reserved' <=> Reserved
      BY <1>1 DEF Reserved
    <2>7. Behind' = Behind
      BY <1>1 DEF Behind
    <2>8. QED
      BY <1>1, <1>4, <2>1, <2>2, <2>3, <2>4, <2>5, <2>6, <2>7 DEF MovingBack
  <1>7. GrowthFollows'
    BY <1>1, <1>2, <1>5, <1>6 DEF GrowthFollows
  <1>8. QED
    BY <1>1, <1>3, <1>7, <1>r, VectorParts, VectorKeeps

LEMMA MoveBackKeeps ==
  ASSUME IInv, MoveBack
  PROVE  IInv'
  <1>1. /\ pc = "moveBack" /\ pc \in GrowthLoops /\ op.pos <= size /\ Behind <= size
        /\ UNCHANGED <<traits, size, rd, op, pc, step, before, threw, cap>>
        /\ sb' = [sb EXCEPT !.data[sb.last] = data[Behind], !.last = @ + 1]
        /\ data' = Left(Behind)
    BY DEF MoveBack, GrowthLoops
  <1>2. MovingBack /\ Growing /\ size = Len(before)
    BY <1>1, VectorParts DEF GrowthFollows, GrowthLoops
  <1>n. PICK p \in Nat, n \in Nat, l \in Nat, la \in Nat, c \in Nat, max \in Nat :
          /\ op.pos = p /\ op.n = n /\ Len(before) = l /\ size = l
          /\ sb.last = la /\ sb.cap = c /\ MaxSize = max
    BY <1>1, <1>2, InGrowth, VectorParts
  <1>t. p \in Nat /\ n \in Nat /\ l \in Nat /\ la \in Nat /\ c \in Nat /\ max \in Nat
    BY <1>n
  <1>3. /\ sb.first = 1 /\ p <= l /\ p + n <= la /\ la - n <= l /\ l + n <= c /\ c <= max
        /\ 1 <= p /\ traits # "relocatable"
        /\ \A i \in 1 .. l : (i >= p /\ i >= la - n) \/ traits = "throwing" => data[i] = Remaining[i]
    BY <1>1, <1>2, <1>n, InGrowth DEF MovingBack, Behind
  <1>b. PICK b \in Nat : b = la - n /\ Behind = b
    <2>1. la - n \in Nat /\ Behind = la - n
      BY <1>t, <1>3, <1>n DEF Behind
    <2>2. QED
      BY <2>1
  <1>4. /\ b \in 1 .. l /\ b \in 1 .. max /\ la \in 1 .. max /\ la + 1 \in 1 .. max + 1 /\ la <= c
        /\ p <= b /\ la = b + n /\ b \in Nat /\ b <= l /\ 1 <= la + 1 /\ la + 1 - 1 = la
    BY <1>t, <1>3, <1>b
  <1>5. /\ \A i \in Positions : i \in Nat /\ 1 <= i /\ i <= max
        /\ \A i \in Positions : data[i] # Raw <=> i <= l
        /\ \A i \in Positions : sb.data[i] # Raw <=> 1 <= i /\ i < la
        /\ data \in [Positions -> Objects \cup {Raw}] /\ b \in Positions /\ la \in Positions
    <2>1. \A i \in Positions : i \in Nat /\ 1 <= i /\ i <= max
      BY <1>n DEF Positions
    <2>2. \A i \in Positions : Occupied(i, size, rd) <=> i <= l
      BY <1>1, <1>n, <2>1, InGrowth DEF Occupied, Empty
    <2>3. b \in Positions /\ la \in Positions
      BY <1>4, <1>n DEF Positions
    <2>4. QED
      BY <1>3, <1>n, <2>1, <2>2, <2>3, VectorParts, AccountedNow DEF BufferOK
  <1>6. data[b] # Raw /\ data[b] \in Objects /\ data[b] = Remaining[b]
    <2>1. data[b] # Raw
      BY <1>4, <1>5
    <2>2. b >= p /\ b >= la - n
      BY <1>t, <1>4, <1>b
    <2>3. data[b] = Remaining[b]
      BY <1>3, <1>4, <2>2
    <2>4. QED
      BY <1>5, <2>1, <2>3
  <1>7. /\ sb' \in Buffers /\ sb'.first = 1 /\ sb'.last = la + 1 /\ sb'.cap = c
        /\ \A i \in Positions : sb'.data[i] = IF i = la THEN data[b] ELSE sb.data[i]
        /\ data' = Left(b)
    <2>1. sb \in Buffers
      BY VectorParts
    <2>2. sb' = [sb EXCEPT !.data[la] = data[b], !.last = la + 1] /\ data' = Left(b)
      BY <1>1, <1>n, <1>b
    <2>3. QED
      BY <1>3, <1>4, <1>5, <1>6, <1>n, <2>1, <2>2 DEF Buffers
  <1>8. /\ data' \in [Positions -> Objects \cup {Raw}]
        /\ \A i \in Positions : data'[i] # Raw <=> data[i] # Raw
        /\ \A i \in Positions : i # b \/ traits # "nothrow" => data'[i] = data[i]
    BY <1>5, <1>6, <1>7, LeftIs
  <1>9. BufferOK(sb')
    <2>1. ASSUME NEW i \in Positions
          PROVE  sb'.data[i] # Raw <=> 1 <= i /\ i < la + 1
      <3>1. CASE i = la
        <4>1. 1 <= i /\ i < la + 1
          BY <1>t, <1>5, <3>1
        <4>2. QED
          BY <1>6, <1>7, <3>1, <4>1
      <3>2. CASE i # la
        <4>1. i < la + 1 <=> i < la
          BY <1>t, <1>5, <3>2
        <4>2. QED
          BY <1>5, <1>7, <3>2, <4>1
      <3>3. QED
        BY <3>1, <3>2
    <2>2. QED
      BY <1>4, <1>7, <2>1 DEF BufferOK
  <1>10. BufferHolds'
    <2>1. ASSUME NEW i \in 1 .. la
          PROVE  sb'.data[i] = IF i < p THEN Remaining[i]
                               ELSE IF i < p + n THEN Asked[i - (p - 1)]
                               ELSE Remaining[i - n]
      <3>1. i \in Positions
        <4>1. i \in 1 .. max
          BY <1>t, <1>4
        <4>2. QED
          BY <1>n, <4>1 DEF Positions
      <3>2. CASE i = la
        <4>1. ~(i < p) /\ ~(i < p + n) /\ i - n = b
          BY <1>t, <1>3, <1>4, <3>2
        <4>2. QED
          BY <1>6, <1>7, <3>1, <3>2, <4>1
      <3>3. CASE i # la
        <4>1. i \in 1 .. la - 1
          BY <1>t, <3>3
        <4>2. QED
          BY <1>2, <1>3, <1>7, <1>n, <3>1, <3>3, <4>1 DEF Growing, BufferHolds
      <3>4. QED
        BY <3>2, <3>3
    <2>2. Asked' = Asked /\ Remaining' = Remaining /\ op'.pos = p /\ op'.n = n
      BY <1>1, <1>n, CallKept
    <2>3. sb'.first = 1 /\ sb'.last - 1 = la
      BY <1>4, <1>7
    <2>4. QED
      BY <2>1, <2>2, <2>3 DEF BufferHolds
  <1>11. Growing'
    BY <1>1, <1>2, <1>7, <1>10, <1>n DEF Growing
  <1>12. MovingBack'
    <2>1. Behind' = b + 1
      <3>1. la + 1 - n = b + 1
        BY <1>t, <1>4
      <3>2. QED
        BY <1>1, <1>7, <1>n, <3>1 DEF Behind
    <2>2. ASSUME NEW i \in 1 .. l, (i >= p /\ i >= b + 1) \/ traits = "throwing"
          PROVE  data'[i] = Remaining[i]
      <3>1. i \in Positions
        <4>1. i \in 1 .. max
          BY <1>t, <1>3
        <4>2. QED
          BY <1>n, <4>1 DEF Positions
      <3>2. (i >= p /\ i >= la - n) \/ traits = "throwing"
        BY <1>t, <1>b, <1>4, <2>2
      <3>3. data[i] = Remaining[i]
        BY <1>3, <3>2
      <3>4. i # b \/ traits # "nothrow"
        BY <1>t, <1>4, <2>2
      <3>5. QED
        BY <1>8, <3>1, <3>3, <3>4
    <2>3. Remaining' = Remaining /\ op'.pos = p /\ op'.n = n /\ size' = l /\ traits' = traits
      BY <1>1, <1>n, CallKept
    <2>4. la + 1 >= p + n /\ b + 1 <= l + 1
      BY <1>t, <1>3, <1>4
    <2>5. QED
      BY <1>3, <1>7, <2>1, <2>2, <2>3, <2>4 DEF MovingBack
  <1>13. GrowthFollows'
    BY <1>1, <1>2, <1>11, <1>12 DEF GrowthFollows
  <1>r. PICK r \in 0 .. MaxSize : r = cap
    BY VectorParts
  <1>14. SlotsInv(r)'
    BY <1>1, <1>8, <1>r, VectorParts, RoomWas, ElementsStay
  <1>15. QED
    BY <1>1, <1>4, <1>7, <1>9, <1>13, <1>14, <1>r, VectorKeeps

LEMMA EndMoveBackKeeps ==
  ASSUME IInv, EndMoveBack
  PROVE  IInv'
  <1>1. /\ pc = "moveBack" /\ pc \in GrowthLoops /\ (op.pos > size \/ Behind > size)
        /\ pc' = "takeOver" /\ pc' \in GrowthLoops /\ data' = NoSlots /\ size' = 0
        /\ UNCHANGED <<traits, rd, op, step, before, threw, cap, sb>>
    BY DEF EndMoveBack, GrowthLoops
  <1>2. MovingBack /\ Growing /\ size = Len(before)
    BY <1>1, VectorParts DEF GrowthFollows, GrowthLoops
  <1>r. PICK r \in 0 .. MaxSize : r = cap
    BY VectorParts
  <1>3. SlotsInv(r)'
    BY <1>1, <1>r, VectorParts, RoomWas, ElementsGone
  <1>4. Asked' = Asked /\ Remaining' = Remaining
    BY <1>1, CallKept
  <1>5. Growing'
    BY <1>1, <1>2, <1>4 DEF Growing, BufferHolds
  <1>6. TakingOver'
    <2>n. PICK p \in Nat, n \in Nat, l \in Nat, la \in Nat :
            op.pos = p /\ op.n = n /\ Len(before) = l /\ size = l /\ sb.last = la
      BY <1>1, <1>2, InGrowth
    <2>t. p \in Nat /\ n \in Nat /\ l \in Nat /\ la \in Nat
      BY <2>n
    <2>b. Behind = la - n
      BY <2>n DEF Behind
    <2>1. la = l + n + 1 \/ Reserved
      <3>1. CASE p <= l
        <4>1. la - n <= l + 1
          BY <1>2, <2>n, <2>b, <3>1 DEF MovingBack
        <4>2. la - n > l
          BY <1>1, <2>n, <2>b, <2>t, <3>1
        <4>3. QED
          BY <2>t, <4>1, <4>2
      <3>2. CASE ~(p <= l)
        <4>1. p = l + 1
          <5>1. p <= l + 1
            BY <2>n, VectorParts
          <5>2. QED
            BY <2>t, <3>2, <5>1
        <4>2. la = p + n \/ Reserved
          BY <1>2, <2>n, <3>2 DEF MovingBack
        <4>3. QED
          BY <2>t, <4>1, <4>2
      <3>3. QED
        BY <3>1, <3>2
    <2>2. Reserved' <=> Reserved
      BY <1>1 DEF Reserved
    <2>3. QED
      BY <1>1, <1>2, <2>1, <2>2, <2>n DEF TakingOver, MovingBack
  <1>7. GrowthFollows'
    BY <1>1, <1>5, <1>6 DEF GrowthFollows
  <1>8. QED
    BY <1>1, <1>3, <1>7, <1>r, VectorParts, VectorKeeps

LEMMA TakeOverKeeps ==
  ASSUME IInv, TakeOver
  PROVE  IInv'
  <1>1. /\ pc = "takeOver" /\ pc \in GrowthLoops
        /\ data' = sb.data /\ size' = sb.last - 1 /\ cap' = sb.cap /\ sb' = NoBuffer
        /\ pc' = IF op.name = "resize" THEN "fill" ELSE "return"
        /\ UNCHANGED <<traits, rd, op, step, before, threw>>
    BY DEF TakeOver, GrowthLoops
  <1>2. TakingOver /\ Growing
    BY <1>1, VectorParts DEF GrowthFollows, GrowthLoops
  <1>n. PICK p \in Nat, n \in Nat, l \in Nat, la \in Nat, c \in Nat, max \in Nat :
          /\ op.pos = p /\ op.n = n /\ Len(before) = l
          /\ sb.last = la /\ sb.cap = c /\ MaxSize = max
    BY <1>1, InGrowth, VectorParts
  <1>t. p \in Nat /\ n \in Nat /\ l \in Nat /\ la \in Nat /\ c \in Nat /\ max \in Nat
    BY <1>n
  <1>3. /\ sb.first = 1 /\ 1 <= p /\ p <= l + 1 /\ l + n <= c /\ c <= max /\ 1 <= la
        /\ rd = Empty /\ ~threw /\ step \in 0 .. max /\ c \in 0 .. MaxSize /\ threw \in BOOLEAN
        /\ Remaining \in Seq(Objects) /\ Len(Remaining) = l
    BY <1>1, <1>2, <1>n, InGrowth, VectorParts DEF TakingOver, TypeOK
  <1>4. /\ la - 1 \in Nat /\ la - 1 <= c /\ size' = la - 1
        /\ data' \in [Positions -> Objects \cup {Raw}]
        /\ \A i \in Positions : data'[i] # Raw <=> i <= la - 1
    <2>1. la - 1 \in Nat
      BY <1>t, <1>3
    <2>2. la - 1 <= c
      BY <1>t, <1>3, <1>n, VectorParts DEF BufferOK
    <2>3. \A i \in Positions : i \in Nat /\ 1 <= i
      BY <1>n DEF Positions
    <2>4. ASSUME NEW i \in Positions
          PROVE  data'[i] # Raw <=> i <= la - 1
      <3>1. sb.data[i] # Raw <=> 1 <= i /\ i < la
        BY <1>3, <1>n, VectorParts DEF BufferOK
      <3>2. i < la <=> i <= la - 1
        BY <1>t, <2>3
      <3>3. QED
        BY <1>1, <2>3, <3>1, <3>2
    <2>5. QED
      BY <1>1, <1>n, <2>1, <2>2, <2>4, InGrowth
  <1>5. \A i \in 1 .. la - 1 :
          data'[i] = IF i < p THEN Remaining[i]
                     ELSE IF i < p + n THEN Asked[i - (p - 1)] ELSE Remaining[i - n]
    BY <1>1, <1>2, <1>3, <1>n DEF Growing, BufferHolds
  <1>6. ASSUME op.name # "resize"
        PROVE  IInv'
    <2>1. la = l + n + 1
      BY <1>2, <1>n, <1>6 DEF TakingOver, Reserved
    <2>2. /\ Expected \in Seq(Objects) /\ Len(Expected) = l + n
          /\ \A i \in 1 .. l + n :
                Expected[i] = IF i < p THEN Remaining[i]
                              ELSE IF i < p + n THEN Asked[i - (p - 1)] ELSE Remaining[i - n]
      <3>1. CASE op.name = "insert"
        BY <3>1, <1>n, VectorParts, OfCall, InsertIs
      <3>2. CASE op.name \in {"reserve", "shrink"}
        <4>1. n = 0 /\ op.src.kind = "values" /\ p = l + 1
          BY <1>2, <1>n, <3>2 DEF Growing
        <4>2. Expected = before /\ Remaining = before
          BY <3>2, <4>1, VectorParts, OfCall, OthersAre DEF Remaining
        <4>3. \A i \in 1 .. l + n : i < p
          BY <1>t, <4>1
        <4>4. l + n = l
          BY <1>t, <4>1
        <4>5. QED
          BY <1>n, <4>2, <4>3, <4>4, VectorParts
      <3>3. QED
        BY <1>2, <1>6, <3>1, <3>2 DEF Growing
    <2>3. size' = Len(Expected) /\ \A i \in 1 .. size' : data'[i] = Expected[i]
      <3>1. la - 1 = l + n
        BY <1>t, <2>1
      <3>2. QED
        BY <1>4, <1>5, <2>2, <3>1
    <2>r. PICK q \in 0 .. MaxSize : q = cap
      BY VectorParts
    <2>k. PICK r \in 0 .. MaxSize : r = c
      BY <1>3
    <2>4. SlotsInv(q)
      BY <2>r, VectorParts, RoomWas
    <2>5. pc' = "return" /\ ~threw' /\ rd' = Empty /\ step' \in 0 .. MaxSize /\ threw' \in BOOLEAN
      BY <1>1, <1>3, <1>6, <1>n
    <2>6. UNCHANGED <<traits, op, before>> /\ size' <= r
          /\ \A i \in Positions : data'[i] # Raw <=> i <= size'
      BY <1>1, <1>4, <2>k
    <2>7. SlotsInv(r)'
      BY <1>4, <2>2, <2>3, <2>4, <2>5, <2>6, OverIf
    <2>8. r = cap' /\ sb' = NoBuffer /\ pc' \notin GrowthLoops \cup {"reset"}
      BY <1>1, <1>n, <2>k, <2>5 DEF GrowthLoops
    <2>9. QED
      BY <2>7, <2>8, NotGrowing
  <1>7. ASSUME op.name = "resize"
        PROVE  IInv'
    <2>1. p = l + 1 /\ op.src.kind # "rvalue" /\ Remaining = before
      BY <1>2, <1>7, <1>n, VectorParts DEF Growing, SourceGiven, Remaining
    <2>2. la = l + n + 1 \/ la = p
      BY <1>2, <1>n DEF TakingOver, Reserved
    <2>3. /\ rd' = Empty /\ rd'.lo = 1 /\ rd'.hi = 1 /\ TailCount' = 0 /\ op' = op /\ before' = before
          /\ op'.pos = p /\ op'.n = n /\ op'.name = "resize" /\ pc' = "fill" /\ threw' = FALSE
          /\ 1 .. 1 - 1 = {}
      BY <1>1, <1>3, <1>7, <1>n, VectorParts DEF Empty, TailCount
    <2>k. PICK r \in 0 .. MaxSize : r = c
      BY <1>3
    <2>4. Made' = la - 1 - l
      <3>1. la - 1 - (p - 1) = la - 1 - l
        BY <1>t, <2>1
      <3>2. QED
        BY <1>4, <2>3, <3>1 DEF Made
    <2>5. Asked' = Asked /\ Remaining' = Remaining
      BY <1>1, CallKept
    <2>6. Rest' = before
      BY <2>1, <2>3, <2>5 DEF Rest
    <2>7. Filling(r)'
      <3>1. p - 1 <= la - 1 /\ la - 1 - l <= n /\ p - 1 + n + 0 <= c /\ 0 = l - (p - 1) /\ p - 1 = l
        BY <1>t, <1>3, <2>1, <2>2
      <3>2. ASSUME NEW j \in 1 .. la - 1 - l
            PROVE  data'[p - 1 + j] = Asked[j]
        <4>1. /\ p - 1 + j \in 1 .. la - 1 /\ ~(p - 1 + j < p) /\ p - 1 + j < p + n
              /\ p - 1 + j - (p - 1) = j
          BY <1>t, <1>4, <2>1, <2>2
        <4>2. QED
          BY <1>5, <4>1
      <3>3. ASSUME NEW i \in 1 .. p - 1
            PROVE  data'[i] = before[i]
        <4>1. i \in 1 .. la - 1 /\ i < p
          BY <1>t, <2>1, <2>2
        <4>2. QED
          BY <1>5, <2>1, <4>1
      <3>4. op'.name \in {"insert", "resize"} /\ (op'.name = "insert" => ~op'.grows)
        BY <2>3
      <3>5. \A j \in 1 .. Made' : data'[op'.pos - 1 + j] = Asked'[j]
        BY <2>3, <2>4, <2>5, <3>2
      <3>6. \A i \in 1 .. op'.pos - 1 : data'[i] = Rest'[i]
        BY <2>3, <2>6, <3>3
      <3>7. \A i \in rd'.lo .. rd'.hi - 1 : data'[i] = Rest'[i - op'.n]
        BY <2>3
      <3>8. TailCount' = Len(before') - (op'.pos - 1) /\ ~(TailCount' > 0)
        BY <1>n, <2>3, <3>1
      <3>9. op'.pos - 1 <= size' /\ Made' <= op'.n /\ op'.pos - 1 + op'.n + TailCount' <= r
        BY <1>4, <2>3, <2>4, <2>k, <3>1
      <3>10. QED
        BY <3>4, <3>5, <3>6, <3>7, <3>8, <3>9 DEF Filling
    <2>8. TypeOK'
      <3>1. size' \in 0 .. MaxSize /\ step' \in 0 .. MaxSize /\ threw' \in BOOLEAN /\ pc' \in Loops
        BY <1>t, <1>n, <1>1, <1>3, <1>4, <2>3 DEF Loops
      <3>2. before' \in Seq(Objects) /\ op' \in Ops /\ traits' \in Traits
        BY <1>1, VectorParts
      <3>3. rd' \in [lo : 1 .. MaxSize + 1, hi : 1 .. MaxSize + 1]
        BY <1>1, VectorParts DEF TypeOK
      <3>4. QED
        BY <1>4, <3>1, <3>2, <3>3 DEF TypeOK
    <2>9. ElementsAccounted'
      <3>1. Apart(size', rd')
        BY <2>3 DEF Apart
      <3>2. \A i \in Positions : Occupied(i, size', rd') <=> i <= size'
        <4>1. \A i \in Positions : i \in Nat
          BY <1>n DEF Positions
        <4>2. QED
          BY <2>3, <4>1 DEF Occupied
      <3>3. QED
        BY <1>4, <2>8, <3>1, <3>2, AccountedNext
    <2>10. LoopsFollow(r)'
      <3>1. size' <= r /\ op'.pos <= Len(before') + 1 /\ SourceGiven'
        BY <1>1, <1>4, <2>k, VectorParts, CallKept
      <3>2. QED
        BY <2>3, <2>7, <3>1 DEF LoopsFollow
    <2>11. SlotsInv(r)'
      BY <2>3, <2>8, <2>9, <2>10, NotYet DEF SlotsInv
    <2>12. r = cap' /\ sb' = NoBuffer /\ pc' \notin GrowthLoops \cup {"reset"}
      BY <1>1, <1>n, <2>k, <2>3 DEF GrowthLoops
    <2>13. QED
      BY <2>11, <2>12, NotGrowing
  <1>8. QED
    BY <1>6, <1>7

LEMMA MoveThrowsKeeps ==
  ASSUME IInv, MoveThrows
  PROVE  IInv'
  <1>1. /\ \/ pc = "makeNew"
           \/ pc = "moveFront" /\ traits = "throwing"
           \/ pc = "moveBack" /\ traits = "throwing"
        /\ pc \in GrowthLoops /\ pc \in GrowthLoops \ {"takeOver"}
        /\ sb' = NoBuffer /\ pc' = "return" /\ threw' = (op.name # "shrink")
        /\ UNCHANGED <<traits, data, size, rd, op, step, before, cap>>
    BY DEF MoveThrows, GrowthLoops
  <1>2. Growing /\ size = Len(before) /\ rd = Empty /\ op.pos <= Len(before) + 1
    BY <1>1, InGrowth, VectorParts
  <1>3. /\ Remaining \in Seq(Objects) /\ Len(Remaining) = Len(before) /\ before \in Seq(Objects)
        /\ size \in Nat
    BY <1>1, InGrowth, VectorParts
  <1>4. PICK t \in {before, Remaining} : \A i \in 1 .. size : data[i] = t[i]
    <2>1. CASE pc = "makeNew"
      BY <2>1, VectorParts DEF GrowthFollows, MakingNew
    <2>2. CASE pc = "moveFront" /\ traits = "throwing"
      BY <2>2, VectorParts DEF GrowthFollows, MovingFront
    <2>3. CASE pc = "moveBack" /\ traits = "throwing"
      BY <2>3, VectorParts DEF GrowthFollows, MovingBack
    <2>4. QED
      BY <1>1, <2>1, <2>2, <2>3
  <1>5. t \in Seq(Objects) /\ size = Len(t)
    BY <1>2, <1>3, <1>4
  <1>6. Contents' = t /\ IsPrefix(Contents', t)
    <2>1. ContentsOf(data, size) = t /\ IsPrefix(ContentsOf(data, size), t)
      BY <1>3, <1>4, <1>5, SequenceIf, PrefixIf
    <2>2. Contents' = ContentsOf(data, size)
      BY <1>1, OfCallNext
    <2>3. QED
      BY <2>1, <2>2
  <1>7. Remaining' = Remaining /\ Expected' = Expected /\ (SourceGiven' <=> SourceGiven)
    BY <1>1, CallKept
  <1>8. DoneAsAsked'
    <2>1. CASE op.name = "shrink"
      <3>1. op.src.kind = "values"
        BY <1>2, <2>1 DEF Growing
      <3>2. Expected = before /\ Remaining = before
        BY <2>1, <3>1, VectorParts, OfCall, OthersAre DEF Remaining
      <3>3. QED
        BY <1>4, <1>6, <1>7, <3>2 DEF DoneAsAsked
    <2>2. CASE op.name # "shrink"
      BY <1>1, <2>2 DEF DoneAsAsked
    <2>3. QED
      BY <2>1, <2>2
  <1>9. ThrowKeeps'
    <2>1. size' >= op'.pos - 1
      <3>1. size >= op.pos - 1
        BY <1>1, <1>2, InGrowth
      <3>2. QED
        BY <1>1, <3>1
    <2>2. t \in {before', Remaining'} /\ t \in {before', Remaining', Expected'}
      BY <1>1, <1>4, <1>7
    <2>3. QED
      BY <1>6, <2>1, <2>2 DEF ThrowKeeps
  <1>r. PICK r \in 0 .. MaxSize : r = cap
    BY VectorParts
  <1>10. TypeOK' /\ ElementsAccounted'
    <2>1. threw' \in BOOLEAN /\ pc' \in Loops
      BY <1>1 DEF Loops
    <2>2. before' \in Seq(Objects)
      BY <1>1, <1>3
    <2>3. TypeOK'
      BY <1>1, <2>1, <2>2, VectorParts DEF TypeOK
    <2>4. ElementsAccounted'
      BY <1>1, VectorParts DEF ElementsAccounted
    <2>5. QED
      BY <2>3, <2>4
  <1>11. LoopsFollow(r)'
    BY <1>1, <1>2, <1>7, <1>r, VectorParts DEF LoopsFollow
  <1>12. SlotsInv(r)'
    BY <1>8, <1>9, <1>10, <1>11 DEF SlotsInv
  <1>13. pc' \notin GrowthLoops \cup {"reset"}
    BY <1>1 DEF GrowthLoops
  <1>14. QED
    BY <1>1, <1>12, <1>13, <1>r, NotGrowing

\* What resets or destroys leaves nothing.
LEMMA Cleared ==
  ASSUME data' = NoSlots, size' = 0, rd' = Empty, MaxSize \in Nat,
         before' \in Seq(Objects), op' \in Ops, pc' \in Loops, step' \in 0 .. MaxSize,
         traits' \in Traits, threw' \in BOOLEAN
  PROVE  TypeOK' /\ ElementsAccounted'
  <1>1. TypeOK'
    <2>1. size' \in 0 .. MaxSize
      OBVIOUS
    <2>2. rd' \in [lo : 1 .. MaxSize + 1, hi : 1 .. MaxSize + 1]
      BY DEF Empty
    <2>3. QED
      BY <2>1, <2>2, NothingLeft DEF TypeOK
  <1>2. Apart(size', rd')
    BY DEF Apart, Empty
  <1>3. \A i \in Positions : ~Occupied(i, size', rd')
    BY DEF Occupied, Empty, Positions
  <1>4. QED
    BY <1>1, <1>2, <1>3, NothingLeft, AccountedNext

LEMMA ResetKeeps ==
  ASSUME IInv, Reset
  PROVE  IInv'
  <1>1. /\ pc = "reset" /\ data' = NoSlots /\ size' = 0
        /\ UNCHANGED <<traits, rd, op, step, before, sb>>
        /\ pc' \in {"fill", "return"} /\ pc' \in Loops /\ pc' \notin GrowthLoops \cup {"reset"}
        /\ pc \notin GrowthLoops
        /\ \/ op.n <= MaxSize /\ cap' = op.n /\ pc' = "fill" /\ threw' = threw
           \/ cap' = 0 /\ pc' = "return" /\ threw' = TRUE
    BY DEF Reset, Loops, GrowthLoops
  <1>2. /\ op.name \in {"assign", "assign_range"} /\ op.pos = 1 /\ op.src.kind = "values"
        /\ sb = NoBuffer /\ rd = Empty /\ ~threw /\ threw \in BOOLEAN /\ step \in 0 .. MaxSize
        /\ op \in Ops /\ before \in Seq(Objects) /\ traits \in Traits
        /\ MaxSize \in Nat /\ op.n \in Nat /\ op.pos <= Len(before) + 1
    BY <1>1, VectorParts, OpsHave DEF GrowthFollows, TypeOK
  <1>3. PICK r \in 0 .. MaxSize : r = cap'
    BY <1>1, <1>2
  <1>4. TypeOK' /\ ElementsAccounted'
    <2>1. threw' \in BOOLEAN
      BY <1>1, <1>2
    <2>2. before' \in Seq(Objects) /\ op' \in Ops
      BY <1>1, <1>2
    <2>3. QED
      BY <1>1, <1>2, <2>1, <2>2, Cleared
  <1>5. SourceGiven' /\ size' <= r /\ op'.pos <= Len(before') + 1
    BY <1>1, <1>2, <1>3, VectorParts, CallKept
  <1>6. ASSUME pc' = "fill"
        PROVE  Filling(r)'
    <2>1. op'.pos = 1 /\ op'.n = r /\ rd'.lo = 1 /\ rd'.hi = 1 /\ op'.src.kind = "values" /\ rd' = Empty
          /\ op'.name \in {"assign", "assign_range"}
      BY <1>1, <1>2, <1>3, <1>6 DEF Empty
    <2>2. TailCount' = 0 /\ Made' = 0
      BY <1>1, <2>1 DEF TailCount, Made
    <2>3. \A j \in 1 .. Made' : data'[op'.pos - 1 + j] = Asked'[j]
      BY <2>2
    <2>4. op'.pos - 1 <= size' /\ Made' <= op'.n /\ op'.pos - 1 + op'.n + TailCount' <= r
      BY <1>1, <2>1, <2>2
    <2>5. QED
      BY <2>1, <2>3, <2>4 DEF Filling
  <1>7. LoopsFollow(r)'
    <2>1. pc' # "return" => ~threw'
      BY <1>1, <1>2
    <2>2. pc' \notin {"relocate", "fill"} => rd' = Empty
      BY <1>1, <1>2
    <2>3. QED
      BY <1>1, <1>5, <1>6, <2>1, <2>2 DEF LoopsFollow
  <1>8. DoneAsAsked' /\ ThrowKeeps'
    <2>1. CASE pc' = "fill"
      BY <2>1, NotYet
    <2>2. CASE pc' # "fill"
      BY <1>1, <1>2, <2>2 DEF DoneAsAsked, ThrowKeeps
    <2>3. QED
      BY <2>1, <2>2
  <1>9. SlotsInv(r)'
    BY <1>4, <1>7, <1>8 DEF SlotsInv
  <1>10. QED
    BY <1>1, <1>2, <1>3, <1>9, NotGrowing

LEMMA DestroyKeeps ==
  ASSUME IInv, Destroy
  PROVE  IInv'
  <1>1. /\ pc = "idle" /\ data' = NoSlots /\ size' = 0 /\ cap' = 0
        /\ pc' = "idle" /\ pc \notin GrowthLoops
        /\ UNCHANGED <<traits, rd, op, pc, step, before, threw, sb>>
        /\ pc' \notin GrowthLoops \cup {"reset"}
    BY DEF Destroy, GrowthLoops
  <1>2. /\ sb = NoBuffer /\ rd = Empty /\ ~threw /\ threw \in BOOLEAN /\ step \in 0 .. MaxSize
        /\ op \in Ops /\ before \in Seq(Objects) /\ traits \in Traits
        /\ MaxSize \in Nat /\ op.pos <= Len(before) + 1 /\ pc \in Loops
        /\ op = NoOp /\ before = <<>> /\ step = 0 /\ SourceGiven
    BY <1>1, VectorParts, InvParts DEF GrowthFollows, TypeOK, SlotsInv, LoopsFollow
  <1>3. PICK r \in 0 .. MaxSize : r = cap'
    BY <1>1, <1>2
  <1>4. TypeOK' /\ ElementsAccounted'
    <2>1. before' \in Seq(Objects) /\ op' \in Ops /\ pc' \in Loops
      BY <1>1, <1>2
    <2>2. QED
      BY <1>1, <1>2, <2>1, Cleared
  <1>5. LoopsFollow(r)'
    <2>1. SourceGiven' /\ size' <= r /\ op'.pos <= Len(before') + 1
      BY <1>1, <1>2, <1>3, CallKept
    <2>2. QED
      BY <1>1, <1>2, <2>1 DEF LoopsFollow
  <1>6. SlotsInv(r)'
    BY <1>1, <1>4, <1>5, NotYet DEF SlotsInv
  <1>7. QED
    BY <1>1, <1>2, <1>3, <1>6, NotGrowing

----------------------------------------------------------------------------
\* The calls of a vector.

\* Growth begins with an empty buffer, and room in front of it.
LEMMA GrowthBegins ==
  ASSUME IInv, NEW o \in Ops, NEW c \in 0 .. MaxSize, NEW loop \in {"makeNew", "moveFront"},
         Start(o, loop), sb' = Buffer(c, o.pos - 1),
         UNCHANGED <<traits, data, size, rd, step, cap>>,
         o.grows, o.name \in {"insert", "resize", "reserve", "shrink"},
         o.name # "insert" => o.pos = size + 1,
         o.name \in {"reserve", "shrink"} => o.n = 0 /\ o.src.kind = "values",
         loop = "makeNew" => o.name \in {"insert", "resize"} /\ o.n >= 1,
         loop = "moveFront" => o.name # "insert" /\ (o.n = 0 \/ (o.name = "resize" /\ o.src.kind = "values")),
         o.pos <= size + 1, size + o.n <= c, SourceOf(o, Contents)
  PROVE  IInv'
  <1>1. /\ pc = "idle" /\ pc' = loop /\ op' = o /\ before' = Contents /\ threw' = FALSE
        /\ pc' \in GrowthLoops /\ pc' \in Loops \ {"idle"} /\ pc' \in {"makeNew", "moveFront"}
    BY DEF Start, GrowthLoops, Loops
  <1>r. PICK r \in 0 .. MaxSize : r = cap
    BY VectorParts
  <1>2. SlotsInv(r)
    BY <1>r, VectorParts, RoomWas
  <1>3. /\ rd = Empty /\ size \in Nat /\ size <= r /\ size \in 0 .. MaxSize
        /\ Contents \in Seq(Objects) /\ Len(Contents) = size
        /\ \A i \in 1 .. size : Contents[i] = data[i]
        /\ \A i \in Positions : data[i] # Raw <=> i <= size
        /\ data \in [Positions -> Objects \cup {Raw}]
    BY <1>1, <1>2, BetweenCalls
  <1>n. PICK p \in Nat, n \in Nat, l \in Nat, k \in Nat, max \in Nat :
          o.pos = p /\ o.n = n /\ size = l /\ c = k /\ MaxSize = max /\ 1 <= p
    <2>1. MaxSize \in Nat
      BY VectorParts
    <2>2. o.pos \in 1 .. MaxSize + 1 /\ o.n \in Nat
      BY OpsHave
    <2>3. o.pos \in Nat /\ 1 <= o.pos /\ c \in Nat
      BY <2>1, <2>2
    <2>4. QED
      BY <1>3, <2>1, <2>2, <2>3
  <1>t. p \in Nat /\ n \in Nat /\ l \in Nat /\ k \in Nat /\ max \in Nat /\ k <= max
    BY <1>n
  <1>4. SlotsInv(r)'
    <2>1. /\ op' \in Ops /\ op'.pos <= size + 1 /\ SourceOf(op', Contents)
          /\ size' \in Nat /\ size' <= size /\ data' \in [Positions -> Objects \cup {Raw}]
          /\ \A i \in Positions : data'[i] # Raw <=> i <= size'
          /\ UNCHANGED <<traits, step>>
      BY <1>1, <1>3
    <2>2. rd' = Empty /\ rd' \in Ranges /\ rd'.lo = rd'.hi
      <3>1. Empty \in Ranges /\ Empty.lo = Empty.hi
        BY <1>n DEF Empty, Ranges
      <3>2. QED
        BY <1>3, <3>1
    <2>3. pc' \notin {"relocate", "fill", "overwrite", "shift", "return"}
      BY <1>1
    <2>4. QED
      BY <1>1, <1>2, <2>1, <2>2, <2>3, Begins
  <1>5. /\ p - 1 + 1 = p /\ p <= l + 1 /\ l + n <= k /\ p \in 1 .. max + 1
    BY <1>t, <1>n
  <1>6. sb' = [data |-> NoSlots, cap |-> k, first |-> p, last |-> p]
    BY <1>n, <1>5 DEF Buffer
  <1>7. /\ sb' \in Buffers /\ sb'.first = p /\ sb'.last = p /\ sb'.cap = k /\ sb'.data = NoSlots
        /\ sb'.first <= sb'.last
    BY <1>t, <1>n, <1>5, <1>6, NothingLeft DEF Buffers
  <1>8. BufferOK(sb')
    <2>1. \A i \in Positions : ~(p <= i /\ i < p)
      BY <1>t, <1>n DEF Positions
    <2>2. QED
      BY <1>7, <2>1, NothingLeft DEF BufferOK
  <1>9. /\ op'.pos = p /\ op'.n = n /\ Len(before') = l /\ size' = l
        /\ \A i \in 1 .. l : data'[i] = before'[i]
    BY <1>1, <1>3, <1>n
  <1>10. Growing'
    <2>1. p .. p - 1 = {}
      BY <1>t
    <2>2. BufferHolds'
      BY <1>7, <2>1 DEF BufferHolds
    <2>3. Len(before') + op'.n <= sb'.cap
      BY <1>5, <1>7, <1>9
    <2>4. op'.name # "insert" => op'.pos = Len(before') + 1
      BY <1>1, <1>9, <1>n
    <2>5. QED
      BY <1>1, <2>2, <2>3, <2>4 DEF Growing
  <1>11. ASSUME loop = "makeNew"
         PROVE  MakingNew'
    <2>1. p <= p + n /\ n >= 1
      BY <1>t, <1>n, <1>11
    <2>2. QED
      BY <1>1, <1>7, <1>9, <1>11, <2>1 DEF MakingNew
  <1>12. ASSUME loop = "moveFront"
         PROVE  MovingFront'
    <2>1. op'.src.kind # "rvalue"
      BY <1>1, <1>12 DEF SourceOf
    <2>2. Remaining' = before'
      BY <2>1 DEF Remaining
    <2>3. sb'.last = op'.pos + op'.n \/ Reserved'
      <3>1. CASE n = 0
        <4>1. p = p + n
          BY <1>t, <3>1
        <4>2. QED
          BY <1>7, <1>9, <4>1
      <3>2. CASE o.name = "resize" /\ o.src.kind = "values"
        BY <1>1, <1>7, <1>9, <3>2 DEF Reserved
      <3>3. QED
        BY <1>12, <1>n, <3>1, <3>2
    <2>4. sb'.first <= op'.pos /\ sb'.first = op'.pos
      BY <1>t, <1>7, <1>9
    <2>5. QED
      BY <1>9, <2>2, <2>3, <2>4 DEF MovingFront
  <1>13. GrowthFollows'
    BY <1>1, <1>9, <1>10, <1>11, <1>12 DEF GrowthFollows
  <1>14. r = cap'
    BY <1>r
  <1>15. QED
    BY <1>4, <1>7, <1>8, <1>13, <1>14, VectorKeeps

LEMMA RefuseKeeps ==
  ASSUME IInv, NEW o \in Ops, Refuse(o), o.pos <= size + 1, SourceOf(o, Contents),
         UNCHANGED <<cap, sb>>
  PROVE  IInv'
  <1>1. pc = "idle" /\ pc' = "return" /\ pc \notin GrowthLoops
        /\ pc' \notin GrowthLoops \cup {"reset"}
    BY DEF Refuse, GrowthLoops
  <1>2. sb' = NoBuffer
    BY <1>1, VectorParts DEF GrowthFollows
  <1>r. PICK r \in 0 .. MaxSize : r = cap
    BY VectorParts
  <1>3. SlotsInv(r)'
    BY <1>r, VectorParts, RoomWas, Refused
  <1>4. QED
    BY <1>1, <1>2, <1>3, <1>r, NotGrowing

\* A call is the same one when it grows.
LEMMA GrowsIs ==
  ASSUME NEW o \in Ops, NEW g, g = [o EXCEPT !.grows = TRUE]
  PROVE  /\ g \in Ops /\ g.grows /\ g.name = o.name /\ g.pos = o.pos /\ g.n = o.n /\ g.src = o.src
         /\ \A b : SourceOf(o, b) => SourceOf(g, b)
  <1>1. /\ g \in Ops /\ g.grows /\ g.name = o.name /\ g.pos = o.pos /\ g.n = o.n /\ g.src = o.src
    BY DEF Ops
  <1>2. QED
    BY <1>1 DEF SourceOf

LEMMA GrowKeeps ==
  ASSUME IInv, NEW o \in Ops, NEW c \in 0 .. MaxSize, NEW loop \in {"makeNew", "moveFront"},
         Grow(o, c, loop), o.name \in {"insert", "resize", "reserve"},
         o.name # "insert" => o.pos = size + 1,
         o.name = "reserve" => o.n = 0 /\ o.src.kind = "values",
         loop = "makeNew" => o.name \in {"insert", "resize"} /\ o.n >= 1,
         loop = "moveFront" => o.name # "insert" /\ (o.n = 0 \/ (o.name = "resize" /\ o.src.kind = "values")),
         o.pos <= size + 1, size + o.n <= c, SourceOf(o, Contents)
  PROVE  IInv'
  <1>g. PICK g : g = [o EXCEPT !.grows = TRUE]
    OBVIOUS
  <1>1. /\ g \in Ops /\ g.grows /\ g.name = o.name /\ g.pos = o.pos /\ g.n = o.n /\ g.src = o.src
        /\ SourceOf(g, Contents)
    BY <1>g, GrowsIs
  <1>2. \/ Start(g, loop) /\ sb' = Buffer(c, g.pos - 1)
           /\ UNCHANGED <<traits, data, size, rd, step, cap>>
        \/ Refuse(g) /\ UNCHANGED <<cap, sb>>
    BY <1>g, <1>1 DEF Grow
  <1>3. CASE Start(g, loop) /\ sb' = Buffer(c, g.pos - 1)
             /\ UNCHANGED <<traits, data, size, rd, step, cap>>
    BY <1>1, <1>3, GrowthBegins
  <1>4. CASE Refuse(g) /\ UNCHANGED <<cap, sb>>
    BY <1>1, <1>4, RefuseKeeps
  <1>5. QED
    BY <1>2, <1>3, <1>4

LEMMA IdleVector ==
  ASSUME IInv, pc = "idle"
  PROVE  /\ sb = NoBuffer /\ size \in Nat /\ cap \in Nat /\ MaxSize \in Nat /\ size <= cap
         /\ cap <= MaxSize /\ size <= MaxSize /\ size \in 0 .. MaxSize
         /\ Contents \in Seq(Objects) /\ Len(Contents) = size
         /\ \A i \in 1 .. size : Contents[i] = data[i]
  <1>r. PICK r \in 0 .. MaxSize : r = cap
    BY VectorParts
  <1>1. SlotsInv(r)
    BY <1>r, VectorParts, RoomWas
  <1>2. sb = NoBuffer
    BY VectorParts DEF GrowthFollows, GrowthLoops
  <1>3. QED
    BY <1>1, <1>2, <1>r, VectorParts, BetweenCalls

\* A call that needs no other memory leaves the buffer alone.
LEMMA InRoom ==
  ASSUME IInv, pc = "idle", UNCHANGED <<cap, sb>>, pc' \notin GrowthLoops \cup {"reset"},
         NEW r \in 0 .. MaxSize, r = cap, SlotsInv(r)'
  PROVE  IInv'
  <1>1. sb' = NoBuffer /\ r = cap'
    BY IdleVector
  <1>2. QED
    BY <1>1, NotGrowing

LEMMA RecommendCapIs ==
  ASSUME cap \in 0 .. MaxSize, MaxSize \in Nat, NEW n \in 0 .. MaxSize
  PROVE  RecommendCap(n) \in 0 .. MaxSize /\ n <= RecommendCap(n)
  <1>1. MaxSize \div 2 \in Nat /\ 2 * (MaxSize \div 2) <= MaxSize
    OBVIOUS
  <1>2. CASE cap >= MaxSize \div 2
    BY <1>2 DEF RecommendCap
  <1>3. CASE ~(cap >= MaxSize \div 2)
    <2>1. 2 * cap \in 0 .. MaxSize
      BY <1>1, <1>3
    <2>2. QED
      BY <1>3, <2>1 DEF RecommendCap
  <1>4. QED
    BY <1>2, <1>3

LEMMA InsertKeeps ==
  ASSUME IInv, pc = "idle", NEW pos \in 1 .. size + 1, NEW n \in Nat, n >= 1, NEW src,
         Gives(src, n, size), Insert(pos, n, src)
  PROVE  IInv'
  <1>1. /\ size \in Nat /\ cap \in Nat /\ MaxSize \in Nat /\ size <= cap /\ cap <= MaxSize
        /\ size <= MaxSize /\ Contents \in Seq(Objects) /\ Len(Contents) = size
    BY IdleVector
  <1> DEFINE o == CallOf("insert", pos, n, src)
  <1>2. /\ o \in Ops /\ o.name = "insert" /\ o.pos = pos /\ o.n = n /\ o.src = src /\ ~o.grows
    <2>1. pos \in 1 .. MaxSize + 1 /\ "insert" \in CallNames /\ src \in Sources
      BY <1>1 DEF Gives, CallNames
    <2>2. QED
      BY <2>1, CallIs
  <1>3. IF size + n > MaxSize THEN Refuse(o) /\ UNCHANGED <<cap, sb>>
        ELSE IF size + n > cap THEN Grow(o, RecommendCap(size + n), "makeNew")
        ELSE /\ IF pos = size + 1
                THEN Start(o, "fill") /\ UNCHANGED rd
                ELSE Start(o, "relocate") /\ rd' = [lo |-> size + n + 1, hi |-> size + n + 1]
             /\ UNCHANGED <<traits, data, size, step, cap, sb>>
    BY DEF Insert, CallOf
  <1> HIDE DEF o
  <1>4. SourceOf(o, Contents) /\ o.pos <= size + 1
    BY <1>1, <1>2, GivesSource
  <1>5. CASE size + n > MaxSize
    BY <1>2, <1>3, <1>4, <1>5, RefuseKeeps
  <1>6. CASE ~(size + n > MaxSize) /\ size + n > cap
    <2>1. size + n \in 0 .. MaxSize /\ cap \in 0 .. MaxSize
      BY <1>1, <1>6
    <2>2. PICK c \in 0 .. MaxSize : c = RecommendCap(size + n) /\ size + n <= c
      BY <1>1, <2>1, RecommendCapIs
    <2>3. Grow(o, c, "makeNew")
      BY <1>3, <1>6, <2>2
    <2>4. QED
      BY <1>2, <1>4, <2>2, <2>3, GrowKeeps
  <1>7. CASE ~(size + n > MaxSize) /\ ~(size + n > cap)
    <2>r. PICK r \in 0 .. MaxSize : r = cap
      BY VectorParts
    <2>1. InsertsWithin(o) /\ UNCHANGED <<cap, sb>>
      BY <1>2, <1>3, <1>7 DEF InsertsWithin
    <2>2. size + o.n <= r
      BY <1>1, <1>2, <1>7, <2>r
    <2>3. SlotsInv(r)'
      BY <1>2, <1>4, <2>r, <2>1, <2>2, VectorParts, RoomWas, InsertsWithinKeeps
    <2>4. pc' \notin GrowthLoops \cup {"reset"}
      BY <2>1 DEF InsertsWithin, Start, GrowthLoops
    <2>5. QED
      BY <2>r, <2>1, <2>3, <2>4, InRoom
  <1>8. QED
    BY <1>5, <1>6, <1>7

LEMMA TruncateKeeps ==
  ASSUME IInv, pc = "idle", NEW count \in 0 .. size, Truncate(count)
  PROVE  IInv'
  <1>1. /\ size \in Nat /\ MaxSize \in Nat /\ size <= MaxSize
        /\ Contents \in Seq(Objects) /\ Len(Contents) = size
    BY IdleVector
  <1> DEFINE o == [NoOp EXCEPT !.name = "resize", !.pos = count + 1]
  <1>2. /\ Start(o, "return") /\ DestroyFrom(count + 1)
        /\ UNCHANGED <<traits, rd, step>> /\ UNCHANGED <<cap, sb>>
    BY Zenon DEF Truncate, ResizeTo
  <1>3. /\ o \in Ops /\ o.name = "resize" /\ o.pos = count + 1 /\ o.n = 0 /\ o.src = NoOp.src
    <2>1. count + 1 \in 1 .. MaxSize + 1
      BY <1>1
    <2>2. QED
      BY <2>1, NoOpIs DEF NoOp, Ops
  <1> HIDE DEF o
  <1>4. o.src.kind = "values" /\ o.pos <= size + 1 /\ DestroyFrom(o.pos) /\ SourceOf(o, Contents)
    BY <1>1, <1>2, <1>3, NoOpIs, GivesSource DEF Gives
  <1>r. PICK r \in 0 .. MaxSize : r = cap
    BY VectorParts
  <1>5. SlotsInv(r)'
    BY <1>2, <1>3, <1>4, <1>r, VectorParts, RoomWas, BeginsTruncate
  <1>6. pc' \notin GrowthLoops \cup {"reset"}
    BY <1>2 DEF Start, GrowthLoops
  <1>7. QED
    BY <1>2, <1>5, <1>6, <1>r, InRoom

LEMMA ResizeKeeps ==
  ASSUME IInv, pc = "idle", NEW count \in size + 1 .. MaxSize, NEW src,
         Gives(src, count - size, size), src.kind # "rvalue", NEW reserves \in BOOLEAN,
         reserves => src.kind = "values", Resize(count, src, reserves)
  PROVE  IInv'
  <1>1. /\ size \in Nat /\ cap \in Nat /\ MaxSize \in Nat /\ size <= cap /\ cap <= MaxSize
        /\ size <= MaxSize /\ Contents \in Seq(Objects) /\ Len(Contents) = size
    BY IdleVector
  <1>c. PICK c \in 0 .. MaxSize : c = count /\ c \in Nat /\ c > size
    BY <1>1
  <1> DEFINE o == [[NoOp EXCEPT !.name = "resize", !.pos = size + 1]
                       EXCEPT !.n = count - size, !.src = src]
  <1>2. IF count > cap THEN Grow(o, count, IF reserves THEN "moveFront" ELSE "makeNew")
        ELSE Start(o, "fill") /\ UNCHANGED <<traits, data, size, rd, step, cap, sb>>
    BY Zenon DEF Resize, ResizeTo
  <1>3. /\ o \in Ops /\ o.name = "resize" /\ o.pos = size + 1 /\ o.n = count - size /\ o.src = src
        /\ ~o.grows
    <2>1. size + 1 \in 1 .. MaxSize + 1 /\ count - size \in Nat /\ src \in Sources
      BY <1>1 DEF Gives
    <2>2. QED
      BY <2>1, NoOpIs DEF NoOp, Ops
  <1> HIDE DEF o
  <1>4. SourceOf(o, Contents) /\ o.pos <= size + 1
    BY <1>1, <1>3, GivesSource
  <1>5. size + o.n <= c /\ o.n >= 1 /\ size + o.n = c
    <2>1. o.n = c - size
      BY <1>3, <1>c
    <2>2. QED
      BY <1>1, <1>c, <2>1
  <1>6. CASE count > cap
    <2>1. PICK loop \in {"makeNew", "moveFront"} : loop = IF reserves THEN "moveFront" ELSE "makeNew"
      OBVIOUS
    <2>2. Grow(o, c, loop)
      BY <1>2, <1>6, <1>c, <2>1
    <2>3. /\ loop = "makeNew" => o.name \in {"insert", "resize"} /\ o.n >= 1
          /\ loop = "moveFront" => o.name # "insert" /\ (o.n = 0 \/ (o.name = "resize" /\ o.src.kind = "values"))
      BY <1>3, <1>5, <2>1
    <2>4. QED
      BY <1>3, <1>4, <1>5, <2>2, <2>3, GrowKeeps
  <1>7. CASE ~(count > cap)
    <2>r. PICK r \in 0 .. MaxSize : r = cap
      BY VectorParts
    <2>1. Start(o, "fill") /\ UNCHANGED <<traits, data, size, rd, step>> /\ UNCHANGED <<cap, sb>>
      BY <1>2, <1>7
    <2>2. size + o.n <= r
      BY <1>1, <1>5, <1>7, <1>c, <2>r
    <2>3. SlotsInv(r)'
      BY <1>3, <1>4, <2>r, <2>1, <2>2, VectorParts, RoomWas, BeginsFill
    <2>4. pc' \notin GrowthLoops \cup {"reset"}
      BY <2>1 DEF Start, GrowthLoops
    <2>5. QED
      BY <2>r, <2>1, <2>3, <2>4, InRoom
  <1>8. QED
    BY <1>6, <1>7

LEMMA ReserveKeeps ==
  ASSUME IInv, pc = "idle", NEW c \in 1 .. MaxSize + 1, Reserve(c)
  PROVE  IInv'
  <1>1. /\ size \in Nat /\ cap \in Nat /\ MaxSize \in Nat /\ size <= cap /\ cap <= MaxSize
        /\ size <= MaxSize /\ Contents \in Seq(Objects) /\ Len(Contents) = size
    BY IdleVector
  <1> DEFINE o == [NoOp EXCEPT !.name = "reserve", !.pos = size + 1]
  <1>2. /\ c > cap
        /\ IF c > MaxSize THEN Refuse(o) /\ UNCHANGED <<cap, sb>> ELSE Grow(o, c, "moveFront")
    BY Zenon DEF Reserve
  <1>3. /\ o \in Ops /\ o.name = "reserve" /\ o.pos = size + 1 /\ o.n = 0 /\ o.src = NoOp.src
    <2>1. size + 1 \in 1 .. MaxSize + 1
      BY <1>1
    <2>2. QED
      BY <2>1, NoOpIs DEF NoOp, Ops
  <1> HIDE DEF o
  <1>4. /\ SourceOf(o, Contents) /\ o.pos <= size + 1 /\ o.src.kind = "values"
    BY <1>1, <1>3, NoOpIs, GivesSource DEF Gives
  <1>5. CASE c > MaxSize
    BY <1>2, <1>3, <1>4, <1>5, RefuseKeeps
  <1>6. CASE ~(c > MaxSize)
    <2>1. c \in 0 .. MaxSize /\ size + o.n <= c
      BY <1>1, <1>2, <1>3, <1>6
    <2>2. QED
      BY <1>2, <1>3, <1>4, <1>6, <2>1, GrowKeeps
  <1>7. QED
    BY <1>5, <1>6

\* A call that is over fits wherever its elements do.
LEMMA OverFits ==
  ASSUME NEW room, SlotsInv(room)', pc' = "return", NEW r, size' <= r
  PROVE  SlotsInv(r)'
  BY DEF SlotsInv, LoopsFollow

LEMMA ShrinkKeeps ==
  ASSUME IInv, pc = "idle", ShrinkToFit
  PROVE  IInv'
  <1>1. /\ size \in Nat /\ cap \in Nat /\ MaxSize \in Nat /\ size <= cap /\ cap <= MaxSize
        /\ size \in 0 .. MaxSize /\ Contents \in Seq(Objects) /\ Len(Contents) = size
        /\ sb = NoBuffer
    BY IdleVector
  <1> DEFINE o == [NoOp EXCEPT !.name = "shrink", !.pos = size + 1, !.grows = size > 0]
  <1>2. /\ \/ size > 0 /\ Start(o, "moveFront") /\ sb' = Buffer(size, size) /\ UNCHANGED cap
           \/ Start(o, "return") /\ cap' = (IF size > 0 THEN cap ELSE 0) /\ UNCHANGED sb
        /\ UNCHANGED <<traits, data, size, rd, step>>
    BY Zenon DEF ShrinkToFit
  <1>3. /\ o \in Ops /\ o.name = "shrink" /\ o.pos = size + 1 /\ o.n = 0 /\ o.src = NoOp.src
        /\ o.grows = (size > 0)
    <2>1. size + 1 \in 1 .. MaxSize + 1 /\ (size > 0) \in BOOLEAN
      BY <1>1
    <2>2. QED
      BY <2>1, NoOpIs DEF NoOp, Ops
  <1> HIDE DEF o
  <1>4. /\ SourceOf(o, Contents) /\ o.pos <= size + 1 /\ o.src.kind = "values"
    BY <1>1, <1>3, NoOpIs, GivesSource DEF Gives
  <1>5. CASE size > 0 /\ Start(o, "moveFront") /\ sb' = Buffer(size, size) /\ UNCHANGED cap
    <2>1. size = o.pos - 1 /\ size + o.n <= size
      BY <1>1, <1>3
    <2>2. UNCHANGED <<traits, data, size, rd, step, cap>> /\ sb' = Buffer(size, o.pos - 1)
      BY <1>2, <1>5, <2>1
    <2>3. QED
      BY <1>1, <1>3, <1>4, <1>5, <2>1, <2>2, GrowthBegins
  <1>6. CASE Start(o, "return") /\ cap' = (IF size > 0 THEN cap ELSE 0) /\ UNCHANGED sb
    <2>r. PICK r \in 0 .. MaxSize : r = cap
      BY VectorParts
    <2>1. SlotsInv(r)
      BY <2>r, VectorParts, RoomWas
    <2>2. /\ op' = o /\ pc' = "return" /\ before' = Contents /\ threw' = FALSE
          /\ pc' \in Loops \ {"idle"} /\ UNCHANGED <<traits, step>>
          /\ size' = size /\ data' = data /\ rd' = rd
      BY <1>2, <1>6 DEF Start, Loops
    <2>3. Contents' = Expected'
      <3>1. Expected' = before'
        BY <1>1, <1>3, <2>2, OfCallNext, OthersAre
      <3>2. Contents' = Contents
        BY <2>2 DEF Contents
      <3>3. QED
        BY <2>2, <3>1, <3>2
    <2>4. rd' = Empty /\ rd' \in Ranges /\ rd'.lo = rd'.hi
      <3>1. Empty \in Ranges /\ Empty.lo = Empty.hi
        BY <1>1 DEF Empty, Ranges
      <3>2. QED
        BY <2>1, <2>2, <3>1, BetweenCalls
    <2>5. /\ size' \in Nat /\ size' <= size /\ data' \in [Positions -> Objects \cup {Raw}]
          /\ \A i \in Positions : data'[i] # Raw <=> i <= size'
      BY <1>1, <2>1, <2>2, BetweenCalls
    <2>6. SlotsInv(r)'
      BY <1>3, <1>4, <2>1, <2>2, <2>3, <2>4, <2>5, Begins
    <2>7. PICK q \in 0 .. MaxSize : q = cap' /\ size' <= q
      BY <1>1, <1>6, <2>2
    <2>8. SlotsInv(q)'
      BY <2>2, <2>6, <2>7, OverFits
    <2>9. sb' = NoBuffer /\ pc' \notin GrowthLoops \cup {"reset"}
      BY <1>1, <1>6, <2>2 DEF GrowthLoops
    <2>10. QED
      BY <2>7, <2>8, <2>9, NotGrowing
  <1>7. QED
    BY <1>2, <1>5, <1>6

\* An assignment that needs other memory has its values from elsewhere.
LEMMA ResetBegins ==
  ASSUME IInv, NEW o \in Ops, Start(o, "reset"), o.name \in {"assign", "assign_range"},
         o.pos = 1, o.src.kind = "values", SourceOf(o, Contents),
         UNCHANGED <<traits, size, rd, step>>, UNCHANGED <<cap, sb>>,
         data' \in [Positions -> Objects \cup {Raw}],
         \A i \in Positions : data'[i] # Raw <=> data[i] # Raw
  PROVE  IInv'
  <1>1. /\ pc = "idle" /\ pc' = "reset" /\ op' = o /\ before' = Contents /\ threw' = FALSE
        /\ pc' \in Loops \ {"idle"} /\ pc' \notin GrowthLoops
    BY DEF Start, Loops, GrowthLoops
  <1>2. size \in Nat /\ MaxSize \in Nat /\ sb = NoBuffer
    BY <1>1, IdleVector
  <1>r. PICK r \in 0 .. MaxSize : r = cap
    BY VectorParts
  <1>3. SlotsInv(r)
    BY <1>r, VectorParts, RoomWas
  <1>4. rd' = Empty /\ rd' \in Ranges /\ rd'.lo = rd'.hi
    <2>1. Empty \in Ranges /\ Empty.lo = Empty.hi
      BY <1>2 DEF Empty, Ranges
    <2>2. QED
      BY <1>1, <1>3, <2>1, BetweenCalls
  <1>5. /\ size' \in Nat /\ size' <= size /\ \A i \in Positions : data'[i] # Raw <=> i <= size'
    BY <1>1, <1>2, <1>3, BetweenCalls
  <1>6. SlotsInv(r)'
    <2>1. op' \in Ops /\ op'.pos <= size + 1 /\ SourceOf(op', Contents)
      BY <1>1, <1>2
    <2>2. pc' \notin {"relocate", "fill", "overwrite", "shift", "return"} /\ UNCHANGED <<traits, step>>
      BY <1>1
    <2>3. QED
      BY <1>1, <1>3, <1>4, <1>5, <2>1, <2>2, Begins
  <1>7. GrowthFollows'
    BY <1>1, <1>2 DEF GrowthFollows
  <1>8. r = cap' /\ sb' = NoBuffer
    BY <1>2, <1>r
  <1>9. QED
    BY <1>6, <1>7, <1>8, NoBufferIs, VectorKeeps

LEMMA AssignCountKeeps ==
  ASSUME IInv, pc = "idle", NEW n \in 0 .. MaxSize, NEW src, Gives(src, n, size),
         src.kind # "rvalue", AssignCount(n, src)
  PROVE  IInv'
  <1>1. /\ size \in Nat /\ cap \in Nat /\ MaxSize \in Nat /\ size <= cap /\ cap <= MaxSize
        /\ size <= MaxSize /\ Contents \in Seq(Objects) /\ Len(Contents) = size /\ n \in Nat
        /\ \A i \in 1 .. size : Contents[i] = data[i]
    BY IdleVector
  <1>r. PICK r \in 0 .. MaxSize : r = cap
    BY VectorParts
  <1>2. SlotsInv(r)
    BY <1>r, VectorParts, RoomWas
  <1> DEFINE o == [NoOp EXCEPT !.name = "assign", !.n = n, !.src = src]
             given == Given(Named(n, src))
             g == [o EXCEPT !.grows = TRUE, !.src = given]
  <1>3. \/ /\ cap < n /\ Start(g, "reset")
           /\ data' = IF src.kind = "element" THEN [data EXCEPT ![src.at] = Moved] ELSE data
           /\ UNCHANGED <<traits, size, rd, step, cap, sb>>
        \/ cap < n /\ Refuse(o) /\ UNCHANGED <<cap, sb>>
        \/ ~(cap < n) /\ Start(o, "overwrite") /\ UNCHANGED <<traits, data, size, rd, step, cap, sb>>
    BY Zenon DEF AssignCount
  <1>4. /\ o \in Ops /\ o.name = "assign" /\ o.pos = 1 /\ o.n = n /\ o.src = src
    <2>1. src \in Sources
      BY DEF Gives
    <2>2. QED
      BY <1>1, <2>1, NoOpIs DEF NoOp, Ops
  <1>5. src.kind # "values" => src.at \in 1 .. size /\ src.at \in Positions /\ data[src.at] \in Objects
    <2>1. ASSUME src.kind # "values"
          PROVE  src.at \in 1 .. size
      BY <2>1 DEF Gives
    <2>2. ASSUME NEW k \in 1 .. size
          PROVE  k \in Positions /\ data[k] \in Objects
      <3>1. k \in Positions /\ k <= size
        BY <1>1 DEF Positions
      <3>2. QED
        BY <1>2, <3>1, BetweenCalls
    <2>3. QED
      BY <2>1, <2>2
  <1>6. Named(n, src) \in Seq(Objects) /\ Len(Named(n, src)) >= n
    <2>1. CASE src.kind = "values"
      <3>1. src \in Sources /\ Len(src.values) >= n
        BY <2>1 DEF Gives
      <3>2. QED
        BY <2>1, <3>1 DEF Named, Sources
    <2>2. CASE src.kind # "values"
      <3>1. Named(n, src) = [j \in 1 .. n |-> data[src.at]]
        BY <2>2 DEF Named
      <3>2. Named(n, src) \in Seq(Objects) /\ Len(Named(n, src)) = n
        BY <1>1, <1>5, <2>2, <3>1
      <3>3. QED
        BY <1>1, <3>2
    <2>3. QED
      BY <2>1, <2>2
  <1>7. /\ given \in Sources /\ given.kind = "values" /\ given.values = Named(n, src)
    <2>1. Given(Named(n, src)).kind = "values" /\ Given(Named(n, src)) \in Sources
          /\ Given(Named(n, src)).values = Named(n, src)
      BY <1>6, GivenIs DEF Gives
    <2>2. QED
      BY <2>1
  <1> HIDE DEF given
  <1>8. g \in Ops /\ g.name = "assign" /\ g.pos = 1 /\ g.n = n /\ g.src = given
    <2> HIDE DEF o
    <2>1. QED
      BY <1>4, <1>7 DEF Ops
  <1> HIDE DEF o, g
  <1>9. SourceOf(o, Contents) /\ o.pos <= size + 1
    BY <1>1, <1>4, GivesSource
  <1>10. SourceOf(g, Contents)
    BY <1>6, <1>7, <1>8 DEF SourceOf
  <1>11. CASE /\ cap < n /\ Start(g, "reset")
              /\ data' = IF src.kind = "element" THEN [data EXCEPT ![src.at] = Moved] ELSE data
              /\ UNCHANGED <<traits, size, rd, step, cap, sb>>
    <2>1. /\ data' \in [Positions -> Objects \cup {Raw}]
          /\ \A i \in Positions : data'[i] # Raw <=> data[i] # Raw
      <3>1. data \in [Positions -> Objects \cup {Raw}] /\ Moved \in Objects /\ Moved # Raw
            /\ Raw \notin Objects
        BY SlotsAssumption, VectorParts DEF Objects
      <3>2. CASE src.kind = "element"
        BY <1>5, <1>11, <3>1, <3>2
      <3>3. CASE src.kind # "element"
        BY <1>11, <3>1, <3>3
      <3>4. QED
        BY <3>2, <3>3
    <2>2. UNCHANGED <<traits, size, rd, step>> /\ UNCHANGED <<cap, sb>>
      BY <1>11
    <2>3. QED
      BY <1>7, <1>8, <1>10, <1>11, <2>1, <2>2, ResetBegins
  <1>12. CASE Refuse(o) /\ UNCHANGED <<cap, sb>>
    BY <1>4, <1>9, <1>12, RefuseKeeps
  <1>13. CASE ~(cap < n) /\ Start(o, "overwrite") /\ UNCHANGED <<traits, data, size, rd, step, cap, sb>>
    <2>1. o.n <= r
      BY <1>1, <1>4, <1>13, <1>r
    <2>2. UNCHANGED <<traits, rd, step>> /\ UNCHANGED <<data, size>> /\ UNCHANGED <<cap, sb>>
      BY <1>13
    <2>3. SlotsInv(r)'
      BY <1>2, <1>4, <1>9, <1>13, <2>1, <2>2, BeginsOverwrite
    <2>4. pc' \notin GrowthLoops \cup {"reset"}
      BY <1>13 DEF Start, GrowthLoops
    <2>5. QED
      BY <1>r, <2>2, <2>3, <2>4, InRoom
  <1>14. QED
    BY <1>3, <1>11, <1>12, <1>13

LEMMA AssignRangeKeeps ==
  ASSUME IInv, pc = "idle", NEW s \in Lists, AssignRange(s)
  PROVE  IInv'
  <1>1. /\ size \in Nat /\ cap \in Nat /\ MaxSize \in Nat
        /\ Contents \in Seq(Objects) /\ Len(Contents) = size
        /\ s \in Seq(Objects) /\ Len(s) \in Nat /\ data \in [Positions -> Objects \cup {Raw}]
    BY IdleVector, ListsAre, VectorParts
  <1>r. PICK r \in 0 .. MaxSize : r = cap
    BY VectorParts
  <1> DEFINE o == [NoOp EXCEPT !.name = "assign_range", !.n = Len(s), !.src = Given(s)]
  <1>2. IF cap < Len(s)
        THEN Start([o EXCEPT !.grows = TRUE], "reset")
             /\ UNCHANGED <<traits, data, size, rd, step, cap, sb>>
        ELSE /\ Start(o, "overwrite")
             /\ IF size > Len(s) THEN DestroyFrom(Len(s) + 1) ELSE UNCHANGED <<data, size>>
             /\ UNCHANGED <<traits, rd, step, cap, sb>>
    BY Zenon DEF AssignRange
  <1>3. Gives(Given(s), Len(s), size) /\ Given(s).kind = "values"
    BY <1>1, GivenIs
  <1>4. /\ o \in Ops /\ o.name = "assign_range" /\ o.pos = 1 /\ o.n = Len(s) /\ o.src = Given(s)
    <2>1. Given(s) \in Sources
      BY <1>3 DEF Gives
    <2>2. QED
      BY <1>1, <2>1, NoOpIs DEF NoOp, Ops
  <1> HIDE DEF o
  <1>5. SourceOf(o, Contents)
    BY <1>1, <1>3, <1>4, GivesSource
  <1>6. CASE cap < Len(s)
    <2>g. PICK g : g = [o EXCEPT !.grows = TRUE]
      OBVIOUS
    <2>1. /\ g \in Ops /\ g.name = "assign_range" /\ g.pos = 1 /\ g.src.kind = "values"
          /\ SourceOf(g, Contents)
      BY <1>3, <1>4, <1>5, <2>g, GrowsIs
    <2>2. /\ Start(g, "reset") /\ UNCHANGED <<traits, size, rd, step>> /\ UNCHANGED <<cap, sb>>
          /\ data' = data
      BY <1>2, <1>6, <2>g
    <2>3. QED
      BY <1>1, <2>1, <2>2, ResetBegins
  <1>7. CASE ~(cap < Len(s))
    <2>1. AssignsWithin(o) /\ UNCHANGED <<cap, sb>>
      BY <1>2, <1>4, <1>7 DEF AssignsWithin
    <2>2. o.n <= r
      BY <1>1, <1>4, <1>7, <1>r
    <2>3. SlotsInv(r)'
      BY <1>3, <1>4, <1>r, <2>1, <2>2, VectorParts, RoomWas, AssignsWithinKeeps
    <2>4. pc' \notin GrowthLoops \cup {"reset"}
      BY <2>1 DEF AssignsWithin, Start, GrowthLoops
    <2>5. QED
      BY <1>r, <2>1, <2>3, <2>4, InRoom
  <1>8. QED
    BY <1>6, <1>7

LEMMA EraseOfVector ==
  ASSUME IInv, StartErase, UNCHANGED <<cap, sb>>
  PROVE  IInv'
  <1>1. pc = "idle" /\ pc' \in {"return", "shift"}
    BY DEF StartErase, Start
  <1>r. PICK r \in 0 .. MaxSize : r = cap
    BY VectorParts
  <1>2. SlotsInv(r)'
    BY <1>r, VectorParts, RoomWas, StartEraseKeeps
  <1>3. pc' \notin GrowthLoops \cup {"reset"}
    BY <1>1 DEF GrowthLoops
  <1>4. QED
    BY <1>1, <1>2, <1>3, <1>r, InRoom

LEMMA CallKeeps ==
  ASSUME IInv, Call
  PROVE  IInv'
  <1>1. size \in 0 .. MaxSize /\ MaxSize \in Nat /\ MaxCount \in Nat
    BY VectorParts, SlotsAssumption DEF TypeOK
  <1>2. ASSUME NEW pos \in 1 .. size + 1, NEW s \in Lists \ {<<>>}, Insert(pos, Len(s), Given(s))
        PROVE  IInv'
    <2>1. Len(s) \in Nat /\ Len(s) >= 1 /\ Gives(Given(s), Len(s), size)
      BY ListsAre, GivenIs
    <2>2. pc = "idle"
      BY <1>2 DEF Insert, Grow, Refuse, Start
    <2>3. QED
      BY <1>2, <2>1, <2>2, InsertKeeps
  <1>3. ASSUME NEW pos \in 1 .. size + 1, NEW k \in 1 .. size, NEW n \in 1 .. MaxCount,
               Insert(pos, n, Element(k))
        PROVE  IInv'
    <2>1. n \in Nat /\ n >= 1 /\ Gives(Element(k), n, size)
      BY <1>1, ElementIs
    <2>2. pc = "idle"
      BY <1>3 DEF Insert, Grow, Refuse, Start
    <2>3. QED
      BY <1>3, <2>1, <2>2, InsertKeeps
  <1>4. ASSUME NEW pos \in 1 .. size + 1, NEW k \in 1 .. size, Insert(pos, 1, Rvalue(k))
        PROVE  IInv'
    <2>1. Gives(Rvalue(k), 1, size)
      BY <1>1, ElementIs
    <2>2. pc = "idle"
      BY <1>4 DEF Insert, Grow, Refuse, Start
    <2>3. QED
      BY <1>4, <2>1, <2>2, InsertKeeps
  <1>5. ASSUME NEW count \in 0 .. size, Truncate(count)
        PROVE  IInv'
    <2>1. pc = "idle"
      BY <1>5 DEF Truncate, Start
    <2>2. QED
      BY <1>5, <2>1, TruncateKeeps
  <1>6. ASSUME NEW count \in size + 1 .. MaxSize, NEW v \in Values, NEW reserves \in BOOLEAN,
               Resize(count, Repeat(count - size, v), reserves)
        PROVE  IInv'
    <2>1. pc = "idle"
      BY <1>6 DEF Resize, Grow, Refuse, Start
    <2>2. count - size \in Nat
      BY <1>1
    <2>3. /\ Gives(Repeat(count - size, v), count - size, size)
          /\ Repeat(count - size, v).kind = "values"
      BY <2>2, RepeatIs
    <2>4. QED
      BY <1>6, <2>1, <2>3, ResizeKeeps
  <1>7. ASSUME NEW count \in size + 1 .. MaxSize, NEW k \in 1 .. size,
               Resize(count, Element(k), FALSE)
        PROVE  IInv'
    <2>1. pc = "idle"
      BY <1>7 DEF Resize, Grow, Refuse, Start
    <2>2. Gives(Element(k), count - size, size) /\ Element(k).kind # "rvalue"
      BY <1>1, ElementIs
    <2>3. QED
      BY <1>7, <2>1, <2>2, ResizeKeeps
  <1>8. ASSUME NEW c \in 1 .. MaxSize + 1, Reserve(c)
        PROVE  IInv'
    <2>1. pc = "idle"
      BY <1>8 DEF Reserve, Grow, Refuse, Start
    <2>2. QED
      BY <1>8, <2>1, ReserveKeeps
  <1>9. CASE ShrinkToFit
    <2>1. pc = "idle"
      BY <1>9 DEF ShrinkToFit, Start
    <2>2. QED
      BY <1>9, <2>1, ShrinkKeeps
  <1>10. ASSUME NEW n \in 0 .. MaxSize, NEW v \in Values, AssignCount(n, Repeat(n, v))
         PROVE  IInv'
    <2>1. pc = "idle"
      BY <1>10 DEF AssignCount, Refuse, Start
    <2>2. n \in Nat
      BY <1>1
    <2>3. Gives(Repeat(n, v), n, size) /\ Repeat(n, v).kind # "rvalue"
      BY <2>2, RepeatIs
    <2>4. QED
      BY <1>10, <2>1, <2>3, AssignCountKeeps
  <1>11. ASSUME NEW n \in 0 .. MaxSize, NEW k \in 1 .. size, AssignCount(n, Element(k))
         PROVE  IInv'
    <2>1. pc = "idle"
      BY <1>11 DEF AssignCount, Refuse, Start
    <2>2. Gives(Element(k), n, size) /\ Element(k).kind # "rvalue"
      BY <1>1, ElementIs
    <2>3. QED
      BY <1>11, <2>1, <2>2, AssignCountKeeps
  <1>12. ASSUME NEW s \in Lists, AssignRange(s)
         PROVE  IInv'
    <2>1. pc = "idle"
      BY <1>12 DEF AssignRange, Start
    <2>2. QED
      BY <1>12, <2>1, AssignRangeKeeps
  <1>13. CASE StartErase /\ UNCHANGED <<cap, sb>>
    BY <1>13, EraseOfVector
  <1>14. CASE Destroy
    BY <1>14, DestroyKeeps
  <1>15. QED
    BY <1>2, <1>3, <1>4, <1>5, <1>6, <1>7, <1>8, <1>9, <1>10, <1>11, <1>12, <1>13, <1>14 DEF Call

LEMMA VectorBegins == VectorInit => IInv
  <1> SUFFICES ASSUME VectorInit
               PROVE  IInv
    OBVIOUS
  <1>1. Init /\ cap = 0 /\ sb = NoBuffer /\ pc = "idle" /\ size = 0 /\ MaxSize \in Nat
    BY SlotsAssumption DEF VectorInit, Init
  <1>2. SlotsInv(cap) /\ TypeOK
    BY <1>1, SlotsBegin, InvParts
  <1>3. sb \in Buffers /\ sb.first <= sb.last /\ BufferOK(sb)
    BY <1>1, NoBufferIs
  <1>4. VectorTypeOK
    BY <1>1, <1>2, <1>3 DEF VectorTypeOK, Buffers
  <1>5. BufferAccounted
    BY <1>3, BufferBySlot DEF BufferAccounted
  <1>6. GrowthFollows
    BY <1>1 DEF GrowthFollows, GrowthLoops
  <1>7. QED
    BY <1>2, <1>4, <1>5, <1>6 DEF IInv

LEMMA VectorStutters ==
  ASSUME IInv, UNCHANGED vars
  PROVE  IInv'
  <1>1. UNCHANGED slots /\ cap' = cap /\ sb' = sb /\ op' = op /\ before' = before /\ data' = data
        /\ size' = size /\ pc' = pc /\ traits' = traits
    BY DEF vars, slots
  <1>r. PICK r \in 0 .. MaxSize : r = cap
    BY VectorParts
  <1>2. SlotsInv(r)'
    BY <1>1, <1>r, VectorParts, RoomWas, SlotsStutter
  <1>3. Asked' = Asked /\ Remaining' = Remaining
    BY <1>1, CallKept
  <1>4. GrowthFollows'
    <2>1. Growing' <=> Growing
      BY <1>1, <1>3 DEF Growing, BufferHolds
    <2>2. MakingNew' <=> MakingNew
      BY <1>1, <1>3 DEF MakingNew
    <2>3. (MovingFront' <=> MovingFront) /\ (TakingOver' <=> TakingOver)
      BY <1>1, <1>3 DEF MovingFront, TakingOver, Reserved
    <2>4. MovingBack' <=> MovingBack
      BY <1>1, <1>3 DEF MovingBack, Reserved, Behind
    <2>5. QED
      BY <1>1, <2>1, <2>2, <2>3, <2>4, VectorParts DEF GrowthFollows
  <1>5. QED
    BY <1>1, <1>2, <1>4, <1>r, VectorParts, VectorKeeps

LEMMA VectorStep ==
  ASSUME IInv, [Next]_vars
  PROVE  IInv'
  <1>1. CASE Call
    BY <1>1, CallKeeps
  <1>2. CASE MakeNew \/ EndMakeNew
    BY <1>2, MakeNewKeeps, EndMakeNewKeeps
  <1>3. CASE MoveAll
    BY <1>3, MoveAllKeeps
  <1>4. CASE MoveFront \/ EndMoveFront
    BY <1>4, MoveFrontKeeps, EndMoveFrontKeeps
  <1>5. CASE MoveBack \/ EndMoveBack
    BY <1>5, MoveBackKeeps, EndMoveBackKeeps
  <1>6. CASE TakeOver
    BY <1>6, TakeOverKeeps
  <1>7. CASE MoveThrows
    BY <1>7, MoveThrowsKeeps
  <1>8. CASE Reset
    BY <1>8, ResetKeeps
  <1>9. CASE InPlace /\ UNCHANGED <<cap, sb>>
    BY <1>9, InPlaceOfVector
  <1>10. CASE UNCHANGED vars
    BY <1>10, VectorStutters
  <1>11. QED
    BY <1>1, <1>2, <1>3, <1>4, <1>5, <1>6, <1>7, <1>8, <1>9, <1>10 DEF Next

----------------------------------------------------------------------------
\* What is read is what was referred to.

LEMMA SourceIntactHolds ==
  ASSUME NEW room \in 0 .. MaxSize, SlotsInv(room)
  PROVE  SourceIntact
  <1>1. SUFFICES ASSUME op.src.kind # "values",
                        (pc = "fill" /\ Made < op.n) \/ (pc = "overwrite" /\ step < Kept)
                 PROVE  data[ReadAt] = before[op.src.at]
    BY DEF SourceIntact
  <1>2. CASE pc = "fill" /\ Made < op.n
    BY <1>1, <1>2, ReadInFill
  <1>3. CASE pc = "overwrite"
    BY <1>1, <1>3, ReadInOverwrite
  <1>4. QED
    BY <1>1, <1>2, <1>3

LEMMA GrowthSourceIntactHolds ==
  ASSUME IInv
  PROVE  GrowthSourceIntact
  <1>1. SUFFICES ASSUME pc = "makeNew", op.src.kind # "values", sb.first = sb.last
                 PROVE  data[op.src.at] = before[op.src.at]
    BY DEF GrowthSourceIntact
  <1>2. MakingNew /\ size = Len(before)
    BY <1>1, VectorParts DEF GrowthFollows, GrowthLoops
  <1>3. op.src.at \in 1 .. size
    BY <1>1, <1>2, VectorParts DEF SourceGiven
  <1>4. QED
    BY <1>1, <1>2, <1>3 DEF MakingNew

----------------------------------------------------------------------------
\* The functions: a callable's copies are counted by who holds one.

Holdings == [Functions -> Targets \cup {Null}]

Held(t, c) == t # Null /\ t.callable = c

One(t, c) == IF Held(t, c) THEN 1 ELSE 0

Holders(held, c) == {f \in Functions : held[f] # Null /\ held[f].callable = c}

Counted(held, alive) ==
    /\ held \in Holdings /\ alive \in [Callables -> Nat]
    /\ \A c \in Callables : alive[c] = Cardinality(Holders(held, c))

LEMMA HoldersChange ==
  ASSUME NEW held \in Holdings, NEW f \in Functions, NEW t \in Targets \cup {Null},
         NEW now \in Holdings, now[f] = t, \A g \in Functions \ {f} : now[g] = held[g],
         NEW c \in Callables
  PROVE  /\ Cardinality(Holders(held, c)) \in Nat /\ Cardinality(Holders(now, c)) \in Nat
         /\ Cardinality(Holders(now, c)) = Cardinality(Holders(held, c))
               + One(t, c) - One(held[f], c)
         /\ Held(held[f], c) => Cardinality(Holders(held, c)) >= 1
  <1>2. Holders(held, c) \ {f} = Holders(now, c) \ {f}
    BY DEF Holders
  <1>3. IsFiniteSet(Holders(held, c))
    <2>1. Holders(held, c) \subseteq Functions
      BY DEF Holders
    <2>2. QED
      BY <2>1, FnAssumption, FS_Subset
  <1>4. (f \in Holders(now, c) <=> Held(t, c)) /\ (f \in Holders(held, c) <=> Held(held[f], c))
    BY DEF Holders, Held
  <1>5. /\ Cardinality(Holders(held, c)) \in Nat /\ Cardinality(Holders(now, c)) \in Nat
        /\ Cardinality(Holders(now, c)) = Cardinality(Holders(held, c))
              + (IF f \in Holders(now, c) THEN 1 ELSE 0) - (IF f \in Holders(held, c) THEN 1 ELSE 0)
        /\ f \in Holders(held, c) => Cardinality(Holders(held, c)) >= 1
    <2> DEFINE S == Holders(held, c)
               T == Holders(now, c)
    <2>1. IsFiniteSet(S) /\ S \ {f} = T \ {f}
      BY <1>2, <1>3
    <2> HIDE DEF S, T
    <2>2. /\ Cardinality(S) \in Nat /\ Cardinality(T) \in Nat
          /\ Cardinality(T) = Cardinality(S) + (IF f \in T THEN 1 ELSE 0) - (IF f \in S THEN 1 ELSE 0)
          /\ f \in S => Cardinality(S) >= 1
      BY <2>1, OneMember
    <2>3. QED
      BY <2>2 DEF S, T
  <1>6. /\ (IF f \in Holders(now, c) THEN 1 ELSE 0) = One(t, c)
        /\ (IF f \in Holders(held, c) THEN 1 ELSE 0) = One(held[f], c)
    BY <1>4 DEF One
  <1>7. /\ Cardinality(Holders(now, c)) = Cardinality(Holders(held, c))
              + One(t, c) - One(held[f], c)
    BY <1>5, <1>6
  <1>8. Held(held[f], c) => Cardinality(Holders(held, c)) >= 1
    BY <1>4, <1>5
  <1>9. QED
    BY <1>5, <1>7, <1>8

LEMMA TargetIs ==
  ASSUME NEW t \in Targets
  PROVE  /\ t.callable \in Callables /\ t.whole \in BOOLEAN /\ t # Null /\ t.depth \in 0 .. MaxDepth
  BY FnAssumption DEF Targets

\* clear, and what is then constructed.
LEMMA ClearIs ==
  ASSUME Counted(fns, live), NEW f \in Functions, NEW s, s = Clear(Now, f)
  PROVE  Counted(s.fns, s.live) /\ s.fns = [fns EXCEPT ![f] = Null]
  <1>1. fns \in Holdings /\ live \in [Callables -> Nat] /\ Now.fns = fns /\ Now.live = live
    BY DEF Counted, Now
  <1>2. CASE fns[f] = Null
    <2>1. s = Now
      BY <1>1, <1>2 DEF Clear
    <2>2. fns = [fns EXCEPT ![f] = Null]
      BY <1>1, <1>2 DEF Holdings
    <2>3. QED
      BY <1>1, <2>1, <2>2
  <1>3. CASE fns[f] # Null
    <2>1. PICK b \in Callables : b = fns[f].callable
      BY <1>1, <1>3, TargetIs DEF Holdings
    <2>2. /\ s.fns = [fns EXCEPT ![f] = Null] /\ s.live = [live EXCEPT ![b] = live[b] - 1]
      BY <1>1, <1>3, <2>1 DEF Clear
    <2>3. ASSUME NEW c \in Callables
          PROVE  s.live[c] = Cardinality(Holders(s.fns, c)) /\ s.live[c] \in Nat
      <3>1. /\ Cardinality(Holders(fns, c)) \in Nat /\ Cardinality(Holders(s.fns, c)) \in Nat
            /\ Cardinality(Holders(s.fns, c)) = Cardinality(Holders(fns, c))
                  + One(Null, c) - One(fns[f], c)
        <4>1. PICK held \in Holdings, now \in Holdings :
                /\ held = fns /\ now = s.fns /\ now[f] = Null
                /\ \A g \in Functions \ {f} : now[g] = held[g]
          BY <1>1, <2>2 DEF Holdings
        <4>2. QED
          BY <4>1, HoldersChange
      <3>2. ~Held(Null, c) /\ (Held(fns[f], c) <=> c = b) /\ live[c] = Cardinality(Holders(fns, c))
        BY <1>3, <2>1 DEF Held, Counted
      <3>3. s.live[c] = IF c = b THEN live[c] - 1 ELSE live[c]
        BY <1>1, <2>2
      <3>4. QED
        BY <3>1, <3>2, <3>3 DEF One
    <2>4. s.live \in [Callables -> Nat] /\ s.fns \in Holdings
      <3>1. s.live = [c \in Callables |-> s.live[c]]
        BY <1>1, <2>2
      <3>2. s.fns \in Holdings
        BY <1>1, <2>2 DEF Holdings
      <3>3. QED
        BY <2>3, <3>1, <3>2
    <2>5. QED
      BY <2>2, <2>3, <2>4 DEF Counted
  <1>4. QED
    BY <1>2, <1>3

LEMMA HoldIs ==
  ASSUME NEW s, Counted(s.fns, s.live), NEW f \in Functions, s.fns[f] = Null,
         NEW t \in Targets, NEW r, r = Hold(s, f, t)
  PROVE  Counted(r.fns, r.live) /\ r.fns = [s.fns EXCEPT ![f] = t]
  <1>1. s.fns \in Holdings /\ s.live \in [Callables -> Nat]
    BY DEF Counted
  <1>2. PICK b \in Callables : b = t.callable
    BY TargetIs
  <1>3. r.fns = [s.fns EXCEPT ![f] = t] /\ r.live = [s.live EXCEPT ![b] = s.live[b] + 1]
    BY <1>2 DEF Hold
  <1>5. r.fns \in Holdings /\ r.fns[f] = t /\ \A g \in Functions \ {f} : r.fns[g] = s.fns[g]
    BY <1>1, <1>3 DEF Holdings
  <1>4. ASSUME NEW c \in Callables
        PROVE  r.live[c] = Cardinality(Holders(r.fns, c)) /\ r.live[c] \in Nat
    <2>1. /\ Cardinality(Holders(s.fns, c)) \in Nat /\ Cardinality(Holders(r.fns, c)) \in Nat
          /\ Cardinality(Holders(r.fns, c)) = Cardinality(Holders(s.fns, c))
                + One(t, c) - One(s.fns[f], c)
      <3>1. PICK held \in Holdings, now \in Holdings :
              /\ held = s.fns /\ now = r.fns /\ now[f] = t
              /\ \A g \in Functions \ {f} : now[g] = held[g]
        BY <1>1, <1>5
      <3>2. QED
        BY <3>1, HoldersChange
    <2>2. /\ ~Held(s.fns[f], c) /\ (Held(t, c) <=> c = b)
          /\ s.live[c] = Cardinality(Holders(s.fns, c))
      BY <1>2, TargetIs DEF Held, Counted
    <2>3. r.live[c] = IF c = b THEN s.live[c] + 1 ELSE s.live[c]
      BY <1>1, <1>3
    <2>4. QED
      BY <2>1, <2>2, <2>3 DEF One
  <1>6. r.live \in [Callables -> Nat]
    <2>1. r.live = [c \in Callables |-> r.live[c]]
      BY <1>1, <1>3
    <2>2. QED
      BY <1>4, <2>1
  <1>7. QED
    BY <1>3, <1>4, <1>5, <1>6 DEF Counted

\* A move to a function that has none, and a swap.
LEMMA TradeIs ==
  ASSUME NEW held, NEW alive, Counted(held, alive), NEW f \in Functions, NEW g \in Functions, f # g,
         NEW now \in Holdings, now[f] = held[g], now[g] = held[f],
         \A h \in Functions \ {f, g} : now[h] = held[h]
  PROVE  Counted(now, alive)
  <1>1. held \in Holdings /\ alive \in [Callables -> Nat]
    BY DEF Counted
  <1>m. PICK mid \in Holdings : mid[f] = held[g] /\ \A h \in Functions \ {f} : mid[h] = held[h]
    <2>1. [held EXCEPT ![f] = held[g]] \in Holdings
      BY <1>1 DEF Holdings
    <2>2. /\ [held EXCEPT ![f] = held[g]][f] = held[g]
          /\ \A h \in Functions \ {f} : [held EXCEPT ![f] = held[g]][h] = held[h]
      BY <1>1 DEF Holdings
    <2>3. QED
      BY <2>1, <2>2
  <1>2. held[f] \in Targets \cup {Null} /\ held[g] \in Targets \cup {Null}
    BY <1>1 DEF Holdings
  <1>3. /\ mid[g] = held[g] /\ mid[f] = held[g] /\ mid \in Holdings
        /\ \A h \in Functions \ {f} : mid[h] = held[h]
        /\ now[g] = held[f] /\ now \in Holdings /\ \A h \in Functions \ {g} : now[h] = mid[h]
    BY <1>1, <1>m
  <1>4. ASSUME NEW c \in Callables
        PROVE  alive[c] = Cardinality(Holders(now, c))
    <2>1. /\ Cardinality(Holders(held, c)) \in Nat /\ Cardinality(Holders(mid, c)) \in Nat
          /\ Cardinality(Holders(mid, c)) = Cardinality(Holders(held, c))
                + One(held[g], c) - One(held[f], c)
      <3>1. PICK t \in Targets \cup {Null} : t = held[g]
        BY <1>2
      <3>2. held \in Holdings /\ mid \in Holdings /\ mid[f] = t
        BY <1>1, <1>3, <3>1
      <3>3. \A h \in Functions \ {f} : mid[h] = held[h]
        BY <1>3
      <3>4. QED
        BY <3>1, <3>2, <3>3, HoldersChange
    <2>2. /\ Cardinality(Holders(now, c)) \in Nat
          /\ Cardinality(Holders(now, c)) = Cardinality(Holders(mid, c))
                + One(held[f], c) - One(held[g], c)
      <3>1. PICK t \in Targets \cup {Null} : t = held[f]
        BY <1>2
      <3>2. mid \in Holdings /\ now \in Holdings /\ now[g] = t
        BY <1>3, <3>1
      <3>3. \A h \in Functions \ {g} : now[h] = mid[h]
        BY <1>3
      <3>4. /\ Cardinality(Holders(now, c)) \in Nat
            /\ Cardinality(Holders(now, c)) = Cardinality(Holders(mid, c)) + One(t, c) - One(mid[g], c)
        BY <3>1, <3>2, <3>3, HoldersChange
      <3>5. One(t, c) = One(held[f], c) /\ One(mid[g], c) = One(held[g], c)
        BY <1>3, <3>1
      <3>6. QED
        BY <3>4, <3>5
    <2>o. One(held[f], c) \in Nat /\ One(held[g], c) \in Nat
      BY DEF One
    <2>3. Cardinality(Holders(now, c)) = Cardinality(Holders(held, c))
      BY <2>1, <2>2, <2>o
    <2>4. QED
      BY <2>3 DEF Counted
  <1>5. QED
    BY <1>1, <1>4 DEF Counted

\* What a function holds is what it was given, and is whole unless it fills the buffer.
Agrees(t, a) ==
    /\ t # Null => t.callable = a.what
    /\ a.from = "itself" => t = Null
    /\ a.from = "outside" =>
          /\ t = Null => a.what = Null
          /\ t # Null => (t.whole <=> ~Fills(t))

LEMMA FnParts ==
  ASSUME FnIInv
  PROVE  /\ Counted(fns, live) /\ fns \in [Functions -> Targets \cup {Null}]
         /\ asked \in [Functions -> Requests]
         /\ \A f \in Functions : Agrees(fns[f], asked[f])
  BY DEF FnIInv, FnTypeOK, CallablesAccounted, TargetsAgree, Counted, Holdings, Holders, Agrees

LEMMA FnKeeps ==
  ASSUME Counted(fns', live'), asked' \in [Functions -> Requests],
         \A f \in Functions : Agrees(fns'[f], asked'[f])
  PROVE  FnIInv'
  <1>1. FnTypeOK'
    BY DEF Counted, Holdings, FnTypeOK
  <1>2. CallablesAccounted'
    BY DEF Counted, Holders, CallablesAccounted
  <1>3. TargetsAgree'
    BY DEF Agrees, TargetsAgree
  <1>4. QED
    BY <1>1, <1>2, <1>3 DEF FnIInv

\* One function changes, and what it was given with it.
LEMMA OneChanges ==
  ASSUME FnIInv, NEW f \in Functions, NEW t \in Targets \cup {Null}, NEW a \in Requests,
         Counted(fns', live'), fns' = [fns EXCEPT ![f] = t], asked' = [asked EXCEPT ![f] = a],
         Agrees(t, a)
  PROVE  FnIInv'
  <1>1. asked' \in [Functions -> Requests]
    BY FnParts
  <1>2. ASSUME NEW g \in Functions
        PROVE  Agrees(fns'[g], asked'[g])
    <2>1. CASE g = f
      BY <1>2, <2>1, FnParts
    <2>2. CASE g # f
      BY <1>2, <2>2, FnParts
    <2>3. QED
      BY <2>1, <2>2
  <1>3. QED
    BY <1>1, <1>2, FnKeeps

LEMMA HandedIs ==
  ASSUME NEW c \in Callables \cup {Null}
  PROVE  Handed(c) \in Requests /\ Handed(c).what = c /\ Handed(c).from = "outside"
  BY DEF Handed, Request, Requests

LEMMA NoneAgrees == Handed(Null) \in Requests /\ Agrees(Null, Handed(Null))
  BY HandedIs DEF Agrees

LEMMA ThrowsInKeeps ==
  ASSUME FnIInv, NEW f \in Functions, ThrowsIn(f)
  PROVE  FnIInv'
  <1>s. PICK s : s = Clear(Now, f)
    OBVIOUS
  <1>1. Counted(s.fns, s.live) /\ s.fns = [fns EXCEPT ![f] = Null]
    BY <1>s, FnParts, ClearIs
  <1>2. fns' = s.fns /\ live' = s.live /\ asked' = [asked EXCEPT ![f] = Handed(Null)]
    BY <1>s DEF ThrowsIn, Become, Give
  <1>3. QED
    BY <1>1, <1>2, NoneAgrees, OneChanges

\* A function is cleared and then given something to hold.
LEMMA HoldKeeps ==
  ASSUME FnIInv, NEW f \in Functions, NEW t \in Targets, NEW a \in Requests,
         Become(Hold(Clear(Now, f), f, t)), Give(f, a), Agrees(t, a)
  PROVE  FnIInv'
  <1>s. PICK s : s = Clear(Now, f)
    OBVIOUS
  <1>1. Counted(s.fns, s.live) /\ s.fns = [fns EXCEPT ![f] = Null]
    BY <1>s, FnParts, ClearIs
  <1>2. s.fns[f] = Null /\ Counted(s.fns, s.live)
    BY <1>1, FnParts
  <1>r. PICK r : r = Hold(s, f, t)
    OBVIOUS
  <1>3. fns' = r.fns /\ live' = r.live
    BY <1>s, <1>r DEF Become
  <1>4. Counted(r.fns, r.live) /\ r.fns = [s.fns EXCEPT ![f] = t]
    BY <1>2, <1>r, HoldIs
  <1>5. [s.fns EXCEPT ![f] = t] = [fns EXCEPT ![f] = t]
    BY <1>1, FnParts
  <1>6. fns' = [fns EXCEPT ![f] = t] /\ Counted(fns', live')
    BY <1>3, <1>4, <1>5
  <1>7. asked' = [asked EXCEPT ![f] = a]
    BY DEF Give
  <1>8. QED
    BY <1>6, <1>7, OneChanges

LEMMA AssignCopyKeeps ==
  ASSUME FnIInv, NEW f \in Functions, NEW g \in Functions, AssignCopy(f, g)
  PROVE  FnIInv'
  <1>1. CASE f = g
    <2>1. UNCHANGED <<fns, live, asked>>
      BY <1>1 DEF AssignCopy, fnVars
    <2>2. Counted(fns', live')
      BY <2>1, FnParts
    <2>3. QED
      BY <2>1, <2>2, FnParts, FnKeeps
  <1>2. CASE f # g /\ Become(Clone(Clear(Now, f), f, g)) /\ Give(f, asked[g])
    <2>s. PICK s : s = Clear(Now, f)
      OBVIOUS
    <2>1. Counted(s.fns, s.live) /\ s.fns = [fns EXCEPT ![f] = Null]
      BY <2>s, FnParts, ClearIs
    <2>2. s.fns[g] = fns[g] /\ s.fns[f] = Null /\ fns[g] \in Targets \cup {Null}
      BY <1>2, <2>1, FnParts
    <2>3. Counted(fns', live') /\ fns' = [fns EXCEPT ![f] = fns[g]]
      <3>1. CASE fns[g] = Null
        <4>1. fns' = s.fns /\ live' = s.live
          BY <1>2, <2>s, <2>2, <3>1 DEF Become, Clone
        <4>2. QED
          BY <2>1, <3>1, <4>1
      <3>2. CASE fns[g] # Null
        <4>t. PICK t \in Targets : t = fns[g]
          BY <2>2, <3>2
        <4>1. PICK r : r = Hold(s, f, t)
          OBVIOUS
        <4>2. fns' = r.fns /\ live' = r.live
          BY <1>2, <2>s, <2>2, <3>2, <4>t, <4>1 DEF Become, Clone
        <4>3. Counted(r.fns, r.live) /\ r.fns = [s.fns EXCEPT ![f] = fns[g]]
          <5>1. Counted(s.fns, s.live) /\ s.fns[f] = Null
            BY <2>1, <2>2
          <5>2. Counted(r.fns, r.live) /\ r.fns = [s.fns EXCEPT ![f] = t]
            BY <5>1, <4>1, HoldIs
          <5>3. QED
            BY <5>2, <4>t
        <4>4. [s.fns EXCEPT ![f] = fns[g]] = [fns EXCEPT ![f] = fns[g]]
          BY <2>1, FnParts
        <4>5. QED
          BY <4>2, <4>3, <4>4
      <3>3. QED
        BY <3>1, <3>2
    <2>4. asked' = [asked EXCEPT ![f] = asked[g]] /\ asked[g] \in Requests
      BY <1>2, FnParts DEF Give
    <2>5. Agrees(fns[g], asked[g])
      BY FnParts
    <2>6. QED
      BY <2>2, <2>3, <2>4, <2>5, FnParts, OneChanges
  <1>3. CASE ThrowsIn(f)
    BY <1>3, ThrowsInKeeps DEF AssignCopy
  <1>4. QED
    BY <1>1, <1>2, <1>3 DEF AssignCopy

LEMMA AssignMoveKeeps ==
  ASSUME FnIInv, NEW f \in Functions, NEW g \in Functions, AssignMove(f, g)
  PROVE  FnIInv'
  <1>1. CASE f = g
    <2>1. UNCHANGED <<fns, live, asked>>
      BY <1>1 DEF AssignMove, fnVars
    <2>2. Counted(fns', live')
      BY <2>1, FnParts
    <2>3. QED
      BY <2>1, <2>2, FnParts, FnKeeps
  <1>2. CASE f # g
    <2>s. PICK s : s = Clear(Now, f)
      OBVIOUS
    <2>1. Counted(s.fns, s.live) /\ s.fns = [fns EXCEPT ![f] = Null]
      BY <2>s, FnParts, ClearIs
    <2>c. s = [fns |-> s.fns, live |-> s.live]
      BY <2>s, Zenon DEF Clear, Now
    <2>2. s.fns[f] = Null /\ s.fns \in Holdings /\ \A h \in Functions \ {f} : s.fns[h] = fns[h]
      BY <2>1, FnParts DEF Holdings
    <2>3. /\ fns' = MoveFrom(s, f, g).fns /\ live' = MoveFrom(s, f, g).live
          /\ asked' = [asked EXCEPT ![f] = asked[g], ![g] = Handed(Null)]
      BY <1>2, <2>s DEF AssignMove, Become
    <2>4. fns' = [[s.fns EXCEPT ![f] = s.fns[g]] EXCEPT ![g] = Null] /\ live' = s.live
      BY <2>c, <2>3 DEF MoveFrom
    <2>5. /\ fns' \in Holdings /\ fns'[f] = s.fns[g] /\ fns'[g] = s.fns[f]
          /\ \A h \in Functions \ {f, g} : fns'[h] = s.fns[h]
      BY <1>2, <2>2, <2>4 DEF Holdings
    <2>6. Counted(fns', live')
      <3>1. PICK held, now \in Holdings :
              /\ held = s.fns /\ now = fns' /\ now[f] = held[g] /\ now[g] = held[f]
              /\ \A h \in Functions \ {f, g} : now[h] = held[h]
        BY <2>2, <2>5
      <3>2. PICK alive : alive = s.live
        OBVIOUS
      <3>3. Counted(held, alive)
        BY <2>1, <3>1, <3>2
      <3>4. Counted(now, alive)
        BY <1>2, <3>1, <3>3, TradeIs
      <3>5. QED
        BY <2>4, <3>1, <3>2, <3>4
    <2>7. asked' \in [Functions -> Requests]
      BY <2>3, NoneAgrees, FnParts
    <2>8. ASSUME NEW h \in Functions
          PROVE  Agrees(fns'[h], asked'[h])
      <3>1. \A k \in Functions : Agrees(fns[k], asked[k])
        BY FnParts
      <3>2. CASE h = f
        BY <1>2, <2>2, <2>3, <2>5, <3>1, <3>2, FnParts
      <3>3. CASE h = g
        BY <1>2, <2>2, <2>3, <2>5, <3>3, NoneAgrees, FnParts
      <3>4. CASE h # f /\ h # g
        BY <2>2, <2>3, <2>5, <3>1, <3>4, FnParts
      <3>5. QED
        BY <3>2, <3>3, <3>4
    <2>9. QED
      BY <2>3, <2>6, <2>7, <2>8, FnParts, FnKeeps
  <1>3. QED
    BY <1>1, <1>2

LEMMA SwapKeeps ==
  ASSUME FnIInv, NEW f \in Functions, NEW g \in Functions, Swap(f, g)
  PROVE  FnIInv'
  <1>1. /\ fns' = [fns EXCEPT ![f] = fns[g], ![g] = fns[f]]
        /\ asked' = [asked EXCEPT ![f] = asked[g], ![g] = asked[f]]
        /\ UNCHANGED live
    BY DEF Swap
  <1>2. fns \in Holdings
    BY FnParts DEF Holdings
  <1>3. /\ fns' \in Holdings /\ fns'[f] = fns[g] /\ fns'[g] = fns[f]
        /\ \A h \in Functions \ {f, g} : fns'[h] = fns[h]
    BY <1>1, <1>2 DEF Holdings
  <1>4. /\ asked' \in [Functions -> Requests]
        /\ asked'[f] = asked[g] /\ asked'[g] = asked[f]
        /\ \A h \in Functions \ {f, g} : asked'[h] = asked[h]
    BY <1>1, FnParts
  <1>5. Counted(fns', live')
    <2>1. PICK held \in Holdings, now \in Holdings :
            /\ held = fns /\ now = fns' /\ now[f] = held[g] /\ now[g] = held[f]
            /\ \A h \in Functions \ {f, g} : now[h] = held[h]
      BY <1>2, <1>3
    <2>2. PICK alive : alive = live
      OBVIOUS
    <2>3. Counted(held, alive)
      BY <2>1, <2>2, FnParts
    <2>4. Counted(now, alive)
      <3>1. CASE f # g
        BY <2>1, <2>3, <3>1, TradeIs
      <3>2. CASE f = g
        <4>1. \A h \in Functions : now[h] = held[h]
          BY <2>1, <3>2
        <4>2. now = held
          BY <2>1, <4>1 DEF Holdings
        <4>3. QED
          BY <2>3, <4>2
      <3>3. QED
        BY <3>1, <3>2
    <2>5. QED
      BY <1>1, <2>1, <2>2, <2>4
  <1>6. ASSUME NEW h \in Functions
        PROVE  Agrees(fns'[h], asked'[h])
    <2>1. \A k \in Functions : Agrees(fns[k], asked[k])
      BY FnParts
    <2>2. QED
      BY <1>3, <1>4, <2>1
  <1>7. QED
    BY <1>1, <1>4, <1>5, <1>6, FnParts, FnKeeps

LEMMA AssignLvalueKeeps ==
  ASSUME FnIInv, NEW f \in Functions, NEW g \in Functions, AssignLvalue(f, g)
  PROVE  FnIInv'
  <1>a. PICK a : a = IF f = g THEN Request(asked[f].what, "itself") ELSE asked[g]
    OBVIOUS
  <1>1. /\ fns[g] # Null => fns[g].depth # MaxDepth
        /\ \/ Become(Wrap(Clear(Now, f), f, g)) /\ Give(f, a)
           \/ f # g /\ ThrowsIn(f)
    BY <1>a DEF AssignLvalue
  <1>2. a \in Requests /\ (f = g => a.from = "itself") /\ (f # g => a = asked[g])
    <2>1. asked[f] \in Requests /\ asked[g] \in Requests
      BY FnParts
    <2>2. QED
      BY <1>a, <2>1 DEF Request, Requests
  <1>3. CASE Become(Wrap(Clear(Now, f), f, g)) /\ Give(f, a)
    <2>s. PICK s : s = Clear(Now, f)
      OBVIOUS
    <2>1. Counted(s.fns, s.live) /\ s.fns = [fns EXCEPT ![f] = Null]
      BY <2>s, FnParts, ClearIs
    <2>2. /\ s.fns[f] = Null /\ Counted(s.fns, s.live)
          /\ g # f => s.fns[g] = fns[g] /\ fns[g] \in Targets \cup {Null}
      BY <2>1, FnParts
    <2>3. asked' = [asked EXCEPT ![f] = a]
      BY <1>3 DEF Give
    <2>4. CASE s.fns[g] = Null
      <3>1. fns' = [fns EXCEPT ![f] = Null] /\ Counted(fns', live')
        BY <1>3, <2>s, <2>1, <2>4 DEF Become, Wrap
      <3>2. Agrees(Null, a)
        <4>1. CASE f = g
          BY <1>2, <4>1 DEF Agrees
        <4>2. CASE f # g
          BY <1>2, <2>2, <2>4, <4>2, FnParts
        <4>3. QED
          BY <4>1, <4>2
      <3>3. QED
        BY <1>2, <2>3, <3>1, <3>2, OneChanges
    <2>5. CASE s.fns[g] # Null
      <3>1. g # f /\ s.fns[g] = fns[g] /\ fns[g] \in Targets
        BY <2>2, <2>5
      <3>2. PICK t : t = [fns[g] EXCEPT !.depth = @ + 1]
        OBVIOUS
      <3>3. /\ t \in Targets /\ t.callable = fns[g].callable
            /\ t.whole = fns[g].whole /\ t.place = fns[g].place
        <4>1. fns[g].depth + 1 \in 0 .. MaxDepth
          BY <1>1, <3>1, TargetIs, FnAssumption
        <4>2. QED
          BY <3>1, <3>2, <4>1 DEF Targets
      <3>4. Become(Hold(s, f, t))
        <4>1. Wrap(s, f, g) = Hold(s, f, [s.fns[g] EXCEPT !.depth = @ + 1])
          BY <2>5 DEF Wrap
        <4>2. Wrap(s, f, g) = Hold(s, f, t)
          BY <3>1, <3>2, <4>1
        <4>3. QED
          BY <1>3, <2>s, <4>2
      <3>5. Agrees(t, a)
        <4>1. Agrees(fns[g], a) /\ fns[g] # Null /\ t # Null
          BY <1>2, <3>1, <3>3, TargetIs, FnParts
        <4>2. Fills(t) <=> Fills(fns[g])
          BY <3>3 DEF Fills
        <4>3. QED
          BY <3>3, <4>1, <4>2 DEF Agrees
      <3>6. QED
        BY <1>2, <1>3, <2>s, <3>3, <3>4, <3>5, HoldKeeps
    <2>6. QED
      BY <2>4, <2>5
  <1>4. CASE f # g /\ ThrowsIn(f)
    BY <1>4, ThrowsInKeeps
  <1>5. QED
    BY <1>1, <1>3, <1>4

\* A callable is given to a function.
LEMMA GivenCallable ==
  ASSUME FnIInv, NEW f \in Functions, NEW c \in Callables, NEW t \in Targets,
         t.callable = c, t.whole <=> ~Fills(t),
         Become(Hold(Clear(Now, f), f, t)), Give(f, Handed(c))
  PROVE  FnIInv'
  <1>1. Handed(c) \in Requests /\ Agrees(t, Handed(c))
    BY HandedIs, TargetIs DEF Agrees
  <1>2. QED
    BY <1>1, HoldKeeps

LEMMA InBufferIs ==
  ASSUME NEW c \in Callables, c.size <= Words
  PROVE  /\ InBuffer(c) \in Targets /\ InBuffer(c).callable = c
         /\ InBuffer(c).whole <=> ~Fills(InBuffer(c))
  <1>1. c.size \in Nat /\ Words = 3 /\ (c.size + 1 <= Words) \in BOOLEAN /\ 0 \in 0 .. MaxDepth
    BY FnAssumption DEF Words
  <1>w. PICK w \in BOOLEAN : w = (c.size + 1 <= Words)
    BY <1>1
  <1>2. InBuffer(c) = [callable |-> c, depth |-> 0, place |-> "buffer", whole |-> w]
    BY <1>w DEF InBuffer, Target
  <1>3. w <=> ~(c.size = Words)
    <2>n. PICK n \in Nat : n = c.size
      BY <1>1
    <2>1. n <= Words => ((n + 1 <= Words) <=> ~(n = Words))
      BY <1>1, <2>n
    <2>2. QED
      BY <1>w, <2>n, <2>1
  <1>4. InBuffer(c) \in Targets
    BY <1>1, <1>2, <1>w DEF Targets
  <1>5. QED
    BY <1>2, <1>3, <1>4 DEF Fills

LEMMA OnHeapIs ==
  ASSUME NEW c \in Callables
  PROVE  /\ OnHeap(c) \in Targets /\ OnHeap(c).callable = c
         /\ OnHeap(c).whole <=> ~Fills(OnHeap(c))
  <1>1. 0 \in 0 .. MaxDepth
    BY FnAssumption
  <1>2. OnHeap(c) = [callable |-> c, depth |-> 0, place |-> "heap", whole |-> TRUE]
    BY DEF OnHeap, Target
  <1>3. QED
    BY <1>1, <1>2 DEF Fills, Targets

LEMMA StoredIs ==
  ASSUME NEW c \in Callables
  PROVE  /\ Stored(c) \in Targets /\ Stored(c).callable = c
         /\ Stored(c).whole <=> ~Fills(Stored(c))
  <1>1. CASE Small(c)
    <2>1. Stored(c) = InBuffer(c) /\ c.size <= Words
      BY <1>1 DEF Stored, Small
    <2>2. QED
      BY <2>1, InBufferIs
  <1>2. CASE ~Small(c)
    <2>1. Stored(c) = OnHeap(c)
      BY <1>2 DEF Stored
    <2>2. QED
      BY <2>1, OnHeapIs
  <1>3. QED
    BY <1>1, <1>2

LEMMA AssignCallableKeeps ==
  ASSUME FnIInv, NEW f \in Functions, NEW c \in Callables,
         AssignCallable(f, c) \/ AssignRelocatable(f, c)
  PROVE  FnIInv'
  <1>1. CASE ThrowsIn(f)
    BY <1>1, ThrowsInKeeps
  <1>2. CASE c.size <= Words /\ Become(Hold(Clear(Now, f), f, InBuffer(c))) /\ Give(f, Handed(c))
    BY <1>2, InBufferIs, GivenCallable
  <1>3. CASE Become(Hold(Clear(Now, f), f, Stored(c))) /\ Give(f, Handed(c))
    BY <1>3, StoredIs, GivenCallable
  <1>4. QED
    BY <1>1, <1>2, <1>3 DEF AssignCallable, AssignRelocatable

LEMMA AssignNullKeeps ==
  ASSUME FnIInv, NEW f \in Functions, AssignNull(f)
  PROVE  FnIInv'
  BY ThrowsInKeeps DEF AssignNull, ThrowsIn

\* What was inside, and is looked at when it is gone.
LEMMA AssignOwnKeeps ==
  ASSUME FnIInv, NEW f \in Functions, AssignOwn(f)
  PROVE  FnIInv'
  <1>t. PICK t \in Targets : t = fns[f]
    BY FnParts DEF AssignOwn
  <1>a. PICK a : a = Request(asked[f].what, "inside")
    OBVIOUS
  <1>1. PICK again : again = Inside(t)
    OBVIOUS
  <1>2. \/ \E whole \in BOOLEAN :
              /\ Become(Hold(Clear(Now, f), f, [again EXCEPT !.whole = @ /\ t.whole /\ whole]))
              /\ Give(f, a)
        \/ Become(Clear(Now, f)) /\ Give(f, a)
        \/ ThrowsIn(f)
    BY <1>t, <1>a, <1>1, Zenon DEF AssignOwn
  <1>3. a \in Requests /\ a.from = "inside" /\ a.what = t.callable
    <2>1. asked[f] \in Requests /\ Agrees(t, asked[f]) /\ t # Null
      BY <1>t, TargetIs, FnParts
    <2>2. QED
      BY <1>a, <2>1 DEF Agrees, Request, Requests
  <1>4. again \in Targets /\ again.callable = t.callable
    <2>1. t.callable \in Callables /\ t.depth \in 0 .. MaxDepth
      BY TargetIs
    <2>2. CASE t.depth = 0
      BY <1>1, <2>1, <2>2, StoredIs DEF Inside
    <2>3. CASE t.depth # 0
      <3>1. again = [t EXCEPT !.depth = @ - 1] /\ t.depth - 1 \in 0 .. MaxDepth
        BY <1>1, <2>1, <2>3, FnAssumption DEF Inside
      <3>2. QED
        BY <3>1 DEF Targets
    <2>4. QED
      BY <2>2, <2>3
  <1>5. ASSUME NEW whole \in BOOLEAN,
               Become(Hold(Clear(Now, f), f, [again EXCEPT !.whole = @ /\ t.whole /\ whole])),
               Give(f, a)
        PROVE  FnIInv'
    <2>1. PICK u : u = [again EXCEPT !.whole = @ /\ t.whole /\ whole]
      OBVIOUS
    <2>2. u \in Targets /\ u.callable = t.callable
      <3>1. PICK w \in BOOLEAN : w = (again.whole /\ t.whole /\ whole)
        OBVIOUS
      <3>2. u = [again EXCEPT !.whole = w]
        BY <2>1, <3>1
      <3>3. QED
        BY <1>4, <3>2 DEF Targets
    <2>3. Agrees(u, a)
      BY <1>3, <2>2 DEF Agrees
    <2>4. QED
      BY <1>3, <1>5, <2>1, <2>2, <2>3, HoldKeeps
  <1>6. CASE Become(Clear(Now, f)) /\ Give(f, a)
    <2>s. PICK s : s = Clear(Now, f)
      OBVIOUS
    <2>1. Counted(s.fns, s.live) /\ s.fns = [fns EXCEPT ![f] = Null]
      BY <2>s, FnParts, ClearIs
    <2>2. fns' = s.fns /\ live' = s.live /\ asked' = [asked EXCEPT ![f] = a]
      BY <1>6, <2>s DEF Become, Give
    <2>3. Agrees(Null, a)
      BY <1>3 DEF Agrees
    <2>4. QED
      BY <1>3, <2>1, <2>2, <2>3, OneChanges
  <1>7. CASE ThrowsIn(f)
    BY <1>7, ThrowsInKeeps
  <1>8. QED
    BY <1>2, <1>5, <1>6, <1>7

LEMMA FnBegins == FnInit => FnIInv
  <1> SUFFICES ASSUME FnInit
               PROVE  FnIInv
    OBVIOUS
  <1>1. FnTypeOK
    BY FnAssumption, HandedIs DEF FnInit, FnTypeOK
  <1>2. CallablesAccounted
    <2>1. \A c \in Callables : {f \in Functions : fns[f] # Null /\ fns[f].callable = c} = {}
      BY DEF FnInit
    <2>2. QED
      BY <2>1, FS_EmptySet DEF FnInit, CallablesAccounted
  <1>3. TargetsAgree
    BY HandedIs DEF FnInit, TargetsAgree
  <1>4. QED
    BY <1>1, <1>2, <1>3 DEF FnIInv

LEMMA FnStep ==
  ASSUME FnIInv, [FnNext]_fnVars
  PROVE  FnIInv'
  <1>1. ASSUME NEW f \in Functions, NEW g \in Functions,
               AssignCopy(f, g) \/ AssignMove(f, g) \/ AssignLvalue(f, g) \/ Swap(f, g)
        PROVE  FnIInv'
    BY <1>1, AssignCopyKeeps, AssignMoveKeeps, AssignLvalueKeeps, SwapKeeps
  <1>2. ASSUME NEW f \in Functions, NEW c \in Callables,
               AssignCallable(f, c) \/ AssignRelocatable(f, c)
        PROVE  FnIInv'
    BY <1>2, AssignCallableKeeps
  <1>3. ASSUME NEW f \in Functions, AssignNull(f) \/ AssignOwn(f)
        PROVE  FnIInv'
    BY <1>3, AssignNullKeeps, AssignOwnKeeps
  <1>4. CASE UNCHANGED fnVars
    <2>1. UNCHANGED <<fns, live, asked>>
      BY <1>4 DEF fnVars
    <2>2. Counted(fns', live')
      BY <2>1, FnParts
    <2>3. QED
      BY <2>1, <2>2, FnParts, FnKeeps
  <1>5. QED
    BY <1>1, <1>2, <1>3, <1>4 DEF FnNext

----------------------------------------------------------------------------
\* Each by itself.

\* A vector of any capacity, of values that relocate in any way, under any calls
\* and whatever throws (vector.hpp): every object has one owner, an element that a
\* call is given is read before it is gone, a call that returns has done what was
\* asked for, and one that throws has kept what it should.
THEOREM VectorCorrect ==
  Spec => []( /\ VectorTypeOK /\ ElementsAccounted /\ BufferAccounted
              /\ SourceIntact /\ GrowthSourceIntact /\ DoneAsAsked /\ ThrowKeeps)
  <1>1. IInv /\ [Next]_vars => IInv'
    BY VectorStep
  <1>2. IInv => /\ VectorTypeOK /\ ElementsAccounted /\ BufferAccounted
                /\ SourceIntact /\ GrowthSourceIntact /\ DoneAsAsked /\ ThrowKeeps
    <2> SUFFICES ASSUME IInv
                 PROVE  /\ VectorTypeOK /\ ElementsAccounted /\ BufferAccounted
                        /\ SourceIntact /\ GrowthSourceIntact /\ DoneAsAsked /\ ThrowKeeps
      OBVIOUS
    <2>r. PICK r \in 0 .. MaxSize : r = cap
      BY VectorParts
    <2>1. SlotsInv(r)
      BY <2>r, VectorParts, RoomWas
    <2>2. QED
      BY <2>1, SourceIntactHolds, GrowthSourceIntactHolds, InvParts DEF IInv
  <1>3. QED
    BY VectorBegins, <1>1, <1>2, PTL DEF Spec

\* The same of an inplace_vector (inplace_vector.hpp).
THEOREM InplaceVectorCorrect ==
  InplaceSpec => []( /\ TypeOK /\ ElementsAccounted /\ SourceIntact /\ DoneAsAsked /\ ThrowKeeps)
  <1>0. MaxSize \in 0 .. MaxSize
    BY SlotsAssumption
  <1>1. Init => InplaceIInv
    BY <1>0, SlotsBegin DEF InplaceIInv, Init, InplaceLoops
  <1>2. InplaceIInv /\ [InplaceNext]_slots => InplaceIInv'
    BY InplaceStep
  <1>3. InplaceIInv => /\ TypeOK /\ ElementsAccounted /\ SourceIntact /\ DoneAsAsked /\ ThrowKeeps
    BY <1>0, SourceIntactHolds, InvParts DEF InplaceIInv
  <1>4. QED
    BY <1>1, <1>2, <1>3, PTL DEF InplaceSpec

\* Functions that are copied, moved, wrapped, swapped and assigned callables, any
\* number of either (function.hpp): every copy of a callable that is alive is one
\* function's, and a function holds nothing but what it was given last, which it has
\* lost when it was given itself, and else only to what was inside of it.
THEOREM FunctionCorrect == FnSpec => [](FnTypeOK /\ CallablesAccounted /\ TargetsAgree)
  <1>1. FnIInv /\ [FnNext]_fnVars => FnIInv'
    BY FnStep
  <1>2. FnIInv => FnTypeOK /\ CallablesAccounted /\ TargetsAgree
    BY DEF FnIInv
  <1>3. QED
    BY FnBegins, <1>1, <1>2, PTL DEF FnSpec

----------------------------------------------------------------------------
\* What the run checks of them.

LEMMA MCBegins == MCInit => MCIInv
  <1> SUFFICES ASSUME MCInit
               PROVE  MCIInv
    OBVIOUS
  <1>1. /\ VectorInit /\ FnInit /\ Init /\ sb = NoBuffer
        /\ kind \in {"vector", "inplace_vector", "function"}
    BY DEF MCInit, VectorInit
  <1>2. InplaceIInv
    <2>1. MaxSize \in 0 .. MaxSize
      BY SlotsAssumption
    <2>2. pc \in InplaceLoops
      BY <1>1 DEF Init, InplaceLoops
    <2>3. QED
      BY <1>1, <2>1, <2>2, SlotsBegin DEF InplaceIInv
  <1>3. QED
    BY <1>1, <1>2, VectorBegins, FnBegins DEF MCIInv

LEMMA MCStep ==
  ASSUME MCIInv, [MCNext]_allVars
  PROVE  MCIInv'
  <1>1. /\ kind' = kind /\ [FnNext]_fnVars
        /\ kind = "vector" => [Next]_vars
        /\ kind = "inplace_vector" => [InplaceNext]_slots
        /\ kind = "function" => UNCHANGED vars
        /\ kind # "vector" => UNCHANGED sb
    <2>1. CASE UNCHANGED allVars
      BY <2>1 DEF allVars, vars, slots
    <2>2. CASE kind = "vector" /\ Next /\ UNCHANGED <<kind, fnVars>>
      BY <2>2
    <2>3. CASE kind = "inplace_vector" /\ InplaceNext /\ UNCHANGED <<kind, cap, sb, fnVars>>
      BY <2>3
    <2>4. CASE kind = "function" /\ FnNext /\ UNCHANGED <<kind, vars>>
      BY <2>4 DEF vars
    <2>5. QED
      BY <2>1, <2>2, <2>3, <2>4 DEF MCNext
  <1>2. FnIInv'
    BY <1>1, FnStep DEF MCIInv
  <1>3. kind = "vector" => IInv'
    BY <1>1, VectorStep DEF MCIInv
  <1>4. kind = "inplace_vector" => InplaceIInv'
    BY <1>1, InplaceStep DEF MCIInv
  <1>5. kind = "function" => Init'
    BY <1>1 DEF MCIInv, Init, vars
  <1>6. QED
    BY <1>1, <1>2, <1>3, <1>4, <1>5 DEF MCIInv

LEMMA MCImplies ==
  ASSUME MCIInv
  PROVE  ObjectsAccounted /\ AsAsked /\ ThrowKeeps /\ TargetsAgree
  <1>1. FnTypeOK /\ CallablesAccounted /\ TargetsAgree
    BY DEF MCIInv, FnIInv
  <1>2. PICK r \in 0 .. MaxSize : SlotsInv(r)
    <2>0. MaxSize \in 0 .. MaxSize
      BY SlotsAssumption
    <2>1. CASE kind = "vector"
      <3>1. IInv
        BY <2>1 DEF MCIInv
      <3>2. PICK r \in 0 .. MaxSize : r = cap
        BY <3>1, VectorParts
      <3>3. SlotsInv(r)
        BY <3>1, <3>2, VectorParts, RoomWas
      <3>4. QED
        BY <3>2, <3>3
    <2>2. CASE kind = "inplace_vector"
      BY <2>0, <2>2 DEF MCIInv, InplaceIInv
    <2>3. CASE kind = "function"
      <3>1. Init
        BY <2>3 DEF MCIInv
      <3>2. SlotsInv(MaxSize)
        BY <2>0, <3>1, SlotsBegin
      <3>3. QED
        BY <2>0, <3>2
    <2>4. QED
      BY <2>1, <2>2, <2>3 DEF MCIInv
  <1>3. TypeOK /\ ElementsAccounted /\ SourceIntact /\ DoneAsAsked /\ ThrowKeeps
    BY <1>2, InvParts, SourceIntactHolds
  <1>4. CASE kind = "vector"
    <2>1. IInv
      BY <1>4 DEF MCIInv
    <2>2. VectorTypeOK /\ BufferAccounted /\ GrowthSourceIntact
      BY <2>1, GrowthSourceIntactHolds DEF IInv
    <2>3. QED
      BY <1>1, <1>3, <2>2 DEF ObjectsAccounted, AsAsked, SourcesIntact
  <1>5. CASE kind # "vector"
    <2>1. sb = NoBuffer
      BY <1>5 DEF MCIInv
    <2>2. BufferAccounted
      BY <2>1, NoBufferIs, BufferBySlot DEF BufferAccounted
    <2>3. pc # "makeNew"
      <3>1. CASE kind = "inplace_vector"
        BY <3>1 DEF MCIInv, InplaceIInv, InplaceLoops
      <3>2. CASE kind = "function"
        BY <3>2 DEF MCIInv, Init
      <3>3. QED
        BY <1>5, <3>1, <3>2 DEF MCIInv
    <2>4. GrowthSourceIntact
      BY <2>3 DEF GrowthSourceIntact
    <2>5. QED
      BY <1>1, <1>3, <1>5, <2>2, <2>4 DEF ObjectsAccounted, AsAsked, SourcesIntact
  <1>6. QED
    BY <1>1, <1>3, <1>4, <1>5

LEMMA MCInvariant == MCSpec => []MCIInv
  <1>1. MCIInv /\ [MCNext]_allVars => MCIInv'
    BY MCStep
  <1>2. QED
    BY MCBegins, <1>1, PTL DEF MCSpec

\* No object is leaked, destroyed twice or taken for one that is not there, by a
\* vector, its range_destroyer and its split_buffer, an inplace_vector, or functions
\* and the callables they hold, whichever call throws.
THEOREM ObjectsAlwaysAccounted == MCSpec => []ObjectsAccounted
  <1>1. MCIInv => ObjectsAccounted
    BY MCImplies
  <1>2. QED
    BY MCInvariant, <1>1, PTL

\* A call that returns leaves what the values it was given and the elements there
\* were amount to, also when it was given an element of the same vector.
THEOREM CallsDoWhatWasAsked == MCSpec => []AsAsked
  <1>1. MCIInv => AsAsked
    BY MCImplies
  <1>2. QED
    BY MCInvariant, <1>1, PTL

\* A call that throws keeps the elements in front, and all of them when it grows the
\* vector or adds one element at the end.
THEOREM ExceptionsKeepElements == MCSpec => []ThrowKeeps
  <1>1. MCIInv => ThrowKeeps
    BY MCImplies
  <1>2. QED
    BY MCInvariant, <1>1, PTL

\* A function holds what it was given last, through every copy, move, wrap, swap and
\* throw (function.hpp).  Given itself as an lvalue that is not const it holds none;
\* given what was inside of it, that callable or none.  A callable given from outside
\* is held as it was constructed, unless it is as large as the buffer and in it: then
\* it never is.
THEOREM FunctionsHoldWhatWasGiven == MCSpec => []TargetsAgree
  <1>1. MCIInv => TargetsAgree
    BY MCImplies
  <1>2. QED
    BY MCInvariant, <1>1, PTL
============================================================================
