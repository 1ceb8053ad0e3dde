------------------------- MODULE CardinalityLemmas -------------------------
(***************************************************************************)
(* How the size of a finite set changes when one element comes or goes,    *)
(* and a sum of naturals when one summand changes.  The counters of the    *)
(* library are compared with such sizes and sums.                          *)
(***************************************************************************)
EXTENDS Integers, FiniteSetTheorems, TLAPS

\* Adding one element to a finite set, and removing one.
LEMMA Counting ==
  ASSUME NEW S, IsFiniteSet(S), NEW x
  PROVE  /\ Cardinality(S) \in Nat
         /\ IsFiniteSet(S \cup {x}) /\ IsFiniteSet(S \ {x})
         /\ x \in S => /\ Cardinality(S \ {x}) = Cardinality(S) - 1
                       /\ Cardinality(S) >= 1
                       /\ Cardinality(S \cup {x}) = Cardinality(S)
         /\ x \notin S => /\ Cardinality(S \cup {x}) = Cardinality(S) + 1
                          /\ Cardinality(S \ {x}) = Cardinality(S)
         /\ x \in S /\ Cardinality(S) = 1 => S = {x}
         /\ Cardinality(S) = 0 <=> S = {}
  <1>1. Cardinality(S) \in Nat
    BY FS_CardinalityType
  <1>2. /\ IsFiniteSet(S \ {x})
        /\ Cardinality(S \ {x}) = IF x \in S THEN Cardinality(S) - 1 ELSE Cardinality(S)
    BY FS_RemoveElement
  <1>3. Cardinality(S \ {x}) \in Nat
    BY <1>2, FS_CardinalityType
  <1>4. /\ IsFiniteSet(S \cup {x})
        /\ Cardinality(S \cup {x}) = IF x \in S THEN Cardinality(S) ELSE Cardinality(S) + 1
    BY FS_AddElement
  <1>5. ASSUME x \in S, Cardinality(S) = 1 PROVE S = {x}
    <2>1. Cardinality(S \ {x}) = 0
      BY <1>2, <1>5
    <2>2. S \ {x} = {}
      BY <1>2, <2>1, FS_EmptySet
    <2>3. QED
      BY <1>5, <2>2
  <1>6. Cardinality(S) = 0 <=> S = {}
    BY FS_EmptySet
  <1>7. QED
    BY <1>1, <1>2, <1>3, <1>4, <1>5, <1>6

\* The sizes of two sets that agree except about t.
LEMMA OneMember ==
  ASSUME NEW S, NEW T, IsFiniteSet(S), NEW t, S \ {t} = T \ {t}
  PROVE  /\ IsFiniteSet(T) /\ Cardinality(S) \in Nat /\ Cardinality(T) \in Nat
         /\ Cardinality(T) =
                Cardinality(S) + (IF t \in T THEN 1 ELSE 0) - (IF t \in S THEN 1 ELSE 0)
         /\ t \in S => Cardinality(S) >= 1
  <1>1. /\ IsFiniteSet(S \ {t}) /\ Cardinality(S \ {t}) \in Nat /\ Cardinality(S) \in Nat
        /\ Cardinality(S) = Cardinality(S \ {t}) + (IF t \in S THEN 1 ELSE 0)
        /\ t \in S => Cardinality(S) >= 1
    <2>1. IsFiniteSet(S \ {t}) /\ Cardinality(S) \in Nat
      BY Counting
    <2>2. Cardinality(S \ {t}) \in Nat
      BY <2>1, FS_CardinalityType
    <2>3. /\ t \in S => Cardinality(S \ {t}) = Cardinality(S) - 1 /\ Cardinality(S) >= 1
          /\ t \notin S => Cardinality(S \ {t}) = Cardinality(S)
      BY Counting
    <2>4. QED
      BY <2>1, <2>2, <2>3
  <1>2. CASE t \in T
    <2>1. T = (S \ {t}) \cup {t}
      BY <1>2
    <2>2. IsFiniteSet(T) /\ Cardinality(T) = Cardinality(S \ {t}) + 1
      BY <1>1, <2>1, Counting
    <2>3. QED
      BY <1>1, <1>2, <2>2
  <1>3. CASE t \notin T
    <2>1. T = S \ {t}
      BY <1>3
    <2>2. QED
      BY <1>1, <1>3, <2>1
  <1>4. QED
    BY <1>2, <1>3

\* The sum of the naturals f[x], x in S, none of them above W, as the number of
\* pairs there are.
Units(S, f, W) == {p \in S \X (1 .. W) : p[2] <= f[p[1]]}

LEMMA OneRow ==
  ASSUME NEW t, NEW n \in Nat
  PROVE  IsFiniteSet({t} \X (1 .. n)) /\ Cardinality({t} \X (1 .. n)) = n
  <1>1. IsFiniteSet({t}) /\ Cardinality({t}) = 1
    BY FS_Singleton
  <1>2. IsFiniteSet(1 .. n) /\ Cardinality(1 .. n) = IF 1 > n THEN 0 ELSE n - 1 + 1
    BY FS_Interval
  <1>3. Cardinality(1 .. n) = n
    BY <1>2
  <1>4. /\ IsFiniteSet({t} \X (1 .. n))
        /\ Cardinality({t} \X (1 .. n)) = Cardinality({t}) * Cardinality(1 .. n)
    BY <1>1, <1>2, FS_Product
  <1>5. QED
    BY <1>1, <1>3, <1>4

LEMMA OneSummand ==
  ASSUME NEW S, IsFiniteSet(S), NEW t, NEW W \in Nat, NEW f, \A x \in S : f[x] \in 0 .. W
  PROVE  /\ IsFiniteSet(Units(S, f, W))
         /\ Cardinality(Units(S, f, W)) \in Nat /\ Cardinality(Units(S \ {t}, f, W)) \in Nat
         /\ Cardinality(Units(S, f, W)) =
                Cardinality(Units(S \ {t}, f, W)) + (IF t \in S THEN f[t] ELSE 0)
  <1>1. IsFiniteSet(S \X (1 .. W))
    <2>1. IsFiniteSet(1 .. W)
      BY FS_Interval
    <2>2. QED
      BY <2>1, FS_Product
  <1>2. IsFiniteSet(Units(S, f, W)) /\ IsFiniteSet(Units(S \ {t}, f, W))
    <2>1. /\ Units(S, f, W) \subseteq S \X (1 .. W)
          /\ Units(S \ {t}, f, W) \subseteq S \X (1 .. W)
      BY DEF Units
    <2>2. QED
      BY <1>1, <2>1, FS_Subset
  <1>3. Cardinality(Units(S, f, W)) \in Nat /\ Cardinality(Units(S \ {t}, f, W)) \in Nat
    BY <1>2, FS_CardinalityType
  <1>4. CASE t \in S
    <2>1. f[t] \in 0 .. W /\ f[t] \in Nat
      BY <1>4
    <2>2. /\ Units(S, f, W) = Units(S \ {t}, f, W) \cup ({t} \X (1 .. f[t]))
          /\ Units(S \ {t}, f, W) \cap ({t} \X (1 .. f[t])) = {}
      BY <1>4, <2>1 DEF Units
    <2>3. IsFiniteSet({t} \X (1 .. f[t])) /\ Cardinality({t} \X (1 .. f[t])) = f[t]
      BY <2>1, OneRow
    <2>4. Cardinality(Units(S, f, W)) =
             Cardinality(Units(S \ {t}, f, W)) + Cardinality({t} \X (1 .. f[t]))
                - Cardinality(Units(S \ {t}, f, W) \cap ({t} \X (1 .. f[t])))
      BY <1>2, <2>2, <2>3, FS_Union
    <2>5. Cardinality(Units(S \ {t}, f, W) \cap ({t} \X (1 .. f[t]))) = 0
      BY <2>2, FS_EmptySet
    <2>6. Cardinality(Units(S, f, W)) = Cardinality(Units(S \ {t}, f, W)) + f[t]
      BY <1>3, <2>1, <2>3, <2>4, <2>5
    <2>7. QED
      BY <1>2, <1>3, <1>4, <2>6
  <1>5. CASE t \notin S
    <2>1. S \ {t} = S
      BY <1>5
    <2>2. QED
      BY <1>2, <1>3, <1>5, <2>1
  <1>6. QED
    BY <1>4, <1>5

\* The sums over two sets and of two functions that agree except about t.
LEMMA OneTerm ==
  ASSUME NEW S, NEW T, IsFiniteSet(S), NEW t, S \ {t} = T \ {t}, NEW W \in Nat,
         NEW f, NEW g, \A x \in S : f[x] \in 0 .. W, \A x \in T : g[x] \in 0 .. W,
         \A x \in S \ {t} : f[x] = g[x]
  PROVE  /\ Cardinality(Units(S, f, W)) \in Nat /\ Cardinality(Units(T, g, W)) \in Nat
         /\ Cardinality(Units(T, g, W)) =
                Cardinality(Units(S, f, W)) + (IF t \in T THEN g[t] ELSE 0)
                    - (IF t \in S THEN f[t] ELSE 0)
  <1>1. IsFiniteSet(T)
    BY OneMember
  <1>2. Units(S \ {t}, f, W) = Units(T \ {t}, g, W)
    BY DEF Units
  <1>3. /\ Cardinality(Units(S, f, W)) \in Nat /\ Cardinality(Units(S \ {t}, f, W)) \in Nat
        /\ Cardinality(Units(S, f, W)) =
                Cardinality(Units(S \ {t}, f, W)) + (IF t \in S THEN f[t] ELSE 0)
    BY OneSummand
  <1>4. /\ Cardinality(Units(T, g, W)) \in Nat
        /\ Cardinality(Units(T, g, W)) =
                Cardinality(Units(T \ {t}, g, W)) + (IF t \in T THEN g[t] ELSE 0)
    BY <1>1, OneSummand
  <1>5. (t \in S => f[t] \in Int) /\ (t \in T => g[t] \in Int)
    OBVIOUS
  <1>6. QED
    BY <1>2, <1>3, <1>4, <1>5

=============================================================================
