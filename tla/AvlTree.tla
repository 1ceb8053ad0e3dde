------------------------------ MODULE AvlTree ------------------------------
(***************************************************************************)
(* include/ciel/core/avl_tree.hpp.  A call is one step for its search and  *)
(* its links, and one for each turn of the loop that goes up and restores  *)
(* the heights and the balance.                                            *)
(*                                                                         *)
(* A node is constructed before it is inserted: insert_node_before does    *)
(* not reset the fields of one that was in a tree before.  The fields of a *)
(* node outside the tree are not read, and those of a new node here.       *)
(***************************************************************************)
EXTENDS BinaryTree

VARIABLES
    new,        \* new_node of the insertion under way
    misled,     \* history: a value equal to the new node's took the insertion
                \* for one on the other side
    wild        \* a null pointer was rotated; the behaviour is undefined

avlVars == <<tree, start, size, pc, at, new, misled, wild>>

NewTree ==
    [left |-> NoLinks.left, right |-> NoLinks.right, parent |-> NoLinks.parent,
     height |-> [n \in Nodes |-> 1]]

AvlInit ==
    /\ tree = NewTree /\ start = End /\ size = 0
    /\ pc = "idle" /\ at = Null /\ new = Null
    /\ misled = FALSE /\ wild = FALSE

----------------------------------------------------------------------------
\* Heights and rotations.

Height(t, n) == IF n = Null THEN 0 ELSE t.height[n]

AdjustHeight(t, n) ==
    LET l == Height(t, t.left[n])
        r == Height(t, t.right[n])
    IN  [t EXCEPT !.height[n] = 1 + IF l > r THEN l ELSE r]

\* right_rotate (of the left child) and left_rotate
AvlRotate(t, side, head) ==
    AdjustHeight(AdjustHeight(Rotate(t, side, head), head), t[side][head])

\* The side on which n is higher than on the other by more than one, if any.
Heavy(t, n) == {s \in Sides : Height(t, t[s][n]) - Height(t, t[Opposite[s]][n]) > 1}

\* The child is rotated first if it leans the other way.
Rebalance(t, n, side, leansOut) ==
    AvlRotate(IF leansOut THEN t ELSE AvlRotate(t, Opposite[side], t[side][n]), side, n)

----------------------------------------------------------------------------
\* Searches.

\* The last node at which the search turned left.
Bound(t, TurnsLeft(_)) ==
    LET go[n \in Refs, res \in Bases] ==
            IF n = Null THEN res
            ELSE IF TurnsLeft(n) THEN go[t.left[n], n]
            ELSE go[t.right[n], res]
    IN  go[t.left[End], End]

\* Faulty variant: turns right at an equal value.
LowerBound_Upper(t, v) == Bound(t, LAMBDA n : v < Value[n])

LowerBound(t, v) == Bound(t, LAMBDA n : ~(Value[n] < v))

UpperBound(t, v) == Bound(t, LAMBDA n : v < Value[n])

Find(t, v) ==
    LET lb == LowerBound(t, v)
    IN  IF lb # End /\ ~(v < Value[lb]) THEN lb ELSE End

----------------------------------------------------------------------------
\* Insertion.

\* The links of insert_node_before(pos, n), and start_.
LinkBefore(pos, n) ==
    LET hint == tree.left[pos]
        last == Farthest(tree, "right", hint)
    IN  IF hint # Null
        THEN /\ tree' = Hang(tree, last, "right", n)
             /\ UNCHANGED start
        ELSE /\ tree' = Hang(tree, pos, "left", n)
             /\ start' = IF pos = start THEN n ELSE start

InsertBefore(pos, n) ==
    /\ LinkBefore(pos, n)
    /\ size' = size + 1
    /\ IF tree'.parent[n] = End THEN Goto("idle", Null) /\ new' = Null
       ELSE Goto("insert", tree'.parent[n]) /\ new' = n
    /\ UNCHANGED <<misled, wild>>

InsertMulti(n) ==
    /\ pc = "idle" /\ n \notin InTree /\ ~wild
    /\ InsertBefore(UpperBound(tree, Value[n]), n)

\* Nothing happens if the value is there.
InsertUnique(n) ==
    /\ pc = "idle" /\ n \notin InTree /\ ~wild
    /\ LET lb == LowerBound(tree, Value[n])
       IN  /\ ~(lb # End /\ ~(Value[n] < Value[lb]))
           /\ InsertBefore(lb, n)

\* Whether the new node is outside its grandparent's child, asked of the values.
LeansOut(side, child) ==
    IF side = "left" THEN Value[new] < Value[child] ELSE Value[child] < Value[new]

\* On which side of the child it really is.
IsOutside(side, child) ==
    LET above[n \in Nodes] == IF tree.parent[n] = child THEN n ELSE above[tree.parent[n]]
    IN  SideOf(tree, above[new]) = side

\* The node the loop goes up to from n, if any.
Above(t, n) == IF t.parent[n] = End THEN Null ELSE t.parent[n]

GoOnInserting(t, n) ==
    /\ Goto(IF n = Null THEN "idle" ELSE "insert", n)
    /\ new' = IF n = Null THEN Null ELSE new
    /\ tree' = t

\* A turn of the loop that has to rotate.
InsertFix(t) ==
    \E side \in Heavy(t, at) :
        LET child == t[side][at]
            out   == LeansOut(side, child)
            fixed == Rebalance(t, at, side, out)
        IN  /\ misled' = (misled \/ out # IsOutside(side, child))
            /\ IF ~out /\ t[Opposite[side]][child] = Null
               THEN wild' = TRUE /\ UNCHANGED <<tree, pc, at, new>>
               ELSE /\ UNCHANGED wild
                    /\ GoOnInserting(fixed, Above(fixed, fixed.parent[at]))

InsertUp ==
    /\ pc = "insert" /\ ~wild
    /\ LET t == AdjustHeight(tree, at)
       IN  \/ /\ Heavy(t, at) = {}
              /\ GoOnInserting(t, Above(t, at))
              /\ UNCHANGED <<misled, wild>>
           \/ InsertFix(t)
    /\ UNCHANGED <<start, size>>

----------------------------------------------------------------------------
\* Removal.

\* Faulty variant: what is below prev is lost.
ReplaceByPrev_Drops(t, n) ==
    LET prev == Farthest(t, "right", t.left[n])
        own  == SideOf(t, prev) = "left"
        out  == IF own THEN t ELSE Hang(Replace(t, prev, Null), prev, "left", t.left[n])
    IN  [links  |-> Replace(Hang(out, prev, "right", t.right[n]), n, prev),
         upping |-> IF own THEN prev ELSE t.parent[prev]]

\* prev, the last node of n's left subtree, takes the place of n.  `upping` is
\* the lowest node whose height may have changed.
ReplaceByPrev(t, n) ==
    LET prev == Farthest(t, "right", t.left[n])
        own  == SideOf(t, prev) = "left"
        out  == IF own THEN t ELSE Hang(Replace(t, prev, t.left[prev]), prev, "left", t.left[n])
    IN  [links  |-> Replace(Hang(out, prev, "right", t.right[n]), n, prev),
         upping |-> IF own THEN prev ELSE t.parent[prev]]

Unlink(t, n) ==
    IF t.left[n] # Null /\ t.right[n] # Null THEN ReplaceByPrev(t, n)
    ELSE [links  |-> Replace(t, n, IF t.left[n] # Null THEN t.left[n] ELSE t.right[n]),
          upping |-> t.parent[n]]

\* The fields of n as they are when it is constructed again.
Reconstruct(t, n) ==
    [t EXCEPT !.left[n] = Null, !.right[n] = Null, !.parent[n] = Null, !.height[n] = 1]

PopNode(n) ==
    /\ pc = "idle" /\ n \in InTree /\ ~wild
    /\ start' = IF n = start THEN Step(tree, "right", n) ELSE start
    /\ LET u == Unlink(tree, n)
       IN  /\ tree' = Reconstruct(u.links, n)
           /\ Goto("remove", IF u.upping = End THEN Null ELSE u.upping)
    /\ UNCHANGED <<size, new, misled, wild>>

\* Faulty variant: rotates once whatever the shape.
PopFix_Single(t) ==
    \E side \in Heavy(t, at) :
        LET fixed == Rebalance(t, at, side, TRUE)
        IN  tree' = fixed /\ Goto("remove", Above(fixed, fixed.parent[at]))

\* Faulty variant: goes on at the node that was lifted.
PopFix_Stays(t) ==
    \E side \in Heavy(t, at) :
        LET child == t[side][at]
            out   == Height(t, t[side][child]) >= Height(t, t[Opposite[side]][child])
            fixed == Rebalance(t, at, side, out)
        IN  tree' = fixed /\ Goto("remove", fixed.parent[at])

\* A turn of the loop that has to rotate.
PopFix(t) ==
    \E side \in Heavy(t, at) :
        LET child == t[side][at]
            out   == Height(t, t[side][child]) >= Height(t, t[Opposite[side]][child])
            fixed == Rebalance(t, at, side, out)
        IN  tree' = fixed /\ Goto("remove", Above(fixed, fixed.parent[at]))

PopUp ==
    /\ pc = "remove" /\ at # Null
    /\ LET t == AdjustHeight(tree, at)
       IN  \/ Heavy(t, at) = {} /\ tree' = t /\ Goto("remove", Above(t, at))
           \/ PopFix(t)
    /\ UNCHANGED <<start, size, new, misled, wild>>

PopReturns ==
    /\ pc = "remove" /\ at = Null
    /\ size' = size - 1
    /\ Goto("idle", Null)
    /\ UNCHANGED <<tree, start, new, misled, wild>>

----------------------------------------------------------------------------
Loops == InsertUp \/ PopUp \/ PopReturns

AvlNext == Loops \/ \E n \in Nodes : InsertMulti(n) \/ InsertUnique(n) \/ PopNode(n)

AvlSpec == AvlInit /\ [][AvlNext]_avlVars
----------------------------------------------------------------------------
AvlTypeOK ==
    /\ TypeOK
    /\ tree.height \in [Nodes -> Nat]
    /\ new \in Refs /\ misled \in BOOLEAN /\ wild \in BOOLEAN

\* Between calls the heights are right and those of two siblings differ by one
\* at most, as long as no equal value led an insertion astray.
Balanced ==
    pc = "idle" /\ ~misled =>
        \A n \in InTree : AdjustHeight(tree, n) = tree /\ Heavy(tree, n) = {}

\* The bounds are the first elements not less and greater, also while the tree
\* is out of balance.
SearchesAgree ==
    LET e == Elements
        First(Test(_)) == IF \E i \in DOMAIN e : Test(e[i])
                          THEN e[CHOOSE i \in DOMAIN e :
                                     Test(e[i]) /\ \A j \in 1 .. i - 1 : ~Test(e[j])]
                          ELSE End
    IN  \A v \in {Value[n] : n \in Nodes} :
            LET lb == First(LAMBDA n : Value[n] >= v)
            IN  /\ LowerBound(tree, v) = lb
                /\ UpperBound(tree, v) = First(LAMBDA n : Value[n] > v)
                /\ Find(tree, v) = IF lb # End /\ Value[lb] = v THEN lb ELSE End

\* avl_tree.hpp:344-345: insert_node_multi works when "all nodes contain the same
\* value": whatever rotation follows a null pointer, two values in the tree differ.
EqualValuesWork == wild => \E m, n \in InTree : Value[m] # Value[n]
============================================================================
