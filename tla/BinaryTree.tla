----------------------------- MODULE BinaryTree ----------------------------
(***************************************************************************)
(* What core/avl_tree.hpp and core/rb_tree.hpp have in common: nodes with  *)
(* links to two children and a parent, an end node whose left child is the *)
(* root, the pointer to the first node, and the walks along the links.     *)
(* Where both files have a function, the one of avl_tree.hpp is named.     *)
(*                                                                         *)
(* The code is written twice, for left and for right; here a side is a     *)
(* parameter.  A tree is a record, so that a step can rotate twice; its    *)
(* other field, height or black, is of the module that EXTENDS this one.   *)
(***************************************************************************)
EXTENDS Integers, Sequences, FiniteSets

CONSTANTS Nodes,
          Value,        \* Value[n]: the value of a node
          End,          \* end_node_
          Null

ASSUME BinaryTreeAssumption ==
    /\ IsFiniteSet(Nodes) /\ Value \in [Nodes -> Int]
    /\ End \notin Nodes /\ Null \notin Nodes /\ End # Null

Bases == Nodes \cup {End}
Refs == Nodes \cup {Null}

VARIABLES
    tree,           \* the links: left, right, parent, and height or black
    start, size,    \* start_ (begin_ in rb_tree), size_()
    pc,             \* "idle", or the rebalancing loop of "insert" or "remove"
    at              \* the node that loop is at

Opposite == [left |-> "right", right |-> "left"]
Sides == DOMAIN Opposite

NoLinks == [left |-> [b \in Bases |-> Null], right |-> [n \in Nodes |-> Null],
            parent |-> [n \in Nodes |-> Null]]

Goto(loop, n) == pc' = loop /\ at' = n

----------------------------------------------------------------------------
\* Walks.

\* is_left_child
SideOf(t, n) == IF t.left[t.parent[n]] = n THEN "left" ELSE "right"

\* goto_tree_min and goto_tree_max
Farthest(t, side, n) ==
    LET go[m \in Bases] == IF t[side][m] = Null THEN m ELSE go[t[side][m]]
    IN  go[n]

\* operator++ (to the right) and operator-- (to the left)
Step(t, side, b) ==
    LET climb[n \in Nodes] ==
            IF SideOf(t, n) = side THEN climb[t.parent[n]] ELSE t.parent[n]
    IN  IF t[side][b] # Null THEN Farthest(t, Opposite[side], t[side][b]) ELSE climb[b]

Depth(t, n) ==
    LET levels[m \in Bases] == IF m = End THEN 0 ELSE 1 + levels[t.parent[m]]
    IN  levels[n]

\* The nodes from start_ to end(), cut off if ++ never gets there.
Elements ==
    LET walk[b \in Bases, k \in 0 .. Cardinality(Nodes)] ==
            IF b = End \/ k = 0 THEN <<>>
            ELSE <<b>> \o walk[Step(tree, "right", b), k - 1]
    IN  walk[start, Cardinality(Nodes)]

----------------------------------------------------------------------------
\* Links.

\* n takes the place of its sibling-to-be: the child of p on that side.
Hang(t, p, side, n) ==
    [t EXCEPT ![side][p] = n,
              !.parent = IF n = Null THEN @ ELSE [@ EXCEPT ![n] = p]]

\* m, which may be null, takes the place of n.
Replace(t, n, m) == Hang(t, t.parent[n], SideOf(t, n), m)

\* Faulty variant: the inner subtree keeps its parent.
Rotate_Orphan(t, side, head) ==
    LET new == t[side][head]
        up  == Replace(t, head, new)
    IN  Hang([up EXCEPT ![side][head] = t[Opposite[side]][new]], new, Opposite[side], head)

\* right_rotate lifts the left child of head above it, left_rotate the right one.
Rotate(t, side, head) ==
    LET new == t[side][head]
        up  == Replace(t, head, new)
    IN  Hang(Hang(up, head, side, t[Opposite[side]][new]), new, Opposite[side], head)

----------------------------------------------------------------------------
InTree == {n \in Nodes : n \in {tree.left[b] : b \in Bases} \cup {tree.right[m] : m \in Nodes}}

\* Parent links and child links are each other's inverse, no node has two
\* parents, and the first node and the size are what a walk finds.
LinksAgree ==
    /\ \A n \in InTree :
          LET p == tree.parent[n]
          IN  /\ tree.left[p] = n \/ (p # End /\ tree.right[p] = n)
              /\ Cardinality({b \in Bases : tree.left[b] = n})
                 + Cardinality({m \in Nodes : tree.right[m] = n}) = 1
    /\ start = Farthest(tree, "left", End)
    /\ {Elements[i] : i \in DOMAIN Elements} = InTree
    /\ pc = "idle" => size = Cardinality(InTree)

TypeOK ==
    /\ tree.left \in [Bases -> Refs] /\ tree.right \in [Nodes -> Refs]
    /\ tree.parent \in [Nodes -> Bases \cup {Null}]
    /\ start \in Bases /\ size \in 0 .. Cardinality(Nodes)
    /\ pc \in {"idle", "insert", "remove"} /\ at \in Refs

\* What operator-- passes from end() on is what operator++ passes, backwards.
WalksAgree ==
    LET e == Elements
        n == Len(e)
    IN  \A i \in 1 .. n : e[i] = Step(tree, "left", IF i = n THEN End ELSE e[i + 1])

\* What the tree promises: a sequence in the order of the values.
Promise == INSTANCE SortedSequence WITH items <- Elements

ImplementsSorted == Promise!Spec

\* A turn of a rebalancing loop is nearer to the root than the one before it, so
\* that the loops end; and a call that has returned begins with the next.
LoopsRise ==
    [][pc # "idle" /\ at' # Null =>
           pc' = pc /\ Depth(tree', at') < Depth(tree, at)]_<<tree, pc, at>>
============================================================================
