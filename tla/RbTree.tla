------------------------------- MODULE RbTree ------------------------------
(***************************************************************************)
(* include/ciel/core/rb_tree.hpp.  As in AvlTree, a call is one step for   *)
(* its search and its links, and one for each turn of the loop that        *)
(* restores the colours; `remove` says of the free function and of the     *)
(* member.  The fields of a node outside the tree are not read, and null   *)
(* here.                                                                   *)
(***************************************************************************)
EXTENDS BinaryTree

VARIABLE root       \* the loops' own copy of the pointer to the root

rbVars == <<tree, start, size, pc, at, root>>

NewTree ==
    [left |-> NoLinks.left, right |-> NoLinks.right, parent |-> NoLinks.parent,
     black |-> [n \in Nodes |-> FALSE]]

RbInit ==
    /\ tree = NewTree /\ start = End /\ size = 0
    /\ pc = "idle" /\ at = Null /\ root = Null

Black(t, n) == n = Null \/ t.black[n]

Paint(t, n, black) == [t EXCEPT !.black[n] = black]

Sibling(t, n) == t[Opposite[SideOf(t, n)]][t.parent[n]]

----------------------------------------------------------------------------
\* Searches.

Place(p, side, n) == [parent |-> p, side |-> side, child |-> n]

\* The link to the node with the value, or the one where it is missing.
FindEqual(t, v) ==
    LET below(n) == IF v < Value[n] THEN "left" ELSE "right"
        go[n \in Nodes] ==
            IF v = Value[n] THEN Place(n, "none", n)
            ELSE IF t[below(n)][n] # Null THEN go[t[below(n)][n]]
            ELSE Place(n, below(n), Null)
    IN  IF t.left[End] = Null THEN Place(End, "left", Null) ELSE go[t.left[End]]

----------------------------------------------------------------------------
\* Insertion.

\* The condition of balance_after_insert's loop.
RedParent(t, n, top) == n # top /\ ~t.black[t.parent[n]]

GoOnInserting(t, n, top) ==
    /\ tree' = t /\ root' = top
    /\ Goto("insert", IF RedParent(t, n, top) THEN n ELSE Null)

\* Nothing happens if the value is there.
Insert(n) ==
    /\ pc = "idle" /\ n \notin InTree
    /\ LET place  == FindEqual(tree, Value[n])
           linked == Hang(tree, place.parent, place.side, n)
       IN  /\ place.child = Null
           /\ start' = IF linked.left[start] # Null THEN linked.left[start] ELSE start
           /\ GoOnInserting(Paint(linked, n, n = linked.left[End]), n, linked.left[End])
    /\ UNCHANGED size

\* Grandparent red, parent and uncle black.
Recolour(t, parent, grand, uncle) ==
    Paint(Paint(Paint(t, parent, TRUE), grand, grand = root), uncle, TRUE)

\* The red node is brought outside, and its parent above its grandparent.
RotateUp(t, n, side, grand) ==
    LET parent == t.parent[n]
        out == IF SideOf(t, n) = side THEN t ELSE Rotate(t, Opposite[side], parent)
        top == out[side][grand]
    IN  Rotate(Paint(Paint(out, top, TRUE), grand, FALSE), side, grand)

InsertUp ==
    /\ pc = "insert" /\ at # Null
    /\ LET parent == tree.parent[at]
           grand  == tree.parent[parent]
           side   == SideOf(tree, parent)
           uncle  == tree[Opposite[side]][grand]
       IN  IF ~Black(tree, uncle)
           THEN GoOnInserting(Recolour(tree, parent, grand, uncle), grand, root)
           ELSE /\ tree' = RotateUp(tree, at, side, grand)
                /\ Goto("insert", Null)
                /\ UNCHANGED root
    /\ UNCHANGED <<start, size>>

InsertReturns ==
    /\ pc = "insert" /\ at = Null
    /\ size' = size + 1 /\ root' = Null
    /\ Goto("idle", Null)
    /\ UNCHANGED <<tree, start>>

----------------------------------------------------------------------------
\* Removal.

\* y, the node after z, takes its place and its colour.
Succeed(t, y, z) ==
    LET left == Hang(Replace(t, z, y), y, "left", t.left[z])
    IN  Paint(Hang(left, y, "right", t.right[z]), y, t.black[z])

Forget(t, n) ==
    [t EXCEPT !.left[n] = Null, !.right[n] = Null, !.parent[n] = Null, !.black[n] = FALSE]

\* y is the node that leaves its place, p its only child, w its sibling.  `loop`
\* is where the loop that makes up for a black y begins, if it is needed.
Remove(z) ==
    /\ pc = "idle" /\ z \in InTree
    /\ start' = IF start = z THEN Step(tree, "right", z) ELSE start
    /\ LET y == IF tree.left[z] = Null \/ tree.right[z] = Null THEN z
                ELSE Step(tree, "right", z)
           p == IF tree.left[y] # Null THEN tree.left[y] ELSE tree.right[y]
           w == IF tree.parent[y] = End THEN Null ELSE Sibling(tree, y)
           unlinked == Replace(tree, y, p)
           t    == Forget(IF y = z THEN unlinked ELSE Succeed(unlinked, y, z), z)
           top  == IF tree.left[End] # z THEN tree.left[End] ELSE IF y = z THEN p ELSE y
           done == ~tree.black[y] \/ top = Null
       IN  /\ tree' = IF ~done /\ p # Null THEN Paint(t, p, TRUE) ELSE t
           /\ Goto("remove", IF done \/ p # Null THEN Null ELSE w)
           /\ root' = top
    /\ UNCHANGED size

\* Faulty variant: the new parent of the two keeps its colour.
RedSibling_Colour(t, w, side) == Rotate(Paint(t, w, TRUE), side, t.parent[w])

\* A red sibling goes up, and one of its children, which is black, is the new one.
RedSibling(t, w, side) ==
    Rotate(Paint(Paint(t, w, TRUE), t.parent[w], FALSE), side, t.parent[w])

\* A red inner child goes up to be the new sibling.
InnerRed(t, w, side) ==
    Rotate(Paint(Paint(t, t[Opposite[side]][w], TRUE), w, FALSE), Opposite[side], w)

\* The sibling, whose outer child is red, goes up with its parent's colour.
OuterRed(t, w, side) ==
    LET p == t.parent[w]
        t1 == Paint(Paint(Paint(t, w, t.black[p]), p, TRUE), t[side][w], TRUE)
    IN  Rotate(t1, side, p)

RemoveUp ==
    /\ pc = "remove" /\ at # Null
    /\ LET side  == SideOf(tree, at)
           inner == tree[Opposite[side]][at]
           red   == ~tree.black[at]
           t     == IF red THEN RedSibling(tree, at, side) ELSE tree
           w     == IF red THEN inner ELSE at
           p     == t.parent[w]
           rooted == IF red /\ root = tree.parent[at] THEN at ELSE root
       IN  /\ root' = rooted
           /\ IF Black(t, t.left[w]) /\ Black(t, t.right[w])
              THEN LET faded == Paint(t, w, FALSE)
                   IN  IF p = rooted \/ ~t.black[p]
                       THEN tree' = Paint(faded, p, TRUE) /\ Goto("remove", Null)
                       ELSE tree' = faded /\ Goto("remove", Sibling(t, p))
              ELSE /\ tree' = IF Black(t, t[side][w])
                              THEN OuterRed(InnerRed(t, w, side), t[Opposite[side]][w], side)
                              ELSE OuterRed(t, w, side)
                   /\ Goto("remove", Null)
    /\ UNCHANGED <<start, size>>

RemoveReturns ==
    /\ pc = "remove" /\ at = Null
    /\ size' = size - 1 /\ root' = Null
    /\ Goto("idle", Null)
    /\ UNCHANGED <<tree, start>>

\* extract_min, of a tree that is not empty.
ExtractMin == start # End /\ Remove(start)

----------------------------------------------------------------------------
Loops == InsertUp \/ InsertReturns \/ RemoveUp \/ RemoveReturns

RbNext == Loops \/ ExtractMin \/ \E n \in Nodes : Insert(n) \/ Remove(n)

RbSpec == RbInit /\ [][RbNext]_rbVars
----------------------------------------------------------------------------
RbTypeOK ==
    /\ TypeOK
    /\ tree.black \in [Nodes -> BOOLEAN]
    /\ root \in Refs

\* Between calls the root is black, a red node has black children, and every
\* way down passes as many black nodes.
RedBlack ==
    LET blacks[n \in Refs] ==       \* of each way down from n
            IF n = Null THEN {0}
            ELSE {k + (IF tree.black[n] THEN 1 ELSE 0)
                    : k \in blacks[tree.left[n]] \cup blacks[tree.right[n]]}
    IN  pc = "idle" =>
            /\ Black(tree, tree.left[End])
            /\ Cardinality(blacks[tree.left[End]]) = 1
            /\ \A n \in InTree : Black(tree, n) \/ /\ Black(tree, tree.left[n])
                                                   /\ Black(tree, tree.right[n])

\* The loops' copy of the root is the root, except after the last turn.
RootIsCurrent == pc # "idle" /\ at # Null => root = tree.left[End]

\* find, also while the colours are not restored.
FindsAgree ==
    \A v \in {Value[n] : n \in Nodes} :
        FindEqual(tree, v).child =
            IF \E n \in InTree : Value[n] = v THEN CHOOSE n \in InTree : Value[n] = v ELSE Null
============================================================================
