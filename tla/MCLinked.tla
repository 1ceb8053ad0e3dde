------------------------------ MODULE MCLinked -----------------------------
(***************************************************************************)
(* What is linked by nodes.  One tree of either kind and any sequence of   *)
(* calls on it: eight values, one of them in three nodes, of which the     *)
(* red-black tree takes one.  Or two lists over three nodes.               *)
(***************************************************************************)
EXTENDS BinaryTree

CONSTANTS Names,        \* of the lists
          Letters,      \* their values
          MaxNode, MaxInsert, Raw

VARIABLES kind, new, misled, wild, root,
          heap, listThrew, listWild

A == INSTANCE AvlTree
R == INSTANCE RbTree
L == INSTANCE List WITH Lists <- Names, Values <- Letters,
                        threw <- listThrew, wild <- listWild

avl == <<new, misled, wild>>
lists == <<heap, listThrew, listWild>>
trees == <<tree, start, size, pc, at, avl, root>>
vars == <<kind, trees, lists>>

MCNodes == 1 .. 10
MCValue == [n \in MCNodes |-> IF n > 8 THEN 4 ELSE n]

\* bound: the nodes in an AVL tree
MaxAvlSize == 7

MCInit ==
    /\ \/ kind = "avl" /\ A!AvlInit /\ root = Null
       \/ kind = "rb" /\ R!RbInit /\ new = Null /\ misled = FALSE /\ wild = FALSE
       \/ kind = "list" /\ A!AvlInit /\ root = Null
    /\ L!Init

AvlStep ==
    kind = "avl" /\ A!AvlNext /\ size' <= MaxAvlSize /\ UNCHANGED <<kind, root, lists>>

RbStep == kind = "rb" /\ R!RbNext /\ UNCHANGED <<kind, avl, lists>>

ListStep == kind = "list" /\ L!Next /\ UNCHANGED <<kind, trees>>

Undefined == (wild \/ listWild) /\ UNCHANGED vars

MCSpec == MCInit /\ [][AvlStep \/ RbStep \/ ListStep \/ Undefined]_vars

\* The links agree, forwards and backwards, and the types of both trees and of the
\* lists are right.  Every node of a list is in one of them, as an element or as a
\* free node, and none is leaked or freed twice (list.hpp).
Linked ==
    /\ LinksAgree /\ IF kind = "rb" THEN R!RbTypeOK ELSE A!AvlTypeOK
    /\ L!TypeOK /\ L!NodesAccounted

\* Between calls the tree is balanced the way its kind is: no two siblings' heights
\* differ by more than one (avl_tree.hpp), or no red node has a red child and every
\* way down passes as many black ones (rb_tree.hpp).
Balanced == IF kind = "rb" THEN R!RedBlack /\ R!RootIsCurrent ELSE A!Balanced

\* What avl_tree.hpp:344-345 has insert_node_multi for, nodes that all contain the same
\* value: whatever rotation follows a link that is null, two values in the tree differ.
EqualValuesWork == A!EqualValuesWork

\* Searches and walks either way find what operator++ passes.
SearchesAgree == WalksAgree /\ IF kind = "rb" THEN R!FindsAgree ELSE A!SearchesAgree

\* The lists are rings as long as no empty one is moved from or swapped
\* (list.hpp:545-560, 637-650).
RingsIntactUnlessWild == L!RingsIntactUnlessWild

\* Every list is a ring, whatever has been done to it (list.hpp).
RingsIntact == L!RingsIntact

\* The lists are sequences of values (list.hpp).
ImplementsSequences == L!ImplementsSequences
============================================================================
