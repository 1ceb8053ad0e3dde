--------------------------- MODULE SortedSequence --------------------------
(***************************************************************************)
(* What the trees promise: the nodes put in, in the order of their values, *)
(* one that equals others behind them.                                     *)
(***************************************************************************)
EXTENDS Integers, Sequences, SequencesExt

CONSTANTS Nodes, Value

VARIABLE items

Init == items = <<>>

\* insert_node_multi; and insert, insert_node_unique of a value that is new.
Insert(n) ==
    LET before == SelectSeq(items, LAMBDA m : Value[m] <= Value[n])
    IN  /\ n \notin ToSet(items)
        /\ items' = InsertAt(items, Len(before) + 1, n)

\* pop_node, remove, extract_min.
Take(n) ==
    /\ n \in ToSet(items)
    /\ items' = SelectSeq(items, LAMBDA m : m # n)

Next == \E n \in Nodes : Insert(n) \/ Take(n)

Spec == Init /\ [][Next]_items
============================================================================
