----------------------------- MODULE LifoStack -----------------------------
(***************************************************************************)
(* What treiber_stack promises: what was put in last comes out first, a    *)
(* batch goes in in one piece, and all there is may be taken at once.      *)
(***************************************************************************)
EXTENDS Sequences

CONSTANT Batches        \* the sequences of nodes that may be put in

VARIABLE items          \* the top first

Init == items = <<>>

Put(batch) == items' = batch \o items

Take == items # <<>> /\ items' = Tail(items)

TakeAll == items # <<>> /\ items' = <<>>

Next == Take \/ TakeAll \/ \E batch \in Batches : Put(batch)

Spec == Init /\ [][Next]_items
============================================================================
