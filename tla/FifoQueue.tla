----------------------------- MODULE FifoQueue -----------------------------
(***************************************************************************)
(* What mpsc_queue promises: the nodes come out once each, in the order    *)
(* they were put in, a batch in one piece.  The newest node is kept back   *)
(* until another follows it or the queue is closed.                        *)
(***************************************************************************)
EXTENDS Sequences, Naturals

CONSTANT Batches        \* the sequences of nodes that may be put in

VARIABLES items,        \* the nodes put in and not yet taken out, oldest first
          closed

Init == items = <<>> /\ closed = FALSE

Put(batch) ==
    /\ ~closed
    /\ items' = items \o batch
    /\ UNCHANGED closed

Take ==
    /\ Len(items) > IF closed THEN 0 ELSE 1
    /\ items' = Tail(items)
    /\ UNCHANGED closed

Close ==
    /\ closed' = TRUE
    /\ UNCHANGED items

Next == Take \/ Close \/ \E batch \in Batches : Put(batch)

Safety == Init /\ [][Next]_<<items, closed>>

\* Whatever is not kept back comes out.
Spec == Safety /\ WF_<<items, closed>>(Take)
============================================================================
