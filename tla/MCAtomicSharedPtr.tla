------------------------- MODULE MCAtomicSharedPtr -------------------------
(***************************************************************************)
(* One of the two implementations of an atomic shared pointer, two threads *)
(* and three blocks: one in the atomic, and one new block of each thread,  *)
(* so that addresses are freed and used again while the other thread       *)
(* compares with them.  The implementation that is not used stands still.  *)
(***************************************************************************)
EXTENDS AtomicSharedPtr

CONSTANT Wrap

VARIABLES kind,
          packed, remote, desired2, expected2, cur, dead2, pc2, left, astray

split == <<packed, remote, desired2, expected2, cur, dead2, pc2, left, astray>>

Split == INSTANCE SplitRefCount WITH
    desired <- desired2, expected <- expected2, dead <- dead2, pc <- pc2

\* The instance meets what the theorems about SplitRefCount assume.
ASSUME SplitAssumption == Split!SplitAssumption

MCInit == kind \in {"spinlock", "split"} /\ Init /\ Split!Init

SpinStep == kind = "spinlock" /\ Next /\ UNCHANGED <<kind, split>>

SplitStep == kind = "split" /\ Split!SplitNext /\ UNCHANGED <<kind, vars>>

Stop == kind = "split" /\ Split!Undefined /\ UNCHANGED <<kind, vars, split>>

MCSpec ==
    /\ MCInit /\ [][SpinStep \/ SplitStep \/ Stop]_<<kind, vars, split>>
    /\ Fairness

\* The split counts make up for the references (experimental/atomic_shared_ptr.hpp).
SplitCountsAgree == Split!SplitCountsAgree /\ Split!TypeOK

\* What goes wrong with them takes a replacement at the wrong time (lines 90-113, 139).
FaultsNeedReplacement == Split!FaultsNeedReplacement

\* No block is freed while it is referred to (line 66).
StoreIsSafe == Split!StoreIsSafe

\* They make the operations atomic until then.
SplitImplementsRegister == Split!ImplementsRegister
============================================================================
