------------------------ MODULE CombiningLock_proofs ------------------------
(***************************************************************************)
(* Theorems about CombiningLock for any set of threads.  The mutual        *)
(* exclusion of the functors needs the shape of the queue: the head hands  *)
(* the lock to the thread it finds in next, which must be waiting, and to  *)
(* no other.  LockIInv holds that shape together, and each step lemma      *)
(* below has one step per part of it.                                      *)
(***************************************************************************)
EXTENDS CombiningLock, TLAPS

\* with() is called.
LEMMA CallStep ==
  ASSUME LockIInv, NEW t \in Threads, Call(t)
  PROVE  LockIInv'
  <1> USE DEF Call, LockGoto, SetCall, lock, node, At, Combining, LockStates
  <1>1. LockTypeOK'
    BY DEF LockIInv, LockTypeOK
  <1>2. MutualExclusion'
    BY DEF LockIInv, MutualExclusion, Holds
  <1>3. LastIsEnd'
    BY DEF LockIInv, LastIsEnd, InQueue, Attached, Leaving
  <1>4. LinkFollowsPrev'
    BY DEF LockIInv, LinkFollowsPrev, InQueue, Attached, Leaving
  <1>5. NextIsWaiting'
    BY DEF LockIInv, NextIsWaiting, InQueue, Attached, Leaving, Untouched
  <1>6. CombinesAlone'
    BY DEF LockIInv, CombinesAlone
  <1>7. CallFollowsPc'
    BY DEF LockIInv, LockTypeOK, CallFollowsPc, Untouched
  <1>8. Unused'
    BY DEF LockIInv, Unused
  <1>9. QED
    BY <1>1, <1>2, <1>3, <1>4, <1>5, <1>6, <1>7, <1>8 DEF LockIInv

\* The fast path tests lock.last.
LEMMA CheckLastStep ==
  ASSUME LockIInv, NEW t \in Threads, CheckLast(t)
  PROVE  LockIInv'
  <1> USE DEF CheckLast, LockGoto, lock, node, At, Combining, LockStates
  <1>1. LockTypeOK'
    BY DEF LockIInv, LockTypeOK
  <1>2. MutualExclusion'
    BY DEF LockIInv, MutualExclusion, Holds
  <1>3. LastIsEnd'
    BY DEF LockIInv, LastIsEnd, InQueue, Attached, Leaving
  <1>4. LinkFollowsPrev'
    BY DEF LockIInv, LinkFollowsPrev, InQueue, Attached, Leaving
  <1>5. NextIsWaiting'
    BY DEF LockIInv, NextIsWaiting, InQueue, Attached, Leaving, Untouched
  <1>6. CombinesAlone'
    BY DEF LockIInv, CombinesAlone
  <1>7. CallFollowsPc'
    BY DEF LockIInv, CallFollowsPc, Untouched
  <1>8. Unused'
    BY DEF LockIInv, Unused
  <1>9. QED
    BY <1>1, <1>2, <1>3, <1>4, <1>5, <1>6, <1>7, <1>8 DEF LockIInv

\* The fast path takes the flag or finds it taken.
LEMMA TryFlagStep ==
  ASSUME LockIInv, NEW t \in Threads, TryFlag(t)
  PROVE  LockIInv'
  <1> USE DEF TryFlag, LockGoto, node, At, Combining, LockStates
  <1>1. LockTypeOK'
    BY DEF LockIInv, LockTypeOK
  <1>2. MutualExclusion'
    BY DEF LockIInv, LockTypeOK, MutualExclusion, Holds
  <1>3. LastIsEnd'
    BY DEF LockIInv, LastIsEnd, InQueue, Attached, Leaving
  <1>4. LinkFollowsPrev'
    BY DEF LockIInv, LinkFollowsPrev, InQueue, Attached, Leaving
  <1>5. NextIsWaiting'
    BY DEF LockIInv, NextIsWaiting, InQueue, Attached, Leaving, Untouched
  <1>6. CombinesAlone'
    BY DEF LockIInv, CombinesAlone
  <1>7. CallFollowsPc'
    BY DEF LockIInv, CallFollowsPc, Untouched
  <1>8. Unused'
    BY DEF LockIInv, Unused
  <1>9. QED
    BY <1>1, <1>2, <1>3, <1>4, <1>5, <1>6, <1>7, <1>8 DEF LockIInv

\* The fast path returns.
LEMMA FastUnlockStep ==
  ASSUME LockIInv, NEW t \in Threads, FastUnlock(t)
  PROVE  LockIInv'
  <1> USE DEF FastUnlock, Return, At, LockGoto, SetCall, Combining, LockStates
  <1>1. LockTypeOK'
    BY NullAssumption DEF LockIInv, LockTypeOK, MutualExclusion, LastIsEnd, LinkFollowsPrev,
        NextIsWaiting, CombinesAlone, CallFollowsPc, Unused, Holds, InQueue, Attached,
        Leaving, Untouched
  <1>2. MutualExclusion'
    BY DEF LockIInv, LockTypeOK, MutualExclusion, Holds
  <1>3. LastIsEnd'
    BY DEF LockIInv, LastIsEnd, InQueue, Attached, Leaving
  <1>4. LinkFollowsPrev'
    BY DEF LockIInv, LinkFollowsPrev, InQueue, Attached, Leaving
  <1>5. NextIsWaiting'
    BY DEF LockIInv, NextIsWaiting, InQueue, Attached, Leaving, Untouched
  <1>6. CombinesAlone'
    BY DEF LockIInv, CombinesAlone
  <1>7. CallFollowsPc'
    BY DEF LockIInv, LockTypeOK, CombinesAlone, CallFollowsPc, Untouched
  <1>8. Unused'
    BY DEF LockIInv, Unused
  <1>9. QED
    BY <1>1, <1>2, <1>3, <1>4, <1>5, <1>6, <1>7, <1>8 DEF LockIInv

\* A new node becomes the end of the queue; nothing but its own prev leads to it.
LEMMA AttachStep ==
  ASSUME LockIInv, NEW t \in Threads, Attach(t)
  PROVE  LockIInv'
  <1> USE DEF Attach, LockGoto, SetStatus, At, Combining, LockStates
  <1>1. LockTypeOK'
    BY DEF LockIInv, LockTypeOK
  <1>2. MutualExclusion'
    BY DEF LockIInv, MutualExclusion, Holds
  <1>3. LastIsEnd'
    BY DEF LockIInv, LockTypeOK, LastIsEnd, CombinesAlone, InQueue, Attached, Leaving
  <1>4. LinkFollowsPrev'
    BY DEF LockIInv, LockTypeOK, LastIsEnd, LinkFollowsPrev, CombinesAlone, InQueue, Attached,
        Leaving
  <1>5. NextIsWaiting'
    BY DEF LockIInv, LockTypeOK, NextIsWaiting, InQueue, Attached, Leaving, Untouched
  <1>6. CombinesAlone'
    BY DEF LockIInv, CombinesAlone
  <1>7. CallFollowsPc'
    BY DEF LockIInv, CallFollowsPc, Untouched
  <1>8. Unused'
    BY DEF LockIInv, LockTypeOK, Unused
  <1>9. QED
    BY <1>1, <1>2, <1>3, <1>4, <1>5, <1>6, <1>7, <1>8 DEF LockIInv

\* The head of a new queue sees the flag clear.
LEMMA SpinStep ==
  ASSUME LockIInv, NEW t \in Threads, Spin(t)
  PROVE  LockIInv'
  <1> USE DEF Spin, LockGoto, lock, node, At, Combining, LockStates
  <1>1. LockTypeOK'
    BY DEF LockIInv, LockTypeOK
  <1>2. MutualExclusion'
    BY DEF LockIInv, MutualExclusion, Holds
  <1>3. LastIsEnd'
    BY DEF LockIInv, LastIsEnd, InQueue, Attached, Leaving
  <1>4. LinkFollowsPrev'
    BY DEF LockIInv, LinkFollowsPrev, InQueue, Attached, Leaving
  <1>5. NextIsWaiting'
    BY DEF LockIInv, NextIsWaiting, InQueue, Attached, Leaving, Untouched
  <1>6. CombinesAlone'
    BY DEF LockIInv, CombinesAlone
  <1>7. CallFollowsPc'
    BY DEF LockIInv, CallFollowsPc, Untouched
  <1>8. Unused'
    BY DEF LockIInv, Unused
  <1>9. QED
    BY <1>1, <1>2, <1>3, <1>4, <1>5, <1>6, <1>7, <1>8 DEF LockIInv

\* It takes the flag or finds it taken.
LEMMA GrabStep ==
  ASSUME LockIInv, NEW t \in Threads, Grab(t)
  PROVE  LockIInv'
  <1> USE DEF Grab, LockGoto, node, At, Combining, LockStates
  <1>1. LockTypeOK'
    BY DEF LockIInv, LockTypeOK
  <1>2. MutualExclusion'
    BY DEF LockIInv, LockTypeOK, MutualExclusion, Holds
  <1>3. LastIsEnd'
    BY DEF LockIInv, LastIsEnd, InQueue, Attached, Leaving
  <1>4. LinkFollowsPrev'
    BY DEF LockIInv, LinkFollowsPrev, InQueue, Attached, Leaving
  <1>5. NextIsWaiting'
    BY DEF LockIInv, NextIsWaiting, Unused, InQueue, Attached, Leaving, Untouched
  <1>6. CombinesAlone'
    BY DEF LockIInv, CombinesAlone, Unused
  <1>7. CallFollowsPc'
    BY DEF LockIInv, CallFollowsPc, Unused, Untouched
  <1>8. Unused'
    BY DEF LockIInv, Unused
  <1>9. QED
    BY <1>1, <1>2, <1>3, <1>4, <1>5, <1>6, <1>7, <1>8 DEF LockIInv

\* The node before gets its successor, which no other node has.
LEMMA LinkStep ==
  ASSUME LockIInv, NEW t \in Threads, Link(t)
  PROVE  LockIInv'
  <1> USE DEF Link, LockGoto, lock, At, Combining, LockStates
  <1>1. LockTypeOK'
    BY DEF LockIInv, LockTypeOK, LinkFollowsPrev
  <1>2. MutualExclusion'
    BY DEF LockIInv, MutualExclusion, Unused, Holds
  <1>3. LastIsEnd'
    BY DEF LockIInv, LastIsEnd, LinkFollowsPrev, InQueue, Attached, Leaving
  <1>4. LinkFollowsPrev'
    BY DEF LockIInv, LockTypeOK, LinkFollowsPrev, InQueue, Attached, Leaving
  <1>5. NextIsWaiting'
    BY DEF LockIInv, LockTypeOK, NextIsWaiting, CombinesAlone, Unused, InQueue, Attached,
        Leaving, Untouched
  <1>6. CombinesAlone'
    BY DEF LockIInv, LinkFollowsPrev, CombinesAlone
  <1>7. CallFollowsPc'
    BY DEF LockIInv, CallFollowsPc, Unused, Untouched
  <1>8. Unused'
    BY DEF LockIInv, Unused
  <1>9. QED
    BY <1>1, <1>2, <1>3, <1>4, <1>5, <1>6, <1>7, <1>8 DEF LockIInv

\* A call that was combined returns.
LEMMA WaitDoneStep ==
  ASSUME LockIInv, NEW t \in Threads, WaitDone(t)
  PROVE  LockIInv'
  <1> USE DEF WaitDone, Return, lock, At, LockGoto, SetCall, Combining, LockStates
  <1>1. LockTypeOK'
    BY DEF LockIInv, LockTypeOK
  <1>2. MutualExclusion'
    BY DEF LockIInv, MutualExclusion, Holds
  <1>3. LastIsEnd'
    BY DEF LockIInv, LastIsEnd, InQueue, Attached, Leaving
  <1>4. LinkFollowsPrev'
    BY DEF LockIInv, LinkFollowsPrev, InQueue, Attached, Leaving
  <1>5. NextIsWaiting'
    BY DEF LockIInv, NextIsWaiting, InQueue, Attached, Leaving, Untouched
  <1>6. CombinesAlone'
    BY DEF LockIInv, CombinesAlone
  <1>7. CallFollowsPc'
    BY DEF LockIInv, LockTypeOK, CombinesAlone, CallFollowsPc, Untouched
  <1>8. Unused'
    BY DEF LockIInv, Unused
  <1>9. QED
    BY <1>1, <1>2, <1>3, <1>4, <1>5, <1>6, <1>7, <1>8 DEF LockIInv

\* A waiting thread sees that it is the head; it has held the lock since it was told.
LEMMA WaitHeadStep ==
  ASSUME LockIInv, NEW t \in Threads, WaitHead(t)
  PROVE  LockIInv'
  <1> USE DEF WaitHead, LockGoto, lock, node, At, Combining, LockStates
  <1>1. LockTypeOK'
    BY DEF LockIInv, LockTypeOK
  <1>2. MutualExclusion'
    BY DEF LockIInv, MutualExclusion, Holds
  <1>3. LastIsEnd'
    BY DEF LockIInv, LastIsEnd, InQueue, Attached, Leaving
  <1>4. LinkFollowsPrev'
    BY DEF LockIInv, LinkFollowsPrev, InQueue, Attached, Leaving
  <1>5. NextIsWaiting'
    BY DEF LockIInv, NextIsWaiting, Unused, InQueue, Attached, Leaving, Untouched
  <1>6. CombinesAlone'
    BY DEF LockIInv, CombinesAlone, Unused
  <1>7. CallFollowsPc'
    BY DEF LockIInv, CallFollowsPc, Unused, Untouched
  <1>8. Unused'
    BY DEF LockIInv, Unused
  <1>9. QED
    BY <1>1, <1>2, <1>3, <1>4, <1>5, <1>6, <1>7, <1>8 DEF LockIInv

\* A functor begins.
LEMMA BeginStep ==
  ASSUME LockIInv, NEW t \in Threads, Begin(t)
  PROVE  LockIInv'
  <1> USE DEF Begin, LockGoto, SetCall, lock, node, At, Combining, LockStates
  <1>1. LockTypeOK'
    BY DEF LockIInv, LockTypeOK
  <1>2. MutualExclusion'
    BY DEF LockIInv, MutualExclusion, Holds
  <1>3. LastIsEnd'
    BY DEF LockIInv, LastIsEnd, InQueue, Attached, Leaving
  <1>4. LinkFollowsPrev'
    BY DEF LockIInv, LinkFollowsPrev, InQueue, Attached, Leaving
  <1>5. NextIsWaiting'
    BY DEF LockIInv, NextIsWaiting, InQueue, Attached, Leaving, Untouched
  <1>6. CombinesAlone'
    BY DEF LockIInv, CombinesAlone
  <1>7. CallFollowsPc'
    BY DEF LockIInv, LockTypeOK, CombinesAlone, CallFollowsPc, Unused, Untouched
  <1>8. Unused'
    BY DEF LockIInv, Unused
  <1>9. QED
    BY <1>1, <1>2, <1>3, <1>4, <1>5, <1>6, <1>7, <1>8 DEF LockIInv

\* A functor ends.
LEMMA FinishStep ==
  ASSUME LockIInv, NEW t \in Threads, Finish(t)
  PROVE  LockIInv'
  <1> USE DEF Finish, LockGoto, SetCall, lock, node, At, Combining, LockStates
  <1>1. LockTypeOK'
    BY DEF LockIInv, LockTypeOK
  <1>2. MutualExclusion'
    BY DEF LockIInv, MutualExclusion, Holds
  <1>3. LastIsEnd'
    BY DEF LockIInv, LastIsEnd, InQueue, Attached, Leaving
  <1>4. LinkFollowsPrev'
    BY DEF LockIInv, LinkFollowsPrev, InQueue, Attached, Leaving
  <1>5. NextIsWaiting'
    BY DEF LockIInv, NextIsWaiting, InQueue, Attached, Leaving, Untouched
  <1>6. CombinesAlone'
    BY DEF LockIInv, CombinesAlone
  <1>7. CallFollowsPc'
    BY DEF LockIInv, LockTypeOK, MutualExclusion, CallFollowsPc, Unused, Holds, Untouched
  <1>8. Unused'
    BY DEF LockIInv, Unused
  <1>9. QED
    BY <1>1, <1>2, <1>3, <1>4, <1>5, <1>6, <1>7, <1>8 DEF LockIInv

\* The head reads the next node.
LEMMA ReadNextStep ==
  ASSUME LockIInv, NEW t \in Threads, ReadNextNode(t)
  PROVE  LockIInv'
  <1> USE DEF ReadNextNode, LockGoto, lock, node, At, Combining, LockStates
  <1>1. LockTypeOK'
    BY DEF LockIInv, LockTypeOK
  <1>2. MutualExclusion'
    BY DEF LockIInv, MutualExclusion, Holds
  <1>3. LastIsEnd'
    BY DEF LockIInv, LastIsEnd, InQueue, Attached, Leaving
  <1>4. LinkFollowsPrev'
    BY DEF LockIInv, LinkFollowsPrev, InQueue, Attached, Leaving
  <1>5. NextIsWaiting'
    BY DEF LockIInv, NextIsWaiting, InQueue, Attached, Leaving, Untouched
  <1>6. CombinesAlone'
    BY DEF LockIInv, LockTypeOK, CombinesAlone
  <1>7. CallFollowsPc'
    BY DEF LockIInv, CallFollowsPc, Untouched
  <1>8. Unused'
    BY DEF LockIInv, Unused
  <1>9. QED
    BY <1>1, <1>2, <1>3, <1>4, <1>5, <1>6, <1>7, <1>8 DEF LockIInv

\* The combined node is let go and its successor, which nobody else combines, taken.
LEMMA MarkDoneStep ==
  ASSUME LockIInv, NEW t \in Threads, MarkDone(t)
  PROVE  LockIInv'
  <1> USE DEF MarkDone, LockGoto, SetStatus, lock, At, Combining, LockStates
  <1>1. LockTypeOK'
    BY DEF LockIInv, LockTypeOK, CombinesAlone
  <1>2. MutualExclusion'
    BY DEF LockIInv, MutualExclusion, Holds
  <1>3. LastIsEnd'
    BY DEF LockIInv, LastIsEnd, CombinesAlone, InQueue, Attached, Leaving
  <1>4. LinkFollowsPrev'
    BY DEF LockIInv, LinkFollowsPrev, CombinesAlone, InQueue, Attached, Leaving
  <1>5. NextIsWaiting'
    BY DEF LockIInv, LockTypeOK, NextIsWaiting, CombinesAlone, InQueue, Attached, Leaving,
        Untouched
  <1>6. CombinesAlone'
    BY DEF LockIInv, LockTypeOK, NextIsWaiting, CombinesAlone, InQueue, Attached, Leaving,
        Untouched
  <1>7. CallFollowsPc'
    BY DEF LockIInv, LockTypeOK, NextIsWaiting, CombinesAlone, CallFollowsPc, InQueue,
        Attached, Leaving, Untouched
  <1>8. Unused'
    BY DEF LockIInv, CombinesAlone, Unused
  <1>9. QED
    BY <1>1, <1>2, <1>3, <1>4, <1>5, <1>6, <1>7, <1>8 DEF LockIInv

\* The queue is closed, unless its end has moved on.
LEMMA CloseStep ==
  ASSUME LockIInv, NEW t \in Threads, Close(t)
  PROVE  LockIInv'
  <1> USE DEF Close, LockGoto, node, At, Combining, LockStates
  <1>1. LockTypeOK'
    BY DEF LockIInv, LockTypeOK
  <1>2. MutualExclusion'
    BY DEF LockIInv, MutualExclusion, Holds
  <1>3. LastIsEnd'
    BY DEF LockIInv, LastIsEnd, InQueue, Attached, Leaving
  <1>4. LinkFollowsPrev'
    BY NullAssumption DEF LockIInv, LinkFollowsPrev, InQueue, Attached, Leaving
  <1>5. NextIsWaiting'
    BY DEF LockIInv, NextIsWaiting, InQueue, Attached, Leaving, Untouched
  <1>6. CombinesAlone'
    BY NullAssumption DEF LockIInv, LockTypeOK, LastIsEnd, CombinesAlone
  <1>7. CallFollowsPc'
    BY DEF LockIInv, CallFollowsPc, Untouched
  <1>8. Unused'
    BY DEF LockIInv, Unused
  <1>9. QED
    BY <1>1, <1>2, <1>3, <1>4, <1>5, <1>6, <1>7, <1>8 DEF LockIInv

\* The last node of a closed queue is let go: no thread is about to link to it.
LEMMA MarkClosedStep ==
  ASSUME LockIInv, NEW t \in Threads, MarkClosed(t)
  PROVE  LockIInv'
  <1> USE DEF MarkClosed, LockGoto, SetStatus, lock, At, Combining, LockStates
  <1>1. LockTypeOK'
    BY DEF LockIInv, LockTypeOK
  <1>2. MutualExclusion'
    BY DEF LockIInv, MutualExclusion, Holds
  <1>3. LastIsEnd'
    BY DEF LockIInv, LastIsEnd, CombinesAlone, InQueue, Attached, Leaving
  <1>4. LinkFollowsPrev'
    BY DEF LockIInv, LinkFollowsPrev, CombinesAlone, InQueue, Attached, Leaving
  <1>5. NextIsWaiting'
    BY DEF LockIInv, NextIsWaiting, InQueue, Attached, Leaving, Untouched
  <1>6. CombinesAlone'
    BY DEF LockIInv, LockTypeOK, CombinesAlone
  <1>7. CallFollowsPc'
    BY DEF LockIInv, LockTypeOK, CallFollowsPc, Untouched
  <1>8. Unused'
    BY DEF LockIInv, CombinesAlone, Unused
  <1>9. QED
    BY <1>1, <1>2, <1>3, <1>4, <1>5, <1>6, <1>7, <1>8 DEF LockIInv

\* The head of a closed queue returns.
LEMMA UnlockStep ==
  ASSUME LockIInv, NEW t \in Threads, Unlock(t)
  PROVE  LockIInv'
  <1> USE DEF Unlock, Return, At, LockGoto, SetCall, Combining, LockStates
  <1>1. LockTypeOK'
    BY NullAssumption DEF LockIInv, LockTypeOK, MutualExclusion, LastIsEnd, LinkFollowsPrev,
        NextIsWaiting, CombinesAlone, CallFollowsPc, Unused, Holds, InQueue, Attached,
        Leaving, Untouched
  <1>2. MutualExclusion'
    BY DEF LockIInv, LockTypeOK, MutualExclusion, Holds
  <1>3. LastIsEnd'
    BY DEF LockIInv, LastIsEnd, InQueue, Attached, Leaving
  <1>4. LinkFollowsPrev'
    BY DEF LockIInv, LinkFollowsPrev, InQueue, Attached, Leaving
  <1>5. NextIsWaiting'
    BY DEF LockIInv, NextIsWaiting, InQueue, Attached, Leaving, Untouched
  <1>6. CombinesAlone'
    BY DEF LockIInv, CombinesAlone
  <1>7. CallFollowsPc'
    BY DEF LockIInv, LockTypeOK, CombinesAlone, CallFollowsPc, Untouched
  <1>8. Unused'
    BY DEF LockIInv, LockTypeOK, Unused
  <1>9. QED
    BY <1>1, <1>2, <1>3, <1>4, <1>5, <1>6, <1>7, <1>8 DEF LockIInv

\* The end of the queue has got its successor.
LEMMA WaitNextStep ==
  ASSUME LockIInv, NEW t \in Threads, WaitNext(t)
  PROVE  LockIInv'
  <1> USE DEF WaitNext, LockGoto, lock, node, At, Combining, LockStates
  <1>1. LockTypeOK'
    BY DEF LockIInv, LockTypeOK
  <1>2. MutualExclusion'
    BY DEF LockIInv, MutualExclusion, Holds
  <1>3. LastIsEnd'
    BY DEF LockIInv, LastIsEnd, InQueue, Attached, Leaving
  <1>4. LinkFollowsPrev'
    BY DEF LockIInv, LinkFollowsPrev, InQueue, Attached, Leaving
  <1>5. NextIsWaiting'
    BY DEF LockIInv, NextIsWaiting, InQueue, Attached, Leaving, Untouched
  <1>6. CombinesAlone'
    BY DEF LockIInv, LockTypeOK, CombinesAlone
  <1>7. CallFollowsPc'
    BY DEF LockIInv, CallFollowsPc, Untouched
  <1>8. Unused'
    BY DEF LockIInv, Unused
  <1>9. QED
    BY <1>1, <1>2, <1>3, <1>4, <1>5, <1>6, <1>7, <1>8 DEF LockIInv

\* The successor becomes the head, and the lock is its own.
LEMMA PassHeadStep ==
  ASSUME LockIInv, NEW t \in Threads, PassHead(t)
  PROVE  LockIInv'
  <1> USE DEF PassHead, LockGoto, SetStatus, lock, At, Combining, LockStates
  <1>1. LockTypeOK'
    BY DEF LockIInv, LockTypeOK, CombinesAlone
  <1>2. MutualExclusion'
    BY DEF LockIInv, LockTypeOK, MutualExclusion, NextIsWaiting, CombinesAlone, Holds,
        InQueue, Attached, Leaving
  <1>3. LastIsEnd'
    BY DEF LockIInv, LastIsEnd, CombinesAlone, InQueue, Attached, Leaving
  <1>4. LinkFollowsPrev'
    BY DEF LockIInv, LinkFollowsPrev, CombinesAlone, InQueue, Attached, Leaving
  <1>5. NextIsWaiting'
    BY DEF LockIInv, LockTypeOK, NextIsWaiting, CombinesAlone, InQueue, Attached, Leaving,
        Untouched
  <1>6. CombinesAlone'
    BY DEF LockIInv, LockTypeOK, NextIsWaiting, CombinesAlone, InQueue, Attached, Leaving,
        Untouched
  <1>7. CallFollowsPc'
    BY DEF LockIInv, LockTypeOK, NextIsWaiting, CombinesAlone, CallFollowsPc, InQueue,
        Attached, Leaving, Untouched
  <1>8. Unused'
    BY DEF LockIInv, LockTypeOK, NextIsWaiting, CombinesAlone, Unused, InQueue, Attached,
        Leaving
  <1>9. QED
    BY <1>1, <1>2, <1>3, <1>4, <1>5, <1>6, <1>7, <1>8 DEF LockIInv

\* The last node is let go and the former head returns.
LEMMA MarkLastStep ==
  ASSUME LockIInv, NEW t \in Threads, MarkLast(t)
  PROVE  LockIInv'
  <1> USE DEF MarkLast, SetStatus, Return, lock, At, LockGoto, SetCall, Combining, LockStates
  <1>1. LockTypeOK'
    BY DEF LockIInv, LockTypeOK
  <1>2. MutualExclusion'
    BY DEF LockIInv, MutualExclusion, CombinesAlone, Holds
  <1>3. LastIsEnd'
    BY DEF LockIInv, LastIsEnd, CombinesAlone, InQueue, Attached, Leaving
  <1>4. LinkFollowsPrev'
    BY DEF LockIInv, LinkFollowsPrev, CombinesAlone, InQueue, Attached, Leaving
  <1>5. NextIsWaiting'
    BY DEF LockIInv, LockTypeOK, NextIsWaiting, InQueue, Attached, Leaving, Untouched
  <1>6. CombinesAlone'
    BY DEF LockIInv, LockTypeOK, CombinesAlone
  <1>7. CallFollowsPc'
    BY DEF LockIInv, LockTypeOK, CombinesAlone, CallFollowsPc, Untouched
  <1>8. Unused'
    BY DEF LockIInv, LockTypeOK, CombinesAlone, Unused
  <1>9. QED
    BY <1>1, <1>2, <1>3, <1>4, <1>5, <1>6, <1>7, <1>8 DEF LockIInv

-----------------------------------------------------------------------------
LEMMA InitIInv == LockInit => LockIInv
  <1> SUFFICES ASSUME LockInit PROVE LockIInv
    OBVIOUS
  <1> USE DEF LockInit
  <1>1. LockTypeOK
    BY DEF LockTypeOK, LockStates
  <1>2. \A t \in Threads : place[t] = "idle" /\ place[t] \notin Combining
    BY DEF Combining
  <1>3. MutualExclusion
    BY <1>2 DEF MutualExclusion, Holds, At
  <1>4. LastIsEnd /\ LinkFollowsPrev /\ NextIsWaiting
    BY <1>2 DEF LastIsEnd, LinkFollowsPrev, NextIsWaiting, At
  <1>5. CombinesAlone /\ CallFollowsPc /\ Unused
    BY <1>2 DEF CombinesAlone, CallFollowsPc, Unused, At
  <1>6. QED
    BY <1>1, <1>3, <1>4, <1>5 DEF LockIInv

LEMMA StepIInv ==
  ASSUME LockIInv, [LockNext]_lockVars
  PROVE  LockIInv'
  <1>1. CASE UNCHANGED lockVars
    BY <1>1
    DEF lockVars, LockIInv, LockTypeOK, MutualExclusion, LastIsEnd, LinkFollowsPrev, NextIsWaiting,
        CombinesAlone, CallFollowsPc, Unused, Holds, InQueue, Attached, Leaving,
        Untouched, At
  <1>2. ASSUME NEW t \in Threads, Call(t) \/ Step(t)
        PROVE  LockIInv'
    <2>1. CASE FastPath(t)
      BY <2>1, CheckLastStep, TryFlagStep, FastUnlockStep DEF FastPath
    <2>2. CASE Join(t)
      BY <2>2, AttachStep, SpinStep, GrabStep, LinkStep, WaitDoneStep, WaitHeadStep
      DEF Join
    <2>3. CASE Run(t)
      BY <2>3, BeginStep, FinishStep DEF Run
    <2>4. CASE Combine(t)
      BY <2>4, ReadNextStep, MarkDoneStep, CloseStep, MarkClosedStep, UnlockStep,
         WaitNextStep, PassHeadStep, MarkLastStep
      DEF Combine
    <2>5. QED
      BY <1>2, <2>1, <2>2, <2>3, <2>4, CallStep DEF Step
  <1>3. QED
    BY <1>1, <1>2 DEF LockNext

\* In every state of every behaviour, for any set of threads, the queue has the
\* shape that the parts of the invariant describe.
THEOREM Invariance == LockSafety => []LockIInv
  <1>1. QED
    BY InitIInv, StepIInv, PTL DEF LockSafety

\* Type correctness.
THEOREM TypeCorrect == LockSafety => []LockTypeOK
  <1>1. LockIInv => LockTypeOK
    BY DEF LockIInv
  <1>2. QED
    BY <1>1, Invariance, PTL

\* At most one thread holds the lock, and flag is set exactly while one does.
THEOREM MutualExclusionCorrect == LockSafety => []MutualExclusion
  <1>1. LockIInv => MutualExclusion
    BY DEF LockIInv
  <1>2. QED
    BY <1>1, Invariance, PTL

\* No thread is about to access a node whose thread may have returned.
THEOREM NodesOutliveUseCorrect == LockSafety => []NodesOutliveUse
  <1>1. ASSUME LockIInv PROVE NodesOutliveUse
    <2> SUFFICES ASSUME NEW t \in Threads
                 PROVE  /\ At(t, "link") => Attached(prevNode[t])
                        /\ place[t] \in Combining => Attached(curNode[t])
                        /\ place[t] \in {"markDone", "passHead"} => Attached(nxtNode[t])
      BY DEF NodesOutliveUse
    <2>1. At(t, "link") => Attached(prevNode[t])
      BY <1>1 DEF LockIInv, LinkFollowsPrev, InQueue
    <2>2. place[t] \in Combining => Attached(curNode[t])
      BY <1>1 DEF LockIInv, CombinesAlone, Attached, At
    <2>3. ASSUME place[t] \in {"markDone", "passHead"} PROVE Attached(nxtNode[t])
      <3>1. place[t] \in Combining /\ curNode[t] \in Threads
        BY <1>1, <2>3 DEF Combining, LockIInv, LockTypeOK
      <3>2. InQueue(curNode[t])
        BY <1>1, <2>2, <2>3, <3>1 DEF LockIInv, CombinesAlone, InQueue, Leaving, At, Combining
      <3>3. nxtNode[t] = nextNode[curNode[t]] /\ nxtNode[t] # NullNode
        BY <1>1, <2>3, <3>1 DEF LockIInv, CombinesAlone
      <3>4. At(nxtNode[t], "wait") /\ status[nxtNode[t]] = "Waiting"
        BY <1>1, <3>1, <3>2, <3>3 DEF LockIInv, NextIsWaiting, Untouched
      <3>5. QED
        BY <3>4 DEF Attached, At
    <2>4. QED
      BY <2>1, <2>2, <2>3
  <1>2. QED
    BY <1>1, Invariance, PTL

-----------------------------------------------------------------------------
\* The functor that begins is that of cur, which nothing pending is ahead of: its
\* predecessor in the queue would be another thread's to combine.
LEMMA BeginIsFirst ==
  ASSUME LockIInv, NEW v \in Threads, Begin(v),
         NEW t \in Threads, NEW u \in Threads,
         Behind(t, u), call[u] = "pending", call[t] = "pending"
  PROVE  call'[t] = "pending"
  <1> SUFFICES ASSUME curNode[v] = t PROVE FALSE
    BY DEF Begin, SetCall, LockIInv, LockTypeOK
  <1>1. CASE place[v] = "fast"
    <2>1. v = t
      BY <1>1 DEF LockIInv, Unused, Combining
    <2>2. QED
      BY <1>1, <2>1 DEF Behind, Attached, Combining
  <1>2. CASE place[v] = "begin"
    <2>1. place[v] \in Combining
      BY <1>2 DEF Combining
    <2>2. ~At(t, "link")
      BY <2>1, <1>2 DEF LockIInv, CombinesAlone, At
    <2>3. nextNode[u] = t
      BY <2>2 DEF Behind
    <2>4. InQueue(u)
      BY DEF Behind, InQueue, Leaving, LockIInv, CallFollowsPc, At, Combining
    <2>5. Untouched(t)
      BY <2>3, <2>4, NullAssumption DEF LockIInv, NextIsWaiting
    <2>6. QED
      BY <2>1, <2>5 DEF Untouched
  <1>3. QED
    BY <1>1, <1>2 DEF Begin

\* First come, first served.
THEOREM FirstComeFirstServedCorrect == LockSafety => FirstComeFirstServed
  <1>1. ASSUME LockIInv, [LockNext]_lockVars
        PROVE  [\A t, u \in Threads :
                   Behind(t, u) /\ call[u] = "pending" /\ call[t] = "pending" =>
                       call'[t] = "pending"]_lockVars
    <2> SUFFICES ASSUME NEW v \in Threads, Call(v) \/ Step(v),
                        NEW t \in Threads, NEW u \in Threads,
                        Behind(t, u), call[u] = "pending", call[t] = "pending"
                 PROVE  call'[t] = "pending"
      BY <1>1 DEF LockNext
    <2>1. CASE Begin(v)
      BY <1>1, <2>1, BeginIsFirst
    <2>2. CASE Finish(v)
      <3>1. call[curNode[v]] = "running"
        BY <1>1, <2>2 DEF Finish, LockIInv, CallFollowsPc, Unused, At, Combining
      <3>2. QED
        BY <1>1, <2>2, <3>1 DEF Finish, SetCall, LockIInv, LockTypeOK
    <2>3. CASE Call(v)
      BY <1>1, <2>3 DEF Call, SetCall, LockIInv, LockTypeOK
    <2>4. CASE FastPath(v)
      BY <1>1, <2>4
      DEF FastPath, CheckLast, TryFlag, FastUnlock, Return, SetCall, LockIInv, LockTypeOK,
          CallFollowsPc, At
    <2>5. CASE Join(v)
      BY <1>1, <2>5
      DEF Join, Attach, Spin, Grab, Link, WaitDone, WaitHead, Return, SetCall, LockIInv,
          LockTypeOK, CallFollowsPc, At
    <2>6. CASE Combine(v)
      BY <1>1, <2>6
      DEF Combine, ReadNextNode, MarkDone, Close, MarkClosed, Unlock, WaitNext, PassHead,
          MarkLast, Return, SetCall, LockIInv, LockTypeOK, CallFollowsPc, At, Combining
    <2>7. QED
      BY <2>1, <2>2, <2>3, <2>4, <2>5, <2>6 DEF Step, Run
  <1>2. QED
    BY <1>1, Invariance, PTL DEF LockSafety, FirstComeFirstServed

-----------------------------------------------------------------------------
\* Refinement of Delegation: only Call, Begin, Finish and the three actions that
\* return change call, and they do it as the promise says.
LEMMA OneRuns ==
  ASSUME LockIInv, NEW u \in Threads, call[u] = "running"
  PROVE  \E t \in Threads : place[t] \in {"fastWork", "work"} /\ curNode[t] = u
  <1>1. place[u] \in Combining \cup {"fastWork", "wait"}
    BY DEF LockIInv, LockTypeOK, LockStates, CallFollowsPc, At
  <1>2. CASE place[u] = "fastWork"
    BY <1>2 DEF LockIInv, Unused, Combining
  <1>3. CASE place[u] \in Combining
    <2>1. curNode[u] = u /\ place[u] = "work"
      BY <1>3 DEF LockIInv, CallFollowsPc, At
    <2>2. QED
      BY <2>1
  <1>4. CASE place[u] = "wait"
    <2>1. status[u] = "Waiting" /\ ~Untouched(u)
      BY <1>4 DEF LockIInv, LockTypeOK, CallFollowsPc, At
    <2>2. PICK t \in Threads : place[t] \in Combining /\ curNode[t] = u
      BY <2>1 DEF Untouched
    <2>3. place[t] = "work"
      BY <2>2 DEF LockIInv, CallFollowsPc, At
    <2>4. QED
      BY <2>2, <2>3
  <1>5. QED
    BY <1>1, <1>2, <1>3, <1>4

LEMMA BeginRefines ==
  ASSUME LockIInv, NEW t \in Threads, Begin(t)
  PROVE  LockPromise!Begin(curNode[t])
  <1>1. curNode[t] \in Threads /\ call[curNode[t]] = "pending"
    BY DEF Begin, LockIInv, LockTypeOK, CallFollowsPc, Unused, At, Combining
  <1>2. ASSUME NEW u \in Threads, call[u] = "running" PROVE FALSE
    <2>1. PICK v \in Threads : place[v] \in {"fastWork", "work"}
      BY <1>2, OneRuns
    <2>2. Holds(v) /\ Holds(t)
      BY <2>1 DEF Holds, Begin, Combining
    <2>3. v = t
      BY <2>2 DEF LockIInv, MutualExclusion
    <2>4. QED
      BY <2>1, <2>3 DEF Begin
  <1>3. QED
    BY <1>1, <1>2 DEF Begin, SetCall, LockPromise!Begin, LockPromise!Step

LEMMA FinishRefines ==
  ASSUME LockIInv, NEW t \in Threads, Finish(t)
  PROVE  LockPromise!Finish(curNode[t])
  <1>1. call[curNode[t]] = "running"
    BY DEF Finish, LockIInv, CallFollowsPc, Unused, At, Combining
  <1>2. QED
    BY <1>1 DEF Finish, SetCall, LockPromise!Finish, LockPromise!Step

LEMMA ReturnRefines ==
  ASSUME LockIInv, NEW t \in Threads,
         FastUnlock(t) \/ WaitDone(t) \/ Unlock(t) \/ MarkLast(t)
  PROVE  LockPromise!Return(t)
  <1>1. call[t] = "done"
    <2>1. CASE FastUnlock(t) \/ WaitDone(t) \/ Unlock(t)
      BY <2>1 DEF FastUnlock, WaitDone, Unlock, LockIInv, CallFollowsPc, At
    <2>2. CASE MarkLast(t)
      BY <2>2 DEF MarkLast, LockIInv, CallFollowsPc, At, Combining
    <2>3. QED
      BY <2>1, <2>2
  <1>2. call' = [call EXCEPT ![t] = "none"]
    BY DEF FastUnlock, WaitDone, Unlock, MarkLast, Return, SetCall
  <1>3. QED
    BY <1>1, <1>2 DEF LockPromise!Return, LockPromise!Step

LEMMA StepRefines ==
  ASSUME LockIInv, NEW t \in Threads, Call(t) \/ Step(t)
  PROVE  LockPromise!Next \/ UNCHANGED call
  <1>1. CASE Call(t)
    <2>1. LockPromise!Request(t)
      BY <1>1 DEF Call, SetCall, LockIInv, CallFollowsPc, LockPromise!Request, LockPromise!Step
    <2>2. QED
      BY <2>1 DEF LockPromise!Next
  <1>2. CASE Begin(t)
    <2>1. curNode[t] \in Threads
      BY DEF LockIInv, LockTypeOK
    <2>2. QED
      BY <1>2, <2>1, BeginRefines DEF LockPromise!Next
  <1>3. CASE Finish(t)
    <2>1. curNode[t] \in Threads
      BY DEF LockIInv, LockTypeOK
    <2>2. QED
      BY <1>3, <2>1, FinishRefines DEF LockPromise!Next
  <1>4. CASE FastUnlock(t) \/ WaitDone(t) \/ Unlock(t) \/ MarkLast(t)
    BY <1>4, ReturnRefines DEF LockPromise!Next
  <1>5. CASE CheckLast(t) \/ TryFlag(t)
    BY <1>5 DEF CheckLast, TryFlag
  <1>6. CASE Attach(t) \/ Spin(t) \/ Grab(t) \/ Link(t) \/ WaitHead(t)
    BY <1>6 DEF Attach, Spin, Grab, Link, WaitHead
  <1>7. CASE \/ ReadNextNode(t) \/ MarkDone(t) \/ Close(t)
             \/ MarkClosed(t) \/ WaitNext(t) \/ PassHead(t)
    BY <1>7 DEF ReadNextNode, MarkDone, Close, MarkClosed, WaitNext, PassHead
  <1>8. QED
    BY <1>1, <1>2, <1>3, <1>4, <1>5, <1>6, <1>7 DEF Step, FastPath, Join, Run, Combine

\* Every functor runs at most once, alone, and its call returns only after it:
\* the safety part of ImplementsDelegation.
THEOREM RefinesDelegation == LockSafety => LockPromise!Safety
  <1>1. LockInit => LockPromise!Init
    BY DEF LockInit, LockPromise!Init
  <1>2. ASSUME LockIInv, [LockNext]_lockVars
        PROVE  [LockPromise!Next]_call
    BY <1>2, StepRefines DEF LockNext, lockVars
  <1>3. QED
    BY <1>1, <1>2, Invariance, PTL DEF LockSafety, LockPromise!Safety
=============================================================================
