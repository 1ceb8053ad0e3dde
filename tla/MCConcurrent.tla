---------------------------- MODULE MCConcurrent ---------------------------
(***************************************************************************)
(* A control block, a combining_lock, a queue, a stack or a singleton.     *)
(*                                                                         *)
(* The control block has three shared_ptrs and two weak_ptrs, see          *)
(* MCSharedPtr, the others three threads.  Of those at the lock, one is    *)
(* the head, one is combined, and one arrives while the queue is being     *)
(* closed or takes the fast path before the head does.  The queue has four *)
(* nodes, pushed alone or in a batch of two: one node is kept back by the  *)
(* consumer, one push is half done, another has completed behind it, and a *)
(* processed node is pushed again.  The stack has three nodes, and a count *)
(* of four values: popping two and pushing the first again, which would    *)
(* fool a pop, takes three updates, and a thread may also sleep through    *)
(* all four.                                                               *)
(***************************************************************************)
EXTENDS MCSharedPtr, CombiningLock, MpscQueue

CONSTANTS n1, n2, n3, n4,
          Poppers       \* the threads of the stack

VARIABLES kind,
          kindOfAba, ptr, count, locked, links, spc, sbatch, old, snxt, age, overslept,
          state, res, s, gpc

MCNodes == {n1, n2, n3, n4}

MCBatches == {<<n>> : n \in {n1, n2, n3}} \cup {<<n4, n3>>}

stack == <<kindOfAba, ptr, count, locked, links, spc, sbatch, old, snxt, age, overslept>>
singleton == <<state, res, s, gpc>>

Stack == INSTANCE TreiberStack WITH
    Nodes <- {n1, n2, n3}, Batches <- {<<n1>>, <<n2>>, <<n3, n2>>},
    Threads <- Poppers, Wrap <- 4,
    next <- links, pc <- spc, batch <- sbatch, nxt <- snxt

\* The instance meets what the theorems about TreiberStack assume.
ASSUME StackAssumption == Stack!StackAssumption

Singleton == INSTANCE Singleton WITH pc <- gpc

MCInit ==
    /\ kind \in {"shared_ptr", "lock", "queue", "stack", "singleton"}
    /\ kind # "stack" => kindOfAba = "PackedPtr"
    /\ Init /\ LockInit /\ QueueInit /\ Stack!Init /\ Singleton!Init

\* Only what was chosen takes steps; the others stay as they began.
PtrStep(Action) ==
    kind = "shared_ptr" /\ Action /\ UNCHANGED <<kind, lockVars, queueVars, stack, singleton>>

LockStep(Action) ==
    kind = "lock" /\ Action /\ UNCHANGED <<kind, vars, queueVars, stack, singleton>>

QueueStep(Action) ==
    kind = "queue" /\ Action /\ UNCHANGED <<kind, vars, lockVars, stack, singleton>>

StackStep ==
    kind = "stack" /\ Stack!StackNext /\ UNCHANGED <<kind, vars, lockVars, queueVars, singleton>>

SingletonStep(Action) ==
    kind = "singleton" /\ Action /\ UNCHANGED <<kind, vars, lockVars, queueVars, stack>>

MCNext ==
    \/ PtrStep(Next) \/ LockStep(LockNext) \/ QueueStep(QueueNext)
    \/ StackStep \/ SingletonStep(Singleton!SingletonNext)

allVars == <<kind, vars, lockVars, queueVars, stack, singleton>>

\* The fairness of the specifications, as far as they are the one chosen.
MCFairness ==
    /\ \A r \in Shared : WF_allVars(PtrStep(StickZero(r))) /\ WF_allVars(PtrStep(Dispose(r)))
    /\ \A h \in Pointers : WF_allVars(PtrStep(WeakRelease(h)))
    /\ \A t \in Threads : WF_allVars(LockStep(Step(t)))
    /\ \A p \in Producers : WF_allVars(QueueStep(Push(p)))
    /\ WF_allVars(QueueStep(StartProcess))
    /\ WF_allVars(QueueStep(Process)) /\ WF_allVars(QueueStep(Drain))
    /\ \A t \in Threads : WF_allVars(SingletonStep(Singleton!Inside(t)))

MCSpec == MCInit /\ [][MCNext]_allVars /\ MCFairness

\* A stack, but for operations that sleep too long (treiber_stack.hpp, aba.hpp:20-23).
ImplementsStack == Stack!ImplementsStack

\* One object, constructed once, for everybody (singleton.hpp).
ImplementsOnce == Singleton!ImplementsOnce
============================================================================
