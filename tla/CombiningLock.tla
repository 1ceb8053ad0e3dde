--------------------------- MODULE CombiningLock ---------------------------
(***************************************************************************)
(* include/ciel/core/combining_lock.hpp: with(combining_lock&, f) by any   *)
(* number of threads, one atomic access of the lock or of a node per step. *)
(*                                                                         *)
(* A thread has one node, on its stack, from the exchange of `last` until  *)
(* with() returns; its next call's node may have the same address, so a    *)
(* thread stands for its node.  The functors are assumed to return ("Ex-   *)
(* ception throwing will result in dead lock").                            *)
(***************************************************************************)
CONSTANTS Threads,
          NullNode          \* nullptr

ASSUME NullAssumption == NullNode \notin Threads

VARIABLES
    last, flag,     \* the lock: the end of the queue, and the lock bit
    status, nextNode,   \* the nodes
    prevNode, curNode, nxtNode,
                    \* prev, cur and nxt of attach, the first and the last reset
                    \* after their last use; cur is also whose functor is next
    place,          \* see LockStates
    call            \* history: what has become of the functor of a call

lock == <<last, flag>>
node == <<status, nextNode>>
lockVars == <<last, flag, status, nextNode, prevNode, curNode, nxtNode, place, call>>

\* "idle"       outside with()
\* "check"      loads lock.last, line 134
\* "try"        exchanges lock.flag, line 135
\* "fast"       has the flag and no node; "fastWork" runs its functor
\* "fastUnlock" stores the flag, line 138
\* "attach"     constructs its node and exchanges lock.last, line 48
\* "spin"       head of a new queue, loads the flag, "grab" exchanges it
\* "link"       stores itself into the node before, line 59
\* "wait"       polls its status, lines 62-69
\* "begin"      head, about to run cur's functor; "work" runs it
\* "readNext"   loads cur's next, line 79
\* "markDone"   stores cur's status and goes on with next, lines 84-85
\* "close"      tries to close the queue, line 90
\* "markClosed" stores the last status, line 91, "unlock" the flag, line 93
\* "waitNext"   polls cur's next, lines 98-101
\* "passHead"   stores next's status, line 104
\* "markLast"   stores cur's status, line 106
Combining == {"begin", "work", "readNext", "markDone", "close", "markClosed",
              "waitNext", "passHead", "markLast"}
LockStates == Combining \cup {"idle", "check", "try", "fast", "fastWork", "fastUnlock",
                          "attach", "spin", "grab", "link", "wait", "unlock"}

LockGoto(t, state) == place' = [place EXCEPT ![t] = state]

At(t, state) == place[t] = state

SetStatus(n, value) == status' = [status EXCEPT ![n] = value]

SetCall(t, value) == call' = [call EXCEPT ![t] = value]

\* with() returns, and with it go the locals and the node: its fields are put
\* back to what they are outside with().
Return(t) ==
    /\ LockGoto(t, "idle")
    /\ SetCall(t, "none")
    /\ curNode' = [curNode EXCEPT ![t] = t]
    /\ nextNode' = [nextNode EXCEPT ![t] = NullNode]

LockInit ==
    /\ last = NullNode /\ flag = FALSE
    /\ status = [t \in Threads |-> "Done"]
    /\ nextNode = [t \in Threads |-> NullNode]
    /\ prevNode = [t \in Threads |-> NullNode]
    /\ curNode = [t \in Threads |-> t]
    /\ nxtNode = [t \in Threads |-> NullNode]
    /\ place = [t \in Threads |-> "idle"]
    /\ call = [t \in Threads |-> "none"]

----------------------------------------------------------------------------
\* with(): the fast path.

Call(t) ==
    /\ At(t, "idle")
    /\ LockGoto(t, "check")
    /\ SetCall(t, "pending")
    /\ UNCHANGED <<lock, node, prevNode, curNode, nxtNode>>

CheckLast(t) ==
    /\ At(t, "check")
    /\ LockGoto(t, IF last = NullNode THEN "try" ELSE "attach")
    /\ UNCHANGED <<lock, node, prevNode, curNode, nxtNode, call>>

TryFlag(t) ==
    /\ At(t, "try")
    /\ flag' = TRUE
    /\ LockGoto(t, IF flag THEN "attach" ELSE "fast")
    /\ UNCHANGED <<last, node, prevNode, curNode, nxtNode, call>>

FastUnlock(t) ==
    /\ At(t, "fastUnlock")
    /\ flag' = FALSE
    /\ Return(t)
    /\ UNCHANGED <<last, status, prevNode, nxtNode>>

----------------------------------------------------------------------------
\* attach(): joining the queue.

Attach(t) ==
    /\ At(t, "attach")
    /\ SetStatus(t, "Waiting")
    /\ nextNode' = [nextNode EXCEPT ![t] = NullNode]
    /\ prevNode' = [prevNode EXCEPT ![t] = last]
    /\ last' = t
    /\ LockGoto(t, IF last = NullNode THEN "spin" ELSE "link")
    /\ UNCHANGED <<flag, curNode, nxtNode, call>>

\* A load that finds the flag set changes nothing.
Spin(t) ==
    /\ At(t, "spin")
    /\ ~flag
    /\ LockGoto(t, "grab")
    /\ UNCHANGED <<lock, node, prevNode, curNode, nxtNode, call>>

\* Faulty variant: the flag seen clear is taken for still clear.
Grab_Stores(t) ==
    /\ At(t, "grab")
    /\ flag' = TRUE
    /\ LockGoto(t, "begin")
    /\ UNCHANGED <<last, node, prevNode, curNode, nxtNode, call>>

Grab(t) ==
    /\ At(t, "grab")
    /\ flag' = TRUE
    /\ LockGoto(t, IF flag THEN "spin" ELSE "begin")
    /\ UNCHANGED <<last, node, prevNode, curNode, nxtNode, call>>

Link(t) ==
    /\ At(t, "link")
    /\ nextNode' = [nextNode EXCEPT ![prevNode[t]] = t]
    /\ prevNode' = [prevNode EXCEPT ![t] = NullNode]
    /\ LockGoto(t, "wait")
    /\ UNCHANGED <<lock, status, curNode, nxtNode, call>>

\* Another thread has completed our work.
WaitDone(t) ==
    /\ At(t, "wait")
    /\ status[t] = "Done"
    /\ Return(t)
    /\ UNCHANGED <<lock, status, prevNode, nxtNode>>

WaitHead(t) ==
    /\ At(t, "wait")
    /\ status[t] = "Head"
    /\ LockGoto(t, "begin")
    /\ UNCHANGED <<lock, node, prevNode, curNode, nxtNode, call>>

----------------------------------------------------------------------------
\* Running functors, on either path.

Begin(t) ==
    /\ place[t] \in {"fast", "begin"}
    /\ SetCall(curNode[t], "running")
    /\ LockGoto(t, IF At(t, "fast") THEN "fastWork" ELSE "work")
    /\ UNCHANGED <<lock, node, prevNode, curNode, nxtNode>>

Finish(t) ==
    /\ place[t] \in {"fastWork", "work"}
    /\ SetCall(curNode[t], "done")
    /\ LockGoto(t, IF At(t, "fastWork") THEN "fastUnlock" ELSE "readNext")
    /\ UNCHANGED <<lock, node, prevNode, curNode, nxtNode>>

----------------------------------------------------------------------------
\* attach(): the head of the queue.

\* Faulty variant: a node linked behind is taken for granted.
ReadNextNode_NoEnd(t) ==
    /\ At(t, "readNext")
    /\ nxtNode' = [nxtNode EXCEPT ![t] = nextNode[curNode[t]]]
    /\ LockGoto(t, "markDone")
    /\ UNCHANGED <<lock, node, prevNode, curNode, call>>

ReadNextNode(t) ==
    /\ At(t, "readNext")
    /\ nxtNode' = [nxtNode EXCEPT ![t] = nextNode[curNode[t]]]
    /\ LockGoto(t, IF nextNode[curNode[t]] = NullNode THEN "close" ELSE "markDone")
    /\ UNCHANGED <<lock, node, prevNode, curNode, call>>

MarkDone(t) ==
    /\ At(t, "markDone")
    /\ SetStatus(curNode[t], "Done")
    /\ curNode' = [curNode EXCEPT ![t] = nxtNode[t]]
    /\ nxtNode' = [nxtNode EXCEPT ![t] = NullNode]
    /\ LockGoto(t, "begin")
    /\ UNCHANGED <<lock, nextNode, prevNode, call>>

\* Faulty variant: the queue is closed whoever is at its end.
Close_Stores(t) ==
    /\ At(t, "close")
    /\ last' = NullNode
    /\ LockGoto(t, "markClosed")
    /\ UNCHANGED <<flag, node, prevNode, curNode, nxtNode, call>>

\* Faulty variant: a queue that is not at its end is marked done at once,
\* before its next node is read.
Close_MarksFirst(t) ==
    /\ At(t, "close")
    /\ last' = IF last = curNode[t] THEN NullNode ELSE last
    /\ IF last = curNode[t] THEN UNCHANGED status ELSE SetStatus(curNode[t], "Done")
    /\ LockGoto(t, IF last = curNode[t] THEN "markClosed" ELSE "waitNext")
    /\ UNCHANGED <<flag, nextNode, prevNode, curNode, nxtNode, call>>

Close(t) ==
    /\ At(t, "close")
    /\ last' = IF last = curNode[t] THEN NullNode ELSE last
    /\ LockGoto(t, IF last = curNode[t] THEN "markClosed" ELSE "waitNext")
    /\ UNCHANGED <<flag, node, prevNode, curNode, nxtNode, call>>

MarkClosed(t) ==
    /\ At(t, "markClosed")
    /\ SetStatus(curNode[t], "Done")
    /\ LockGoto(t, "unlock")
    /\ UNCHANGED <<lock, nextNode, prevNode, curNode, nxtNode, call>>

\* Faulty variant: the flag is left to the next head.
Unlock_Forgets(t) ==
    /\ At(t, "unlock")
    /\ Return(t)
    /\ UNCHANGED <<lock, status, prevNode, nxtNode>>

Unlock(t) ==
    /\ At(t, "unlock")
    /\ flag' = FALSE
    /\ Return(t)
    /\ UNCHANGED <<last, status, prevNode, nxtNode>>

\* A load that finds no next changes nothing.
WaitNext(t) ==
    /\ At(t, "waitNext")
    /\ nextNode[curNode[t]] # NullNode
    /\ nxtNode' = [nxtNode EXCEPT ![t] = nextNode[curNode[t]]]
    /\ LockGoto(t, "passHead")
    /\ UNCHANGED <<lock, node, prevNode, curNode, call>>

\* Faulty variant: the newest node becomes the head.
PassHead_ToLast(t) ==
    /\ At(t, "passHead")
    /\ SetStatus(last, "Head")
    /\ nxtNode' = [nxtNode EXCEPT ![t] = NullNode]
    /\ LockGoto(t, "markLast")
    /\ UNCHANGED <<lock, nextNode, prevNode, curNode, call>>

PassHead(t) ==
    /\ At(t, "passHead")
    /\ SetStatus(nxtNode[t], "Head")
    /\ nxtNode' = [nxtNode EXCEPT ![t] = NullNode]
    /\ LockGoto(t, "markLast")
    /\ UNCHANGED <<lock, nextNode, prevNode, curNode, call>>

MarkLast(t) ==
    /\ At(t, "markLast")
    /\ SetStatus(curNode[t], "Done")
    /\ Return(t)
    /\ UNCHANGED <<lock, prevNode, nxtNode>>

----------------------------------------------------------------------------
FastPath(t) == CheckLast(t) \/ TryFlag(t) \/ FastUnlock(t)

Join(t) ==
    \/ Attach(t) \/ Spin(t) \/ Grab(t)
    \/ Link(t) \/ WaitDone(t) \/ WaitHead(t)

Run(t) == Begin(t) \/ Finish(t)

Combine(t) ==
    \/ ReadNextNode(t) \/ MarkDone(t)
    \/ Close(t) \/ MarkClosed(t) \/ Unlock(t)
    \/ WaitNext(t) \/ PassHead(t) \/ MarkLast(t)

Step(t) == FastPath(t) \/ Join(t) \/ Run(t) \/ Combine(t)

LockNext == \E t \in Threads : Call(t) \/ Step(t)

LockSafety == LockInit /\ [][LockNext]_lockVars

\* The scheduler runs every thread inside with(); nothing makes one call it.
LockSpec == LockSafety /\ \A t \in Threads : WF_lockVars(Step(t))
----------------------------------------------------------------------------
LockTypeOK ==
    /\ last \in Threads \cup {NullNode} /\ flag \in BOOLEAN
    /\ status \in [Threads -> {"Waiting", "Done", "Head"}]
    /\ nextNode \in [Threads -> Threads \cup {NullNode}]
    /\ prevNode \in [Threads -> Threads \cup {NullNode}]
    /\ curNode \in [Threads -> Threads]
    /\ nxtNode \in [Threads -> Threads \cup {NullNode}]
    /\ place \in [Threads -> LockStates]
    /\ call \in [Threads -> {"none", "pending", "running", "done"}]

\* A thread that holds the lock, as head of the queue or on the fast path.
Holds(t) ==
    \/ place[t] \in Combining \ {"markLast"}
    \/ place[t] \in {"fast", "fastWork", "fastUnlock", "unlock"}
    \/ At(t, "wait") /\ status[t] = "Head"

\* The lock has one holder at most, and lock.flag is set exactly while it has
\* one, through every handover from head to head ("Lock would only be held by
\* an entire queue or each fast path threads").
MutualExclusion ==
    /\ \A t, u \in Threads : Holds(t) /\ Holds(u) => t = u
    /\ flag <=> \E t \in Threads : Holds(t)

\* A node that is constructed, in the queue or leaving it, and not yet allowed
\* to go.
Attached(n) ==
    /\ status[n] # "Done"
    /\ place[n] \in {"spin", "grab", "link", "wait"} \cup Combining

\* Whenever a thread is about to access a node, that node's thread has not been
\* told to return ("Status setting must be done after getting next, as cur will
\* get destoryed"): the node before, the node combined, and the next one.
NodesOutliveUse ==
    \A t \in Threads :
        /\ At(t, "link") => Attached(prevNode[t])
        /\ place[t] \in Combining => Attached(curNode[t])
        /\ place[t] \in {"markDone", "passHead"} => Attached(nxtNode[t])

\* t is next in line after u, linked to it or about to be.
Behind(t, u) ==
    /\ Attached(u) /\ Attached(t)
    /\ nextNode[u] = t \/ (At(t, "link") /\ prevNode[t] = u)

\* The queue is first come, first served: no functor begins before that of the
\* node ahead, across combining and changes of head.
FirstComeFirstServed ==
    [][\A t, u \in Threads :
          Behind(t, u) /\ call[u] = "pending" /\ call[t] = "pending" =>
              call'[t] = "pending"]_lockVars

\* Every functor runs once, alone, before its call returns, and no call waits
\* for that forever, although new arrivals may overtake it on the fast path.
LockPromise == INSTANCE Delegation

ImplementsDelegation == LockPromise!Spec

\* What makes the invariants inductive: the shape of the queue.  A node in the
\* queue is attached and its successor, if it has one, has not become the head.
Leaving(n) == \E t \in Threads : At(t, "markLast") /\ curNode[t] = n

InQueue(n) == Attached(n) /\ ~Leaving(n)

\* A node no thread combines yet.
Untouched(n) ==
    /\ status[n] = "Waiting"
    /\ \A t \in Threads : place[t] \in Combining => curNode[t] # n

\* The end of the queue has no successor, linked or about to be.
LastIsEnd ==
    last # NullNode => InQueue(last) /\ nextNode[last] = NullNode

\* An arriving thread knows its predecessor, which waits for the link.
LinkFollowsPrev ==
    \A n \in Threads : At(n, "link") =>
        /\ prevNode[n] \in Threads \ {last} /\ InQueue(prevNode[n]) /\ nextNode[prevNode[n]] = NullNode
        /\ \A m \in Threads : At(m, "link") /\ prevNode[m] = prevNode[n] => m = n
        /\ \A t \in Threads : At(t, "markClosed") => curNode[t] # prevNode[n]

\* Each successor is a waiting thread's node and has one predecessor.
NextIsWaiting ==
    \A p \in Threads : InQueue(p) /\ nextNode[p] # NullNode =>
        /\ At(nextNode[p], "wait") /\ Untouched(nextNode[p])
        /\ \A q \in Threads : InQueue(q) /\ nextNode[q] = nextNode[p] => q = p

\* A combining thread works on its own node or on that of a waiting one, which
\* no other thread works on.
CombinesAlone ==
    \A t \in Threads : place[t] \in Combining =>
        /\ status[curNode[t]] # "Done"
        /\ curNode[t] # t =>
              At(curNode[t], "wait") /\ status[curNode[t]] = "Waiting" /\ status[t] = "Done"
        /\ \A u \in Threads : place[u] \in Combining /\ curNode[u] = curNode[t] => u = t
        /\ place[t] \in {"markDone", "passHead"} =>
              nxtNode[t] = nextNode[curNode[t]] /\ nxtNode[t] # NullNode
        /\ At(t, "markLast") => nextNode[curNode[t]] # NullNode
        /\ At(t, "markClosed") => curNode[t] # last /\ nextNode[curNode[t]] = NullNode

\* Where a call's functor is, from where its thread is.
CallFollowsPc ==
    \A t \in Threads :
        /\ At(t, "idle") <=> call[t] = "none"
        /\ place[t] \in {"check", "try", "attach", "spin", "grab", "link", "fast"} =>
              call[t] = "pending"
        /\ At(t, "fastWork") => call[t] = "running"
        /\ place[t] \in {"fastUnlock", "unlock"} => call[t] = "done"
        /\ At(t, "wait") /\ Untouched(t) => call[t] = "pending"
        /\ At(t, "wait") /\ status[t] = "Head" => call[t] = "pending"
        /\ At(t, "wait") /\ status[t] = "Done" => call[t] = "done"
        /\ At(t, "begin") => call[curNode[t]] = "pending"
        /\ At(t, "work") => call[curNode[t]] = "running"
        /\ place[t] \in Combining \ {"begin", "work"} => call[curNode[t]] = "done"
        /\ place[t] \in Combining /\ curNode[t] # t => call[t] = "done"

\* The locals and the node of a thread that does not use them.
Unused ==
    \A t \in Threads :
        /\ place[t] \notin Combining \cup {"unlock"} => curNode[t] = t
        /\ place[t] \in {"spin", "grab", "link"} => status[t] = "Waiting"

LockIInv ==
    /\ LockTypeOK /\ MutualExclusion
    /\ LastIsEnd /\ LinkFollowsPrev /\ NextIsWaiting
    /\ CombinesAlone /\ CallFollowsPc /\ Unused

\* Either threads go on calling with(), which can keep a head combining for
\* them and its own call from returning, or in the end every call has returned.
CallsReturn ==
    \/ []<>(\E t \in Threads : At(t, "check"))
    \/ <>[](\A t \in Threads : At(t, "idle"))
============================================================================
