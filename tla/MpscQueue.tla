----------------------------- MODULE MpscQueue -----------------------------
(***************************************************************************)
(* include/ciel/core/mpsc_queue.hpp: push by any number of producers and   *)
(* process by one consumer, one access of front_, back_ or a node's next   *)
(* per step.  A node that has been processed may be pushed again.          *)
(*                                                                         *)
(* The accesses interleave; the relaxed loads of front_ and back_ at the   *)
(* start of process happen in either order.                                *)
(***************************************************************************)
EXTENDS Integers, Sequences

CONSTANTS Nodes, Producers,
          Batches,          \* what one push may put in: first, ..., last
          Null,             \* nullptr
          Stub,             \* the address of stub_
          Unread            \* a local not loaded yet

ASSUME MpscQueueAssumption ==
    /\ Batches \subseteq Seq(Nodes) \ {<<>>}
    /\ \A s \in Batches : \A i, j \in DOMAIN s : s[i] = s[j] => i = j
    /\ {Null, Stub, Unread} \cap Nodes = {}
    /\ Null # Stub /\ Null # Unread /\ Stub # Unread

VARIABLES
    front, back,    \* front_, back_
    next,           \* the next fields of the nodes
    batch, prev,    \* of a producer: the argument and the local of push
    ppc,             \* of a producer: "idle", "exchange" or "link"
    cpc,            \* of the consumer, see below
    cur, b, nxt,    \* locals of process and destructive_process
    queue           \* history: pushed and not yet processed, oldest first

shared == <<front, back, next>>
pushing == <<batch, prev, ppc>>
consuming == <<cpc, cur, b, nxt>>
queueVars == <<front, back, next, batch, prev, ppc, cpc, cur, b, nxt, queue>>

\* The consumer's cpc:
\* "idle"     outside process
\* "load"     loads front_ and back_, lines 69-70
\* "loop"     tests cur != b, loads cur's next, lines 76-77
\* "callback" calls process_each_node, line 84
\* "stop"     it returned false, stores front_, line 85
\* "store"    the loop has ended, stores front_, line 93
\* "closing"  in destructive_process, at its loop test, lines 106-107
\* "drain"    calls process_each_node, line 108
\* "closed"   destructive_process has returned

Members(s) == {s[i] : i \in DOMAIN s}

\* The nodes that no push and no queue holds belong to their owner.
Free == Nodes \ (Members(queue) \cup UNION {Members(batch[p]) : p \in Producers})

QueueInit ==
    /\ front = Stub /\ back = Null
    /\ next = [n \in Nodes |-> n]
    /\ batch = [p \in Producers |-> <<>>] /\ prev = [p \in Producers |-> Null]
    /\ ppc = [p \in Producers |-> "idle"]
    /\ cpc = "idle" /\ cur = Unread /\ b = Unread /\ nxt = Null
    /\ queue = <<>>

----------------------------------------------------------------------------
\* push(first, last)

\* The nodes of a batch, linked by the caller, with last.next as push leaves it.
Linked(s) ==
    [n \in Members(s) |->
        LET i == CHOOSE i \in DOMAIN s : s[i] = n
        IN  IF i = Len(s) THEN Null ELSE s[i + 1]]

Override(f, g) == [x \in DOMAIN f |-> IF x \in DOMAIN g THEN g[x] ELSE f[x]]

StartPush(p, s) ==
    /\ ppc[p] = "idle" /\ cpc \notin {"closing", "drain", "closed"}
    /\ Members(s) \subseteq Free
    /\ next' = Override(next, Linked(s))
    /\ batch' = [batch EXCEPT ![p] = s]
    /\ ppc' = [ppc EXCEPT ![p] = "exchange"]
    /\ UNCHANGED <<front, back, prev, consuming, queue>>

ExchangeBack(p) ==
    /\ ppc[p] = "exchange"
    /\ back' = batch[p][Len(batch[p])]
    /\ prev' = [prev EXCEPT ![p] = back]
    /\ ppc' = [ppc EXCEPT ![p] = "link"]
    /\ queue' = queue \o batch[p]
    /\ UNCHANGED <<front, next, batch, consuming>>

\* Faulty variant: a batch is linked at its wrong end.
LinkPrev_Last(p) ==
    /\ ppc[p] = "link"
    /\ IF prev[p] = Null
       THEN front' = Head(batch[p]) /\ UNCHANGED next
       ELSE next' = [next EXCEPT ![prev[p]] = batch[p][Len(batch[p])]] /\ UNCHANGED front
    /\ batch' = [batch EXCEPT ![p] = <<>>]
    /\ prev' = [prev EXCEPT ![p] = Null]
    /\ ppc' = [ppc EXCEPT ![p] = "idle"]
    /\ UNCHANGED <<back, consuming, queue>>

LinkPrev(p) ==
    /\ ppc[p] = "link"
    /\ IF prev[p] = Null
       THEN front' = Head(batch[p]) /\ UNCHANGED next
       ELSE next' = [next EXCEPT ![prev[p]] = Head(batch[p])] /\ UNCHANGED front
    /\ batch' = [batch EXCEPT ![p] = <<>>]
    /\ prev' = [prev EXCEPT ![p] = Null]
    /\ ppc' = [ppc EXCEPT ![p] = "idle"]
    /\ UNCHANGED <<back, consuming, queue>>

----------------------------------------------------------------------------
\* process(f)

StartProcess ==
    /\ cpc = "idle"
    /\ cpc' = "load"
    /\ UNCHANGED <<shared, pushing, cur, b, nxt, queue>>

LoadFront ==
    /\ cpc = "load" /\ cur = Unread
    /\ cur' = front
    /\ cpc' = IF b = Unread THEN "load" ELSE "loop"
    /\ UNCHANGED <<shared, pushing, b, nxt, queue>>

LoadBack ==
    /\ cpc = "load" /\ b = Unread
    /\ b' = back
    /\ cpc' = IF cur = Unread THEN "load" ELSE "loop"
    /\ UNCHANGED <<shared, pushing, cur, nxt, queue>>

\* process returns; its locals are gone.
Done ==
    /\ cpc' = "idle"
    /\ cur' = Unread /\ b' = Unread /\ nxt' = Null

AtStub ==
    /\ cpc = "loop" /\ cur = Stub
    /\ Done
    /\ UNCHANGED <<shared, pushing, queue>>

\* Faulty variant: a missing next is taken for the end of the queue.
ReadNext_NoHalfway ==
    /\ cpc = "loop" /\ cur # Stub /\ cur # b
    /\ nxt' = next[cur]
    /\ cpc' = "callback"
    /\ UNCHANGED <<shared, pushing, cur, b, queue>>

ReadNext ==
    /\ cpc = "loop" /\ cur # Stub /\ cur # b
    /\ nxt' = next[cur]
    /\ cpc' = IF next[cur] = Null THEN "store" ELSE "callback"
    /\ UNCHANGED <<shared, pushing, cur, b, queue>>

\* Faulty variant: the newest node is given to the callback, too.
ReachBack_TakesLast ==
    /\ cpc = "loop" /\ cur # Stub /\ cur = b
    /\ nxt' = next[cur]
    /\ cpc' = "callback"
    /\ UNCHANGED <<shared, pushing, cur, b, queue>>

ReachBack ==
    /\ cpc = "loop" /\ cur # Stub /\ cur = b
    /\ cpc' = "store"
    /\ UNCHANGED <<shared, pushing, cur, b, nxt, queue>>

\* The callback owns cur from here on; it may ask to go on or to stop.
Callback ==
    /\ cpc = "callback"
    /\ queue' = Tail(queue)
    /\ \/ cpc' = "loop" /\ cur' = nxt
       \/ cpc' = "stop" /\ UNCHANGED cur
    /\ UNCHANGED <<shared, pushing, b, nxt>>

\* Faulty variant: the node given to the callback is kept.
StoreStop_Cur ==
    /\ cpc = "stop"
    /\ front' = cur
    /\ Done
    /\ UNCHANGED <<back, next, pushing, queue>>

StoreStop ==
    /\ cpc = "stop"
    /\ front' = nxt
    /\ Done
    /\ UNCHANGED <<back, next, pushing, queue>>

StoreEnd ==
    /\ cpc = "store"
    /\ front' = cur
    /\ Done
    /\ UNCHANGED <<back, next, pushing, queue>>

----------------------------------------------------------------------------
\* destructive_process(f): "No other related threads shall exist here."

StartClosing ==
    /\ cpc = "idle" /\ \A p \in Producers : ppc[p] = "idle"
    /\ cpc' = "closing"
    /\ cur' = IF front = Stub THEN Null ELSE front
    /\ UNCHANGED <<shared, pushing, b, nxt, queue>>

DrainNext ==
    /\ cpc = "closing" /\ cur # Null
    /\ nxt' = next[cur]
    /\ cpc' = "drain"
    /\ UNCHANGED <<shared, pushing, cur, b, queue>>

DrainCallback ==
    /\ cpc = "drain"
    /\ queue' = Tail(queue)
    /\ cur' = nxt
    /\ cpc' = "closing"
    /\ UNCHANGED <<shared, pushing, b, nxt>>

EndClosing ==
    /\ cpc = "closing" /\ cur = Null
    /\ cpc' = "closed"
    /\ UNCHANGED <<shared, pushing, cur, b, nxt, queue>>

----------------------------------------------------------------------------
Push(p) == ExchangeBack(p) \/ LinkPrev(p)

Process ==
    \/ LoadFront \/ LoadBack \/ AtStub \/ ReadNext \/ ReachBack
    \/ Callback \/ StoreStop \/ StoreEnd

Drain == DrainNext \/ DrainCallback \/ EndClosing

QueueNext ==
    \/ \E p \in Producers : Push(p) \/ \E s \in Batches : StartPush(p, s)
    \/ StartProcess \/ Process
    \/ StartClosing \/ Drain

QueueSafety == QueueInit /\ [][QueueNext]_queueVars

\* Threads inside an operation are scheduled, and the consumer calls process
\* again and again, as the queue's only consumer must.
QueueSpec ==
    /\ QueueSafety
    /\ \A p \in Producers : WF_queueVars(Push(p))
    /\ WF_queueVars(StartProcess) /\ WF_queueVars(Process) /\ WF_queueVars(Drain)
----------------------------------------------------------------------------
QueueTypeOK ==
    /\ front \in Nodes \cup {Stub} /\ back \in Nodes \cup {Null}
    /\ next \in [Nodes -> Nodes \cup {Null}]
    /\ batch \in [Producers -> Batches \cup {<<>>}]
    /\ prev \in [Producers -> Nodes \cup {Null}]
    /\ ppc \in [Producers -> {"idle", "exchange", "link"}]
    /\ cpc \in {"idle", "load", "loop", "callback", "stop", "store",
                "closing", "drain", "closed"}
    /\ cur \in Nodes \cup {Stub, Null, Unread}
    /\ cpc \in {"loop", "callback", "stop", "store"} => cur \notin {Null, Unread}
    /\ b \in Nodes \cup {Null, Unread}
    /\ nxt \in Nodes \cup {Null}
    /\ queue \in Seq(Nodes)

\* The oldest node left, as the consumer knows it.
Oldest ==
    IF cpc = "stop" THEN nxt
    ELSE IF cpc \in {"loop", "callback", "store"} THEN cur
    ELSE front

\* Between its exchange and its link a producer owes the link to its batch.
Owes(p, from, to) == ppc[p] = "link" /\ prev[p] = from /\ Head(batch[p]) = to

\* The linked list holds the nodes of the queue in the order of the exchanges of
\* back_: wherever a link is missing a producer is about to store it, and the
\* consumer stands at the oldest node (push and process).
ListIsQueue ==
    /\ QueueTypeOK
    /\ cpc \notin {"closing", "drain", "closed"} =>
        /\ back = IF queue = <<>> THEN Null ELSE queue[Len(queue)]
        /\ back # Null => next[back] = Null
        /\ \A i \in 1 .. Len(queue) - 1 :
              \/ next[queue[i]] = queue[i + 1]
              \/ /\ next[queue[i]] = Null
                 /\ \E p \in Producers : Owes(p, queue[i], queue[i + 1])
        /\ queue # <<>> =>
              \/ Oldest = queue[1]
              \/ /\ Oldest = Stub
                 /\ front = Stub => \E p \in Producers : Owes(p, Null, queue[1])

\* A node is given to the callback exactly once, in the order of the pushes: the
\* node given is the oldest that has not been ("process each node"), and
\* destructive_process leaves none behind ("must process all nodes left").
ProcessesInOrder ==
    /\ cpc \in {"callback", "drain"} => queue # <<>> /\ cur = queue[1]
    /\ cpc = "closed" => queue = <<>>

\* The node a producer is about to store a link into has not been given to the
\* callback, which may have freed it, and no other producer links to it; the
\* nodes it links have not been given either.
NoLateLink ==
    \A p \in Producers : ppc[p] = "link" =>
        /\ Members(batch[p]) \subseteq Members(queue)
        /\ prev[p] # Null => prev[p] \in Members(queue) /\ next[prev[p]] = Null
        /\ \A q \in Producers : ppc[q] = "link" /\ prev[q] = prev[p] => q = p

\* What comes out was pushed before, in that order, the newest node is kept back
\* until the end, and every other node comes out eventually, early stops and half
\* done pushes notwithstanding.
QueuePromise == INSTANCE FifoQueue WITH
    items <- queue, closed <- cpc \in {"closing", "drain", "closed"}

ImplementsFifo == QueuePromise!Spec

----------------------------------------------------------------------------
\* Why they hold: together the following are inductive.

Closing == {"closing", "drain", "closed"}

\* The batch of a producer is in the queue from the i-th node on, and what its
\* link goes into has waited for it since its exchange.
Joins(p, i) ==
    /\ i + Len(batch[p]) - 1 <= Len(queue)
    /\ \A j \in 1 .. Len(batch[p]) : queue[i + j - 1] = batch[p][j]
    /\ IF prev[p] = Null THEN i = 1 /\ front = Stub
       ELSE i > 1 /\ queue[i - 1] = prev[p] /\ next[prev[p]] = Null

\* A batch is linked before it is exchanged in, and in the queue from then on.
InPlace(p) ==
    /\ ppc[p] = "idle" <=> batch[p] = <<>>
    /\ ppc[p] = "exchange" =>
          /\ Members(batch[p]) \cap Members(queue) = {}
          /\ \A i \in 1 .. Len(batch[p]) :
                next[batch[p][i]] = IF i = Len(batch[p]) THEN Null ELSE batch[p][i + 1]
    /\ ppc[p] = "link" => \E i \in 1 .. Len(queue) : Joins(p, i)

\* No node is in two places.
NodesApart ==
    /\ \A i, j \in 1 .. Len(queue) : queue[i] = queue[j] => i = j
    /\ \A p, q \in Producers : p # q => Members(batch[p]) \cap Members(batch[q]) = {}
    /\ \A p \in Producers : InPlace(p)

\* The i-th node of the queue is linked to the next, or about to be.
Follows(i) ==
    \/ next[queue[i]] = queue[i + 1]
    \/ next[queue[i]] = Null /\ \E p \in Producers : Owes(p, queue[i], queue[i + 1])

\* The list behind its first node.
ListFollows ==
    /\ \A i \in 1 .. Len(queue) - 1 : Follows(i)
    /\ queue # <<>> => next[queue[Len(queue)]] = Null
    /\ cpc \notin Closing => back = IF queue = <<>> THEN Null ELSE queue[Len(queue)]

\* The first node of the list, for the consumer: front_ is set once by a producer
\* and is stale while the consumer has a node in cur.  Only nodes with a
\* successor are given to the callback, which is why b stays in the queue.
AtFront ==
    /\ queue = <<>> => front = Stub
    /\ front = Stub =>
          /\ cpc \in {"idle", "load", "loop"} /\ cur \in {Unread, Stub}
          /\ queue # <<>> => \E p \in Producers : Owes(p, Null, queue[1])
    /\ front # Stub =>
          /\ cpc \in {"idle", "load"} \/ cur = Stub => front = queue[1]
          /\ cpc \in {"callback", "store"} => cur = queue[1]
          /\ cpc \in {"load", "loop"} => cur \in {Unread, Stub, queue[1]}
    /\ cpc = "idle" => cur = Unread /\ b = Unread
    /\ cpc = "callback" => Len(queue) > 1 /\ nxt = queue[2] /\ next[cur] = nxt /\ cur # b
    /\ cpc = "stop" => nxt = queue[1] /\ cur # Stub
    /\ b \in {Unread, Null} \cup Members(queue)

\* Its first node for destructive_process.
AtDrain ==
    /\ \A p \in Producers : ppc[p] = "idle"
    /\ cpc = "closing" => cur = IF queue = <<>> THEN Null ELSE queue[1]
    /\ cpc = "drain" =>
          /\ queue # <<>> /\ cur = queue[1]
          /\ nxt = IF Len(queue) = 1 THEN Null ELSE queue[2]
    /\ cpc = "closed" => queue = <<>>

ConsumerFollows == IF cpc \in Closing THEN AtDrain ELSE AtFront

QueueIInv == QueueTypeOK /\ NodesApart /\ ListFollows /\ ConsumerFollows
============================================================================
