---------------------------- MODULE TreiberStack ---------------------------
(***************************************************************************)
(* include/ciel/core/treiber_stack.hpp on the two kinds of aba             *)
(* (core/aba.hpp): a packed_ptr whose count of updates wraps, and a        *)
(* spinlock_ptr that is locked from read() to the end of the operation.    *)
(*                                                                         *)
(* An operation begins with its read().  A node that was popped, or popped *)
(* with the rest, may be pushed again at once, by anybody, while others    *)
(* still read its next.                                                    *)
(***************************************************************************)
EXTENDS Integers, Sequences, FiniteSets

CONSTANTS Nodes, Batches, Threads,
          Wrap,         \* 2^16, the values of the count
          Null

\* Batches have no node twice.
StackAssumption ==
    /\ IsFiniteSet(Nodes) /\ Null \notin Nodes /\ Wrap \in Nat \ {0}
    /\ Batches \subseteq Seq(Nodes) \ {<<>>}
    /\ \A s \in Batches : \A i, j \in DOMAIN s : s[i] = s[j] => i = j

VARIABLES
    kindOfAba,      \* "PackedPtr" or "SpinlockPtr"
    ptr, count,     \* the packed_ptr, or the spinlock_ptr, which has no count
    locked,         \* the lock bit of the latter
    next,           \* the next fields of the nodes
    pc,
    batch,          \* of a thread: the argument of push
    old,            \* of a thread: old_ of impl
    nxt,            \* of a thread: the local next of pop
    age,            \* history: updates since a thread's read, up to Wrap
    overslept       \* history: a store_conditional succeeded after Wrap updates

stackVars == <<kindOfAba, ptr, count, locked, next, pc, batch, old, nxt, age, overslept>>

\* "idle"; in push "link", "cas"; in pop "next", "popCas"; in pop_all "all"; and
\* "unlock", in the destructor of the SpinlockPtr's impl
Retries == [cas |-> "link", popCas |-> "next", all |-> "all"]

Nothing == [ptr |-> Null, count |-> 0]

Packed == [ptr |-> ptr, count |-> count]

Init ==
    /\ kindOfAba \in {"PackedPtr", "SpinlockPtr"}
    /\ ptr = Null /\ count = 0 /\ locked = FALSE
    /\ next = [n \in Nodes |-> n]
    /\ pc = [t \in Threads |-> "idle"]
    /\ batch = [t \in Threads |-> <<>>]
    /\ old = [t \in Threads |-> Nothing]
    /\ nxt = [t \in Threads |-> Null]
    /\ age = [t \in Threads |-> 0] /\ overslept = FALSE

\* The nodes from top along the links in succ, cut off if they form a ring.
Walk(top, succ) ==
    LET node[k \in 0 .. Cardinality(Nodes)] ==
            IF k = 0 THEN top ELSE IF node[k - 1] = Null THEN Null ELSE succ[node[k - 1]]
    IN  [k \in {i \in 1 .. Cardinality(Nodes) : node[i - 1] # Null} |-> node[k - 1]]

\* The stack.
Chain == Walk(ptr, next)

Members(s) == {s[i] : i \in DOMAIN s}

\* The nodes that belong neither to the stack nor to a push under way.
Free == Nodes \ (Members(Chain) \cup UNION {Members(batch[t]) : t \in Threads})

----------------------------------------------------------------------------
\* aba

\* read(), the first step of every operation.
Read(t, state) ==
    /\ pc[t] = "idle"
    /\ IF kindOfAba = "PackedPtr"
       THEN old' = [old EXCEPT ![t] = Packed] /\ UNCHANGED locked
       ELSE ~locked /\ locked' = TRUE /\ UNCHANGED old
    /\ pc' = [pc EXCEPT ![t] = state]
    /\ UNCHANGED age

\* impl::ptr()
Seen(t) == IF kindOfAba = "PackedPtr" THEN old[t].ptr ELSE ptr

\* The operation returns; impl is destroyed.
Finish(t) ==
    /\ pc' = [pc EXCEPT ![t] = IF kindOfAba = "PackedPtr" THEN "idle" ELSE "unlock"]
    /\ batch' = [batch EXCEPT ![t] = <<>>]
    /\ nxt' = [nxt EXCEPT ![t] = Null]
    /\ old' = [old EXCEPT ![t] = Nothing]

\* The reads of the others are older by one update.
Older(t) ==
    [u \in Threads |-> IF u = t \/ pc[u] = "idle" THEN 0
                       ELSE IF age[u] < Wrap THEN age[u] + 1 ELSE Wrap]

\* Faulty variant: the count is stored as it was.
Store_SameCount(t, n) ==
    /\ kindOfAba = "PackedPtr" => Packed = old[t]
    /\ ptr' = n
    /\ UNCHANGED count
    /\ age' = Older(t)
    /\ overslept' = (kindOfAba = "PackedPtr" /\ age[t] = Wrap)

\* store_conditional(n) that succeeds
Store(t, n) ==
    /\ kindOfAba = "PackedPtr" => Packed = old[t]
    /\ ptr' = n
    /\ count' = IF kindOfAba = "PackedPtr" THEN (count + 1) % Wrap ELSE count
    /\ age' = Older(t)
    /\ overslept' = (kindOfAba = "PackedPtr" /\ age[t] = Wrap)

\* store_conditional that fails, which the weak compare_exchange may do for no
\* reason; the loop starts again.
Fails(t) ==
    /\ kindOfAba = "PackedPtr" /\ pc[t] \in DOMAIN Retries
    /\ old' = [old EXCEPT ![t] = Packed]
    /\ age' = [age EXCEPT ![t] = 0]
    /\ pc' = [pc EXCEPT ![t] = Retries[pc[t]]]
    /\ nxt' = [nxt EXCEPT ![t] = Null]
    /\ UNCHANGED <<kindOfAba, ptr, count, locked, next, batch, overslept>>

Unlock(t) ==
    /\ pc[t] = "unlock"
    /\ locked' = FALSE
    /\ pc' = [pc EXCEPT ![t] = "idle"]
    /\ UNCHANGED <<kindOfAba, ptr, count, next, batch, old, nxt, age, overslept>>

----------------------------------------------------------------------------
\* treiber_stack

\* push(first, last) of nodes the caller has linked
StartPush(t, s) ==
    /\ Members(s) \subseteq Free
    /\ Read(t, "link")
    /\ batch' = [batch EXCEPT ![t] = s]
    /\ next' = [n \in Nodes |-> IF \E i \in 1 .. Len(s) - 1 : s[i] = n
                                THEN s[1 + CHOOSE i \in 1 .. Len(s) - 1 : s[i] = n]
                                ELSE next[n]]
    /\ UNCHANGED <<kindOfAba, ptr, count, nxt, overslept>>

LinkTop(t) ==
    /\ pc[t] = "link"
    /\ next' = [next EXCEPT ![batch[t][Len(batch[t])]] = Seen(t)]
    /\ pc' = [pc EXCEPT ![t] = "cas"]
    /\ UNCHANGED <<kindOfAba, ptr, count, locked, batch, old, nxt, age, overslept>>

PushCas(t) ==
    /\ pc[t] = "cas"
    /\ Store(t, Head(batch[t]))
    /\ Finish(t)
    /\ UNCHANGED <<kindOfAba, locked, next>>

StartPop(t) ==
    /\ Read(t, "next") \/ Read(t, "all")
    /\ UNCHANGED <<kindOfAba, ptr, count, next, batch, nxt, overslept>>

\* pop and pop_all return nullptr.
FindEmpty(t) ==
    /\ pc[t] \in {"next", "all"} /\ Seen(t) = Null
    /\ Finish(t)
    /\ age' = [age EXCEPT ![t] = 0]
    /\ UNCHANGED <<kindOfAba, ptr, count, locked, next, overslept>>

PopNext(t) ==
    /\ pc[t] = "next" /\ Seen(t) # Null
    /\ nxt' = [nxt EXCEPT ![t] = next[Seen(t)]]
    /\ pc' = [pc EXCEPT ![t] = "popCas"]
    /\ UNCHANGED <<kindOfAba, ptr, count, locked, next, batch, old, age, overslept>>

PopCas(t) ==
    /\ pc[t] = "popCas"
    /\ Store(t, nxt[t])
    /\ Finish(t)
    /\ UNCHANGED <<kindOfAba, locked, next>>

PopAll(t) ==
    /\ pc[t] = "all" /\ Seen(t) # Null
    /\ Store(t, Null)
    /\ Finish(t)
    /\ UNCHANGED <<kindOfAba, locked, next>>

----------------------------------------------------------------------------
Operate(t) ==
    \/ LinkTop(t) \/ PushCas(t)
    \/ FindEmpty(t) \/ PopNext(t) \/ PopCas(t) \/ PopAll(t)
    \/ Fails(t) \/ Unlock(t)

StackNext ==
    /\ ~overslept
    /\ \E t \in Threads :
          Operate(t) \/ StartPop(t) \/ \E s \in Batches : StartPush(t, s)

StackSpec == Init /\ [][StackNext]_stackVars
----------------------------------------------------------------------------
StackTypeOK ==
    /\ ptr \in Nodes \cup {Null} /\ count \in 0 .. Wrap - 1 /\ locked \in BOOLEAN
    /\ next \in [Nodes -> Nodes \cup {Null}] /\ nxt \in [Threads -> Nodes \cup {Null}]
    /\ pc \in [Threads -> {"idle", "link", "next", "unlock"} \cup DOMAIN Retries]
    /\ batch \in [Threads -> Batches \cup {<<>>}]
    /\ old \in [Threads -> [ptr : Nodes \cup {Null}, count : 0 .. Wrap - 1]]
    /\ age \in [Threads -> 0 .. Wrap] /\ overslept \in BOOLEAN

Promise == INSTANCE LifoStack WITH items <- Chain

\* Every operation is that of a stack and takes effect at once, except for one
\* that slept through as many updates as the count has values (aba.hpp:20-23).
ImplementsStack ==
    /\ []StackTypeOK
    /\ Promise!Init /\ [][~overslept' => Promise!Next]_Chain
----------------------------------------------------------------------------
\* Why it holds: together the following are inductive while nobody overslept.

Busy(t) == pc[t] \notin {"idle", "unlock"}

\* s are the nodes from top along the links in succ, down to a Null.
IsWalk(s, top, succ) ==
    /\ s \in Seq(Nodes) /\ \A i, j \in DOMAIN s : s[i] = s[j] => i = j
    /\ top = IF s = <<>> THEN Null ELSE s[1]
    /\ \A i \in DOMAIN s : succ[s[i]] = IF i = Len(s) THEN Null ELSE s[i + 1]

\* The stack is no ring, and shares no node with the batches that are being
\* pushed, nor do these with each other; each is linked but for its last node.
Apart ==
    /\ IsWalk(Chain, ptr, next)
    /\ \A t \in Threads :
          /\ batch[t] # <<>> <=> pc[t] \in {"link", "cas"}
          /\ Members(batch[t]) \cap Members(Chain) = {}
          /\ \A u \in Threads : u # t => Members(batch[t]) \cap Members(batch[u]) = {}
          /\ \A i \in 1 .. Len(batch[t]) - 1 : next[batch[t][i]] = batch[t][i + 1]

\* The count has gone up by one for each update, and the lock bit lets none go by.
Counted ==
    \A t \in Threads :
        IF kindOfAba = "PackedPtr"
        THEN /\ pc[t] # "unlock" /\ (pc[t] = "idle" => age[t] = 0)
             /\ Busy(t) /\ age[t] < Wrap => count \in {old[t].count + age[t],
                                                     old[t].count + age[t] - Wrap}
        ELSE /\ age[t] = 0
             /\ pc[t] # "idle" => locked /\ \A u \in Threads : pc[u] # "idle" => u = t

\* What was read is true until the next update, although others change the
\* links of their own nodes meanwhile.
ReadsHold ==
    \A t \in Threads : Busy(t) /\ age[t] = 0 =>
        /\ Seen(t) = ptr
        /\ pc[t] = "cas" => next[batch[t][Len(batch[t])]] = ptr
        /\ pc[t] = "popCas" => ptr # Null /\ nxt[t] = next[ptr]

StackIInv == StackTypeOK /\ (~overslept => Apart /\ Counted /\ ReadsHold)
============================================================================
