-------------------------------- MODULE List -------------------------------
(***************************************************************************)
(* include/ciel/experimental/list.hpp: lists as rings through a sentinel   *)
(* each, and a stack of free nodes that every list keeps to itself.        *)
(*                                                                         *)
(* Operations run one at a time, so each is one step; the operators below  *)
(* compute its effect on the heap, link by link and in the order of the    *)
(* code.  A list's name is the address of its end_node_.  The allocator    *)
(* gives out the free node with the lowest address and throws when there   *)
(* is none; besides, any construction or assignment of a value may throw.  *)
(***************************************************************************)
EXTENDS Integers, Sequences, FiniteSets

CONSTANTS Lists,
          MaxNode,      \* bound: the nodes of the heap are 1 .. MaxNode
          Values, MaxInsert,    \* bound: values per insertion
          Raw,          \* the memory of a node that holds no value; not in Values
          Null          \* not in Bases

Room == 1 .. MaxNode
Bases == Room \cup Lists

Inputs == UNION {[1 .. k -> Values] : k \in 0 .. MaxInsert}

VARIABLES
    heap,       \* a record of
                \*   prev, next   the links of nodes and sentinels
                \*   value        value_ of a node, or Raw
                \*   used         the nodes allocated
                \*   free, size   free_node_ and size_ of each list
    threw,      \* history: the last operation was left by an exception
    wild        \* the sentinel of an empty list was taken over; the behaviour
                \* is undefined from here on

vars == <<heap, threw, wild>>

Init ==
    /\ heap = [prev |-> [b \in Bases |-> b], next |-> [b \in Bases |-> b],
               value |-> [n \in Room |-> Raw], used |-> {},
               free |-> [l \in Lists |-> Null], size |-> [l \in Lists |-> 0]]
    /\ threw = FALSE /\ wild = FALSE

Before(h, b) == h.prev[b]

----------------------------------------------------------------------------
\* Nodes: get_one_free_node and store_one_free_node.

Unused(h) == Room \ h.used

CanGet(h, l) == h.free[l] # Null \/ Unused(h) # {}

Lowest(s) == CHOOSE n \in s : \A m \in s : n <= m

FreeNode(h, l) == IF h.free[l] # Null THEN h.free[l] ELSE Lowest(Unused(h))

GetFreeNode(h, l) ==
    IF h.free[l] # Null
    THEN [h EXCEPT !.free[l] = h.next[h.free[l]]]
    ELSE [h EXCEPT !.used = @ \cup {FreeNode(h, l)}]

StoreFreeNode(h, l, n) == [h EXCEPT !.next[n] = h.free[l], !.free[l] = n]

----------------------------------------------------------------------------
\* alloc_range_destroy(first, last)

RECURSIVE DestroyNodes(_, _, _, _)
DestroyNodes(h, l, n, last) ==
    IF n = last THEN h
    ELSE DestroyNodes(StoreFreeNode([h EXCEPT !.value[n] = Raw, !.size[l] = @ - 1], l, n),
                      l, h.next[n], last)

\* Faulty variant: the node before is read after the loop.
DestroyRange_LateBefore(h, l, first, last) ==
    LET g == DestroyNodes(h, l, first, last)
        before == Before(h, last)
    IN  [g EXCEPT !.next[before] = last, !.prev[last] = before]

DestroyRange(h, l, first, last) ==
    LET before == Before(h, first)
        g == DestroyNodes(h, l, first, last)
    IN  [g EXCEPT !.next[before] = last, !.prev[last] = before]

\* alloc_range_construct_n and alloc_range_construct.

ConstructNode(h, l, at, v) ==
    LET n == FreeNode(h, l)
        before == Before(h, at)
        g == GetFreeNode(h, l)
    IN  [g EXCEPT !.prev = [@ EXCEPT ![n] = before, ![at] = n],
                  !.next = [@ EXCEPT ![n] = at, ![before] = n],
                  !.value[n] = v, !.size[l] = @ + 1]

\* The values s in turn before `at`, up to the one whose construction throws, if
\* any, or the one no node is left for.  The result says whether it threw.
RECURSIVE ConstructNodes(_, _, _, _, _)
ConstructNodes(h, l, at, s, fail) ==
    IF s = <<>> THEN [heap |-> h, threw |-> FALSE]
    ELSE IF ~CanGet(h, l) THEN [heap |-> h, threw |-> TRUE]
    ELSE IF fail = 1
    THEN [heap |-> StoreFreeNode(GetFreeNode(h, l), l, FreeNode(h, l)), threw |-> TRUE]
    ELSE ConstructNodes(ConstructNode(h, l, at, Head(s)), l, at, Tail(s), fail - 1)

\* Faulty variant: what was constructed before the exception stays.
ConstructRange_Keeps(h, l, at, s, fail) == ConstructNodes(h, l, at, s, fail)

\* fail = 0: nothing throws.
ConstructRange(h, l, at, s, fail) ==
    LET original == Before(h, at)
        res == ConstructNodes(h, l, at, s, fail)
    IN  IF res.threw
        THEN [res EXCEPT !.heap = DestroyRange(@, l, @.next[original], at)]
        ELSE res

----------------------------------------------------------------------------
\* do_destroy: every node goes back to the allocator.

RECURSIVE Ring(_, _, _)
Ring(h, n, last) == IF n = last THEN <<>> ELSE <<n>> \o Ring(h, h.next[n], last)

RECURSIVE FreeNodes(_, _)
FreeNodes(h, n) == IF n = Null THEN <<>> ELSE <<n>> \o FreeNodes(h, h.next[n])

Elements(s) == {s[i] : i \in DOMAIN s}

InRing(h, l) == Elements(Ring(h, h.next[l], l))

InFree(h, l) == Elements(FreeNodes(h, h.free[l]))

\* Links of memory that was given back mean nothing; they are reset here so that
\* states that differ in them alone are one.
Deallocate(h, s) ==
    [h EXCEPT !.used = @ \ s,
              !.value = [n \in Room |-> IF n \in s THEN Raw ELSE @[n]],
              !.prev = [b \in Bases |-> IF b \in s THEN b ELSE @[b]],
              !.next = [b \in Bases |-> IF b \in s THEN b ELSE @[b]]]

DoDestroy(h, l) ==
    [Deallocate(h, InRing(h, l) \cup InFree(h, l)) EXCEPT !.free[l] = Null]

\* list_node_base::clear, and what a list that was moved from keeps.
Clear(h, l) ==
    [h EXCEPT !.prev[l] = l, !.next[l] = l, !.free[l] = Null, !.size[l] = 0]

\* end_node_.next_->prev_ = &end_node_, end_node_.prev_->next_ = &end_node_
Reattach(h, l) ==
    LET g == [h EXCEPT !.prev[h.next[l]] = l]
    IN  [g EXCEPT !.next[g.prev[l]] = l]

\* The moves: l takes what m has.
TakeOver(h, l, m) ==
    Clear(Reattach([h EXCEPT !.prev[l] = h.prev[m], !.next[l] = h.next[m],
                             !.free[l] = h.free[m], !.size[l] = h.size[m]], l), m)

SwapLists(h, l, m) ==
    LET g == [h EXCEPT !.prev = [@ EXCEPT ![l] = h.prev[m], ![m] = h.prev[l]],
                       !.next = [@ EXCEPT ![l] = h.next[m], ![m] = h.next[l]],
                       !.free = [@ EXCEPT ![l] = h.free[m], ![m] = h.free[l]],
                       !.size = [@ EXCEPT ![l] = h.size[m], ![m] = h.size[l]]]
    IN  Reattach(Reattach(g, l), m)

----------------------------------------------------------------------------
\* assign

\* Values are assigned to n and those after it, up to the end, the last value,
\* or the assignment that throws.
RECURSIVE Overwrite(_, _, _, _, _)
Overwrite(h, l, n, s, fail) ==
    IF s = <<>> \/ n = l \/ fail = 1
    THEN [heap |-> h, at |-> n, rest |-> s, fail |-> fail]
    ELSE Overwrite([h EXCEPT !.value[n] = Head(s)], l, h.next[n], Tail(s), fail - 1)

AssignRange(h, l, s, fail) ==
    LET res == Overwrite(h, l, h.next[l], s, fail)
    IN  IF res.at = l THEN ConstructRange(res.heap, l, l, res.rest, res.fail)
        ELSE IF res.fail = 1 /\ res.rest # <<>> THEN [heap |-> res.heap, threw |-> TRUE]
        ELSE [heap |-> DestroyRange(res.heap, l, res.at, l), threw |-> FALSE]

Contents(l) ==
    LET ring == Ring(heap, heap.next[l], l)
    IN  [i \in DOMAIN ring |-> heap.value[ring[i]]]

Positions(l) == InRing(heap, l) \cup {l}

----------------------------------------------------------------------------
Becomes(res) == heap' = res.heap /\ threw' = res.threw

\* insert, emplace, push_back, push_front, resize and the constructors.
Insert(l) ==
    \E at \in Positions(l), s \in Inputs : \E fail \in 0 .. Len(s) :
        Becomes(ConstructRange(heap, l, at, s, fail))

\* erase, pop_back, pop_front, clear and resize.
Erase(l) ==
    \E first \in Positions(l) :
        \E last \in Elements(Ring(heap, first, l)) \cup {l} :
            heap' = DestroyRange(heap, l, first, last) /\ threw' = FALSE

\* assign and operator=(initializer_list).
Assign(l) ==
    \E s \in Inputs : \E fail \in 0 .. Len(s) :
        Becomes(AssignRange(heap, l, s, fail))

\* operator=(const list&)
CopyAssign(l, m) ==
    \E fail \in 0 .. heap.size[m] :
        Becomes(AssignRange(heap, l, Contents(m), fail))

\* The destructor, and a new empty list in its place.
Destroy(l) == heap' = Clear(DoDestroy(heap, l), l) /\ threw' = FALSE

\* operator=(list&&); after Destroy(l), list(list&&).
MoveAssign(l, m) ==
    /\ heap' = TakeOver(DoDestroy(heap, l), l, m)
    /\ wild' = (heap.size[m] = 0)
    /\ threw' = FALSE

Swap(l, m) ==
    /\ heap' = SwapLists(heap, l, m)
    /\ wild' = (heap.size[l] = 0 \/ heap.size[m] = 0)
    /\ threw' = FALSE

Next ==
    /\ ~wild
    /\ \/ /\ UNCHANGED wild
          /\ \/ \E l \in Lists : Insert(l) \/ Erase(l) \/ Assign(l) \/ Destroy(l)
             \/ \E l, m \in Lists : l # m /\ CopyAssign(l, m)
       \/ \E l, m \in Lists : l # m /\ (MoveAssign(l, m) \/ Swap(l, m))

Spec == Init /\ [][Next]_vars
----------------------------------------------------------------------------
TypeOK ==
    /\ heap.prev \in [Bases -> Bases]
    /\ heap.next \in [Bases -> Bases \cup {Null}]
    /\ heap.value \in [Room -> Values \cup {Raw}]
    /\ heap.used \subseteq Room
    /\ heap.free \in [Lists -> Room \cup {Null}]
    /\ heap.size \in [Lists -> 0 .. MaxNode]
    /\ threw \in BOOLEAN /\ wild \in BOOLEAN

\* The nodes one reaches from b by next, at most MaxNode + 1 of them.
Reach(b) ==
    LET path[i \in 0 .. MaxNode + 1] ==
            IF i = 0 THEN heap.next[b]
            ELSE IF path[i - 1] = Null \/ path[i - 1] = b THEN path[i - 1]
            ELSE heap.next[path[i - 1]]
    IN  {path[i] : i \in 0 .. MaxNode + 1}

\* l is a ring of size_ nodes through its own sentinel and no other, and prev_
\* runs it backwards.
RingOK(l) ==
    LET ring == Reach(l) IN
        /\ l \in ring /\ ring \ {l} \subseteq heap.used
        /\ Cardinality(ring) = heap.size[l] + 1
        /\ \A b \in ring : heap.prev[heap.next[b]] = b

\* Every list is a ring of its elements, whatever has been done to it.
RingsIntact == \A l \in Lists : RingOK(l)

\* As long as no empty list is moved from or swapped.
RingsIntactUnlessWild == wild \/ RingsIntact

\* Every allocated node is in one list, as an element or as a free node, and
\* holds a value exactly while it is an element: nothing leaks, is freed twice or
\* belongs to two lists, exceptions, moves and swaps notwithstanding.
NodesAccounted ==
    wild \/
        /\ heap.used = UNION {InRing(heap, l) \cup InFree(heap, l) : l \in Lists}
        /\ \A l, m \in Lists :
              /\ InRing(heap, l) \cap InFree(heap, m) = {}
              /\ l # m => /\ InRing(heap, l) \cap InRing(heap, m) = {}
                          /\ InFree(heap, l) \cap InFree(heap, m) = {}
        /\ \A n \in Room : heap.value[n] # Raw <=> \E l \in Lists : n \in InRing(heap, l)

\* Until then the lists are sequences, an insertion that throws has no effect,
\* and an assignment that throws keeps the values there were or those it gives.
Promise == INSTANCE SequenceContainers WITH
    Containers <- Lists,
    contents <- [l \in Lists |-> IF wild THEN <<>> ELSE Contents(l)]

ImplementsSequences == Promise!Init /\ [][~wild' => Promise!Next]_vars
============================================================================
