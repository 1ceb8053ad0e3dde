# Verification of ciellab

TLA+ modules, TLC configurations and TLAPS proofs for
`namespaceciel/ciellab`, a C++ library of containers, smart pointers and
concurrent primitives (`src/include/ciel`). Paths below are relative to the
repository's `src/`.

Contents: [inventory](#inventory) - [modules](#modules) - [runs](#runs) -
[fairness](#fairness) - [proofs](#proofs) - [findings](#what-the-checks-found) -
[limits](#what-is-not-modelled) - [plan](#plan).

## Inventory

The library is header only. It has no processes or network: what runs
concurrently are the threads of a client that share one of the objects of the
first table, and what fails are constructors, callables and allocations that
throw. Nothing is persisted, so there is no crash recovery to speak of.

### Concurrent components

| Component | State | Operations | Hard behaviour | Correct when |
| --- | --- | --- | --- | --- |
| `core/reference_counter.hpp` | one word: a count and a sticky `zero_flag` | `load`, `increment_if_not_zero`, `decrement` | a decrement is a `fetch_sub` and then a `compare_exchange`; increments come in between | zero is final, exactly one decrement reports it |
| `shared_ptr.hpp` | `shared_count_`, `weak_count_`, the object, the block | construct, copy, move, `lock`, `use_count`, destructors | locks race with the last release; the last weak reference is detected by a plain load | object disposed of once, block freed once, nothing used afterwards, nothing leaks |
| `core/combining_lock.hpp` | `last`, `flag`, a node per waiting thread on that thread's stack | `with(lock, f)` | a head runs the functors of others and hands the lock on; nodes die when their thread returns | one functor at a time, each once, first come first served within the queue, no node touched after its thread was let go, no starvation |
| `core/mpsc_queue.hpp` | `front_`, `back_`, intrusive `next` links | `push`, `process`, `destructive_process` | a push is half done between two accesses; the newest node is kept back | every node processed once, in order; no link stored into a node given away |
| `hazard_pointer.hpp` | a growing list of slots that threads take and give back, each with a list of retired objects | `protect`, `try_protect`, `retire`, `cleanup`, `make_hazard_pointer` | protection store and validation load are of different words | no protected object reclaimed; every retired object reclaimed at last |
| `atomic_shared_ptr.hpp`, `core/spinlock_ptr.hpp`, `core/spinlock.hpp` | a control block pointer whose low bit is a lock | `store`, `load`, `exchange`, `compare_exchange` | the reference is counted under the bit | linearizable register of owners, counts agree |
| `experimental/atomic_shared_ptr.hpp`, `core/packed_ptr.hpp` | a pointer with 16 bits of local count; remote count in the block | same | the two counts are moved in separate steps | a block is freed only when both are gone |
| `core/treiber_stack.hpp`, `core/aba.hpp` | a top pointer with a count of updates, or with a lock bit | `push`, `pop`, `pop_all` | the top is popped and pushed again while a pop sleeps; the count wraps | a stack, unless somebody sleeps too long |
| `core/singleton.hpp` | a three-valued state | `get` | the constructor throws while others spin | constructed once, everyone gets it |

### Sequential components

| Component | State | Operations | Hard behaviour | Correct when |
| --- | --- | --- | --- | --- |
| `core/rb_tree.hpp` | nodes with colour bit, sentinel | insert, remove, find, extract | rebalancing cases | ordered, red-black, equal to a sorted sequence |
| `core/avl_tree.hpp` | nodes with height, sentinel, begin pointer | insert, pop, bounds, iteration | rotations all the way up, equal keys | ordered, balanced, equal to a sorted sequence |
| `experimental/list.hpp` | ring with a sentinel, cache of free nodes | insert, erase, assign, move, swap | relinking sentinels of empty lists, constructors that throw half way | a sequence; no node lost or shared |
| `vector.hpp` with `split_buffer.hpp`, `range_destroyer.hpp` | begin, end, capacity | insert, erase, assign, growth | a constructor throws while elements are being moved; arguments alias elements | each slot holds one object or none, also after a throw |
| `inplace_vector.hpp` | size and fixed slots | same, plus `try_` operations | same, and the capacity limit | same |
| `function.hpp` | buffer or heap callable, or none | assign, swap, call | self assignment, throwing copies | owns one callable or none |
| `core/to_chars.hpp`, `core/message.hpp` | a buffer of characters | append | powers of ten, 119 characters | prints the number |

Small utilities, traits, the test support and the tests keep no state of their
own (`PROJECT.json`, "components").

### Interactions

`shared_ptr` owns two counters: `shared_count_` is a `reference_counter`,
`weak_count_` a plain atomic. `atomic_shared_ptr` stores a `shared_ptr`'s
control block in a `spinlock_ptr`; its experimental sibling stores it in a
`packed_ptr`. `hazard_pointer` keeps its slots in one lock-free list that lives as long as
the program; retired objects belong to the slot they were retired through and
pass to its next owner. `treiber_stack` keeps its top in an `aba`, which is a
`packed_ptr` with a count of updates or a `spinlock_ptr` that is locked for the whole
operation. `message_builder` calls `to_chars`. `vector` builds new storage in
a `split_buffer`. `combining_lock` and `mpsc_queue` depend on nothing but atomics.
`avl_tree`, `rb_tree`, `treiber_stack` and `singleton` are used by nothing in the
library but their tests and benchmarks.

## Modules

An operation of the code is one action per atomic access it makes; what a
thread does between two accesses of shared memory is folded into the access
before it. Locals that survive a step are variables.

### ReferenceCounter, SharedPtr (implements Ownership)

`ReferenceCounter` has one operator per atomic access of the word: the
`fetch_add` of `increment_if_not_zero`, the `fetch_sub` and the
`compare_exchange_strong` of `decrement`, and what `load` makes of the value.
`zero_flag` is the constant `ZeroFlag`, any positive number.

`SharedPtr` extends it with `weak_count_`, the object, the block and the
smart pointer objects. The processes are the pointers, not the threads: a
pointer object is only modified by one thread at a time, and its program
counter `pc[h]` says which access of its destructor is next.

| Action | Code |
| --- | --- |
| `Construct`, `ConstructThrows` | the owning constructors and `allocate_shared`; `alloc_control_block` throws |
| `CopyShared`, `CopyWeak`, `Move` | constructors from a live pointer |
| `LockSucceeds`, `LockFails` | `weak_ptr::lock`, `shared_ptr(const weak_ptr&)` |
| `UseCount` | `use_count`, `expired` |
| `ReleaseShared`, `StickZero`, `Dispose` | `shared_count_release`: `fetch_sub`, `compare_exchange_strong`, `dispose` |
| `ReleaseWeak`, `LoadWeakCount`, `SubWeakCount`, `Destroy` | `weak_count_release`: the load that replaces the last `fetch_sub`, the `fetch_sub`, `destroy` |
| `TouchFreed` | any of those accesses after the block was freed |

Assignment, `reset` and `swap` are compositions of these in the code, and need
no action of their own.

`Ownership` is the promise without counters: a set of owners, a set of
observers, an object that is alive, expired or disposed of, a block that is
allocated or freed. The refinement maps `owners` to the live `shared_ptr`s,
`observers` to the live `weak_ptr`s, and "expired" to the flag.

### CombiningLock (implements Delegation)

A thread has one node on its stack from `attach` to the return of `with`, so
`status[t]` and `nextNode[t]` are that node's fields. `place[t]` has one value per
access; the table of them heads the module. `call[t]` is a history variable:
none, pending, running or done, the state of the functor of `t`'s current call.
`Begin` and `Finish` bracket the functor so that two of them could overlap.
A polling load that finds nothing new changes nothing and is no action.

`Delegation` promises that each call's functor runs exactly once, alone, before
the call returns, and is not left waiting for ever.

### MpscQueue (implements FifoQueue)

`StartPush`, `ExchangeBack` and `LinkPrev` are the steps of `push` of a node or
of a linked batch. The consumer's steps are `LoadFront` and `LoadBack`, in either
order (they are relaxed), `ReadNext` or `ReachBack` or `AtStub` for the loop,
`Callback` (goes on or asks to stop), `StoreStop` and `StoreEnd`.
`StartClosing`, `DrainNext`, `DrainCallback`, `EndClosing` are
`destructive_process`. A node the callback was given may be pushed again at once.
`queue` is a history variable: the nodes in the order of their exchanges.

`FifoQueue` promises that what was put in comes out once and in order, and that
only the newest item may be kept back.

### HazardPointer (implements Reclamation)

Readers protect what one client pointer `src` points to, writers replace it and
retire the old object. A slot's fields are functions of the slot's number, and
the list of slots is `1 .. n`. `GetSlot` is the search of `get_slot`
(`ScanSlot`, `TakeSlot`, `NextSlot`, `AppendSlot`). The `compare_exchange_weak` of
`AppendSlot` may fail spuriously: `cur[u]` is then 0, the null pointer the next turn
would follow, and that user takes no further step. A reader's steps are
`LoadSource`, `Protect`, `Validate`, `Reset`, `Release`, `Drop`, a writer's `Push`,
`Collect` (one slot per step), `EndCollect`, `Sweep` (one object per step),
`EndSweep`, `EndRetire`. `Shutdown` is the destructor of the list.

The protection is a release store, and the load that validates it is an acquire load of another
word: nothing orders the two. `pending[r]` is a store buffer of one entry and
`Drain` writes it to memory. `overtook[r]` is a history variable: the
validating load took effect while the store was still in the buffer.

`Reclamation` promises that an object is reclaimed once, after it was retired,
and while no reader holds it. The refinement lets a reader "hold" only if its
load did not overtake its store; what happens otherwise is a finding below.
A `retired_list` is a set, since no one depends on its order.

### TreiberStack (implements LifoStack)

`Read` is `aba::read()`, the first access of every operation: it copies the
packed pointer, or locks the bit. `LinkTop` and `PushCas` are the loop of `push`,
`PopNext`, `PopCas` and `FindEmpty` that of `pop`, `PopAll` is `pop_all`, `Store` a
`store_conditional` that succeeds and `Fails` one that does not, which the weak
`compare_exchange` may do at any time. `Unlock` is the destructor of the
`SpinlockPtr`'s `impl`. A node that was popped may be pushed again, alone or in a batch,
while another thread is about to read its `next`. `age[t]` and `overslept` are
history variables: how many updates `t` has slept through, and that one was
stored after as many as the count has values.

`LifoStack` is a sequence; the refinement walks the links from the top (`Walk`). The
promise holds for every step that has not overslept, which is what `aba.hpp:22-25`
says.

### Singleton (implements OnceCell)

One action per access of `state`. The thread that wins the `compare_exchange`
still has `s` at `Uninitialised` when it is done, and goes round once more.
`OnceCell` promises that one caller at a time builds the object, that a call whose
attempt throws has its exception and somebody else tries again, and that
everybody gets the object once it is there.

### AtomicSharedPtr, SplitRefCount (implement AtomicRegister)

`AtomicSharedPtr`: the pair `ptr`, `cb` with its lock bit, several control blocks with their shared
counts, and per thread a `desired` and an `expected` `shared_ptr`. What is done
under the lock is split at every access of `ptr_`, the control block pointer
and a count, so that the lock, and not the grain of the model, is what makes it
atomic. `store` is an exchange that drops its result. A block whose count is 0 may be created again at
the same address, so ABA is possible in principle. Counts are plain numbers here; how
`reference_counter` implements one is `SharedPtr`'s matter.

`SplitRefCount` is the experimental one, with the same client. `packed` is the
atomic word, a block and a local count, `remote` the counts of the blocks.

| Action | Code |
| --- | --- |
| `Pin`, `LoadNull` | `increment_local_ref_count` |
| `AddRef` | `shared_add_ref` in `load` |
| `Unpin`, `UnpinRemote` | `decrement_local_ref_count`: the local count, or `shared_count_release` if the block was replaced |
| `Swap`, `Help` | `exchange`: the pointer, and then the local count is added to the block's |
| `CasLoad`, `CasSucceeds`, `CasHelp`, `CasFails` | a turn of `compare_exchange_strong`; a turn that fails, with or without a cause, goes on as a load |
| `Create`, `DropDesired`, `DropExpected`, `Release` | the client makes and destroys `shared_ptr`s |

A loop that only adds or subtracts 1 is one step. `left` and `astray` are history
variables: a load's block was replaced after the load pinned it, and such a load
took a later local count of the same block for its own. `SplitCountsAgree` is exact: with the
local count read as a signed number, it, the block's count and the local counts an exchange has yet to
move (`Owed`, a pair for each unit) add up to the references and the pins. The model stops when the behaviour is undefined: a block is
freed while something refers to it, or the local count goes below 0.

`AtomicRegister` has each operation take effect in one step, between its call
and its return, and makes a block only if nobody refers to it. The points where
the effect takes place are in the comment of `Called`.

### BinaryTree, AvlTree, RbTree (implement SortedSequence)

`BinaryTree` has what the two trees share: links, walks, and rotations with the
side as a parameter, where the code has everything twice. `tree` is a record of
functions on nodes, so that an action may rotate it twice. A call is one step for
its search and its links and one for each turn of the loop that goes up
from there, so that searches and links are also checked in the middle.

`AvlTree`: `InsertMulti`, `InsertUnique`, `InsertUp`, `InsertFix` are
`insert_node_multi`, `insert_node_unique` and the loop of `insert_node_before`;
`PopNode` with `Unlink` and `ReplaceByPrev`, `PopUp`, `PopFix`, `PopReturns` are
`pop_node`. `misled` is a history variable: the comparison with the new value
took the new node for one on the other side. `wild` says that a null pointer was rotated; the
model stops there.

`RbTree`: `Insert`, `InsertUp`, `InsertReturns`; `Remove` with `Succeed`, `RemoveUp` with
`RedSibling`, `InnerRed` and `OuterRed`, `RemoveReturns`; `ExtractMin`. `root` is
the copy of the root pointer that the code passes to its loops.

`SortedSequence` promises the nodes in the order of their values, an equal one
behind those there are; the refinement walks with `operator++` from `start_`.

### List (implements SequenceContainers)

Operations on a list run one at a time, so each public function is one action,
and its effect on the links is computed by operators that follow the code's
private functions: `GetFreeNode`, `StoreFreeNode`, `ConstructRange`,
`DestroyRange`, `DoDestroy`, `TakeOver`, `SwapLists`, `AssignRange`. `heap`
holds the links, values, free lists and sizes; a list's name is the address of
its sentinel. Two kinds of failure are inputs: the allocator has no node left,
and `fail` picks the construction or assignment that throws.

`SequenceContainers` promises sequences of values: an insertion that throws
changes nothing, an assignment that throws keeps the values there were or those
it gives. A step of it may be any of its operations: the refinement says that the
contents change as some operation would change them, not as the one called asked,
and short contents may pass for the result of an assignment.

The moves and `swap` break an empty list (see the findings). `wild` records that
this has happened, and the model stops there: what follows is undefined behaviour.

### Function

A function holds nothing, a callable in its buffer or one on the heap. `live[c]`
counts the copies of a callable that are alive. A constructor is the assignment to a
function that holds nothing. Callables are described by their size in words and whether their
type is known to be trivially relocatable, which is what decides where they are stored. A
`func` in the buffer is one word larger than its callable, for the pointer to its virtual
functions: `whole` is FALSE if that reaches into `f_`. `AssignLvalue` is what overload
resolution makes of `f = g` if `g` is not const: `operator=(F&&)`, for which `g` is a callable to wrap.

`asked[f]` is a history variable, the callable `f` was given last and from where: from outside,
as `f` itself (`f = f`, not const), or as what is inside of it (`f.assign(*f.target<F>())`, or a function
that it wraps). `AssignOwn` is the last, a read of what `clear` has just destroyed; the outcomes are a copy that is as
the callable was, or one that is not, or none. A copy, a move, a wrap or a swap hands `asked` on with the callable.
`TargetsAgree` has no exception: it says what a function holds for each origin, and of a
callable from outside that it is whole if, and only if, it does not fill the buffer.

### Slots, Vector, InplaceVector

`vector.hpp` and `inplace_vector.hpp` move, construct and destroy objects with
the same loops, and differ in their counters. `Slots` holds these loops: an
action constructs, relocates, assigns or destroys one object (`RelocateOne`,
`Fill`, `Overwrite`, `ShiftOne`), or does for all what the code does by `memmove`
(`RelocateAll`, `ShiftAll`), or ends a loop. `Throws` may take the place of any
step that can throw, and unwinds: the `range_destroyer` `rd` destroys its range. A
slot is `Raw`, a value, or `Moved`. `traits` is what the code asks of `value_type`:
relocatable, or moved without throwing, or neither (then growth copies). A call
is `op`, its loop `pc`; `before` and `threw` are history variables.

The values of a call come from elsewhere, or from a reference to an element,
which may be relocated before it is read: `ReadAt` is `internal_value` and the
arithmetic of the callbacks.

`Vector` adds the capacity and the `split_buffer`: `Grow`, `MakeNew`, `MoveAll` or
`MoveFront` and `MoveBack`, `TakeOver` are `insert_impl` beyond the capacity and
`swap_out_buffer`. `InplaceVector` has only the calls, which are refused or cut off at the
capacity.

`MCContainers` has one vector, one inplace_vector or two functions, `MCLinked` one tree
or two lists. Each property about a vector compares it in the middle of a call, or at its end, with
`before`: what it holds (`DoneAsAsked`, `ThrowKeeps`), what is left to read of it
(`SourcesIntact`), and who is going to destroy which object (`ObjectsAccounted`,
which says the same of callables).

## Runs

| Run | Instance | Distinct states | Shows |
| --- | --- | --- | --- |
| `concurrent` | 3 `shared_ptr`, 2 `weak_ptr`, flag 8, 2 failed locks (6,230 states); a lock with 3 threads (9,477); a queue with 3 producers, 4 nodes, batches of 1 and 2 (39,188); a stack with 2 threads, 3 nodes, a batch of 2, a count of 4 values (119,066); or a singleton with 3 threads | 174,131 | `SharedCountIsOwners`, `WeakCountIsReferences`, `FreedBlockNeedsRevival`, `ZeroIsFinal`, `ImplementsOwnership`; `MutualExclusion`, `NodesOutliveUse`, `FirstComeFirstServed`, `ImplementsDelegation`, `CallsReturn`; `ListIsQueue`, `ProcessesInOrder`, `NoLateLink`, `ImplementsFifo`; `ImplementsStack`; `ImplementsOnce` |
| `shared_ptr_freed_block` | the control block of `concurrent` | stops at the trace | violates `NoUseAfterFree`, see below |
| `hazard_pointer` | 1 reader, 2 writers, 3 objects, up to 4 slots, cleanup at every 2nd retire | 1,811,201 up to symmetry | `SlotsOwnedOnce`, `RetiredOnce`, `GarbageBounded`, `ImplementsReclamation` |
| `hazard_pointer_store_buffer` | 1 reader, 1 writer, 2 objects, cleanup at every retire | stops at the trace | violates `HeldIsAlive`, see below |
| `hazard_pointer_null_slot` | the same | stops at the trace | violates `CurNotNull`, see below |
| `atomic_shared_ptr` | 2 threads, 3 blocks, either implementation, local counts of 5 values | 1,226,817 (80,601 with the lock bit) | `CountsAgree`, `NoTornPair`, `LockReleased`, `ImplementsRegister`; `SplitCountsAgree`, `FaultsNeedReplacement`, `SplitImplementsRegister` |
| `split_ref_count` | 2 threads, 2 blocks | stops at the trace | violates `StoreIsSafe`, see below |
| `linked` | an AVL tree of up to 7 of 10 nodes, three of them with the same value; a red-black tree of up to 8; or 2 lists, 3 nodes, insertions of up to 2 | 292,663 | `Linked`, `Balanced`, `SearchesAgree`, `ImplementsSorted`, `LoopsRise`; `RingsIntactUnlessWild`, `ImplementsSequences` |
| `avl_equal_keys` | the same | stops at the trace | violates `EqualValuesWork`, see below |
| `containers` | 4 slots, insertions of up to 2, 2 values, 3 kinds of type; or 2 functions, 4 callables | 299,008 | `ObjectsAccounted`, `AsAsked`, `ThrowKeeps`; `TargetsAgree` |
| `function_buffer` | the same | stops at the trace | violates `BufferHoldsCallable`, see below |
| `list_empty` | 2 lists, 2 nodes | stops at the trace | violates `RingsIntact`, see below |

The longest takes about three minutes with two workers. A run that has several
components picks one at the start; the others stand still. The type invariants are `TypeOK` of
`SharedPtr`, `LockTypeOK` of `CombiningLock`, and conjuncts of `ListIsQueue`, `SlotsOwnedOnce`,
`CountsAgree`, `SplitCountsAgree`, `Linked`, `ObjectsAccounted` and `ImplementsStack`.

Why the instances are large enough:

- `concurrent`, `shared_ptr`: the races are between a decrement past its `fetch_sub`, a lock
  that revives the count, and a second decrement. That takes two owners and one
  `weak_ptr`; one more of each lets copies, moves and a weak release go on around
  them. `MaxFailedLocks` bounds the only counter that grows without bound,
  the increments of a word that is already stuck. The proofs need no bounds but
  fewer owners than `ZeroFlag`.
- `concurrent`, the lock: a head, a thread it works for, and one that arrives meanwhile
  or takes the fast path. The inductive invariant was also checked with four
  threads (353,549 states).
- `concurrent`, the queue and the stack: one node kept back, one push half done, one completed behind it,
  and one in the consumer's hands. The third producer has two gaps at once in
  the list. Two threads make the ABA problem of the stack, one that sleeps and one that pops and pushes;
  popping two nodes and pushing the first again takes three updates and popping all and pushing
  one two, so that a count of four values still protects, and can also be slept through.
- `hazard_pointer`: the writers contend for slots with each other and the
  reader, clean up at the same time, and take over each other's retired objects.
  The list starts with one slot, so that it grows; `SlotsOwnedOnce` says that it
  stops at the number of users, 3 (or at `InitialSlots`, where that is greater), and `MaxSlots`, 4, leaves room to violate it.
  Three objects are one linked, one retired and protected, and one more in
  flight, and they are used again. `Symmetry` permutes objects and writers; it is sound as the
  run checks only invariants and a refinement without liveness.
- `atomic_shared_ptr`: two threads inside, or one inside and one dropping and
  creating a block whose address the other compares with. Three blocks are one
  in the atomic and one new one of each thread. A local count of five values is never
  exceeded by two loads, so that a sixth stands for a count below 0.
- `linked`: with seven nodes every case of an insertion and of `pop_node` happens, with single and double rotations on both
  sides; a removal after which two ancestors have to be rotated takes an AVL tree of twelve nodes, which is
  out of reach, and `LoopsRise` says of every turn that it leaves off at the right node for the next. Eight nodes make red-black
  trees in which the loop of a removal meets a red sibling, goes up twice, and ends in each way.
  For lists, three nodes make rings of up to three elements and free lists in any
  order, with both lists non-empty, and insertions of two run out of nodes half
  way.
- `containers`: two elements in front of a position, or two behind it, with a gap of one or
  two that is shorter or longer than what is moved, and a capacity that doubles or
  is cut off by `max_size()`. The properties of the vectors were also checked with five slots (1,369,493 states).
  Two functions are the two sides of every operation; `MaxDepth` bounds functions in functions.

Deadlock is not checked where the system may stop: when every pointer is gone, the queue is closed or a
thread overslept (`concurrent`; that nobody stays in the lock for ever is `CallsReturn`), and at the end of the
program or when every user has followed a null pointer (`hazard_pointer`). It is checked for
both atomic pointers, the trees, the lists, the vectors and the functions, which may always be called again; where those have
become undefined, a step that changes nothing (`Stop`, `Undefined`) says so.

Each property has a faulty variant of a definition that violates it
(`PROJECT.json`, "mutants"). The variants stand in the modules before the
definition they vary and are used by nothing.

## Fairness

- `SharedPtr`: a destructor that has begun goes on (`WF` of its accesses). No
  fairness on copying, locking or dropping pointers: that is up to the client,
  and "nothing leaks" only says that what has been dropped is cleaned up.
- `CombiningLock`: weak fairness of each thread inside `with`, and a functor
  returns ("Exception throwing will result in dead lock", line 12). No fairness
  on calling. Nothing stronger: a head that spins on the flag gets it since
  newcomers see `last` set and queue up behind it. The abstract promise of strong fairness
  for `Begin` is thus implemented under weak fairness.
- `MpscQueue`: a push that has begun goes on, the consumer calls `process` again
  and again, and `destructive_process` goes on. No fairness on pushing or closing.
- `Singleton`: a thread inside `get` is scheduled, and a constructor returns or throws. That
  is enough for a waiting thread to try, or to get the object.
- `AtomicSharedPtr`: a thread that is scheduled goes on. Nothing makes one that
  spins on the lock bit find it clear, so no operation is promised to return;
  `LockReleased` says that the bit never stays set.
- `SplitRefCount` and `TreiberStack` state no liveness: a turn of their loops may lose to another
  thread again and again, or to the lock bit, so that no single operation is promised to return.
- `Slots`, `Vector`, `List` and `Function` state no liveness: their loops are over finite ranges.
  Those of the trees end because they go up, which is the action property `LoopsRise`.
- Nor does `HazardPointer`: that garbage is reclaimed depends
  on somebody retiring again, which `GarbageBounded` accounts for.

`CallsReturn` is weaker than "every call returns", because that is false: a head
whose functor has run combines for newcomers as long as they arrive. It says
that either calls keep arriving or all return.

## Proofs

Checked by TLAPS for every value of the constants that meets the named
assumptions.

`SharedPtr_proofs`, from `ZeroFlagAssumption` and `SharedPtrAssumption` (finitely
many pointers, fewer `shared_ptr`s than `ZeroFlag`, which is 2^63):

- `TypeCorrect`, `SharedCountCorrect`, `WeakCountCorrect`, `FreedBlockCorrect`:
  the invariants of the run.
- `ZeroIsFinalCorrect`: the action property.
- `RefinesOwnership`: every step of the counters is a step of `Ownership` or a
  stutter.

The inductive invariant `IInv` is the three counting invariants and `Lifetimes`.
The counts alone are not inductive. That a destroyed block is used by nobody
needs that a lone decrement past its `fetch_sub` still finds 0 when no lock has
revived the count, and that before the constructor there are neither counts nor
pointers. `Cardinality` of the set of live pointers is related to the words by
lemmas on adding, removing and replacing one element.

`CombiningLock_proofs`, from `NullAssumption` only (any set of threads, infinite
ones included):

- `TypeCorrect`, `MutualExclusionCorrect`, `NodesOutliveUseCorrect`,
  `FirstComeFirstServedCorrect`, `RefinesDelegation`.

`LockIInv` adds to mutual exclusion the shape of the queue, said locally so that no
induction along the list is needed: the end of the queue has no successor
(`LastIsEnd`), an arriving thread's predecessor waits for its link
(`LinkFollowsPrev`), a successor is a waiting thread nobody else precedes
(`NextIsWaiting`), a combiner works on a node no one else works on
(`CombinesAlone`), and a functor's state follows from where its thread is
(`CallFollowsPc`). Mutual exclusion alone is not inductive as the head hands the
lock to `nxtNode`, which must be a waiting node that nobody else can wake.

`AtomicPointers_proofs` is about both atomic shared pointers. For `AtomicSharedPtr`, from
`AtomicSharedPtrAssumption` (finitely many threads,
any blocks):

- `CountsAgreeCorrect`, `NoTornPairCorrect`, `RefinesRegister`.

`IInv` adds to the two invariants what a thread with a half done exchange knows
(`HalfSwapped`: its `desired` is the rest of the exchange) and that a reference
in `dead` has its release ahead of it (`ReleasesAhead`). The sum in `CountsAgree`
is followed thread by thread: whatever set of threads a count is of, one step
moves one thread in or out of it (`OneMember` of `CardinalityLemmas`), so every
count changes by what its thread's own references change (`CountStep`).
`ImplementsRegister` has no fairness, so `RefinesRegister` proves all of it.

For `SplitRefCount`, under `SplitAssumption` (finitely many threads, any blocks, and a
local count that can count them all and be told from -1; it has 2^16 values in the code). The
module is used by `INSTANCE`, so the assumption is a hypothesis of its lemmas and an assumption of
`MCAtomicSharedPtr`, where TLC evaluates it for the run's constants.

- `SplitCountsAlwaysAgree`, `FaultsAlwaysNeedReplacement`, `BothImplementRegister`: of every behaviour
  of `MCAtomicSharedPtr`, which is one of either module while the other stands still (`MCIsBoth`).

`SplitCountsAgree` is not inductive, as nothing in it bounds the local count, which could
wrap. `LocalBounded` does: the local count is at most the number of the loads that
pinned the block in the atomic and have not seen it replaced (`Current`), and is just that
until a load goes astray; then it may fall short, down to -1, where the model
stops. `PinsCurrent` says of every load which block it can have pinned. With
`ReleasesAhead` these give `FaultsNeedReplacement`: if no local count is on its way
to a block that is referred to, its own count is positive. As the sizes of sets of threads
and of `Owed` change by what one thread contributes (`OneMember`, `OneTerm`), each action is
left with arithmetic about that thread (`SplitCountsFollow`). For the refinement, a block that
is made anew must be referred to by nobody (`FreshBlock`), which is so as long as
the behaviour is defined.

`HazardPointer_proofs`, from `HazardPointerAssumption` (finitely many readers and
writers, any objects, number of slots and threshold):

- `SlotsOwnedOnceCorrect`, `RetiredOnceCorrect`, `GarbageBoundedCorrect`,
  `RefinesReclamation`.

What makes these inductive:

- The list has one slot per user at most, or those it began with, although a search appends when it has
  found every slot taken one after the other and never all at once. The
  reason is that of one-shot renaming: whoever has passed `i` slots has left `i`
  users behind it (`OthersBehind`), so whoever appends has all `n` slots' users
  behind it.
- A protected object is safe because a cleanup has either collected its
  protection or has still to come by its slot (`CleanupSees`). The protection
  cannot have been set behind the cleanup's back: a reader that validates finds
  the object linked, so it is not in a list yet (`ReplacedOnce`). This needs the
  store to be in memory before the load (`Protected`), which the theorem has as
  the meaning of "holds" and the code does not ensure; see the finding.
- The garbage that survives a cleanup is bounded by the size of what it
  collected, one object for each slot visited (`CollectedBounded`).

`LockFree_proofs` is about the stack and the singleton of `MCConcurrent`.
For `TreiberStack`, under `StackAssumption` (finitely many nodes, which the walk is cut off at, batches
that have no node twice, a count of at least one value; a hypothesis, as for `SplitRefCount`):
`RefinesStack`, which is all of `ImplementsStack`, types included. For `Singleton`, with no assumption on the
set of threads: `OneWinnerCorrect`, `RefinesOnceCell`; `OneWinner` is inductive as it stands.

`StackIInv` holds until a thread has overslept, and has three parts. `Apart`: the
walk along the links ends and repeats no node, and the batches that are being pushed
share no node with it or each other. `Counted`: the count has gone up by one for each update
since a thread's read, so that a thread that did not oversleep and finds the count it read knows that
there was no update (`FreshStore`). `ReadsHold`: then the top is still the one it read, and
so is the link it read or stored, since nobody else links a node of the stack or of its batch.
That the links from the new top are the new sequence is `WalkJoined` for a push and
`WalkCut` for a pop. `WalkIs` says that the walk finds any sequence that is linked like this,
of whatever length. That takes an induction; it is done by the least place at which two walks
differ, which `WFMin` of the library gives without an operator as parameter.

`MpscQueue_proofs`, from `MpscQueueAssumption` (any nodes and producers, batches
that have no node twice):

- `ListIsQueueCorrect`, `ProcessesInOrderCorrect`, `NoLateLinkCorrect`, `RefinesFifo`.

The links are described by place in the history variable `queue`: the `i`-th node
is linked to the next one, or one producer owes the link (`ListFollows`). That only one
owes it needs that no node is in two places (`NodesApart`). The consumer's
locals and `front` are the first two places of the queue, each in its own way for
each place in the code (`ConsumerFollows`). In particular `front` is stale while the consumer is
between two callbacks, and the node kept back is what makes the next push link
behind it and not set `front` again.

`Containers_proofs`, from `SlotsAssumption` and `FnAssumption` (any capacity, any greatest insertion, any
values, three kinds of type; finitely many functions, any callables):

- `VectorCorrect`, `InplaceVectorCorrect`, `FunctionCorrect`: the properties of each module for its own
  specification.
- `ObjectsAlwaysAccounted`, `CallsDoWhatWasAsked`, `ExceptionsKeepElements`, `FunctionsHoldWhatWasGiven`:
  those that the run `containers` checks.

The properties look at the calls that have ended, so that they say nothing of the middle of a
loop. `SlotsInv` does: for each loop it says of every slot what it holds, from how far the loop has come,
what the call is given and what there was before (`Relocating`, `Filling`, `Overwriting`,
`Shifting`), and which range `rd` would destroy. `GrowthFollows` says the same of the growth of a
vector, with the `split_buffer` (`Growing`, `MakingNew`, `MovingFront`, `MovingBack`,
`TakingOver`), and `BufferAccounted` which objects are the buffer's. What a throw leaves behind then
follows from the slots at the time of the throw, and what a call has done from those when its last loop
is over. Sequences are compared place by place: lemmas say what `Expected` and the other sequences
hold at each place, and whether a slot is before, in or behind the gap is left to arithmetic. That an
element which is given to its own vector is read before it is gone (`SourceIntact`) follows from the
place where `ReadAt` looks for it and the place it has been relocated to.
`InplaceIInv` has `SlotsInv` for a room of all slots and says that none of the loops of growth is reached.
`FnIInv`, which is the three properties of `Function`, is inductive as it stands: a callable's
count is the number of functions that hold it (`OneMember`), and `Agrees` relates what one function holds to what it
was given. `TargetsAgree` needs to know of the callable in the innermost function whether it is in a buffer, which is why `place`
is that of the callable and not of the function that wraps it.

`CardinalityLemmas` has what these need about the size of a finite set that gains,
loses or keeps one element, and about a sum of naturals of which one changes: taken as the number of
pairs of a summand and a unit of it, a sum needs no recursion, and its lemmas no induction.

In all of these `IInv` (`LockIInv`, `QueueIInv`, `StackIInv`, `FnIInv` ...) is the strengthening, one definition in the component's
module; TLC has checked it as an invariant of the same instances.

Only model-checked, and why:

- `CallsReturn`, `LockReleased`, `ShutsDown` and the liveness parts of `ImplementsOwnership`,
  `ImplementsDelegation`, `ImplementsOnce` and `ImplementsFifo`: liveness under
  fairness is out of the prover's reach.
- `BinaryTree`, `AvlTree`, `RbTree`, `List`, and so all of the run `linked`: walks with recursive
  operators, which the prover does not accept, and facts that hold by induction over the tree.
- `ImplementsStack` and `ImplementsOnce` of `MCConcurrent` itself, whose constants are fixed:
  `LockFree_proofs` proves the refinements for any, but for the liveness part of the second.

## What the checks found

`shared_ptr_freed_block`: `reference_counter::decrement` is a `fetch_sub` and,
when that reaches 0, a `compare_exchange_strong`. Between the two the pointer
holds no reference to the control block. A `weak_ptr` may be locked in the
gap, the new `shared_ptr` and the `weak_ptr` destroyed, and with them object and
block; then the `compare_exchange_strong` accesses a freed block. The comments
take a later `fetch_add` for the only thing that can happen in the gap. The
run's trace needs two owners and one observer.
`FreedBlockNeedsRevival`, proved, says that this is the only way: programs in which no
lock finds a count of 0 that waits for its flag are safe.

`hazard_pointer_store_buffer`: `hazard_pointer.hpp:69-70` says that other threads
scan for protected pointers before they clean up. With a release store of the
protection and an acquire load to validate it, the load may go first. A
writer that replaces the object, retires it and scans the slots in between sees
no protection and reclaims the object the reader goes on to use.
`ImplementsReclamation` says that this is the only way: with a full fence
between the two, as the literature has it, no reader that validated its
protection loses the object.

`hazard_pointer_null_slot`: the loop at `hazard_pointer.hpp:183-186` that appends a slot takes a failure of
`compare_exchange_weak` for the news that somebody else has appended one, and goes on from there. After a spurious
failure `next` is still null, and the next turn dereferences it; line 171 asserts that `cur` is not null. It cannot
happen where the weak operation is a strong one, as on x86. The properties of `hazard_pointer` hold
with it, as the user it happens to does nothing more.

`function_buffer`: the buffer of a function has three words, and `README.md:124` says that callables up to that size are
stored in it. But what is stored is a `func`, which has a pointer to its virtual functions as well, so that the
last word of a callable of three words is `f_`, and is overwritten with 1 (`function.hpp:124`, `:248`, `:257`). The
example of `README.md:138` and the swap test, `test/src/function.cpp:97-110`, have such callables, lambdas that
capture a `std::vector`; they work because nothing but the capacity of the vector is lost. `TargetsAgree` says that
this is what happens to every callable that fills the buffer, and to no other.

`list_empty`: moving from an empty list, or swapping one, copies a sentinel that
points to itself, and then "repairs" its neighbours, which are that very
sentinel. The list that took it over keeps pointing at the other list's
sentinel. `list.hpp:20-22` names one difference from `std::list`, and this is
not it. `RingsIntactUnlessWild` says that this is the only way a ring breaks.

`avl_equal_keys`: `insert_node_before` finds out on which side of a child the new node is by comparing
values. The run's trace inserts three nodes of one value: the third is on the right of the second, which is on the
right of the first; the comparison takes it for one on the left, and `right_rotate` is called for a node that has no left child.
Two equal values behind a smaller one do as well.
`avl_tree.hpp:344-345` names equal values as what `insert_node_multi` is for. `Balanced` says that
the trees are balanced unless that happens (`misled`): with other equal values around, the wrong
rotation may follow no null pointer and leave a tree that is out of balance.

`split_ref_count`: between the exchange of the packed pointer and the `shared_add_ref` that moves the local count to
the block, a load that pinned the block finds another one in place and releases a reference of the block that it has not been
given yet. If its result is destroyed too, the count reaches 0 and the object is disposed of while the
exchange is about to return it. The comments at lines 66 and 108 say that the `store` has already
helped. `FaultsNeedReplacement` says that this is the only way a block is
freed early, and that the local count is that of the loads under way unless a block is replaced and put back
during a load.

Observations the models show without a run of their own:

- `function`: `g = g` of a function that is not const leaves it empty, and `g = h` wraps `h` in another
  function instead of copying it (`function.hpp:359`). `f.assign(*f.target<F>())` destroys the callable before it
  copies it. `TargetsAgree` says what becomes of the callable in each case.
- `singleton`: a thread whose relaxed `compare_exchange_strong` finds `Initialised` returns without
  an acquire load (`singleton.hpp:42`). `treiber_stack::pop` reads `top->next` after a relaxed read of `top`
  (`treiber_stack.hpp:61`), which only the dependency of the address orders. The models interleave, and do not show either.

## What is not modelled

- Weak memory. Accesses interleave. Where the code uses relaxed order the hazard
  list says what depends on it. The exception is the store buffer of
  `HazardPointer`, as there the order of two words matters.
- `hazard_pointer`: moves and swaps of hazard pointers, protecting a pointer the
  caller vouches for, deleters that retire.
- `list`: allocators that compare different.
- `vector`, `inplace_vector`: input iterators (they append and rotate), copies,
  moves and swaps of two, allocators that differ or give more than asked for,
  types that cannot be copied. A value that `inplace_vector::assign` is given is no element;
  the standard lets it assume that, and README.md:74 promises more of `vector` only.
- Spurious failures of `compare_exchange_weak` where the loop just tries the same again
  (`experimental/atomic_shared_ptr.hpp:81`, `:106`). Those that do something else are modelled: in `get_slot`, in
  `aba`, and in the experimental `compare_exchange`, which loads once more (`:157`).
- `shared_ptr`: the pointer value of aliasing constructors, deleters that
  throw, `enable_shared_from_this` during construction.
- Functors and callbacks that throw or re-enter: the code forbids them.
- `avl_tree::insert_node_before` with a position of the caller's own choice.
- `to_chars` and `message_builder`: straight-line code without state of its own between calls.
- The traits, configuration and small utilities: no run-time state.

## Plan

Done: every component with state of its own, with an abstract specification or the properties
above, and a run; proofs of all invariants but those of the linked structures, and of the
refinements of `SharedPtr`, `CombiningLock`, `AtomicSharedPtr`, `SplitRefCount`, `HazardPointer`,
`TreiberStack`, `Singleton` and `MpscQueue`.

What is left:

1. The linked structures with functions in place of recursive operators, and the facts about
   their links that are not by induction (`RootIsCurrent`, `NodesAccounted`).
2. Input iterators, and copies, moves and swaps of two vectors or two inplace_vectors.
3. The relaxed accesses that the hazard list names and the models interleave.
