------------------------------- MODULE Slots -------------------------------
(***************************************************************************)
(* What vector.hpp and inplace_vector.hpp have in common: slots of memory  *)
(* that hold an object or none, and the loops that construct, relocate,    *)
(* assign and destroy objects in them, one object per step.  The loops of  *)
(* the two files differ in how they count (end_ or size_) only; the lines  *)
(* of vector.hpp are named.                                                *)
(*                                                                         *)
(* A constructor or an assignment may throw instead of its step.           *)
(***************************************************************************)
EXTENDS Integers, Sequences, SequencesExt

CONSTANTS MaxSize,      \* max_size(), and the Capacity of an inplace_vector
          MaxCount,     \* bound: values made by one call
          Values,
          Raw,          \* a slot that holds no object
          Moved         \* an object that was moved from

ASSUME SlotsAssumption ==
    /\ MaxSize \in Nat \ {0} /\ MaxCount \in Nat
    /\ Raw \notin Values /\ Moved \notin Values /\ Raw # Moved

Positions == 1 .. MaxSize
Objects == Values \cup {Moved}

\* How value_type relocates: trivially, by a move that does not throw, or by a
\* move that may throw.
Traits == {"relocatable", "nothrow", "throwing"}

\* Where the values of a call come from: other memory, a reference to an element
\* (const T&), or an rvalue reference to one.
Given(s) == [kind |-> "values", values |-> s, at |-> 0]
Element(k) == [kind |-> "element", values |-> <<>>, at |-> k]
Rvalue(k) == [kind |-> "rvalue", values |-> <<>>, at |-> k]

Lists == UNION {[1 .. n -> Values] : n \in 0 .. MaxCount}
Sources == [kind : {"values", "element", "rvalue"}, values : Seq(Objects), at : 0 .. MaxSize]

\* A call: n values from src at position pos, and whether it gets new storage.
Ops == [name : {"none", "insert", "assign", "assign_range", "resize", "reserve", "shrink", "erase"},
        pos : 1 .. MaxSize + 1, n : Nat, src : Sources, grows : BOOLEAN]

NoOp == [name |-> "none", pos |-> 1, n |-> 0, src |-> Given(<<>>), grows |-> FALSE]

VARIABLES
    traits,     \* of value_type
    data,       \* the slots from begin_ on
    size,       \* end_ - begin_, or size_
    rd,         \* range_destroyer: the slots rd.lo .. rd.hi - 1
    op, pc,     \* the call under way and the loop it is in
    step,       \* the assignments that loop has made
    before,     \* history: the elements when the call began
    threw       \* the call was left by an exception

slots == <<traits, data, size, rd, op, pc, step, before, threw>>

\* "relocate"  moves [pos, end) n slots on, vector.hpp:752-767
\* "fill"      constructs values at the end
\* "overwrite" assigns values to the elements, "shift" moves elements down
\* "return"    the call returns or throws; the others are Vector's
Loops == {"idle", "relocate", "fill", "overwrite", "shift", "return",
          "makeNew", "moveFront", "moveBack", "takeOver", "reset"}

Empty == [lo |-> 1, hi |-> 1]

Init ==
    /\ traits \in Traits
    /\ data = [i \in Positions |-> Raw] /\ size = 0 /\ rd = Empty
    /\ op = NoOp /\ pc = "idle" /\ step = 0 /\ before = <<>> /\ threw = FALSE

Contents == [i \in 1 .. size |-> data[i]]

----------------------------------------------------------------------------
\* Calls.

Start(o, loop) ==
    /\ pc = "idle"
    /\ op' = o /\ pc' = loop
    /\ before' = Contents
    /\ threw' = FALSE

\* The call throws before it has done anything.
Refuse(o) ==
    /\ pc = "idle"
    /\ op' = o /\ pc' = "return"
    /\ before' = Contents
    /\ threw' = TRUE
    /\ UNCHANGED <<traits, data, size, rd, step>>

Return ==
    /\ pc = "return"
    /\ op' = NoOp /\ pc' = "idle"
    /\ step' = 0 /\ before' = <<>> /\ threw' = FALSE
    /\ UNCHANGED <<traits, data, size, rd>>

\* Stack unwinding: the range_destroyer destroys its range.
Unwind ==
    /\ data' = [i \in Positions |-> IF i \in rd.lo .. rd.hi - 1 THEN Raw ELSE data[i]]
    /\ rd' = Empty
    /\ pc' = "return" /\ threw' = TRUE
    /\ UNCHANGED <<traits, size, op, step, before>>

----------------------------------------------------------------------------
\* The values of a call.

Repeat(n, v) == Given([j \in 1 .. n |-> v])

TailCount == rd.hi - rd.lo

\* Faulty variant: the element referred to is looked for where it was.
ReadAt_Stale == op.src.at

\* An element that was relocated is n slots further on (internal_value).
ReadAt == IF TailCount > 0 /\ op.src.at >= op.pos THEN op.src.at + op.n ELSE op.src.at

Made == size - (op.pos - 1)

Value(j) == IF op.src.kind = "values" THEN op.src.values[j] ELSE data[ReadAt]

\* data without what an rvalue reference was moved from.
AfterRead == IF op.src.kind = "rvalue" THEN [data EXCEPT ![ReadAt] = Moved] ELSE data

----------------------------------------------------------------------------
\* insert_impl within the capacity.

RelocateAll ==
    /\ pc = "relocate" /\ traits = "relocatable"
    /\ data' = [i \in Positions |->
          IF i \in op.pos + op.n .. size + op.n THEN data[i - op.n]
          ELSE IF i \in op.pos .. size THEN Raw ELSE data[i]]
    /\ size' = op.pos - 1
    /\ rd' = [rd EXCEPT !.lo = op.pos + op.n]
    /\ pc' = "fill"
    /\ UNCHANGED <<traits, op, step, before, threw>>

\* One object is constructed n slots on and destroyed here.
RelocateOne ==
    /\ pc = "relocate" /\ traits # "relocatable" /\ size >= op.pos
    /\ data' = [data EXCEPT ![size + op.n] = data[size], ![size] = Raw]
    /\ size' = size - 1
    /\ rd' = [rd EXCEPT !.lo = rd.lo - 1]
    /\ pc' = IF size = op.pos THEN "fill" ELSE "relocate"
    /\ UNCHANGED <<traits, op, step, before, threw>>

\* construct_at_end and unchecked_emplace_back.
Fill ==
    /\ pc = "fill" /\ Made < op.n
    /\ data' = [AfterRead EXCEPT ![size + 1] = Value(Made + 1)]
    /\ size' = size + 1
    /\ UNCHANGED <<traits, rd, op, pc, step, before, threw>>

\* Faulty variant: the elements behind stay with the range_destroyer.
EndFill_KeepsSize ==
    /\ pc = "fill" /\ Made = op.n
    /\ rd' = Empty
    /\ pc' = "return"
    /\ UNCHANGED <<traits, data, size, op, step, before, threw>>

\* end_ takes in what the range_destroyer has, and releases it.
EndFill ==
    /\ pc = "fill" /\ Made = op.n
    /\ size' = size + TailCount
    /\ rd' = Empty
    /\ pc' = "return"
    /\ UNCHANGED <<traits, data, op, step, before, threw>>

----------------------------------------------------------------------------
\* assign within the capacity: fill_n or copy_n over the elements there are.

Kept == IF op.n < size THEN op.n ELSE size

Overwrite ==
    /\ pc = "overwrite" /\ step < Kept
    /\ data' = [data EXCEPT ![step + 1] = Value(step + 1)]
    /\ step' = step + 1
    /\ UNCHANGED <<traits, size, rd, op, pc, before, threw>>

\* destroy(first, end_)
DestroyFrom(first) ==
    /\ data' = [i \in Positions |-> IF i >= first THEN Raw ELSE data[i]]
    /\ size' = first - 1

EndOverwrite ==
    /\ pc = "overwrite" /\ step = Kept
    /\ IF size > op.n
       THEN DestroyFrom(op.n + 1) /\ pc' = "return"
       ELSE UNCHANGED <<data, size>> /\ pc' = "fill"
    /\ UNCHANGED <<traits, rd, op, step, before, threw>>

----------------------------------------------------------------------------
\* erase_impl

StartErase ==
    \E first \in 1 .. size : \E n \in 1 .. size - first + 1 :
        LET o == [NoOp EXCEPT !.name = "erase", !.pos = first, !.n = n] IN
        IF first + n - 1 = size
        THEN Start(o, "return") /\ DestroyFrom(first) /\ UNCHANGED <<traits, rd, step>>
        ELSE Start(o, "shift") /\ UNCHANGED <<traits, data, size, rd, step>>

ShiftAll ==
    /\ pc = "shift" /\ traits = "relocatable"
    /\ data' = [i \in Positions |->
          IF i < op.pos THEN data[i]
          ELSE IF i + op.n <= size THEN data[i + op.n] ELSE Raw]
    /\ size' = size - op.n
    /\ pc' = "return"
    /\ UNCHANGED <<traits, rd, op, step, before, threw>>

\* std::move(last, end_, first)
ShiftOne ==
    /\ pc = "shift" /\ traits # "relocatable" /\ op.pos + op.n + step <= size
    /\ data' = [data EXCEPT ![op.pos + step] = data[op.pos + op.n + step],
                            ![op.pos + op.n + step] = Moved]
    /\ step' = step + 1
    /\ UNCHANGED <<traits, size, rd, op, pc, before, threw>>

EndShift ==
    /\ pc = "shift" /\ traits # "relocatable" /\ op.pos + op.n + step > size
    /\ DestroyFrom(op.pos + step)
    /\ pc' = "return"
    /\ UNCHANGED <<traits, rd, op, step, before, threw>>

\* A copy may throw, a move if its type's may.
MayThrow == op.src.kind = "rvalue" => traits # "nothrow"

Throws ==
    /\ \/ pc = "fill" /\ Made < op.n /\ MayThrow
       \/ pc = "overwrite" /\ step < Kept
       \/ pc = "relocate" /\ traits = "throwing"
       \/ pc = "shift" /\ traits = "throwing" /\ op.pos + op.n + step <= size
    /\ Unwind

InPlace ==
    \/ RelocateAll \/ RelocateOne \/ Fill \/ EndFill
    \/ Overwrite \/ EndOverwrite
    \/ ShiftAll \/ ShiftOne \/ EndShift
    \/ Throws \/ Return

----------------------------------------------------------------------------
\* What was asked for.

\* The values of the call, from the elements before it.
Asked == [j \in 1 .. op.n |->
             IF op.src.kind = "values" THEN op.src.values[j] ELSE before[op.src.at]]

\* The elements before the call, less what was moved from.
Remaining == IF op.src.kind = "rvalue" THEN [before EXCEPT ![op.src.at] = Moved] ELSE before

InFront == SubSeq(Remaining, 1, op.pos - 1)

Expected ==
    CASE op.name = "insert" -> InFront \o Asked \o SubSeq(Remaining, op.pos, Len(before))
      [] op.name = "resize" -> InFront \o Asked
      [] op.name \in {"assign", "assign_range"} -> Asked
      [] op.name = "erase" -> InFront \o SubSeq(before, op.pos + op.n, Len(before))
      [] OTHER -> before

TypeOK ==
    /\ traits \in Traits
    /\ data \in [Positions -> Objects \cup {Raw}]
    /\ size \in 0 .. MaxSize
    /\ rd \in [lo : 1 .. MaxSize + 1, hi : 1 .. MaxSize + 1]
    /\ op \in Ops /\ pc \in Loops /\ step \in 0 .. MaxSize
    /\ before \in Seq(Objects) /\ threw \in BOOLEAN

\* Every object is an element or the range_destroyer's, and not both: none is
\* leaked, none is destroyed twice, and no element is raw memory, whichever
\* constructor or assignment throws.
ElementsAccounted ==
    LET owned == rd.lo .. rd.hi - 1 IN
    /\ {i \in Positions : data[i] # Raw} = 1 .. size \cup owned
    /\ \A i \in owned : i > size

\* A call may be given an element of the same vector (README.md:74, LWG 526): the
\* object read for it is still what the element was when the call began.
SourceIntact ==
    (op.src.kind # "values" /\ op.src.at \in 1 .. Len(before) /\
        \/ pc = "fill" /\ Made < op.n
        \/ pc = "overwrite" /\ step < Kept)
    => data[ReadAt] = before[op.src.at]

\* A call that returns has done what was asked for.
DoneAsAsked == pc = "return" /\ ~threw => Contents = Expected

\* A call that throws leaves the elements in front of its position, and behind
\* them a part of what was there or of what was asked for, in order.  One that
\* grows the vector or adds one element at the end leaves it as it was
\* (exception_safety.cpp:31, 66, 103, 140, 276 and 373).
ThrowKeeps ==
    pc = "return" /\ threw /\ op.name \in {"insert", "resize", "reserve"} =>
        /\ size >= op.pos - 1
        /\ \E s \in {before, Remaining, Expected} : IsPrefix(Contents, s)
        /\ op.name # "resize" /\ (op.grows \/ (op.n = 1 /\ op.pos = Len(before) + 1))
           => Contents \in {before, Remaining}

----------------------------------------------------------------------------
\* Why they hold: where each loop is, and what it has left to do.  A vector has
\* room for cap elements, an inplace_vector for MaxSize.

\* The values of the call under way can be read.
SourceGiven ==
    /\ op.name # "erase" /\ op.src.kind = "values" => Len(op.src.values) >= op.n
    /\ op.src.kind # "values" => op.src.at \in 1 .. Len(before)
    /\ op.src.kind = "rvalue" => op.name = "insert" /\ op.n = 1

Relocating(room) ==
    /\ op.name = "insert" /\ op.n >= 1 /\ ~op.grows
    /\ op.pos <= size /\ size <= Len(before) /\ Len(before) + op.n <= room
    /\ rd.lo = size + op.n + 1 /\ rd.hi = Len(before) + op.n + 1
    /\ \A i \in 1 .. size : data[i] = before[i]
    /\ \A i \in rd.lo .. rd.hi - 1 : data[i] = before[i - op.n]

\* The old elements, during "fill".
Rest == IF Made < op.n THEN before ELSE Remaining

\* Values are made behind the elements of an insertion's front, or of an assignment.
Filling(room) ==
    /\ op.pos - 1 <= size /\ Made <= op.n /\ op.pos - 1 + op.n + TailCount <= room
    /\ \A j \in 1 .. Made : data[op.pos - 1 + j] = Asked[j]
    /\ \/ /\ op.name \in {"insert", "resize"} /\ (op.name = "insert" => ~op.grows)
          /\ TailCount = Len(before) - (op.pos - 1)
          /\ TailCount > 0 => op.name = "insert" /\ rd.lo = op.pos + op.n
          /\ \A i \in 1 .. op.pos - 1 : data[i] = Rest[i]
          /\ \A i \in rd.lo .. rd.hi - 1 : data[i] = Rest[i - op.n]
       \/ /\ op.name \in {"assign", "assign_range"} /\ op.pos = 1 /\ rd = Empty
          /\ op.src.kind # "values" => op.src.at <= size

Overwriting(room) ==
    /\ op.name \in {"assign", "assign_range"} /\ op.pos = 1 /\ op.n <= room
    /\ step <= Kept
    /\ \A j \in 1 .. step : data[j] = Asked[j]
    /\ op.src.kind # "values" => op.src.at <= size /\ data[op.src.at] = before[op.src.at]

Shifting ==
    /\ op.name = "erase" /\ op.n >= 1 /\ op.pos + op.n <= size /\ size = Len(before)
    /\ op.pos + op.n + step <= size + 1 /\ (traits = "relocatable" => step = 0)
    /\ \A i \in 1 .. op.pos - 1 : data[i] = before[i]
    /\ \A i \in op.pos .. op.pos + step - 1 : data[i] = before[i + op.n]
    /\ \A i \in op.pos + op.n + step .. size : data[i] = before[i]

LoopsFollow(room) ==
    /\ size <= room /\ op.pos <= Len(before) + 1 /\ SourceGiven
    /\ pc \notin {"relocate", "fill"} => rd = Empty
    /\ pc # "return" => ~threw
    /\ pc = "idle" => op = NoOp /\ before = <<>> /\ step = 0
    /\ pc = "relocate" => Relocating(room)
    /\ pc = "fill" => Filling(room)
    /\ pc = "overwrite" => Overwriting(room)
    /\ pc = "shift" => Shifting

SlotsInv(room) ==
    TypeOK /\ ElementsAccounted /\ LoopsFollow(room) /\ DoneAsAsked /\ ThrowKeeps
============================================================================
