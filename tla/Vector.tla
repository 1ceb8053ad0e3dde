------------------------------- MODULE Vector ------------------------------
(***************************************************************************)
(* include/ciel/vector.hpp with split_buffer.hpp and range_destroyer.hpp:  *)
(* the calls that change one vector, their growth included.                *)
(***************************************************************************)
EXTENDS Slots

VARIABLES
    cap,        \* capacity()
    sb          \* the split_buffer: its slots, capacity, and the objects in
                \* sb.first .. sb.last - 1

vars == <<traits, data, size, rd, op, pc, step, before, threw, cap, sb>>

NoSlots == [i \in Positions |-> Raw]

NoBuffer == [data |-> NoSlots, cap |-> 0, first |-> 1, last |-> 1]

\* A buffer of c slots, of which the first are left for the elements in front.
Buffer(c, front) == [data |-> NoSlots, cap |-> c, first |-> front + 1, last |-> front + 1]

VectorInit == Init /\ cap = 0 /\ sb = NoBuffer

\* recommend_cap, when n is at most max_size()
RecommendCap(n) ==
    IF cap >= MaxSize \div 2 THEN MaxSize ELSE IF 2 * cap > n THEN 2 * cap ELSE n

----------------------------------------------------------------------------
\* Growth: emplace_back, insert, resize, reserve, shrink_to_fit.

\* A call that goes on in a new buffer, or throws as there is no memory.
Grow(o, c, loop) ==
    \/ /\ Start([o EXCEPT !.grows = TRUE], loop)
       /\ sb' = Buffer(c, o.pos - 1)
       /\ UNCHANGED <<traits, data, size, rd, step, cap>>
    \/ Refuse([o EXCEPT !.grows = TRUE]) /\ UNCHANGED <<cap, sb>>

\* The new values are made before the old ones are touched.
MakeNew ==
    /\ pc = "makeNew" /\ sb.last - sb.first < op.n
    /\ sb' = [sb EXCEPT !.data[sb.last] = Value(sb.last - sb.first + 1), !.last = @ + 1]
    /\ data' = AfterRead
    /\ UNCHANGED <<traits, size, rd, op, pc, step, before, threw, cap>>

EndMakeNew ==
    /\ pc = "makeNew" /\ sb.last - sb.first = op.n
    /\ pc' = "moveFront"
    /\ UNCHANGED <<traits, data, size, rd, op, step, before, threw, cap, sb>>

\* swap_out_buffer: everything by memcpy; what is left behind is no object.
MoveAll ==
    /\ pc = "moveFront" /\ traits = "relocatable"
    /\ sb' = [sb EXCEPT
          !.data = [i \in Positions |->
              IF i < op.pos THEN data[i]
              ELSE IF i >= sb.last /\ i < sb.last + size - (op.pos - 1)
              THEN data[op.pos + i - sb.last] ELSE @[i]],
          !.first = 1, !.last = @ + size - (op.pos - 1)]
    /\ data' = NoSlots /\ size' = 0
    /\ pc' = "takeOver"
    /\ UNCHANGED <<traits, rd, op, step, before, threw, cap>>

\* Faulty variant: std::move, whatever the type.
Left_Always(i) == [data EXCEPT ![i] = Moved]

\* move_if_noexcept
Left(i) == IF traits = "nothrow" THEN [data EXCEPT ![i] = Moved] ELSE data

\* Faulty variant: the element is not counted before the next one is made.
MoveFront_Uncounted ==
    /\ pc = "moveFront" /\ traits # "relocatable" /\ sb.first > 1
    /\ LET p == sb.first - 1 IN
        /\ sb' = [sb EXCEPT !.data[p] = data[p], !.first = IF p = 1 THEN 1 ELSE p + 1]
        /\ data' = Left(p)
    /\ UNCHANGED <<traits, size, rd, op, pc, step, before, threw, cap>>

\* The elements before the new ones, the last one first, then those after.
MoveFront ==
    /\ pc = "moveFront" /\ traits # "relocatable" /\ sb.first > 1
    /\ LET p == sb.first - 1 IN
        /\ sb' = [sb EXCEPT !.data[p] = data[p], !.first = p]
        /\ data' = Left(p)
    /\ UNCHANGED <<traits, size, rd, op, pc, step, before, threw, cap>>

EndMoveFront ==
    /\ pc = "moveFront" /\ traits # "relocatable" /\ sb.first = 1
    /\ pc' = "moveBack"
    /\ UNCHANGED <<traits, data, size, rd, op, step, before, threw, cap, sb>>

\* Where the next of the elements after the new ones is.  At the end there is none.
Behind == sb.last - op.n

MoveBack ==
    /\ pc = "moveBack" /\ op.pos <= size /\ Behind <= size
    /\ sb' = [sb EXCEPT !.data[sb.last] = data[Behind], !.last = @ + 1]
    /\ data' = Left(Behind)
    /\ UNCHANGED <<traits, size, rd, op, pc, step, before, threw, cap>>

\* clear()
EndMoveBack ==
    /\ pc = "moveBack" /\ (op.pos > size \/ Behind > size)
    /\ data' = NoSlots /\ size' = 0
    /\ pc' = "takeOver"
    /\ UNCHANGED <<traits, rd, op, step, before, threw, cap, sb>>

\* The buffer becomes the vector's.  resize(count) has reserved only, and goes on.
TakeOver ==
    /\ pc = "takeOver"
    /\ data' = sb.data /\ size' = sb.last - 1 /\ cap' = sb.cap
    /\ sb' = NoBuffer
    /\ pc' = IF op.name = "resize" THEN "fill" ELSE "return"
    /\ UNCHANGED <<traits, rd, op, step, before, threw>>

\* The split_buffer destroys what it has.  shrink_to_fit catches what is thrown.
MoveThrows ==
    /\ \/ pc = "makeNew" /\ sb.last - sb.first < op.n /\ MayThrow
       \/ pc = "moveFront" /\ traits = "throwing" /\ sb.first > 1
       \/ pc = "moveBack" /\ traits = "throwing" /\ op.pos <= size /\ Behind <= size
    /\ sb' = NoBuffer
    /\ pc' = "return" /\ threw' = (op.name # "shrink")
    /\ UNCHANGED <<traits, data, size, rd, op, step, before, cap>>

----------------------------------------------------------------------------
\* insert, emplace, push_back, emplace_back.
Insert(pos, n, src) ==
    LET o == [NoOp EXCEPT !.name = "insert", !.pos = pos, !.n = n, !.src = src] IN
    IF size + n > MaxSize THEN Refuse(o) /\ UNCHANGED <<cap, sb>>
    ELSE IF size + n > cap THEN Grow(o, RecommendCap(size + n), "makeNew")
    ELSE /\ IF pos = size + 1
            THEN Start(o, "fill") /\ UNCHANGED rd
            ELSE Start(o, "relocate") /\ rd' = [lo |-> size + n + 1, hi |-> size + n + 1]
         /\ UNCHANGED <<traits, data, size, step, cap, sb>>

\* resize, down and up.
ResizeTo(count) == [NoOp EXCEPT !.name = "resize", !.pos = count + 1]

Truncate(count) ==
    /\ count <= size
    /\ Start(ResizeTo(count), "return")
    /\ DestroyFrom(count + 1)
    /\ UNCHANGED <<traits, rd, step, cap, sb>>

Resize(count, src, reserves) ==
    LET o == [ResizeTo(size) EXCEPT !.n = count - size, !.src = src] IN
    /\ count > size
    /\ IF count > cap THEN Grow(o, count, IF reserves THEN "moveFront" ELSE "makeNew")
       ELSE Start(o, "fill") /\ UNCHANGED <<traits, data, size, rd, step, cap, sb>>

Reserve(c) ==
    LET o == [NoOp EXCEPT !.name = "reserve", !.pos = size + 1] IN
    /\ c > cap
    /\ IF c > MaxSize THEN Refuse(o) /\ UNCHANGED <<cap, sb>>
       ELSE Grow(o, c, "moveFront")

ShrinkToFit ==
    LET o == [NoOp EXCEPT !.name = "shrink", !.pos = size + 1, !.grows = size > 0] IN
    /\ size # cap
    /\ \/ /\ size > 0
          /\ Start(o, "moveFront")
          /\ sb' = Buffer(size, size) /\ UNCHANGED cap
       \/ /\ Start(o, "return")
          /\ cap' = IF size > 0 THEN cap ELSE 0
          /\ UNCHANGED sb
    /\ UNCHANGED <<traits, data, size, rd, step>>

\* The values of a call, before it begins.
Named(n, src) ==
    IF src.kind = "values" THEN src.values ELSE [j \in 1 .. n |-> data[src.at]]

\* assign(count, value).  A value in the vector is moved out before its reset.
AssignCount(n, src) ==
    LET o == [NoOp EXCEPT !.name = "assign", !.n = n, !.src = src] IN
    IF cap < n
    THEN \/ /\ Start([o EXCEPT !.grows = TRUE, !.src = Given(Named(n, src))], "reset")
            /\ data' = IF src.kind = "element" THEN [data EXCEPT ![src.at] = Moved] ELSE data
            /\ UNCHANGED <<traits, size, rd, step, cap, sb>>
         \/ src.kind = "element" /\ traits # "nothrow" /\ Refuse(o) /\ UNCHANGED <<cap, sb>>
    ELSE Start(o, "overwrite") /\ UNCHANGED <<traits, data, size, rd, step, cap, sb>>

\* assign(first, last)
AssignRange(s) ==
    LET o == [NoOp EXCEPT !.name = "assign_range", !.n = Len(s), !.src = Given(s)] IN
    IF cap < Len(s)
    THEN Start([o EXCEPT !.grows = TRUE], "reset")
         /\ UNCHANGED <<traits, data, size, rd, step, cap, sb>>
    ELSE /\ Start(o, "overwrite")
         /\ IF size > Len(s) THEN DestroyFrom(Len(s) + 1) ELSE UNCHANGED <<data, size>>
         /\ UNCHANGED <<traits, rd, step, cap, sb>>

\* reset(count): all is destroyed and given back, then new memory is asked for, of
\* which there is none for more than max_size() objects.
Reset ==
    /\ pc = "reset"
    /\ data' = NoSlots /\ size' = 0
    /\ \/ op.n <= MaxSize /\ cap' = op.n /\ pc' = "fill" /\ UNCHANGED threw
       \/ cap' = 0 /\ pc' = "return" /\ threw' = TRUE
    /\ UNCHANGED <<traits, rd, op, step, before, sb>>

\* ~vector, and a new one.
Destroy ==
    /\ pc = "idle"
    /\ data' = NoSlots /\ size' = 0 /\ cap' = 0
    /\ UNCHANGED <<traits, rd, op, pc, step, before, threw, sb>>

Call ==
    \/ \E pos \in 1 .. size + 1 :
          \/ \E s \in Lists \ {<<>>} : Insert(pos, Len(s), Given(s))
          \/ \E k \in 1 .. size : \/ \E n \in 1 .. MaxCount : Insert(pos, n, Element(k))
                                  \/ Insert(pos, 1, Rvalue(k))
    \/ \E count \in 0 .. size : Truncate(count)
    \/ \E count \in size + 1 .. MaxSize :
          \/ \E v \in Values, reserves \in BOOLEAN : Resize(count, Repeat(count - size, v), reserves)
          \/ \E k \in 1 .. size : Resize(count, Element(k), FALSE)
    \/ \E c \in 1 .. MaxSize + 1 : Reserve(c)
    \/ ShrinkToFit
    \/ \E n \in 0 .. MaxSize :
          \/ \E v \in Values : AssignCount(n, Repeat(n, v))
          \/ \E k \in 1 .. size : AssignCount(n, Element(k))
    \/ \E s \in Lists : AssignRange(s)
    \/ StartErase /\ UNCHANGED <<cap, sb>>
    \/ Destroy

Next ==
    \/ Call
    \/ MakeNew \/ EndMakeNew
    \/ MoveAll \/ MoveFront \/ EndMoveFront \/ MoveBack \/ EndMoveBack
    \/ TakeOver \/ MoveThrows \/ Reset
    \/ InPlace /\ UNCHANGED <<cap, sb>>

Spec == VectorInit /\ [][Next]_vars

----------------------------------------------------------------------------
VectorTypeOK ==
    /\ TypeOK
    /\ cap \in 0 .. MaxSize /\ size <= cap
    /\ sb \in [data : [Positions -> Objects \cup {Raw}], cap : 0 .. MaxSize,
               first : 1 .. MaxSize + 1, last : 1 .. MaxSize + 1]
    /\ sb.first <= sb.last

\* The split_buffer has exactly the objects it counts, and each within its memory,
\* whichever constructor throws while the vector grows: unwinding destroys them all.
BufferAccounted ==
    /\ {i \in Positions : sb.data[i] # Raw} = sb.first .. sb.last - 1
    /\ sb.first # sb.last => sb.last - 1 <= sb.cap

\* The value made in a new buffer is read before what it refers to is moved.
GrowthSourceIntact ==
    pc = "makeNew" /\ op.src.kind # "values" /\ sb.first = sb.last =>
        data[op.src.at] = before[op.src.at]

----------------------------------------------------------------------------
\* Why they hold: what the split_buffer has, and what is still to be moved to it.

GrowthLoops == {"makeNew", "moveFront", "moveBack", "takeOver"}

BufferHolds ==
    \A i \in sb.first .. sb.last - 1 :
        sb.data[i] = IF i < op.pos THEN Remaining[i]
                     ELSE IF i < op.pos + op.n THEN Asked[i - (op.pos - 1)]
                     ELSE Remaining[i - op.n]

\* resize(count) has only reserved: its values are still to be made.
Reserved == op.name = "resize" /\ op.src.kind = "values" /\ sb.last = op.pos

Growing ==
    /\ op.grows /\ op.name \in {"insert", "resize", "reserve", "shrink"}
    /\ op.name # "insert" => op.pos = Len(before) + 1
    /\ op.name \in {"reserve", "shrink"} => op.n = 0 /\ op.src.kind = "values"
    /\ Len(before) + op.n <= sb.cap
    /\ BufferHolds

MakingNew ==
    /\ op.name \in {"insert", "resize"} /\ op.n >= 1
    /\ sb.first = op.pos /\ sb.last <= op.pos + op.n
    /\ \A i \in 1 .. size : data[i] = IF sb.last = sb.first THEN before[i] ELSE Remaining[i]

MovingFront ==
    /\ sb.first <= op.pos /\ (traits = "relocatable" => sb.first = op.pos)
    /\ sb.last = op.pos + op.n \/ Reserved
    /\ \A i \in 1 .. size :
          i < sb.first \/ i >= op.pos \/ traits = "throwing" => data[i] = Remaining[i]

MovingBack ==
    /\ sb.first = 1 /\ traits # "relocatable"
    /\ IF op.pos <= size THEN sb.last >= op.pos + op.n /\ Behind <= size + 1
       ELSE sb.last = op.pos + op.n \/ Reserved
    /\ \A i \in 1 .. size :
          (i >= op.pos /\ i >= Behind) \/ traits = "throwing" => data[i] = Remaining[i]

TakingOver ==
    /\ size = 0 /\ sb.first = 1
    /\ sb.last = Len(before) + op.n + 1 \/ Reserved

GrowthFollows ==
    /\ pc \notin GrowthLoops => sb = NoBuffer
    /\ pc \in GrowthLoops => Growing
    /\ pc \in GrowthLoops \ {"takeOver"} => size = Len(before)
    /\ pc = "makeNew" => MakingNew
    /\ pc = "moveFront" => MovingFront
    /\ pc = "moveBack" => MovingBack
    /\ pc = "takeOver" => TakingOver
    /\ pc = "reset" =>
          op.name \in {"assign", "assign_range"} /\ op.pos = 1 /\ op.src.kind = "values"

IInv == VectorTypeOK /\ SlotsInv(cap) /\ BufferAccounted /\ GrowthFollows
============================================================================
