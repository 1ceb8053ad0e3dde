--------------------------- MODULE InplaceVector ---------------------------
(***************************************************************************)
(* include/ciel/inplace_vector.hpp: elements in a fixed array, size_ apart. *)
(* There is no growth; a call that does not fit is refused by bad_alloc,   *)
(* or, for the try_ functions, appends what fits.                          *)
(***************************************************************************)
EXTENDS Slots

\* insert, emplace, push_back, emplace_back.
InplaceInsert(pos, n, src) ==
    LET o == [NoOp EXCEPT !.name = "insert", !.pos = pos, !.n = n, !.src = src] IN
    IF size + n > MaxSize THEN Refuse(o)
    ELSE /\ IF pos = size + 1
            THEN Start(o, "fill") /\ UNCHANGED rd
            ELSE Start(o, "relocate") /\ rd' = [lo |-> size + n + 1, hi |-> size + n + 1]
         /\ UNCHANGED <<traits, data, size, step>>

\* try_push_back, try_append_range
TryAppend(s) ==
    LET fit == SubSeq(s, 1, Min({Len(s), MaxSize - size})) IN
    /\ Start([NoOp EXCEPT !.name = "insert", !.pos = size + 1, !.n = Len(fit),
                          !.src = Given(fit)], "fill")
    /\ UNCHANGED <<traits, data, size, rd, step>>

\* resize, clear, pop_back
InplaceResize(count, src) ==
    LET o == [NoOp EXCEPT !.name = "resize"] IN
    IF count > MaxSize THEN Refuse([o EXCEPT !.pos = size + 1])
    ELSE IF count <= size
    THEN /\ Start([o EXCEPT !.pos = count + 1], "return")
         /\ DestroyFrom(count + 1)
         /\ UNCHANGED <<traits, rd, step>>
    ELSE /\ Start([o EXCEPT !.pos = size + 1, !.n = count - size, !.src = src], "fill")
         /\ UNCHANGED <<traits, data, size, rd, step>>

\* assign destroys what is left over first: its value is not an element.
InplaceAssign(s) ==
    LET o == [NoOp EXCEPT !.name = "assign", !.n = Len(s), !.src = Given(s)] IN
    IF Len(s) > MaxSize THEN Refuse(o)
    ELSE /\ Start(o, "overwrite")
         /\ IF size > Len(s) THEN DestroyFrom(Len(s) + 1) ELSE UNCHANGED <<data, size>>
         /\ UNCHANGED <<traits, rd, step>>

InplaceCall ==
    \/ \E pos \in 1 .. size + 1 :
          \/ \E s \in Lists \ {<<>>} : InplaceInsert(pos, Len(s), Given(s))
          \/ \E k \in 1 .. size : \/ \E n \in 1 .. MaxCount : InplaceInsert(pos, n, Element(k))
                                  \/ InplaceInsert(pos, 1, Rvalue(k))
    \/ \E s \in Lists : TryAppend(s)
    \/ \E count \in 0 .. MaxSize + 1 :
          \/ \E v \in Values : InplaceResize(count, Repeat(count - size, v))
          \/ \E k \in 1 .. size : InplaceResize(count, Element(k))
    \/ \E s \in Lists : InplaceAssign(s)
    \/ StartErase

InplaceNext == InplaceCall \/ InPlace

InplaceSpec == Init /\ [][InplaceNext]_slots

\* Why the properties of Slots hold for it: the room is the whole array.
InplaceLoops == {"idle", "relocate", "fill", "overwrite", "shift", "return"}

InplaceIInv == SlotsInv(MaxSize) /\ pc \in InplaceLoops
============================================================================
