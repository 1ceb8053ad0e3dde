------------------------------ MODULE Function -----------------------------
(***************************************************************************)
(* include/ciel/function.hpp: functions that hold a copy of a callable, in *)
(* a buffer of three words (f_ = 1) or on the heap (f_ points there), or   *)
(* none (f_ = 0).                                                          *)
(*                                                                         *)
(* A call is one step.  A constructor that takes a callable or a function  *)
(* is the assignment to a function that holds none, and the destructor the *)
(* assignment of nullptr.                                                  *)
(***************************************************************************)
EXTENDS Integers, FiniteSets

CONSTANTS Functions,
          Callables,        \* records: size in words, and whether the type is
                            \* known to be trivially relocatable
          MaxDepth,         \* bound: functions in functions
          Null

VARIABLES
    fns,        \* fns[f]: what f holds, see Target, or Null
    live,       \* live[c]: copies of c constructed and not destroyed
    asked       \* history: the callable f should hold, see Request

\* What a function may hold, see Target.
Targets ==
    [callable : Callables, depth : 0 .. MaxDepth, place : {"buffer", "heap"}, whole : BOOLEAN]

Requests == [what : Callables \cup {Null}, from : {"outside", "itself", "inside"}]

\* A callable is a record, and Null is none.
ASSUME FnAssumption ==
    /\ IsFiniteSet(Functions)
    /\ Callables \subseteq [size : Nat, relocatable : BOOLEAN]
    /\ MaxDepth \in Nat
    /\ Null \notin Callables /\ Null \notin Targets

fnVars == <<fns, live, asked>>

Words == 3

\* The callable, the functions it is wrapped in, where the innermost stores it, and
\* whether it still is as it was constructed.  A function that holds a function
\* stores that on the heap.
Target(c, depth, place, whole) ==
    [callable |-> c, depth |-> depth, place |-> place, whole |-> whole]

\* What a function was given last, or Null, and from where: from outside of the
\* function, as itself, or as what is inside of it.
Request(what, from) == [what |-> what, from |-> from]

Handed(c) == Request(c, "outside")

FnInit ==
    /\ fns = [f \in Functions |-> Null] /\ live = [c \in Callables |-> 0]
    /\ asked = [f \in Functions |-> Handed(Null)]

----------------------------------------------------------------------------
\* Effects, on a record of what the functions hold and what is alive.

Now == [fns |-> fns, live |-> live]

\* clear: destroy or destroy_and_deallocate
Clear(s, f) ==
    IF s.fns[f] = Null THEN s
    ELSE [fns |-> [s.fns EXCEPT ![f] = Null], live |-> [s.live EXCEPT ![s.fns[f].callable] = @ - 1]]

Hold(s, f, target) ==
    [fns |-> [s.fns EXCEPT ![f] = target], live |-> [s.live EXCEPT ![target.callable] = @ + 1]]

\* is_small_object
Small(c) == c.size <= Words /\ c.relocatable

\* func has a pointer to its virtual functions besides the callable, and f_ = 1
\* is stored into the word behind the buffer.
InBuffer(c) == Target(c, 0, "buffer", c.size + 1 <= Words)

OnHeap(c) == Target(c, 0, "heap", TRUE)

Stored(c) == IF Small(c) THEN InBuffer(c) ELSE OnHeap(c)

\* clone and clone_to
Clone(s, f, g) == IF s.fns[g] = Null THEN s ELSE Hold(s, f, s.fns[g])

\* A copy of function g is the callable.
Wrap(s, f, g) ==
    IF s.fns[g] = Null THEN s
    ELSE Hold(s, f, [s.fns[g] EXCEPT !.depth = @ + 1])

Become(s) == fns' = s.fns /\ live' = s.live

Give(f, request) == asked' = [asked EXCEPT ![f] = request]

\* The calls that begin with clear() end with it if they throw.
ThrowsIn(f) == Become(Clear(Now, f)) /\ Give(f, Handed(Null))

----------------------------------------------------------------------------
\* Faulty variant: no test for assignment to itself.
AssignCopy_Self(f, g) ==
    \/ Become(Clone(Clear(Now, f), f, g)) /\ Give(f, asked[g])
    \/ fns[g] # Null /\ ThrowsIn(f)

\* assign(const function&), operator=(const function&), and the copy constructor
AssignCopy(f, g) ==
    IF f = g THEN UNCHANGED fnVars
    ELSE \/ Become(Clone(Clear(Now, f), f, g)) /\ Give(f, asked[g])
         \/ fns[g] # Null /\ ThrowsIn(f)

MoveFrom(s, f, g) == [s EXCEPT !.fns[f] = s.fns[g], !.fns[g] = Null]

\* assign(function&&), operator=(function&&), and the move constructor
AssignMove(f, g) ==
    IF f = g THEN UNCHANGED fnVars
    ELSE /\ Become(MoveFrom(Clear(Now, f), f, g))
         /\ asked' = [asked EXCEPT ![f] = asked[g], ![g] = Handed(Null)]

\* g is an lvalue that is not const, and a callable like any other to
\* operator=(F&&): f is cleared before g is looked at, and g is wrapped.
AssignLvalue(f, g) ==
    /\ ~(fns[g] # Null /\ fns[g].depth = MaxDepth)
    /\ \/ /\ Become(Wrap(Clear(Now, f), f, g))
          /\ Give(f, IF f = g THEN Request(asked[f].what, "itself") ELSE asked[g])
       \/ f # g /\ fns[g] # Null /\ ThrowsIn(f)

AssignNull(f) == Become(Clear(Now, f)) /\ Give(f, Handed(Null))

\* assign(F&&) and the constructor; a null function pointer leaves f empty.
AssignCallable(f, c) ==
    \/ Become(Hold(Clear(Now, f), f, Stored(c))) /\ Give(f, Handed(c))
    \/ ThrowsIn(f)

\* assign(assume_trivially_relocatable_t, F&&) and the constructor
AssignRelocatable(f, c) ==
    /\ c.size <= Words
    /\ \/ Become(Hold(Clear(Now, f), f, InBuffer(c))) /\ Give(f, Handed(c))
       \/ ThrowsIn(f)

\* What is inside of a function, stored anew.
Inside(t) == IF t.depth = 0 THEN Stored(t.callable) ELSE [t EXCEPT !.depth = @ - 1]

\* assign(*f.target<F>()): what f holds is destroyed and then copied.  That is
\* undefined: the copy may be as the callable was or not, and a function inside of f
\* may have none any more, as its destructor has left it.
AssignOwn(f) ==
    /\ fns[f] # Null
    /\ LET again == Inside(fns[f])
           request == Request(asked[f].what, "inside")
       IN \/ \E whole \in BOOLEAN :
                /\ Become(Hold(Clear(Now, f), f,
                               [again EXCEPT !.whole = @ /\ fns[f].whole /\ whole]))
                /\ Give(f, request)
          \/ fns[f].depth > 0 /\ Become(Clear(Now, f)) /\ Give(f, request)
          \/ ThrowsIn(f)

Swap(f, g) ==
    /\ fns' = [fns EXCEPT ![f] = fns[g], ![g] = fns[f]]
    /\ asked' = [asked EXCEPT ![f] = asked[g], ![g] = asked[f]]
    /\ UNCHANGED live

FnNext ==
    \E f \in Functions :
        \/ \E g \in Functions :
              AssignCopy(f, g) \/ AssignMove(f, g) \/ AssignLvalue(f, g) \/ Swap(f, g)
        \/ \E c \in Callables : AssignCallable(f, c) \/ AssignRelocatable(f, c)
        \/ AssignNull(f) \/ AssignOwn(f)

FnSpec == FnInit /\ [][FnNext]_fnVars
----------------------------------------------------------------------------
FnTypeOK ==
    /\ fns \in [Functions -> Targets \cup {Null}]
    /\ live \in [Callables -> Nat]
    /\ asked \in [Functions -> Requests]

\* Every copy of a callable that is alive is held by one function, and every
\* function holds one that is alive.
CallablesAccounted ==
    \A c \in Callables :
        live[c] = Cardinality({f \in Functions : fns[f] # Null /\ fns[f].callable = c})

\* As large as the buffer, and in it.
Fills(t) == t.place = "buffer" /\ t.callable.size = Words

\* A function holds no other callable than the one it was given last, through every
\* copy, move, wrap, swap and throw; it has lost it just when it was given itself,
\* and else only to what was inside of it; and the callable is as it was constructed
\* unless it fills the buffer, where it never is, or came from inside (function.hpp).
TargetsAgree ==
    \A f \in Functions :
        /\ fns[f] # Null => fns[f].callable = asked[f].what
        /\ asked[f].from = "itself" => fns[f] = Null
        /\ asked[f].from = "outside" =>
              /\ fns[f] = Null => asked[f].what = Null
              /\ fns[f] # Null => (fns[f].whole <=> ~Fills(fns[f]))

\* Both are inductive together.
FnIInv == FnTypeOK /\ CallablesAccounted /\ TargetsAgree

\* What README.md:124 says of the buffer, that it stores a callable whose size does not
\* exceed its own, and what README.md:138 and test/src/function.cpp:97 do, three words
\* in it: a callable that a function is given is held as it was constructed.
BufferHoldsCallable ==
    \A f \in Functions :
        fns[f] # Null /\ asked[f].from = "outside" => fns[f].whole
============================================================================
