--------------------------- MODULE MCContainers ----------------------------
(***************************************************************************)
(* One vector, or one inplace_vector, or two functions, and any sequence   *)
(* of calls on them.                                                       *)
(***************************************************************************)
EXTENDS Vector, InplaceVector, Function

VARIABLE kind

allVars == <<kind, vars, fnVars>>

\* One callable for the buffer, one as large as the buffer, one of a type that is
\* not trivially relocatable, and one for the heap.
MCCallables ==
    {[size |-> 1, relocatable |-> TRUE], [size |-> 3, relocatable |-> TRUE],
     [size |-> 2, relocatable |-> FALSE], [size |-> 4, relocatable |-> TRUE]}

MCInit ==
    /\ kind \in {"vector", "inplace_vector", "function"}
    /\ kind = "function" => traits = "relocatable"
    /\ VectorInit /\ FnInit

\* Only what was chosen does anything; the others stay as they began.
MCNext ==
    /\ UNCHANGED kind
    /\ \/ kind = "vector" /\ Next /\ UNCHANGED fnVars
       \/ kind = "inplace_vector" /\ InplaceNext /\ UNCHANGED <<cap, sb, fnVars>>
       \/ kind = "function" /\ FnNext /\ UNCHANGED vars

MCSpec == MCInit /\ [][MCNext]_allVars

----------------------------------------------------------------------------
\* Every object has one owner, and the types are right.  A vector's is the vector,
\* its range_destroyer or its split_buffer (vector.hpp, range_destroyer.hpp,
\* split_buffer.hpp), a callable's is one function (function.hpp), whatever throws.
ObjectsAccounted ==
    /\ TypeOK /\ (kind = "vector" => VectorTypeOK)
    /\ ElementsAccounted /\ BufferAccounted
    /\ FnTypeOK /\ CallablesAccounted

\* An element given to a call is read before it is moved, destroyed or overwritten
\* (README.md:74, LWG 526).
SourcesIntact == SourceIntact /\ GrowthSourceIntact

\* So that what a call leaves behind is what it was asked for (vector.hpp,
\* inplace_vector.hpp).
AsAsked == SourcesIntact /\ DoneAsAsked

\* Why they hold, of each kind.
MCIInv ==
    /\ kind \in {"vector", "inplace_vector", "function"}
    /\ kind = "vector" => IInv
    /\ kind = "inplace_vector" => InplaceIInv
    /\ kind = "function" => Init
    /\ kind # "vector" => sb = NoBuffer
    /\ FnIInv
============================================================================
