------------------------- MODULE SequenceContainers ------------------------
(***************************************************************************)
(* What the sequence containers promise: some containers with a sequence   *)
(* of values each.  An insertion that throws leaves its container as it    *)
(* was; an assignment that throws leaves it with values of both sides.     *)
(***************************************************************************)
EXTENDS Integers, Sequences

CONSTANTS Containers,
          Inputs        \* the sequences of values to insert or assign

VARIABLES contents,     \* contents[c], a sequence of values
          threw         \* the last operation was left by an exception

vars == <<contents, threw>>

Init == contents = [c \in Containers |-> <<>>] /\ threw = FALSE

Become(c, s) == contents' = [contents EXCEPT ![c] = s] /\ threw' = FALSE

Insert(c) ==
    \E i \in 0 .. Len(contents[c]), s \in Inputs :
        Become(c, SubSeq(contents[c], 1, i) \o s
                  \o SubSeq(contents[c], i + 1, Len(contents[c])))

InsertThrows == UNCHANGED contents /\ threw' = TRUE

Erase(c) ==
    \E i \in 0 .. Len(contents[c]) : \E j \in i .. Len(contents[c]) :
        Become(c, SubSeq(contents[c], 1, i) \o SubSeq(contents[c], j + 1, Len(contents[c])))

Assign(c, s) == Become(c, s)

\* Some values have been assigned when a copy throws.
AssignThrows(c, s) ==
    \E i \in 0 .. Len(contents[c]) :
        /\ i <= Len(s)
        /\ contents' = [contents EXCEPT ![c] =
               SubSeq(s, 1, i) \o SubSeq(contents[c], i + 1, Len(contents[c]))]
        /\ threw' = TRUE

MoveFrom(c, d) ==
    /\ c # d
    /\ contents' = [contents EXCEPT ![c] = contents[d], ![d] = <<>>]
    /\ threw' = FALSE

Swap(c, d) ==
    /\ contents' = [contents EXCEPT ![c] = contents[d], ![d] = contents[c]]
    /\ threw' = FALSE

Next ==
    \/ InsertThrows
    \/ \E c \in Containers : Insert(c) \/ Erase(c)
    \/ \E c \in Containers, s \in Inputs : Assign(c, s) \/ AssignThrows(c, s)
    \/ \E c, d \in Containers :
          \/ Assign(c, contents[d]) \/ AssignThrows(c, contents[d])
          \/ MoveFrom(c, d) \/ Swap(c, d)

Spec == Init /\ [][Next]_vars
============================================================================
