-------------------------- MODULE MCHazardPointer --------------------------
(***************************************************************************)
(* One reader, two writers and three objects, with a list that starts with *)
(* one slot and grows, and a cleanup at every second retire of a slot.     *)
(***************************************************************************)
EXTENDS HazardPointer, TLC

Symmetry == Permutations(Objects) \cup Permutations(Writers)
============================================================================
