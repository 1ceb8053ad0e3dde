---------------------------- MODULE MCSharedPtr ----------------------------
(***************************************************************************)
(* Three shared_ptrs and two weak_ptrs on one control block.  Two owners   *)
(* can be between their fetch_sub and their compare_exchange while a lock  *)
(* brings the count back, which is as many as the races need; the third    *)
(* lets copies and moves go on meanwhile.                                  *)
(***************************************************************************)
EXTENDS SharedPtr

MCZeroFlag == 8
============================================================================
