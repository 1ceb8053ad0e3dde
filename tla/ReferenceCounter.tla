------------------------- MODULE ReferenceCounter -------------------------
(***************************************************************************)
(* The word behind include/ciel/core/reference_counter.hpp: an atomic      *)
(* size_t whose top bit, zero_flag, says that the count has hit zero for   *)
(* good.  Each operator below is one atomic access of that word; the       *)
(* modules that EXTEND this one interleave them.                           *)
(*                                                                         *)
(* The word is a natural number below 2 * ZeroFlag: the low bits are the   *)
(* count and the flag is worth ZeroFlag, so "res & zero_flag" is a         *)
(* comparison.                                                             *)
(***************************************************************************)
EXTENDS Integers

CONSTANT ZeroFlag       \* zero_flag, 2^63 in the code

ASSUME ZeroFlagAssumption == ZeroFlag \in Nat \ {0}

VARIABLE impl           \* impl_

\* res & zero_flag
IsStuck == impl >= ZeroFlag

\* The value load() returns: 0 only once the flag is set, and 1 while a count
\* of 0 is still waiting for its flag.
LoadCount ==
    IF IsStuck THEN 0
    ELSE IF impl # 0 THEN impl ELSE 1

\* The fetch_add of increment_if_not_zero, which happens whether or not the
\* flag is set; the call returns ~IsStuck.
FetchAdd(diff) == impl' = impl + diff

\* The fetch_sub of decrement.
FetchSub(diff) == impl' = impl - diff

\* Faulty variant: the last but one decrement takes itself for the last.
HitsZero_OffByOne(diff) == impl <= diff + 1

\* decrement has seen its fetch_sub reach zero: "res == diff".
HitsZero(diff) == impl = diff

\* The compare_exchange_strong(0, zero_flag) of decrement; it succeeds, and
\* decrement returns true, exactly when the word is still 0.
SetsFlag == impl = 0

CasZeroFlag == impl' = IF SetsFlag THEN ZeroFlag ELSE impl
===========================================================================
