------------------------------ MODULE DtWords ------------------------------
(***************************************************************************)
(* The C integers the calculations of src/src/dt.c run on, for a machine   *)
(* with any word size: `long` is LONG_MIN .. LONG_MAX and `unsigned long`  *)
(* is 0 .. ULONG_MAX.  NANO is the number of "nano-seconds" in a second    *)
(* (1000000000UL in the code).  A model is checked on small words; the     *)
(* proofs hold for every pair of constants allowed by WordAssumption.      *)
(***************************************************************************)
EXTENDS Integers

CONSTANTS
  LONG_MAX,   \* limits.h
  NANO        \* the literal 1000000000UL

(***************************************************************************)
(* Two nano-second parts can be added without overflowing an unsigned long *)
(* ("cannot be owerflowed", dt.c:201) and a nano-second part fits a long:  *)
(* both are 2 * NANO - 2 <= ULONG_MAX.  One second has at least two units  *)
(* so that a fraction exists.                                              *)
(***************************************************************************)
ASSUME WordAssumption ==
  /\ LONG_MAX \in Nat
  /\ NANO \in Nat
  /\ 2 <= NANO
  /\ NANO <= LONG_MAX + 1

LONG_MIN  == -(LONG_MAX + 1)
ULONG_MAX == 2 * LONG_MAX + 1
TwoToTheWord == ULONG_MAX + 1

LongInt  == LONG_MIN .. LONG_MAX
ULongInt == 0 .. ULONG_MAX

MAX_NANOSECONDS == NANO - 1
NanoPart == 0 .. MAX_NANOSECONDS

(***************************************************************************)
(* Conversion of an exact value to unsigned long, i.e. modulo 2^w.  Every  *)
(* use is a sum or a difference of two words, so one turn of the wheel is  *)
(* enough; stating it by cases keeps the arithmetic linear.                *)
(***************************************************************************)
ULong(x) == IF x < 0 THEN x + TwoToTheWord
            ELSE IF x > ULONG_MAX THEN x - TwoToTheWord
            ELSE x

(* A slip: the sign bit is lost.                                           *)
Long_Unsigned(u) == u

(***************************************************************************)
(* Conversion of an unsigned long to long, as two's complement machines    *)
(* (and every compiler the library is built with) do it.                   *)
(***************************************************************************)
Long(u) == IF u > LONG_MAX THEN u - TwoToTheWord ELSE u

(* A slip: off by one at the largest sum.                                  *)
is_unsigned_long_sum_overflows_Early(lhs, rhs) == rhs >= ULONG_MAX - lhs

is_unsigned_long_sum_overflows(lhs, rhs) == rhs > ULONG_MAX - lhs

dt_timestamp_t == [second : LongInt, nano_second : ULongInt]
dt_interval_t  == [seconds : ULongInt, nano_seconds : ULongInt]
dt_offset_t    == [duration : dt_interval_t, is_forward : BOOLEAN]
=============================================================================
