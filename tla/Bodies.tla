-------------------------------- MODULE Bodies --------------------------------
(***************************************************************************)
(* The vocabulary of the mathematical functions.                           *)
(*                                                                         *)
(* The body of a function, for given operands, is a set of alternatives,   *)
(* each of them a sequence of what it does to its surroundings: the        *)
(* exponent range, the flags, the memory it takes, the operands it reads   *)
(* and the results it writes.  The branches on the operands are those of   *)
(* the code; those on a precision or on a computed approximation are taken *)
(* both ways.  FunctionCalls executes the bodies.                          *)
(***************************************************************************)
EXTENDS Integers, Sequences, FiniteSets

-----------------------------------------------------------------------------
(* Operands: NaN, infinities, zeros, and numbers of magnitude v/2; the      *)
(* magnitude 0 stands for a tiny number, Huge for a large even integer.     *)

Huge == 2^20
Operand(kind, neg, v) == [kind |-> kind, neg |-> neg, v |-> v]
IsNan(x) == x.kind = "nan"
IsInf(x) == x.kind = "inf"
IsZero(x) == x.kind = "zero"
IsNum(x) == x.kind = "num"
IsNeg(x) == x.neg
IsPos(x) == ~ x.neg
IsTiny(x) == IsNum(x) /\ x.v = 0
IsHuge(x) == IsNum(x) /\ x.v = Huge
IsInteger(x) == IsNum(x) /\ x.v # 0 /\ x.v % 2 = 0
IsOdd(x) == IsNum(x) /\ x.v % 4 = 2
Opposed(x) == [x EXCEPT !.neg = ~ @]
Absolute(x) == [x EXCEPT !.neg = FALSE]

\* The order of numbers, in sixteenths so that a tiny one is not 0.
Value(x) ==
  LET m == CASE IsInf(x) -> 2 * 16 * Huge [] IsZero(x) -> 0
             [] IsNum(x) -> IF x.v = 0 THEN 1 ELSE 8 * x.v
  IN IF x.neg THEN -m ELSE m
At(k) == 16 * k  \* the integer k on the same scale

\* MPFR_GET_EXP
Exponent(x) ==
  CASE x.v = 0 -> -99 [] x.v = 1 -> 0 [] x.v \in {2, 3} -> 1 [] x.v \in 4 .. 7 -> 2
    [] x.v \in 8 .. 15 -> 3 [] x.v > 15 -> 20

-----------------------------------------------------------------------------
(* Alternatives, each a sequence of events *)

Do(e) == {<<e>>}
Nothing == {<<>>}

\* One of the alternatives of b, chosen when it is reached.
Whole(b) == IF Cardinality(b) = 1 THEN CHOOSE s \in b : TRUE ELSE <<<<"either", b>>>>
b ** c == IF b = {} \/ c = {} THEN {} ELSE {Whole(b) \o Whole(c)}

If(cond, b) == IF cond THEN b ELSE {}
Maybe(b) == Nothing \cup b
Loop(b) == Do(<<"loop", b>>)  \* Ziv's loop: b at least once

\* Memory: mpfr_init2, MPFR_GROUP_INIT, mpz_init, MPFR_TMP_MARK..., and what frees it.
Alloc(names) == Do(<<"alloc", names>>)
Dealloc(names) == Do(<<"dealloc", names>>)
With(names, b) == Alloc(names) ** b ** Dealloc(names)

\* A computation on temporary variables: from the operands, from others only, and
\* one that is exact, which raises no flag.
Compute == Do(<<"compute", TRUE>>)
Intermediate == Do(<<"compute", FALSE>>)
Read == Do(<<"read", {}>>)

\* The flags of a block are looked at apart: MPFR_BLOCK and MPFR_CLEAR_FLAGS.
ClearFlags == Do(<<"clear_flags", {}>>)
Block == ClearFlags ** Compute

\* MPFR_SAVE_EXPO_MARK, MPFR_SAVE_EXPO_FREE, mpfr_check_range.
Mark == Do(<<"mark", "ext">>)
Free == Do(<<"free", "ext">>)
Check(o) == Do(<<"check", o>>)
FreeAndCheck == Free ** Check("y")

\* MPFR_SAVE_EXPO_UPDATE_FLAGS, with given flags or with those that are set.
Update(fs) == Do(<<"update", fs>>)
UpdateAll == Do(<<"update_all", {}>>)

\* Part of that by hand: the range alone, the flags alone.
LocalRange == Do(<<"mark", "local">>)
RangeBack == Do(<<"free", "local">>)
SaveFlags == Do(<<"mark", "flags">>)
RestoreFlags == Do(<<"free", "flags">>)

-----------------------------------------------------------------------------
(* Results: y, and z when there are two *)

\* What a result becomes once rounded in the user's range.
Classes == {"inexact", "over", "under"}
RoundTo(o, classes) == Do(<<"round", o, classes>>)
Round == RoundTo("y", Classes)
Exact == RoundTo("y", {"exact", "over", "under"})  \* an exact number, in range or not
AnyRound == RoundTo("y", Classes \cup {"exact"})
\* A rounding whose sign the code chooses.
RoundSigned(neg) == Do(<<"round", "y", Classes \cup {"exact"}, neg>>)
\* A result whose flags are left to mpfr_check_range.
Write(classes) == Do(<<"write", "y", classes>>)

OverTo(o, neg) == Do(<<"over", o, neg>>)
UnderTo(o, neg) == Do(<<"under", o, neg>>)
Over(neg) == OverTo("y", neg)
Under(neg) == UnderTo("y", neg)
\* mpfr_underflow in the caller's rounding mode: to nearest it gives the least number, which
\* is wrong for a result below half of it.
UnderAsAsked(neg) == Do(<<"under", "y", neg, "away">>)
ChangeSign == Do(<<"opposite", "y">>)
NanTo(o) == Do(<<"nan", o, FALSE>>)
InfTo(o, neg) == Do(<<"inf", o, neg>>)
ZeroTo(o, neg) == Do(<<"zero", o, neg>>)
RetNan == NanTo("y")
RetInf(neg) == InfTo("y", neg)
RetZero(neg) == ZeroTo("y", neg)
DivBy0 == Do(<<"divby0", {}>>)
Pole(neg) == RetInf(neg) ** DivBy0

-----------------------------------------------------------------------------
(* Shortcuts *)

\* MPFR_FAST_COMPUTE_IF_SMALL_INPUT, when it returns.
FastSmallInput == Read ** Round
\* MPFR_SMALL_INPUT_AFTER_SAVE_EXPO: it returns after extra, or it goes on.
SmallAfterMark(extra) == ClearFlags ** Read ** Round ** extra ** UpdateAll ** FreeAndCheck
NotSmall == Maybe(ClearFlags)

\* The usual function: temporaries of these names, a loop, a rounding.
ZivRound(names) == Alloc(names) ** Loop(Compute) ** Round ** Dealloc(names)
Standard(names) == Mark ** ZivRound(names) ** FreeAndCheck
=============================================================================
