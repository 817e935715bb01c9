------------------------------- MODULE CanRound -------------------------------
(***************************************************************************)
(* The two tests that tell whether an approximation is good enough to be   *)
(* rounded: mpfr_can_round (src/round_prec.c), the exact one, and          *)
(* mpfr_round_p (src/round_p.c), the fast one that Ziv's loops rely on     *)
(* through MPFR_CAN_ROUND.  A user asks for one or the other; the answer   *)
(* is compared with what it means on the interval where the real number    *)
(* may lie.                                                                *)
(***************************************************************************)
EXTENDS Rounding, RealRounding

CONSTANTS
  MaxLimbs,  \* an approximation has at most MaxLimbs limbs
  Slack,     \* correct_bits and prec go up to Slack bits further
  Negs       \* the signs

ASSUME CanRoundAssumption ==
  /\ MaxLimbs \in Nat \ {0} /\ Slack \in Nat \ {0}
  /\ Negs \subseteq BOOLEAN
  /\ MaxLimbs * W + Slack + 2 <= MaxBits   \* the ends of the intervals are below 2^MaxBits units

VARIABLES
  call,   \* the test, the approximation b of bn limbs and what is asked of it
  answer  \* "none", then "yes" or "no"

vars == <<call, answer>>

Approximations ==
  UNION {{[bn |-> n, b |-> b] : b \in 2^(n*W-1)..2^(n*W)-1} : n \in 1..MaxLimbs}

Queries(a) ==
  [test : {"can_round"}, bn : {a.bn}, b : {a.b}, neg : Negs, rnd1 : Rnds, rnd2 : Rnds,
   cb : 1..a.bn*W+Slack, prec : 1..a.bn*W+Slack]
  \cup
  [test : {"round_p"}, bn : {a.bn}, b : {a.b}, neg : {FALSE}, rnd1 : {"RNDN"}, rnd2 : Rnds,
   cb : 1..a.bn*W+Slack, prec : 1..a.bn*W+Slack]

Init ==
  /\ call \in UNION {Queries(a) : a \in Approximations}
  /\ answer = "none"

Answer(yes) ==
  /\ answer = "none"
  /\ answer' = IF yes THEN "yes" ELSE "no"
  /\ UNCHANGED call

\* mpfr_can_round, of a number that is not singular
AskCanRound ==
  /\ call.test = "can_round"
  /\ Answer(CanRoundRaw(call.b, call.bn, call.neg, call.cb, call.rnd1, call.rnd2, call.prec))

\* MPFR_CAN_ROUND
AskRoundP ==
  /\ call.test = "round_p"
  /\ Answer(CanRound(call.b, call.bn, call.cb, call.prec, call.rnd2))

Done == answer # "none" /\ UNCHANGED vars

Next == AskCanRound \/ AskRoundP \/ Done

Spec == Init /\ [][Next]_vars

-----------------------------------------------------------------------------
(* Properties *)

\* The absolute value of the real number lies in Lower..Upper; the unit is small
\* enough that the midpoints and the interior of the interval can be told.
B == call.b * 2^(Slack + 1)
Error == 2^(call.bn * W - call.cb + Slack + 1)
BelowX == TowardZero(call.rnd1, call.neg)   \* |b| <= |x|, and the opposite
AboveX == call.rnd1 = "RNDA" \/ call.rnd1 = (IF call.neg THEN "RNDD" ELSE "RNDU")
Lower == IF BelowX THEN B ELSE B - Error
Upper == IF AboveX THEN B ELSE B + Error

Rounded(X, rn) == RoundTo(X, call.prec, rn, call.neg)
SameRounding(lo, hi, rn) == Rounded(lo, rn) = Rounded(hi, rn)

\* b rounded in direction opposite to rnd1 is a faithful rounding of every x.
OppositeRounding ==
  CASE call.rnd1 \in {"RNDN", "RNDF"} -> "RNDN"
    [] BelowX -> "RNDA"
    [] OTHER -> "RNDZ"
AlwaysFaithful ==
  LET y == Rounded(B, OppositeRounding)
  IN Rounded(Lower, "RNDA") >= y /\ Rounded(Upper, "RNDZ") <= y

CanBeRounded ==
  IF call.rnd2 = "RNDF" THEN AlwaysFaithful ELSE SameRounding(Lower, Upper, call.rnd2)

\* mpfr_can_round "return[s] a non-zero value if one is able to round correctly x to
\* precision prec with the direction rnd2" (doc/mpfr.texi): never for an interval
\* whose numbers round differently, or without a guaranteed faithful rounding for
\* MPFR_RNDF.
CanRoundSound ==
  (answer = "yes" /\ call.test = "can_round") => CanBeRounded

\* Where it does: in precision 1 when the interval crosses a power of two; when the
\* carry of b + c is stopped by the top limb, which is not looked at; when b itself
\* is a number of precision prec and rnd2 is MPFR_RNDF, whatever the error.
OneBitAcrossBinades == call.prec = 1 /\ BitLength(Lower) # BitLength(Upper)
CarryAssumedOut ==
  call.prec > W /\ call.cb = call.prec /\ BelowX /\ call.rnd2 = "RNDN"
RepresentableAnyError ==
  /\ call.rnd2 = "RNDF" /\ call.rnd1 \notin {"RNDN", "RNDF"}
  /\ Rounded(B, "RNDZ") = B

\* mpfr_can_round is right to say yes in all the other cases: every limb boundary,
\* carry, borrow, tie and change of binade, for the 36 pairs of directions.
CanRoundSoundElsewhere ==
  CanRoundSound \/ OneBitAcrossBinades \/ CarryAssumedOut \/ RepresentableAnyError

\* For an error of unknown sign and a rounding toward zero, the answer of
\* mpfr_can_round is exact: yes if and only if both ends round alike.
ExactTowardZero ==
  (/\ answer # "none" /\ call.test = "can_round"
   /\ call.rnd1 \in {"RNDN", "RNDF"} /\ TowardZero(call.rnd2, call.neg))
  => (answer = "yes" <=> CanBeRounded)

\* The test of Ziv's loops: when MPFR_CAN_ROUND says yes, all the real numbers within
\* the error that are not breakpoints themselves round alike, and the check of the debug
\* builds (MPFR_WANT_ASSERT >= 2) in mpfr_round_p does not abort: mpfr_can_round_raw agrees.
ZivTestSound ==
  (answer = "yes" /\ call.test = "round_p") =>
    /\ SameRounding(Lower + 1, Upper - 1, IF call.rnd2 = "RNDF" THEN "RNDZ" ELSE call.rnd2)
    /\ CanRoundRaw(call.b, call.bn, FALSE, call.cb, "RNDN", "RNDZ",
                   IF call.rnd2 = "RNDN" THEN call.prec + 1 ELSE call.prec)
=============================================================================
