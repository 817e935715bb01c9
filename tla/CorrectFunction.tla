--------------------------- MODULE CorrectFunction ---------------------------
(***************************************************************************)
(* What every MPFR function promises (doc/mpfr.texi, "Rounding",           *)
(* "Exceptions"): the exact result correctly rounded in the precision of   *)
(* the destination and in the user's exponent range, the ternary value,    *)
(* the flags of what happened and no other; flags are only ever raised,    *)
(* and the exponent range is the user's again.                             *)
(***************************************************************************)
EXTENDS RealRounding

CONSTANT Scale  \* an exact result is asked.x units of 2^-Scale

VARIABLES
  asked,       \* the exact result and how the user wants it
  emin, emax,  \* the user's exponent range
  flags,       \* the user's flags
  answer       \* NoAnswer, or what the function returned

vars == <<asked, emin, emax, flags, answer>>

NoAnswer == [value |-> -1, inex |-> 0]

Value(rn) ==
  CorrectValue(asked.x, asked.prec, rn, asked.neg, emin + Scale, emax + Scale)
Raised(rn) ==
  CorrectFlags(asked.x, asked.prec, rn, asked.neg, emin + Scale, emax + Scale)

\* MPFR_RNDF delivers either neighbour, with a ternary value that says nothing
\* and flags that either may call for.
Deliver ==
  /\ answer = NoAnswer
  /\ IF asked.rnd = "RNDF"
     THEN /\ \E rn \in {"RNDZ", "RNDA"} : answer' = [value |-> Value(rn), inex |-> 0]
          /\ \E f \in SUBSET (Raised("RNDZ") \cup Raised("RNDA")) : flags' = flags \cup f
     ELSE /\ answer' = [value |-> Value(asked.rnd),
                        inex |-> Ternary(Value(asked.rnd), asked.x, asked.neg)]
          /\ flags' = flags \cup Raised(asked.rnd)
  /\ UNCHANGED <<asked, emin, emax>>

Spec == answer = NoAnswer /\ [][Deliver]_vars

\* The function comes back.
Delivers == <>(answer # NoAnswer)
=============================================================================
