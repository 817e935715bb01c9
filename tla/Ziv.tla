--------------------------------- MODULE Ziv ---------------------------------
(***************************************************************************)
(* How the MPFR functions compute: extend the exponent range, approximate  *)
(* the result with more and more bits until the approximation can be       *)
(* rounded (Ziv's loop), round it, restore range and flags, and bring the  *)
(* result back to the range (the steps are listed in mpfr_check_range,     *)
(* src/exceptions.c; src/log.c is a plain instance).  Before the loop, a   *)
(* result very close to a known number v is settled by mpfr_round_near_x,  *)
(* outside the extended range (MPFR_FAST_COMPUTE_IF_SMALL_INPUT) or inside *)
(* (MPFR_SMALL_INPUT_AFTER_SAVE_EXPO).                                     *)
(*                                                                         *)
(* The exact result is X / 2^Scale, not representable (the functions treat *)
(* their exact cases apart).  The mathematics that gives an approximation  *)
(* and its error bound is the environment's: any approximation within the  *)
(* bound may come.                                                         *)
(***************************************************************************)
EXTENDS Exceptions, RealRounding

CONSTANTS
  Scale,      \* a unit of X is 2^-Scale
  XBits,      \* the significand of X has XBits bits, the last one set
  Exps,       \* the exponents of the exact results
  Precs,      \* the precisions of the destination
  EMins, EMaxs,  \* the bounds of the exponent ranges of the user
  ExtEMin, ExtEMax,  \* MPFR_EMIN_MIN, MPFR_EMAX_MAX
  ExtraPrec,  \* the initial working precision is PREC(y) + ExtraPrec
  ErrBits,    \* the function's error bound: 2^ErrBits ulps
  VPrecs, Errs  \* precisions of v and error exponents for mpfr_round_near_x

\* The unit is small enough for the numbers of the extended range, their halves and the
\* errors to be whole numbers of units, and what is rounded is below 2^MaxBits units.
ASSUME ZivAssumption ==
  /\ Scale \in Nat /\ XBits \in Nat /\ ExtraPrec \in Nat /\ ErrBits \in Nat
  /\ ExtEMin \in Int /\ ExtEMax \in Int
  /\ 2 <= ExtEMin + Scale /\ ExtEMax + Scale < MaxBits
  /\ \A p \in Precs : p \in Nat \ {0} /\ p + 1 < XBits /\ p <= ExtEMin + Scale
  /\ \A e \in Exps : e \in Int /\ XBits <= e + Scale /\ e + Scale < MaxBits
  /\ EMins \subseteq Int /\ EMaxs \subseteq Int
  /\ \A lo \in EMins, hi \in EMaxs : ExtEMin <= lo /\ lo <= hi /\ hi <= ExtEMax
  /\ VPrecs \subseteq Nat \ {0}
  /\ \A err \in Errs : err \in Nat /\ err <= ExtEMin + Scale

VARIABLES
  emin, emax, flags,  \* __gmpfr_emin, __gmpfr_emax, __gmpfr_flags
  saved,              \* expo of MPFR_SAVE_EXPO_MARK
  call,               \* the exact result and how it is wanted: [x, neg, prec, rnd]
  wprec, step,        \* the working precision and its next increment
  t,                  \* the approximation
  y, inex,            \* the destination and the ternary value
  pc

expo == <<emin, emax, flags, saved>>
vars == <<emin, emax, flags, saved, call, wprec, step, t, y, inex, pc>>

NotSaved == [flags |-> {}, emin |-> 0, emax |-> 0]
Nothing(p) == Zero(FALSE, p)

Results ==
  {(2 * k + 1) * 2^(e + Scale - XBits) : k \in 2^(XBits-2)..2^(XBits-1)-1, e \in Exps}
Calls == [x : Results, neg : BOOLEAN, prec : Precs, rnd : Rnds]

Init ==
  /\ emin \in EMins /\ emax \in EMaxs
  /\ flags = {"divby0"}   \* raised before, by another function
  /\ saved = NotSaved
  /\ call \in Calls
  /\ wprec = 0 /\ step = 0
  /\ t = Nothing(1) /\ y = Nothing(call.prec) /\ inex = 0
  /\ pc = "start"

-----------------------------------------------------------------------------
(* MPFR_SAVE_EXPO_MARK, MPFR_SAVE_EXPO_FREE *)

Mark ==
  /\ saved' = [flags |-> flags, emin |-> emin, emax |-> emax]
  /\ emin' = ExtEMin
  /\ emax' = ExtEMax

\* MPFR_SAVE_EXPO_FREE, then mpfr_check_range on z with ternary value i; kept are
\* the flags that MPFR_SAVE_EXPO_UPDATE_FLAGS kept.
FreeAndCheckRange(z, i, kept) ==
  LET c == CheckRange(z, i, call.rnd, saved.emin, saved.emax) IN
  /\ y' = c.y
  /\ inex' = c.inex
  /\ flags' = saved.flags \cup kept \cup c.raised
  /\ emin' = saved.emin
  /\ emax' = saved.emax
  /\ saved' = NotSaved

-----------------------------------------------------------------------------
(* mpfr_round_near_x *)

\* y is the rounding of v; the exact result is on the side dir of v (0: toward
\* zero, 1: away), at less than 2^(EXP(v) - err).
NearXMiddle(dir) ==
  [odd \in BOOLEAN |-> IF dir = 0 THEN Decision(FALSE, -1) ELSE AddOneUlp]

CanRoundNearX(v, err, p, rn) ==
  /\ err > p + 1
  /\ \/ err > v.prec
     \/ LET bn == (v.prec + W - 1) \div W
        IN RoundP(v.mant * 2^(bn * W - v.prec), bn, err, IF rn = "RNDN" THEN p + 1 ELSE p)

RoundNearX(v, err, dir, p, rnd, lo, hi) ==
  LET rn == IF rnd = "RNDF" THEN "RNDZ" ELSE rnd
      s == RndRawGen(v.mant, v.prec, p, rn, v.neg, NearXMiddle(dir))
      z == Num(v.neg, v.exp + s.carry, s.mant, p)
      below == NextToZero(z, lo, hi)
      above == NextToInf(z, lo, hi)
  IN CASE s.carry = 1 /\ z.exp > hi -> Overflow(p, rn, v.neg, hi)
       [] s.dir # 0 /\ z.exp <= hi -> Return(z, Signed(v.neg, s.dir), {})
       [] s.dir = 0 /\ dir = 0 /\ IsLikeRNDZ(rn, v.neg) ->
            Return(below, Signed(v.neg, -1), IF IsSingular(below) THEN {"underflow"} ELSE {})
       [] s.dir = 0 /\ dir = 0 /\ ~ IsLikeRNDZ(rn, v.neg) -> Return(z, Signed(v.neg, 1), {})
       [] s.dir = 0 /\ dir = 1 /\ IsLikeRNDA(rn, v.neg) ->
            Return(above, Signed(v.neg, 1), IF IsSingular(above) THEN {"overflow"} ELSE {})
       [] s.dir = 0 /\ dir = 1 /\ ~ IsLikeRNDA(rn, v.neg) -> Return(z, Signed(v.neg, -1), {})

Value(z) ==
  CASE z.kind = "zero" -> 0
    [] z.kind = "inf" -> Infinity
    [] z.kind = "num" -> z.mant * 2^(z.exp + Scale - z.prec)

\* The w-bit numbers around the exact result, n ulps on each side, that are whole numbers
\* of units: w is bounded so.
Around(w, n) ==
  LET X == call.x
      top == BitLength(X) - Scale
      MantsAt(e) == LET m == X \div 2^(Scale + e - w)
                    IN {k \in (m - n)..(m + n + 1) : 2^(w-1) <= k /\ k < 2^w}
      exps == {e \in (top-1)..(top+1) : w <= Scale + e}
  IN UNION {{Num(call.neg, e, k, w) : k \in MantsAt(e)} : e \in exps}

Close(v, err, dir) ==
  LET gap == IF dir = 1 THEN call.x - Value(v) ELSE Value(v) - call.x
  IN 0 < gap /\ gap < 2^(v.exp + Scale - err)

\* What the macro may return with in the exponent range lo..hi.
SmallInputs(lo, hi) ==
  UNION {
    {RoundNearX(v, err, dir, call.prec, call.rnd, lo, hi) :
       v \in {v \in Around(p, 1) :
                /\ Close(v, err, dir)
                /\ lo <= v.exp /\ v.exp <= hi
                /\ CanRoundNearX(v, err, call.prec, call.rnd)}} :
    p \in VPrecs, err \in Errs, dir \in {0, 1}}

\* MPFR_FAST_COMPUTE_IF_SMALL_INPUT
FastSmallInput ==
  /\ pc = "start"
  /\ \E n \in SmallInputs(emin, emax) :
       y' = n.y /\ inex' = n.inex /\ flags' = flags \cup n.raised
  /\ pc' = "returned"
  /\ UNCHANGED <<emin, emax, saved, call, wprec, step, t>>

\* MPFR_SMALL_INPUT_AFTER_SAVE_EXPO
SmallInputAfterSave ==
  /\ pc = "saved"
  /\ \E n \in SmallInputs(ExtEMin, ExtEMax) : FreeAndCheckRange(n.y, n.inex, n.raised)
  /\ pc' = "returned"
  /\ UNCHANGED <<call, wprec, step, t>>

-----------------------------------------------------------------------------
(* The function *)

Begin ==
  /\ pc = "start"
  /\ Mark
  /\ pc' = "saved"
  /\ UNCHANGED <<flags, call, wprec, step, t, y, inex>>

\* MPFR_ZIV_INIT
ZivInit ==
  /\ pc = "saved"
  /\ wprec' = call.prec + ExtraPrec
  /\ step' = W
  /\ pc' = "approximate"
  /\ UNCHANGED <<expo, call, t, y, inex>>

\* An approximation that is out of the extended range is singular.
InExtendedRange(z) ==
  CASE z.exp > ExtEMax -> Inf(z.neg, z.prec)
    [] z.exp < ExtEMin -> Zero(z.neg, z.prec)
    [] OTHER -> z

Approximations ==
  {InExtendedRange(z) : z \in {a \in Around(wprec, 2^ErrBits) :
     LET gap == call.x - Value(a)
         bound == 2^(a.exp + Scale - (wprec - ErrBits))
     IN -bound <= gap /\ gap <= bound}}

\* The computations inside the loop raise flags of their own.
Approximate ==
  /\ pc = "approximate"
  /\ t' \in Approximations
  /\ \E f \in {{}, {"underflow"}} : flags' = flags \cup {"inexact"} \cup f
  /\ pc' = "test"
  /\ UNCHANGED <<emin, emax, saved, call, wprec, step, y, inex>>

\* MPFR_CAN_ROUND (t, wprec - ErrBits, PREC (y), rnd)
ApproximationCanBeRounded ==
  /\ ~ IsSingular(t)
  /\ LET bn == (t.prec + W - 1) \div W
     IN CanRound(t.mant * 2^(bn * W - t.prec), bn, wprec - ErrBits, call.prec, call.rnd)

\* Mutant: the increment is computed and never added.
ZivNextSamePrec ==
  /\ pc = "test"
  /\ ~ ApproximationCanBeRounded
  /\ step' = (wprec + step) \div 2
  /\ pc' = "approximate"
  /\ UNCHANGED <<expo, call, wprec, t, y, inex>>

\* MPFR_ZIV_NEXT
ZivNext ==
  /\ pc = "test"
  /\ ~ ApproximationCanBeRounded
  /\ wprec' = wprec + step
  /\ step' = (wprec + step) \div 2
  /\ pc' = "approximate"
  /\ UNCHANGED <<expo, call, t, y, inex>>

\* inexact = mpfr_set (y, t, rnd)
RoundApproximation ==
  LET s == Set4(t, call.prec, call.rnd, call.neg, emax) IN
  /\ pc = "test"
  /\ ApproximationCanBeRounded
  /\ y' = s.y
  /\ inex' = s.inex
  /\ flags' = flags \cup s.raised
  /\ pc' = "rounded"
  /\ UNCHANGED <<emin, emax, saved, call, wprec, step, t>>

RestoreRange ==
  /\ pc = "rounded"
  /\ FreeAndCheckRange(y, inex, {})
  /\ pc' = "returned"
  /\ UNCHANGED <<call, wprec, step, t>>

Done == pc = "returned" /\ UNCHANGED vars

Function ==
  \/ Begin \/ SmallInputAfterSave \/ ZivInit \/ Approximate \/ ZivNext
  \/ RoundApproximation \/ RestoreRange

Next == FastSmallInput \/ Function \/ Done

Spec == Init /\ [][Next]_vars /\ WF_vars(Function)

-----------------------------------------------------------------------------
(* Properties *)

\* What the user sees: while the function runs, what MARK saved.
UserEMin == IF saved = NotSaved THEN emin ELSE saved.emin
UserEMax == IF saved = NotSaved THEN emax ELSE saved.emax
UserFlags == IF saved = NotSaved THEN flags ELSE saved.flags

Promise == INSTANCE CorrectFunction WITH
  asked <- call, emin <- UserEMin, emax <- UserEMax, flags <- UserFlags,
  answer <- IF pc # "returned" THEN [value |-> -1, inex |-> 0]
            ELSE [value |-> Value(y),
                  inex |-> IF call.rnd = "RNDF" THEN 0 ELSE SignOf(inex)]

\* Whatever the approximations, the shortcuts taken and the range: the function
\* returns once, with the correctly rounded result and its ternary value; it adds
\* to the user's flags exactly those the result calls for, none of the flags of
\* the computation leaks and none is lost, and the user's range is back.
PromiseKept == Promise!Spec

\* Ziv's loop ends: the working precision grows past the first bit that tells the
\* exact result from a breakpoint.
Returns == Promise!Delivers
=============================================================================
