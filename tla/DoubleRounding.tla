---------------------------- MODULE DoubleRounding ----------------------------
(***************************************************************************)
(* The places where MPFR rounds a number that is itself the rounding of an *)
(* exact result, and must deliver what a single rounding would have:       *)
(*   mpfr_cache (src/cache.c): a cached constant to the user's precision;  *)
(*   mpfr_set_1_2 (src/set.c): fma and fmma, through twice the precision;  *)
(*   mpfr_subnormalize (src/subnormal.c): IEEE subnormal numbers;          *)
(*   mpfr_round_nearest_away (src/rndna.c): ties away, through one more    *)
(*     bit and an extended exponent range.                                 *)
(*                                                                         *)
(* The exact result is x / 2^Scale, with a sign.  FirstRounding computes   *)
(* it as an MPFR function does; the second rounding sees only the number   *)
(* and the ternary value.  Exponents are counted from 1 up, the real ones  *)
(* from a fixed negative number up.                                        *)
(***************************************************************************)
EXTENDS Exceptions, RealRounding

CONSTANTS
  Scale,    \* a unit of X is 2^-Scale
  XBits,    \* the significand of X has at most XBits bits
  Exps,     \* the exponents of the exact results
  Precs,    \* the precisions of the final results
  EMin, EMax,      \* the user's exponent range
  ExtEMin, ExtEMax \* MPFR_EMIN_MIN, MPFR_EMAX_MAX

ASSUME DoubleRoundingAssumption ==
  /\ Scale \in Nat /\ XBits \in Nat
  /\ {EMin, EMax, ExtEMin, ExtEMax} \cup Exps \subseteq Int
  /\ Precs \subseteq 1..XBits
  /\ ExtEMin < EMin   \* mpfr_round_nearest_away_begin asserts it
  /\ EMin < EMax /\ EMax <= ExtEMax
  /\ \A p \in Precs : EMin + p - 1 <= EMax   \* mpfr_subnormalize is undefined otherwise
  \* the unit is so small that what is rounded, and the results, are whole numbers of units
  /\ \A e \in Exps : XBits <= e + Scale /\ e + Scale < MaxBits
  /\ \A p \in Precs : 2 * p <= EMin + Scale
  /\ 2 <= ExtEMin + Scale /\ EMax + Scale + 1 < MaxBits

VARIABLES
  job,    \* which of the double roundings
  exact,  \* the exact result: [x, neg]
  prec,   \* the precision of the final result
  rnd,    \* the rounding mode the user asked for
  pc,     \* "first", "second", "third" (subnormalize after nearest_away) or "done"
  r       \* what the last step returned: [y, inex, raised]

vars == <<job, exact, prec, rnd, pc, r>>

Jobs == {"cache", "set_1_2", "subnormalize", "nearest_away"}

\* The precision of the first rounding, its direction and its exponent range.
FirstPrecs(j, p) ==
  CASE j = "cache" -> p..XBits
    [] j = "set_1_2" -> {2 * p}
    [] j = "subnormalize" -> {p}
    [] j = "nearest_away" -> {p + 1}

FirstRnd(j, rn) == IF j \in {"cache", "nearest_away"} THEN "RNDN" ELSE rn
Extended(j) == j \in {"cache", "nearest_away"}
FirstEMin(j) == IF Extended(j) THEN ExtEMin ELSE EMin
FirstEMax(j) == IF Extended(j) THEN ExtEMax ELSE EMax

NoResult == Return(Zero(FALSE, 1), 0, {})

Significands(p) == 2^(p-1)..2^p-1

\* What a function may have to round.
Reals == {m * 2^(e + Scale - XBits) : m \in Significands(XBits), e \in Exps}

\* |a*b + c| and |a*b + c*d| for numbers of p bits: mpfr_fma leaves them to
\* mpfr_set_1_2 for p < W, mpfr_fmma when the products fill 2p bits of limbs.
Limbs(p) == (p + W - 1) \div W
Abs(n) == IF n < 0 THEN -n ELSE n
Products(p) == {a * b : a \in Significands(p), b \in Significands(p)}
Addends(p) == Products(p) \cup {c * 2^p : c \in Significands(p)}
SumsOfProducts ==
  [p \in Precs |->
     IF p >= W /\ 2 * Limbs(p) # Limbs(2 * p) THEN {}
     ELSE {Abs(m * 2^(e + Scale - 2 * p) + s * n * 2^(f + Scale - 2 * p)) :
             m \in Products(p), n \in IF p < W THEN Addends(p) ELSE Products(p),
             e \in EMin+1..EMax, f \in EMin..EMax, s \in {1, -1}} \ {0}]

Exacts(j, p) ==
  CASE j = "cache" -> {x \in Reals : BitLength(x) - Scale \in ExtEMin+1..ExtEMax-1}
    [] j = "set_1_2" -> SumsOfProducts[p]
    [] OTHER -> Reals

Init ==
  /\ job \in Jobs
  /\ prec \in Precs
  /\ rnd \in IF job = "nearest_away" THEN {"RNDNA"} ELSE Rnds
  /\ exact \in [x : Exacts(job, prec), neg : IF job = "cache" THEN {FALSE} ELSE BOOLEAN]
  /\ pc = "first"
  /\ r = NoResult

\* An MPFR function delivers the exact result rounded to p bits.
FirstRounding(p) ==
  LET rn == FirstRnd(job, rnd)
      neg == exact.neg
      e == BitLength(exact.x)
      s == RndRaw(exact.x, e, p, rn, neg)
      y == Num(neg, e - Scale + s.carry, s.mant, p)
  IN
  /\ pc = "first"
  /\ p \in FirstPrecs(job, prec)
  /\ r' = CheckRange(y, Signed(neg, s.dir), rn, FirstEMin(job), FirstEMax(job))
  /\ pc' = "second"
  /\ UNCHANGED <<job, exact, prec, rnd>>

Finish(result, next) ==
  /\ r' = [result EXCEPT !.raised = @ \cup r.raised]
  /\ pc' = next
  /\ UNCHANGED <<job, exact, prec, rnd>>

-----------------------------------------------------------------------------
(* mpfr_cache: the cache holds r.y with cache->inexact = r.inex *)

\* Mutant: in the middle, even whatever the side.
CacheMiddleToEven(inex) == ToEven

\* In the middle of two dest numbers, cache->inexact tells the side.
CacheMiddle(inex) ==
  CASE inex = 0 -> ToEven
    [] inex < 0 -> [odd \in BOOLEAN |-> AddOneUlp]
    [] inex > 0 -> [odd \in BOOLEAN |-> Decision(FALSE, -1)]

CacheRounding(x, inex, p, rn) ==
  LET s == RndRawGen(x.mant, x.prec, p, rn, FALSE, CacheMiddle(inex))
      y == Num(FALSE, x.exp + s.carry, s.mant, p)
      merged == s.dir = 0 /\ inex # 0
  IN CASE merged /\ rn \in {"RNDZ", "RNDD"} /\ inex > 0 ->
            Return(NextBelow(y, ExtEMin, ExtEMax), -inex, {})
       [] merged /\ rn \in {"RNDU", "RNDA"} /\ inex < 0 ->
            Return(NextAbove(y, ExtEMin, ExtEMax), -inex, {})
       [] OTHER -> Return(y, IF merged THEN inex ELSE s.dir, {})

\* Mutant: the constant is not brought back to the user's range.
CacheRoundUnchecked ==
  LET c == CacheRounding(r.y, r.inex, prec, rnd) IN
  /\ pc = "second" /\ job = "cache"
  /\ r' = c
  /\ pc' = "done"
  /\ UNCHANGED <<job, exact, prec, rnd>>

CacheRound ==
  LET c == CacheRounding(r.y, r.inex, prec, rnd) IN
  /\ pc = "second" /\ job = "cache"
  /\ r' = CheckRange(c.y, c.inex, rnd, EMin, EMax)
  /\ pc' = "done"
  /\ UNCHANGED <<job, exact, prec, rnd>>

-----------------------------------------------------------------------------
(* mpfr_set_1_2: s of precision p from u of precision 2p *)

SetOneTwo ==
  /\ pc = "second" /\ job = "set_1_2"
  /\ Finish(Set12(r.y, prec, rnd, r.inex, EMin, EMax), "done")

-----------------------------------------------------------------------------
(* mpfr_subnormalize *)

\* EXP(y) = emin: one bit is left.
SubnormalizeAtEMin(y, old, rn) ==
  LET rb == Bit(y.mant, y.prec - 2) = 1
      sb == y.mant % 2^(y.prec - 2) # 0
      up == IF rn \in {"RNDN", "RNDNA"}
            THEN rb /\ (sb \/ Signed(y.neg, old) <= 0)
            ELSE ~ IsLikeRNDZ(rn, y.neg)
  IN CASE IsPowerof2Raw(y) -> Return(y, old, {})
       [] ~ IsPowerof2Raw(y) /\ up -> Return(SetMin(y.neg, EMin + 1, y.prec), Signed(y.neg, 1), {})
       [] OTHER -> Return(SetMin(y.neg, EMin, y.prec), Signed(y.neg, -1), {})

\* Mutant: both roundings in the same direction are not told apart.
SubnormalizeHardForgetful(y, old, rn) ==
  LET q == y.exp - EMin + 1
      s == RndRawEven(y.mant, y.prec, q, IF rn = "RNDNA" THEN "RNDN" ELSE rn, y.neg)
      dest == Num(y.neg, y.exp + s.carry, s.mant * 2^(y.prec - q), y.prec)
  IN Return(dest, IF s.dir = 0 THEN old ELSE Signed(y.neg, s.dir), {})

\* EXP(y) > emin: y is rounded to q bits, to nearest with the ties flagged.
SubnormalizeHard(y, old, rn) ==
  LET q == y.exp - EMin + 1
      rnd2 == IF rn = "RNDNA" THEN "RNDN" ELSE rn
      s == RndRawEven(y.mant, y.prec, q, rnd2, y.neg)
      dest == Num(y.neg, y.exp + s.carry, s.mant, q)
      inexact == Signed(y.neg, s.dir)
      tie == rnd2 = "RNDN" /\ s.dir \in {EvenInex, -EvenInex}
      Back == CASE tie /\ old * inexact > 0 ->
                     IF s.dir > 0 THEN NextToZero(dest, EMin, EMax) ELSE NextToInf(dest, EMin, EMax)
                [] tie /\ old = 0 /\ rn = "RNDNA" /\ s.dir < 0 -> NextToInf(dest, EMin, EMax)
                [] OTHER -> dest
      turned == tie /\ (old * inexact > 0 \/ (old = 0 /\ rn = "RNDNA" /\ s.dir < 0))
      inex == CASE turned -> -inexact
                [] inexact = 0 -> old
                [] OTHER -> inexact
  IN Return([Back EXCEPT !.mant = @ * 2^(y.prec - q), !.prec = y.prec], inex, {})

Subnormalized(y, old, rn) ==
  CASE IsSingular(y) -> Return(y, old, {})
    [] y.kind = "num" /\ y.exp >= EMin + y.prec - 1 -> Return(y, old, {})
    [] OTHER -> LET s == IF y.exp = EMin THEN SubnormalizeAtEMin(y, old, rn)
                                         ELSE SubnormalizeHard(y, old, rn)
                IN [s EXCEPT !.raised = @ \cup {"underflow"}]

Subnormalize ==
  /\ \/ pc = "second" /\ job = "subnormalize"
     \/ pc = "third"
  /\ Finish(Subnormalized(r.y, r.inex, rnd), "done")

-----------------------------------------------------------------------------
(* mpfr_round_nearest_away_end: t of precision p + 1 into rop *)

\* Mutant: the first rounding's ternary value is forgotten.
NearestAwayTwice(t, inex, p) ==
  IF IsSingular(t) \/ t.mant % 2 = 0
  THEN [Set4(t, p, "RNDN", t.neg, ExtEMax) EXCEPT !.inex = inex]
  ELSE Set4(t, p, "RNDA", t.neg, ExtEMax)

NearestAwayRounding(t, inex, p) ==
  IF IsSingular(t) \/ t.mant % 2 = 0
  THEN [Set4(t, p, "RNDN", t.neg, ExtEMax) EXCEPT !.inex = inex]
  ELSE Set4(t, p, IF inex = 0 THEN "RNDA" ELSE IF inex > 0 THEN "RNDD" ELSE "RNDU",
            t.neg, ExtEMax)

IsHalfMin(y) == y.kind = "num" /\ y.exp = EMin - 1 /\ IsPowerof2Raw(y)

NearestAwayEnd ==
  LET s == NearestAwayRounding(r.y, r.inex, prec)
      inex == IF s.inex = 0 /\ IsHalfMin(s.y) THEN Signed(s.y.neg, -1) ELSE s.inex
      c == CheckRange(s.y, inex, "RNDN", EMin, EMax)
  IN
  /\ pc = "second" /\ job = "nearest_away"
  /\ Finish([c EXCEPT !.raised = @ \cup s.raised], "third")

Done == pc = "done" /\ UNCHANGED vars

Next ==
  \/ \E p \in 1..2*XBits : FirstRounding(p)
  \/ CacheRound \/ SetOneTwo \/ Subnormalize \/ NearestAwayEnd
  \/ Done

Spec == Init /\ [][Next]_vars /\ WF_vars(Next)

-----------------------------------------------------------------------------
(* Properties *)

Value(y) ==
  CASE y.kind = "zero" -> 0
    [] y.kind = "inf" -> Infinity
    [] y.kind = "num" -> y.mant * 2^(y.exp + Scale - y.prec)

Expected(p, rn) == CorrectValue(exact.x, p, rn, exact.neg, EMin + Scale, EMax + Scale)

SameAs(Y) == Value(r.y) = Y /\ SignOf(r.inex) = Ternary(Y, exact.x, exact.neg)

OneRounding(rn) ==
  IF rn = "RNDF"
  THEN Value(r.y) \in {Expected(prec, "RNDZ"), Expected(prec, "RNDA")}
  ELSE SameAs(Expected(prec, rn))

\* A constant taken from the cache, and the result of fma and fmma, are the exact
\* result rounded once, in value and ternary value.
AtomicRounding ==
  (pc = "done" /\ job \in {"cache", "set_1_2"}) => OneRounding(rnd)

\* mpfr_round_nearest_away gives the nearest number, the farther from zero of two
\* at the same distance, at both ends of the exponent range too.
NearestAwayRight ==
  (pc = "third") => OneRounding("RNDNA")

\* The last place of the subnormal numbers.
Quantum == 2^(EMin - 1 + Scale)

\* A function followed by mpfr_subnormalize rounds once, to the nearest of the
\* normal and subnormal numbers of IEEE 754, for every mode and for ties away after
\* mpfr_round_nearest_away (unless there is an overflow, which is not its business).
SubnormalRight ==
  (/\ pc = "done" /\ job \in {"subnormalize", "nearest_away"}
   /\ ~ Overflows(exact.x, prec, IF rnd = "RNDF" THEN "RNDA" ELSE rnd, exact.neg, EMax + Scale))
  => LET ulp == Ulp(exact.x, prec)
         u == IF ulp < Quantum THEN Quantum ELSE ulp
         Rounded(rn) == RoundToMultiple(exact.x, u, rn, exact.neg)
     IN IF rnd = "RNDF" THEN Value(r.y) \in {Rounded("RNDZ"), Rounded("RNDA")}
        ELSE SameAs(Rounded(rnd))

FlagsOfOneRounding ==
  r.raised = CorrectFlags(exact.x, prec, rnd, exact.neg, EMin + Scale, EMax + Scale)

\* The flags a cached constant and mpfr_round_nearest_away leave are those of the
\* result: what the rounding in the extended range or of one more bit raised is gone.
FlagsRight ==
  (rnd # "RNDF" /\ (pc = "third" \/ (pc = "done" /\ job = "cache"))) => FlagsOfOneRounding

\* The flags of fma and fmma are those of the result (doc/mpfr.texi defines underflow
\* and overflow on the result "obtained after the rounding" with an unbounded exponent
\* range).  What rounding to twice the precision raised stays, though.
FmaFlagsRight ==
  (rnd # "RNDF" /\ pc = "done" /\ job = "set_1_2") => FlagsOfOneRounding
=============================================================================
