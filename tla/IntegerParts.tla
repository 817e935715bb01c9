----------------------------- MODULE IntegerParts -----------------------------
(***************************************************************************)
(* rint.c, frac.c, isinteger.c and rem1.c: the integers near a number, its *)
(* fractional part, and the remainder of a division by an integer.         *)
(***************************************************************************)
EXTENDS WithRationals

CONSTANT WantedBits  \* WANTED_BITS: of the quotient; a long has one more

\* mpfr_integer_p
IntegerP(x) ==
  \/ x.kind = "zero"
  \/ /\ x.kind = "num" /\ x.exp > 0
     /\ x.exp < x.prec => x.mant % 2^(x.prec - x.exp) = 0

-----------------------------------------------------------------------------
(* rint.c; besides the rounding modes, "RNDNA" is the nearest, ties away from zero. *)

\* Mutant: the ties are rounded away from zero whatever the mode.
TiesAway(q, low, cut, rnd) == 2 * low >= 2^cut

\* Is the nearest integer the one away from zero, when cut bits, low, follow q?
NearestIsAway(q, low, cut, rnd) ==
  IF rnd = "RNDN" /\ q % 2 = 0 THEN 2 * low > 2^cut ELSE 2 * low >= 2^cut

\* The significant bits of the integer that mpfr_rint rounds to: those of the integer
\* part, or those of r if there are fewer.
RintBits(p, u) ==
  LET un == NLimbs(u.prec)
      beyond == (u.exp - 1) \div W >= un            \* the integer part is the whole of u
      ui == IF beyond THEN un ELSE (u.exp - 1) \div W + 1
      ush == IF beyond THEN 0 ELSE (-u.exp) % W     \* fractional bits in its last limb
      fewer == ui > NLimbs(p) \/ (ui = NLimbs(p) /\ ush < MinusModulo(p))
  IN IF fewer THEN p ELSE ui * W - ush

\* |u| < 1: 0 or 1.
RintSmall(p, u, rnd) ==
  LET away == \/ IsLikeRNDA(rnd, u.neg)
              \/ /\ ~ IsLikeRNDZ(rnd, u.neg) /\ u.exp = 0
                 /\ rnd = "RNDNA" \/ ~ IsPowerof2Raw(u)
      Inexact(s, inex) == Return(s.y, inex, s.raised)
  IN IF away THEN Inexact(SetSi2exp(p, Signed(u.neg, 1), 0, rnd), Signed(u.neg, 2))
     ELSE Return(Zero(u.neg, p), Signed(u.neg, -2), {})

\* |u| >= 1: q is |u| cut after bits bits, or the next one if away; uflags is 0 if u is an
\* integer representable in r, 1 if it is another integer, 2 if it is not an integer.
RintOverflow(s, uflags) == [s EXCEPT !.inex = IF @ >= 0 THEN uflags ELSE -uflags]
RintCut(p, u, bits, q, away, uflags, rnd) ==
  LET inex == Signed(u.neg, IF away THEN uflags ELSE -uflags)
      add == away /\ uflags # 0
      carry == add /\ q + 1 = 2^bits
  IN IF carry /\ u.exp = emax THEN RintOverflow(Overflow(p, rnd, u.neg, emax), uflags)
     ELSE IF carry THEN Return(Num(u.neg, u.exp + 1, 2^(p - 1), p), inex, {})
     ELSE Return(Num(u.neg, u.exp, (IF add THEN q + 1 ELSE q) * 2^(p - bits), p), inex, {})
RintLow(p, u, bits, q, low, cut, rnd) ==
  RintCut(p, u, bits, q,
          IF IsLikeRNDA(rnd, u.neg) \/ IsLikeRNDZ(rnd, u.neg) THEN IsLikeRNDA(rnd, u.neg)
          ELSE NearestIsAway(q, low, cut, rnd),
          IF ~ IntegerP(u) THEN 2 ELSE IF low # 0 THEN 1 ELSE 0, rnd)
RintBelow(p, u, bits, cut, rnd) ==
  RintLow(p, u, bits, Mant(u) \div 2^cut, Mant(u) % 2^cut, cut, rnd)
RintLarge(p, u, rnd) == RintBelow(p, u, RintBits(p, u), Size(u.prec) - RintBits(p, u), rnd)

\* mpfr_rint, and mpfr_roundeven, mpfr_round, mpfr_trunc, mpfr_ceil, mpfr_floor, which are
\* mpfr_rint in the directions of RintModes.
Rint(p, u, rnd) ==
  CASE IsSingular(u) -> Return(Zero(u.neg, p), 0, {})
    [] ~ IsSingular(u) /\ u.exp <= 0 -> RintSmall(p, u, rnd)
    [] ~ IsSingular(u) /\ u.exp > 0 -> RintLarge(p, u, rnd)
RintModes == {"RNDN", "RNDNA", "RNDZ", "RNDU", "RNDD"}

\* mpfr_rint_roundeven, mpfr_rint_round, mpfr_rint_trunc, mpfr_rint_ceil, mpfr_rint_floor:
\* tmp is the integer of direction mode, then comes the rounding of direction rnd. The flags
\* of the first rounding are dropped.
RintSet(p, tmp, rnd) ==
  IF "overflow" \in tmp.raised THEN Overflow(p, rnd, tmp.y.neg, emax)
  ELSE Set4(tmp.y, p, rnd, tmp.y.neg, emax)
RintThen(p, u, mode, rnd) ==
  IF IsSingular(u) \/ IntegerP(u) THEN Set4(u, p, rnd, u.neg, emax)
  ELSE RintSet(p, Rint(u.prec, u, mode), rnd)

-----------------------------------------------------------------------------
(* frac.c *)

\* The fractional part, f, of exponent re: in r, or in a temporary if r has fewer limbs
\* than f, and brought back to the range.
FracOf(p, u, f, rnd) ==
  LET sp == NumBits(f)
      re == sp - (u.prec - u.exp)
      un == (MinusModulo(u.prec) + sp - 1) \div W       \* the limb of the first bit of f
      FromTmp(s) == CheckRange([s.y EXCEPT !.exp = @ + re], s.inex, rnd, emin, emax)
      InPlace(r) ==
        CheckRange(Num(u.neg, re + r.carry, r.mant, p), Signed(u.neg, r.dir), rnd, emin, emax)
  IN IF NLimbs(p) - 1 < un
     THEN FromTmp(Set4(Num(u.neg, 0, f, sp), p, rnd, u.neg, ExtEmax))
     ELSE InPlace(RoundRaw(f * 2^(Size(p) - sp), Size(p), u.neg, p, rnd))

Frac(p, u, rnd) ==
  CASE IntegerP(u) -> Return(Zero(u.neg, p), 0, {})
    [] ~ IntegerP(u) /\ u.exp <= 0 -> Set4(u, p, rnd, u.neg, emax)
    [] ~ IntegerP(u) /\ u.exp > 0 -> FracOf(p, u, u.mant % 2^(u.prec - u.exp), rnd)

-----------------------------------------------------------------------------
(* rem1.c, for y # 0 *)

\* v in a long of WantedBits + 1 bits: overflows wrap on the usual builds.
AsLong(v) == ((v + 2^WantedBits) % 2^(WantedBits + 1)) - 2^WantedBits

\* |x| = mx * 2^ex, and |y| = my * 2^ey without the null low bits of my.
RemOperands(x, y) ==
  LET k == CHOOSE z \in 0 .. y.prec : y.mant % 2^z = 0 /\ y.mant % 2^(z + 1) # 0
  IN [mx |-> x.mant, ex |-> x.exp - x.prec, my |-> y.mant \div 2^k, ey |-> (y.exp - y.prec) + k]

\* The first bit of m * 2^ex is lower than that of |y|.
FarBelow(m, o) == o.ex + NumBits(m) < o.ey + NumBits(o.my)

\* What the division leaves: the quotient, or its low bits, and whether it is odd; the
\* remainder r, and the divisor my, in the unit of r unless the remainder is tiny.
Divided(q, r, my, tiny) == [q |-> q % 2^WantedBits, odd |-> q % 2 = 1, r |-> r, my |-> my, tiny |-> tiny]

\* ex <= ey: the divisor is a multiple of 2^ex, but not to be computed if it is above x.
DividedBelow(o) ==
  LET my == o.my * 2^(o.ey - o.ex)
  IN IF FarBelow(o.mx, o) THEN Divided(0, o.mx, o.my, TRUE)
     ELSE Divided(o.mx \div my, o.mx % my, my, FALSE)

\* Mutant: one more bit is enough for remquo too.
OneBit(nearest, quo) == IF nearest THEN 1 ELSE 0

\* The low bits of the quotient that the reduction keeps.
KeptBits(nearest, quo) == IF quo THEN WantedBits ELSE IF nearest THEN 1 ELSE 0

\* 2^d, reduced modulo m (mpz_powm_ui) if it is larger than m^3.
PowerFor(d, m) == IF d > 3 * NumBits(m) THEN 2^d % m ELSE 2^d

\* ex > ey: x modulo a multiple of the divisor, then the way back to the divisor; a single
\* bit of the quotient comes from a comparison, with the same result.
DividedAbove(o, nearest, quo) ==
  LET m == o.my * 2^KeptBits(nearest, quo)
      kept == (PowerFor(o.ex - o.ey, m) * o.mx) % m
  IN Divided(kept \div o.my, kept % o.my, o.my, FALSE)

\* Mutant: a quotient that ends with .5 is always rounded up.
OneMoreAtHalf(o, d, my) == ~ (d.tiny /\ FarBelow(2 * d.r, o)) /\ 2 * d.r >= my

\* Is the quotient nearer to the integer above, in the unit of r?
OneMore(o, d, my) ==
  /\ ~ (d.tiny /\ FarBelow(2 * d.r, o))
  /\ 2 * d.r > my \/ (2 * d.r = my /\ d.odd)

\* What a call returns besides a number: an integer, a Boolean.
And(s, ret) == [y |-> s.y, inex |-> s.inex, raised |-> s.raised, ret |-> ret]

\* The remainder and the low bits of the quotient, which are incremented with the sign
\* still to come: of the quotient rounded to nearest, or truncated. No quotient is asked
\* for unless quo.
RemOf(p, x, y, o, d, nearest, quo, rnd) ==
  LET my == IF d.tiny THEN d.my * 2^(o.ey - o.ex) ELSE d.my
      up == nearest /\ d.r # 0 /\ OneMore(o, d, my)
      low == AsLong(IF up THEN d.q + 1 ELSE d.q)
      e == IF o.ex > o.ey THEN o.ey ELSE o.ex
  IN And(IF d.r = 0 THEN Return(Zero(x.neg, p), 0, {})
         ELSE SetZ2exp(p, Signed(x.neg, IF up THEN d.r - my ELSE d.r), e, rnd),
         IF quo THEN AsLong(Signed(x.neg # y.neg, low)) ELSE 0)
RemBy(p, x, y, o, nearest, quo, rnd) ==
  RemOf(p, x, y, o, IF o.ex <= o.ey THEN DividedBelow(o) ELSE DividedAbove(o, nearest, quo),
        nearest, quo, rnd)

\* mpfr_fmod, mpfr_fmodquo; mpfr_remainder and mpfr_remquo if nearest.
Rem1(p, x, y, nearest, quo, rnd) ==
  IF IsSingular(x) THEN And(Set4(x, p, rnd, x.neg, emax), 0)
  ELSE RemBy(p, x, y, RemOperands(x, y), nearest, quo, rnd)
=============================================================================
