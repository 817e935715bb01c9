-------------------------------- MODULE Limbs --------------------------------
(***************************************************************************)
(* What the basic arithmetic of MPFR is written with: significands as      *)
(* arrays of limbs, and the end of an operation that has found a           *)
(* significand, a round bit and a sticky bit.                              *)
(*                                                                         *)
(* The array of x is the integer Mant(x), of NLimbs(x.prec) limbs of W     *)
(* bits; its low bits that are not part of the significand are 0.          *)
(***************************************************************************)
EXTENDS Exceptions

CONSTANTS emin, emax  \* __gmpfr_emin, __gmpfr_emax

ASSUME RangeAssumption == emin \in Int /\ emax \in Int /\ emin <= emax

\* The subtractions look at two bits of a limb and at whether the others are 0.
ASSUME LimbAssumption == W >= 3

NLimbs(p) == (p + W - 1) \div W
Size(p) == W * NLimbs(p)
Mant(x) == x.mant * 2^MinusModulo(x.prec)

ShiftLeft(m, s) == IF s >= 0 THEN m * 2^s ELSE m \div 2^(-s)

Limb(m, i) == Bits(m, i * W, (i + 1) * W)
HighBit == 2^(W - 1)

\* m with its last bit set if s.
Sticky(m, s) == IF s /\ m % 2 = 0 THEN m + 1 ELSE m

\* count_leading_zeros, of m on size bits.
LeadingZeros(m, size) == CHOOSE z \in 0 .. size : m * 2^z < 2^size /\ m * 2^(z + 1) >= 2^size

\* The operand of larger exponent first.
Larger(b, c) == IF b.exp < c.exp THEN c ELSE b
Smaller(b, c) == IF b.exp < c.exp THEN b ELSE c

Truncated(p, m, e, neg) == Return(Num(neg, e, m, p), Signed(neg, -1), {})

\* An ulp is added to the p-bit significand m: without and with a check of the carry.
OneUlpAdded(p, m, e, neg) ==
  IF m + 1 < 2^p THEN Return(Num(neg, e, m + 1, p), Signed(neg, 1), {})
                 ELSE Return(Num(neg, e + 1, 2^(p-1), p), Signed(neg, 1), {})

OneUlpChecked(p, m, e, rnd, neg) ==
  IF m + 1 = 2^p /\ e + 1 > emax THEN Overflow(p, rnd, neg, emax)
                                 ELSE OneUlpAdded(p, m, e, neg)

\* The end of most operations: m, a round bit and a sticky bit; up is the result
\* one ulp away.
RoundBits(p, m, e, rb, sb, rnd, neg, up) ==
  CASE (~ rb /\ ~ sb) \/ rnd = "RNDF" -> Return(Num(neg, e, m, p), 0, {})
    [] (rb \/ sb) /\ rnd = "RNDN" ->
         IF ~ rb \/ (~ sb /\ m % 2 = 0) THEN Truncated(p, m, e, neg) ELSE up
    [] (rb \/ sb) /\ rnd \notin {"RNDN", "RNDF"} ->
         IF IsLikeRNDZ(rnd, neg) THEN Truncated(p, m, e, neg) ELSE up

RoundUnder(p, m, e, rb, sb, rnd, neg) ==
  IF e > emax THEN Overflow(p, rnd, neg, emax)
  ELSE RoundBits(p, m, e, rb, sb, rnd, neg, OneUlpChecked(p, m, e, rnd, neg))

(* Signs *)

Opposite(x) == [x EXCEPT !.neg = ~ @]
MaxOf(a, b) == IF a < b THEN b ELSE a

\* MPFR_INVERT_RND, and the opposite of what an operation returned.
InvertRnd(rnd) == CASE rnd = "RNDU" -> "RNDD" [] rnd = "RNDD" -> "RNDU" [] OTHER -> rnd
ChangeSign(r) == [r EXCEPT !.y = Opposite(@), !.inex = -@]
=============================================================================
