------------------------------- MODULE Rounding -------------------------------
(***************************************************************************)
(* The roundings of significands that every MPFR function ends with:       *)
(* MPFR_RNDRAW_GEN and its two instances (src/mpfr-impl.h), the family of  *)
(* mpfr_round_raw (src/round_raw_generic.c), and the two tests that tell   *)
(* whether an approximation can be rounded, mpfr_round_p (src/round_p.c)   *)
(* and mpfr_can_round_raw (src/round_prec.c).                              *)
(*                                                                         *)
(* A significand of n bits is an integer m, 2^(n-1) <= m < 2^n.  What the  *)
(* code does limb by limb (scans, masks, mpn_add_1) is written on that     *)
(* integer; the limb size W stays where a limb boundary changes what the   *)
(* code reads or decides.                                                  *)
(***************************************************************************)
EXTENDS Integers

CONSTANT W  \* GMP_NUMB_BITS

ASSUME RoundingAssumption == W \in Nat \ {0}

Rnds == {"RNDN", "RNDZ", "RNDU", "RNDD", "RNDA", "RNDF"}

IsLikeRNDZ(rnd, neg) == rnd = "RNDZ" \/ rnd = (IF neg THEN "RNDU" ELSE "RNDD")
IsLikeRNDA(rnd, neg) == rnd = "RNDA" \/ rnd = (IF neg THEN "RNDD" ELSE "RNDU")

EvenInex == 2  \* MPFR_EVEN_INEX

\* The bits of m from position i (weight 2^i) up to position j - 1.
Bits(m, i, j) == (m % 2^j) \div 2^i
Bit(m, i) == Bits(m, i, i + 1)

\* (-p) mod W: the unused bits of the last limb of a p-bit significand.
MinusModulo(p) == (-p) % W

-----------------------------------------------------------------------------
(* MPFR_RNDRAW_GEN                                                         *)
(*                                                                         *)
(* A decision says whether an ulp is added to the truncated significand    *)
(* and, away from zero being positive, the ternary value.                  *)

Decision(up, dir) == [up |-> up, dir |-> dir]
AddOneUlp == Decision(TRUE, 1)
TruncDoit == Decision(FALSE, 0)
Trunc(rb, sb) == Decision(FALSE, IF rb \/ sb THEN -1 ELSE 0)

RoundBit(m, sp, dp) == Bit(m, sp - dp - 1) = 1

\* In a directed mode the scan stops at the limb of the rounding bit when that
\* bit is set: the result no longer depends on what follows.
StickyBit(m, sp, dp, rnd) ==
  LET below == sp - W * (dp \div W + 1)
      scanned == IF rnd = "RNDN" \/ ~ RoundBit(m, sp, dp) \/ below < 0 THEN 0 ELSE below
  IN Bits(m, scanned, sp - dp - 1) # 0

\* middle[odd] is MIDDLE_HANDLER, odd the last bit of the truncation.
RndRawDecision(rb, sb, odd, rnd, neg, middle) ==
  CASE rnd = "RNDF" -> TruncDoit
    [] rnd = "RNDN" -> IF ~ rb THEN Trunc(rb, sb)
                       ELSE IF ~ sb THEN middle[odd] ELSE AddOneUlp
    [] IsLikeRNDZ(rnd, neg) -> Trunc(rb, sb)
    [] OTHER -> IF rb \/ sb THEN AddOneUlp ELSE TruncDoit

\* A p-bit significand q, or its successor: mpn_add_1 and OVERFLOW_HANDLER.
Significand(q, p, d) ==
  LET s == IF d.up THEN q + 1 ELSE q
  IN IF s = 2^p THEN [mant |-> 2^(p-1), carry |-> 1, dir |-> d.dir]
                ELSE [mant |-> s, carry |-> 0, dir |-> d.dir]

RndRawGen(m, sp, dp, rnd, neg, middle) ==
  IF dp >= sp
  THEN [mant |-> m * 2^(dp - sp), carry |-> 0, dir |-> 0]
  ELSE LET q == m \div 2^(sp - dp)
       IN Significand(q, dp,
            RndRawDecision(RoundBit(m, sp, dp), StickyBit(m, sp, dp, rnd),
                           q % 2 = 1, rnd, neg, middle))

\* MPFR_RNDRAW
ToEven == [odd \in BOOLEAN |-> IF odd THEN AddOneUlp ELSE Decision(FALSE, -1)]
RndRaw(m, sp, dp, rnd, neg) == RndRawGen(m, sp, dp, rnd, neg, ToEven)

\* MPFR_RNDRAW_EVEN
ToEvenFlagged ==
  [odd \in BOOLEAN |-> Decision(odd, IF odd THEN EvenInex ELSE -EvenInex)]
RndRawEven(m, sp, dp, rnd, neg) == RndRawGen(m, sp, dp, rnd, neg, ToEvenFlagged)

-----------------------------------------------------------------------------
(* mpfr_round_raw: the same service with other limbs to look at, nearest   *)
(* with ties away from zero too, and an inexact of 2 at the ties           *)

RoundRawDecision(m, xp, neg, yp, rnd) ==
  LET rb == RoundBit(m, xp, yp)
      sb == m % 2^(xp - yp - 1) # 0
      odd == Bit(m, xp - yp) = 1
  IN CASE rnd = "RNDF" -> TruncDoit
       [] IsLikeRNDZ(rnd, neg) -> Trunc(rb, sb)
       [] rnd \in {"RNDN", "RNDNA"} /\ ~ rb -> Trunc(rb, sb)
       [] rnd = "RNDNA" /\ rb -> Decision(TRUE, EvenInex)
       [] rnd = "RNDN" /\ rb /\ ~ sb -> ToEvenFlagged[odd]
       [] OTHER -> IF rb \/ sb THEN AddOneUlp ELSE TruncDoit

\* mpfr_round_raw: the significand, the carry and *inexp.
RoundRaw(m, xp, neg, yp, rnd) ==
  IF xp <= yp
  THEN [mant |-> m * 2^(yp - xp), carry |-> 0, dir |-> 0]
  ELSE Significand(m \div 2^(xp - yp), yp, RoundRawDecision(m, xp, neg, yp, rnd))

\* mpfr_round_raw_2 (flag = 1, no inexact): is an ulp to be added?
RoundRaw2(m, xp, neg, yp, rnd) ==
  /\ xp > yp
  /\ ~ IsLikeRNDZ(rnd, neg)
  /\ RoundRawDecision(m, xp, neg, yp, rnd).up

-----------------------------------------------------------------------------
(* mpfr_round_p: b has bn limbs and an error of at most 2^(EXP(b) - err0), *)
(* of unknown sign; can it be rounded toward zero to prec bits?  It can    *)
(* unless the bits between prec and err0 are all 0 or all 1.               *)

\* Mutant: the all-ones pattern, just below a breakpoint, is forgotten.
RoundPZerosOnly(b, bn, err0, prec) ==
  LET size == bn * W
      err == IF err0 < size THEN err0 ELSE size
      known == Bits(b, size - err, size - prec)
  IN /\ err0 > prec
     /\ prec < size
     /\ known # 0

RoundP(b, bn, err0, prec) ==
  LET size == bn * W
      err == IF err0 < size THEN err0 ELSE size
      known == Bits(b, size - err, size - prec)
  IN /\ err0 > prec
     /\ prec < size
     /\ known \notin {0, 2^(err - prec) - 1}

\* MPFR_CAN_ROUND, for a pure FP b
CanRound(b, bn, correctBits, prec, rnd) ==
  RoundP(b, bn, correctBits, IF rnd = "RNDN" THEN prec + 1 ELSE prec)

-----------------------------------------------------------------------------
(* mpfr_can_round_raw: b has bn limbs and is an approximation of x in      *)
(* direction rnd1 with an error of at most c = 2^(EXP(b) - cb); does every *)
(* such x round to the same prec-bit number in direction rnd2?             *)

\* Mutants: the sign is forgotten.
Rnd1AbsUnsigned(rnd1, neg) ==
  IF rnd1 \in {"RNDN", "RNDF"} THEN "RNDN"
  ELSE IF IsLikeRNDZ(rnd1, FALSE) THEN "RNDZ" ELSE "RNDA"
Rnd2AbsUnsigned(rnd1, rnd2, neg) ==
  CASE rnd2 = "RNDN" -> "RNDN"
    [] rnd2 = "RNDF" -> IF rnd1 = "RNDN" THEN "RNDN"
                        ELSE IF rnd1 = "RNDZ" THEN "RNDA" ELSE "RNDZ"
    [] OTHER -> IF IsLikeRNDZ(rnd2, FALSE) THEN "RNDZ" ELSE "RNDA"

\* rnd1 and rnd2 relative to the sign
Rnd1Abs(rnd1, neg) ==
  IF rnd1 \in {"RNDN", "RNDF"} THEN "RNDN"
  ELSE IF IsLikeRNDZ(rnd1, neg) THEN "RNDZ" ELSE "RNDA"

Rnd2Abs(rnd1, rnd2, neg) ==
  CASE rnd2 = "RNDN" -> "RNDN"
    [] rnd2 = "RNDF" -> IF rnd1 = "RNDN" THEN "RNDN"
                        ELSE IF rnd1 = "RNDZ" THEN "RNDA" ELSE "RNDZ"
    [] OTHER -> IF IsLikeRNDZ(rnd2, neg) THEN "RNDZ" ELSE "RNDA"

IsPowerOf2(b, n) == b = 2^(n-1)

\* prec > bn * W
CanRoundLargePrec(b, n, rnd1, rnd2, cb, prec) ==
  /\ rnd1 = rnd2 \/ rnd2 = "RNDN"
  /\ cb >= prec + 1
  /\ ~ (rnd1 # "RNDZ" /\ cb = prec + 1 /\ IsPowerOf2(b, n))

\* prec <= bn * W < cb: the error is less than the last bit of b
CanRoundTinyError(b, n, neg, rnd1, rnd2, cb, prec) ==
  IF IsPowerOf2(b, n)
  THEN /\ rnd2 \in {"RNDZ", "RNDA"} => rnd1 = rnd2
       /\ rnd1 = "RNDZ" \/ cb > prec + 1
  ELSE IF rnd2 = "RNDN"
  THEN /\ ~ (cb = prec + 1 /\ b % 2 = 1)
       /\ \/ prec = n
          \/ Bit(b, n - prec - 1) = 0
          \/ RoundRaw2(b, n, neg, prec + 1, "RNDA")
          \/ rnd1 # "RNDN" /\ ((rnd1 = "RNDZ") # (Bit(b, n - prec) = 0))
  ELSE rnd1 = rnd2 \/ RoundRaw2(b, n, neg, prec, "RNDA")

\* prec <= bn * W and cb <= bn * W: b + c and b - c are computed, without the
\* k1 most significant limbs, and their last bits after rounding compared.
CanRoundByBounds(b, bn, neg, rnd1, rnd2, cb, prec) ==
  LET k1 == (prec - 1) \div W          \* limbs left aside
      k == (cb - 1) \div W - k1 + 1    \* limbs the error reaches
      bl == bn - k1                    \* limbs looked at
      size == bl * W
      prec2 == prec - k1 * W
      low == b % 2^size
      hi == b \div 2^size
      c == 2^(bn * W - cb)
      ulpBit == size - W + MinusModulo(prec)
      plus == (low + c) % 2^size
      minus == (low - c) % 2^size
      \* the carry goes through the limbs left aside but the highest
      inner == IF k1 > 1 THEN 2^((k1 - 1) * W) ELSE 1
      cyPlus == low + c >= 2^size /\ hi % inner = inner - 1
      expDecrease == IF k1 = 0 THEN minus < 2^(size - 1)
                     ELSE low < c /\ hi = 2^(k1 * W - 1)
      LastBit(v) == (Bit(v, ulpBit) = 1) # RoundRaw2(v, size, neg, prec2, rnd2)
      near == IF rnd1 = "RNDN" THEN 1 ELSE 0
      cc == IF rnd1 = "RNDN" THEN LastBit(plus) ELSE LastBit(low)
      powerOf2 == k = bl /\ plus % 2^W = 0
      Carry == CASE rnd2 = "RNDZ" -> FALSE
                 [] rnd2 = "RNDA" -> cb > prec + near /\ powerOf2
                 [] rnd2 = "RNDN" -> IF rnd1 = "RNDN" THEN cb > prec + 1 ELSE ~ cc
      Minus ==
        IF expDecrease
        THEN /\ rnd2 # "RNDZ" /\ ~ (rnd1 = "RNDN" /\ rnd2 = "RNDA") /\ ~ cc
             /\ RoundRaw2(minus, size, neg, prec2 + 1, rnd2)
        ELSE IF cb = prec + near
        THEN rnd2 = "RNDN" /\ Bit(low, ulpBit) = 0 /\ ~ RoundRaw2(low, size, neg, prec2, "RNDA")
        ELSE cc = LastBit(minus)
  IN CASE rnd1 = "RNDZ" -> IF cyPlus THEN Carry ELSE cb # prec /\ cc = LastBit(plus)
       [] rnd1 = "RNDN" -> IF cyPlus THEN Carry ELSE Minus
       [] rnd1 = "RNDA" -> Minus

CanRoundRaw(b, bn, neg, cb, rnd1, rnd2, prec) ==
  LET n == bn * W
      r1 == Rnd1Abs(rnd1, neg)
      r2 == Rnd2Abs(r1, rnd2, neg)
      near == IF r1 = "RNDN" THEN 1 ELSE 0
      exact == rnd2 = "RNDF" /\ r1 # "RNDN" /\ ~ RoundRaw2(b, n, neg, prec, "RNDA")
      hopeless == \/ cb < prec + near
                  \/ cb = prec + near /\ (r1 = "RNDA" \/ r2 = "RNDZ")
  IN \/ exact
     \/ /\ ~ hopeless
        /\ CASE prec > n -> CanRoundLargePrec(b, n, r1, r2, cb, prec)
             [] prec <= n /\ cb > n -> CanRoundTinyError(b, n, neg, r1, r2, cb, prec)
             [] OTHER -> CanRoundByBounds(b, bn, neg, r1, r2, cb, prec)
=============================================================================
