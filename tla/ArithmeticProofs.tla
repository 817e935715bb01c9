--------------------------- MODULE ArithmeticProofs ---------------------------
EXTENDS Arithmetic, OperationsProofs

-----------------------------------------------------------------------------
(* The limbs of WideRoot *)

\* What does not depend on the limbs is the same in WideRoot: results,
LEMMA WideResults ==
  ASSUME NEW p, NEW neg, NEW rnd, NEW e, NEW m
  PROVE  /\ WideRoot!Overflow(p, rnd, neg, e) = Overflow(p, rnd, neg, e)
         /\ WideRoot!Underflow(p, rnd, neg, e) = Underflow(p, rnd, neg, e)
         /\ WideRoot!OneUlpAdded(p, m, e, neg) = OneUlpAdded(p, m, e, neg)
         /\ WideRoot!Truncated(p, m, e, neg) = Truncated(p, m, e, neg)
<1>1. WideRoot!IsLikeRNDZ(rnd, neg) <=> IsLikeRNDZ(rnd, neg)
  BY Zenon DEF WideRoot!IsLikeRNDZ, IsLikeRNDZ
<1>2. \A y, t, raised : WideRoot!Return(y, t, raised) = Return(y, t, raised)
  BY Zenon DEF WideRoot!Return, Return
<1>3. \A t : WideRoot!Signed(neg, t) = Signed(neg, t)
  BY Zenon DEF WideRoot!Signed, Signed
<1>4. \A x, y : WideRoot!Num(neg, x, y, p) = Num(neg, x, y, p)
  BY Zenon DEF WideRoot!Num, Num
<1>5. WideRoot!Zero(neg, p) = Zero(neg, p) /\ WideRoot!Inf(neg, p) = Inf(neg, p)
  BY Zenon DEF WideRoot!Zero, WideRoot!Inf, Zero, Inf
<1>6. WideRoot!SetMin(neg, e, p) = SetMin(neg, e, p) /\ WideRoot!SetMax(neg, e, p) = SetMax(neg, e, p)
  BY <1>4, Zenon DEF WideRoot!SetMin, WideRoot!SetMax, SetMin, SetMax
<1>7. WideRoot!Overflow(p, rnd, neg, e) = Overflow(p, rnd, neg, e)
  BY <1>1, <1>2, <1>3, <1>5, <1>6, Zenon DEF WideRoot!Overflow, Overflow
<1>8. WideRoot!Underflow(p, rnd, neg, e) = Underflow(p, rnd, neg, e)
  BY <1>1, <1>2, <1>3, <1>5, <1>6, Zenon DEF WideRoot!Underflow, Underflow
<1>9. WideRoot!OneUlpAdded(p, m, e, neg) = OneUlpAdded(p, m, e, neg)
  BY <1>2, <1>3, <1>4, Zenon DEF WideRoot!OneUlpAdded, OneUlpAdded
<1>10. WideRoot!Truncated(p, m, e, neg) = Truncated(p, m, e, neg)
  BY <1>2, <1>3, <1>4, Zenon DEF WideRoot!Truncated, Truncated
<1> QED
  BY <1>7, <1>8, <1>9, <1>10

\* the end of the codes for one and two limbs,
LEMMA WideRootEnd ==
  ASSUME NEW p, NEW m, NEW e, NEW rb, NEW sb, NEW rnd
  PROVE  WideRoot!RootEnd(p, m, e, rb, sb, rnd) = RootEnd(p, m, e, rb, sb, rnd)
<1>1. /\ WideRoot!IsLikeRNDA(rnd, FALSE) <=> IsLikeRNDA(rnd, FALSE)
      /\ WideRoot!IsLikeRNDZ(rnd, FALSE) <=> IsLikeRNDZ(rnd, FALSE)
  BY Zenon DEF WideRoot!IsLikeRNDZ, IsLikeRNDZ, WideRoot!IsLikeRNDA, IsLikeRNDA
<1>2. \A y, t, raised : WideRoot!Return(y, t, raised) = Return(y, t, raised)
  BY Zenon DEF WideRoot!Return, Return
<1>3. WideRoot!Num(FALSE, e, m, p) = Num(FALSE, e, m, p)
  BY Zenon DEF WideRoot!Num, Num
<1>4. WideRoot!OneUlpChecked(p, m, e, rnd, FALSE) = OneUlpChecked(p, m, e, rnd, FALSE)
  BY WideResults, Zenon DEF WideRoot!OneUlpChecked, OneUlpChecked
<1>5. \A up : WideRoot!RoundBits(p, m, e, rb, sb, rnd, FALSE, up)
              = RoundBits(p, m, e, rb, sb, rnd, FALSE, up)
  BY <1>1, <1>2, <1>3, WideResults, Zenon DEF WideRoot!RoundBits, RoundBits
<1>6. \A d : WideRoot!Underflow(p, d, FALSE, emin) = Underflow(p, d, FALSE, emin)
  BY WideResults, Zenon
<1> QED
  BY <1>1, <1>4, <1>5, <1>6, WideResults, Zenon DEF WideRoot!RootEnd, RootEnd

\* and mpfr_check_range.
LEMMA WideCheckRange ==
  ASSUME NEW x, NEW t, NEW rnd
  PROVE  WideRoot!CheckRange(x, t, rnd, emin, emax) = CheckRange(x, t, rnd, emin, emax)
<1>1. WideRoot!HalfwayToZero(x, t, emin) <=> HalfwayToZero(x, t, emin)
  BY Zenon DEF WideRoot!HalfwayToZero, HalfwayToZero, WideRoot!IsPowerof2Raw, IsPowerof2Raw,
               WideRoot!Signed, Signed
<1>2. \A y, raised : WideRoot!Return(y, t, raised) = Return(y, t, raised)
  BY Zenon DEF WideRoot!Return, Return
<1>3. \A d : WideRoot!Underflow(x.prec, d, x.neg, emin) = Underflow(x.prec, d, x.neg, emin)
  BY WideResults, Zenon
<1> DEFINE tiny == Underflow(x.prec, IF rnd = "RNDN" /\ HalfwayToZero(x, t, emin) THEN "RNDZ" ELSE rnd,
                             x.neg, emin)
           tinyWide == WideRoot!Underflow(x.prec, IF rnd = "RNDN" /\ WideRoot!HalfwayToZero(x, t, emin)
                                                  THEN "RNDZ" ELSE rnd, x.neg, emin)
           huge == Overflow(x.prec, rnd, x.neg, emax)
           hugeWide == WideRoot!Overflow(x.prec, rnd, x.neg, emax)
<1>4. tinyWide = tiny
  <2>1. CASE rnd = "RNDN" /\ HalfwayToZero(x, t, emin)
    BY <1>1, <1>3, <2>1, Zenon
  <2>2. CASE ~ (rnd = "RNDN" /\ HalfwayToZero(x, t, emin))
    BY <1>1, <1>3, <2>2, Zenon
  <2> QED
    BY <2>1, <2>2, Zenon
<1>5. hugeWide = huge
  BY WideResults, Zenon
<1>6. CheckRange(x, t, rnd, emin, emax)
      = CASE x.kind = "num" /\ x.exp < emin -> tiny
          [] x.kind = "num" /\ x.exp > emax -> huge
          [] x.kind = "inf" /\ t # 0 -> Return(x, t, {"overflow"})
          [] OTHER -> Return(x, t, {})
  BY Zenon DEF CheckRange
<1>7. WideRoot!CheckRange(x, t, rnd, emin, emax)
      = CASE x.kind = "num" /\ x.exp < emin -> tinyWide
          [] x.kind = "num" /\ x.exp > emax -> hugeWide
          [] x.kind = "inf" /\ t # 0 -> WideRoot!Return(x, t, {"overflow"})
          [] OTHER -> WideRoot!Return(x, t, {})
  BY Zenon DEF WideRoot!CheckRange
<1> HIDE DEF tiny, tinyWide, huge, hugeWide
<1> QED
  BY <1>2, <1>4, <1>5, <1>6, <1>7, Zenon

\* The end of the wide general code.
WideEnd(p, sh, root, rest, e, rnd) ==
  LET low == root % 2^sh
      m == root \div 2^sh
      exact == ~ rest /\ low = 0
      half == 2^(sh - 1)
      up == CASE rnd \in {"RNDZ", "RNDD"} \/ exact -> FALSE
              [] rnd = "RNDN" /\ ~ exact ->
                   low >= half /\ (low # half \/ rest \/ m % 2 = 1)
              [] OTHER -> TRUE
      s == IF up THEN WideRoot!OneUlpAdded(p, m, e, FALSE)
           ELSE WideRoot!Return(WideRoot!Num(FALSE, e, m, p), IF exact THEN 0 ELSE -1, {})
  IN WideRoot!CheckRange(s.y, s.inex, rnd, emin, emax)

\* It is the same code,
LEMMA WideEndIs ==
  ASSUME NEW p, NEW sh, NEW root, NEW rest, NEW e, NEW rnd
  PROVE  WideEnd(p, sh, root, rest, e, rnd) = EndOfGeneral(p, sh, root, rest, e, rnd, FALSE)
<1> DEFINE m == root \div 2^sh
           t == IF ~ rest /\ root % 2^sh = 0 THEN 0 ELSE -1
<1>1. WideRoot!OneUlpAdded(p, m, e, FALSE) = OneUlpAdded(p, m, e, FALSE)
  BY WideResults, Zenon
<1>2. WideRoot!Return(WideRoot!Num(FALSE, e, m, p), t, {})
        = Return(Num(FALSE, e, m, p), Signed(FALSE, t), {})
  BY Zenon DEF WideRoot!Return, Return, WideRoot!Num, Num, Signed
<1>3. \A y, i : WideRoot!CheckRange(y, i, rnd, emin, emax) = CheckRange(y, i, rnd, emin, emax)
  BY WideCheckRange, Zenon
<1> QED
  BY <1>1, <1>2, <1>3, Zenon DEF WideEnd, EndOfGeneral

\* and so is the general code as a whole.
LEMMA WideGeneralIs ==
  ASSUME NEW p, NEW u, NEW rnd
  PROVE  WideRoot!SqrtGeneral(p, u, rnd)
           = GeneralSqrt(WideBits, WideRoot!NLimbs(p), WideRoot!MinusModulo(p), WideRoot!NLimbs(u.prec),
                         WideRoot!Mant(u), p, u, rnd)
<1> DEFINE oneMore == rnd = "RNDN" /\ WideRoot!MinusModulo(p) = 0
           sh == IF oneMore THEN WideBits ELSE WideRoot!MinusModulo(p)
           rsize == IF oneMore THEN WideRoot!NLimbs(p) + 1 ELSE WideRoot!NLimbs(p)
           us == WideRoot!NLimbs(u.prec)
           left == WideRoot!MaxOf(us - 2 * rsize, 0)
           wide == WideRoot!Mant(u)
                     * 2^(WideRoot!MaxOf(2 * rsize - us, 0) * WideBits + 1 - WideRoot!OddExp(u))
           a == wide \div 2^(left * WideBits + 1)
           root == WideRoot!Isqrt(a, rsize * WideBits)
           rest == wide % 2^(left * WideBits + 1) # 0 \/ root * root # a
           left2 == MaxOf(us - 2 * rsize, 0)
           wide2 == WideRoot!Mant(u) * 2^(MaxOf(2 * rsize - us, 0) * WideBits + 1 - OddExp(u))
           a2 == wide2 \div 2^(left2 * WideBits + 1)
           root2 == Isqrt(a2, rsize * WideBits)
           rest2 == wide2 % 2^(left2 * WideBits + 1) # 0 \/ root2 * root2 # a2
<1>1. WideRoot!SqrtGeneral(p, u, rnd)
        = WideEnd(p, sh, root, rest, (u.exp + WideRoot!OddExp(u)) \div 2, rnd)
  BY Zenon DEF WideRoot!SqrtGeneral, WideEnd
<1>2. GeneralSqrt(WideBits, WideRoot!NLimbs(p), WideRoot!MinusModulo(p), us, WideRoot!Mant(u), p, u, rnd)
        = EndOfGeneral(p, sh, root2, rest2, HalfExp(u), rnd, FALSE)
  BY Zenon DEF GeneralSqrt
<1>3. WideRoot!OddExp(u) = OddExp(u)
  BY Zenon DEF WideRoot!OddExp, OddExp
<1>4. left = left2 /\ WideRoot!MaxOf(2 * rsize - us, 0) = MaxOf(2 * rsize - us, 0)
  BY Zenon DEF WideRoot!MaxOf, MaxOf
<1>5. wide = wide2
  BY <1>3, <1>4, Zenon
<1>6. a = a2
  <2> HIDE DEF wide, wide2, left, left2
  <2> QED
    BY <1>4, <1>5, Zenon
<1>7. root = root2
  <2>1. WideRoot!Isqrt(a, rsize * WideBits) = Isqrt(a, rsize * WideBits)
    BY Zenon DEF WideRoot!Isqrt, Isqrt
  <2> HIDE DEF a, a2
  <2> QED
    BY <2>1, <1>6, Zenon
<1>8. rest = rest2
  <2> HIDE DEF wide, wide2, left, left2, a, a2, root, root2
  <2> QED
    BY <1>4, <1>5, <1>6, <1>7, Zenon
<1>9. (u.exp + WideRoot!OddExp(u)) \div 2 = HalfExp(u)
  BY <1>3, Zenon DEF HalfExp
<1> HIDE DEF root, root2, rest, rest2, sh
<1>10. WideEnd(p, sh, root, rest, (u.exp + WideRoot!OddExp(u)) \div 2, rnd)
         = EndOfGeneral(p, sh, root2, rest2, HalfExp(u), rnd, FALSE)
  BY <1>7, <1>8, <1>9, WideEndIs, Zenon
<1> QED
  BY <1>1, <1>2, <1>10, Zenon

\* The wide mpfr_sqrt is SqrtWith for limbs of WideBits bits.
LEMMA WideSqrtIs ==
  ASSUME NEW p, NEW u, NEW off, NEW rnd, NEW generic
  PROVE  /\ WideRoot!Sqrt(p, u, off, rnd, generic) = SqrtWith(WideBits, p, u, off, rnd, generic)
         /\ WideRoot!RootOffsets(p, u, generic) = OffsetsWith(WideBits, p, u, generic)
<1>1. \A n, b : WideRoot!Isqrt(n, b) = Isqrt(n, b)
  BY Zenon DEF WideRoot!Isqrt, Isqrt
<1>2. WideRoot!OddExp(u) = OddExp(u) /\ \A a, b : WideRoot!MaxOf(a, b) = MaxOf(a, b)
  BY Zenon DEF WideRoot!OddExp, OddExp, WideRoot!MaxOf, MaxOf
<1>3. \A a, b, c, d, e, f : WideRoot!RootEnd(a, b, c, d, e, f) = RootEnd(a, b, c, d, e, f)
  BY WideRootEnd, Zenon
<1>4. /\ \A a, b, c : WideRoot!Return(a, b, c) = Return(a, b, c)
      /\ \A a, b, c, d : WideRoot!Num(a, b, c, d) = Num(a, b, c, d)
      /\ \A a, b : WideRoot!Bit(a, b) = Bit(a, b)
  BY Zenon DEF WideRoot!Return, Return, WideRoot!Num, Num, WideRoot!Bit, Bit,
               WideRoot!Bits, Bits
<1>5. WideRoot!SqrtGeneral(p, u, rnd)
        = GeneralSqrt(WideBits, WideRoot!NLimbs(p), WideRoot!MinusModulo(p), WideRoot!NLimbs(u.prec),
                      WideRoot!Mant(u), p, u, rnd)
  BY WideGeneralIs, Zenon
<1>6. WideRoot!Sqrt1(u, -off, rnd)
        = EndOfApprox(u.prec, WideBits - u.prec, WideRoot!Mant(u) * 2^(WideBits - OddExp(u)),
                      Isqrt(WideRoot!Mant(u) * 2^(WideBits - OddExp(u)), WideBits),
                      Isqrt(WideRoot!Mant(u) * 2^(WideBits - OddExp(u)), WideBits) - (- off),
                      Root1Error, Root1Error, HalfExp(u), rnd)
  BY <1>1, <1>2, <1>3, <1>4, Zenon DEF WideRoot!Sqrt1, EndOfApprox, HalfExp
<1>7. WideRoot!Sqrt2(u, off, rnd)
        = EndOfApprox(u.prec, 2 * WideBits - u.prec, WideRoot!Mant(u) * 2^(2 * WideBits - OddExp(u)),
                      Isqrt(WideRoot!Mant(u) * 2^(2 * WideBits - OddExp(u)), 2 * WideBits),
                      Isqrt(WideRoot!Mant(u) * 2^(2 * WideBits - OddExp(u)), 2 * WideBits) + off,
                      Root2Below, Root2Below + Root2Above, HalfExp(u), rnd)
  BY <1>1, <1>2, <1>3, <1>4, Zenon DEF WideRoot!Sqrt2, EndOfApprox, HalfExp
<1>8. /\ WideRoot!NLimbs(p) = LimbsFor(WideBits, p)
       /\ WideRoot!NLimbs(u.prec) = LimbsFor(WideBits, u.prec)
       /\ WideRoot!MinusModulo(p) = UnusedBits(WideBits, p)
       /\ WideRoot!Mant(u) = u.mant * 2^UnusedBits(WideBits, u.prec)
  BY Zenon DEF WideRoot!NLimbs, LimbsFor, WideRoot!MinusModulo, UnusedBits, WideRoot!Mant
<1>9. WideRoot!Sqrt1n(u, rnd)
        = RestEnd(u.prec, u.mant * 2^(WideBits - OddExp(u)),
                  Isqrt(u.mant * 2^(WideBits - OddExp(u)), WideBits), HalfExp(u), rnd)
  BY <1>1, <1>2, <1>3, Zenon DEF WideRoot!Sqrt1n, RestEnd, HalfExp
<1>10. WideRoot!Sqrt(p, u, off, rnd, generic) = SqrtWith(WideBits, p, u, off, rnd, generic)
  BY <1>5, <1>6, <1>7, <1>8, <1>9, Zenon DEF WideRoot!Sqrt, SqrtWith
<1>11. WideRoot!RootOffsets(p, u, generic) = OffsetsWith(WideBits, p, u, generic)
  BY Zenon DEF WideRoot!RootOffsets, OffsetsWith
<1> QED
  BY <1>10, <1>11


-----------------------------------------------------------------------------
(* The exact root *)

\* The operand in the units of the exact root, squared, and its root.
Radicand(p, x) == x.mant * 2^(2 * RootLsb(p, x) + x.exp - x.prec)
IntegerRoot(p, x) == Isqrt(Radicand(p, x), RootLsb(p, x) + RootExp(x))

\* Root is made of them.
LEMMA RadicandIs ==
  ASSUME NEW p, NEW x
  PROVE  Root(p, x) = OddTerm(FALSE, IntegerRoot(p, x),
                              IntegerRoot(p, x) * IntegerRoot(p, x) # Radicand(p, x), RootLsb(p, x))
  BY Zenon DEF Root, Radicand, IntegerRoot

\* What the assumptions say of an operand of a square root.
LEMMA RootOperand ==
  ASSUME NEW o \in Operations, o \in {"sqrt", "wide_sqrt"}, NEW x \in OperandsOf(o, 1),
         NEW p \in PrecsOf(o)
  PROVE  /\ p \in Nat /\ p > 0 /\ OddPart(x) /\ emin <= x.exp /\ x.exp <= emax
         /\ x.kind = "num" /\ ~ x.neg /\ RootExp(x) + RootLsb(p, x) + 1 < MaxBits
<1>1. 1 \in 1 .. Arity(o)
  BY DEF Arity, OfIntegers, OfOneNumber, Remainders, OfTwoNumbers, OfSeveralNumbers
<1>2. EmaxOf(o) = emax
  BY DEF EmaxOf, LargeOperations, OfIntegers, OfOneNumber, Remainders, OfTwoNumbers, OfSeveralNumbers
<1>3. x \in Numbers /\ WellFormed(x, emin, EmaxOf(o)) /\ p \in Nat \ {0}
  BY <1>1, ArithmeticAssumption
<1>4. x.kind = "num" /\ ~ x.neg /\ RootExp(x) + RootLsb(p, x) + 1 < MaxBits
  BY RootsAssumption
<1>5. x.mant \in Nat /\ x.exp \in Int /\ x.prec \in Nat \ {0}
  BY <1>3 DEF Numbers
<1>6. 2^(x.prec - 1) <= x.mant /\ x.mant < 2^x.prec /\ emin <= x.exp /\ x.exp <= emax
  BY <1>2, <1>3, <1>4 DEF WellFormed
<1>7. OddPart(x)
  BY <1>5, <1>6 DEF OddPart, IsSignificand
<1> QED
  BY <1>3, <1>4, <1>6, <1>7

\* The units of the exact root are small enough, and it is below 2^MaxBits of them.
LEMMA RootUnits ==
  ASSUME NEW p \in Nat, p > 0, NEW x, OddPart(x), emin <= x.exp, x.exp <= emax,
         RootExp(x) + RootLsb(p, x) + 1 < MaxBits
  PROVE  /\ RootLsb(p, x) \in Nat /\ Fine(p) <= RootLsb(p, x) /\ RootExp(x) = HalfExp(x)
         /\ RootLsb(p, x) + HalfExp(x) >= p + 2
         /\ (2 * RootLsb(p, x) + x.exp) - x.prec \in Nat
         /\ FitsIn(p, RootLsb(p, x) + 1, HalfExp(x))
<1> DEFINE g == RootLsb(p, x)
<1>1. x.mant \in Nat /\ x.exp \in Int /\ x.prec \in Nat /\ x.prec > 0 /\ emin \in Int /\ emax \in Int
  BY RangeAssumption DEF OddPart
<1>2. /\ OddExp(x) \in {0, 1} /\ HalfExp(x) \in Int
      /\ x.exp + OddExp(x) = 2 * HalfExp(x) /\ RootExp(x) = HalfExp(x)
  BY <1>1, HalfExpIs DEF RootExp
<1>3. Fine(p) \in Nat /\ Fine(p) >= (p + 2) - emin
  BY <1>1 DEF Fine, MaxOf
<1>4. PICK top \in Nat : top = MaxOf(p, x.prec) /\ top >= p /\ top >= x.prec
  <2>1. MaxOf(p, x.prec) \in Nat /\ MaxOf(p, x.prec) >= p /\ MaxOf(p, x.prec) >= x.prec
    BY <1>1 DEF MaxOf
  <2> QED
    BY <2>1
<1>5. g = MaxOf(Fine(p), (top + 2) - RootExp(x))
  BY <1>1, <1>2, <1>4 DEF RootLsb
<1>6. g \in Nat /\ g >= Fine(p) /\ g >= (top + 2) - HalfExp(x)
  <2> HIDE DEF g
  <2> QED
    BY <1>2, <1>3, <1>5 DEF MaxOf
<1>7. g + HalfExp(x) >= p + 2 /\ (2 * g + x.exp) - x.prec \in Nat
  <2> HIDE DEF g
  <2> QED
    BY <1>1, <1>2, <1>4, <1>6
<1>8. HalfExp(x) + (g + 1) < MaxBits /\ MaxBits \in Nat
  <2>1. RootExp(x) + g + 1 < MaxBits
    OBVIOUS
  <2> HIDE DEF g
  <2> QED
    BY <1>2, <1>6, <2>1, RealRoundingAssumption
<1>9. FitsIn(p, g + 1, HalfExp(x))
  <2> HIDE DEF g
  <2>1. emin + (g + 1) >= 2 /\ p <= emax + (g + 1)
    BY <1>1, <1>3, <1>6, RangeAssumption
  <2>2. HalfExp(x) + (g + 1) \in 1 .. MaxBits
    BY <1>2, <1>6, <1>7, <1>8
  <2> QED
    BY <1>2, <1>6, <1>8, <2>1, <2>2 DEF FitsIn
<1> QED
  BY <1>2, <1>6, <1>7, <1>9

\* The exact root of an operand.
LEMMA RootOfOperand ==
  ASSUME NEW p \in Nat, p > 0, NEW x, OddPart(x), emin <= x.exp, x.exp <= emax,
         RootExp(x) + RootLsb(p, x) + 1 < MaxBits
  PROVE  RootOf(x, p, RootLsb(p, x), Radicand(p, x), IntegerRoot(p, x))
<1>1. PICK g \in Nat : g = RootLsb(p, x)
  BY RootUnits
<1>2. /\ RootExp(x) = HalfExp(x) /\ g + HalfExp(x) >= p + 2 /\ (2 * g + x.exp) - x.prec \in Nat
      /\ FitsIn(p, g + 1, HalfExp(x))
  BY <1>1, RootUnits
<1>3. PICK n : n = Radicand(p, x)
  OBVIOUS
<1>4. InQuarters(n, x, g)
  <2>1. x.exp \in Int /\ x.prec \in Int
    BY DEF OddPart
  <2>2. n = x.mant * 2^(2 * g + x.exp - x.prec)
    BY <1>1, <1>3, Zenon DEF Radicand
  <2>3. (2 * g + x.exp) - x.prec = 2 * g + x.exp - x.prec
    BY <2>1
  <2> QED
    BY <1>2, <2>2, <2>3 DEF InQuarters
<1>5. HalfExp(x) \in Int
  BY HalfExpIs DEF OddPart
<1>6. PICK k \in Nat : k = (g + HalfExp(x)) - 1
  BY <1>2, <1>5
<1>7. PICK H \in Nat : H = 2^k
  BY PowNat
<1>8. n \in Nat /\ n < (2 * H) * (2 * H)
  BY <1>4, <1>6, <1>7, ScaledBounds DEF Power
<1>9. g + HalfExp(x) \in Nat /\ 2^(g + HalfExp(x)) = 2 * H
  <2>1. g + HalfExp(x) = k + 1
    BY <1>5, <1>6
  <2> QED
    BY <2>1, <1>7, PowSucc
<1>10. IsRoot(n, Isqrt(n, g + HalfExp(x)))
  BY <1>8, <1>9, IsqrtIs
<1>11. IntegerRoot(p, x) = Isqrt(n, g + HalfExp(x))
  BY <1>1, <1>2, <1>3 DEF IntegerRoot
<1> QED
  BY <1>1, <1>2, <1>3, <1>4, <1>10, <1>11 DEF RootOf

\* The sum of one term that is not 0.
LEMMA ExactSumOfOne ==
  ASSUME NEW m \in Nat, m > 0, NEW lsb \in Int, Fine(call.p) \in Int, Fine(call.p) <= lsb,
         NEW neg \in BOOLEAN, ~ neg
  PROVE  LET s == ExactSum(<<[neg |-> neg, m |-> m, lsb |-> lsb]>>)
         IN s = [x |-> m, scale |-> lsb, neg |-> FALSE]
<1> DEFINE t == <<[neg |-> neg, m |-> m, lsb |-> lsb]>>
           scale == MaxExp({t[i].lsb : i \in DOMAIN t} \cup {Fine(call.p)})
           Of(h) == [i \in 0 .. Len(t) |->
                       IF i = 0 THEN 0 ELSE h[i-1] + Signed(t[i].neg, t[i].m * 2^(scale - t[i].lsb))]
           sum == CHOOSE h : h = Of(h)
           x == sum[Len(t)]
           signs == {t[i].neg : i \in DOMAIN t}
<1>1. ExactSum(t) = [x |-> IF x < 0 THEN -x ELSE x, scale |-> scale,
                     neg |-> x < 0 \/ (x = 0 /\ IF signs = BOOLEAN THEN call.rnd = "RNDD"
                                              ELSE signs = {TRUE})]
  BY Zenon DEF ExactSum
<1>2. Len(t) = 1 /\ DOMAIN t = {1} /\ t[1].neg = neg /\ t[1].m = m /\ t[1].lsb = lsb
  OBVIOUS
<1>3. scale = lsb
  <2>1. {t[i].lsb : i \in DOMAIN t} \cup {Fine(call.p)} = {lsb, Fine(call.p)}
    BY <1>2
  <2>2. PICK fine \in Int : fine = Fine(call.p) /\ fine <= lsb
    OBVIOUS
  <2>3. MaxExp({lsb, fine}) = lsb
    BY <2>2 DEF MaxExp
  <2> QED
    BY <2>1, <2>2, <2>3
<1>4. x = m
  <2> HIDE DEF scale
  <2>1. 2^(scale - lsb) = 1
    BY <1>3, PowZero
  <2> DEFINE g == [i \in 0 .. 1 |-> IF i = 0 THEN 0 ELSE m]
  <2>2. Signed(t[1].neg, t[1].m * 2^(scale - t[1].lsb)) = m
    BY <1>2, <2>1 DEF Signed
  <2>3. \A h : Of(h) = [i \in 0 .. 1 |-> IF i = 0 THEN 0 ELSE h[i-1] + m]
    <3> SUFFICES ASSUME NEW h PROVE Of(h) = [i \in 0 .. 1 |-> IF i = 0 THEN 0 ELSE h[i-1] + m]
      OBVIOUS
    <3> HIDE DEF t
    <3>1. 0 .. Len(t) = 0 .. 1
      BY <1>2
    <3>2. \A i \in 0 .. 1 : i # 0 => i = 1
      OBVIOUS
    <3> QED
      BY <1>2, <2>2, <3>1, <3>2
  <2>4. g = Of(g)
    <3>1. g = [i \in 0 .. 1 |-> IF i = 0 THEN 0 ELSE g[i-1] + m]
      <4>1. \A i \in 0 .. 1 : (IF i = 0 THEN 0 ELSE m) = (IF i = 0 THEN 0 ELSE g[i-1] + m)
        <5> SUFFICES ASSUME NEW i \in 0 .. 1, i # 0 PROVE m = g[i-1] + m
          OBVIOUS
        <5>1. g[i - 1] = 0
          OBVIOUS
        <5> QED
          BY <5>1
      <4> QED
        BY <4>1, Zenon
    <3> HIDE DEF g, Of
    <3> QED
      BY <3>1, <2>3, Zenon
  <2>5. sum = Of(sum)
    BY <2>4
  <2>6. sum = [i \in 0 .. 1 |-> IF i = 0 THEN 0 ELSE sum[i-1] + m]
    BY <2>3, <2>5
  <2>7. sum[0] = 0 /\ sum[1] = sum[0] + m
    <3> HIDE DEF sum
    <3> QED
      BY <2>6
  <2> HIDE DEF sum, t
  <2> QED
    BY <2>7, <1>2
<1> DEFINE minus == x < 0 \/ (x = 0 /\ IF signs = BOOLEAN THEN call.rnd = "RNDD" ELSE signs = {TRUE})
<1>5. minus = FALSE
  <2> HIDE DEF x, signs
  <2>1. ~ (x < 0) /\ ~ (x = 0)
    BY <1>4
  <2> QED
    BY <2>1, Zenon
<1>6. (IF x < 0 THEN -x ELSE x) = m
  <2> HIDE DEF x
  <2> QED
    BY <1>4
<1>7. ExactSum(t) = [x |-> m, scale |-> lsb, neg |-> minus]
  BY <1>1, <1>3, <1>6, Zenon
<1> HIDE DEF minus, t
<1>8. ExactSum(t) = [x |-> m, scale |-> lsb, neg |-> FALSE]
  BY <1>5, <1>7, Zenon
<1> QED
  BY <1>8, Zenon DEF t

\* A number that stands for Y has the value Y.
LEMMA ValueStands ==
  ASSUME NEW p \in Nat, p > 0, NEW sc \in Int, p <= emin + sc, NEW y, y.kind \in {"num", "zero", "inf"},
         y.prec = p, y.kind = "num" => y.exp \in Int /\ emin <= y.exp /\ y.exp <= emax, y.neg \in BOOLEAN,
         NEW Y, StandsFor(y, p, sc, Y)
  PROVE  ValueAt(y, sc) = Y /\ WellFormed(y, emin, emax)
<1>1. CASE y.kind = "zero"
  BY <1>1 DEF StandsFor, ValueAt, WellFormed
<1>2. CASE y.kind = "inf"
  BY <1>2 DEF StandsFor, ValueAt, WellFormed
<1>3. CASE y.kind = "num"
  <2>1. Represents(y.mant, p, y.exp + sc, Y) /\ y.exp \in Int /\ emin <= y.exp /\ y.exp <= emax
    BY <1>3 DEF StandsFor
  <2>2. PICK e \in Int : e = y.exp + sc /\ p <= e
    BY <2>1, RangeAssumption
  <2>3. Y = y.mant * 2^(e - p)
    BY <2>1, <2>2, RepresentsValue
  <2>4. y.exp + sc - y.prec = e - p
    BY <2>1, <2>2
  <2>5. ValueAt(y, sc) = Y
    BY <1>3, <2>3, <2>4 DEF ValueAt
  <2>6. WellFormed(y, emin, emax)
    BY <1>3, <2>1 DEF WellFormed, Represents, IsSignificand
  <2> QED
    BY <2>5, <2>6
<1> QED
  BY <1>1, <1>2, <1>3

\* A result that is right (OperationsProofs) is Right.
LEMMA RightCall ==
  ASSUME call.p \in Nat, call.p > 0, call.rnd \in Rnds, EmaxOf(op) = emax,
         NEW sc \in Int, call.p <= emin + sc, NEW X \in Nat, X > 0, NEW neg \in BOOLEAN,
         RightResult(r, call.p, sc, X, call.rnd, neg)
  PROVE  RightAs([x |-> X, scale |-> sc, neg |-> neg])
<1> DEFINE Z == [x |-> X, scale |-> sc, neg |-> neg]
           Value(d) == CorrectValue(X, call.p, d, neg, emin + sc, emax + sc)
<1>1. /\ r.y.kind \in {"num", "zero", "inf"} /\ r.y.prec = call.p /\ r.y.neg = neg
      /\ r.y.kind = "num" => r.y.exp \in Int /\ emin <= r.y.exp /\ r.y.exp <= emax
  BY DEF RightResult
<1>2. \A Y : StandsFor(r.y, call.p, sc, Y) => ValueAt(r.y, sc) = Y /\ WellFormed(r.y, emin, emax)
  BY <1>1, ValueStands
<1>3. Z.x = X /\ Z.scale = sc /\ Z.neg = neg
  OBVIOUS
<1>4. \A d : Correct(Z, d) = Value(d)
  <2> HIDE DEF Z
  <2> QED
    BY <1>3 DEF Correct
<1>5. ASSUME call.rnd # "RNDF" PROVE RightAs(Z)
  <2>1. Delivers(r, call.p, sc, X, call.rnd, neg, emin + sc, emax + sc)
    BY <1>5 DEF RightResult
  <2>2. ValueAt(r.y, sc) = Value(call.rnd) /\ WellFormed(r.y, emin, emax)
    BY <1>2, <2>1 DEF Delivers
  <2>3. SignOf(r.inex) = Ternary(Value(call.rnd), X, neg)
    BY <2>1 DEF Delivers
  <2>4. r.raised = FlagsOf(Z)
    <3> HIDE DEF Z
    <3> QED
      BY <1>3, <2>1 DEF Delivers, FlagsOf
  <2> HIDE DEF Z, Value
  <2>5. IsRounding(ValueAt(r.y, sc), Z)
    BY <1>3, <1>4, <1>5, <2>2, <2>3, Zenon DEF IsRounding
  <2>6. RoundedTo(Z)
    BY <1>1, <1>3, <2>5, Zenon DEF RoundedTo
  <2> QED
    BY <1>1, <2>2, <2>4, <2>6, Zenon DEF RightAs, RoundedAs, FlagsAs
<1>6. ASSUME call.rnd = "RNDF" PROVE RightAs(Z)
  <2>1. PICK d \in {"RNDZ", "RNDA"} : StandsFor(r.y, call.p, sc, Value(d))
    BY <1>6 DEF RightResult
  <2>2. ValueAt(r.y, sc) = Value(d) /\ WellFormed(r.y, emin, emax)
    BY <1>2, <2>1
  <2> HIDE DEF Z, Value
  <2>3. IsRounding(ValueAt(r.y, sc), Z)
    BY <1>4, <1>6, <2>2, Zenon DEF IsRounding
  <2>4. RoundedTo(Z)
    BY <1>1, <1>3, <2>3, Zenon DEF RoundedTo
  <2> QED
    BY <1>1, <1>6, <2>2, <2>4, Zenon DEF RightAs, RoundedAs, FlagsAs
<1> QED
  BY <1>5, <1>6

\* The square roots.
RootOps == {"sqrt", "wide_sqrt"}

\* The only term of a square root.
LEMMA RootTerms ==
  ASSUME op \in RootOps, NEW x, xs = <<x>>
  PROVE  Terms = <<Root(call.p, x)>>
<1>1. CASE op = "sqrt"
  BY <1>1 DEF Terms
<1>2. CASE op = "wide_sqrt"
  BY <1>2 DEF Terms
<1> QED
  BY <1>1, <1>2 DEF RootOps

\* What was called: the operation of limbs of w bits.
RootCalled ==
  \E x \in OperandsOf(op, 1), w \in {W, WideBits} :
    /\ xs = <<x>>
    /\ call.p \in PrecsOf(op) /\ call.rnd \in Rnds /\ call.generic \in BOOLEAN
    /\ call.n \in OffsetsWith(w, call.p, x, call.generic)
    /\ r = SqrtWith(w, call.p, x, call.n, call.rnd, call.generic)

\* A call of mpfr_sqrt returns the right result.
LEMMA CalledRight ==
  ASSUME op \in Operations, op \in RootOps, RootCalled
  PROVE  Right
<1>1. PICK x \in OperandsOf(op, 1), w \in {W, WideBits} :
        /\ xs = <<x>>
        /\ call.p \in PrecsOf(op) /\ call.rnd \in Rnds /\ call.generic \in BOOLEAN
        /\ call.n \in OffsetsWith(w, call.p, x, call.generic)
        /\ r = SqrtWith(w, call.p, x, call.n, call.rnd, call.generic)
  BY DEF RootCalled
<1>2. PICK p : p = call.p
  OBVIOUS
<1>3. /\ p \in Nat /\ p > 0 /\ OddPart(x) /\ emin <= x.exp /\ x.exp <= emax
      /\ RootExp(x) + RootLsb(p, x) + 1 < MaxBits
  BY <1>1, <1>2, RootOperand DEF RootOps
<1>4. PICK g, n, q : g = RootLsb(p, x) /\ n = Radicand(p, x) /\ q = IntegerRoot(p, x)
  OBVIOUS
<1>5. RootOf(x, p, g, n, q)
  BY <1>3, <1>4, RootOfOperand
<1>6. w \in Nat /\ w > 0
  BY RoundingAssumption, ArithmeticAssumption
<1>7. RightRoot(r, x, p, g, n, q, call.rnd)
  BY <1>1, <1>2, <1>5, <1>6, SqrtWithRight
<1>8. PICK X : X = Sticky(2 * q, q * q # n)
  OBVIOUS
<1>9. RightResult(r, p, g + 1, X, call.rnd, FALSE)
  BY <1>7, <1>8 DEF RightRoot
<1>10. g \in Nat /\ Fine(p) <= g /\ Fine(p) \in Nat /\ Fine(p) >= (p + 2) - emin
  <2>1. emin \in Int /\ Fine(p) \in Nat /\ Fine(p) >= (p + 2) - emin
    BY <1>3, RangeAssumption DEF Fine, MaxOf
  <2> QED
    BY <1>3, <1>4, <2>1, RootUnits
<1>11. X \in Nat /\ X > 0
  <2>1. q \in Nat /\ q > 0
    <3>1. IsRoot(n, q) /\ InQuarters(n, x, g)
      BY <1>5 DEF RootOf
    <3>2. n > 0
      <4>1. (2 * g + x.exp) - x.prec \in Nat /\ n = x.mant * 2^((2 * g + x.exp) - x.prec)
        BY <3>1 DEF InQuarters
      <4>2. x.mant \in Nat /\ x.mant > 0
        <5>1. x.prec - 1 \in Nat
          BY <1>3 DEF OddPart
        <5> QED
          BY <1>3, <5>1, PowNat DEF OddPart, IsSignificand
      <4>3. PICK t \in Nat : t = 2^((2 * g + x.exp) - x.prec) /\ t > 0
        BY <4>1, PowNat
      <4> QED
        BY <4>1, <4>2, <4>3
    <3>3. q \in Nat /\ n < (q + 1) * (q + 1) /\ n \in Nat
      BY <3>1, <1>3 DEF IsRoot, InQuarters, OddPart
    <3>4. q # 0
      BY <3>2, <3>3
    <3> QED
      BY <3>3, <3>4
  <2>2. X \in {2 * q, 2 * q + 1}
    BY <1>8 DEF Sticky
  <2> QED
    BY <2>1, <2>2
<1>12. EmaxOf(op) = emax
  BY DEF RootOps, EmaxOf, LargeOperations, OfIntegers, OfOneNumber, Remainders, OfTwoNumbers, OfSeveralNumbers
<1>13. RightAs([x |-> X, scale |-> g + 1, neg |-> FALSE])
  <2>1. PICK no \in BOOLEAN : no = FALSE
    OBVIOUS
  <2>2. RightResult(r, p, g + 1, X, call.rnd, no)
    BY <1>9, <2>1
  <2>3. g + 1 \in Int /\ p <= emin + (g + 1)
    BY <1>3, <1>10, RangeAssumption
  <2>4. RightAs([x |-> X, scale |-> g + 1, neg |-> no])
    BY <1>1, <1>2, <1>3, <1>11, <1>12, <2>2, <2>3, RightCall
  <2> QED
    BY <2>1, <2>4
<1>14. ExactResult = [x |-> X, scale |-> g + 1, neg |-> FALSE]
  <2>1. Terms = <<Root(p, x)>>
    BY <1>1, <1>2, RootTerms
  <2>2. Root(p, x) = [neg |-> FALSE, m |-> X, lsb |-> g + 1]
    BY <1>4, <1>8, RadicandIs, Zenon DEF OddTerm
  <2>3. PICK no \in BOOLEAN : no = FALSE
    OBVIOUS
  <2>4. ExactSum(<<[neg |-> no, m |-> X, lsb |-> g + 1]>>) = [x |-> X, scale |-> g + 1, neg |-> FALSE]
    BY <1>2, <1>10, <1>11, <2>3, ExactSumOfOne
  <2> QED
    BY <2>1, <2>2, <2>3, <2>4, Zenon DEF ExactResult
<1> QED
  BY <1>13, <1>14, Zenon DEF Right


\* The inductive invariant: what was called, and that mpfr_sqrt returned its result.
RootInv ==
  /\ op \in Operations
  /\ op \in RootOps => /\ xs = <<>> \/ \E x \in OperandsOf(op, 1) : xs = <<x>>
                       /\ call = NoCall \/ RootCalled

\* It holds before the operands are chosen.
LEMMA RootInvInit == Init => RootInv
  BY DEF Init, RootInv

\* And what mpfr_sqrt returned is right.
LEMMA RootInvRight == RootInv => SqrtRight
  BY CalledRight DEF RootInv, SqrtRight, Done, RootOps

\* An operand is chosen.
LEMMA OperandStep ==
  ASSUME RootInv, NextOperand
  PROVE  RootInv'
<1>1. op' = op /\ call' = call /\ call = NoCall /\ op \in Operations
  BY DEF NextOperand, RootInv
<1>2. CASE op \notin RootOps
  BY <1>1, <1>2 DEF RootInv
<1>3. CASE op \in RootOps
  <2>1. Arity(op) = 1
    BY <1>3 DEF RootOps, Arity, OfIntegers, OfOneNumber, Remainders, OfTwoNumbers, OfSeveralNumbers
  <2>2. Len(xs) < 1
    BY <2>1 DEF NextOperand
  <2>3. xs = <<>>
    <3>1. ASSUME NEW x, xs = <<x>> PROVE FALSE
      BY <3>1, <2>2
    <3> QED
      BY <3>1, <1>3 DEF RootInv
  <2>4. PICK x \in OperandsOf(op, Len(xs) + 1) : xs' = Append(xs, x)
    BY DEF NextOperand
  <2>5. Len(xs) + 1 = 1 /\ xs' = <<x>>
    BY <2>3, <2>4
  <2> QED
    BY <1>1, <2>4, <2>5 DEF RootInv
<1> QED
  BY <1>2, <1>3

\* mpfr_sqrt is called.
LEMMA SqrtStep ==
  ASSUME RootInv, CallSqrt
  PROVE  RootInv'
<1>1. Ready({"sqrt"}) /\ op \in Operations /\ op \in RootOps
  BY DEF CallSqrt, RootInv, Ready, RootOps
<1>2. op = "sqrt" /\ Arity(op) = 1
  BY <1>1 DEF Ready, Arity, OfIntegers, OfOneNumber, Remainders, OfTwoNumbers, OfSeveralNumbers
<1>3. PICK x \in OperandsOf(op, 1) : xs = <<x>>
  <2>1. Len(xs) = 1
    BY <1>1, <1>2 DEF Ready
  <2> QED
    BY <2>1, <1>1 DEF RootInv
<1>4. PICK p \in PrecsOf(op), rnd \in Rnds : \E generic, off :
        /\ generic \in Abis(p) /\ off \in RootOffsets(p, xs[1], generic)
        /\ Called(p, rnd, generic, off, Sqrt(p, xs[1], off, rnd, generic))
  BY Zenon DEF CallSqrt
<1>5. PICK generic, off :
        /\ generic \in Abis(p) /\ off \in RootOffsets(p, xs[1], generic)
        /\ Called(p, rnd, generic, off, Sqrt(p, xs[1], off, rnd, generic))
  BY <1>4, Zenon
<1>6. xs[1] = x /\ generic \in BOOLEAN
  BY <1>3, <1>5 DEF Abis
<1>7. /\ op' = op /\ xs' = xs /\ r' = Sqrt(p, x, off, rnd, generic)
      /\ call' = [NoCall EXCEPT !.p = p, !.rnd = rnd, !.generic = generic, !.n = off]
  BY <1>5, <1>6 DEF Called, CalledAs
<1>8. call'.p = p /\ call'.rnd = rnd /\ call'.generic = generic /\ call'.n = off
  BY <1>7 DEF NoCall
<1>9. off \in OffsetsWith(W, p, x, generic) /\ r' = SqrtWith(W, p, x, off, rnd, generic)
  BY <1>5, <1>6, <1>7, SqrtIs
<1>10. RootCalled'
  BY <1>3, <1>4, <1>6, <1>7, <1>8, <1>9 DEF RootCalled
<1> QED
  BY <1>1, <1>3, <1>7, <1>10 DEF RootInv

\* mpfr_sqrt is called, with wide limbs.
LEMMA WideSqrtStep ==
  ASSUME RootInv, CallWideSqrt
  PROVE  RootInv'
<1>1. Ready({"wide_sqrt"}) /\ op \in Operations /\ op \in RootOps
  BY DEF CallWideSqrt, RootInv, Ready, RootOps
<1>2. op = "wide_sqrt" /\ Arity(op) = 1
  BY <1>1 DEF Ready, Arity, OfIntegers, OfOneNumber, Remainders, OfTwoNumbers, OfSeveralNumbers
<1>3. PICK x \in OperandsOf(op, 1) : xs = <<x>>
  <2>1. Len(xs) = 1
    BY <1>1, <1>2 DEF Ready
  <2> QED
    BY <2>1, <1>1 DEF RootInv
<1>4. PICK p \in PrecsOf(op), rnd \in Rnds : \E off :
        /\ off \in WideRoot!RootOffsets(p, xs[1], FALSE)
        /\ Called(p, rnd, FALSE, off, WideRoot!Sqrt(p, xs[1], off, rnd, FALSE))
  BY Zenon DEF CallWideSqrt
<1>5. PICK off :
        /\ off \in WideRoot!RootOffsets(p, xs[1], FALSE)
        /\ Called(p, rnd, FALSE, off, WideRoot!Sqrt(p, xs[1], off, rnd, FALSE))
  BY <1>4, Zenon
<1>6. xs[1] = x
  BY <1>3
<1>7. /\ op' = op /\ xs' = xs /\ r' = WideRoot!Sqrt(p, x, off, rnd, FALSE)
      /\ call' = [NoCall EXCEPT !.p = p, !.rnd = rnd, !.generic = FALSE, !.n = off]
  BY <1>5, <1>6 DEF Called, CalledAs
<1>8. call'.p = p /\ call'.rnd = rnd /\ call'.generic = FALSE /\ call'.n = off
  BY <1>7 DEF NoCall
<1>9. off \in OffsetsWith(WideBits, p, x, FALSE) /\ r' = SqrtWith(WideBits, p, x, off, rnd, FALSE)
  BY <1>5, <1>6, <1>7, WideSqrtIs, Zenon
<1>10. RootCalled'
  BY <1>3, <1>4, <1>7, <1>8, <1>9 DEF RootCalled
<1> QED
  BY <1>1, <1>3, <1>7, <1>10 DEF RootInv

\* A call that is not one of a square root.
OtherCall == op \notin RootOps /\ op' = op

\* The other operations are no concern of it.
LEMMA OtherCallStep ==
  ASSUME RootInv, OtherCall
  PROVE  RootInv'
  BY DEF RootInv, OtherCall

\* The other operations are such calls.
LEMMA OtherCalls ==
  ASSUME \/ CallAddSub \/ CallMul \/ CallSqr \/ CallDiv
         \/ CallMul2si \/ CallDiv2si \/ CallDivUi
         \/ CallFma \/ CallFmma \/ CallSum \/ CallDot
         \/ CallWideMul \/ CallWideSqr
  PROVE  OtherCall
<1>1. \A ops : Ready(ops) /\ ops \cap RootOps = {} => op \notin RootOps
  BY DEF Ready
<1>2. \A c, result : CalledAs(c, result) => op' = op
  BY DEF CalledAs
<1>3. \A p, rnd, generic, n, result : Called(p, rnd, generic, n, result) => op' = op
  BY <1>2, Zenon DEF Called
<1>4. CASE CallAddSub
  <2>1. Ready({"add", "sub"}) /\ op' = op
    BY <1>3, <1>4, Zenon DEF CallAddSub
  <2> QED
    BY <1>1, <2>1 DEF RootOps, OtherCall
<1>5. CASE CallMul
  <2>1. Ready({"mul"}) /\ op' = op
    BY <1>3, <1>5, Zenon DEF CallMul
  <2> QED
    BY <1>1, <2>1 DEF RootOps, OtherCall
<1>6. CASE CallSqr
  <2>1. Ready({"sqr"}) /\ op' = op
    BY <1>3, <1>6, Zenon DEF CallSqr
  <2> QED
    BY <1>1, <2>1 DEF RootOps, OtherCall
<1>7. CASE CallDiv
  <2>1. Ready({"div"}) /\ op' = op
    BY <1>3, <1>7, Zenon DEF CallDiv
  <2> QED
    BY <1>1, <2>1 DEF RootOps, OtherCall
<1>8. CASE CallMul2si
  <2>1. Ready({"mul_2si"}) /\ op' = op
    BY <1>3, <1>8, Zenon DEF CallMul2si
  <2> QED
    BY <1>1, <2>1 DEF RootOps, OtherCall
<1>9. CASE CallDiv2si
  <2>1. Ready({"div_2si"}) /\ op' = op
    BY <1>3, <1>9, Zenon DEF CallDiv2si
  <2> QED
    BY <1>1, <2>1 DEF RootOps, OtherCall
<1>10. CASE CallDivUi
  <2>1. Ready({"div_ui"}) /\ op' = op
    BY <1>3, <1>10, Zenon DEF CallDivUi
  <2> QED
    BY <1>1, <2>1 DEF RootOps, OtherCall
<1>11. CASE CallFma
  <2>1. Ready({"fma", "fms"}) /\ op' = op
    BY <1>3, <1>11, Zenon DEF CallFma
  <2> QED
    BY <1>1, <2>1 DEF RootOps, OtherCall
<1>12. CASE CallFmma
  <2>1. Ready({"fmma", "fmms"}) /\ op' = op
    BY <1>3, <1>12, Zenon DEF CallFmma
  <2> QED
    BY <1>1, <2>1 DEF RootOps, OtherCall
<1>13. CASE CallSum
  <2>1. Ready({"sum"}) /\ op' = op
    BY <1>3, <1>13, Zenon DEF CallSum
  <2> QED
    BY <1>1, <2>1 DEF RootOps, OtherCall
<1>14. CASE CallDot
  <2>1. Ready({"dot"}) /\ op' = op
    BY <1>3, <1>14, Zenon DEF CallDot
  <2> QED
    BY <1>1, <2>1 DEF RootOps, OtherCall
<1>15. CASE CallWideMul
  <2>1. Ready({"wide_mul"}) /\ op' = op
    BY <1>3, <1>15, Zenon DEF CallWideMul
  <2> QED
    BY <1>1, <2>1 DEF RootOps, OtherCall
<1>16. CASE CallWideSqr
  <2>1. Ready({"wide_sqr"}) /\ op' = op
    BY <1>3, <1>16, Zenon DEF CallWideSqr
  <2> QED
    BY <1>1, <2>1 DEF RootOps, OtherCall
<1> QED
  BY <1>4, <1>5, <1>6, <1>7, <1>8, <1>9, <1>10, <1>11, <1>12, <1>13, <1>14, <1>15, <1>16

\* Every step preserves it.
LEMMA RootInvStep == RootInv /\ [Next \/ OtherCall]_vars => RootInv'
<1> SUFFICES ASSUME RootInv, [Next \/ OtherCall]_vars PROVE RootInv'
  OBVIOUS
<1>1. CASE NextOperand
  BY <1>1, OperandStep
<1>2. CASE CallSqrt
  BY <1>2, SqrtStep
<1>3. CASE CallWideSqrt
  BY <1>3, WideSqrtStep
<1>4. CASE \/ CallAddSub \/ CallMul \/ CallSqr \/ CallDiv
           \/ CallMul2si \/ CallDiv2si \/ CallDivUi
           \/ CallFma \/ CallFmma \/ CallSum \/ CallDot
           \/ CallWideMul \/ CallWideSqr
  BY <1>4, OtherCalls, OtherCallStep
<1>5. CASE OtherCall
  BY <1>5, OtherCallStep
<1>6. CASE UNCHANGED vars
  BY <1>6 DEF vars, RootInv, RootCalled
<1> QED
  BY <1>1, <1>2, <1>3, <1>4, <1>5, <1>6 DEF Next

\* The same with whatever other operations there are besides those of Arithmetic, as the
\* ones that IntegerArithmetic adds: the root is right all the same.
THEOREM SqrtAmongOthers == Init /\ [][Next \/ OtherCall]_vars => []SqrtRight
<1>1. Init /\ [][Next \/ OtherCall]_vars => []RootInv
  BY RootInvInit, RootInvStep, PTL
<1> QED
  BY <1>1, RootInvRight, PTL

\* mpfr_sqrt: whatever the precisions, the limbs, the rounding mode, the range and the
\* approximate root within its error, the result, its ternary value and its flags are
\* those of the exact square root rounded once.
THEOREM SqrtIsRight == Spec => []SqrtRight
<1>1. Init => RootInv
  BY RootInvInit
<1>2. RootInv /\ [Next]_vars => RootInv'
  BY RootInvStep
<1>3. Spec => []RootInv
  BY <1>1, <1>2, PTL DEF Spec
<1> QED
  BY <1>3, RootInvRight, PTL

=============================================================================
