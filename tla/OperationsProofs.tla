---------------------------- MODULE OperationsProofs ----------------------------
EXTENDS AddSubGeneral, SquareRoot, RoundingProofs

-----------------------------------------------------------------------------
(* From a significand, a round bit and a sticky bit *)

BitsOf(R, w, rb, sb) ==
  /\ rb \in BOOLEAN /\ sb \in BOOLEAN
  /\ rb <=> 2 * R >= w
  /\ sb <=> (R # 0 /\ 2 * R # w)

\* X is m and a fraction, in units of the last bit of m, of which rb and sb are the bits.
RoundsFrom(X, p, e, m, rb, sb) ==
  /\ e \in Nat /\ e > 0 /\ X \in Nat
  /\ IsSignificand(m, p)
  /\ \E R \in Nat : R < 2^e /\ X * 2^p = m * 2^e + R /\ BitsOf(R, 2^e, rb, sb)

\* The length of such a number is its exponent.
LEMMA RoundsFromLength ==
  ASSUME NEW p \in Nat, p > 0, NEW X, NEW e, NEW m, NEW rb, NEW sb,
         RoundsFrom(X, p, e, m, rb, sb)
  PROVE  HasLength(X, e)
<1>1. e \in Nat /\ e > 0 /\ X \in Nat /\ m \in Nat /\ 2^(p - 1) <= m /\ m < 2^p
  BY DEF RoundsFrom, IsSignificand
<1>2. PICK R \in Nat : R < 2^e /\ X * 2^p = m * 2^e + R
  BY DEF RoundsFrom
<1>3. PICK h \in Nat, w \in Nat :
        h = 2^(p - 1) /\ 2^p = 2 * h /\ w = 2^(e - 1) /\ 2^e = 2 * w /\ h > 0 /\ w > 0
  <2>1. p - 1 \in Nat /\ 2^p = 2 * 2^(p - 1)
    BY PowHalf
  <2>2. e - 1 \in Nat /\ 2^e = 2 * 2^(e - 1)
    BY <1>1, PowHalf
  <2> QED
    BY <2>1, <2>2, PowNat
<1>4. X * (2 * h) = m * (2 * w) + R /\ R < 2 * w /\ h <= m /\ m < 2 * h
  BY <1>1, <1>2, <1>3
<1>5. w <= X
  <2>1. h * (2 * w) <= m * (2 * w)
    BY <1>1, <1>3, <1>4, MulMono
  <2>2. w * (2 * h) <= X * (2 * h)
    BY <2>1, <1>1, <1>3, <1>4
  <2> QED
    BY <2>2, <1>1, <1>3, MulCancel
<1>6. X < 2 * w
  <2>1. (m + 1) * (2 * w) <= (2 * h) * (2 * w)
    BY <1>1, <1>3, <1>4, MulMono
  <2>2. X * (2 * h) < (2 * w) * (2 * h)
    BY <2>1, <1>1, <1>3, <1>4
  <2> QED
    BY <2>2, <1>1, <1>3, MulCancel
<1> QED
  BY <1>1, <1>3, <1>5, <1>6 DEF HasLength

\* The fraction in the units of X: nothing when X has less bits than the precision.
LEMMA RoundsFromShort ==
  ASSUME NEW p \in Nat, p > 0, NEW X, NEW e, e <= p, NEW m, NEW rb, NEW sb,
         RoundsFrom(X, p, e, m, rb, sb)
  PROVE  Represents(m, p, e, X) /\ rb \in BOOLEAN /\ sb \in BOOLEAN /\ ~ rb /\ ~ sb
<1>1. e \in Nat /\ X \in Nat /\ IsSignificand(m, p) /\ m \in Nat
  BY DEF RoundsFrom, IsSignificand
<1>2. PICK R \in Nat : R < 2^e /\ X * 2^p = m * 2^e + R /\ BitsOf(R, 2^e, rb, sb)
  BY DEF RoundsFrom
<1>3. PICK w \in Nat, k \in Nat : w = 2^e /\ k = 2^(p - e) /\ 2^p = k * w /\ w > 0
  BY <1>1, PowSplit, PowNat
<1>4. (X * k - m) * w = R
  <2>1. X * (k * w) = m * w + R
    BY <1>2, <1>3
  <2> QED
    BY <2>1, <1>1, <1>3
<1>5. R = 0
  <2>1. (X * k - m) * w < 1 * w
    BY <1>2, <1>3, <1>4
  <2>2. X * k - m < 1
    BY <2>1, <1>1, <1>3, MulCancel
  <2>3. 0 * w <= (X * k - m) * w
    BY <1>3, <1>4
  <2>4. 0 <= X * k - m
    BY <2>3, <1>1, <1>3, MulCancel
  <2> QED
    BY <2>2, <2>4, <1>1, <1>3, <1>4
<1> QED
  BY <1>1, <1>2, <1>3, <1>5 DEF Represents, BitsOf

\* A number longer than p bits: its bits are those of what is dropped.
LEMMA RoundsFromLong ==
  ASSUME NEW p \in Nat, p > 0, NEW X, NEW e, p < e, NEW m, NEW rb, NEW sb,
         RoundsFrom(X, p, e, m, rb, sb)
  PROVE  \E u \in Nat, s \in Nat : Cut(X, e, p, u, m, s) /\ BitsOf(s, u, rb, sb)
<1>1. e \in Nat /\ X \in Nat /\ IsSignificand(m, p) /\ m \in Nat
  BY DEF RoundsFrom, IsSignificand
<1>2. PICK R \in Nat : R < 2^e /\ X * 2^p = m * 2^e + R /\ BitsOf(R, 2^e, rb, sb)
  BY DEF RoundsFrom
<1>3. PICK w \in Nat, u \in Nat : w = 2^p /\ 2^e = u * w /\ w > 0 /\ u = 2^(e - p) /\ u > 0
  BY <1>1, PowSplit, PowNat
<1>4. (X - m * u) * w = R
  <2>1. X * w = m * (u * w) + R
    BY <1>2, <1>3
  <2> QED
    BY <2>1, <1>1, <1>3
<1> DEFINE s == X - m * u
<1>5. s \in Nat /\ s < u
  <2>1. s * w < u * w
    BY <1>2, <1>3, <1>4
  <2>2. s \in Int /\ 0 * w <= s * w
    BY <1>1, <1>3, <1>4
  <2> QED
    BY <2>1, <2>2, <1>3, MulCancel
<1>6. Cut(X, e, p, u, m, s)
  BY <1>1, <1>3, <1>5 DEF Cut
<1> HIDE DEF s
<1>7. R = s * w
  BY <1>4 DEF s
<1>8. (2 * R >= u * w <=> 2 * s >= u) /\ (2 * R = u * w <=> 2 * s = u) /\ (R = 0 <=> s = 0)
  <2>1. 2 * R = (2 * s) * w /\ R = s * w /\ 0 = 0 * w
    BY <1>3, <1>5, <1>7
  <2>2. /\ (2 * s) * w < u * w => 2 * s < u
        /\ u * w <= (2 * s) * w => u <= 2 * s
        /\ (2 * s) * w = u * w => 2 * s = u
        /\ s * w = 0 * w => s = 0
    BY <1>3, <1>5, MulCancel
  <2>3. u <= 2 * s => u * w <= (2 * s) * w
    BY <1>3, <1>5, MulMono
  <2> QED
    BY <2>1, <2>2, <2>3, <1>3, <1>5
<1>9. BitsOf(s, u, rb, sb)
  BY <1>2, <1>3, <1>8 DEF BitsOf
<1> QED
  BY <1>3, <1>5, <1>6, <1>9

\* Is an ulp to be added?
Up(m, rb, sb, g, neg) ==
  (rb \/ sb) /\ IF g = "RNDN" THEN rb /\ (sb \/ m % 2 = 1) ELSE ~ IsLikeRNDZ(g, neg)

OneWay == Rnds \ {"RNDF"}

\* The code rounds up when the definition does.
LEMMA UpIs ==
  ASSUME NEW m \in Nat, NEW s \in Nat, NEW u \in Nat, u > 0, s < u, NEW rb, NEW sb, BitsOf(s, u, rb, sb),
         NEW g \in OneWay, NEW neg \in BOOLEAN
  PROVE  /\ Up(m, rb, sb, g, neg) \in BOOLEAN
         /\ Up(m, rb, sb, g, neg) <=> GoesUp(m, s, u, g, neg)
         /\ (rb \/ sb) <=> s # 0
<1>1. ((rb \/ sb) <=> s # 0) /\ rb \in BOOLEAN /\ sb \in BOOLEAN
  BY DEF BitsOf
<1>2. CASE g = "RNDN"
  <2>1. GoesUp(m, s, u, g, neg) <=> s # 0 /\ (2 * s > u \/ (2 * s = u /\ m % 2 = 1))
    BY <1>2 DEF GoesUp
  <2>2. Up(m, rb, sb, g, neg) <=> (rb \/ sb) /\ rb /\ (sb \/ m % 2 = 1)
    BY <1>2 DEF Up
  <2>3. rb /\ (sb \/ m % 2 = 1) <=> s # 0 /\ (2 * s > u \/ (2 * s = u /\ m % 2 = 1))
    BY DEF BitsOf
  <2>4. Up(m, rb, sb, g, neg) \in BOOLEAN
    BY <1>1, <1>2 DEF Up
  <2> QED
    BY <1>1, <2>1, <2>2, <2>3, <2>4
<1>3. CASE g # "RNDN"
  <2>1. g \in Rnds \ {"RNDF", "RNDN"} /\ g # "RNDNA"
    BY <1>3 DEF OneWay, Rnds
  <2>2. IsLikeRNDZ(g, neg) <=> ~ IsLikeRNDA(g, neg)
    BY <2>1, LikeIs
  <2>3. GoesUp(m, s, u, g, neg) <=> s # 0 /\ IsLikeRNDA(g, neg)
    BY <1>3, <2>1 DEF GoesUp, IsLikeRNDA
  <2>4. Up(m, rb, sb, g, neg) <=> (rb \/ sb) /\ ~ IsLikeRNDZ(g, neg)
    BY <1>3 DEF Up
  <2>5. Up(m, rb, sb, g, neg) \in BOOLEAN
    BY <1>1, <1>3 DEF Up
  <2> QED
    BY <1>1, <2>2, <2>3, <2>4, <2>5
<1> QED
  BY <1>1, <1>2, <1>3

\* The significand so rounded, with its carry, stands for the rounding of X.
LEMMA BitsRound ==
  ASSUME NEW p \in Nat, p > 0, NEW e \in 1..MaxBits, NEW X, NEW m, NEW rb, NEW sb,
         RoundsFrom(X, p, e, m, rb, sb), NEW g \in OneWay, NEW neg \in BOOLEAN, NEW dir
  PROVE  LET up == Up(m, rb, sb, g, neg)
             s == Significand(m, p, Decision(up, dir))
             Y == RoundTo(X, p, g, neg)
         IN /\ up \in BOOLEAN /\ rb \in BOOLEAN /\ sb \in BOOLEAN
            /\ Represents(s.mant, p, e + s.carry, Y)
            /\ up => Y > X
            /\ ~ up /\ (rb \/ sb) => Y < X
            /\ ~ rb /\ ~ sb => Y = X
            /\ X \in Nat
<1> DEFINE up == Up(m, rb, sb, g, neg)
           Y == RoundTo(X, p, g, neg)
<1>0. HasLength(X, e) /\ X \in Nat /\ IsSignificand(m, p) /\ m \in Nat
  BY RoundsFromLength DEF RoundsFrom, IsSignificand
<1>1. CASE e <= p
  <2>1. Represents(m, p, e, X) /\ rb \in BOOLEAN /\ sb \in BOOLEAN /\ ~ rb /\ ~ sb
    BY <1>1, RoundsFromShort
  <2>2. Y = X
    BY <1>0, <1>1, RoundToShort
  <2>3. up = FALSE
    BY <2>1, Zenon DEF Up
  <2>4. /\ Significand(m, p, Decision(FALSE, dir)).mant = m
        /\ Significand(m, p, Decision(FALSE, dir)).carry = 0
    BY <1>0 DEF Significand, Decision, IsSignificand
  <2>5. e + 0 = e
    OBVIOUS
  <2> QED
    BY <1>0, <2>1, <2>2, <2>3, <2>4, <2>5
<1>2. CASE p < e
  <2>1. PICK u \in Nat, s \in Nat : Cut(X, e, p, u, m, s) /\ BitsOf(s, u, rb, sb)
    BY <1>2, RoundsFromLong
  <2>2. u > 0 /\ s < u /\ X = m * u + s /\ u = 2^(e - p)
    BY <2>1 DEF Cut
  <2>3. /\ up \in BOOLEAN
        /\ up <=> GoesUp(m, s, u, g, neg)
        /\ (rb \/ sb) <=> s # 0
    BY <1>0, <2>1, <2>2, UpIs
  <2>4. Y = (IF GoesUp(m, s, u, g, neg) THEN m + 1 ELSE m) * u
    BY <1>0, <1>2, <2>1, RoundToLong
  <2>5. Y = (IF up THEN m + 1 ELSE m) * u
    BY <2>3, <2>4
  <2> HIDE DEF up, Y
  <2>6. LET s1 == Significand(m, p, Decision(up, dir)) IN
        Represents(s1.mant, p, e + s1.carry, (IF up THEN m + 1 ELSE m) * 2^(e - p))
    BY <1>0, <1>2, <2>3, SignificandRepresents DEF Decision
  <2>7. up => Y > X
    BY <1>0, <2>2, <2>5
  <2>8. ~ up /\ (rb \/ sb) => Y < X
    BY <1>0, <2>2, <2>3, <2>5
  <2>9. ~ rb /\ ~ sb => Y = X
    <3>1. ~ rb /\ ~ sb => ~ up
      BY DEF up, Up
    <3> QED
      BY <1>0, <2>2, <2>3, <2>5, <3>1
  <2>10. rb \in BOOLEAN /\ sb \in BOOLEAN
    BY <2>1 DEF BitsOf
  <2> QED
    BY <1>0, <2>2, <2>3, <2>5, <2>6, <2>7, <2>8, <2>9, <2>10 DEF up, Y
<1> QED
  BY <1>1, <1>2

\* What the steps that end a call have to give for X: see CheckRangeRight.
RightResult(c, p, sc, X, rnd, neg) ==
  /\ c.y.kind \in {"num", "zero", "inf"} /\ c.y.prec = p /\ c.y.neg = neg
  /\ c.y.kind = "num" => c.y.exp \in Int /\ emin <= c.y.exp /\ c.y.exp <= emax
  /\ rnd # "RNDF" => Delivers(c, p, sc, X, rnd, neg, emin + sc, emax + sc)
  /\ rnd = "RNDF" =>
       \E d \in {"RNDZ", "RNDA"} :
          StandsFor(c.y, p, sc, CorrectValue(X, p, d, neg, emin + sc, emax + sc))

\* The precision, and a scale at which X is a whole number in any case.
FitsIn(p, sc, e) ==
  /\ p \in Nat /\ p > 0 /\ sc \in Nat /\ e \in Int
  /\ emin + sc >= 2 /\ p <= emax + sc
  /\ e + sc \in 1..MaxBits /\ e + sc < MaxBits

\* The form of what mpfr_check_range returns.
LEMMA CheckRangeForm ==
  ASSUME NEW x \in Int, NEW k, NEW p, NEW neg, NEW t, NEW rnd
  PROVE  LET c == CheckRange(Num(neg, x, k, p), t, rnd, emin, emax) IN
         /\ c.y.kind \in {"num", "zero", "inf"} /\ c.y.prec = p /\ c.y.neg = neg
         /\ c.y.kind = "num" => c.y.exp \in Int /\ emin <= c.y.exp /\ c.y.exp <= emax
<1>0. emin \in Int /\ emax \in Int /\ emin <= emax
  BY RangeAssumption
<1>1. Num(neg, x, k, p).exp \in Int
  BY DEF Num
<1>2. LET c == CheckRange(Num(neg, x, k, p), t, rnd, emin, emax) IN
      c.y.kind = "num" => c.y.exp \in Int /\ emin <= c.y.exp /\ c.y.exp <= emax
  BY <1>0, <1>1, CheckRangeKeeps
<1>3. LET c == CheckRange(Num(neg, x, k, p), t, rnd, emin, emax) IN
      c.y.kind \in {"num", "zero", "inf"} /\ c.y.prec = p /\ c.y.neg = neg
  BY DEF CheckRange, Num, Underflow, Overflow, Return, SetMin, SetMax, Zero, Inf
<1> QED
  BY <1>2, <1>3

\* Once its range is looked at, a rounding is the result that is due.
LEMMA ByCheckRange ==
  ASSUME NEW p, NEW sc, NEW e, FitsIn(p, sc, e), NEW X, HasLength(X, e + sc),
         NEW rnd \in OneWay, NEW neg \in BOOLEAN, NEW x \in Int, NEW k, NEW t,
         IsOneRounding(k, p, x + sc, t, X, rnd, neg, emin + sc)
  PROVE  RightResult(CheckRange(Num(neg, x, k, p), t, rnd, emin, emax), p, sc, X, rnd, neg)
<1>0. emin \in Int /\ emax \in Int /\ emin <= emax
  BY RangeAssumption
<1>1. /\ p \in Nat /\ p > 0 /\ sc \in Nat /\ emin + sc >= 2 /\ p <= emax + sc
      /\ e + sc \in 1..MaxBits /\ e + sc < MaxBits
  BY DEF FitsIn
<1>2. rnd \in RoundingDirections /\ rnd # "RNDNA" /\ rnd # "RNDF" /\ Asked(rnd) = rnd
  BY DEF OneWay, Rnds, RoundingDirections, Asked
<1>3. Delivers(CheckRange(Num(neg, x, k, p), t, Asked(rnd), emin, emax), p, sc, X, rnd, neg,
               emin + sc, emax + sc)
  BY <1>0, <1>1, <1>2, CheckRangeRight
<1>4. Delivers(CheckRange(Num(neg, x, k, p), t, rnd, emin, emax), p, sc, X, rnd, neg,
               emin + sc, emax + sc)
  BY <1>2, <1>3
<1> QED
  BY <1>2, <1>4, CheckRangeForm DEF RightResult

\* The same for one of the two faithful roundings.
LEMMA ByCheckRangeFaithful ==
  ASSUME NEW p, NEW sc, NEW e, FitsIn(p, sc, e), NEW X, HasLength(X, e + sc),
         NEW g \in {"RNDZ", "RNDA"}, NEW neg \in BOOLEAN, NEW x \in Int, NEW k, NEW t, NEW c,
         Represents(k, p, x + sc, RoundTo(X, p, g, neg)),
         c.y = CheckRange(Num(neg, x, k, p), t, "RNDF", emin, emax).y
  PROVE  RightResult(c, p, sc, X, "RNDF", neg)
<1>0. emin \in Int /\ emax \in Int /\ emin <= emax
  BY RangeAssumption
<1>1. /\ p \in Nat /\ p > 0 /\ sc \in Nat /\ emin + sc >= 2
      /\ e + sc \in 1..MaxBits /\ e + sc < MaxBits
  BY DEF FitsIn
<1>2. \E d \in {"RNDZ", "RNDA"} :
        StandsFor(c.y, p, sc, CorrectValue(X, p, d, neg, emin + sc, emax + sc))
  BY <1>0, <1>1, CheckRangeFaithful
<1> QED
  BY <1>2, CheckRangeForm DEF RightResult

\* Significand m and its bits: the ternary value, away from zero.
Inexact(m, rb, sb, g, neg) ==
  IF ~ rb /\ ~ sb THEN 0 ELSE IF Up(m, rb, sb, g, neg) THEN 1 ELSE -1

\* A significand rounded by its bits, with its ternary value, is a rounding of X.
LEMMA BitsAreRounding ==
  ASSUME NEW p \in Nat, p > 0, NEW e \in 1..MaxBits, NEW X, NEW m, NEW rb, NEW sb,
         RoundsFrom(X, p, e, m, rb, sb), NEW g \in OneWay, NEW neg \in BOOLEAN, NEW E
  PROVE  LET s == Significand(m, p, Decision(Up(m, rb, sb, g, neg), 0))
         IN IsOneRounding(s.mant, p, e + s.carry, Signed(neg, Inexact(m, rb, sb, g, neg)), X, g, neg, E)
<1> DEFINE up == Up(m, rb, sb, g, neg)
           s == Significand(m, p, Decision(up, 0))
           Y == RoundTo(X, p, g, neg)
           i == Inexact(m, rb, sb, g, neg)
<1>1. /\ up \in BOOLEAN /\ rb \in BOOLEAN /\ sb \in BOOLEAN
      /\ Represents(s.mant, p, e + s.carry, Y)
      /\ up => Y > X
      /\ ~ up /\ (rb \/ sb) => Y < X
      /\ ~ rb /\ ~ sb => Y = X
      /\ X \in Nat
  BY BitsRound
<1>2. i = IF ~ rb /\ ~ sb THEN 0 ELSE IF up THEN 1 ELSE -1
  BY DEF Inexact
<1>3. Y \in Nat
  BY <1>1 DEF Represents
<1>4. up => rb \/ sb
  BY <1>1 DEF Up
<1>5. i \in Int /\ (Y > X => i = 1) /\ (Y < X => i = -1) /\ (Y = X => i = 0)
  <2> HIDE DEF Y, up, i, s
  <2>1. CASE ~ rb /\ ~ sb
    <3>1. Y = X /\ i = 0
      BY <1>1, <1>2, <2>1
    <3> QED
      BY <3>1, <1>3
  <2>2. CASE up
    <3>1. Y > X /\ i = 1
      BY <1>1, <1>2, <1>4, <2>2
    <3> QED
      BY <3>1, <1>1, <1>3
  <2>3. CASE ~ up /\ (rb \/ sb)
    <3>1. Y < X /\ i = -1
      BY <1>1, <1>2, <2>3
    <3> QED
      BY <3>1, <1>1, <1>3
  <2> QED
    BY <1>1, <2>1, <2>2, <2>3
<1>6. g \in RoundingDirections \ {"RNDNA"}
  BY DEF OneWay, Rnds, RoundingDirections
<1> HIDE DEF Y, up, i, s
<1>7. /\ Y > X => Signed(neg, Signed(neg, i)) > 0
      /\ Y < X => Signed(neg, Signed(neg, i)) < 0
      /\ Y = X => Signed(neg, i) = 0
      /\ Signed(neg, i) \in Int
  <2>1. Signed(neg, i) \in Int /\ Signed(neg, Signed(neg, i)) = i /\ (Signed(neg, i) = 0 <=> i = 0)
    BY <1>5, SignedTwice
  <2> QED
    BY <1>5, <2>1
<1>8. IsOneRounding(s.mant, p, e + s.carry, Signed(neg, i), X, g, neg, E)
  <2>1. \A k, f : Represents(k, p, f, Y) => IsOneRounding(k, p, f, Signed(neg, i), X, g, neg, E)
    BY <1>1, <1>6, <1>7, RightRounding DEF Y
  <2> QED
    BY <1>1, <2>1
<1> QED
  BY <1>8 DEF s, up, i

\* m rounded by its bits, then brought back to the range.
Settled(p, m, e, rb, sb, rnd, neg) ==
  LET s == Significand(m, p, Decision(Up(m, rb, sb, rnd, neg), 0))
  IN CheckRange(Num(neg, e + s.carry, s.mant, p), Signed(neg, Inexact(m, rb, sb, rnd, neg)),
                rnd, emin, emax)

\* Rounded by its bits, and once its range is looked at, it is the result that is due.
LEMMA SettledRight ==
  ASSUME NEW p, NEW sc, NEW e, FitsIn(p, sc, e), NEW X, NEW m, NEW rb, NEW sb,
         RoundsFrom(X, p, e + sc, m, rb, sb), NEW rnd \in OneWay, NEW neg \in BOOLEAN
  PROVE  RightResult(Settled(p, m, e, rb, sb, rnd, neg), p, sc, X, rnd, neg)
<1>1. p \in Nat /\ p > 0 /\ sc \in Nat /\ e \in Int /\ e + sc \in 1..MaxBits
  BY DEF FitsIn
<1>2. HasLength(X, e + sc)
  BY <1>1, RoundsFromLength
<1> DEFINE up == Up(m, rb, sb, rnd, neg)
           s == Significand(m, p, Decision(up, 0))
           t == Signed(neg, Inexact(m, rb, sb, rnd, neg))
<1>3. IsOneRounding(s.mant, p, (e + sc) + s.carry, t, X, rnd, neg, emin + sc)
  BY <1>1, BitsAreRounding
<1>4. up \in BOOLEAN /\ IsSignificand(m, p)
  <2>1. up \in BOOLEAN
    BY <1>1, BitsRound
  <2> QED
    BY <2>1 DEF RoundsFrom
<1>5. s.carry \in {0, 1}
  BY <1>4 DEF Significand
<1> HIDE DEF s, t, up
<1>6. (e + sc) + s.carry = (e + s.carry) + sc /\ e + s.carry \in Int
  BY <1>1, <1>5
<1>7. IsOneRounding(s.mant, p, (e + s.carry) + sc, t, X, rnd, neg, emin + sc)
  BY <1>3, <1>6
<1>8. RightResult(CheckRange(Num(neg, e + s.carry, s.mant, p), t, rnd, emin, emax), p, sc, X, rnd, neg)
  BY <1>2, <1>6, <1>7, ByCheckRange
<1> QED
  BY <1>8 DEF Settled, s, t, up

\* For MPFR_RNDF the significand is left as it is.
LEMMA SettledFaithful ==
  ASSUME NEW p, NEW sc, NEW e, FitsIn(p, sc, e), NEW X, NEW m, NEW rb, NEW sb,
         RoundsFrom(X, p, e + sc, m, rb, sb), NEW neg \in BOOLEAN, NEW c, NEW t,
         c.y = CheckRange(Num(neg, e, m, p), t, "RNDF", emin, emax).y
  PROVE  RightResult(c, p, sc, X, "RNDF", neg)
<1>1. p \in Nat /\ p > 0 /\ sc \in Nat /\ e \in Int /\ e + sc \in 1..MaxBits
  BY DEF FitsIn
<1>2. HasLength(X, e + sc) /\ IsSignificand(m, p) /\ m \in Nat
  BY <1>1, RoundsFromLength DEF RoundsFrom, IsSignificand
<1>3. "RNDZ" \in OneWay
  BY DEF OneWay, Rnds
<1> DEFINE up == Up(m, rb, sb, "RNDZ", neg)
           s == Significand(m, p, Decision(up, 0))
<1>4. up \in BOOLEAN /\ Represents(s.mant, p, (e + sc) + s.carry, RoundTo(X, p, "RNDZ", neg))
  BY <1>1, <1>3, BitsRound
<1>5. ~ up
  BY <1>4 DEF Up, IsLikeRNDZ
<1>6. s.mant = m /\ s.carry = 0
  BY <1>2, <1>4, <1>5 DEF Significand, Decision, IsSignificand
<1> HIDE DEF up, s
<1>7. (e + sc) + 0 = e + sc
  BY <1>1
<1>8. Represents(m, p, e + sc, RoundTo(X, p, "RNDZ", neg))
  BY <1>4, <1>6, <1>7
<1> QED
  BY <1>1, <1>2, <1>8, ByCheckRangeFaithful

\* c is how a call ends that has found m and its bits.
EndsWith(c, p, m, e, rb, sb, rnd, neg) ==
  IF rnd = "RNDF"
  THEN \E t : c.y = CheckRange(Num(neg, e, m, p), t, "RNDF", emin, emax).y
  ELSE c = Settled(p, m, e, rb, sb, rnd, neg)

\* An operation that ends so is right.
LEMMA EndsRight ==
  ASSUME NEW p, NEW sc, NEW e, FitsIn(p, sc, e), NEW X, NEW m, NEW rb, NEW sb,
         RoundsFrom(X, p, e + sc, m, rb, sb), NEW rnd \in Rnds, NEW neg \in BOOLEAN, NEW c,
         EndsWith(c, p, m, e, rb, sb, rnd, neg)
  PROVE  RightResult(c, p, sc, X, rnd, neg)
<1>1. CASE rnd = "RNDF"
  <2>1. PICK t : c.y = CheckRange(Num(neg, e, m, p), t, "RNDF", emin, emax).y
    BY <1>1 DEF EndsWith
  <2>2. RightResult(c, p, sc, X, "RNDF", neg)
    BY <2>1, SettledFaithful
  <2> QED
    BY <1>1, <2>2
<1>2. CASE rnd # "RNDF"
  <2>1. rnd \in OneWay /\ c = Settled(p, m, e, rb, sb, rnd, neg)
    BY <1>2 DEF OneWay, EndsWith
  <2> QED
    BY <2>1, SettledRight
<1> QED
  BY <1>1, <1>2

\* The result before the range is looked at.
LEMMA RoundBitsIs ==
  ASSUME NEW p, NEW m \in Nat, NEW e, NEW rb \in BOOLEAN, NEW sb \in BOOLEAN,
         NEW rnd \in OneWay, NEW neg \in BOOLEAN, NEW more
  PROVE  RoundBits(p, m, e, rb, sb, rnd, neg, more)
           = IF Up(m, rb, sb, rnd, neg) THEN more
             ELSE Return(Num(neg, e, m, p), Signed(neg, Inexact(m, rb, sb, rnd, neg)), {})
<1>1. rnd \in Rnds /\ rnd # "RNDF"
  BY DEF OneWay
<1>2. Signed(neg, 0) = 0
  BY SignedTwice
<1>3. CASE ~ rb /\ ~ sb
  BY <1>1, <1>2, <1>3 DEF RoundBits, Up, Inexact
<1>4. CASE (rb \/ sb) /\ rnd = "RNDN"
  BY <1>1, <1>4 DEF RoundBits, Up, Inexact, Truncated
<1>5. CASE (rb \/ sb) /\ rnd # "RNDN"
  BY <1>1, <1>5 DEF RoundBits, Up, Inexact, Truncated, Rnds
<1> QED
  BY <1>3, <1>4, <1>5

\* At most the largest exponent is passed.
LEMMA RoundUnderEnds ==
  ASSUME NEW p \in Nat, p > 0, NEW m, IsSignificand(m, p), NEW e \in Int, emin <= e,
         NEW rb \in BOOLEAN, NEW sb \in BOOLEAN, NEW rnd \in Rnds, NEW neg \in BOOLEAN
  PROVE  EndsWith(RoundUnder(p, m, e, rb, sb, rnd, neg), p, m, e, rb, sb, rnd, neg)
<1>0. emin \in Int /\ emax \in Int /\ emin <= emax
  BY RangeAssumption
<1>1. CASE rnd = "RNDF"
  <2>1. RoundUnder(p, m, e, rb, sb, rnd, neg)
          = IF e > emax THEN Overflow(p, rnd, neg, emax) ELSE Return(Num(neg, e, m, p), 0, {})
    BY <1>1 DEF RoundUnder, RoundBits
  <2>2. CheckRange(Num(neg, e, m, p), 0, "RNDF", emin, emax)
          = IF e > emax THEN Overflow(p, "RNDF", neg, emax) ELSE Return(Num(neg, e, m, p), 0, {})
    BY <1>0 DEF CheckRange, Num
  <2> QED
    BY <1>1, <2>1, <2>2 DEF EndsWith
<1>2. CASE rnd # "RNDF"
  <2> DEFINE up == Up(m, rb, sb, rnd, neg)
             t == Signed(neg, Inexact(m, rb, sb, rnd, neg))
             s == Significand(m, p, Decision(up, 0))
             x == e + s.carry
  <2>1. rnd \in OneWay
    BY <1>2 DEF OneWay
  <2>2. RoundUnder(p, m, e, rb, sb, rnd, neg)
          = IF e > emax THEN Overflow(p, rnd, neg, emax)
            ELSE IF up THEN OneUlpChecked(p, m, e, rnd, neg) ELSE Return(Num(neg, e, m, p), t, {})
    BY <2>1, RoundBitsIs DEF RoundUnder, IsSignificand
  <2>3. up \in BOOLEAN
    BY DEF Up, IsLikeRNDZ
  <2>4. m \in Nat /\ m < 2^p /\ 2^p \in Nat
    BY PowNat DEF IsSignificand
  <2>5. /\ ~ up => s.mant = m /\ s.carry = 0
        /\ up /\ m + 1 < 2^p => s.mant = m + 1 /\ s.carry = 0
        /\ up /\ ~ (m + 1 < 2^p) => s.mant = 2^(p - 1) /\ s.carry = 1
    BY <2>3, <2>4 DEF Significand, Decision
  <2>6. s.carry \in {0, 1}
    BY <2>3, <2>5
  <2>7. up => t = Signed(neg, 1)
    BY DEF Inexact, Up
  <2> HIDE DEF up, t, s
  <2>8. Settled(p, m, e, rb, sb, rnd, neg) =
          IF x > emax THEN Overflow(p, rnd, neg, emax) ELSE Return(Num(neg, x, s.mant, p), t, {})
    BY <1>0, <2>6 DEF Settled, CheckRange, Num, s, t, up
  <2>9. RoundUnder(p, m, e, rb, sb, rnd, neg) = Settled(p, m, e, rb, sb, rnd, neg)
    <3>1. CASE ~ up
      <4>1. x = e /\ s.mant = m
        BY <2>5, <3>1
      <4> QED
        BY <2>2, <2>8, <3>1, <4>1
    <3>2. CASE up /\ m + 1 < 2^p
      <4>1. x = e /\ s.mant = m + 1
        BY <2>5, <3>2
      <4>2. OneUlpChecked(p, m, e, rnd, neg) = Return(Num(neg, e, m + 1, p), t, {})
        BY <2>4, <2>7, <3>2 DEF OneUlpChecked, OneUlpAdded
      <4> QED
        BY <2>2, <2>8, <3>2, <4>1, <4>2
    <3>3. CASE up /\ ~ (m + 1 < 2^p)
      <4>1. x = e + 1 /\ s.mant = 2^(p - 1)
        BY <2>5, <3>3
      <4>2. m + 1 = 2^p
        BY <2>4, <3>3
      <4>3. OneUlpChecked(p, m, e, rnd, neg)
              = IF e + 1 > emax THEN Overflow(p, rnd, neg, emax)
                ELSE Return(Num(neg, e + 1, 2^(p - 1), p), t, {})
        BY <2>4, <2>7, <3>3, <4>2 DEF OneUlpChecked, OneUlpAdded
      <4> QED
        BY <1>0, <2>2, <2>8, <3>3, <4>1, <4>3
    <3> QED
      BY <2>3, <3>1, <3>2, <3>3
  <2> QED
    BY <1>2, <2>9 DEF EndsWith
<1> QED
  BY <1>1, <1>2

\* At most the smallest exponent is passed, by exact results.
LEMMA RoundOverEnds ==
  ASSUME NEW p \in Nat, p > 0, NEW m, IsSignificand(m, p), NEW e \in Int, e <= emax,
         NEW rb \in BOOLEAN, NEW sb \in BOOLEAN, NEW rnd \in Rnds, NEW neg \in BOOLEAN,
         e < emin => ~ rb /\ ~ sb,
         (rb \/ sb) /\ m + 1 = 2^p => e < emax
  PROVE  EndsWith(RoundOver(p, m, e, rb, sb, rnd, neg), p, m, e, rb, sb, rnd, neg)
<1>0. emin \in Int /\ emax \in Int /\ emin <= emax
  BY RangeAssumption
<1>1. Signed(neg, Signed(neg, 0)) >= 0 /\ Signed(neg, 0) = 0
  BY SignedTwice
<1>2. CASE rnd = "RNDF"
  <2>1. RoundOver(p, m, e, rb, sb, rnd, neg)
          = IF e < emin THEN Underflow(p, "RNDF", neg, emin) ELSE Return(Num(neg, e, m, p), 0, {})
    BY <1>2 DEF RoundOver, SubUnderflow, RoundBits
  <2>2. CheckRange(Num(neg, e, m, p), 0, "RNDF", emin, emax)
          = IF e < emin THEN Underflow(p, "RNDF", neg, emin) ELSE Return(Num(neg, e, m, p), 0, {})
    BY <1>0 DEF CheckRange, Num
  <2> QED
    BY <1>2, <2>1, <2>2 DEF EndsWith
<1>3. CASE rnd # "RNDF"
  <2> DEFINE up == Up(m, rb, sb, rnd, neg)
             t == Signed(neg, Inexact(m, rb, sb, rnd, neg))
             s == Significand(m, p, Decision(up, 0))
             x == e + s.carry
  <2>1. rnd \in OneWay
    BY <1>3 DEF OneWay
  <2>2. RoundOver(p, m, e, rb, sb, rnd, neg)
          = IF e < emin THEN SubUnderflow(p, m, e, rnd, neg)
            ELSE IF up THEN OneUlpAdded(p, m, e, neg) ELSE Return(Num(neg, e, m, p), t, {})
    BY <2>1, RoundBitsIs DEF RoundOver, IsSignificand
  <2>3. up \in BOOLEAN
    BY DEF Up, IsLikeRNDZ
  <2>4. m \in Nat /\ m < 2^p /\ 2^p \in Nat
    BY PowNat DEF IsSignificand
  <2>5. /\ ~ up => s.mant = m /\ s.carry = 0
        /\ up /\ m + 1 < 2^p => s.mant = m + 1 /\ s.carry = 0
        /\ up /\ ~ (m + 1 < 2^p) => s.mant = 2^(p - 1) /\ s.carry = 1
    BY <2>3, <2>4 DEF Significand, Decision
  <2>6. s.carry \in {0, 1}
    BY <2>3, <2>5
  <2>7. up => t = Signed(neg, 1)
    BY DEF Inexact, Up
  <2>8. up => rb \/ sb
    BY DEF Up
  <2>9. ~ rb /\ ~ sb => t = 0
    BY <1>1 DEF Inexact
  <2> HIDE DEF up, t, s
  <2>10. CASE e < emin
    <3>1. ~ up /\ t = 0 /\ x = e /\ s.mant = m
      BY <2>3, <2>5, <2>8, <2>9, <2>10
    <3>2. Settled(p, m, e, rb, sb, rnd, neg) = CheckRange(Num(neg, e, m, p), 0, rnd, emin, emax)
      BY <3>1 DEF Settled, s, t, up
    <3>3. HalfwayToZero(Num(neg, e, m, p), 0, emin) <=> (e < emin - 1 \/ m = 2^(p - 1))
      BY <1>0, <1>1 DEF HalfwayToZero, Num, IsPowerof2Raw
    <3>4. CheckRange(Num(neg, e, m, p), 0, rnd, emin, emax) = SubUnderflow(p, m, e, rnd, neg)
      <4> DEFINE n == Num(neg, e, m, p)
                 half == HalfwayToZero(n, 0, emin)
      <4>1. n.kind = "num" /\ n.exp = e /\ n.prec = p /\ n.neg = neg
        BY DEF Num
      <4>2. CheckRange(n, 0, rnd, emin, emax)
              = Underflow(p, IF rnd = "RNDN" /\ half THEN "RNDZ" ELSE rnd, neg, emin)
        <5> HIDE DEF n
        <5> QED
          BY <1>0, <4>1, <2>10 DEF CheckRange
      <4>3. SubUnderflow(p, m, e, rnd, neg)
              = Underflow(p, IF rnd = "RNDN" /\ (e < emin - 1 \/ m = 2^(p - 1)) THEN "RNDZ" ELSE rnd,
                          neg, emin)
        BY DEF SubUnderflow
      <4> QED
        BY <3>3, <4>2, <4>3
    <3> QED
      BY <1>3, <2>2, <2>10, <3>2, <3>4 DEF EndsWith
  <2>11. CASE ~ (e < emin)
    <3>1. x <= emax
      <4>1. CASE s.carry = 0
        BY <4>1
      <4>2. CASE s.carry # 0
        <5>1. up /\ m + 1 = 2^p
          BY <2>3, <2>4, <2>5, <4>2
        <5>2. e < emax
          BY <2>8, <5>1
        <5> QED
          BY <1>0, <2>6, <5>2
      <4> QED
        BY <4>1, <4>2
    <3>2. Settled(p, m, e, rb, sb, rnd, neg) = Return(Num(neg, x, s.mant, p), t, {})
      BY <1>0, <2>6, <2>11, <3>1 DEF Settled, CheckRange, Num, s, t, up
    <3>3. CASE ~ up
      <4>1. x = e /\ s.mant = m
        BY <2>5, <3>3
      <4>2. RoundOver(p, m, e, rb, sb, rnd, neg) = Settled(p, m, e, rb, sb, rnd, neg)
        BY <2>2, <2>11, <3>2, <3>3, <4>1
      <4> QED
        BY <1>3, <4>2 DEF EndsWith
    <3>4. CASE up
      <4>1. OneUlpAdded(p, m, e, neg) = Return(Num(neg, x, s.mant, p), t, {})
        BY <2>4, <2>5, <2>7, <3>4 DEF OneUlpAdded
      <4>2. RoundOver(p, m, e, rb, sb, rnd, neg) = Settled(p, m, e, rb, sb, rnd, neg)
        BY <2>2, <2>11, <3>2, <3>4, <4>1
      <4> QED
        BY <1>3, <4>2 DEF EndsWith
    <3> QED
      BY <2>3, <3>3, <3>4
  <2> QED
    BY <2>10, <2>11
<1> QED
  BY <1>2, <1>3

-----------------------------------------------------------------------------
(* What a shift loses *)

\* The number lost L, out of w, and the limb low that stands for it, out of l: they are
\* alike for what a rounding looks at.
Alike(L, w, low, l) ==
  /\ L = 0 <=> low = 0
  /\ 2 * L > w <=> 2 * low > l
  /\ 2 * L = w <=> 2 * low = l

\* Half a limb.
LEMMA HighBitIs ==
  /\ W \in Nat /\ W >= 3 /\ W - 1 \in Nat
  /\ HighBit \in Nat /\ HighBit > 0 /\ 2^W = 2 * HighBit
  /\ \E h \in Nat : HighBit = 2 * h /\ h > 0 /\ h % 2 = 0
<1>1. W \in Nat /\ W >= 3 /\ W - 1 \in Nat /\ W - 2 \in Nat /\ W - 3 \in Nat
  BY RoundingAssumption, LimbAssumption
<1>2. 2^W = 2 * 2^(W - 1) /\ HighBit \in Nat /\ HighBit > 0
  BY <1>1, PowHalf, PowNat DEF HighBit
<1>3. 2^(W - 1) = 2 * 2^(W - 2) /\ 2^(W - 2) \in Nat /\ 2^(W - 2) > 0
  <2>1. W - 1 \in Nat /\ W - 1 # 0 /\ (W - 1) - 1 = W - 2
    BY <1>1
  <2> QED
    BY <1>1, <2>1, PowHalf, PowNat
<1>4. 2^(W - 2) = 2 * 2^(W - 3) /\ 2^(W - 3) \in Nat
  <2>1. W - 2 \in Nat /\ W - 2 # 0 /\ (W - 2) - 1 = W - 3
    BY <1>1
  <2> QED
    BY <1>1, <2>1, PowHalf, PowNat
<1>5. 2^(W - 2) % 2 = 0
  BY <1>4
<1> QED
  BY <1>1, <1>2, <1>3, <1>5 DEF HighBit

\* A number cut twice.
CutTwice(C, v, w, Q, a, b) ==
  /\ C = (Q * w + a) * v + b
  /\ a < w /\ b < v

\* Every number can be cut so.
LEMMA CutTwiceExists ==
  ASSUME NEW C \in Nat, NEW v \in Nat, v > 0, NEW w \in Nat, w > 0
  PROVE  \E Q \in Nat, a \in Nat, b \in Nat : CutTwice(C, v, w, Q, a, b)
<1>1. PICK t \in Nat, b \in Nat : C = t * v + b /\ b < v
  BY DivModExists
<1>2. PICK Q \in Nat, a \in Nat : t = Q * w + a /\ a < w
  BY DivModExists
<1> QED
  BY <1>1, <1>2 DEF CutTwice

\* What the divisions of C give.
LEMMA CutTwiceIs ==
  ASSUME NEW C \in Nat, NEW v \in Nat, v > 0, NEW w \in Nat, w > 0, NEW V \in Nat, IsProduct(V, w, v),
         NEW Q \in Nat, NEW a \in Nat, NEW b \in Nat, CutTwice(C, v, w, Q, a, b)
  PROVE  /\ C % v = b /\ C \div v = Q * w + a
         /\ C % V = a * v + b /\ C \div V = Q
         /\ (C % V) \div v = a /\ (C % V) % v = b
         /\ (C \div v) % w = a
         /\ a * v + b < V
<1>1. C = (Q * w + a) * v + b /\ a < w /\ b < v
  BY DEF CutTwice
<1>2. C % v = b /\ C \div v = Q * w + a
  <2>1. Q * w + a \in Int
    OBVIOUS
  <2> QED
    BY <1>1, <2>1, DivModUnique
<1>3. a * v + b \in Nat /\ a * v + b < w * v
  <2>1. (a + 1) * v <= w * v
    BY <1>1, MulMono
  <2> QED
    BY <1>1, <2>1
<1>4. V = w * v
  BY DEF IsProduct
<1>5. C % V = a * v + b /\ C \div V = Q
  <2>1. C = Q * (w * v) + (a * v + b)
    BY <1>1
  <2>2. V > 0
    BY <1>3, <1>4
  <2> QED
    BY <1>3, <1>4, <2>1, <2>2, DivModUnique
<1>6. (a * v + b) \div v = a /\ (a * v + b) % v = b
  BY <1>1, <1>3, DivModUnique
<1>7. (Q * w + a) % w = a
  BY <1>1, DivModUnique
<1> QED
  BY <1>2, <1>3, <1>5, <1>6, <1>7, <1>4

\* The first bits of what is lost, with the sticky bit of the others, are like it.
LEMMA StickyAlike ==
  ASSUME NEW a \in Nat, NEW b \in Nat, NEW v \in Nat, b < v, NEW h \in Nat, NEW g \in Nat, g > 0,
         NEW H2 \in Nat, h * g = 2 * H2
  PROVE  /\ Sticky(a * g, b # 0) \in Nat
         /\ Alike(a * v + b, 2 * (h * v), Sticky(a * g, b # 0), 2 * (h * g))
<1> DEFINE low == Sticky(a * g, b # 0)
           L == a * v + b
<1>0. a * g \in Nat /\ a * v \in Nat /\ h * v \in Nat
  OBVIOUS
<1>1. low = IF b # 0 /\ (a * g) % 2 = 0 THEN a * g + 1 ELSE a * g
  BY DEF Sticky
<1>2. CASE a = h
  <2>1. (a * g) % 2 = 0 /\ a * g = h * g /\ a * v = h * v
    BY <1>2
  <2>2. low = IF b # 0 THEN h * g + 1 ELSE h * g
    BY <1>1, <2>1
  <2>3. L = h * v + b
    BY <2>1
  <2>4. h * v = 0 <=> h * g = 0
    BY <1>0
  <2> HIDE DEF low, L
  <2> QED
    BY <1>0, <2>2, <2>3, <2>4 DEF Alike, low, L
<1>3. CASE a < h
  <2>1. (a + 1) * g <= h * g /\ (a + 1) * v <= h * v
    BY <1>3, MulMono
  <2>2. a * g + g <= h * g /\ a * v + v <= h * v
    BY <2>1
  <2>3. L < h * v
    BY <1>0, <2>2
  <2>4. low < h * g
    <3>1. CASE b # 0 /\ (a * g) % 2 = 0
      BY <1>0, <1>1, <2>2, <3>1
    <3>2. CASE ~ (b # 0 /\ (a * g) % 2 = 0)
      BY <1>0, <1>1, <2>2, <3>2
    <3> QED
      BY <3>1, <3>2
  <2>5. L = 0 <=> low = 0
    <3>1. a * g = 0 <=> a = 0
      OBVIOUS
    <3>2. a * v = 0 <=> a = 0
      OBVIOUS
    <3> QED
      BY <1>0, <1>1, <3>1, <3>2
  <2>6. low \in Nat /\ L \in Nat
    BY <1>0, <1>1
  <2> HIDE DEF low, L
  <2> QED
    BY <1>0, <2>3, <2>4, <2>5, <2>6 DEF Alike, low, L
<1>4. CASE a > h
  <2>1. (h + 1) * g <= a * g /\ (h + 1) * v <= a * v
    BY <1>4, MulMono
  <2>2. h * g + g <= a * g /\ h * v + v <= a * v
    BY <2>1
  <2>3. L > h * v
    BY <1>0, <2>2
  <2>4. low > h * g
    BY <1>0, <1>1, <2>2
  <2>5. low \in Nat /\ L \in Nat /\ h * g \in Nat
    BY <1>0, <1>1
  <2> HIDE DEF low, L
  <2> QED
    BY <1>0, <2>3, <2>4, <2>5 DEF Alike, low, L
<1>5. low \in Nat
  BY <1>0, <1>1
<1> QED
  BY <1>2, <1>3, <1>4, <1>5


\* The sticky bit is in the limb.
LEMMA StickyBelow ==
  ASSUME NEW x \in Nat, NEW k \in Nat, x < 2 * k, NEW s
  PROVE  Sticky(x, s) \in Nat /\ Sticky(x, s) < 2 * k
  BY DEF Sticky

\* low is x with the sticky bit of b; low, out of K, is alike L, out of V.
IsSticky(low, x, b) == low = Sticky(x, b # 0)
Stands(low, K, L, V) == low \in Nat /\ low < K /\ Alike(L, V, low, K)

\* The same when w and its products are seen as numbers of their own.
LEMMA StickyStands ==
  ASSUME NEW w \in Nat, NEW h \in Nat, IsProduct(w, 2, h), NEW g \in Nat, g > 0,
         NEW a \in Nat, NEW b \in Nat, NEW v \in Nat, NEW L, IsQuotient(L, v, a, b), a < w,
         NEW V \in Nat, IsProduct(V, w, v), NEW K \in Nat, IsProduct(K, w, g),
         NEW H2 \in Nat, IsProduct(K, 4, H2),
         NEW x \in Nat, IsProduct(x, a, g), NEW low, IsSticky(low, x, b)
  PROVE  Stands(low, K, L, V)
<1>1. w = 2 * h /\ V = w * v /\ K = w * g /\ K = 4 * H2 /\ x = a * g
  BY DEF IsProduct
<1>2. h * g = 2 * H2
  BY <1>1
<1>3. b < v /\ L = a * v + b
  BY DEF IsQuotient
<1>4. Alike(a * v + b, 2 * (h * v), Sticky(a * g, b # 0), 2 * (h * g))
  BY <1>3, <1>2, StickyAlike
<1>5. 2 * (h * v) = V /\ 2 * (h * g) = K
  BY <1>1
<1>6. Alike(a * v + b, V, Sticky(a * g, b # 0), K)
  BY <1>4, <1>5
<1>7. x < 2 * (2 * H2)
  <2>1. (a + 1) * g <= w * g
    BY MulMono
  <2> QED
    BY <1>1, <2>1
<1>8. Sticky(x, b # 0) \in Nat /\ Sticky(x, b # 0) < 2 * (2 * H2)
  <2>1. PICK k \in Nat : k = 2 * H2
    OBVIOUS
  <2>2. x < 2 * k
    BY <1>7, <2>1
  <2>3. Sticky(x, b # 0) \in Nat /\ Sticky(x, b # 0) < 2 * k
    BY <2>2, StickyBelow
  <2> QED
    BY <2>1, <2>3
<1>9. Alike(a * v + b, V, Sticky(x, b # 0), K)
  BY <1>1, <1>6
<1> QED
  BY <1>3, <1>1, <1>8, <1>9 DEF Stands, IsSticky

\* Powers of 2, as numbers of their own.
LEMMA PowerExists ==
  ASSUME NEW n \in Nat
  PROVE  \E x \in Nat : Power(x, n) /\ x > 0
  BY PowNat DEF Power

\* The power of a sum is a product.
LEMMA PowerProduct ==
  ASSUME NEW m \in Nat, NEW n \in Nat, NEW k, k = m + n,
         NEW x, Power(x, m), NEW y, Power(y, n), NEW z, Power(z, k)
  PROVE  IsProduct(z, x, y)
  BY PowAdd DEF Power, IsProduct

\* A positive power of 2 is even.
LEMMA PowerEven ==
  ASSUME NEW n \in Nat, n > 0, NEW x, Power(x, n)
  PROVE  \E h \in Nat : Power(h, n - 1) /\ IsProduct(x, 2, h) /\ h > 0
<1>1. n - 1 \in Nat /\ 2^n = 2 * 2^(n - 1) /\ 2^(n - 1) \in Nat /\ 2^(n - 1) > 0
  BY PowHalf, PowNat
<1> QED
  BY <1>1 DEF Power, IsProduct

\* A limb.
LEMMA LimbIs ==
  \E K \in Nat, h \in Nat, h2 \in Nat :
     /\ Power(K, W) /\ IsProduct(K, 2, h) /\ h = HighBit
     /\ IsProduct(h, 2, h2) /\ IsProduct(K, 4, h2) /\ h2 > 0
<1>1. W \in Nat /\ W >= 3 /\ HighBit \in Nat /\ HighBit > 0 /\ 2^W = 2 * HighBit
  BY HighBitIs
<1>2. PICK h2 \in Nat : HighBit = 2 * h2 /\ h2 > 0
  BY HighBitIs
<1>3. PICK K \in Nat, h \in Nat : K = 2^W /\ h = HighBit
  BY <1>1
<1>4. Power(K, W)
  BY <1>3 DEF Power
<1>5. IsProduct(K, 2, h) /\ IsProduct(h, 2, h2) /\ IsProduct(K, 4, h2)
  BY <1>1, <1>2, <1>3 DEF IsProduct
<1> QED
  BY <1>2, <1>3, <1>4, <1>5

\* The limb that stands for what a shift of d bits loses is alike what is lost.
LEMMA LostWholeLimb ==
  ASSUME NEW C \in Nat, NEW q \in Nat, q > 0, NEW d \in Nat, d = q * W
  PROVE  LET low == Sticky(Limb(C, q - 1), C % 2^((q - 1) * W) # 0)
         IN low \in Nat /\ low < 2^W /\ Alike(C % 2^d, 2^d, low, 2^W)
<1>1. W \in Nat
  BY HighBitIs
<1>2. PICK K \in Nat, h \in Nat, h2 \in Nat :
        Power(K, W) /\ IsProduct(K, 2, h) /\ IsProduct(K, 4, h2) /\ h2 > 0
  BY LimbIs
<1>3. K > 0
  BY <1>2 DEF IsProduct
<1>4. PICK k \in Nat : k = (q - 1) * W
  BY <1>1
<1>5. k + W = d /\ ((q - 1) + 1) * W = d /\ d = W + k
  BY <1>1, <1>4
<1>6. PICK v \in Nat : Power(v, k) /\ v > 0
  BY PowerExists
<1>7. PICK V \in Nat : Power(V, d) /\ V > 0
  BY PowerExists
<1>8. IsProduct(V, K, v)
  BY <1>1, <1>2, <1>5, <1>6, <1>7, PowerProduct
<1>9. PICK Q \in Nat, a \in Nat, b \in Nat : CutTwice(C, v, K, Q, a, b)
  BY <1>3, <1>6, CutTwiceExists
<1>10. C % v = b /\ C % V = a * v + b /\ (C % V) \div v = a
  BY <1>3, <1>6, <1>8, <1>9, CutTwiceIs
<1>11. b < v /\ a < K
  BY <1>9 DEF CutTwice
<1>12. Limb(C, q - 1) = a /\ C % 2^((q - 1) * W) = b /\ 2^d = V /\ 2^W = K
  <2>1. 2^d = V /\ 2^W = K /\ 2^k = v
    BY <1>2, <1>6, <1>7 DEF Power
  <2> QED
    BY <2>1, <1>4, <1>5, <1>10 DEF Limb, Bits
<1>13. PICK low : IsSticky(low, a, b)
  BY DEF IsSticky
<1>14. PICK L \in Nat : L = a * v + b
  OBVIOUS
<1>15. Stands(low, K, L, V)
  <2>1. IsProduct(K, K, 1) /\ IsProduct(a, a, 1) /\ 1 \in Nat /\ 1 > 0
    BY DEF IsProduct
  <2>2. IsQuotient(L, v, a, b)
    BY <1>6, <1>11, <1>14 DEF IsQuotient
  <2> QED
    BY <1>2, <1>8, <1>11, <1>13, <2>1, <2>2, StickyStands
<1> QED
  BY <1>10, <1>12, <1>13, <1>15, <1>14 DEF IsSticky, Stands

\* The limb that is cut, when the cut is inside it.
LEMMA LostPartOfLimb ==
  ASSUME NEW C \in Nat, NEW q \in Nat, NEW r \in Nat, r > 0, r < W, NEW d \in Nat, d = q * W + r
  PROVE  LET low == Sticky((Limb(C, q) % 2^r) * 2^(W - r), C % 2^(q * W) # 0)
         IN low \in Nat /\ low < 2^W /\ Alike(C % 2^d, 2^d, low, 2^W)
<1>1. W \in Nat /\ W - r \in Nat /\ W = r + (W - r)
  BY HighBitIs
<1>2. PICK K \in Nat, h2 \in Nat : Power(K, W) /\ IsProduct(K, 4, h2) /\ h2 > 0
  BY LimbIs
<1>3. K > 0
  BY <1>2 DEF IsProduct
<1>4. PICK k \in Nat : k = q * W /\ d = r + k /\ (q + 1) * W = W + k
  BY <1>1
<1>5. PICK v \in Nat : Power(v, k) /\ v > 0
  BY PowerExists
<1>6. PICK w \in Nat : Power(w, r) /\ w > 0
  BY PowerExists
<1>7. PICK g \in Nat : Power(g, W - r) /\ g > 0
  BY <1>1, PowerExists
<1>8. PICK V \in Nat : Power(V, d) /\ V > 0
  BY PowerExists
<1>9. IsProduct(K, w, g)
  BY <1>1, <1>2, <1>6, <1>7, PowerProduct
<1>10. IsProduct(V, w, v)
  BY <1>4, <1>5, <1>6, <1>8, PowerProduct
<1>11. PICK h \in Nat : IsProduct(w, 2, h)
  BY <1>6, PowerEven
<1>12. PICK Q \in Nat, a \in Nat, b \in Nat : CutTwice(C, v, w, Q, a, b)
  BY <1>5, <1>6, CutTwiceExists
<1>13. C % v = b /\ C % V = a * v + b /\ C \div v = Q * w + a
  BY <1>5, <1>6, <1>10, <1>12, CutTwiceIs
<1>14. b < v /\ a < w
  BY <1>12 DEF CutTwice
<1>15. PICK t \in Nat : t = Limb(C, q) /\ t % w = a
  <2>1. PICK T \in Nat, t \in Nat, c \in Nat : CutTwice(C, v, K, T, t, c)
    BY <1>3, <1>5, CutTwiceExists
  <2>2. PICK U \in Nat : Power(U, (q + 1) * W)
    BY <1>1, <1>4, PowerExists
  <2>3. IsProduct(U, K, v)
    <3>1. Power(U, W + k)
      BY <1>4, <2>2
    <3> QED
      BY <1>1, <1>2, <1>5, <3>1, PowerProduct
  <2>4. (C % U) \div v = t /\ C \div v = T * K + t
    BY <1>3, <1>5, <2>1, <2>3, CutTwiceIs
  <2>5. Limb(C, q) = t
    BY <1>4, <1>5, <2>2, <2>4 DEF Limb, Bits, Power
  <2>6. PICK j \in Nat, i \in Nat : t = j * w + i /\ i < w
    BY <1>6, DivModExists
  <2>7. (T * g + j) * w + i = Q * w + a
    <3>1. K = w * g
      BY <1>9 DEF IsProduct
    <3>2. T * K + t = Q * w + a
      BY <1>13, <2>4
    <3> QED
      BY <2>6, <3>1, <3>2
  <2>8. i = a
    <3>1. PICK x \in Nat : x = T * g + j
      OBVIOUS
    <3>2. x * w + i = Q * w + a
      BY <2>7, <3>1
    <3> QED
      BY <1>14, <2>6, <3>2, SameDivision
  <2>9. t % w = i
    BY <1>6, <2>6, DivModUnique
  <2> QED
    BY <2>5, <2>8, <2>9
<1>16. PICK x \in Nat, L \in Nat : IsProduct(x, a, g) /\ L = a * v + b
  BY DEF IsProduct
<1>17. PICK low : IsSticky(low, x, b)
  BY DEF IsSticky
<1>18. Stands(low, K, L, V)
  <2>1. IsQuotient(L, v, a, b)
    BY <1>5, <1>14, <1>16 DEF IsQuotient
  <2> QED
    BY <1>2, <1>7, <1>9, <1>10, <1>11, <1>14, <1>16, <1>17, <2>1, StickyStands
<1>19. x = a * g
  BY <1>16 DEF IsProduct
<1>20. 2^r = w /\ 2^(W - r) = g /\ 2^(q * W) = v /\ 2^d = V /\ 2^W = K
  BY <1>2, <1>4, <1>5, <1>6, <1>7, <1>8 DEF Power
<1> QED
  BY <1>13, <1>15, <1>16, <1>18, <1>20, <1>19, <1>17 DEF IsSticky, Stands

\* LostLimb is like what is lost, for every array and every shift.
LEMMA LostIs ==
  ASSUME NEW C \in Nat, NEW d \in Nat, d > 0
  PROVE  /\ LostLimb(C, d) \in Nat /\ LostLimb(C, d) < 2^W
         /\ Alike(C % 2^d, 2^d, LostLimb(C, d), 2^W)
<1>1. W \in Nat /\ W > 0
  BY HighBitIs
<1>2. PICK q \in Nat, r \in Nat : q = d \div W /\ r = d % W /\ d = q * W + r /\ r < W
  BY <1>1, DivModExists
<1>3. CASE r = 0
  <2>1. q > 0 /\ d = q * W
    BY <1>1, <1>2, <1>3
  <2>2. LostLimb(C, d) = Sticky(Limb(C, q - 1), C % 2^((q - 1) * W) # 0)
    BY <1>2, <1>3 DEF LostLimb
  <2> QED
    BY <2>1, <2>2, LostWholeLimb
<1>4. CASE r # 0
  <2>1. LostLimb(C, d) = Sticky((Limb(C, q) % 2^r) * 2^(W - r), C % 2^(q * W) # 0)
    BY <1>2, <1>4 DEF LostLimb
  <2> QED
    BY <1>2, <1>4, <2>1, LostPartOfLimb
<1> QED
  BY <1>3, <1>4

-----------------------------------------------------------------------------
(* From the units of the code to those of the exact result *)

\* A product is compared as its factor is.
LEMMA Factor ==
  ASSUME NEW a \in Int, NEW b \in Int, NEW v \in Nat, v > 0
  PROVE  /\ a * v < b * v <=> a < b
         /\ a * v = b * v <=> a = b
  BY MulCancel, MulMono

\* The order of two numbers does not depend on the unit.
LEMMA SameOrder ==
  ASSUME NEW r \in Int, NEW E \in Int, NEW S \in Nat, S > 0, NEW R \in Int, NEW U \in Int,
         NEW G \in Nat, G > 0, r * S = R * G, E * S = U * G
  PROVE  /\ r < E <=> R < U
         /\ r = E <=> R = U
<1>1. r * S < E * S <=> r < E
  BY Factor
<1>2. r * S = E * S <=> r = E
  BY Factor
<1>3. R * G < U * G <=> R < U
  BY Factor
<1>4. R * G = U * G <=> R = U
  BY Factor
<1>5. PICK x \in Int, y \in Int : x = r * S /\ x = R * G /\ y = E * S /\ y = U * G
  OBVIOUS
<1> QED
  BY <1>1, <1>2, <1>3, <1>4, <1>5

\* The bits of a remainder do not depend on the unit.
LEMMA BitsScaled ==
  ASSUME NEW r \in Int, NEW E \in Nat, NEW S \in Nat, S > 0, NEW R \in Nat, NEW U \in Nat,
         NEW G \in Nat, G > 0, r * S = R * G, E * S = U * G, R < U,
         NEW rb, NEW sb, BitsOf(R, U, rb, sb)
  PROVE  r \in Nat /\ r < E /\ BitsOf(r, E, rb, sb)
<1>1. r < E <=> R < U
  BY SameOrder
<1>2. 2 * r < E <=> 2 * R < U
  <2>1. (2 * r) * S = (2 * R) * G
    OBVIOUS
  <2> QED
    BY <2>1, SameOrder
<1>3. 2 * r = E <=> 2 * R = U
  <2>1. (2 * r) * S = (2 * R) * G
    OBVIOUS
  <2> QED
    BY <2>1, SameOrder
<1>4. (r < 0 <=> R < 0) /\ (r = 0 <=> R = 0)
  <2>1. 0 * S = 0 * G
    OBVIOUS
  <2> QED
    BY <2>1, SameOrder
<1> QED
  BY <1>1, <1>2, <1>3, <1>4 DEF BitsOf

\* The exact result is T * 2^(g - p) and the code divides T * 2^k by 2^u.
LEMMA UnitsRound ==
  ASSUME NEW p \in Nat, p > 0, NEW T \in Nat, NEW g \in Nat, p <= g, NEW X, X = T * 2^(g - p),
         NEW e \in Nat, e > 0, NEW k \in Nat, NEW u \in Nat, e + k = u + g,
         NEW S \in Nat, Power(S, k), NEW U \in Nat, Power(U, u), NEW F, IsProduct(F, T, S),
         NEW m, IsSignificand(m, p), NEW R \in Nat, IsQuotient(F, U, m, R),
         NEW rb, NEW sb, BitsOf(R, U, rb, sb)
  PROVE  RoundsFrom(X, p, e, m, rb, sb)
<1>1. g - p \in Nat /\ g = (g - p) + p
  OBVIOUS
<1>2. PICK H \in Nat : Power(H, g - p)
  BY <1>1, PowerExists
<1>3. PICK P \in Nat : Power(P, p)
  BY PowerExists
<1>4. PICK G \in Nat : Power(G, g) /\ G > 0
  BY PowerExists
<1>5. PICK E \in Nat : Power(E, e) /\ E > 0
  BY PowerExists
<1>6. G = H * P
  <2>1. IsProduct(G, H, P)
    BY <1>1, <1>2, <1>3, <1>4, PowerProduct
  <2> QED
    BY <2>1 DEF IsProduct
<1>7. E * S = U * G
  <2>1. PICK n \in Nat : n = e + k /\ n = u + g
    OBVIOUS
  <2>2. PICK Z \in Nat : Power(Z, n)
    BY PowerExists
  <2>3. IsProduct(Z, E, S)
    BY <1>5, <2>1, <2>2, PowerProduct
  <2>4. IsProduct(Z, U, G)
    BY <1>4, <2>1, <2>2, PowerProduct
  <2> QED
    BY <2>3, <2>4 DEF IsProduct
<1>8. S > 0
  BY PowNat DEF Power
<1>9. F = T * S /\ F = m * U + R /\ R < U /\ m \in Nat
  BY DEF IsProduct, IsQuotient, IsSignificand
<1>10. X = T * H /\ X \in Nat
  BY <1>2 DEF Power
<1>11. (X * P) * S = F * G
  <2>1. (X * P) * S = ((T * H) * P) * S
    BY <1>10
  <2>2. ((T * H) * P) * S = (T * S) * (H * P)
    OBVIOUS
  <2> QED
    BY <1>6, <1>9, <2>1, <2>2
<1>12. F * G = m * (U * G) + R * G
  BY <1>9
<1>13. PICK r \in Int : r = X * P - m * E
  BY <1>9, <1>10
<1>14. r * S = R * G
  <2>1. (m * E) * S = m * (E * S)
    BY <1>9
  <2>2. (m * E) * S = m * (U * G)
    BY <1>7, <2>1
  <2>3. r * S = (X * P) * S - (m * E) * S
    BY <1>9, <1>10, <1>13
  <2>4. PICK y \in Int, z \in Int : y = m * (U * G) /\ z = R * G
    BY <1>9
  <2>5. r * S = (y + z) - y
    BY <1>11, <1>12, <2>2, <2>3, <2>4
  <2> QED
    BY <2>4, <2>5
<1>15. r \in Nat /\ r < E /\ BitsOf(r, E, rb, sb)
  BY <1>4, <1>7, <1>8, <1>9, <1>14, BitsScaled
<1>16. X * P = m * E + r
  BY <1>9, <1>10, <1>13
<1>17. X * 2^p = m * 2^e + r /\ r < 2^e /\ BitsOf(r, 2^e, rb, sb)
  BY <1>3, <1>5, <1>15, <1>16 DEF Power
<1> QED
  BY <1>10, <1>15, <1>17 DEF RoundsFrom

\* What is below a bit of a number, and the bits lost below the number itself.
LEMMA BitsBelow ==
  ASSUME NEW s \in Nat, NEW v \in Nat, v > 0, NEW D \in Nat, NEW L \in Nat, L < D,
         NEW w \in Nat, IsProduct(w, 2, v), NEW U \in Nat, IsProduct(U, w, D)
  PROVE  /\ (s % w) * D + L \in Nat /\ (s % w) * D + L < U
         /\ BitsOf((s % w) * D + L, U, (s \div v) % 2 = 1, s % v # 0 \/ L # 0)
<1>1. w = 2 * v /\ U = w * D /\ w > 0
  BY DEF IsProduct
<1>2. PICK Q \in Nat, a \in Nat, b \in Nat : CutTwice(s, v, 2, Q, a, b)
  <2>1. PICK two \in Nat : two = 2 /\ two > 0
    OBVIOUS
  <2>2. \E Q \in Nat, a \in Nat, b \in Nat : CutTwice(s, v, two, Q, a, b)
    BY <2>1, CutTwiceExists
  <2> QED
    BY <2>1, <2>2
<1>3. s % v = b /\ (s \div v) % 2 = a /\ s % w = a * v + b
  BY <1>2, CutTwiceIs
<1>4. a < 2 /\ b < v
  BY <1>2 DEF CutTwice
<1>5. b * D \in Nat /\ v * D \in Nat /\ b * D + L < v * D
  <2>1. (b + 1) * D <= v * D
    BY <1>4, MulMono
  <2> QED
    BY <1>4, <2>1
<1>6. b * D + L = 0 <=> (b = 0 /\ L = 0)
  BY <1>4
<1>7. U = 2 * (v * D)
  BY <1>1
<1>8. PICK y \in Nat, V \in Nat : y = b * D + L /\ V = v * D
  BY <1>5
<1>9. y < V /\ U = 2 * V /\ (y = 0 <=> (b = 0 /\ L = 0))
  BY <1>5, <1>6, <1>7, <1>8
<1>10. PICK z \in Nat : z = (s % w) * D + L /\ z = a * V + y
  <2>1. (s % w) * D + L = a * (v * D) + (b * D + L)
    BY <1>3
  <2>2. (s % w) * D + L = a * V + y
    BY <1>8, <2>1
  <2>3. a * V + y \in Nat
    OBVIOUS
  <2> QED
    BY <2>2, <2>3
<1>11. z < U /\ BitsOf(z, U, a = 1, b # 0 \/ L # 0)
  <2>1. CASE a = 0
    <3>1. z = y
      BY <1>10, <2>1
    <3> QED
      BY <1>9, <2>1, <3>1 DEF BitsOf
  <2>2. CASE a = 1
    <3>1. z = V + y
      BY <1>10, <2>2
    <3> QED
      BY <1>9, <2>2, <3>1 DEF BitsOf
  <2> QED
    BY <1>4, <2>1, <2>2
<1> QED
  BY <1>3, <1>10, <1>11, Zenon


\* The unit of a sum of products.
LEMMA Regroup ==
  ASSUME NEW a \in Nat, NEW b \in Nat, NEW c \in Nat, NEW v \in Nat
  PROVE  (a * b + c) * v = a * (b * v) + c * v
  OBVIOUS

\* A number of p bits of the exponent range.
IsOperand(x, p) ==
  /\ x.kind = "num" /\ x.neg \in BOOLEAN /\ x.prec = p
  /\ x.exp \in Int /\ emin <= x.exp /\ x.exp <= emax
  /\ IsSignificand(x.mant, p)

\* Two of them, of exponents d apart, in units of which there are 2^sc in 1.
Apart(x, y, p, d, sc) ==
  /\ IsOperand(x, p) /\ IsOperand(y, p)
  /\ p \in Nat /\ p > 0 /\ d \in Nat /\ x.exp = y.exp + d
  /\ sc \in Nat /\ p <= emin + sc

\* T is counted in units of the last bit of y, a number of p bits.
ExactAt(T, y, p, sc) == T * 2^((y.exp + sc) - p)

\* The code divides s, of which L out of D is lost, by w: T is counted in units of which there
\* are S in one of the code's, m is the quotient and R what is below it, out of U.
Kept(m, R, s, w, D, L) == m = s \div w /\ R = (s % w) * D + L
Divided(T, S, s, D, L, w, U, m, R) ==
  L < D /\ T * S = s * D + L /\ IsProduct(U, w, D) /\ Kept(m, R, s, w, D, L)

\* The exponent e of the quotient, and the n bits of w.
At(e, n, x, carry, sc, k) == e = x.exp + carry + sc /\ e > 0 /\ n = carry + k

\* The exact result is then rounded from m and the bits of R.
LEMMA ExactRounds ==
  ASSUME NEW x, NEW y, NEW p, NEW d, NEW sc, Apart(x, y, p, d, sc), NEW T \in Nat,
         NEW k \in Nat, NEW S \in Nat, Power(S, k), NEW D \in Nat, Power(D, d),
         NEW s \in Nat, NEW L \in Nat, NEW w \in Nat, NEW U \in Nat, NEW m, NEW R,
         Divided(T, S, s, D, L, w, U, m, R),
         NEW carry \in Int, NEW n \in Nat, NEW e, At(e, n, x, carry, sc, k), Power(w, n),
         IsSignificand(m, p), NEW rb, NEW sb, BitsOf(R, U, rb, sb)
  PROVE  RoundsFrom(ExactAt(T, y, p, sc), p, e, m, rb, sb)
<1>0. /\ L < D /\ T * S = s * D + L /\ IsProduct(U, w, D) /\ m = s \div w
      /\ n = carry + k /\ e = x.exp + carry + sc /\ e > 0
  BY DEF Divided, At, Kept
<1>1. /\ p \in Nat /\ p > 0 /\ d \in Nat /\ x.exp \in Int /\ y.exp \in Int /\ x.exp = y.exp + d
      /\ sc \in Nat /\ emin <= y.exp /\ p <= emin + sc
  BY DEF Apart, IsOperand
<1>2. emin \in Int
  BY RangeAssumption
<1>3. PICK g \in Nat : g = y.exp + sc /\ p <= g
  BY <1>1, <1>2
<1>4. PICK u \in Nat : u = n + d
  BY <1>1
<1>5. e \in Nat /\ e + k = u + g
  BY <1>0, <1>1, <1>3, <1>4
<1>6. Power(U, u)
  <2>1. PICK V \in Nat : Power(V, u)
    BY PowerExists
  <2>2. IsProduct(V, w, D)
    BY <1>1, <1>4, <2>1, PowerProduct
  <2> QED
    BY <1>0, <2>1, <2>2 DEF IsProduct
<1>7. w > 0
  BY PowNat DEF Power
<1>8. PICK F \in Nat : IsProduct(F, T, S)
  BY DEF IsProduct
<1>9. R \in Nat /\ R = (s % w) * D + L
  <2>1. s % w \in Nat
    BY <1>7, DivModExists
  <2> QED
    BY <2>1 DEF Divided, Kept
<1>10. m \in Nat /\ s = m * w + (s % w) /\ s % w \in Nat /\ s % w < w
  BY <1>0, <1>7, DivModExists
<1>11. IsQuotient(F, U, m, R)
  <2>1. U = w * D /\ F = s * D + L
    BY <1>0, <1>8 DEF IsProduct
  <2>2. PICK t \in Nat : t = s % w /\ t < w /\ s = m * w + t /\ R = t * D + L
    BY <1>9, <1>10
  <2>3. s * D = (m * w + t) * D
    BY <2>2
  <2>4. F = m * U + R
    <3>1. (m * w + t) * D = m * (w * D) + t * D
      <4>1. PICK i \in Nat : i = m
        BY <1>10
      <4>2. (i * w + t) * D = i * (w * D) + t * D
        BY Regroup
      <4> QED
        BY <4>1, <4>2, Zenon
    <3>2. PICK z \in Nat, o \in Nat : z = m * U /\ o = t * D
      BY <1>10
    <3>3. s * D = z + o
      BY <2>1, <2>3, <3>1, <3>2, Zenon
    <3>4. F = (z + o) + L /\ R = o + L
      BY <2>1, <2>2, <3>2, <3>3, Zenon
    <3> QED
      BY <3>2, <3>4
  <2>5. R < U /\ U > 0
    <3>1. (t + 1) * D <= w * D
      BY <2>2, MulMono
    <3> QED
      BY <1>0, <2>1, <2>2, <3>1
  <2> QED
    BY <2>4, <2>5 DEF IsQuotient
<1>12. PICK X : X = T * 2^(g - p)
  OBVIOUS
<1>13. RoundsFrom(X, p, e, m, rb, sb)
  BY <1>0, <1>1, <1>3, <1>5, <1>6, <1>8, <1>9, <1>11, <1>12, UnitsRound
<1> QED
  BY <1>3, <1>12, <1>13 DEF ExactAt

-----------------------------------------------------------------------------
(* mpfr_add1sp1, mpfr_add1sp2, mpfr_add1sp3 *)

\* The bits of the last limb that are not used.
LEMMA MinusModuloIs ==
  ASSUME NEW p \in Nat, NEW n \in Nat, NEW s \in Nat, s < W, n * W = p + s
  PROVE  MinusModulo(p) = s
<1>1. W \in Nat /\ W > 0
  BY HighBitIs
<1>2. PICK X \in Int, q \in Int : X = -p /\ q = -n /\ X = q * W + s
  BY <1>1
<1>3. X % W = s
  BY <1>1, <1>2, DivModUnique
<1> QED
  BY <1>2, <1>3, Zenon DEF MinusModulo

\* The code looks at the bits of s below w once it has shifted it by the carry.
SameBits(s, c, S, h, v, w) ==
  LET a == s \div c
  IN /\ a \div S = s \div w
     /\ (a % S) \div h = 1 <=> (s \div v) % 2 = 1
     /\ s % v # 0 <=> (s % c # 0 \/ a % h # 0)

\* The bits of s once it is moved down by c, seen in s.
LEMMA ShiftedBits ==
  ASSUME NEW s \in Nat, NEW c \in Nat, c > 0, NEW S \in Nat, NEW h \in Nat, h > 0,
         IsProduct(S, 2, h), NEW v \in Nat, IsProduct(v, h, c), NEW w \in Nat, IsProduct(w, S, c)
  PROVE  SameBits(s, c, S, h, v, w) /\ IsProduct(w, 2, v) /\ v > 0
<1>1. S = 2 * h /\ v = h * c /\ w = S * c /\ S > 0
  BY DEF IsProduct
<1>2. PICK Q \in Nat, i \in Nat, l \in Nat : CutTwice(s \div c, h, 2, Q, i, l)
  <2>1. PICK two \in Nat : two = 2 /\ two > 0
    OBVIOUS
  <2>2. s \div c \in Nat
    BY DivModExists
  <2>3. \E Q \in Nat, i \in Nat, l \in Nat : CutTwice(s \div c, h, two, Q, i, l)
    BY <2>1, <2>2, CutTwiceExists
  <2> QED
    BY <2>1, <2>3
<1>3. PICK a \in Nat, f \in Nat : a = s \div c /\ f = s % c /\ s = a * c + f /\ f < c
  BY DivModExists
<1>4. CutTwice(a, h, 2, Q, i, l)
  BY <1>2, <1>3
<1>5. a \div S = Q /\ (a % S) \div h = i /\ a % h = l
  <2>1. PICK two \in Nat : two = 2 /\ two > 0
    OBVIOUS
  <2>2. IsProduct(S, two, h)
    BY <2>1
  <2>3. CutTwice(a, h, two, Q, i, l)
    BY <1>4, <2>1
  <2> QED
    BY <2>1, <2>2, <2>3, CutTwiceIs
<1>6. a = (Q * 2 + i) * h + l /\ i < 2 /\ l < h
  BY <1>4 DEF CutTwice
<1>7. PICK j \in Nat : j = l * c + f
  OBVIOUS
<1>8. j < v
  <2>1. (l + 1) * c <= h * c
    BY <1>6, MulMono
  <2> QED
    BY <1>1, <1>3, <1>7, <2>1
<1>9. s = (Q * 2 + i) * v + j
  <2>1. PICK q \in Nat : q = Q * 2 + i
    OBVIOUS
  <2>2. s = (q * h + l) * c + f
    BY <1>3, <1>6, <2>1
  <2>3. (q * h + l) * c = q * (h * c) + l * c
    BY Regroup
  <2> QED
    BY <1>1, <1>7, <2>1, <2>2, <2>3
<1>10. v > 0
  BY <1>8
<1>11. IsProduct(w, 2, v)
  <2>1. (2 * h) * c = 2 * (h * c)
    OBVIOUS
  <2> QED
    BY <1>1, <2>1 DEF IsProduct
<1>12. s \div w = Q /\ (s \div v) % 2 = i /\ s % v = j
  <2>1. PICK two \in Nat : two = 2 /\ two > 0
    OBVIOUS
  <2>2. IsProduct(w, two, v)
    BY <1>11, <2>1
  <2>3. CutTwice(s, v, two, Q, i, j)
    BY <1>6, <1>8, <1>9, <2>1 DEF CutTwice
  <2> QED
    BY <1>10, <2>1, <2>2, <2>3, CutTwiceIs
<1>13. j # 0 <=> (f # 0 \/ l # 0)
  BY <1>7
<1> QED
  BY <1>3, <1>5, <1>10, <1>11, <1>12, <1>13 DEF SameBits

\* The sum is of n limbs or one bit more, and w the weight of the last bit that is kept.
LEMMA SignificandOfSum ==
  ASSUME NEW p \in Nat, p > 0, NEW P \in Nat, Power(P, p), NEW S \in Nat, S > 0,
         NEW K \in Nat, IsProduct(K, P, S), NEW c \in Nat, c > 0, NEW w \in Nat, IsProduct(w, S, c),
         NEW s \in Nat, s < K * c, K * c <= 2 * s
  PROVE  IsSignificand(s \div w, p)
<1>1. K = P * S /\ w = S * c /\ w > 0
  BY DEF IsProduct
<1>2. K * c = P * w
  BY <1>1
<1>3. PICK h \in Nat : Power(h, p - 1) /\ IsProduct(P, 2, h)
  BY PowerEven
<1>4. P = 2 * h
  BY <1>3 DEF IsProduct
<1>5. PICK m \in Nat, r \in Nat : m = s \div w /\ s = m * w + r /\ r < w
  BY <1>1, DivModExists
<1>6. m < P
  <2>1. m * w < P * w
    BY <1>2, <1>5
  <2> QED
    BY <1>1, <2>1, MulCancel
<1>7. h <= m
  <2>1. P * w = 2 * (h * w)
    BY <1>4
  <2>2. h * w <= s
    BY <1>2, <2>1
  <2>3. h * w < (m + 1) * w
    BY <1>5, <2>2
  <2>4. h < m + 1
    BY <1>1, <2>3, MulCancel
  <2> QED
    BY <2>4
<1> QED
  BY <1>3, <1>5, <1>6, <1>7 DEF IsSignificand, Power

\* The units in which exact results are counted: the last bit of every number is one of them or more.
Units(p, sc) ==
  /\ p \in Nat /\ p > 0 /\ sc \in Nat
  /\ p <= emin + sc /\ 2 <= emin + sc
  /\ (emax + 1) + sc < MaxBits

\* Any other way to tell the bits.
LEMMA BitsAgree ==
  ASSUME NEW R, NEW w, NEW rb, NEW sb, BitsOf(R, w, rb, sb),
         NEW rb2 \in BOOLEAN, rb2 <=> rb, NEW sb2 \in BOOLEAN, sb2 <=> sb
  PROVE  BitsOf(R, w, rb2, sb2)
  BY DEF BitsOf

\* The exponents of sums and differences fit.
LEMMA UnitsFit ==
  ASSUME NEW p, NEW sc, Units(p, sc), NEW e \in Int, emin <= e, e <= emax + 1
  PROVE  FitsIn(p, sc, e) /\ e + sc \in 1..MaxBits /\ e + sc > 0
<1>1. emin \in Int /\ emax \in Int /\ emin <= emax /\ MaxBits \in Nat
  BY RangeAssumption, RealRoundingAssumption
<1> QED
  BY <1>1 DEF Units, FitsIn

\* An operation that ends with RoundUnder.
LEMMA UnderRight ==
  ASSUME NEW p, NEW sc, Units(p, sc), NEW e \in Int, emin <= e, e <= emax + 1, NEW X, NEW m,
         NEW rb, NEW sb, RoundsFrom(X, p, e + sc, m, rb, sb), NEW rnd \in Rnds, NEW neg \in BOOLEAN
  PROVE  RightResult(RoundUnder(p, m, e, rb, sb, rnd, neg), p, sc, X, rnd, neg)
<1>1. p \in Nat /\ p > 0 /\ sc \in Nat
  BY DEF Units
<1>2. IsSignificand(m, p) /\ rb \in BOOLEAN /\ sb \in BOOLEAN
  BY DEF RoundsFrom, BitsOf
<1>3. PICK c : c = RoundUnder(p, m, e, rb, sb, rnd, neg)
  OBVIOUS
<1>4. EndsWith(c, p, m, e, rb, sb, rnd, neg)
  BY <1>1, <1>2, <1>3, RoundUnderEnds
<1>5. FitsIn(p, sc, e)
  BY UnitsFit
<1> QED
  BY <1>3, <1>4, <1>5, EndsRight

\* The sum of a larger and of a smaller number, and a right result for it.
SumOfTwo(x, y, d) == x.mant * 2^d + y.mant
RightSum(r, x, y, p, d, sc, rnd, neg) ==
  RightResult(r, p, sc, ExactAt(SumOfTwo(x, y, d), y, p, sc), rnd, neg)

\* The array of y moved down by d bits: what is left of it and what is lost.
Moved(C, d, D, q, L) ==
  /\ Power(D, d) /\ D > 0 /\ q = C \div D /\ L = C % D
  /\ q \in Nat /\ L \in Nat /\ L < D /\ C = q * D + L /\ q <= C

\* c moved down by d bits: q is left and L is lost.
LEMMA MovedExists ==
  ASSUME NEW C \in Nat, NEW d \in Nat
  PROVE  \E D \in Nat, q \in Nat, L \in Nat : Moved(C, d, D, q, L) /\ q = C \div 2^d /\ L = C % 2^d
<1>1. PICK D \in Nat : Power(D, d) /\ D > 0
  BY PowerExists
<1>2. PICK q \in Nat, L \in Nat : q = C \div D /\ L = C % D /\ C = q * D + L /\ L < D
  BY <1>1, DivModExists
<1>3. q <= C
  <2>1. q * 1 <= q * D
    BY <1>1
  <2> QED
    BY <1>2, <2>1
<1>4. 2^d = D
  BY <1>1 DEF Power
<1> QED
  BY <1>1, <1>2, <1>3, <1>4 DEF Moved

\* The arrays of two numbers, with k bits that are not part of the significands, are added;
\* they have up to a carry of K bits.
LEMMA ArraysAdded ==
  ASSUME NEW x, NEW y, NEW p, NEW d, NEW sc, Apart(x, y, p, d, sc),
         NEW k \in Nat, NEW S \in Nat, Power(S, k), NEW P \in Nat, Power(P, p),
         NEW K \in Nat, IsProduct(K, P, S), NEW C \in Nat, IsProduct(C, y.mant, S),
         NEW D \in Nat, NEW q \in Nat, NEW L \in Nat, Moved(C, d, D, q, L),
         NEW B \in Nat, IsProduct(B, x.mant, S), NEW s \in Nat, s = B + q
  PROVE  /\ SumOfTwo(x, y, d) \in Nat /\ SumOfTwo(x, y, d) * S = s * D + L
         /\ s < 2 * K /\ K <= 2 * s /\ C < K /\ C > 0 /\ K > 0
<1>1. IsSignificand(x.mant, p) /\ IsSignificand(y.mant, p) /\ p \in Nat /\ p > 0 /\ d \in Nat
  BY DEF Apart, IsOperand
<1>2. PICK h \in Nat : Power(h, p - 1) /\ IsProduct(P, 2, h) /\ h > 0
  BY <1>1, PowerEven
<1>3. PICK mx \in Nat, my \in Nat : mx = x.mant /\ my = y.mant /\ h <= mx /\ mx < P /\ h <= my /\ my < P
  BY <1>1, <1>2 DEF IsSignificand, Power
<1>4. P = 2 * h /\ K = P * S /\ B = mx * S /\ C = my * S
  BY <1>2, <1>3 DEF IsProduct
<1>5. S > 0
  BY PowNat DEF Power
<1>6. C = q * D + L /\ 2^d = D /\ q <= C
  BY DEF Moved, Power
<1>7. SumOfTwo(x, y, d) = mx * D + my
  BY <1>3, <1>6 DEF SumOfTwo
<1>8. (mx * D + my) * S = s * D + L
  <2>1. (mx * D + my) * S = (mx * S) * D + my * S
    BY <1>3
  <2>2. (B + q) * D = B * D + q * D
    OBVIOUS
  <2>3. PICK z \in Nat : z = B * D
    OBVIOUS
  <2> QED
    BY <1>4, <1>6, <2>1, <2>2, <2>3
<1>9. mx * S < K /\ my * S < K
  BY <1>3, <1>4, <1>5, LessTimes
<1>10. K <= 2 * (mx * S)
  <2>1. h * S <= mx * S
    BY <1>3, MulMono
  <2>2. K = 2 * (h * S)
    BY <1>4
  <2> QED
    BY <2>1, <2>2
<1>11. C > 0
  <2>1. 1 * S <= my * S
    BY <1>2, <1>3, MulMono
  <2> QED
    BY <1>4, <1>5, <2>1
<1> QED
  BY <1>3, <1>4, <1>6, <1>7, <1>8, <1>9, <1>10, <1>11

\* The carry of a sum, as a number of bits and as a factor.
Carry(s, K, carry, c) ==
  /\ carry = s \div K /\ c = 2^carry /\ c \in Nat /\ c > 0
  /\ s < K * c /\ K * c <= 2 * s
  /\ \/ carry = 0 /\ c = 1 /\ s < K
     \/ carry = 1 /\ c = 2 /\ s >= K

\* There is a carry or not.
LEMMA CarryIs ==
  ASSUME NEW s \in Nat, NEW K \in Nat, K > 0, s < 2 * K, K <= 2 * s
  PROVE  \E carry \in Nat, c \in Nat : Carry(s, K, carry, c)
<1>1. 2^0 = 1 /\ 2^1 = 2
  BY PowZero, PowSucc
<1>2. CASE s < K
  <2>1. s \div K = 0
    <3>1. s = 0 * K + s
      OBVIOUS
    <3> QED
      BY <1>2, <3>1, DivModUnique
  <2>2. Carry(s, K, 0, 1)
    BY <1>1, <1>2, <2>1 DEF Carry
  <2> QED
    BY <2>2
<1>3. CASE s >= K
  <2>1. s \div K = 1
    <3>1. PICK r \in Nat : r = s - K /\ r < K /\ s = 1 * K + r
      BY <1>3
    <3> QED
      BY <3>1, DivModUnique
  <2>2. Carry(s, K, 1, 2)
    BY <1>1, <1>3, <2>1 DEF Carry
  <2> QED
    BY <2>2
<1> QED
  BY <1>2, <1>3

\* The arrays of k bits that the code adds, and what is known of them.
SumArrays(x, y, p, d, k, S, K, B, C, D, q, L, s) ==
  /\ Power(S, k) /\ S > 0 /\ K > 0 /\ B \in Nat /\ C \in Nat /\ C > 0 /\ C < K /\ B < K
  /\ B = x.mant * S /\ C = y.mant * S /\ Power(K, p + k)
  /\ Moved(C, d, D, q, L) /\ s = B + q
  /\ SumOfTwo(x, y, d) \in Nat /\ SumOfTwo(x, y, d) * S = s * D + L
  /\ s < 2 * K /\ K <= 2 * s

\* The arrays of two operands.
LEMMA SumArraysExist ==
  ASSUME NEW x, NEW y, NEW p, NEW d, NEW sc, Apart(x, y, p, d, sc), NEW k \in Nat
  PROVE  \E S, K, B, C, D, q, L, s \in Nat :
            SumArrays(x, y, p, d, k, S, K, B, C, D, q, L, s)
<1>1. x.mant \in Nat /\ y.mant \in Nat /\ p \in Nat /\ p > 0 /\ d \in Nat
  BY DEF Apart, IsOperand, IsSignificand
<1>2. PICK S \in Nat : Power(S, k) /\ S > 0
  BY PowerExists
<1>3. PICK P \in Nat : Power(P, p)
  BY <1>1, PowerExists
<1>4. PICK K \in Nat : Power(K, p + k)
  BY <1>1, PowerExists
<1>5. IsProduct(K, P, S)
  BY <1>1, <1>2, <1>3, <1>4, PowerProduct
<1>6. PICK B \in Nat, C \in Nat : IsProduct(B, x.mant, S) /\ IsProduct(C, y.mant, S)
  BY <1>1 DEF IsProduct
<1>7. PICK D \in Nat, q \in Nat, L \in Nat : Moved(C, d, D, q, L)
  BY <1>1, MovedExists
<1>8. PICK s \in Nat : s = B + q
  OBVIOUS
<1>9. /\ SumOfTwo(x, y, d) \in Nat /\ SumOfTwo(x, y, d) * S = s * D + L
      /\ s < 2 * K /\ K <= 2 * s /\ C < K /\ C > 0 /\ K > 0
  BY <1>2, <1>3, <1>5, <1>6, <1>7, <1>8, ArraysAdded
<1>10. B = x.mant * S /\ C = y.mant * S
  BY <1>6 DEF IsProduct
<1>11. B < K
  <2>1. K = P * S
    BY <1>5 DEF IsProduct
  <2>2. x.mant < P
    BY <1>3 DEF Apart, IsOperand, IsSignificand, Power
  <2> QED
    BY <1>1, <1>2, <1>10, <2>1, <2>2, LessTimes
<1> QED
  BY <1>2, <1>4, <1>7, <1>8, <1>9, <1>10, <1>11 DEF SumArrays

\* The sum is rounded from m, rb and sb, with the exponent of x and a carry.
SumIs(x, y, p, d, sc, carry, m, rb, sb) ==
  /\ x.exp + carry \in Int /\ emin <= x.exp + carry /\ x.exp + carry <= emax + 1
  /\ RoundsFrom(ExactAt(SumOfTwo(x, y, d), y, p, sc), p, (x.exp + carry) + sc, m, rb, sb)

\* What the sum is rounded from: m is what is above the k low bits and the carry.
LEMMA SumRounds ==
  ASSUME NEW x, NEW y, NEW p, NEW d, NEW sc, Apart(x, y, p, d, sc), Units(p, sc), NEW k \in Nat,
         NEW S \in Nat, NEW K \in Nat, NEW B, NEW C, NEW D \in Nat, NEW q, NEW L \in Nat, NEW s \in Nat,
         SumArrays(x, y, p, d, k, S, K, B, C, D, q, L, s),
         NEW carry \in Nat, NEW c \in Nat, Carry(s, K, carry, c),
         NEW w \in Nat, IsProduct(w, S, c), NEW U \in Nat, IsProduct(U, w, D), NEW m,
         NEW R, Kept(m, R, s, w, D, L), NEW rb, NEW sb, BitsOf(R, U, rb, sb)
  PROVE  SumIs(x, y, p, d, sc, carry, m, rb, sb)
<1>1. p \in Nat /\ p > 0 /\ d \in Nat /\ x.exp \in Int /\ emin <= x.exp /\ x.exp <= emax /\ sc \in Nat
  BY DEF Apart, IsOperand
<1>2. emin \in Int /\ emax \in Int
  BY RangeAssumption
<1>3. carry \in {0, 1} /\ c > 0 /\ s < K * c /\ K * c <= 2 * s /\ Power(c, carry)
  BY DEF Carry, Power
<1>4. PICK e \in Int : e = x.exp + carry /\ emin <= e /\ e <= emax + 1
  BY <1>1, <1>2, <1>3
<1>5. e + sc > 0 /\ e + sc \in Nat
  BY <1>2, <1>4, UnitsFit
<1>6. Power(S, k) /\ Power(D, d) /\ L < D /\ SumOfTwo(x, y, d) \in Nat
      /\ SumOfTwo(x, y, d) * S = s * D + L /\ S > 0
  BY DEF SumArrays, Moved
<1>7. PICK n \in Nat : n = carry + k
  OBVIOUS
<1>8. Power(w, n)
  <2>1. PICK V \in Nat : Power(V, n)
    BY PowerExists
  <2>2. n = k + carry
    BY <1>7
  <2>3. IsProduct(V, S, c)
    BY <1>3, <1>6, <2>1, <2>2, PowerProduct
  <2> QED
    BY <2>1, <2>3 DEF IsProduct
<1>9. IsSignificand(m, p)
  <2>1. PICK P \in Nat : Power(P, p)
    BY <1>1, PowerExists
  <2>2. IsProduct(K, P, S)
    BY <1>1, <1>6, <2>1, PowerProduct DEF SumArrays
  <2> QED
    BY <1>1, <1>3, <1>6, <2>1, <2>2, SignificandOfSum DEF Kept
<1>10. e + sc = x.exp + carry + sc
  BY <1>1, <1>4
<1>11. RoundsFrom(ExactAt(SumOfTwo(x, y, d), y, p, sc), p, e + sc, m, rb, sb)
  <2>1. PICK T \in Nat : T = SumOfTwo(x, y, d)
    BY <1>6
  <2>2. Divided(T, S, s, D, L, w, U, m, R)
    BY <1>6, <2>1 DEF Divided
  <2>3. PICK f : f = e + sc
    OBVIOUS
  <2>4. At(f, n, x, carry, sc, k)
    BY <1>5, <1>7, <1>10, <2>3 DEF At
  <2>5. RoundsFrom(ExactAt(T, y, p, sc), p, f, m, rb, sb)
    <3>1. Power(S, k) /\ Power(D, d) /\ carry \in Int
      BY <1>6
    <3> QED
      BY <1>8, <1>9, <2>2, <2>4, <3>1, ExactRounds, Zenon
  <2> QED
    BY <2>1, <2>3, <2>5
<1> QED
  BY <1>4, <1>11 DEF SumIs


\* What the code of n limbs computes of the sum and of its bits.
MaskedBit(a, sh) == Bit(a, sh - 1) = 1
MaskedSticky(C, d, sum, carry, a, far, sh) ==
  \/ far
  \/ d > 0 /\ LostLimb(C, d) # 0
  \/ d > 0 /\ sum % 2^carry # 0
  \/ a % 2^(sh - 1) # 0

\* R out of U is what is below the significand that is kept.
MaskedEnd(S, c, s, D, L, C, d, carry, far, sh) ==
  \E w \in Nat, U \in Nat, R, a \in Nat :
     /\ a = s \div 2^carry
     /\ IsProduct(w, S, c) /\ IsProduct(U, w, D) /\ Kept(a \div 2^sh, R, s, w, D, L)
     /\ BitsOf(R, U, ~ far /\ MaskedBit(a, sh), MaskedSticky(C, d, s, carry, a, far, sh))

\* They are those of what is lost by the shift of c, of the carry, and of the low bits.
LEMMA MaskedBits ==
  ASSUME NEW x, NEW y, NEW p, NEW d \in Nat, NEW sh \in Nat, sh > 0,
         NEW S \in Nat, NEW K \in Nat, NEW B, NEW C \in Nat, NEW D \in Nat, NEW q \in Nat, NEW L \in Nat,
         NEW s \in Nat, SumArrays(x, y, p, d, sh, S, K, B, C, D, q, L, s),
         x.mant \in Nat, y.mant \in Nat,
         NEW carry \in Nat, NEW c \in Nat, Carry(s, K, carry, c), NEW far, far <=> D >= K
  PROVE  MaskedEnd(S, c, s, D, L, C, d, carry, far, sh)
<1>1. PICK h \in Nat : Power(h, sh - 1) /\ IsProduct(S, 2, h) /\ h > 0
  BY PowerEven DEF SumArrays
<1>2. PICK v \in Nat : IsProduct(v, h, c)
  BY DEF IsProduct
<1>3. PICK w \in Nat : IsProduct(w, S, c)
  BY DEF IsProduct
<1>4. PICK U \in Nat : IsProduct(U, w, D)
  BY DEF IsProduct
<1>5. c > 0 /\ c = 2^carry /\ 2^sh = S /\ 2^(sh - 1) = h
  BY <1>1 DEF Carry, SumArrays, Power
<1>6. PICK a \in Nat : a = s \div c
  BY <1>5, DivModExists
<1>7. /\ a \div S = s \div w
      /\ (a % S) \div h = 1 <=> (s \div v) % 2 = 1
      /\ s % v # 0 <=> (s % c # 0 \/ a % h # 0)
      /\ IsProduct(w, 2, v) /\ v > 0
  <2>1. c > 0 /\ h > 0 /\ IsProduct(S, 2, h)
    BY <1>1, <1>5
  <2>2. SameBits(s, c, S, h, v, w) /\ IsProduct(w, 2, v) /\ v > 0
    BY <1>2, <1>3, <2>1, ShiftedBits, Zenon
  <2> QED
    BY <1>6, <2>2, Zenon DEF SameBits
<1>8. L < D /\ D > 0 /\ C = q * D + L /\ Power(D, d) /\ C > 0 /\ C < K /\ S > 0 /\ s = B + q
      /\ B = x.mant * S /\ C = y.mant * S /\ L = C % D /\ B \in Nat
  BY DEF SumArrays, Moved
<1>9. PICK R \in Nat : R = (s % w) * D + L /\ BitsOf(R, U, (s \div v) % 2 = 1, s % v # 0 \/ L # 0)
  <2>1. v > 0 /\ L < D /\ IsProduct(w, 2, v)
    BY <1>7, <1>8
  <2>2. /\ (s % w) * D + L \in Nat
        /\ BitsOf((s % w) * D + L, U, (s \div v) % 2 = 1, s % v # 0 \/ L # 0)
    BY <1>4, <2>1, BitsBelow, Zenon
  <2> QED
    BY <2>2, Zenon
<1>10. MaskedBit(a, sh) <=> (s \div v) % 2 = 1
  <2>1. (sh - 1) + 1 = sh
    OBVIOUS
  <2> QED
    BY <1>5, <1>7, <2>1 DEF MaskedBit, Bit, Bits
<1>11. far => ~ MaskedBit(a, sh) /\ L # 0
  <2> SUFFICES ASSUME far PROVE ~ MaskedBit(a, sh) /\ L # 0
    OBVIOUS
  <2>1. C < D
    BY <1>8
  <2>2. q = 0 /\ L = C
    <3>1. C = 0 * D + C
      OBVIOUS
    <3> QED
      BY <1>8, <2>1, <3>1, SameDivision
  <2>3. s = x.mant * S
    BY <1>8, <2>2
  <2>4. c = 1
    BY <2>3 DEF Carry, SumArrays
  <2>5. s = (x.mant * 2) * v + 0 /\ x.mant * 2 \in Nat
    <3>1. S = 2 * h /\ v = h * c
      BY <1>1, <1>2 DEF IsProduct
    <3>2. v = h
      BY <2>4, <3>1
    <3> QED
      BY <2>3, <3>1, <3>2
  <2>6. s \div v = x.mant * 2
    BY <1>7, <2>5, DivModUnique
  <2>7. (s \div v) % 2 = 0
    BY <2>5, <2>6
  <2> QED
    BY <1>8, <1>10, <2>2, <2>7
<1>12. MaskedSticky(C, d, s, carry, a, far, sh) <=> (s % v # 0 \/ L # 0)
  <2>1. CASE far
    BY <1>11, <2>1 DEF MaskedSticky
  <2>2. CASE ~ far /\ d > 0
    <3>1. LostLimb(C, d) = 0 <=> L = 0
      <4>1. Alike(C % 2^d, 2^d, LostLimb(C, d), 2^W)
        BY <2>2, LostIs
      <4>2. C % 2^d = L
        BY <1>8 DEF Power
      <4> QED
        BY <4>1, <4>2 DEF Alike
    <3> QED
      BY <1>5, <1>7, <2>2, <3>1 DEF MaskedSticky
  <2>3. CASE ~ far /\ d = 0
    <3>1. D = 1 /\ L = 0
      BY <1>8, <2>3, PowZero DEF Power
    <3>2. s = (x.mant + y.mant) * S
      BY <1>8, <3>1
    <3>3. s % c = 0
      <4>1. S = 2 * h
        BY <1>1 DEF IsProduct
      <4>2. s = 2 * ((x.mant + y.mant) * h)
        BY <3>2, <4>1
      <4>3. PICK i \in Nat : i = (x.mant + y.mant) * h
        OBVIOUS
      <4>4. s = 2 * i
        BY <4>2, <4>3
      <4>5. c \in {1, 2}
        BY DEF Carry
      <4> QED
        BY <4>4, <4>5
    <3> QED
      BY <1>5, <1>7, <2>3, <3>1, <3>3 DEF MaskedSticky
  <2> QED
    BY <2>1, <2>2, <2>3
<1>13. Kept(a \div 2^sh, R, s, w, D, L)
  BY <1>5, <1>7, <1>9 DEF Kept
<1>14. BitsOf(R, U, ~ far /\ MaskedBit(a, sh), MaskedSticky(C, d, s, carry, a, far, sh))
  <2>1. (~ far /\ MaskedBit(a, sh)) <=> (s \div v) % 2 = 1
    BY <1>10, <1>11
  <2>2. (~ far /\ MaskedBit(a, sh)) \in BOOLEAN /\ MaskedSticky(C, d, s, carry, a, far, sh) \in BOOLEAN
    BY DEF MaskedBit, MaskedSticky
  <2> QED
    BY <1>9, <1>12, <2>1, <2>2, BitsAgree, Zenon
<1>15. a = s \div 2^carry
  BY <1>5, <1>6
<1> QED
  BY <1>3, <1>4, <1>13, <1>14, <1>15 DEF MaskedEnd

\* The operand of larger exponent, and the other.
LEMMA LargerSmaller ==
  ASSUME NEW b, NEW c, NEW p, NEW sc, Units(p, sc), IsOperand(b, p), IsOperand(c, p)
  PROVE  \E d \in Nat : /\ Apart(Larger(b, c), Smaller(b, c), p, d, sc)
                        /\ d = Larger(b, c).exp - Smaller(b, c).exp
<1>1. p \in Nat /\ p > 0 /\ sc \in Nat /\ p <= emin + sc
  BY DEF Units
<1>2. b.exp \in Int /\ c.exp \in Int
  BY DEF IsOperand
<1>3. CASE b.exp < c.exp
  <2>1. Larger(b, c) = c /\ Smaller(b, c) = b
    BY <1>3 DEF Larger, Smaller
  <2>2. PICK d \in Nat : d = c.exp - b.exp /\ c.exp = b.exp + d
    BY <1>2, <1>3
  <2> QED
    BY <1>1, <2>1, <2>2 DEF Apart
<1>4. CASE ~ (b.exp < c.exp)
  <2>1. Larger(b, c) = b /\ Smaller(b, c) = c
    BY <1>4 DEF Larger, Smaller
  <2>2. PICK d \in Nat : d = b.exp - c.exp /\ b.exp = c.exp + d
    BY <1>2, <1>4
  <2> QED
    BY <1>1, <2>1, <2>2 DEF Apart
<1> QED
  BY <1>3, <1>4

\* The operands of an addition or subtraction of the same precision, the larger one first.
TwoOperands(b, c, x, y, p, d, sc) ==
  /\ Units(p, sc) /\ IsOperand(b, p) /\ IsOperand(c, p) /\ Apart(x, y, p, d, sc)
  /\ x = Larger(b, c) /\ y = Smaller(b, c) /\ d = x.exp - y.exp
  /\ x \in {b, c} /\ y \in {b, c}

\* A significand of p bits in n limbs, of which sh bits are not used.
InLimbs(n, p, sh) == n \in Nat /\ sh \in Nat /\ sh < W /\ n * W = p + sh

\* The array of a number.
LEMMA MantIs ==
  ASSUME NEW x, NEW p \in Nat, IsOperand(x, p), NEW n, NEW sh, InLimbs(n, p, sh),
         NEW S, Power(S, sh)
  PROVE  Mant(x) = x.mant * S /\ MinusModulo(p) = sh
<1>1. MinusModulo(p) = sh
  BY MinusModuloIs DEF InLimbs
<1> QED
  BY <1>1 DEF Mant, IsOperand, Power

\* mpfr_add1sp1, mpfr_add1sp2 and mpfr_add1sp3.
LEMMA AddMaskedRight ==
  ASSUME NEW b, NEW c, NEW x, NEW y, NEW p, NEW d, NEW sc, TwoOperands(b, c, x, y, p, d, sc),
         NEW n, NEW sh, InLimbs(n, p, sh), sh > 0, NEW rnd \in Rnds, NEW neg \in BOOLEAN
  PROVE  RightSum(AddMasked(n, b, c, rnd, neg), x, y, p, d, sc, rnd, neg)
<1>1. /\ Units(p, sc) /\ Apart(x, y, p, d, sc) /\ IsOperand(x, p) /\ IsOperand(y, p) /\ b.prec = p
      /\ x = Larger(b, c) /\ y = Smaller(b, c) /\ d = x.exp - y.exp
      /\ p \in Nat /\ p > 0 /\ d \in Nat /\ x.mant \in Nat /\ y.mant \in Nat
  BY DEF TwoOperands, Apart, IsOperand, IsSignificand
<1>2. n \in Nat /\ sh \in Nat /\ n * W = p + sh /\ n * W - p = sh
  BY <1>1 DEF InLimbs
<1>3. PICK S, K, B, C, D, q, L, s \in Nat : SumArrays(x, y, p, d, sh, S, K, B, C, D, q, L, s)
  BY <1>1, <1>2, SumArraysExist
<1>4. /\ Power(S, sh) /\ K > 0 /\ s < 2 * K /\ K <= 2 * s /\ B = x.mant * S /\ C = y.mant * S
      /\ Power(K, p + sh) /\ Power(D, d) /\ C < K /\ q = C \div D /\ s = B + q /\ D > 0
  BY <1>3 DEF SumArrays, Moved
<1>5. Mant(x) = B /\ Mant(y) = C
  BY <1>1, <1>4, MantIs
<1>6. PICK carry \in Nat, k \in Nat : Carry(s, K, carry, k)
  BY <1>4, CarryIs
<1> DEFINE far == d >= n * W
<1>7. far <=> D >= K
  <2>1. PICK N \in Nat : N = p + sh
    BY <1>1, <1>2
  <2>2. 2^d = D /\ 2^N = K
    BY <1>4, <2>1 DEF Power
  <2>3. N <= d => K <= D
    BY <1>1, <2>1, <2>2, PowMonotone
  <2>4. d < N => D < K
    BY <1>1, <2>1, <2>2, PowStrict
  <2> QED
    BY <1>1, <1>2, <1>4, <2>1, <2>3, <2>4
<1>8. MaskedEnd(S, k, s, D, L, C, d, carry, far, sh)
  <2>1. d \in Nat /\ x.mant \in Nat /\ y.mant \in Nat /\ sh \in Nat
    BY <1>1, <1>2
  <2> HIDE DEF far
  <2> QED
    BY <1>3, <1>6, <1>7, <2>1, MaskedBits, Zenon
<1>9. PICK w \in Nat, U \in Nat, R, a \in Nat :
        /\ a = s \div 2^carry
        /\ IsProduct(w, S, k) /\ IsProduct(U, w, D) /\ Kept(a \div 2^sh, R, s, w, D, L)
        /\ BitsOf(R, U, ~ far /\ MaskedBit(a, sh), MaskedSticky(C, d, s, carry, a, far, sh))
  BY <1>8, Zenon DEF MaskedEnd
<1> DEFINE rb == ~ far /\ MaskedBit(a, sh)
           sb == MaskedSticky(C, d, s, carry, a, far, sh)
           m == a \div 2^sh
<1>10. SumIs(x, y, p, d, sc, carry, m, rb, sb)
  <2>1. Kept(m, R, s, w, D, L) /\ BitsOf(R, U, rb, sb)
    BY <1>9
  <2>2. Units(p, sc) /\ Apart(x, y, p, d, sc) /\ sh \in Nat /\ IsProduct(w, S, k) /\ IsProduct(U, w, D)
    BY <1>1, <1>2, <1>9
  <2> HIDE DEF m, rb, sb
  <2> QED
    BY <1>3, <1>6, <2>1, <2>2, SumRounds, Zenon
<1>11. AddMasked(n, b, c, rnd, neg) = RoundUnder(p, m, x.exp + carry, rb, sb, rnd, neg)
  <2>1. C \div 2^d = q /\ 2^(n * W) = K
    BY <1>2, <1>4 DEF Power
  <2>2. far => q = 0
    <3>1. far => C < D
      BY <1>4, <1>7
    <3>2. C < D => q = 0
      <4>1. C = 0 * D + C
        OBVIOUS
      <4> QED
        BY <1>4, <4>1, DivModUnique
    <3> QED
      BY <3>1, <3>2
  <2>3. Mant(x) + (IF far THEN 0 ELSE Mant(y) \div 2^d) = s
    BY <1>4, <1>5, <2>1, <2>2
  <2>4. s \div K = carry
    BY <1>6 DEF Carry
  <2>5. AddMasked(n, b, c, rnd, neg)
          = RoundUnder(p, a \div 2^sh, x.exp + carry, ~ far /\ MaskedBit(a, sh),
                       MaskedSticky(C, d, s, carry, a, far, sh), rnd, neg)
    BY <1>1, <1>2, <1>5, <1>9, <2>1, <2>3, <2>4, Zenon DEF AddMasked, MaskedBit, MaskedSticky
  <2> QED
    BY <2>5
<1>12. RightResult(RoundUnder(p, m, x.exp + carry, rb, sb, rnd, neg), p, sc,
                   ExactAt(SumOfTwo(x, y, d), y, p, sc), rnd, neg)
  <2>1. Units(p, sc)
    BY <1>1
  <2> HIDE DEF m, rb, sb
  <2> QED
    BY <1>10, <2>1, UnderRight, Zenon DEF SumIs
<1> QED
  BY <1>11, <1>12 DEF RightSum

-----------------------------------------------------------------------------
(* mpfr_add1sp1n, mpfr_add1sp2n *)

\* The first bit of the limb that stands for what is lost, and the others.
LEMMA LowBits ==
  ASSUME NEW L \in Nat, NEW D \in Nat, L < D, NEW low \in Nat, low < 2^W, Alike(L, D, low, 2^W)
  PROVE  BitsOf(L, D, low >= HighBit, low % HighBit # 0)
<1>1. HighBit \in Nat /\ HighBit > 0 /\ 2^W = 2 * HighBit
  BY HighBitIs
<1>2. PICK h \in Nat : h = HighBit /\ h > 0
  BY <1>1
<1>3. low < 2 * h /\ (L = 0 <=> low = 0) /\ (2 * L > D <=> low > h) /\ (2 * L = D <=> low = h)
  BY <1>1, <1>2 DEF Alike
<1>4. low % h # 0 <=> low # 0 /\ low # h
  <2>1. CASE low < h
    <3>1. low = 0 * h + low
      OBVIOUS
    <3> QED
      BY <1>2, <2>1, <3>1, DivModUnique
  <2>2. CASE low >= h
    <3>1. PICK j \in Nat : j = low - h /\ low = 1 * h + j /\ j < h
      BY <1>2, <1>3, <2>2
    <3>2. low % h = j
      BY <1>2, <3>1, DivModUnique
    <3> QED
      BY <1>2, <3>1, <3>2
  <2> QED
    BY <1>2, <2>1, <2>2
<1>5. BitsOf(L, D, low >= h, low % h # 0)
  <2>1. low >= h <=> 2 * L >= D
    BY <1>2, <1>3
  <2> QED
    BY <1>3, <1>4, <2>1 DEF BitsOf
<1> QED
  BY <1>2, <1>5

\* The bits of the numbers whose significand fills its limbs.
LEMMA WholeLimbs ==
  ASSUME NEW n, NEW p \in Nat, InLimbs(n, p, 0), NEW x, IsOperand(x, p)
  PROVE  n \in Nat /\ n * W = p /\ Mant(x) = x.mant
<1>1. Power(1, 0)
  BY PowZero DEF Power
<1>2. Mant(x) = x.mant * 1
  BY <1>1, MantIs
<1>3. x.mant * 1 = x.mant
  BY DEF IsOperand, IsSignificand
<1>4. W \in Nat
  BY HighBitIs
<1> QED
  BY <1>2, <1>3, <1>4 DEF InLimbs

\* A sum that does not carry, and one that does.
LEMMA NoCarry ==
  ASSUME NEW s \in Nat, NEW K \in Nat, K > 0, s < 2 * K, K <= 2 * s, s < K,
         NEW carry \in Nat, carry = 0, NEW c \in Nat, c = 1
  PROVE  Carry(s, K, carry, c)
<1>1. PICK r \in Nat, v \in Nat : Carry(s, K, r, v)
  BY CarryIs
<1>2. r = 0 /\ v = 1
  BY <1>1 DEF Carry
<1> QED
  BY <1>1, <1>2

\* And one that does.
LEMMA OneCarry ==
  ASSUME NEW s \in Nat, NEW K \in Nat, K > 0, s < 2 * K, K <= 2 * s, s >= K,
         NEW carry \in Nat, carry = 1, NEW c \in Nat, c = 2
  PROVE  Carry(s, K, carry, c)
<1>1. PICK r \in Nat, v \in Nat : Carry(s, K, r, v)
  BY CarryIs
<1>2. r = 1 /\ v = 2
  BY <1>1 DEF Carry
<1> QED
  BY <1>1, <1>2

\* The sum of two numbers that fill their limbs: what is lost is L, out of D.
FullSum(x, y, p, d, K, D, q, L, s) ==
  /\ x.mant \in Nat /\ y.mant \in Nat /\ p \in Nat /\ p > 0 /\ d \in Nat
  /\ Power(K, p) /\ K > 0 /\ Power(D, d) /\ D > 0 /\ L < D
  /\ y.mant = q * D + L /\ q = y.mant \div 2^d /\ L = y.mant % 2^d
  /\ y.mant > 0 /\ y.mant < K /\ K <= 2 * y.mant /\ x.mant < K
  /\ s = x.mant + q /\ s < 2 * K /\ K <= 2 * s

FullSumRounds(x, y, p, d, sc, K, D, L, s) ==
  /\ s < K =>
       \A rb, sb : BitsOf(L, D, rb, sb) => SumIs(x, y, p, d, sc, 0, s, rb, sb)
  /\ s >= K => SumIs(x, y, p, d, sc, 1, s \div 2, s % 2 = 1, L # 0)

\* What such a sum is rounded from.
LEMMA FullSumIs ==
  ASSUME NEW x, NEW y, NEW p, NEW d, NEW sc, Apart(x, y, p, d, sc), Units(p, sc)
  PROVE  \E K, D, q, L, s \in Nat :
            FullSum(x, y, p, d, K, D, q, L, s) /\ FullSumRounds(x, y, p, d, sc, K, D, L, s)
<1>1. p \in Nat /\ p > 0 /\ d \in Nat /\ x.mant \in Nat /\ y.mant \in Nat /\ IsSignificand(y.mant, p)
  BY DEF Apart, IsOperand, IsSignificand
<1>2. PICK k \in Nat : k = 0
  OBVIOUS
<1>3. PICK S, K, B, C, D, q, L, s \in Nat : SumArrays(x, y, p, d, k, S, K, B, C, D, q, L, s)
  BY <1>1, <1>2, SumArraysExist
<1>4. S = 1 /\ B = x.mant /\ C = y.mant /\ Power(K, p) /\ K > 0 /\ Power(D, d)
  <2>1. S = 1 /\ p + k = p
    BY <1>1, <1>2, <1>3, PowZero DEF SumArrays, Power
  <2>2. x.mant * 1 = x.mant /\ y.mant * 1 = y.mant
    BY <1>1
  <2> QED
    BY <1>3, <2>1, <2>2 DEF SumArrays, Moved
<1>5. FullSum(x, y, p, d, K, D, q, L, s)
  <2>1. K <= 2 * y.mant
    BY <1>1, <1>4, PowHalf, PowNat DEF IsSignificand, Power
  <2> QED
    BY <1>1, <1>3, <1>4, <2>1 DEF FullSum, SumArrays, Moved, Power
<1>6. s < 2 * K /\ K <= 2 * s /\ K > 0 /\ L < D /\ D > 0
  BY <1>5 DEF FullSum
<1>7. s < K => \A rb, sb : BitsOf(L, D, rb, sb) => SumIs(x, y, p, d, sc, 0, s, rb, sb)
  <2> SUFFICES ASSUME s < K, NEW rb, NEW sb, BitsOf(L, D, rb, sb)
               PROVE  SumIs(x, y, p, d, sc, 0, s, rb, sb)
    OBVIOUS
  <2>1. PICK carry \in Nat, c \in Nat : carry = 0 /\ c = 1
    OBVIOUS
  <2>2. Carry(s, K, carry, c)
    BY <1>6, <2>1, NoCarry
  <2>3. IsProduct(c, S, c) /\ IsProduct(D, c, D)
    BY <1>4, <2>1 DEF IsProduct
  <2>4. Kept(s, L, s, c, D, L)
    BY <2>1 DEF Kept
  <2>5. SumIs(x, y, p, d, sc, carry, s, rb, sb)
    BY <1>2, <1>3, <2>2, <2>3, <2>4, SumRounds, Zenon
  <2> QED
    BY <2>1, <2>5
<1>8. s >= K => SumIs(x, y, p, d, sc, 1, s \div 2, s % 2 = 1, L # 0)
  <2> SUFFICES ASSUME s >= K PROVE SumIs(x, y, p, d, sc, 1, s \div 2, s % 2 = 1, L # 0)
    OBVIOUS
  <2>1. PICK carry \in Nat, c \in Nat : carry = 1 /\ c = 2
    OBVIOUS
  <2>2. Carry(s, K, carry, c)
    BY <1>6, <2>1, OneCarry
  <2>3. IsProduct(c, S, c)
    BY <1>4, <2>1 DEF IsProduct
  <2>4. PICK U \in Nat : IsProduct(U, c, D)
    BY DEF IsProduct
  <2>5. PICK R : R = (s % c) * D + L /\ BitsOf(R, U, s % 2 = 1, L # 0)
    <3>1. PICK v \in Nat : v = 1
      OBVIOUS
    <3>2. IsProduct(c, 2, v) /\ v > 0
      BY <2>1, <3>1 DEF IsProduct
    <3>3. BitsOf((s % c) * D + L, U, (s \div v) % 2 = 1, s % v # 0 \/ L # 0)
      BY <1>6, <2>4, <3>2, BitsBelow, Zenon
    <3>4. s \div v = s /\ s % v = 0
      BY <3>1
    <3> QED
      BY <3>3, <3>4
  <2>6. Kept(s \div c, R, s, c, D, L)
    BY <2>5 DEF Kept
  <2>7. BitsOf(R, U, s % 2 = 1, L # 0)
    BY <2>5
  <2>8. SumIs(x, y, p, d, sc, carry, s \div c, s % 2 = 1, L # 0)
    <3>1. PICK m, rb, sb : m = s \div c /\ rb = (s % 2 = 1) /\ sb = (L # 0)
      OBVIOUS
    <3>2. Kept(m, R, s, c, D, L) /\ BitsOf(R, U, rb, sb)
      BY <2>6, <2>7, <3>1
    <3>3. SumIs(x, y, p, d, sc, carry, m, rb, sb)
      BY <1>2, <1>3, <2>2, <2>3, <2>4, <3>2, SumRounds, Zenon
    <3> QED
      BY <3>1, <3>3
  <2> QED
    BY <2>1, <2>8
<1>9. FullSumRounds(x, y, p, d, sc, K, D, L, s)
  BY <1>7, <1>8, Zenon DEF FullSumRounds
<1> QED
  BY <1>5, <1>9

\* Exponents p or more apart: the first p bits are those of x.
FarSum(x, y, p, d, K, D, L, s) ==
  /\ s = x.mant /\ s < K
  /\ BitsOf(L, D, d = p, d # p \/ y.mant # 2^(p - 1))

\* The bits when the exponents are p or more apart.
LEMMA FullFar ==
  ASSUME NEW x, NEW y, NEW p, NEW d, NEW K \in Nat, NEW D \in Nat, NEW q \in Nat, NEW L \in Nat,
         NEW s \in Nat, FullSum(x, y, p, d, K, D, q, L, s), d >= p
  PROVE  FarSum(x, y, p, d, K, D, L, s)
<1>1. p \in Nat /\ p > 0 /\ d \in Nat /\ K = 2^p /\ D = 2^d
  BY DEF FullSum, Power
<1>2. K <= D
  BY <1>1, PowMonotone
<1>3. PICK C \in Nat : C = y.mant /\ C = q * D + L /\ L < D /\ C < K /\ K <= 2 * C /\ C > 0
  BY DEF FullSum
<1>4. q = 0 /\ L = C
  <2>1. C = 0 * D + C /\ C < D
    BY <1>2, <1>3
  <2> QED
    BY <1>3, <2>1, SameDivision
<1>5. s = x.mant /\ x.mant < K
  <2>1. x.mant \in Nat /\ s = x.mant + q /\ x.mant < K
    BY DEF FullSum
  <2> QED
    BY <1>4, <2>1
<1>6. BitsOf(L, D, d = p, d # p \/ C # 2^(p - 1))
  <2>1. PICK h \in Nat : h = 2^(p - 1) /\ K = 2 * h
    BY <1>1, PowHalf, PowNat
  <2>2. CASE d = p
    <3>1. D = K
      BY <1>1, <2>2
    <3> QED
      BY <1>3, <1>4, <2>1, <2>2, <3>1 DEF BitsOf
  <2>3. CASE d # p
    <3>1. K < D
      <4>1. p < d
        BY <1>1, <2>3
      <4> QED
        BY <1>1, <4>1, PowStrict
    <3>2. 2 * K <= D
      <4>1. p < d
        BY <1>1, <2>3
      <4> QED
        BY <1>1, <4>1, PowStrict
    <3> QED
      BY <1>3, <1>4, <2>1, <2>3, <3>1, <3>2 DEF BitsOf
  <2> QED
    BY <2>2, <2>3
<1> QED
  BY <1>3, <1>4, <1>5, <1>6 DEF FarSum

\* The limb of what is lost.
LEMMA LowLimb ==
  ASSUME NEW C \in Nat, NEW d \in Nat, NEW D, Power(D, d), NEW L, L = C % D, NEW low,
         low = IF d = 0 THEN 0 ELSE LostLimb(C, d)
  PROVE  low \in Nat /\ low < 2^W /\ Alike(L, D, low, 2^W)
<1>1. CASE d = 0
  <2>1. D = 1 /\ L = 0 /\ low = 0
    BY <1>1, PowZero DEF Power
  <2>2. PICK h \in Nat : 2^W = 2 * h /\ h > 0
    BY HighBitIs
  <2> QED
    BY <2>1, <2>2 DEF Alike
<1>2. CASE d > 0
  <2>1. low = LostLimb(C, d) /\ D = 2^d
    BY <1>2 DEF Power
  <2> QED
    BY <1>2, <2>1, LostIs
<1> QED
  BY <1>1, <1>2

\* mpfr_add1sp1n and mpfr_add1sp2n.
LEMMA AddFullRight ==
  ASSUME NEW b, NEW c, NEW x, NEW y, NEW p, NEW d, NEW sc, TwoOperands(b, c, x, y, p, d, sc),
         NEW n, InLimbs(n, p, 0), NEW rnd \in Rnds, NEW neg \in BOOLEAN
  PROVE  RightSum(AddFull(n, b, c, rnd, neg), x, y, p, d, sc, rnd, neg)
<1>1. /\ Units(p, sc) /\ Apart(x, y, p, d, sc) /\ IsOperand(x, p) /\ IsOperand(y, p) /\ b.prec = p
      /\ x = Larger(b, c) /\ y = Smaller(b, c) /\ d = x.exp - y.exp
      /\ p \in Nat /\ p > 0 /\ d \in Nat /\ x.mant \in Nat /\ y.mant \in Nat /\ x.exp \in Int
  BY DEF TwoOperands, Apart, IsOperand, IsSignificand
<1>2. n * W = p /\ Mant(x) = x.mant /\ Mant(y) = y.mant
  BY <1>1, WholeLimbs
<1>3. PICK K, D, q, L, s \in Nat :
        FullSum(x, y, p, d, K, D, q, L, s) /\ FullSumRounds(x, y, p, d, sc, K, D, L, s)
  BY <1>1, FullSumIs
<1>4. /\ K = 2^p /\ s = x.mant + y.mant \div 2^d /\ Power(D, d) /\ L = y.mant % D /\ L < D
  BY <1>3 DEF FullSum, Power
<1>5. PICK low : low = IF d = 0 THEN 0 ELSE LostLimb(y.mant, d)
  OBVIOUS
<1>6. low \in Nat /\ low < 2^W /\ Alike(L, D, low, 2^W)
  BY <1>1, <1>4, <1>5, LowLimb
<1>7. PICK t : t = AddFull(n, b, c, rnd, neg)
  OBVIOUS
<1> SUFFICES RightSum(t, x, y, p, d, sc, rnd, neg)
  BY <1>7
<1>8. t = CASE d >= p -> RoundUnder(p, x.mant, x.exp, d = p, d # p \/ ~ (y.mant = 2^(p - 1)), rnd, neg)
            [] d < p /\ s >= K -> RoundUnder(p, s \div 2, x.exp + 1, s % 2 = 1, low # 0, rnd, neg)
            [] OTHER -> RoundUnder(p, s, x.exp, low >= HighBit, low % HighBit # 0, rnd, neg)
  BY <1>1, <1>2, <1>4, <1>5, <1>7, Zenon DEF AddFull
<1>9. ASSUME NEW carry, NEW m, NEW rb, NEW sb, SumIs(x, y, p, d, sc, carry, m, rb, sb),
             t = RoundUnder(p, m, x.exp + carry, rb, sb, rnd, neg)
      PROVE  RightSum(t, x, y, p, d, sc, rnd, neg)
  <2>1. RightResult(t, p, sc, ExactAt(SumOfTwo(x, y, d), y, p, sc), rnd, neg)
    BY <1>1, <1>9, UnderRight DEF SumIs
  <2> QED
    BY <2>1 DEF RightSum
<1>10. x.exp = x.exp + 0
  BY <1>1
<1>11. CASE d >= p
  <2>1. s = x.mant /\ s < K /\ BitsOf(L, D, d = p, d # p \/ y.mant # 2^(p - 1))
    BY <1>3, <1>11, FullFar, Zenon DEF FarSum
  <2>2. SumIs(x, y, p, d, sc, 0, s, d = p, d # p \/ y.mant # 2^(p - 1))
    BY <1>3, <2>1 DEF FullSumRounds
  <2>3. t = RoundUnder(p, s, x.exp + 0, d = p, d # p \/ y.mant # 2^(p - 1), rnd, neg)
    BY <1>8, <1>10, <1>11, <2>1
  <2> QED
    BY <1>9, <2>2, <2>3, Zenon
<1>12. CASE d < p /\ s >= K
  <2>1. SumIs(x, y, p, d, sc, 1, s \div 2, s % 2 = 1, L # 0)
    BY <1>3, <1>12 DEF FullSumRounds
  <2>2. t = RoundUnder(p, s \div 2, x.exp + 1, s % 2 = 1, L # 0, rnd, neg)
    <3>1. ~ (d >= p)
      BY <1>1, <1>12
    <3>2. t = RoundUnder(p, s \div 2, x.exp + 1, s % 2 = 1, low # 0, rnd, neg)
      BY <1>8, <1>12, <3>1
    <3>3. (low # 0) = (L # 0)
      BY <1>6 DEF Alike
    <3> QED
      BY <3>2, <3>3
  <2> QED
    BY <1>9, <2>1, <2>2, Zenon
<1>13. CASE d < p /\ s < K
  <2>1. BitsOf(L, D, low >= HighBit, low % HighBit # 0)
    BY <1>4, <1>6, LowBits
  <2>2. SumIs(x, y, p, d, sc, 0, s, low >= HighBit, low % HighBit # 0)
    BY <1>3, <1>13, <2>1 DEF FullSumRounds
  <2>3. t = RoundUnder(p, s, x.exp + 0, low >= HighBit, low % HighBit # 0, rnd, neg)
    <3>1. ~ (d >= p) /\ ~ (s >= K)
      BY <1>1, <1>3, <1>13
    <3> QED
      BY <1>8, <1>10, <1>13, <3>1
  <2> QED
    BY <1>9, <2>2, <2>3, Zenon
<1>14. d >= p \/ (d < p /\ (s >= K \/ s < K))
  BY <1>1, <1>3
<1> QED
  BY <1>11, <1>12, <1>13, <1>14, Zenon

-----------------------------------------------------------------------------
(* mpfr_add1sp of any number of limbs *)

\* What is done with the range once the rounding is known.
Ranged(p, m, e, t, rnd, neg) == CheckRange(Num(neg, e, m, p), Signed(neg, t), rnd, emin, emax)

\* The three ends of a rounding.
LEMMA SettledIs ==
  ASSUME NEW p \in Nat, p > 0, NEW m, IsSignificand(m, p), NEW e \in Int,
         NEW rb \in BOOLEAN, NEW sb \in BOOLEAN, NEW rnd \in OneWay, NEW neg \in BOOLEAN
  PROVE  Settled(p, m, e, rb, sb, rnd, neg)
           = CASE ~ Up(m, rb, sb, rnd, neg) -> Ranged(p, m, e, IF ~ rb /\ ~ sb THEN 0 ELSE -1, rnd, neg)
               [] Up(m, rb, sb, rnd, neg) /\ m + 1 < 2^p -> Ranged(p, m + 1, e, 1, rnd, neg)
               [] Up(m, rb, sb, rnd, neg) /\ m + 1 = 2^p -> Ranged(p, 2^(p - 1), e + 1, 1, rnd, neg)
<1> DEFINE up == Up(m, rb, sb, rnd, neg)
           i == Inexact(m, rb, sb, rnd, neg)
           s == Significand(m, p, Decision(up, 0))
<1>1. up \in BOOLEAN
  BY DEF Up, IsLikeRNDZ
<1>2. m \in Nat /\ m < 2^p /\ 2^p \in Nat
  BY PowNat DEF IsSignificand
<1>3. /\ ~ up => s.mant = m /\ s.carry = 0
      /\ up /\ m + 1 < 2^p => s.mant = m + 1 /\ s.carry = 0
      /\ up /\ ~ (m + 1 < 2^p) => s.mant = 2^(p - 1) /\ s.carry = 1
  BY <1>1, <1>2 DEF Significand, Decision
<1>4. /\ up => i = 1
      /\ ~ up => i = IF ~ rb /\ ~ sb THEN 0 ELSE -1
  BY DEF Inexact, Up
<1>5. Settled(p, m, e, rb, sb, rnd, neg) = Ranged(p, s.mant, e + s.carry, i, rnd, neg)
  BY DEF Settled, Ranged
<1>6. e + 0 = e
  OBVIOUS
<1> HIDE DEF up, i, s
<1>7. CASE ~ up
  <2>1. Settled(p, m, e, rb, sb, rnd, neg) = Ranged(p, m, e, IF ~ rb /\ ~ sb THEN 0 ELSE -1, rnd, neg)
    BY <1>3, <1>4, <1>5, <1>6, <1>7, Zenon
  <2> QED
    BY <1>7, <2>1 DEF up
<1>8. CASE up /\ m + 1 < 2^p
  <2>1. Settled(p, m, e, rb, sb, rnd, neg) = Ranged(p, m + 1, e, 1, rnd, neg)
    BY <1>3, <1>4, <1>5, <1>6, <1>8, Zenon
  <2> QED
    BY <1>8, <2>1 DEF up
<1>9. CASE up /\ ~ (m + 1 < 2^p)
  <2>1. Settled(p, m, e, rb, sb, rnd, neg) = Ranged(p, 2^(p - 1), e + 1, 1, rnd, neg)
    BY <1>3, <1>4, <1>5, <1>9, Zenon
  <2>2. m + 1 = 2^p
    BY <1>2, <1>9
  <2> QED
    BY <1>2, <1>9, <2>1, <2>2 DEF up
<1> QED
  BY <1>7, <1>8, <1>9

\* The label set_exponent looks at the largest exponent only.
LEMMA SetExponentIs ==
  ASSUME NEW p, NEW m, NEW e \in Int, emin <= e, NEW t, NEW rnd, NEW neg
  PROVE  SetExponent(p, m, e, t, rnd, neg) = Ranged(p, m, e, t, rnd, neg)
  BY RangeAssumption DEF SetExponent, Ranged, CheckRange, Num

\* The label set_exponent for MPFR_RNDF,
LEMMA SetExponentFaithful ==
  ASSUME NEW p, NEW m, NEW e \in Int, emin <= e, NEW t, NEW neg, NEW rb, NEW sb
  PROVE  EndsWith(SetExponent(p, m, e, t, "RNDF", neg), p, m, e, rb, sb, "RNDF", neg)
<1>1. SetExponent(p, m, e, t, "RNDF", neg)
        = CheckRange(Num(neg, e, m, p), Signed(neg, t), "RNDF", emin, emax)
  BY SetExponentIs DEF Ranged
<1> QED
  BY <1>1 DEF EndsWith

\* for the other modes, when the significand is not rounded up,
LEMMA SetExponentEnds ==
  ASSUME NEW p \in Nat, p > 0, NEW m, IsSignificand(m, p), NEW e \in Int, emin <= e,
         NEW rb \in BOOLEAN, NEW sb \in BOOLEAN, NEW rnd \in OneWay, NEW neg \in BOOLEAN,
         ~ Up(m, rb, sb, rnd, neg), NEW t, t = IF ~ rb /\ ~ sb THEN 0 ELSE -1
  PROVE  EndsWith(SetExponent(p, m, e, t, rnd, neg), p, m, e, rb, sb, rnd, neg)
<1>1. Settled(p, m, e, rb, sb, rnd, neg) = Ranged(p, m, e, t, rnd, neg)
  BY SettledIs
<1>2. rnd # "RNDF"
  BY DEF OneWay
<1> QED
  BY <1>1, <1>2, SetExponentIs DEF EndsWith

\* and the label add_one_ulp when it is.
LEMMA AddOneUlpEnds ==
  ASSUME NEW p \in Nat, p > 0, NEW m, IsSignificand(m, p), NEW e \in Int, emin <= e,
         NEW rb \in BOOLEAN, NEW sb \in BOOLEAN, NEW rnd \in OneWay, NEW neg \in BOOLEAN,
         Up(m, rb, sb, rnd, neg)
  PROVE  EndsWith(AddOneUlpSp(p, m, e, rnd, neg), p, m, e, rb, sb, rnd, neg)
<1>1. m \in Nat /\ m < 2^p /\ 2^p \in Nat /\ emin \in Int /\ emin <= e + 1
  BY PowNat, RangeAssumption DEF IsSignificand
<1>2. rnd # "RNDF"
  BY DEF OneWay
<1>3. CASE m + 1 < 2^p
  <2>1. Settled(p, m, e, rb, sb, rnd, neg) = Ranged(p, m + 1, e, 1, rnd, neg)
    BY <1>1, <1>3, SettledIs
  <2>2. AddOneUlpSp(p, m, e, rnd, neg) = SetExponent(p, m + 1, e, 1, rnd, neg)
    BY <1>1, <1>3 DEF AddOneUlpSp
  <2> QED
    BY <1>2, <2>1, <2>2, SetExponentIs DEF EndsWith
<1>4. CASE m + 1 = 2^p
  <2>1. Settled(p, m, e, rb, sb, rnd, neg) = Ranged(p, 2^(p - 1), e + 1, 1, rnd, neg)
    BY <1>1, <1>4, SettledIs
  <2>2. AddOneUlpSp(p, m, e, rnd, neg) = SetExponent(p, 2^(p - 1), e + 1, 1, rnd, neg)
    BY <1>1, <1>4 DEF AddOneUlpSp
  <2> QED
    BY <1>1, <1>2, <2>1, <2>2, SetExponentIs DEF EndsWith
<1> QED
  BY <1>1, <1>3, <1>4

\* The sum is right once it is rounded from what it is.
LEMMA SumEnds ==
  ASSUME NEW x, NEW y, NEW p, NEW d, NEW sc, Units(p, sc), NEW carry, NEW m, NEW rb, NEW sb,
         SumIs(x, y, p, d, sc, carry, m, rb, sb), NEW rnd \in Rnds, NEW neg \in BOOLEAN, NEW t,
         NEW e, e = x.exp + carry, EndsWith(t, p, m, e, rb, sb, rnd, neg)
  PROVE  RightSum(t, x, y, p, d, sc, rnd, neg)
<1>1. FitsIn(p, sc, e)
  BY UnitsFit DEF SumIs
<1>2. RoundsFrom(ExactAt(SumOfTwo(x, y, d), y, p, sc), p, e + sc, m, rb, sb)
  BY DEF SumIs
<1> QED
  BY <1>1, <1>2, EndsRight DEF RightSum

\* Bits are Booleans, and what they follow is a significand.
LEMMA SumIsBits ==
  ASSUME NEW x, NEW y, NEW p, NEW d, NEW sc, NEW carry, NEW m, NEW rb, NEW sb,
         SumIs(x, y, p, d, sc, carry, m, rb, sb)
  PROVE  rb \in BOOLEAN /\ sb \in BOOLEAN /\ IsSignificand(m, p)
  BY DEF SumIs, RoundsFrom, BitsOf

\* Exponents at least p apart: c is below the last bit of b.
LEMMA AddFarRight ==
  ASSUME NEW x, NEW y, NEW p, NEW d, NEW sc, Apart(x, y, p, d, sc), Units(p, sc), d >= p,
         NEW rnd \in Rnds, NEW neg \in BOOLEAN
  PROVE  RightSum(AddFar(x, y, d, rnd, neg), x, y, p, d, sc, rnd, neg)
<1>1. /\ p \in Nat /\ p > 0 /\ d \in Nat /\ x.mant \in Nat /\ x.exp \in Int /\ x.prec = p /\ y.prec = p
      /\ emin <= x.exp
  BY DEF Apart, IsOperand, IsSignificand
<1>2. PICK K, D, q, L, s \in Nat :
        FullSum(x, y, p, d, K, D, q, L, s) /\ FullSumRounds(x, y, p, d, sc, K, D, L, s)
  BY FullSumIs
<1>3. PICK rb, sb : rb = (d = p) /\ sb = (d # p \/ y.mant # 2^(p - 1))
  OBVIOUS
<1>4. s = x.mant /\ s < K /\ BitsOf(L, D, rb, sb)
  <2>1. FarSum(x, y, p, d, K, D, L, s)
    BY <1>2, FullFar, Zenon
  <2> QED
    BY <1>3, <2>1, Zenon DEF FarSum
<1>5. SumIs(x, y, p, d, sc, 0, x.mant, rb, sb)
  BY <1>2, <1>4 DEF FullSumRounds
<1>6. rb \in BOOLEAN /\ sb \in BOOLEAN /\ IsSignificand(x.mant, p) /\ (rb \/ sb)
  BY <1>3, <1>5, SumIsBits
<1>7. PICK m, e : m = x.mant /\ e = x.exp
  OBVIOUS
<1>8. PICK t : t = AddFar(x, y, d, rnd, neg)
  OBVIOUS
<1>9. t = IF \/ rnd = "RNDF"
             \/ d > p /\ (rnd = "RNDN" \/ IsLikeRNDZ(rnd, neg))
             \/ d = p /\ rnd = "RNDN" /\ y.mant = 2^(p - 1) /\ m % 2 = 0
             \/ d = p /\ rnd # "RNDN" /\ IsLikeRNDZ(rnd, neg)
          THEN SetExponent(p, m, e, -1, rnd, neg) ELSE AddOneUlpSp(p, m, e, rnd, neg)
  BY <1>1, <1>7, <1>8, Zenon DEF AddFar, IsPowerof2Raw
<1>10. EndsWith(t, p, m, e, rb, sb, rnd, neg)
  <2>1. CASE rnd = "RNDF"
    BY <1>1, <1>7, <1>9, <2>1, SetExponentFaithful
  <2>2. CASE rnd # "RNDF"
    <3>1. rnd \in OneWay
      BY <2>2 DEF OneWay
    <3>2. PICK z \in BOOLEAN, two \in BOOLEAN, even \in BOOLEAN :
            z = IsLikeRNDZ(rnd, neg) /\ two = (y.mant = 2^(p - 1)) /\ even = (m % 2 = 0)
      BY DEF IsLikeRNDZ
    <3>3. Up(m, rb, sb, rnd, neg) <=> IF rnd = "RNDN" THEN d = p /\ ~ (two /\ even) ELSE ~ z
      <4>1. ~ even <=> m % 2 = 1
        <5>1. even <=> m % 2 = 0
          BY <3>2, Zenon
        <5>2. m \in Nat
          BY <1>1, <1>7
        <5> QED
          BY <5>1, <5>2
      <4> QED
        BY <1>3, <3>2, <4>1 DEF Up
    <3>4. t = IF \/ d > p /\ (rnd = "RNDN" \/ z)
                 \/ d = p /\ rnd = "RNDN" /\ two /\ even
                 \/ d = p /\ rnd # "RNDN" /\ z
              THEN SetExponent(p, m, e, -1, rnd, neg) ELSE AddOneUlpSp(p, m, e, rnd, neg)
      BY <1>9, <2>2, <3>2
    <3>5. d > p \/ d = p
      BY <1>1
    <3>6. CASE Up(m, rb, sb, rnd, neg)
      <4>1. t = AddOneUlpSp(p, m, e, rnd, neg)
        BY <1>1, <3>6, <3>3, <3>4
      <4> QED
        BY <1>1, <1>6, <1>7, <3>1, <3>6, <4>1, AddOneUlpEnds
    <3>7. CASE ~ Up(m, rb, sb, rnd, neg)
      <4>1. t = SetExponent(p, m, e, -1, rnd, neg)
        BY <3>7, <3>3, <3>4, <3>5
      <4> QED
        BY <1>1, <1>6, <1>7, <3>1, <3>7, <4>1, SetExponentEnds
    <3> QED
      BY <3>6, <3>7
  <2> QED
    BY <2>1, <2>2
<1>11. x.exp = x.exp + 0
  BY <1>1
<1> QED
  BY <1>5, <1>7, <1>8, <1>10, <1>11, SumEnds

\* The same exponents: one bit is lost.
LEMMA AddAlignedRight ==
  ASSUME NEW x, NEW y, NEW p, NEW sc, Apart(x, y, p, 0, sc), Units(p, sc),
         NEW rnd \in Rnds, NEW neg \in BOOLEAN
  PROVE  RightSum(AddAligned(x, y, rnd, neg), x, y, p, 0, sc, rnd, neg)
<1>1. /\ p \in Nat /\ p > 0 /\ x.mant \in Nat /\ x.exp \in Int /\ x.prec = p /\ y.prec = p
      /\ emin <= x.exp /\ emin \in Int /\ IsSignificand(x.mant, p) /\ IsSignificand(y.mant, p)
  BY RangeAssumption DEF Apart, IsOperand, IsSignificand
<1>2. PICK d \in Nat : d = 0
  OBVIOUS
<1>3. PICK K, D, q, L, s \in Nat :
        FullSum(x, y, p, d, K, D, q, L, s) /\ FullSumRounds(x, y, p, d, sc, K, D, L, s)
  BY <1>2, FullSumIs
<1>4. s = x.mant + y.mant /\ s >= K /\ L = 0
  <2>1. K = 2^p /\ D = 1
    BY <1>2, <1>3, PowZero DEF FullSum, Power
  <2>2. K = 2 * 2^(p - 1) /\ 2^(p - 1) \in Nat
    BY <1>1, <2>1, PowHalf, PowNat
  <2>3. 2^(p - 1) <= x.mant /\ 2^(p - 1) <= y.mant
    BY <1>1 DEF IsSignificand
  <2>4. PICK C \in Nat : C = y.mant /\ C = q * D + L /\ L < D /\ s = x.mant + q
    BY <1>3 DEF FullSum
  <2>5. q = C /\ L = 0
    BY <2>1, <2>4
  <2> QED
    BY <1>1, <2>2, <2>3, <2>4, <2>5
<1>5. PICK m, e, rb, sb : m = s \div 2 /\ e = x.exp + 1 /\ rb = (s % 2 = 1) /\ sb = FALSE
  OBVIOUS
<1>6. SumIs(x, y, p, d, sc, 1, m, rb, sb)
  <2>1. SumIs(x, y, p, d, sc, 1, s \div 2, s % 2 = 1, L # 0)
    BY <1>3, <1>4 DEF FullSumRounds
  <2>2. (L # 0) = FALSE
    BY <1>4
  <2> QED
    BY <1>5, <2>1, <2>2
<1>7. rb \in BOOLEAN /\ sb \in BOOLEAN /\ IsSignificand(m, p) /\ m \in Nat /\ e \in Int /\ emin <= e
  BY <1>1, <1>5, <1>6, SumIsBits DEF IsSignificand
<1>8. PICK t : t = AddAligned(x, y, rnd, neg)
  OBVIOUS
<1>9. t = CASE s % 2 = 0 \/ rnd = "RNDF" -> SetExponent(p, m, e, 0, rnd, neg)
            [] s % 2 = 1 /\ rnd = "RNDN" ->
                 IF m % 2 = 0 THEN SetExponent(p, m, e, -1, rnd, neg) ELSE AddOneUlpSp(p, m, e, rnd, neg)
            [] s % 2 = 1 /\ rnd \notin {"RNDN", "RNDF"} ->
                 IF IsLikeRNDZ(rnd, neg) THEN SetExponent(p, m, e, -1, rnd, neg)
                                         ELSE AddOneUlpSp(p, m, e, rnd, neg)
  BY <1>1, <1>4, <1>5, <1>8, Zenon DEF AddAligned
<1>10. EndsWith(t, p, m, e, rb, sb, rnd, neg)
  <2>1. CASE rnd = "RNDF"
    <3>1. t = SetExponent(p, m, e, 0, "RNDF", neg)
      BY <1>9, <2>1
    <3> QED
      BY <1>7, <2>1, <3>1, SetExponentFaithful
  <2>2. CASE rnd # "RNDF"
    <3>1. rnd \in OneWay /\ rnd \in Rnds
      BY <2>2 DEF OneWay
    <3>2. PICK z \in BOOLEAN, odd \in BOOLEAN, even \in BOOLEAN :
            z = IsLikeRNDZ(rnd, neg) /\ odd = (s % 2 = 1) /\ even = (m % 2 = 0)
      BY DEF IsLikeRNDZ
    <3>3. rb = odd /\ sb = FALSE
      BY <1>5, <3>2
    <3>4. Up(m, rb, sb, rnd, neg) <=> odd /\ IF rnd = "RNDN" THEN ~ even ELSE ~ z
      <4>1. ~ even <=> m % 2 = 1
        <5>1. even <=> m % 2 = 0
          BY <3>2, Zenon
        <5> QED
          BY <1>7, <5>1
      <4> QED
        BY <3>2, <3>3, <4>1 DEF Up
    <3>5. t = IF ~ odd THEN SetExponent(p, m, e, 0, rnd, neg)
              ELSE IF (rnd = "RNDN" /\ even) \/ (rnd # "RNDN" /\ z)
                   THEN SetExponent(p, m, e, -1, rnd, neg) ELSE AddOneUlpSp(p, m, e, rnd, neg)
      <4>1. s % 2 = 0 <=> ~ odd
        <5>1. odd <=> s % 2 = 1
          BY <3>2, Zenon
        <5> QED
          BY <5>1
      <4>2. CASE ~ odd
        BY <1>9, <4>1, <4>2
      <4>3. CASE odd /\ rnd = "RNDN"
        BY <1>9, <3>2, <4>1, <4>3
      <4>4. CASE odd /\ rnd # "RNDN"
        <5>1. rnd \notin {"RNDN", "RNDF"}
          BY <2>2, <4>4
        <5>2. t = IF z THEN SetExponent(p, m, e, -1, rnd, neg) ELSE AddOneUlpSp(p, m, e, rnd, neg)
          BY <1>9, <2>2, <3>2, <4>1, <4>4, <5>1
        <5> QED
          BY <4>4, <5>2
      <4> QED
        BY <4>2, <4>3, <4>4
    <3>6. CASE Up(m, rb, sb, rnd, neg)
      <4>1. t = AddOneUlpSp(p, m, e, rnd, neg)
        BY <3>6, <3>4, <3>5
      <4> QED
        BY <1>1, <1>7, <3>1, <3>6, <4>1, AddOneUlpEnds
    <3>7. CASE ~ Up(m, rb, sb, rnd, neg)
      <4>1. t = SetExponent(p, m, e, IF ~ rb /\ ~ sb THEN 0 ELSE -1, rnd, neg)
        BY <3>7, <3>3, <3>4, <3>5
      <4> QED
        BY <1>1, <1>7, <3>1, <3>7, <4>1, SetExponentEnds
    <3> QED
      BY <3>6, <3>7
  <2> QED
    BY <2>1, <2>2
<1> QED
  BY <1>2, <1>5, <1>6, <1>8, <1>10, SumEnds

\* The limbs of a significand.
LEMMA LimbsOf ==
  ASSUME NEW p \in Nat
  PROVE  InLimbs(NLimbs(p), p, MinusModulo(p))
<1>1. W \in Nat /\ W > 0
  BY HighBitIs
<1>2. PICK u \in Nat : u = p + W - 1
  BY <1>1
<1>3. PICK n \in Nat, r \in Nat : n = u \div W /\ u = n * W + r /\ r < W
  BY <1>1, <1>2, DivModExists
<1>4. PICK k \in Nat : k = n * W
  BY <1>1, <1>3
<1>5. PICK s \in Nat : k = p + s /\ s < W
  <2>1. p + (W - 1) = k + r
    BY <1>1, <1>2, <1>3, <1>4
  <2>2. PICK j \in Nat : j = (W - 1) - r
    BY <1>1, <1>3
  <2>3. k = p + j /\ j < W
    BY <1>1, <2>1, <2>2
  <2> QED
    BY <2>3
<1>6. MinusModulo(p) = s
  BY <1>4, <1>5, MinusModuloIs
<1>7. NLimbs(p) = n
  BY <1>2, <1>3 DEF NLimbs
<1> QED
  BY <1>3, <1>4, <1>5, <1>6, <1>7 DEF InLimbs

\* What is below S does not depend on the multiples of K = PS that are taken away.
SameMod(s, K, S) == (s % K) % S = s % S

\* This holds of all multiples of S.
LEMMA ModMod ==
  ASSUME NEW s \in Nat, NEW P \in Nat, NEW S \in Nat, S > 0, NEW K \in Nat, IsProduct(K, P, S), K > 0
  PROVE  SameMod(s, K, S)
<1>1. PICK i \in Nat, a \in Nat : a = s % K /\ s = i * K + a
  BY DivModExists
<1>2. PICK j \in Nat, t \in Nat : t = a % S /\ a = j * S + t /\ t < S
  BY DivModExists
<1>3. s = (i * P + j) * S + t
  <2>1. K = P * S
    BY DEF IsProduct
  <2>2. i * (P * S) = (i * P) * S
    OBVIOUS
  <2>3. (i * P + j) * S = (i * P) * S + j * S
    OBVIOUS
  <2> QED
    BY <1>1, <1>2, <2>1, <2>2, <2>3
<1>4. s % S = t
  BY <1>2, <1>3, DivModUnique
<1> QED
  BY <1>1, <1>2, <1>4 DEF SameMod

\* What mpfr_add1sp makes of the bits that are not kept: sh > 0 of them are in the array.
NearRounds(x, y, p, d, sc, S, h, K, L, s) ==
  LET bit == ((s % S) \div h) = 1
      rest == L # 0 \/ s % h # 0
  IN /\ s < K => SumIs(x, y, p, d, sc, 0, s \div S, bit, rest)
     /\ s >= K => SumIs(x, y, p, d, sc, 1, (s \div S) \div 2, (s \div S) % 2 = 1, rest \/ bit)

\* The bits when some of the last limb are not used.
LEMMA NearMasked ==
  ASSUME NEW x, NEW y, NEW p, NEW d, NEW sc, Apart(x, y, p, d, sc), Units(p, sc),
         NEW sh \in Nat, NEW S \in Nat, NEW K \in Nat, NEW B, NEW C, NEW D \in Nat, NEW q, NEW L \in Nat,
         NEW s \in Nat, SumArrays(x, y, p, d, sh, S, K, B, C, D, q, L, s),
         NEW h \in Nat, h > 0, IsProduct(S, 2, h)
  PROVE  NearRounds(x, y, p, d, sc, S, h, K, L, s)
<1>1. S > 0 /\ D > 0 /\ L < D /\ K > 0 /\ s < 2 * K /\ K <= 2 * s
  BY DEF SumArrays, Moved
<1>2. PICK two \in Nat, one \in Nat, zero \in Nat : two = 2 /\ one = 1 /\ zero = 0 /\ two > 0
  OBVIOUS
<1>3. PICK Q \in Nat, j \in Nat, r \in Nat : CutTwice(s, h, two, Q, j, r)
  BY <1>2, CutTwiceExists, Zenon
<1>4. IsProduct(S, two, h)
  BY <1>2
<1>5. /\ s % h = r /\ s \div h = Q * two + j /\ s % S = j * h + r /\ s \div S = Q
      /\ (s % S) \div h = j
  BY <1>2, <1>3, <1>4, CutTwiceIs
<1>6. j < 2 /\ r < h
  BY <1>2, <1>3 DEF CutTwice
<1> DEFINE bit == ((s % S) \div h) = 1
           rest == L # 0 \/ s % h # 0
<1>7. bit <=> j = 1
  BY <1>5
<1>8. s < K => SumIs(x, y, p, d, sc, 0, s \div S, bit, rest)
  <2> SUFFICES ASSUME s < K PROVE SumIs(x, y, p, d, sc, 0, s \div S, bit, rest)
    OBVIOUS
  <2>1. Carry(s, K, zero, one)
    BY <1>1, <1>2, NoCarry
  <2>2. IsProduct(S, S, one)
    BY <1>2 DEF IsProduct
  <2>3. PICK U \in Nat : IsProduct(U, S, D)
    BY DEF IsProduct
  <2>4. BitsOf((s % S) * D + L, U, (s \div h) % 2 = 1, s % h # 0 \/ L # 0)
    BY <1>1, <2>3, BitsBelow, Zenon
  <2>5. PICK rb, sb, R, m : rb = bit /\ sb = rest /\ R = (s % S) * D + L /\ m = s \div S
    OBVIOUS
  <2>6. BitsOf(R, U, rb, sb)
    <3>1. bit <=> (s \div h) % 2 = 1
      BY <1>2, <1>5, <1>6, <1>7
    <3>2. rb \in BOOLEAN /\ sb \in BOOLEAN /\ (rb <=> (s \div h) % 2 = 1) /\ (sb <=> (s % h # 0 \/ L # 0))
      BY <2>5, <3>1
    <3> QED
      BY <2>4, <2>5, <3>2, BitsAgree, Zenon
  <2>7. Kept(m, R, s, S, D, L)
    BY <2>5 DEF Kept
  <2>8. SumIs(x, y, p, d, sc, zero, m, rb, sb)
    BY <2>1, <2>2, <2>3, <2>6, <2>7, SumRounds, Zenon
  <2> QED
    BY <1>2, <2>5, <2>8
<1>9. s >= K => SumIs(x, y, p, d, sc, 1, (s \div S) \div 2, (s \div S) % 2 = 1, rest \/ bit)
  <2> SUFFICES ASSUME s >= K
               PROVE  SumIs(x, y, p, d, sc, 1, (s \div S) \div 2, (s \div S) % 2 = 1, rest \/ bit)
    OBVIOUS
  <2>1. Carry(s, K, one, two)
    BY <1>1, <1>2, OneCarry
  <2>2. PICK w \in Nat : IsProduct(w, S, two) /\ IsProduct(w, two, S) /\ IsProduct(w, 2, S)
    BY <1>2 DEF IsProduct
  <2>3. PICK U \in Nat : IsProduct(U, w, D)
    BY DEF IsProduct
  <2>4. BitsOf((s % w) * D + L, U, (s \div S) % 2 = 1, s % S # 0 \/ L # 0)
    BY <1>1, <2>2, <2>3, BitsBelow, Zenon
  <2>5. PICK rb, sb, R, m : rb = ((s \div S) % 2 = 1) /\ sb = (rest \/ bit) /\ R = (s % w) * D + L
                            /\ m = s \div w
    OBVIOUS
  <2>6. BitsOf(R, U, rb, sb)
    <3>1. s % S # 0 <=> (r # 0 \/ j = 1)
      <4>1. j = 0 \/ j = 1
        BY <1>6
      <4>2. 0 * h = 0 /\ 1 * h = h
        OBVIOUS
      <4> QED
        BY <1>5, <4>1, <4>2
    <3>2. (rest \/ bit) <=> (s % S # 0 \/ L # 0)
      BY <1>5, <1>7, <3>1
    <3>3. rb \in BOOLEAN /\ sb \in BOOLEAN /\ (rb <=> (s \div S) % 2 = 1) /\ (sb <=> (s % S # 0 \/ L # 0))
      BY <2>5, <3>2
    <3> QED
      BY <2>4, <2>5, <3>3, BitsAgree, Zenon
  <2>7. Kept(m, R, s, w, D, L)
    BY <2>5 DEF Kept
  <2>8. SumIs(x, y, p, d, sc, one, m, rb, sb)
    BY <2>1, <2>2, <2>3, <2>6, <2>7, SumRounds, Zenon
  <2>9. m = (s \div S) \div 2
    <3>1. PICK i \in Nat, k \in Nat, t \in Nat : CutTwice(s, S, two, i, k, t)
      BY <1>1, <1>2, CutTwiceExists, Zenon
    <3>2. s \div S = i * two + k /\ s \div w = i
      BY <1>1, <1>2, <2>2, <3>1, CutTwiceIs
    <3>3. k < 2
      BY <1>2, <3>1 DEF CutTwice
    <3>4. PICK g \in Nat : g = s \div S /\ g = i * 2 + k
      BY <1>2, <3>2
    <3>5. g \div 2 = i
      BY <3>3, <3>4
    <3>6. m = s \div w
      BY <2>5
    <3> QED
      BY <3>2, <3>4, <3>5, <3>6
  <2> QED
    BY <1>2, <2>5, <2>8, <2>9
<1> QED
  BY <1>8, <1>9, Zenon DEF NearRounds

\* How mpfr_add1sp ends, from the round bit and the sticky bit.
NearEnd(p, m, e, rb, sb, rnd, neg) ==
  LET any == IF rb \/ sb THEN -1 ELSE 0
  IN CASE rnd = "RNDF" -> SetExponent(p, m, e, 0, rnd, neg)
       [] rnd = "RNDN" ->
            IF rb /\ (sb \/ m % 2 = 1) THEN AddOneUlpSp(p, m, e, rnd, neg)
            ELSE SetExponent(p, m, e, any, rnd, neg)
       [] OTHER ->
            IF any = 0 \/ IsLikeRNDZ(rnd, neg) THEN SetExponent(p, m, e, any, rnd, neg)
            ELSE AddOneUlpSp(p, m, e, rnd, neg)

\* It ends as a rounding by the two bits does.
LEMMA NearEnds ==
  ASSUME NEW p \in Nat, p > 0, NEW m, IsSignificand(m, p), NEW e \in Int, emin <= e,
         NEW rb \in BOOLEAN, NEW sb \in BOOLEAN, NEW rnd \in Rnds, NEW neg \in BOOLEAN
  PROVE  EndsWith(NearEnd(p, m, e, rb, sb, rnd, neg), p, m, e, rb, sb, rnd, neg)
<1>1. CASE rnd = "RNDF"
  <2>1. NearEnd(p, m, e, rb, sb, rnd, neg) = SetExponent(p, m, e, 0, "RNDF", neg)
    BY <1>1 DEF NearEnd
  <2> QED
    BY <1>1, <2>1, SetExponentFaithful
<1>2. CASE rnd # "RNDF"
  <2>1. rnd \in OneWay
    BY <1>2 DEF OneWay
  <2>2. PICK z \in BOOLEAN, odd \in BOOLEAN : z = IsLikeRNDZ(rnd, neg) /\ odd = (m % 2 = 1)
    BY DEF IsLikeRNDZ
  <2>3. PICK any : any = IF rb \/ sb THEN -1 ELSE 0
    OBVIOUS
  <2>4. Up(m, rb, sb, rnd, neg) <=> (rb \/ sb) /\ IF rnd = "RNDN" THEN rb /\ (sb \/ odd) ELSE ~ z
    BY <2>2, Zenon DEF Up
  <2>5. NearEnd(p, m, e, rb, sb, rnd, neg)
          = IF rnd = "RNDN"
            THEN IF rb /\ (sb \/ odd) THEN AddOneUlpSp(p, m, e, rnd, neg)
                 ELSE SetExponent(p, m, e, any, rnd, neg)
            ELSE IF any = 0 \/ z THEN SetExponent(p, m, e, any, rnd, neg)
                 ELSE AddOneUlpSp(p, m, e, rnd, neg)
    <3>1. CASE rnd = "RNDN"
      BY <1>2, <2>2, <2>3, <3>1 DEF NearEnd
    <3>2. CASE rnd # "RNDN"
      BY <1>2, <2>2, <2>3, <3>2 DEF NearEnd
    <3> QED
      BY <3>1, <3>2
  <2>6. any = 0 <=> ~ rb /\ ~ sb
    BY <2>3
  <2>7. CASE Up(m, rb, sb, rnd, neg)
    <3>1. NearEnd(p, m, e, rb, sb, rnd, neg) = AddOneUlpSp(p, m, e, rnd, neg)
      BY <2>4, <2>5, <2>6, <2>7
    <3> QED
      BY <2>1, <2>7, <3>1, AddOneUlpEnds
  <2>8. CASE ~ Up(m, rb, sb, rnd, neg)
    <3>1. NearEnd(p, m, e, rb, sb, rnd, neg) = SetExponent(p, m, e, any, rnd, neg)
      BY <2>4, <2>5, <2>6, <2>8
    <3>2. any = IF ~ rb /\ ~ sb THEN 0 ELSE -1
      BY <2>3
    <3> QED
      BY <2>1, <2>8, <3>1, <3>2, SetExponentEnds
  <2> QED
    BY <2>7, <2>8
<1> QED
  BY <1>1, <1>2

\* The bits rb and sb without carry, and what becomes of them with a carry.
NearSum(x, y, p, d, sc, carry, q, rb, sb) ==
  IF carry THEN SumIs(x, y, p, d, sc, 1, q \div 2, q % 2 = 1, sb \/ rb)
           ELSE SumIs(x, y, p, d, sc, 0, q, rb, sb)

\* When the numbers fill their limbs, the bits are those of what is lost.
LEMMA NearSumWhole ==
  ASSUME NEW x, NEW y, NEW p, NEW d, NEW sc, NEW K \in Nat, NEW D \in Nat,
         NEW q, NEW L \in Nat, NEW s \in Nat,
         FullSum(x, y, p, d, K, D, q, L, s), FullSumRounds(x, y, p, d, sc, K, D, L, s),
         NEW rb, NEW sb, BitsOf(L, D, rb, sb)
  PROVE  NearSum(x, y, p, d, sc, s >= K, s, rb, sb)
<1>1. s >= K \/ s < K
  OBVIOUS
<1>2. CASE s >= K
  <2>1. SumIs(x, y, p, d, sc, 1, s \div 2, s % 2 = 1, L # 0)
    BY <1>2 DEF FullSumRounds
  <2>2. D > 0
    BY DEF FullSum
  <2>3. (sb \/ rb) = (L # 0)
    BY <2>2 DEF BitsOf
  <2> QED
    BY <1>2, <2>1, <2>3 DEF NearSum
<1>3. CASE s < K
  <2>1. SumIs(x, y, p, d, sc, 0, s, rb, sb)
    BY <1>3 DEF FullSumRounds
  <2>2. ~ (s >= K)
    BY <1>3
  <2> QED
    BY <2>1, <2>2 DEF NearSum
<1> QED
  BY <1>1, <1>2, <1>3

BitsSeen(s, S, h, L, rb, sb) ==
  /\ rb \in BOOLEAN /\ (rb <=> ((s % S) \div h) = 1)
  /\ sb \in BOOLEAN /\ (sb <=> (L # 0 \/ s % h # 0))

\* Otherwise those of the array come first.
LEMMA NearSumMasked ==
  ASSUME NEW x, NEW y, NEW p, NEW d, NEW sc, NEW S, NEW h, NEW K \in Nat, NEW L, NEW s \in Nat,
         NearRounds(x, y, p, d, sc, S, h, K, L, s),
         NEW rb, NEW sb, BitsSeen(s, S, h, L, rb, sb)
  PROVE  NearSum(x, y, p, d, sc, s >= K, s \div S, rb, sb)
<1>1. rb = (((s % S) \div h) = 1) /\ sb = (L # 0 \/ s % h # 0)
  BY DEF BitsSeen
<1>2. CASE s >= K
  BY <1>1, <1>2, Zenon DEF NearRounds, NearSum
<1>3. CASE ~ (s >= K)
  <2>1. s < K
    BY <1>3
  <2> QED
    BY <1>1, <1>3, <2>1, Zenon DEF NearRounds, NearSum
<1> QED
  BY <1>2, <1>3

\* What mpfr_add1sp knows of the sum: a is what is left of it in the array.
NearRb(a, low, sh) == IF sh > 0 THEN Bit(a, sh - 1) = 1 ELSE low >= HighBit
NearSb(a, low, sh) == IF sh > 0 THEN low # 0 \/ a % 2^(sh - 1) # 0 ELSE low % HighBit # 0
NearBits(x, y, p, d, sc, sh, s, K) ==
  LET low == LostLimb(Mant(y), d)
  IN NearSum(x, y, p, d, sc, s >= K, s \div 2^sh, NearRb(s % K, low, sh), NearSb(s % K, low, sh))

\* They are right when the numbers fill their limbs,
LEMMA NearBitsWhole ==
  ASSUME NEW x, NEW y, NEW p, NEW d, NEW sc, Apart(x, y, p, d, sc), Units(p, sc), d > 0,
         NEW n, InLimbs(n, p, 0)
  PROVE  NearBits(x, y, p, d, sc, 0, Mant(x) + Mant(y) \div 2^d, 2^(n * W))
<1>1. /\ IsOperand(x, p) /\ IsOperand(y, p) /\ p \in Nat /\ d \in Nat /\ y.mant \in Nat
  BY DEF Apart, IsOperand, IsSignificand
<1>2. n * W = p /\ Mant(x) = x.mant /\ Mant(y) = y.mant
  BY <1>1, WholeLimbs
<1>3. PICK K, D, q, L, s \in Nat :
        FullSum(x, y, p, d, K, D, q, L, s) /\ FullSumRounds(x, y, p, d, sc, K, D, L, s)
  BY FullSumIs
<1>4. /\ K = 2^p /\ s = x.mant + y.mant \div 2^d /\ Power(D, d) /\ L = y.mant % D /\ L < D
  BY <1>3 DEF FullSum, Power
<1>5. PICK low : low = LostLimb(y.mant, d)
  OBVIOUS
<1>6. low \in Nat /\ low < 2^W /\ Alike(L, D, low, 2^W)
  <2>1. low = IF d = 0 THEN 0 ELSE LostLimb(y.mant, d)
    BY <1>1, <1>5
  <2> QED
    BY <1>1, <1>4, <2>1, LowLimb
<1>7. BitsOf(L, D, low >= HighBit, low % HighBit # 0)
  BY <1>4, <1>6, LowBits
<1>8. NearSum(x, y, p, d, sc, s >= K, s, low >= HighBit, low % HighBit # 0)
  BY <1>3, <1>7, NearSumWhole, Zenon
<1>9. s \div 2^0 = s
  BY PowZero
<1>10. NearRb(s % K, low, 0) = (low >= HighBit) /\ NearSb(s % K, low, 0) = (low % HighBit # 0)
  BY DEF NearRb, NearSb
<1> QED
  BY <1>2, <1>4, <1>5, <1>8, <1>9, <1>10, Zenon DEF NearBits

\* and when they do not.
LEMMA NearBitsMasked ==
  ASSUME NEW x, NEW y, NEW p, NEW d, NEW sc, Apart(x, y, p, d, sc), Units(p, sc), d > 0,
         NEW n, NEW sh, InLimbs(n, p, sh), sh > 0
  PROVE  NearBits(x, y, p, d, sc, sh, Mant(x) + Mant(y) \div 2^d, 2^(n * W))
<1>1. /\ IsOperand(x, p) /\ IsOperand(y, p) /\ p \in Nat /\ d \in Nat /\ sh \in Nat /\ n * W = p + sh
  BY DEF Apart, InLimbs
<1>2. PICK S, K, B, C, D, q, L, s \in Nat : SumArrays(x, y, p, d, sh, S, K, B, C, D, q, L, s)
  BY <1>1, SumArraysExist
<1>3. /\ Power(S, sh) /\ S > 0 /\ K > 0 /\ B = x.mant * S /\ C = y.mant * S /\ Power(K, p + sh)
      /\ Power(D, d) /\ q = C \div D /\ L = C % D /\ s = B + q
  BY <1>2 DEF SumArrays, Moved
<1>4. PICK h \in Nat : Power(h, sh - 1) /\ IsProduct(S, 2, h) /\ h > 0
  BY <1>1, <1>3, PowerEven
<1>5. Mant(x) = B /\ Mant(y) = C
  BY <1>1, <1>3, MantIs
<1>6. s = Mant(x) + Mant(y) \div 2^d /\ K = 2^(n * W) /\ 2^sh = S /\ 2^(sh - 1) = h
  BY <1>1, <1>3, <1>4, <1>5 DEF Power
<1>7. NearRounds(x, y, p, d, sc, S, h, K, L, s)
  BY <1>1, <1>2, <1>4, NearMasked, Zenon
<1>8. PICK low : low = LostLimb(C, d)
  OBVIOUS
<1>9. low = 0 <=> L = 0
  <2>1. low = IF d = 0 THEN 0 ELSE LostLimb(C, d)
    BY <1>1, <1>8
  <2>2. Alike(L, D, low, 2^W)
    BY <1>1, <1>3, <2>1, LowLimb
  <2> QED
    BY <2>2 DEF Alike
<1>10. (s % K) % S = s % S /\ (s % K) % h = s % h
  <2>1. PICK P \in Nat : Power(P, p)
    BY <1>1, PowerExists
  <2>2. IsProduct(K, P, S)
    BY <1>1, <1>3, <2>1, PowerProduct
  <2>3. PICK Q \in Nat : Q = P * 2
    OBVIOUS
  <2>4. IsProduct(K, Q, h)
    <3>1. K = P * S /\ S = 2 * h
      BY <1>4, <2>2 DEF IsProduct
    <3>2. P * (2 * h) = (P * 2) * h
      OBVIOUS
    <3> QED
      BY <2>3, <3>1, <3>2 DEF IsProduct
  <2>5. K > 0 /\ S > 0 /\ h > 0
    BY <1>3, <1>4
  <2>6. SameMod(s, K, S)
    BY <2>2, <2>5, ModMod, Zenon
  <2>7. SameMod(s, K, h)
    BY <2>4, <2>5, ModMod, Zenon
  <2> QED
    BY <2>6, <2>7 DEF SameMod
<1>11. PICK a : a = s % K
  OBVIOUS
<1>12. NearRb(a, low, sh) <=> ((s % S) \div h) = 1
  <2>1. (sh - 1) + 1 = sh
    BY <1>1
  <2>2. Bit(a, sh - 1) = (a % S) \div h
    BY <1>6, <2>1 DEF Bit, Bits
  <2> QED
    BY <1>10, <1>11, <2>2 DEF NearRb
<1>13. NearSb(a, low, sh) <=> (L # 0 \/ s % h # 0)
  BY <1>6, <1>9, <1>10, <1>11 DEF NearSb
<1>14. NearRb(a, low, sh) \in BOOLEAN /\ NearSb(a, low, sh) \in BOOLEAN
  BY DEF NearRb, NearSb
<1>15. NearSum(x, y, p, d, sc, s >= K, s \div S, NearRb(a, low, sh), NearSb(a, low, sh))
  <2>1. PICK rb \in BOOLEAN, sb \in BOOLEAN : rb = NearRb(a, low, sh) /\ sb = NearSb(a, low, sh)
    BY <1>14
  <2>2. BitsSeen(s, S, h, L, rb, sb)
    BY <1>12, <1>13, <2>1 DEF BitsSeen
  <2>3. NearSum(x, y, p, d, sc, s >= K, s \div S, rb, sb)
    BY <1>7, <2>2, NearSumMasked, Zenon
  <2> QED
    BY <2>1, <2>3
<1> QED
  BY <1>5, <1>6, <1>8, <1>11, <1>15, Zenon DEF NearBits

\* 0 < d < p
LEMMA AddNearRight ==
  ASSUME NEW x, NEW y, NEW p, NEW d, NEW sc, Apart(x, y, p, d, sc), Units(p, sc), d > 0,
         NEW rnd \in Rnds, NEW neg \in BOOLEAN
  PROVE  RightSum(AddNear(x, y, d, rnd, neg), x, y, p, d, sc, rnd, neg)
<1>1. /\ p \in Nat /\ p > 0 /\ x.exp \in Int /\ emin <= x.exp /\ emin \in Int /\ x.prec = p
  BY RangeAssumption DEF Apart, IsOperand
<1>2. PICK n, sh : n = NLimbs(p) /\ sh = MinusModulo(p)
  OBVIOUS
<1>3. InLimbs(n, p, sh) /\ sh \in Nat
  BY <1>1, <1>2, LimbsOf DEF InLimbs
<1>4. PICK s, K, low : s = Mant(x) + Mant(y) \div 2^d /\ K = 2^(n * W) /\ low = LostLimb(Mant(y), d)
  OBVIOUS
<1>5. NearBits(x, y, p, d, sc, sh, s, K)
  BY <1>3, <1>4, NearBitsWhole, NearBitsMasked
<1>6. PICK q, rb, sb : /\ q = s \div 2^sh /\ rb = NearRb(s % K, low, sh) /\ sb = NearSb(s % K, low, sh)
                       /\ rb \in BOOLEAN /\ sb \in BOOLEAN
  <2>1. NearRb(s % K, low, sh) \in BOOLEAN /\ NearSb(s % K, low, sh) \in BOOLEAN
    <3>1. CASE sh > 0
      BY <3>1 DEF NearRb, NearSb
    <3>2. CASE ~ (sh > 0)
      BY <3>2 DEF NearRb, NearSb
    <3> QED
      BY <3>1, <3>2
  <2> QED
    BY <2>1
<1>7. NearSum(x, y, p, d, sc, s >= K, q, rb, sb)
  BY <1>4, <1>5, <1>6 DEF NearBits
<1>8. PICK t : t = AddNear(x, y, d, rnd, neg)
  OBVIOUS
<1>9. t = NearEnd(p, IF s >= K THEN q \div 2 ELSE q, IF s >= K THEN x.exp + 1 ELSE x.exp,
                  IF s >= K THEN q % 2 = 1 ELSE rb, sb \/ (s >= K /\ rb), rnd, neg)
  BY <1>1, <1>2, <1>4, <1>6, <1>8, Zenon DEF AddNear, NearEnd, NearRb, NearSb
<1>10. ASSUME NEW carry \in {0, 1}, NEW m, NEW e, NEW r, NEW i, SumIs(x, y, p, d, sc, carry, m, r, i),
              e = x.exp + carry, t = NearEnd(p, m, e, r, i, rnd, neg)
       PROVE  RightSum(t, x, y, p, d, sc, rnd, neg)
  <2>1. r \in BOOLEAN /\ i \in BOOLEAN /\ IsSignificand(m, p) /\ e \in Int /\ emin <= e
    BY <1>1, <1>10, SumIsBits
  <2>2. EndsWith(t, p, m, e, r, i, rnd, neg)
    BY <1>1, <1>10, <2>1, NearEnds
  <2> QED
    BY <1>10, <2>2, SumEnds
<1>11. CASE s >= K
  <2>1. SumIs(x, y, p, d, sc, 1, q \div 2, q % 2 = 1, sb \/ rb)
    BY <1>7, <1>11, Zenon DEF NearSum
  <2>2. t = NearEnd(p, q \div 2, x.exp + 1, q % 2 = 1, sb \/ rb, rnd, neg)
    BY <1>9, <1>11
  <2>3. RightSum(t, x, y, p, d, sc, rnd, neg)
    BY <1>10, <2>1, <2>2
  <2> QED
    BY <1>8, <2>3
<1>12. CASE ~ (s >= K)
  <2>1. SumIs(x, y, p, d, sc, 0, q, rb, sb)
    BY <1>7, <1>12, Zenon DEF NearSum
  <2>2. t = NearEnd(p, q, x.exp + 0, rb, sb, rnd, neg)
    <3>1. (sb \/ (s >= K /\ rb)) = sb
      BY <1>6, <1>12
    <3>2. x.exp + 0 = x.exp
      BY <1>1
    <3> QED
      BY <1>9, <1>12, <3>1, <3>2
  <2>3. RightSum(t, x, y, p, d, sc, rnd, neg)
    BY <1>10, <2>1, <2>2
  <2> QED
    BY <1>8, <2>3
<1> QED
  BY <1>11, <1>12

\* mpfr_add1sp without the special code of a few limbs.
LEMMA AddAnyRight ==
  ASSUME NEW b, NEW c, NEW x, NEW y, NEW p, NEW d, NEW sc, TwoOperands(b, c, x, y, p, d, sc),
         NEW rnd \in Rnds, NEW neg \in BOOLEAN
  PROVE  RightSum(Add1spAny(b, c, rnd, neg), x, y, p, d, sc, rnd, neg)
<1>1. /\ Units(p, sc) /\ Apart(x, y, p, d, sc) /\ x = Larger(b, c) /\ y = Smaller(b, c)
      /\ d = x.exp - y.exp /\ b.prec = p /\ p \in Nat /\ d \in Nat /\ p > 0
  BY DEF TwoOperands, Apart, IsOperand
<1>2. Add1spAny(b, c, rnd, neg) = CASE d = 0 -> AddAligned(x, y, rnd, neg)
                                    [] d >= p -> AddFar(x, y, d, rnd, neg)
                                    [] OTHER -> AddNear(x, y, d, rnd, neg)
  BY <1>1, Zenon DEF Add1spAny
<1>3. CASE d = 0
  <2>1. Add1spAny(b, c, rnd, neg) = AddAligned(x, y, rnd, neg)
    BY <1>1, <1>2, <1>3
  <2>2. RightSum(AddAligned(x, y, rnd, neg), x, y, p, 0, sc, rnd, neg)
    BY <1>1, <1>3, AddAlignedRight
  <2> QED
    BY <1>3, <2>1, <2>2
<1>4. CASE d >= p
  <2>1. Add1spAny(b, c, rnd, neg) = AddFar(x, y, d, rnd, neg)
    BY <1>1, <1>2, <1>4
  <2> QED
    BY <1>1, <1>4, <2>1, AddFarRight
<1>5. CASE d > 0 /\ ~ (d >= p)
  <2>1. Add1spAny(b, c, rnd, neg) = AddNear(x, y, d, rnd, neg)
    BY <1>1, <1>2, <1>5
  <2> QED
    BY <1>1, <1>5, <2>1, AddNearRight
<1> QED
  BY <1>1, <1>3, <1>4, <1>5

\* The magnitude of x, in units of which there are 2^sc in 1.
ScaledValue(x, sc) == x.mant * 2^((x.exp + sc) - x.prec)

\* The sum in units of the last bit of y is the sum of the values.
LEMMA SumValue ==
  ASSUME NEW x, NEW y, NEW p, NEW d, NEW sc, Apart(x, y, p, d, sc)
  PROVE  ExactAt(SumOfTwo(x, y, d), y, p, sc) = ScaledValue(x, sc) + ScaledValue(y, sc)
<1>1. /\ p \in Nat /\ d \in Nat /\ x.exp = y.exp + d /\ y.exp \in Int /\ sc \in Nat /\ p <= y.exp + sc
      /\ x.mant \in Nat /\ y.mant \in Nat /\ x.prec = p /\ y.prec = p /\ emin \in Int
  BY RangeAssumption DEF Apart, IsOperand, IsSignificand
<1>2. PICK g \in Nat : g = (y.exp + sc) - p
  BY <1>1
<1>3. (x.exp + sc) - p = d + g
  BY <1>1, <1>2
<1>4. PICK D \in Nat, G \in Nat : D = 2^d /\ G = 2^g
  BY <1>1, PowNat
<1>5. 2^(d + g) = D * G
  BY <1>1, <1>4, PowAdd
<1>6. ExactAt(SumOfTwo(x, y, d), y, p, sc) = (x.mant * D + y.mant) * G
  BY <1>2, <1>4 DEF ExactAt, SumOfTwo
<1>7. ScaledValue(x, sc) = x.mant * (D * G) /\ ScaledValue(y, sc) = y.mant * G
  BY <1>1, <1>2, <1>3, <1>4, <1>5, Zenon DEF ScaledValue
<1>8. (x.mant * D + y.mant) * G = x.mant * (D * G) + y.mant * G
  BY <1>1
<1> QED
  BY <1>6, <1>7, <1>8

\* The addition of mpfr_add1sp is right, by whatever code it is made: the sum that is returned is the
\* exact one, correctly rounded, with the ternary value and the exceptions that go with it; with
\* faithful rounding it is one of the two numbers around it.
THEOREM AddSpRight ==
  ASSUME NEW p, NEW sc, Units(p, sc), NEW b, IsOperand(b, p), NEW c, IsOperand(c, p),
         NEW rnd \in Rnds, NEW generic \in BOOLEAN
  PROVE  RightResult(Add1sp(b, c, rnd, generic), p, sc, ScaledValue(b, sc) + ScaledValue(c, sc),
                     rnd, b.neg)
<1>1. p \in Nat /\ p > 0 /\ W \in Nat /\ W > 0 /\ b.prec = p /\ b.neg \in BOOLEAN
  BY HighBitIs DEF Units, IsOperand
<1>2. PICK x, y : x = Larger(b, c) /\ y = Smaller(b, c)
  OBVIOUS
<1>3. PICK d \in Nat : Apart(x, y, p, d, sc) /\ d = x.exp - y.exp
  BY <1>2, LargerSmaller
<1>4. (x = b /\ y = c) \/ (x = c /\ y = b)
  BY <1>2 DEF Larger, Smaller
<1>5. TwoOperands(b, c, x, y, p, d, sc)
  BY <1>2, <1>3, <1>4 DEF TwoOperands
<1>6. ExactAt(SumOfTwo(x, y, d), y, p, sc) = ScaledValue(b, sc) + ScaledValue(c, sc)
  <2>1. ExactAt(SumOfTwo(x, y, d), y, p, sc) = ScaledValue(x, sc) + ScaledValue(y, sc)
    BY <1>3, SumValue
  <2>2. ScaledValue(b, sc) \in Nat /\ ScaledValue(c, sc) \in Nat
    <3>1. ASSUME NEW z, IsOperand(z, p) PROVE ScaledValue(z, sc) \in Nat
      <4>1. PICK g \in Nat : g = (z.exp + sc) - z.prec
        BY <3>1, RangeAssumption DEF IsOperand, Units
      <4>2. z.mant \in Nat
        BY <3>1 DEF IsOperand, IsSignificand
      <4> QED
        BY <4>1, <4>2, PowNat DEF ScaledValue
    <3> QED
      BY <3>1
  <2> QED
    BY <1>4, <2>1, <2>2
<1>7. PICK t, neg : t = Add1sp(b, c, rnd, generic) /\ neg = b.neg /\ neg \in BOOLEAN
  BY <1>1
<1>8. RightSum(t, x, y, p, d, sc, rnd, neg)
  <2>1. t = CASE generic \/ p >= 3 * W -> Add1spAny(b, c, rnd, neg)
              [] ~ generic /\ p < W -> AddMasked(1, b, c, rnd, neg)
              [] ~ generic /\ p = W -> AddFull(1, b, c, rnd, neg)
              [] ~ generic /\ W < p /\ p < 2 * W -> AddMasked(2, b, c, rnd, neg)
              [] ~ generic /\ p = 2 * W -> AddFull(2, b, c, rnd, neg)
              [] ~ generic /\ 2 * W < p /\ p < 3 * W -> AddMasked(3, b, c, rnd, neg)
    BY <1>1, <1>7, Zenon DEF Add1sp, Add1sp1, Add1sp1n, Add1sp2, Add1sp2n, Add1sp3
  <2>2. CASE generic \/ p >= 3 * W
    <3>1. t = Add1spAny(b, c, rnd, neg)
      BY <1>1, <2>1, <2>2
    <3> QED
      BY <1>5, <1>7, <3>1, AddAnyRight
  <2>3. ASSUME NEW n \in Nat, p < n * W, n * W < p + W PROVE \E sh \in Nat : sh > 0 /\ InLimbs(n, p, sh)
    <3>1. PICK k \in Nat : k = n * W
      BY <1>1
    <3>2. PICK sh \in Nat : sh = k - p
      BY <1>1, <2>3, <3>1
    <3>3. sh > 0 /\ sh < W /\ k = p + sh
      BY <1>1, <2>3, <3>1, <3>2
    <3> QED
      BY <3>1, <3>3 DEF InLimbs
  <2>4. ASSUME NEW n \in Nat, n * W = p PROVE InLimbs(n, p, 0)
    BY <1>1, <2>4 DEF InLimbs
  <2>5. ASSUME NEW n \in Nat, p < n * W, n * W < p + W, t = AddMasked(n, b, c, rnd, neg)
        PROVE  RightSum(t, x, y, p, d, sc, rnd, neg)
    BY <1>5, <1>7, <2>3, <2>5, AddMaskedRight
  <2>6. ASSUME NEW n \in Nat, n * W = p, t = AddFull(n, b, c, rnd, neg)
        PROVE  RightSum(t, x, y, p, d, sc, rnd, neg)
    BY <1>5, <1>7, <2>4, <2>6, AddFullRight
  <2>7. CASE ~ generic /\ p < W
    BY <1>1, <2>1, <2>5, <2>7
  <2>8. CASE ~ generic /\ p = W
    BY <1>1, <2>1, <2>6, <2>8
  <2>9. CASE ~ generic /\ W < p /\ p < 2 * W
    BY <1>1, <2>1, <2>5, <2>9
  <2>10. CASE ~ generic /\ p = 2 * W
    BY <1>1, <2>1, <2>6, <2>10
  <2>11. CASE ~ generic /\ 2 * W < p /\ p < 3 * W
    BY <1>1, <2>1, <2>5, <2>11
  <2> QED
    BY <1>1, <2>2, <2>7, <2>8, <2>9, <2>10, <2>11
<1> QED
  BY <1>6, <1>7, <1>8 DEF RightSum

-----------------------------------------------------------------------------
(* The integer square root *)

\* The integer part of the square root of n.
IsRoot(n, q) == q \in Nat /\ q * q <= n /\ n < (q + 1) * (q + 1)

\* A bit is kept when the square is not too large.
RootStep(n, q, bit) == IF (q + bit) * (q + bit) <= n THEN q + bit ELSE q
\* The bits of the root from the first to the i-th of `bits`.
RootsOf(n, bits, g, k) ==
  /\ g \in [0 .. k -> Nat] /\ g[0] = 0
  /\ \A i \in 1 .. k : g[i] = RootStep(n, g[i - 1], 2^(bits - i))

\* There are such functions.
LEMMA RootsExist ==
  ASSUME NEW n \in Nat, NEW bits \in Nat, NEW k \in Nat, k <= bits
  PROVE  \E g : RootsOf(n, bits, g, k)
<1> DEFINE T == {j \in Nat : j <= bits => \E g : RootsOf(n, bits, g, j)}
<1>1. 0 \in T
  <2>1. RootsOf(n, bits, [i \in 0 .. 0 |-> 0], 0)
    BY DEF RootsOf
  <2> QED
    BY <2>1
<1>2. ASSUME NEW j \in T PROVE j + 1 \in T
  <2>1. SUFFICES ASSUME j + 1 <= bits PROVE \E g : RootsOf(n, bits, g, j + 1)
    OBVIOUS
  <2>2. PICK g : RootsOf(n, bits, g, j)
    BY <2>1
  <2>3. PICK bit \in Nat : bit = 2^(bits - (j + 1))
    BY <2>1, PowNat
  <2> DEFINE h == [i \in 0 .. j + 1 |-> IF i = j + 1 THEN RootStep(n, g[j], bit) ELSE g[i]]
  <2>4. g \in [0 .. j -> Nat] /\ g[0] = 0 /\ g[j] \in Nat
    BY <2>2 DEF RootsOf
  <2>5. RootStep(n, g[j], bit) \in Nat
    BY <2>3, <2>4 DEF RootStep
  <2>6. h \in [0 .. j + 1 -> Nat] /\ h[0] = 0
    BY <2>4, <2>5
  <2>7. ASSUME NEW i \in 1 .. j + 1 PROVE h[i] = RootStep(n, h[i - 1], 2^(bits - i))
    <3>1. CASE i = j + 1
      <4>1. h[i] = RootStep(n, g[j], bit) /\ h[i - 1] = g[j]
        BY <3>1
      <4> QED
        BY <3>1, <4>1, <2>3
    <3>2. CASE i # j + 1
      <4>1. i \in 1 .. j /\ h[i] = g[i] /\ h[i - 1] = g[i - 1]
        BY <3>2
      <4> QED
        BY <4>1, <2>2 DEF RootsOf
    <3> QED
      BY <3>1, <3>2
  <2>8. RootsOf(n, bits, h, j + 1)
    BY <2>6, <2>7 DEF RootsOf
  <2> QED
    BY <2>8
<1>3. T = Nat
  <2> HIDE DEF T
  <2>1. T \in SUBSET Nat
    BY DEF T
  <2> QED
    BY <2>1, <1>1, <1>2, Induction
<1> QED
  BY <1>3

\* Isqrt is the last of them.
LEMMA IsqrtIsLast ==
  ASSUME NEW n \in Nat, NEW bits \in Nat
  PROVE  \E g : RootsOf(n, bits, g, bits) /\ Isqrt(n, bits) = g[bits]
<1> DEFINE Of(h) == [i \in 0 .. bits |-> IF i = 0 THEN 0 ELSE RootStep(n, h[i - 1], 2^(bits - i))]
           root == CHOOSE h : h = Of(h)
<1>1. Isqrt(n, bits) = root[bits]
  BY Zenon DEF Isqrt, RootStep
<1>2. PICK g : RootsOf(n, bits, g, bits)
  BY RootsExist
<1>3. g = Of(g)
  <2>1. g \in [0 .. bits -> Nat] /\ g[0] = 0
    BY <1>2 DEF RootsOf
  <2>2. \A i \in 0 .. bits : g[i] = Of(g)[i]
    BY <1>2, <2>1 DEF RootsOf
  <2> QED
    BY <2>1, <2>2
<1>4. root = Of(root)
  BY <1>3
<1>5. root \in [0 .. bits -> Nat]
  <2> HIDE DEF root
  <2>1. ASSUME NEW i \in 0 .. bits PROVE root[i] = g[i]
    <3> DEFINE T == {j \in Nat : j <= bits => root[j] = g[j]}
    <3>1. root[0] = 0 /\ g[0] = 0
      BY <1>4, <1>2 DEF RootsOf
    <3>2. ASSUME NEW j \in T PROVE j + 1 \in T
      <4>1. SUFFICES ASSUME j + 1 <= bits PROVE root[j + 1] = g[j + 1]
        OBVIOUS
      <4>2. root[j] = g[j] /\ j + 1 \in 1 .. bits /\ (j + 1) - 1 = j
        BY <4>1
      <4>3. root[j + 1] = RootStep(n, root[j], 2^(bits - (j + 1)))
        BY <1>4, <4>2
      <4>4. g[j + 1] = RootStep(n, g[j], 2^(bits - (j + 1)))
        BY <1>2, <4>2 DEF RootsOf
      <4> QED
        BY <4>2, <4>3, <4>4
    <3>3. T = Nat
      <4>1. T \in SUBSET Nat /\ 0 \in T
        BY <3>1
      <4> HIDE DEF T
      <4> QED
        BY <4>1, <3>2, Induction
    <3> QED
      BY <3>3
  <2>2. root = [i \in 0 .. bits |-> root[i]]
    BY <1>4
  <2>3. g \in [0 .. bits -> Nat]
    BY <1>2 DEF RootsOf
  <2> QED
    BY <2>1, <2>2, <2>3
<1>6. RootsOf(n, bits, root, bits)
  <2> HIDE DEF root
  <2>1. root[0] = 0
    BY <1>4
  <2>2. ASSUME NEW i \in 1 .. bits PROVE root[i] = RootStep(n, root[i - 1], 2^(bits - i))
    BY <1>4
  <2> QED
    BY <2>1, <2>2, <1>5 DEF RootsOf
<1> QED
  BY <1>1, <1>6

\* q has the first bits of the root of n, up to the one of weight w.
FirstBitsOfRoot(n, w, q) ==
  q \in Nat /\ q * q <= n /\ n < (q + w) * (q + w)

\* A bit more of the root.
LEMMA RootStepIs ==
  ASSUME NEW n \in Nat, NEW w \in Nat, NEW v \in Nat, v = 2 * w, NEW q, FirstBitsOfRoot(n, v, q)
  PROVE  FirstBitsOfRoot(n, w, RootStep(n, q, w))
<1>1. q \in Nat /\ q + v = (q + w) + w
  BY DEF FirstBitsOfRoot
<1>2. CASE (q + w) * (q + w) <= n
  BY <1>1, <1>2 DEF FirstBitsOfRoot, RootStep
<1>3. CASE ~ (q + w) * (q + w) <= n
  BY <1>1, <1>3 DEF FirstBitsOfRoot, RootStep
<1> QED
  BY <1>2, <1>3

\* Isqrt is the integer part of the square root.
LEMMA IsqrtIs ==
  ASSUME NEW n \in Nat, NEW bits \in Nat, n < 2^bits * 2^bits
  PROVE  IsRoot(n, Isqrt(n, bits))
<1>1. PICK g : RootsOf(n, bits, g, bits) /\ Isqrt(n, bits) = g[bits]
  BY IsqrtIsLast
<1> DEFINE T == {j \in Nat : j <= bits => FirstBitsOfRoot(n, 2^(bits - j), g[j])}
<1>2. 0 \in T
  <2>1. g[0] = 0 /\ bits - 0 = bits
    BY <1>1 DEF RootsOf
  <2>2. PICK v \in Nat : v = 2^bits
    BY PowNat
  <2>3. n < (0 + v) * (0 + v)
    BY <2>2
  <2> QED
    BY <2>1, <2>2, <2>3 DEF FirstBitsOfRoot
<1>3. ASSUME NEW j \in T PROVE j + 1 \in T
  <2>1. SUFFICES ASSUME j + 1 <= bits PROVE FirstBitsOfRoot(n, 2^(bits - (j + 1)), g[j + 1])
    OBVIOUS
  <2>2. j + 1 \in 1 .. bits /\ (j + 1) - 1 = j /\ bits - j \in Nat /\ bits - j # 0
        /\ (bits - j) - 1 = bits - (j + 1)
    BY <2>1
  <2>3. PICK w \in Nat : w = 2^(bits - (j + 1))
    BY <2>2, PowNat
  <2>4. PICK v \in Nat : v = 2^(bits - j)
    BY <2>2, PowNat
  <2>5. v = 2 * w
    BY <2>2, <2>3, <2>4, PowHalf
  <2>6. FirstBitsOfRoot(n, v, g[j])
    BY <2>1, <2>4
  <2>7. g[j + 1] = RootStep(n, g[j], w)
    BY <1>1, <2>2, <2>3 DEF RootsOf
  <2> QED
    BY <2>3, <2>5, <2>6, <2>7, RootStepIs
<1>4. T = Nat
  <2> HIDE DEF T
  <2>1. T \in SUBSET Nat
    BY DEF T
  <2> QED
    BY <2>1, <1>2, <1>3, Induction
<1>5. FirstBitsOfRoot(n, 2^(bits - bits), g[bits])
  <2>1. bits \in T
    BY <1>4
  <2> QED
    BY <2>1
<1>6. bits - bits = 0 /\ 2^0 = 1
  OBVIOUS
<1> QED
  BY <1>1, <1>5, <1>6 DEF FirstBitsOfRoot, IsRoot

-----------------------------------------------------------------------------
(* The root of N in units of w *)

\* q is the root of N in units of w, rounded down;
RootAt(N, w, q) ==
  q \in Nat /\ (q * w) * (q * w) <= N /\ N < ((q + 1) * w) * ((q + 1) * w)

\* and it is exact.
ExactAtRoot(N, w, q) == N = (q * w) * (q * w)

\* Squares are in the order of the numbers.
LEMMA SquareMono ==
  ASSUME NEW a \in Nat, NEW b \in Nat
  PROVE  /\ a <= b <=> a * a <= b * b
         /\ a < b <=> a * a < b * b
<1>1. ASSUME NEW i \in Nat, NEW j \in Nat, i <= j PROVE i * i <= j * j
  <2>1. i * i <= j * i /\ i * j <= j * j
    BY <1>1, MulMono
  <2> QED
    BY <2>1
<1>2. ASSUME NEW i \in Nat, NEW j \in Nat, i < j PROVE i * i < j * j
  <2>1. i * i <= j * i
    BY <1>2, MulMono
  <2>2. i * j < j * j
    BY <1>2, Factor
  <2> QED
    BY <2>1, <2>2
<1> QED
  BY <1>1, <1>2

\* There is one root.
LEMMA RootAtUnique ==
  ASSUME NEW N \in Nat, NEW w \in Nat, w > 0, NEW q, RootAt(N, w, q), NEW k, RootAt(N, w, k)
  PROVE  q = k
<1>1. ASSUME NEW i \in Nat, NEW j \in Nat, i < j,
             (j * w) * (j * w) <= N, N < ((i + 1) * w) * ((i + 1) * w)
      PROVE  FALSE
  <2>1. (i + 1) * w <= j * w
    BY <1>1, MulMono
  <2>2. (i + 1) * w \in Nat /\ j * w \in Nat
    OBVIOUS
  <2>3. ((i + 1) * w) * ((i + 1) * w) <= (j * w) * (j * w)
    BY <2>1, <2>2, SquareMono
  <2> QED
    BY <1>1, <2>2, <2>3
<1>2. q \in Nat /\ k \in Nat
  BY DEF RootAt
<1>3. ~ (q < k)
  BY <1>1, <1>2 DEF RootAt
<1>4. ~ (k < q)
  BY <1>1, <1>2 DEF RootAt
<1> QED
  BY <1>2, <1>3, <1>4

\* In larger units, the root is the quotient, and it is exact when nothing is left aside.
LEMMA RootAtCut ==
  ASSUME NEW N \in Nat, NEW v \in Nat, v > 0, NEW q, RootAt(N, v, q),
         NEW c \in Nat, NEW w \in Nat, IsProduct(w, c, v),
         NEW a \in Nat, NEW b \in Nat, IsQuotient(q, c, a, b)
  PROVE  RootAt(N, w, a) /\ (ExactAtRoot(N, w, a) <=> b = 0 /\ ExactAtRoot(N, v, q))
<1>1. q \in Nat /\ c > 0 /\ b < c /\ q = a * c + b /\ w = c * v
  BY DEF RootAt, IsQuotient, IsProduct
<1>2. PICK A \in Nat : A = a * c
  BY <1>1
<1>3. a * w = A * v
  BY <1>1, <1>2
<1>4. (a + 1) * w = (A + c) * v
  BY <1>1, <1>2
<1>5. A * v <= q * v
  BY <1>1, <1>2, MulMono
<1>6. (q + 1) * v <= (A + c) * v
  BY <1>1, <1>2, MulMono
<1>7. A * v \in Nat /\ q * v \in Nat /\ (q + 1) * v \in Nat /\ (A + c) * v \in Nat
  BY <1>1, <1>2
<1>8. (A * v) * (A * v) <= (q * v) * (q * v)
  BY <1>5, <1>7, SquareMono
<1>9. ((q + 1) * v) * ((q + 1) * v) <= ((A + c) * v) * ((A + c) * v)
  BY <1>6, <1>7, SquareMono
<1>10. RootAt(N, w, a)
  BY <1>3, <1>4, <1>7, <1>8, <1>9 DEF RootAt
<1>11. ASSUME b = 0 PROVE ExactAtRoot(N, w, a) <=> ExactAtRoot(N, v, q)
  <2>1. q = A
    BY <1>1, <1>2, <1>11
  <2> QED
    BY <2>1, <1>3 DEF ExactAtRoot
<1>12. ASSUME b # 0 PROVE ~ ExactAtRoot(N, w, a)
  <2>1. A * v < q * v
    BY <1>1, <1>2, <1>12, Factor
  <2>2. (A * v) * (A * v) < (q * v) * (q * v)
    BY <2>1, <1>7, SquareMono
  <2> QED
    BY <2>2, <1>3, <1>7 DEF ExactAtRoot, RootAt
<1> QED
  BY <1>10, <1>11, <1>12

\* The root of what is left of `wide` when it is divided by C, a unit of the root being t.
LEMMA RootOfQuotient ==
  ASSUME NEW wide \in Nat, NEW C \in Nat, NEW a \in Nat, NEW rest \in Nat, IsQuotient(wide, C, a, rest),
         NEW q, IsRoot(a, q), NEW t \in Nat, t > 0, NEW N \in Nat, N * C = wide * (t * t)
  PROVE  RootAt(N, t, q) /\ (ExactAtRoot(N, t, q) <=> rest = 0 /\ q * q = a)
<1>1. q \in Nat /\ C > 0 /\ rest < C /\ wide = a * C + rest /\ q * q <= a /\ a < (q + 1) * (q + 1)
  BY DEF IsRoot, IsQuotient
<1>2. PICK Q \in Nat : Q = q * q
  BY <1>1
<1>3. PICK R \in Nat : R = (q + 1) * (q + 1)
  BY <1>1
<1>4. PICK u \in Nat : u = t * t /\ u > 0
  OBVIOUS
<1>5. (q * t) * (q * t) = Q * u
  BY <1>1, <1>2, <1>4
<1>6. ((q + 1) * t) * ((q + 1) * t) = R * u
  <2>1. PICK k \in Nat : k = q + 1
    BY <1>1
  <2>2. (k * t) * (k * t) = (k * k) * (t * t)
    BY <2>1
  <2> QED
    BY <2>1, <2>2, <1>3, <1>4
<1>7. Q * C <= wide /\ (Q * C = wide <=> rest = 0 /\ Q = a)
  <2>1. Q * C <= a * C /\ (Q * C = a * C <=> Q = a)
    BY <1>1, <1>2, MulMono, Factor
  <2>2. Q * C \in Nat /\ a * C \in Nat
    BY <1>1
  <2> QED
    BY <1>1, <2>1, <2>2
<1>8. wide < R * C
  <2>1. (a + 1) * C <= R * C
    BY <1>1, <1>3, MulMono
  <2>2. (a + 1) * C = a * C + C
    BY <1>1
  <2>3. R * C \in Nat /\ a * C \in Nat
    BY <1>1
  <2> QED
    BY <1>1, <2>1, <2>2, <2>3
<1>9. N * C = wide * u /\ (Q * u) * C = (Q * C) * u /\ (R * u) * C = (R * C) * u
  BY <1>4
<1>10. Q * u <= N /\ (Q * u = N <=> Q * C = wide)
  <2>1. (Q * C) * u <= wide * u
    BY <1>7, <1>4, MulMono
  <2>2. (Q * u) * C <= N * C
    BY <1>9, <2>1
  <2>3. Q * u \in Nat /\ Q * C \in Nat
    OBVIOUS
  <2>4. Q * u <= N
    BY <2>2, <2>3, <1>1, MulCancel
  <2>5. (Q * u) * C = N * C <=> Q * u = N
    BY <2>3, <1>1, Factor
  <2>6. (Q * C) * u = wide * u <=> Q * C = wide
    BY <2>3, <1>4, Factor
  <2> QED
    BY <2>4, <2>5, <2>6, <1>9
<1>11. N < R * u
  <2>1. R * u \in Nat /\ R * C \in Nat
    OBVIOUS
  <2>2. wide * u < (R * C) * u
    BY <2>1, <1>8, <1>4, Factor
  <2>3. N * C < (R * u) * C
    BY <1>9, <2>2
  <2> QED
    BY <2>1, <2>3, <1>1, MulCancel
<1> QED
  BY <1>1, <1>2, <1>5, <1>6, <1>7, <1>10, <1>11 DEF RootAt, ExactAtRoot

-----------------------------------------------------------------------------
(* What the root of N tells of a rounding: m in units of 2 * v, the bit that follows, and *)
(* whether there is more.                                                                 *)

\* m and one bit more.
WithBit(m, rb) == 2 * m + (IF rb THEN 1 ELSE 0)

\* m, the bit rb that follows it, and whether there is more, of the root of N.
Seen(N, v, m, rb, sb) ==
  /\ m \in Nat /\ rb \in BOOLEAN /\ sb \in BOOLEAN
  /\ RootAt(N, v, WithBit(m, rb))
  /\ sb <=> ~ ExactAtRoot(N, v, WithBit(m, rb))

\* and when it is the scaled number whose root is taken.
LEMMA RootOfScaled ==
  ASSUME NEW n \in Nat, NEW q, IsRoot(n, q), NEW t \in Nat, t > 0, NEW N \in Nat, N = n * (t * t)
  PROVE  RootAt(N, t, q) /\ (ExactAtRoot(N, t, q) <=> q * q = n)
<1>1. PICK one \in Nat : one = 1
  OBVIOUS
<1>2. PICK z \in Nat : z = 0
  OBVIOUS
<1>3. IsQuotient(n, one, n, z)
  BY <1>1, <1>2 DEF IsQuotient
<1>4. PICK T \in Nat : T = t * t
  OBVIOUS
<1>5. N * one = n * (t * t)
  BY <1>1, <1>4
<1>6. RootAt(N, t, q) /\ (ExactAtRoot(N, t, q) <=> z = 0 /\ q * q = n)
  BY <1>3, <1>5, RootOfQuotient
<1> QED
  BY <1>2, <1>6

\* What is seen of N is determined.
LEMMA SeenUnique ==
  ASSUME NEW N \in Nat, NEW v \in Nat, v > 0, NEW m, NEW rb, NEW sb, Seen(N, v, m, rb, sb),
         NEW m2, NEW rb2, NEW sb2, Seen(N, v, m2, rb2, sb2)
  PROVE  m = m2 /\ rb = rb2 /\ sb = sb2
<1>1. m \in Nat /\ m2 \in Nat /\ rb \in BOOLEAN /\ rb2 \in BOOLEAN /\ sb \in BOOLEAN /\ sb2 \in BOOLEAN
  BY DEF Seen
<1>2. WithBit(m, rb) = WithBit(m2, rb2)
  BY RootAtUnique DEF Seen
<1>3. m = m2 /\ rb = rb2
  <2>1. CASE rb /\ rb2
    BY <1>1, <1>2, <2>1 DEF WithBit
  <2>2. CASE ~ rb /\ ~ rb2
    BY <1>1, <1>2, <2>2 DEF WithBit
  <2>3. CASE rb /\ ~ rb2
    BY <1>1, <1>2, <2>3 DEF WithBit
  <2>4. CASE ~ rb /\ rb2
    BY <1>1, <1>2, <2>4 DEF WithBit
  <2> QED
    BY <1>1, <2>1, <2>2, <2>3, <2>4
<1>4. sb <=> sb2
  BY <1>2 DEF Seen
<1> QED
  BY <1>1, <1>3, <1>4

\* q is Q in units of S = 2c, then the bit a, then b.
Halves(q, c, S, Q, a, b) ==
  /\ a < 2 /\ b < c /\ q = (Q * 2 + a) * c + b
  /\ q % c = b /\ q \div S = Q /\ (q % S) \div c = a

\* Every number can be cut so.
LEMMA HalfCut ==
  ASSUME NEW q \in Nat, NEW c \in Nat, c > 0, NEW S \in Nat, IsProduct(S, 2, c)
  PROVE  \E Q \in Nat, a \in Nat, b \in Nat : Halves(q, c, S, Q, a, b)
<1>1. PICK two \in Nat : two = 2 /\ two > 0
  OBVIOUS
<1>2. PICK Q \in Nat, a \in Nat, b \in Nat : CutTwice(q, c, two, Q, a, b)
  BY <1>1, CutTwiceExists, Zenon
<1>3. IsProduct(S, two, c)
  BY <1>1
<1>4. q % c = b /\ q \div S = Q /\ (q % S) \div c = a
  BY <1>1, <1>2, <1>3, CutTwiceIs
<1>5. a < 2 /\ b < c /\ q = (Q * 2 + a) * c + b
  BY <1>1, <1>2 DEF CutTwice
<1> QED
  BY <1>4, <1>5 DEF Halves

\* And in one way only.
LEMMA HalvesAre ==
  ASSUME NEW q \in Nat, NEW c \in Nat, c > 0, NEW S \in Nat, IsProduct(S, 2, c),
         NEW Q \in Nat, NEW a \in Nat, NEW b \in Nat, a < 2, b < c, q = (Q * 2 + a) * c + b
  PROVE  Halves(q, c, S, Q, a, b)
<1>1. PICK two \in Nat : two = 2 /\ two > 0
  OBVIOUS
<1>2. CutTwice(q, c, two, Q, a, b)
  BY <1>1 DEF CutTwice
<1>3. IsProduct(S, two, c)
  BY <1>1
<1>4. q % c = b /\ q \div S = Q /\ (q % S) \div c = a
  BY <1>1, <1>2, <1>3, CutTwiceIs
<1> QED
  BY <1>4 DEF Halves

\* The code cuts q, a root in units of t: m, the bit that follows and the c last values.
LEMMA SeenCut ==
  ASSUME NEW N \in Nat, NEW t \in Nat, t > 0, NEW q, RootAt(N, t, q),
         NEW c \in Nat, c > 0, NEW v \in Nat, IsProduct(v, c, t), NEW S \in Nat, IsProduct(S, 2, c)
  PROVE  Seen(N, v, q \div S, (q % S) \div c = 1, q % c # 0 \/ ~ ExactAtRoot(N, t, q))
<1>1. q \in Nat
  BY DEF RootAt
<1>2. PICK Q \in Nat, a \in Nat, b \in Nat : Halves(q, c, S, Q, a, b)
  BY <1>1, HalfCut
<1>3. q % c = b /\ q \div S = Q /\ (q % S) \div c = a
  BY <1>2 DEF Halves
<1>4. a < 2 /\ b < c /\ q = (Q * 2 + a) * c + b
  BY <1>2 DEF Halves
<1>5. PICK rb \in BOOLEAN : rb <=> a = 1
  OBVIOUS
<1>6. WithBit(Q, rb) = Q * 2 + a
  BY <1>4, <1>5 DEF WithBit
<1>7. PICK k \in Nat : k = WithBit(Q, rb)
  BY <1>6
<1>8. IsQuotient(q, c, k, b)
  BY <1>4, <1>6, <1>7 DEF IsQuotient
<1>9. RootAt(N, v, k) /\ (ExactAtRoot(N, v, k) <=> b = 0 /\ ExactAtRoot(N, t, q))
  BY <1>8, RootAtCut
<1>10. PICK sb \in BOOLEAN : sb <=> (q % c # 0 \/ ~ ExactAtRoot(N, t, q))
  OBVIOUS
<1>11. sb <=> ~ ExactAtRoot(N, v, k)
  BY <1>3, <1>9, <1>10
<1>12. Seen(N, v, Q, rb, sb)
  BY <1>7, <1>9, <1>11 DEF Seen
<1>13. rb = ((q % S) \div c = 1) /\ sb = (q % c # 0 \/ ~ ExactAtRoot(N, t, q))
  BY <1>3, <1>5, <1>10
<1> QED
  BY <1>3, <1>12, <1>13

\* m alone, and whether there is more.
LEMMA SeenWhole ==
  ASSUME NEW N \in Nat, NEW v \in Nat, v > 0, NEW w \in Nat, IsProduct(w, 2, v), NEW m, RootAt(N, w, m)
  PROVE  \E rb, sb : Seen(N, v, m, rb, sb) /\ (rb \/ sb <=> ~ ExactAtRoot(N, w, m))
<1>1. m \in Nat /\ w = 2 * v
  BY DEF RootAt, IsProduct
<1>2. PICK A \in Nat : A = 2 * m
  BY <1>1
<1>3. m * w = A * v /\ (m + 1) * w = (A + 2) * v
  BY <1>1, <1>2
<1>4. PICK rb \in BOOLEAN : rb <=> ((A + 1) * v) * ((A + 1) * v) <= N
  OBVIOUS
<1>5. PICK k \in Nat : k = WithBit(m, rb)
  BY <1>1 DEF WithBit
<1>6. k = IF rb THEN A + 1 ELSE A
  BY <1>2, <1>5 DEF WithBit
<1>7. RootAt(N, v, k)
  <2>1. CASE rb
    <3>1. k = A + 1 /\ k + 1 = A + 2
      BY <1>6, <2>1
    <3> QED
      BY <1>3, <1>4, <2>1, <3>1 DEF RootAt
  <2>2. CASE ~ rb
    <3>1. k = A /\ k + 1 = A + 1
      BY <1>6, <2>2
    <3>2. ((A + 1) * v) * ((A + 1) * v) \in Nat
      OBVIOUS
    <3> QED
      BY <1>3, <1>4, <2>2, <3>1, <3>2 DEF RootAt
  <2> QED
    BY <2>1, <2>2
<1>8. PICK sb \in BOOLEAN : sb <=> ~ ExactAtRoot(N, v, k)
  OBVIOUS
<1>9. Seen(N, v, m, rb, sb)
  BY <1>1, <1>5, <1>7, <1>8 DEF Seen
<1>10. rb => ~ ExactAtRoot(N, w, m)
  <2>1. A * v < (A + 1) * v /\ A * v \in Nat /\ (A + 1) * v \in Nat
    BY Factor
  <2>2. (A * v) * (A * v) < ((A + 1) * v) * ((A + 1) * v)
    BY <2>1, SquareMono
  <2>3. (A * v) * (A * v) \in Nat /\ ((A + 1) * v) * ((A + 1) * v) \in Nat
    BY <2>1
  <2> QED
    BY <1>3, <1>4, <2>2, <2>3 DEF ExactAtRoot
<1>11. ~ rb => (sb <=> ~ ExactAtRoot(N, w, m))
  BY <1>3, <1>6, <1>8 DEF ExactAtRoot
<1> QED
  BY <1>9, <1>10, <1>11

\* When q is m itself, what is left of the number tells the bit that follows.
LEMMA SeenFromRest ==
  ASSUME NEW n \in Nat, NEW q, IsRoot(n, q), NEW v \in Nat, v > 0, NEW t \in Nat, IsProduct(t, 2, v),
         NEW N \in Nat, N = n * (t * t)
  PROVE  Seen(N, v, q, n - q * q > q, n - q * q # 0)
<1>1. q \in Nat /\ q * q <= n /\ n < (q + 1) * (q + 1) /\ t = 2 * v
  BY DEF IsRoot, IsProduct
<1>2. PICK Q \in Nat : Q = q * q
  BY <1>1
<1>3. PICK u \in Nat : u = v * v /\ u > 0
  OBVIOUS
<1>4. N = (4 * n) * u
  BY <1>1, <1>3
<1>5. (q + 1) * (q + 1) = Q + 2 * q + 1
  BY <1>1, <1>2
<1>6. Q <= n /\ n < Q + 2 * q + 1
  BY <1>1, <1>2, <1>5
<1>7. PICK rb \in BOOLEAN : rb <=> n - Q > q
  OBVIOUS
<1>8. PICK sb \in BOOLEAN : sb <=> n - Q # 0
  OBVIOUS
<1>9. PICK k \in Nat : k = WithBit(q, rb)
  BY <1>1 DEF WithBit
<1>10. (k * v) * (k * v) = (k * k) * u /\ ((k + 1) * v) * ((k + 1) * v) = ((k + 1) * (k + 1)) * u
  <2>1. ASSUME NEW i \in Nat PROVE (i * v) * (i * v) = (i * i) * u
    BY <1>3
  <2> QED
    BY <2>1
<1>11. PICK kk \in Nat : kk = k * k
  OBVIOUS
<1>12. PICK ll \in Nat : ll = (k + 1) * (k + 1)
  OBVIOUS
<1>13. kk <= 4 * n /\ 4 * n < ll /\ (kk = 4 * n <=> ~ sb)
  <2>1. CASE rb
    <3>1. k = 2 * q + 1
      BY <1>9, <2>1 DEF WithBit
    <3>2. kk = 4 * Q + 4 * q + 1 /\ ll = 4 * Q + 8 * q + 4
      BY <1>1, <1>2, <1>11, <1>12, <3>1
    <3> QED
      BY <1>1, <1>6, <1>7, <1>8, <2>1, <3>2
  <2>2. CASE ~ rb
    <3>1. k = 2 * q
      BY <1>1, <1>9, <2>2 DEF WithBit
    <3>2. kk = 4 * Q /\ ll = 4 * Q + 4 * q + 1
      BY <1>1, <1>2, <1>11, <1>12, <3>1
    <3> QED
      BY <1>1, <1>6, <1>7, <1>8, <2>2, <3>2
  <2> QED
    BY <2>1, <2>2
<1>14. kk * u <= (4 * n) * u /\ (4 * n) * u < ll * u /\ (kk * u = (4 * n) * u <=> kk = 4 * n)
  BY <1>3, <1>13, MulMono, Factor
<1>15. RootAt(N, v, k) /\ (ExactAtRoot(N, v, k) <=> ~ sb)
  BY <1>4, <1>10, <1>11, <1>12, <1>13, <1>14 DEF RootAt, ExactAtRoot
<1>16. Seen(N, v, q, rb, sb)
  BY <1>1, <1>9, <1>15 DEF Seen
<1>17. rb = (n - q * q > q) /\ sb = (n - q * q # 0)
  BY <1>2, <1>7, <1>8
<1> QED
  BY <1>16, <1>17

-----------------------------------------------------------------------------
(* From the root to the rounding of the exact result *)

\* The bits of a fraction do not depend on its unit.
LEMMA BitsTimes ==
  ASSUME NEW R \in Nat, NEW U \in Nat, R < U, NEW rb, NEW sb, BitsOf(R, U, rb, sb),
         NEW P \in Nat, P > 0
  PROVE  R * P < U * P /\ BitsOf(R * P, U * P, rb, sb)
<1>1. R * P < U * P
  BY Factor
<1>2. 2 * (R * P) = (2 * R) * P /\ 2 * R \in Nat
  OBVIOUS
<1>3. (2 * R) * P < U * P <=> 2 * R < U
  BY <1>2, Factor
<1>4. (2 * R) * P = U * P <=> 2 * R = U
  BY <1>2, Factor
<1>5. R * P = 0 <=> R = 0
  OBVIOUS
<1>6. R * P \in Nat /\ U * P \in Nat
  OBVIOUS
<1> QED
  BY <1>1, <1>2, <1>3, <1>4, <1>5, <1>6 DEF BitsOf

\* X stands for q and what follows it: q is m, a bit and c values; 2^j is 4 * c.
Follows(q, m, a, b, c) == a < 2 /\ b < c /\ q = (2 * m + a) * c + b

\* The round bit a and the sticky bit of what follows.
Tell(rb, sb, a, b, more) ==
  /\ rb \in BOOLEAN /\ (rb <=> a = 1)
  /\ sb \in BOOLEAN /\ (sb <=> b # 0 \/ more)

\* The exact result, when more tells whether anything follows q.
WithSticky(X, q, more) == X = Sticky(2 * q, more)

\* q is m, a bit and what follows; X is q with its sticky bit, in units U.
StickyCase(p, q, c, m, a, b, more, rb, sb, X, j, U) ==
  /\ p \in Nat /\ p > 0 /\ q \in Nat /\ c \in Nat /\ c > 0 /\ IsSignificand(m, p)
  /\ a \in Nat /\ b \in Nat /\ Follows(q, m, a, b, c)
  /\ more \in BOOLEAN /\ Tell(rb, sb, a, b, more) /\ WithSticky(X, q, more)
  /\ j \in Nat /\ j > 0 /\ U \in Nat /\ Power(U, j) /\ U = 4 * c

\* The root, with a last bit set if more follows, is rounded from its first bits.
LEMMA StickyRounds ==
  ASSUME NEW p, NEW q, NEW c, NEW m, NEW a, NEW b, NEW more, NEW rb, NEW sb, NEW X, NEW j, NEW U,
         StickyCase(p, q, c, m, a, b, more, rb, sb, X, j, U)
  PROVE  RoundsFrom(X, p, p + j, m, rb, sb)
<1>1. /\ p \in Nat /\ p > 0 /\ q \in Nat /\ c \in Nat /\ c > 0 /\ IsSignificand(m, p)
       /\ a \in Nat /\ b \in Nat /\ Follows(q, m, a, b, c)
       /\ more \in BOOLEAN /\ Tell(rb, sb, a, b, more) /\ WithSticky(X, q, more)
       /\ j \in Nat /\ j > 0 /\ U \in Nat /\ Power(U, j) /\ U = 4 * c
  BY DEF StickyCase
<1>2. /\ a < 2 /\ b < c /\ q = (2 * m + a) * c + b
      /\ rb \in BOOLEAN /\ (rb <=> a = 1)
      /\ sb \in BOOLEAN /\ (sb <=> b # 0 \/ more)
      /\ X = Sticky(2 * q, more) /\ U = 4 * c
  BY <1>1 DEF Follows, Tell, WithSticky
<1>3. m \in Nat
  BY <1>1 DEF IsSignificand
<1>4. PICK s \in Nat : s = IF more THEN 1 ELSE 0
  BY <1>1
<1>5. X = 2 * q + s
  BY <1>1, <1>2, <1>4 DEF Sticky
<1>6. PICK R \in Nat : R = a * (2 * c) + 2 * b + s
  BY <1>1, <1>4
<1>7. X = m * U + R
  <2>1. PICK d \in Nat : d = m * c
    BY <1>1, <1>3
  <2>2. (2 * m + a) * c = 2 * d + a * c /\ m * U = 4 * d
    BY <1>1, <1>2, <1>3, <2>1
  <2>3. q = 2 * d + a * c + b
    BY <1>1, <1>2, <2>2
  <2>4. a * c \in Nat /\ a * (2 * c) = 2 * (a * c)
    BY <1>1
  <2>5. PICK f \in Nat : f = a * c
    BY <2>4
  <2> QED
    BY <1>1, <1>5, <1>6, <2>2, <2>3, <2>4, <2>5
<1>8. R < U /\ BitsOf(R, U, rb, sb)
  <2>1. CASE a = 1
    BY <1>1, <1>2, <1>4, <1>6, <2>1 DEF BitsOf
  <2>2. CASE a = 0
    BY <1>1, <1>2, <1>4, <1>6, <2>2 DEF BitsOf
  <2> QED
    BY <1>1, <1>2, <2>1, <2>2
<1>9. PICK P \in Nat : Power(P, p) /\ P > 0
  BY <1>1, PowerExists
<1>10. PICK E \in Nat : Power(E, p + j) /\ E > 0
  BY <1>1, PowerExists
<1>11. E = P * U
  BY <1>1, <1>9, <1>10, PowerProduct DEF IsProduct
<1>12. PICK T \in Nat : T = R * P
  BY <1>1, <1>9
<1>13. T < E /\ BitsOf(T, E, rb, sb)
  BY <1>1, <1>8, <1>9, <1>11, <1>12, BitsTimes
<1>14. X * P = m * E + T
  BY <1>1, <1>3, <1>7, <1>11, <1>12
<1>15. X \in Nat /\ p + j \in Nat /\ p + j > 0
  BY <1>1, <1>3, <1>7
<1>16. X * 2^p = m * 2^(p + j) + T /\ T < 2^(p + j) /\ BitsOf(T, 2^(p + j), rb, sb)
  BY <1>1, <1>9, <1>10, <1>13, <1>14 DEF Power
<1> QED
  BY <1>1, <1>15, <1>16 DEF RoundsFrom

\* A number that is not 0.
OddPart(x) ==
  /\ x.mant \in Nat /\ x.exp \in Int /\ x.prec \in Nat /\ x.prec > 0
  /\ IsSignificand(x.mant, x.prec)
\* The code's exponent of the root.
HalfExp(x) == (x.exp + OddExp(x)) \div 2

\* The exponent of the root is half of the exponent of the operand, rounded up.
LEMMA HalfExpIs ==
  ASSUME NEW x, x.exp \in Int
  PROVE  /\ OddExp(x) \in {0, 1} /\ HalfExp(x) \in Int
         /\ x.exp + OddExp(x) = 2 * HalfExp(x)
         /\ HalfExp(x) = (x.exp + 1) \div 2
  BY DEF OddExp, HalfExp

\* x in units of 4^-K.
InQuarters(N, x, K) ==
  /\ K \in Int /\ (2 * K + x.exp) - x.prec \in Nat
  /\ N = x.mant * 2^((2 * K + x.exp) - x.prec)

\* The operand, in units of 4^-K, is between two powers of 4.
LEMMA ScaledBounds ==
  ASSUME NEW x, OddPart(x), NEW K, NEW N, InQuarters(N, x, K), NEW k, k = (K + HalfExp(x)) - 1, k \in Nat,
         NEW H \in Nat, Power(H, k)
  PROVE  N \in Nat /\ H * H <= N /\ N < (2 * H) * (2 * H)
<1>1. x.mant \in Nat /\ x.exp \in Int /\ x.prec \in Nat /\ x.prec > 0 /\ K \in Int
  BY DEF OddPart, InQuarters
<1>2. PICK d \in Nat : d = (2 * K + x.exp) - x.prec
  BY DEF InQuarters
<1>3. PICK D \in Nat : Power(D, d) /\ D > 0
  BY PowerExists
<1>4. N = x.mant * D
  BY <1>2, <1>3 DEF InQuarters, Power
<1>5. PICK Q \in Nat : Power(Q, x.prec - 1) /\ Q > 0
  BY <1>1, PowerExists
<1>6. Q <= x.mant /\ x.mant < 2 * Q
  <2>1. 2^(x.prec) = 2 * 2^(x.prec - 1)
    BY <1>1, PowHalf
  <2> QED
    BY <1>5, <2>1 DEF OddPart, IsSignificand, Power
<1>7. HalfExp(x) \in Int /\ x.exp + OddExp(x) = 2 * HalfExp(x) /\ OddExp(x) \in {0, 1}
  BY <1>1, HalfExpIs
<1>8. PICK G \in Nat : Power(G, (x.prec - 1) + d) /\ G > 0
  BY <1>1, PowerExists
<1>9. G = Q * D
  <2>1. x.prec - 1 \in Nat
    BY <1>1
  <2> QED
    BY <1>3, <1>5, <1>8, <2>1, PowerProduct DEF IsProduct
<1>10. G <= N /\ N < 2 * G
  <2>1. Q * D <= x.mant * D /\ x.mant * D < (2 * Q) * D
    BY <1>1, <1>3, <1>6, MulMono, Factor
  <2>2. (2 * Q) * D = 2 * (Q * D)
    OBVIOUS
  <2> QED
    BY <1>4, <1>9, <2>1, <2>2
<1>11. PICK F \in Nat : Power(F, k + k) /\ F > 0
  BY PowerExists
<1>12. F = H * H
  BY <1>11, PowerProduct DEF IsProduct
<1>13. CASE OddExp(x) = 1
  <2>1. (x.prec - 1) + d = k + k
    BY <1>1, <1>2, <1>7, <1>13
  <2>2. G = F
    BY <1>8, <1>11, <2>1 DEF Power
  <2>3. (2 * H) * (2 * H) = 4 * F /\ N \in Nat
    BY <1>1, <1>4, <1>12
  <2> QED
    BY <1>10, <1>12, <2>2, <2>3, <1>11
<1>14. CASE OddExp(x) = 0
  <2>1. (x.prec - 1) + d = (k + k) + 1
    BY <1>1, <1>2, <1>7, <1>14
  <2>2. G = 2 * F
    <3>1. 2^((k + k) + 1) = 2 * 2^(k + k)
      BY PowSucc
    <3> QED
      BY <1>8, <1>11, <2>1, <3>1 DEF Power
  <2>3. (2 * H) * (2 * H) = 4 * F /\ N \in Nat
    BY <1>1, <1>4, <1>12
  <2> QED
    BY <1>10, <1>12, <2>2, <2>3, <1>11
<1> QED
  BY <1>7, <1>13, <1>14

\* What is seen of N, without the bit that follows.
LEMMA SeenRoot ==
  ASSUME NEW N \in Nat, NEW v \in Nat, v > 0, NEW w \in Nat, IsProduct(w, 2, v),
         NEW m, NEW rb, NEW sb, Seen(N, v, m, rb, sb)
  PROVE  RootAt(N, w, m) /\ (ExactAtRoot(N, w, m) <=> ~ rb /\ ~ sb)
<1>1. m \in Nat /\ rb \in BOOLEAN /\ sb \in BOOLEAN
  BY DEF Seen
<1>2. PICK two \in Nat : two = 2 /\ two > 0
  OBVIOUS
<1>3. PICK b \in Nat : b = IF rb THEN 1 ELSE 0
  OBVIOUS
<1>4. PICK k \in Nat : k = WithBit(m, rb)
  BY <1>1 DEF WithBit
<1>5. IsQuotient(k, two, m, b) /\ IsProduct(w, two, v)
  BY <1>1, <1>2, <1>3, <1>4 DEF IsQuotient, WithBit
<1>6. RootAt(N, v, k) /\ (sb <=> ~ ExactAtRoot(N, v, k))
  BY <1>4 DEF Seen
<1>7. RootAt(N, w, m) /\ (ExactAtRoot(N, w, m) <=> b = 0 /\ ExactAtRoot(N, v, k))
  BY <1>1, <1>5, <1>6, RootAtCut
<1> QED
  BY <1>1, <1>3, <1>6, <1>7

\* The first p bits of the root are a significand.
LEMMA RootSignificand ==
  ASSUME NEW x, OddPart(x), NEW p \in Nat, p > 0, NEW K, NEW N, InQuarters(N, x, K),
         NEW k, k = (K + HalfExp(x)) - p, k \in Nat, NEW w \in Nat, Power(w, k), NEW m, RootAt(N, w, m)
  PROVE  IsSignificand(m, p)
<1>1. K \in Int /\ HalfExp(x) \in Int
  BY HalfExpIs DEF InQuarters, OddPart
<1>2. PICK i \in Nat : i = (K + HalfExp(x)) - 1
  BY <1>1
<1>3. PICK H \in Nat : Power(H, i) /\ H > 0
  BY PowerExists
<1>4. N \in Nat /\ H * H <= N /\ N < (2 * H) * (2 * H)
  BY <1>2, <1>3, ScaledBounds
<1>5. w > 0
  BY PowNat DEF Power
<1>6. PICK Q \in Nat : Power(Q, p - 1) /\ Q > 0
  <2>1. p - 1 \in Nat
    OBVIOUS
  <2> QED
    BY <2>1, PowerExists
<1>7. H = Q * w
  <2>1. p - 1 \in Nat /\ i = (p - 1) + k
    BY <1>1, <1>2
  <2> QED
    BY <1>3, <1>6, <2>1, PowerProduct DEF IsProduct
<1>8. 2^p = 2 * Q
  BY <1>6, PowHalf DEF Power
<1>9. m \in Nat /\ (m * w) * (m * w) <= N /\ N < ((m + 1) * w) * ((m + 1) * w)
  BY DEF RootAt
<1>10. m * w \in Nat /\ (m + 1) * w \in Nat /\ 2 * H \in Nat /\ 2 * H = (2 * Q) * w
  BY <1>7, <1>9
<1>11. m * w < 2 * H
  <2>1. (m * w) * (m * w) < (2 * H) * (2 * H)
    BY <1>4, <1>9, <1>10
  <2> QED
    BY <1>10, <2>1, SquareMono
<1>12. H < (m + 1) * w
  <2>1. H * H < ((m + 1) * w) * ((m + 1) * w)
    BY <1>4, <1>9, <1>10
  <2> QED
    BY <1>10, <2>1, SquareMono
<1>13. m < 2 * Q
  BY <1>5, <1>9, <1>10, <1>11, MulCancel
<1>14. Q < m + 1
  BY <1>5, <1>7, <1>9, <1>12, MulCancel
<1> QED
  BY <1>6, <1>8, <1>9, <1>13, <1>14 DEF IsSignificand, Power

\* x in units of 4^-K and of 4^-g.
LEMMA InQuartersOf ==
  ASSUME NEW x, OddPart(x), NEW g, NEW n, InQuarters(n, x, g), NEW K, NEW N, InQuarters(N, x, K),
         NEW k, k = K - g, k \in Nat, NEW t \in Nat, Power(t, k)
  PROVE  n \in Nat /\ N = n * (t * t)
<1>1. x.mant \in Nat /\ x.exp \in Int /\ x.prec \in Nat /\ g \in Int /\ K \in Int
  BY DEF OddPart, InQuarters
<1>2. PICK a \in Nat : a = (2 * g + x.exp) - x.prec
  BY DEF InQuarters
<1>3. PICK b \in Nat : b = (2 * K + x.exp) - x.prec
  BY DEF InQuarters
<1>4. PICK A \in Nat : Power(A, a)
  BY PowerExists
<1>5. PICK B \in Nat : Power(B, b)
  BY PowerExists
<1>6. PICK T \in Nat : Power(T, k + k)
  BY PowerExists
<1>7. T = t * t
  BY <1>6, PowerProduct DEF IsProduct
<1>8. b = a + (k + k)
  BY <1>1, <1>2, <1>3
<1>9. B = A * T
  BY <1>4, <1>5, <1>6, <1>8, PowerProduct DEF IsProduct
<1>10. n = x.mant * A /\ N = x.mant * B
  BY <1>2, <1>3, <1>4, <1>5 DEF InQuarters, Power
<1> QED
  BY <1>1, <1>7, <1>9, <1>10

\* Of every root in units of 2^-K, large enough, q being the root in units of 2^-g and a sticky bit
\* standing for the rest, the exact result is rounded from what the root tells.
LEMMA SeenRounds ==
  ASSUME NEW x, OddPart(x), NEW p \in Nat, p > 0, NEW g \in Int, g + HalfExp(x) >= p + 2,
         NEW n, InQuarters(n, x, g), NEW q, IsRoot(n, q),
         NEW K \in Int, K >= g, NEW N, InQuarters(N, x, K),
         NEW i, i = ((K + HalfExp(x)) - p) - 1, i \in Nat, NEW v \in Nat, Power(v, i),
         NEW m, NEW rb, NEW sb, Seen(N, v, m, rb, sb),
         NEW X, X = Sticky(2 * q, q * q # n)
  PROVE  RoundsFrom(X, p, HalfExp(x) + (g + 1), m, rb, sb)
<1>1. HalfExp(x) \in Int /\ x.exp \in Int /\ q \in Nat
  BY HalfExpIs DEF OddPart, IsRoot
<1>2. PICK k \in Nat : k = K - g
  OBVIOUS
<1>3. PICK t \in Nat : Power(t, k) /\ t > 0
  BY PowerExists
<1>4. n \in Nat /\ N = n * (t * t)
  BY <1>2, <1>3, InQuartersOf
<1>5. RootAt(N, t, q) /\ (ExactAtRoot(N, t, q) <=> q * q = n)
  <2>1. PICK one \in Nat : one = 1
    OBVIOUS
  <2>2. PICK z \in Nat : z = 0
    OBVIOUS
  <2>3. IsQuotient(n, one, n, z) /\ N * one = n * (t * t) /\ N \in Nat
    BY <1>4, <2>1, <2>2 DEF IsQuotient
  <2> QED
    BY <1>3, <1>4, <2>1, <2>2, <2>3, RootOfQuotient
<1>6. PICK j \in Nat : j = ((g + HalfExp(x)) - p) - 1
  BY <1>1
<1>7. PICK c \in Nat : Power(c, j) /\ c > 0
  BY PowerExists
<1>8. IsProduct(v, c, t)
  <2>1. i = j + k
    BY <1>1, <1>2, <1>6
  <2> QED
    BY <1>3, <1>7, <2>1, PowerProduct
<1>9. PICK S \in Nat : S = 2 * c
  OBVIOUS
<1>10. N \in Nat /\ IsProduct(S, 2, c)
  BY <1>4, <1>9 DEF IsProduct
<1>11. v > 0
  BY PowNat DEF Power
<1>12. Seen(N, v, q \div S, (q % S) \div c = 1, q % c # 0 \/ ~ ExactAtRoot(N, t, q))
  BY <1>3, <1>5, <1>7, <1>8, <1>10, SeenCut
<1>13. PICK Q \in Nat, a \in Nat, b \in Nat : Halves(q, c, S, Q, a, b)
  BY <1>1, <1>7, <1>10, HalfCut, Zenon
<1>14. PICK rq \in BOOLEAN : rq = ((q % S) \div c = 1)
  OBVIOUS
<1>15. PICK sq \in BOOLEAN : sq = (q % c # 0 \/ ~ ExactAtRoot(N, t, q))
  OBVIOUS
<1>16. m = Q /\ rb = rq /\ sb = sq
  <2>1. Seen(N, v, Q, rq, sq)
    BY <1>12, <1>13, <1>14, <1>15 DEF Halves
  <2> QED
    BY <1>10, <1>11, <2>1, SeenUnique, Zenon
<1>17. rb \in BOOLEAN /\ sb \in BOOLEAN
  BY DEF Seen
<1>18. PICK more \in BOOLEAN : more = (q * q # n)
  OBVIOUS
<1>19. (rb <=> a = 1) /\ (sb <=> b # 0 \/ more)
  BY <1>5, <1>13, <1>14, <1>15, <1>16, <1>18 DEF Halves
<1>20. PICK jj \in Nat : jj = j + 2 /\ jj > 0
  OBVIOUS
<1>21. PICK U \in Nat : Power(U, jj)
  BY PowerExists
<1>22. U = 4 * c
  <2>1. 2^(j + 2) = 2 * 2^(j + 1) /\ 2^(j + 1) = 2 * 2^j
    <3>1. (j + 1) + 1 = j + 2
      OBVIOUS
    <3> QED
      BY <3>1, PowSucc
  <2> QED
    BY <1>7, <1>21, <1>20, <2>1 DEF Power
<1>23. IsSignificand(m, p)
  <2>1. PICK w \in Nat : Power(w, i + 1)
    BY PowerExists
  <2>2. IsProduct(w, 2, v)
    BY <2>1, PowSucc DEF IsProduct, Power
  <2>3. RootAt(N, w, m)
    BY <1>10, <1>11, <2>2, SeenRoot
  <2>4. i + 1 = (K + HalfExp(x)) - p /\ i + 1 \in Nat
    BY <1>1
  <2> QED
    BY <2>1, <2>3, <2>4, RootSignificand
<1>24. X = Sticky(2 * q, more)
  BY <1>18
<1>25. Follows(q, m, a, b, c)
  BY <1>13, <1>16 DEF Halves, Follows
<1>26. Tell(rb, sb, a, b, more)
  BY <1>17, <1>19 DEF Tell
<1>27. WithSticky(X, q, more)
  BY <1>24 DEF WithSticky
<1>28. RoundsFrom(X, p, p + jj, m, rb, sb)
  <2>1. /\ q \in Nat /\ c \in Nat /\ c > 0 /\ a \in Nat /\ b \in Nat /\ more \in BOOLEAN
        /\ jj \in Nat /\ jj > 0 /\ U \in Nat /\ Power(U, jj)
    BY <1>1, <1>7, <1>13, <1>18, <1>21, <1>20
  <2>2. StickyCase(p, q, c, m, a, b, more, rb, sb, X, jj, U)
    BY <1>22, <1>23, <1>25, <1>26, <1>27, <2>1 DEF StickyCase
  <2> QED
    BY <2>2, StickyRounds, Zenon
<1>29. p + jj = HalfExp(x) + (g + 1)
  BY <1>1, <1>6, <1>20
<1> QED
  BY <1>28, <1>29


\* No root is the midpoint of two numbers, nor rounded up to a power of 2 to nearest.
NoMidpoint(p, m, rb, sb) == (rb => sb) /\ ~ (rb /\ m + 1 = 2^p)

\* The end of the codes for one and two limbs, for numbers of any sign.
SignedRootEnd(p, m, e, rb, sb, rnd, neg) ==
  LET roundsUp == e = emin - 1 /\ IsLikeRNDA(rnd, neg) /\ m = 2^p - 1 /\ (rb \/ sb)
      dir == IF rnd = "RNDN" /\ (e < emin - 1 \/ (m = 2^(p-1) /\ ~ sb)) THEN "RNDZ" ELSE rnd
  IN CASE e > emax -> Overflow(p, rnd, neg, emax)
       [] e < emin /\ ~ roundsUp -> Underflow(p, dir, neg, emin)
       [] OTHER -> RoundBits(p, m, e, rb, sb, rnd, neg, OneUlpChecked(p, m, e, rnd, neg))

\* It ends as an operation that rounds: what it leaves aside cannot be a midpoint, and the
\* significand that follows 11...1 is only reached without a round bit.
LEMMA SignedRootEndEnds ==
  ASSUME NEW p \in Nat, p > 0, NEW m, IsSignificand(m, p), NEW e \in Int,
         NEW rb \in BOOLEAN, NEW sb \in BOOLEAN, NoMidpoint(p, m, rb, sb),
         NEW rnd \in Rnds, NEW neg \in BOOLEAN
  PROVE  EndsWith(SignedRootEnd(p, m, e, rb, sb, rnd, neg), p, m, e, rb, sb, rnd, neg)
<1>0. emin \in Int /\ emax \in Int /\ emin <= emax
  BY RangeAssumption
<1>1. CASE e >= emin
  <2>1. SignedRootEnd(p, m, e, rb, sb, rnd, neg) = RoundUnder(p, m, e, rb, sb, rnd, neg)
    BY <1>0, <1>1 DEF SignedRootEnd, RoundUnder
  <2> QED
    BY <1>1, <2>1, RoundUnderEnds
<1>2. CASE e < emin /\ rnd = "RNDF"
  <2>1. SignedRootEnd(p, m, e, rb, sb, rnd, neg) = Underflow(p, "RNDF", neg, emin)
    BY <1>0, <1>2 DEF SignedRootEnd, IsLikeRNDA
  <2>2. CheckRange(Num(neg, e, m, p), 0, "RNDF", emin, emax) = Underflow(p, "RNDF", neg, emin)
    BY <1>0, <1>2 DEF CheckRange, Num
  <2> QED
    BY <1>2, <2>1, <2>2 DEF EndsWith
<1>3. CASE e < emin /\ rnd # "RNDF"
  <2> DEFINE up == Up(m, rb, sb, rnd, neg)
             t == Signed(neg, Inexact(m, rb, sb, rnd, neg))
             s == Significand(m, p, Decision(up, 0))
             x == e + s.carry
             n == Num(neg, x, s.mant, p)
             roundsUp == e = emin - 1 /\ IsLikeRNDA(rnd, neg) /\ m = 2^p - 1 /\ (rb \/ sb)
             low == e < emin - 1 \/ (m = 2^(p - 1) /\ ~ sb)
             half == HalfwayToZero(n, t, emin)
  <2>1. rnd \in OneWay
    BY <1>3 DEF OneWay
  <2>2. SignedRootEnd(p, m, e, rb, sb, rnd, neg)
          = IF roundsUp THEN RoundBits(p, m, e, rb, sb, rnd, neg, OneUlpChecked(p, m, e, rnd, neg))
            ELSE Underflow(p, IF rnd = "RNDN" /\ low THEN "RNDZ" ELSE rnd, neg, emin)
    BY <1>0, <1>3 DEF SignedRootEnd
  <2>3. up \in BOOLEAN
    BY DEF Up, IsLikeRNDZ
  <2>4. m \in Nat /\ m < 2^p /\ 2^p \in Nat /\ 2^(p - 1) <= m /\ 2^(p - 1) \in Nat
    BY PowNat DEF IsSignificand
  <2>5. /\ ~ up => s.mant = m /\ s.carry = 0
        /\ up /\ m + 1 < 2^p => s.mant = m + 1 /\ s.carry = 0
        /\ up /\ ~ (m + 1 < 2^p) => s.mant = 2^(p - 1) /\ s.carry = 1
    BY <2>3, <2>4 DEF Significand, Decision
  <2>6. s.carry \in {0, 1}
    BY <2>3, <2>5
  <2>7. /\ up => t = Signed(neg, 1) /\ Signed(neg, t) = 1
        /\ ~ up /\ (rb \/ sb) => Signed(neg, t) = -1
        /\ ~ rb /\ ~ sb => Signed(neg, t) = 0
    <3> DEFINE i == Inexact(m, rb, sb, rnd, neg)
    <3>1. /\ up => i = 1
          /\ ~ up /\ (rb \/ sb) => i = -1
          /\ ~ rb /\ ~ sb => i = 0
      BY DEF Inexact, Up
    <3>2. i \in Int
      BY DEF Inexact
    <3> HIDE DEF i, up
    <3>3. Signed(neg, Signed(neg, i)) = i
      BY <3>2, SignedTwice
    <3> QED
      BY <3>1, <3>3 DEF i
  <2>8. up <=> (rb \/ sb) /\ IF rnd = "RNDN" THEN rb /\ (sb \/ m % 2 = 1) ELSE IsLikeRNDA(rnd, neg)
    BY <2>1 DEF Up, IsLikeRNDA, IsLikeRNDZ, OneWay, Rnds
  <2>9. IsLikeRNDA(rnd, neg) => rnd # "RNDN"
    BY DEF IsLikeRNDA
  <2>10. (rb => sb) /\ ~ (rb /\ m + 1 = 2^p)
    BY DEF NoMidpoint
  <2>11. n.kind = "num" /\ n.exp = x /\ n.prec = p /\ n.neg = neg /\ n.mant = s.mant
    BY DEF Num
  <2>12. Settled(p, m, e, rb, sb, rnd, neg) = CheckRange(n, t, rnd, emin, emax)
    BY DEF Settled
  <2>13. half <=> x + 1 < emin \/ (s.mant = 2^(p - 1) /\ Signed(neg, t) >= 0)
    BY <2>11 DEF HalfwayToZero, IsPowerof2Raw
  <2>14. OneUlpChecked(p, m, e, rnd, neg)
           = IF m + 1 = 2^p /\ e + 1 > emax THEN Overflow(p, rnd, neg, emax)
             ELSE IF m + 1 < 2^p THEN Return(Num(neg, e, m + 1, p), Signed(neg, 1), {})
                  ELSE Return(Num(neg, e + 1, 2^(p - 1), p), Signed(neg, 1), {})
    BY DEF OneUlpChecked, OneUlpAdded
  <2>15. RoundBits(p, m, e, rb, sb, rnd, neg, OneUlpChecked(p, m, e, rnd, neg))
           = IF up THEN OneUlpChecked(p, m, e, rnd, neg) ELSE Return(Num(neg, e, m, p), t, {})
    BY <2>1, <2>4, RoundBitsIs
  <2> HIDE DEF up, t, s, n, half
  <2>16. CASE roundsUp
    <3>1. up /\ s.mant = 2^(p - 1) /\ s.carry = 1 /\ t = Signed(neg, 1) /\ x = emin
      <4>1. up
        BY <2>8, <2>9, <2>16
      <4>2. ~ (m + 1 < 2^p) /\ e = emin - 1
        BY <2>4, <2>16
      <4>3. s.mant = 2^(p - 1) /\ s.carry = 1
        BY <2>5, <4>1, <4>2
      <4> QED
        BY <1>0, <2>7, <4>1, <4>2, <4>3
    <3>2. SignedRootEnd(p, m, e, rb, sb, rnd, neg)
            = Return(Num(neg, e + 1, 2^(p - 1), p), Signed(neg, 1), {})
      <4>1. SignedRootEnd(p, m, e, rb, sb, rnd, neg)
              = RoundBits(p, m, e, rb, sb, rnd, neg, OneUlpChecked(p, m, e, rnd, neg))
        <5> HIDE DEF roundsUp
        <5> QED
          BY <2>2, <2>16
      <4>2. ~ (m + 1 < 2^p) /\ ~ (e + 1 > emax)
        BY <1>0, <2>4, <2>16
      <4>3. OneUlpChecked(p, m, e, rnd, neg) = Return(Num(neg, e + 1, 2^(p - 1), p), Signed(neg, 1), {})
        BY <2>14, <4>2
      <4> QED
        BY <2>15, <3>1, <4>1, <4>3
    <3>3. CheckRange(n, t, rnd, emin, emax) = Return(n, Signed(neg, 1), {})
      BY <1>0, <2>11, <3>1 DEF CheckRange
    <3>4. n = Num(neg, e + 1, 2^(p - 1), p)
      BY <3>1 DEF n
    <3> QED
      BY <1>3, <2>12, <3>2, <3>3, <3>4 DEF EndsWith
  <2>17. CASE ~ roundsUp
    <3>1. x < emin
      <4>1. CASE s.carry = 0
        BY <1>3, <4>1
      <4>2. CASE s.carry # 0
        <5>1. up /\ m + 1 = 2^p /\ s.carry = 1
          BY <2>3, <2>4, <2>5, <2>6, <4>2
        <5>2. IsLikeRNDA(rnd, neg) /\ (rb \/ sb)
          BY <2>8, <2>10, <5>1
        <5>3. m = 2^p - 1
          BY <2>4, <5>1
        <5>4. e # emin - 1
          BY <2>17, <5>2, <5>3
        <5> QED
          BY <1>0, <1>3, <5>1, <5>4
      <4> QED
        BY <4>1, <4>2
    <3>2. CheckRange(n, t, rnd, emin, emax)
            = Underflow(p, IF rnd = "RNDN" /\ half THEN "RNDZ" ELSE rnd, neg, emin)
      <4>1. n.exp < emin /\ ~ (n.exp > emax)
        BY <1>0, <2>6, <2>11, <3>1
      <4> HIDE DEF x
      <4> QED
        BY <2>11, <4>1 DEF CheckRange, half
    <3>3. rnd = "RNDN" => (low <=> half)
      <4> SUFFICES ASSUME rnd = "RNDN"
                   PROVE  low <=> half
        OBVIOUS
      <4>1. s.carry = 0
        BY <2>3, <2>4, <2>5, <2>8, <2>10
      <4>2. x = e
        BY <4>1
      <4>3. CASE up
        <5>1. sb /\ Signed(neg, t) = 1 /\ s.mant = m + 1
          BY <2>4, <2>5, <2>7, <2>8, <2>10, <4>1, <4>3
        <5> QED
          BY <1>0, <1>3, <2>4, <2>13, <4>2, <5>1
      <4>4. CASE ~ up
        <5>1. s.mant = m /\ (Signed(neg, t) >= 0 <=> ~ sb)
          BY <2>5, <2>7, <2>10, <4>4
        <5> QED
          BY <1>0, <1>3, <2>13, <4>2, <5>1
      <4> QED
        BY <2>3, <4>3, <4>4
    <3> QED
      BY <1>3, <2>2, <2>12, <2>17, <3>2, <3>3 DEF EndsWith
  <2> QED
    BY <2>16, <2>17
<1> QED
  BY <1>0, <1>1, <1>2, <1>3

\* So does the end of the codes for one and two limbs.
LEMMA RootEndEnds ==
  ASSUME NEW p \in Nat, p > 0, NEW m, IsSignificand(m, p), NEW e \in Int,
         NEW rb \in BOOLEAN, NEW sb \in BOOLEAN, NoMidpoint(p, m, rb, sb), NEW rnd \in Rnds
  PROVE  EndsWith(RootEnd(p, m, e, rb, sb, rnd), p, m, e, rb, sb, rnd, FALSE)
<1>1. FALSE \in BOOLEAN /\ RootEnd(p, m, e, rb, sb, rnd) = SignedRootEnd(p, m, e, rb, sb, rnd, FALSE)
  BY Zenon DEF RootEnd, SignedRootEnd
<1>2. EndsWith(SignedRootEnd(p, m, e, rb, sb, rnd, FALSE), p, m, e, rb, sb, rnd, FALSE)
  BY <1>1, SignedRootEndEnds, Zenon
<1> QED
  BY <1>1, <1>2, Zenon


-----------------------------------------------------------------------------
(* What the codes see of the root *)

\* In all units fine enough, the root is m, rb and sb.
SeenFrom(x, p, f, m, rb, sb) ==
  \A K \in Int, i \in Nat : K >= f /\ i = ((K + HalfExp(x)) - p) - 1 =>
    \A v, N : Power(v, i) /\ InQuarters(N, x, K) => Seen(N, v, m, rb, sb)

\* The operand is a whole number of units that are small enough.
LEMMA QuartersExist ==
  ASSUME NEW x, OddPart(x), NEW f \in Int, NEW p \in Nat, p > 0,
         \/ (2 * f + x.exp) - x.prec \in Nat
         \/ f + HalfExp(x) >= p + 1 /\ x.prec = p
  PROVE  /\ (2 * f + x.exp) - x.prec \in Nat
         /\ \A K \in Int : K >= f => \E N : InQuarters(N, x, K)
<1>1. x.exp \in Int /\ x.prec \in Nat
  BY DEF OddPart
<1>2. HalfExp(x) \in Int /\ (x.exp = 2 * HalfExp(x) \/ x.exp + 1 = 2 * HalfExp(x))
  BY <1>1, HalfExpIs
<1>3. (2 * f + x.exp) - x.prec \in Nat
  BY <1>1, <1>2
<1>4. ASSUME NEW K \in Int, K >= f
      PROVE  \E N : InQuarters(N, x, K)
  <2>1. (2 * K + x.exp) - x.prec \in Nat
    BY <1>1, <1>3, <1>4
  <2> QED
    BY <2>1 DEF InQuarters
<1> QED
  BY <1>3, <1>4

\* The rounding of the exact root, from what is seen of the operand.
LEMMA RootRounds ==
  ASSUME NEW x, OddPart(x), NEW p \in Nat, p > 0, NEW g \in Int, g + HalfExp(x) >= p + 2,
         NEW n, InQuarters(n, x, g), NEW q, IsRoot(n, q),
         NEW f \in Int, NEW m, NEW rb, NEW sb, SeenFrom(x, p, f, m, rb, sb)
  PROVE  RoundsFrom(Sticky(2 * q, q * q # n), p, HalfExp(x) + (g + 1), m, rb, sb)
<1>1. PICK K \in {f, g} : K \in Int /\ K >= f /\ K >= g
  OBVIOUS
<1>2. PICK N : InQuarters(N, x, K)
  <2>1. (2 * g + x.exp) - x.prec \in Nat
    BY DEF InQuarters
  <2> QED
    BY <1>1, <2>1, QuartersExist
<1>3. HalfExp(x) \in Int
  BY HalfExpIs DEF OddPart
<1>4. PICK i \in Nat : i = ((K + HalfExp(x)) - p) - 1
  BY <1>1, <1>3
<1>5. PICK v \in Nat : Power(v, i)
  BY PowerExists
<1>6. Seen(N, v, m, rb, sb)
  BY <1>1, <1>2, <1>4, <1>5 DEF SeenFrom
<1>7. PICK X : X = Sticky(2 * q, q * q # n)
  OBVIOUS
<1> QED
  BY <1>1, <1>2, <1>4, <1>5, <1>6, <1>7, SeenRounds

\* From the integer root q of x in units of 4^-f, of which c or more make the round bit.
LEMMA SeenOfRoot ==
  ASSUME NEW x, OddPart(x), NEW p \in Nat, p > 0, NEW f \in Int, NEW n, InQuarters(n, x, f),
         NEW q, IsRoot(n, q), NEW j \in Nat, j = ((f + HalfExp(x)) - p) - 1,
         NEW c \in Nat, Power(c, j), NEW S \in Nat, IsProduct(S, 2, c)
  PROVE  SeenFrom(x, p, f, q \div S, (q % S) \div c = 1, q % c # 0 \/ q * q # n)
<1> SUFFICES ASSUME NEW K \in Int, NEW i \in Nat, K >= f, i = ((K + HalfExp(x)) - p) - 1,
                    NEW v, NEW N, Power(v, i), InQuarters(N, x, K)
             PROVE  Seen(N, v, q \div S, (q % S) \div c = 1, q % c # 0 \/ q * q # n)
  BY DEF SeenFrom
<1>1. HalfExp(x) \in Int /\ v \in Nat /\ c > 0
  BY HalfExpIs, PowNat DEF OddPart, Power
<1>2. PICK k \in Nat : k = K - f
  OBVIOUS
<1>3. PICK t \in Nat : Power(t, k) /\ t > 0
  BY PowerExists
<1>4. n \in Nat /\ N = n * (t * t)
  BY <1>2, <1>3, InQuartersOf
<1>7. N \in Nat
  BY <1>4
<1>8. RootAt(N, t, q) /\ (ExactAtRoot(N, t, q) <=> q * q = n)
  BY <1>3, <1>4, <1>7, RootOfScaled
<1>9. i = j + k
  BY <1>1, <1>2
<1>10. IsProduct(v, c, t)
  BY <1>3, <1>9, PowerProduct
<1>11. Seen(N, v, q \div S, (q % S) \div c = 1, q % c # 0 \/ ~ ExactAtRoot(N, t, q))
  BY <1>1, <1>3, <1>7, <1>8, <1>10, SeenCut
<1>12. (q % c # 0 \/ ~ ExactAtRoot(N, t, q)) = (q % c # 0 \/ q * q # n)
  BY <1>8
<1> QED
  BY <1>11, <1>12

\* From the integer root itself and what is left.
LEMMA SeenOfRest ==
  ASSUME NEW x, OddPart(x), NEW p \in Nat, p > 0, NEW f \in Int, NEW n, InQuarters(n, x, f),
         NEW q, IsRoot(n, q), f + HalfExp(x) = p
  PROVE  SeenFrom(x, p, f, q, n - q * q > q, n - q * q # 0)
<1> SUFFICES ASSUME NEW K \in Int, NEW i \in Nat, K >= f, i = ((K + HalfExp(x)) - p) - 1,
                    NEW v, NEW N, Power(v, i), InQuarters(N, x, K)
             PROVE  Seen(N, v, q, n - q * q > q, n - q * q # 0)
  BY DEF SeenFrom
<1>1. HalfExp(x) \in Int /\ v \in Nat /\ v > 0
  BY HalfExpIs, PowNat DEF OddPart, Power
<1>2. PICK k \in Nat : k = K - f
  OBVIOUS
<1>3. PICK t \in Nat : Power(t, k) /\ t > 0
  BY PowerExists
<1>4. n \in Nat /\ N = n * (t * t)
  BY <1>2, <1>3, InQuartersOf
<1>5. k = i + 1
  BY <1>1, <1>2
<1>6. IsProduct(t, 2, v)
  BY <1>3, <1>5, PowSucc DEF IsProduct, Power
<1>7. N \in Nat
  BY <1>3, <1>4
<1> QED
  BY <1>1, <1>3, <1>4, <1>6, <1>7, SeenFromRest

\* The roots of numbers of p bits are not midpoints of numbers of p bits.
LEMMA NoMidpointIs ==
  ASSUME NEW x, OddPart(x), NEW p \in Nat, p > 0, x.prec = p, NEW f \in Int,
         NEW m, NEW rb, NEW sb, SeenFrom(x, p, f, m, rb, sb)
  PROVE  m \in Nat /\ rb \in BOOLEAN /\ sb \in BOOLEAN /\ NoMidpoint(p, m, rb, sb)
<1>1. HalfExp(x) \in Int /\ OddExp(x) \in {0, 1} /\ x.exp + OddExp(x) = 2 * HalfExp(x) /\ x.exp \in Int
  BY HalfExpIs DEF OddPart
<1>2. PICK least \in Int : least = (p + 1) - HalfExp(x)
  BY <1>1
<1>3. PICK K \in {f, least} : K \in Int /\ K >= f /\ K >= least
  OBVIOUS
<1>4. PICK i \in Nat : i = ((K + HalfExp(x)) - p) - 1
  BY <1>1, <1>2, <1>3
<1>5. PICK v \in Nat : Power(v, i) /\ v > 0
  BY PowerExists
<1>6. PICK N : InQuarters(N, x, K)
  <2>1. K + HalfExp(x) >= p + 1
    BY <1>1, <1>2, <1>3
  <2> QED
    BY <1>3, <2>1, QuartersExist
<1>7. Seen(N, v, m, rb, sb)
  BY <1>3, <1>4, <1>5, <1>6 DEF SeenFrom
<1>8. m \in Nat /\ rb \in BOOLEAN /\ sb \in BOOLEAN
  BY <1>7 DEF Seen
<1>9. PICK P \in Nat : Power(P, p) /\ P > 0
  BY PowerExists
<1>10. PICK h \in Nat : h = (p + 1) - OddExp(x)
  BY <1>1
<1>11. PICK H \in Nat : Power(H, h) /\ H > 0
  BY PowerExists
<1>12. x.mant \in Nat /\ x.mant + 1 <= P
  BY <1>9 DEF OddPart, IsSignificand, Power
<1>13. H <= 2 * P
  <2>1. 2^(p + 1) = 2 * P
    BY <1>9, PowSucc DEF Power
  <2>2. h <= p + 1
    BY <1>1, <1>10
  <2> QED
    BY <1>11, <2>1, <2>2, PowMonotone DEF Power
<1>14. N = (x.mant * (2 * H)) * (v * v) /\ N \in Nat
  <2>1. PICK s \in Nat : s = i + i /\ s = 2 * i
    OBVIOUS
  <2>2. PICK S \in Nat : Power(S, s)
    BY PowerExists
  <2>3. IsProduct(S, v, v)
    BY <1>5, <2>1, <2>2, PowerProduct
  <2>4. PICK T \in Nat : Power(T, h + 1)
    BY PowerExists
  <2>5. T = 2 * H
    BY <1>11, <2>4, PowSucc DEF Power
  <2>6. (2 * K + x.exp) - x.prec = (h + 1) + s
    BY <1>1, <1>3, <1>4, <1>10, <2>1
  <2>7. PICK Z \in Nat : Power(Z, (h + 1) + s)
    BY PowerExists
  <2>8. IsProduct(Z, T, S)
    BY <2>2, <2>4, <2>7, PowerProduct
  <2>9. N = x.mant * Z
    BY <1>6, <2>6, <2>7 DEF InQuarters, Power
  <2>10. N = x.mant * (T * S)
    BY <2>8, <2>9 DEF IsProduct
  <2>11. N = (x.mant * T) * S /\ N \in Nat
    BY <1>12, <2>2, <2>4, <2>10
  <2> QED
    BY <2>3, <2>5, <2>11 DEF IsProduct
<1>15. PICK a \in Nat : a = x.mant * (2 * H)
  BY <1>12
<1>16. PICK V \in Nat : V = v * v /\ V > 0
  BY <1>5, MulMono
<1>17. ASSUME rb
       PROVE  sb /\ m + 1 # P
  <2>1. PICK b \in Nat : b = 2 * m + 1
    BY <1>8
  <2>2. WithBit(m, rb) = b
    BY <1>17, <2>1 DEF WithBit
  <2>3. (b * v) * (b * v) <= N /\ (~ sb => N = (b * v) * (b * v))
    BY <1>7, <2>2 DEF Seen, RootAt, ExactAtRoot
  <2>4. PICK B \in Nat : B = b * b
    OBVIOUS
  <2>5. (b * v) * (b * v) = B * V
    BY <1>16, <2>4
  <2>6. N = a * V
    BY <1>14, <1>15, <1>16
  <2>7. B <= a /\ (~ sb => B = a)
    <3>1. B * V <= a * V /\ (~ sb => B * V = a * V)
      BY <2>3, <2>5, <2>6
    <3> QED
      BY <1>16, <3>1, MulCancel, MulMono
  <2>8. B = 2 * (2 * (m * m) + 2 * m) + 1
    BY <1>8, <2>1, <2>4
  <2>9. sb
    <3>1. PICK d \in Nat : d = x.mant * H
      BY <1>12
    <3>2. a = 2 * d
      BY <1>12, <1>15, <3>1
    <3>3. PICK d2 \in Nat : d2 = 2 * (m * m) + 2 * m
      BY <1>8
    <3> QED
      BY <1>8, <2>7, <2>8, <3>2, <3>3
  <2>10. m + 1 # P
    <3> SUFFICES ASSUME m + 1 = P
                 PROVE  FALSE
      OBVIOUS
    <3>1. PICK d \in Nat : d = m * m
      BY <1>8
    <3>2. a <= m * (2 * H)
      <4>1. x.mant <= m
        BY <1>8, <1>12
      <4> QED
        BY <1>8, <1>12, <1>15, <4>1, MulMono
    <3>3. m * (2 * H) <= m * (4 * P)
      <4>1. PICK u \in Nat : u = 2 * H
        OBVIOUS
      <4>2. PICK w \in Nat : w = 4 * P
        OBVIOUS
      <4>3. m * u <= m * w
        BY <1>8, <1>13, <4>1, <4>2, MulMono
      <4> QED
        BY <4>1, <4>2, <4>3
    <3>4. m * (4 * P) = 4 * d + 4 * m
      BY <1>8, <3>1
    <3> QED
      BY <1>8, <2>7, <2>8, <3>1, <3>2, <3>3, <3>4
  <2> QED
    BY <2>9, <2>10
<1> QED
  BY <1>8, <1>9, <1>17 DEF NoMidpoint, Power

\* The root q of x, n in units of 4^-g: what the rounding to p bits needs to know.
RootOf(x, p, g, n, q) ==
  /\ OddPart(x) /\ p \in Nat /\ p > 0 /\ g \in Int /\ g + HalfExp(x) >= p + 2
  /\ InQuarters(n, x, g) /\ IsRoot(n, q)
  /\ FitsIn(p, g + 1, HalfExp(x))

\* c is the exact root rounded once.
RightRoot(c, x, p, g, n, q, rnd) == RightResult(c, p, g + 1, Sticky(2 * q, q * q # n), rnd, FALSE)

\* The end of the codes for one and two limbs is right when the root was seen.
LEMMA RootEndRight ==
  ASSUME NEW x, NEW p, NEW g, NEW n, NEW q, RootOf(x, p, g, n, q), x.prec = p,
         NEW f \in Int, NEW m, NEW rb, NEW sb, SeenFrom(x, p, f, m, rb, sb), NEW rnd \in Rnds
  PROVE  RightRoot(RootEnd(p, m, HalfExp(x), rb, sb, rnd), x, p, g, n, q, rnd)
<1>1. /\ OddPart(x) /\ p \in Nat /\ p > 0 /\ g \in Int /\ g + HalfExp(x) >= p + 2
      /\ InQuarters(n, x, g) /\ IsRoot(n, q) /\ FitsIn(p, g + 1, HalfExp(x))
  BY DEF RootOf
<1>2. PICK X : X = Sticky(2 * q, q * q # n)
  OBVIOUS
<1>3. RoundsFrom(X, p, HalfExp(x) + (g + 1), m, rb, sb)
  BY <1>1, <1>2, RootRounds
<1>4. rb \in BOOLEAN /\ sb \in BOOLEAN /\ NoMidpoint(p, m, rb, sb)
  BY <1>1, NoMidpointIs
<1>5. IsSignificand(m, p) /\ HalfExp(x) \in Int
  BY <1>1, <1>3, HalfExpIs DEF RoundsFrom, OddPart
<1>6. PICK c : c = RootEnd(p, m, HalfExp(x), rb, sb, rnd)
  OBVIOUS
<1>7. EndsWith(c, p, m, HalfExp(x), rb, sb, rnd, FALSE)
  BY <1>1, <1>4, <1>5, <1>6, RootEndEnds
<1>8. FALSE \in BOOLEAN
  OBVIOUS
<1>9. RightResult(c, p, g + 1, X, rnd, FALSE)
  BY <1>1, <1>3, <1>7, <1>8, EndsRight, Zenon
<1> QED
  BY <1>2, <1>6, <1>9 DEF RightRoot

\* The end of the codes that start from an approximation.
EndOfApprox(p, sh, n, root, approx, below, most, e, rnd) ==
  LET near == (approx + below) % 2^(sh - 1) <= most
      seen == IF near THEN root ELSE approx
  IN RootEnd(p, seen \div 2^sh, e, Bit(seen, sh - 1) = 1,
             (near => root * root # n) \/ seen % 2^(sh - 1) # 0, rnd)

\* An approximation that is not near a multiple of c has the same bits as the root above c.
NotNear(q, off, below, above, c, S) ==
  /\ q \in Nat /\ off \in Int /\ below \in Nat /\ above \in Nat /\ - below <= off /\ off <= above
  /\ c \in Nat /\ c > 0 /\ S \in Nat /\ IsProduct(S, 2, c)
  /\ ~ (((q + off) + below) % c <= below + above)

\* An approximation that is not near a multiple of c has the bits of the root.
LEMMA ApproxIs ==
  ASSUME NEW q, NEW off, NEW below, NEW above, NEW c, NEW S, NotNear(q, off, below, above, c, S)
  PROVE  /\ (q + off) \div S = q \div S /\ ((q + off) % S) \div c = (q % S) \div c
         /\ (q + off) % c # 0 /\ q % c # 0 /\ q + off \in Nat
<1>0. /\ q \in Nat /\ off \in Int /\ below \in Nat /\ above \in Nat /\ - below <= off /\ off <= above
      /\ c \in Nat /\ c > 0 /\ S \in Nat /\ IsProduct(S, 2, c)
      /\ ~ (((q + off) + below) % c <= below + above)
  BY DEF NotNear
<1>1. PICK y \in Nat : y = (q + off) + below
  BY <1>0
<1>2. PICK k \in Nat, s \in Nat : y = k * c + s /\ s < c
  <2>1. y \div c \in Nat /\ y % c \in Nat /\ y % c < c /\ y = (y \div c) * c + (y % c)
    BY <1>0, DivModExists
  <2> QED
    BY <2>1
<1>3. y % c = s
  BY <1>0, <1>2, DivModUnique
<1>4. s > below + above
  BY <1>0, <1>1, <1>3
<1>5. PICK Q \in Nat, a \in Nat : k = Q * 2 + a /\ a < 2
  <2>1. k = (k \div 2) * 2 + (k % 2) /\ k \div 2 \in Nat /\ k % 2 \in Nat /\ k % 2 < 2
    OBVIOUS
  <2> QED
    BY <2>1
<1>6. PICK s1 \in Nat : s1 = s - below
  BY <1>0, <1>4
<1>7. PICK s2 \in Nat : s2 = s1 - off
  BY <1>0, <1>4, <1>6
<1>8. 0 < s1 /\ s1 < c /\ 0 < s2 /\ s2 < c
  BY <1>0, <1>2, <1>4, <1>6, <1>7
<1>9. q + off = (Q * 2 + a) * c + s1 /\ q = (Q * 2 + a) * c + s2
  <2>1. PICK d \in Nat : d = k * c
    BY <1>0
  <2>2. q + off = d + s1 /\ q = d + s2
    BY <1>0, <1>1, <1>2, <1>6, <1>7, <2>1
  <2> QED
    BY <1>0, <1>5, <2>1, <2>2
<1>10. PICK z \in Nat : z = q + off
  BY <1>0, <1>9
<1>11. Halves(z, c, S, Q, a, s1) /\ Halves(q, c, S, Q, a, s2)
  BY <1>0, <1>5, <1>8, <1>9, <1>10, HalvesAre
<1> QED
  BY <1>0, <1>8, <1>10, <1>11 DEF Halves

\* The root that the codes for one and two limbs approximate.
LEMMA SpecialRootIs ==
  ASSUME NEW x, OddPart(x), NEW L \in Nat, x.prec <= L,
         NEW n, n = (x.mant * 2^(L - x.prec)) * 2^(L - OddExp(x))
  PROVE  InQuarters(n, x, L - HalfExp(x)) /\ IsRoot(n, Isqrt(n, L))
<1>1. /\ HalfExp(x) \in Int /\ OddExp(x) \in {0, 1} /\ x.exp + OddExp(x) = 2 * HalfExp(x)
      /\ x.exp \in Int /\ x.prec \in Nat /\ x.prec > 0 /\ x.mant \in Nat
  BY HalfExpIs DEF OddPart
<1>2. PICK i \in Nat : i = L - x.prec
  BY <1>1
<1>3. PICK j \in Nat : j = L - OddExp(x)
  BY <1>1
<1>4. PICK I \in Nat : Power(I, i)
  BY PowerExists
<1>5. PICK J \in Nat : Power(J, j)
  BY PowerExists
<1>6. PICK T \in Nat : Power(T, i + j)
  BY PowerExists
<1>7. IsProduct(T, I, J)
  BY <1>4, <1>5, <1>6, PowerProduct
<1>8. n = (x.mant * I) * J
  BY <1>2, <1>3, <1>4, <1>5 DEF Power
<1>9. n = x.mant * T /\ n \in Nat
  <2>1. (x.mant * I) * J = x.mant * (I * J)
    BY <1>1, <1>4, <1>5
  <2> QED
    BY <1>1, <1>7, <1>8, <2>1 DEF IsProduct
<1>10. InQuarters(n, x, L - HalfExp(x))
  <2>1. (2 * (L - HalfExp(x)) + x.exp) - x.prec = i + j /\ L - HalfExp(x) \in Int
    <3>1. PICK H \in Int : H = HalfExp(x)
      BY <1>1
    <3>2. PICK E \in Int : E = x.exp
      BY <1>1
    <3>3. PICK o \in Int : o = OddExp(x)
      BY <1>1
    <3>4. PICK P \in Int : P = x.prec
      BY <1>1
    <3>5. E + o = 2 * H /\ i = L - P /\ j = L - o
      BY <1>1, <1>2, <1>3, <3>1, <3>2, <3>3, <3>4
    <3>6. (2 * (L - H) + E) - P = i + j /\ L - H \in Int
      BY <3>5
    <3> QED
      BY <3>1, <3>2, <3>4, <3>6, Zenon
  <2> QED
    BY <1>6, <1>9, <2>1 DEF InQuarters, Power
<1>11. n < 2^L * 2^L
  <2>1. PICK P \in Nat : Power(P, x.prec)
    BY <1>1, PowerExists
  <2>2. PICK Z \in Nat : Power(Z, L) /\ Z > 0
    BY PowerExists
  <2>3. L = x.prec + i
    BY <1>1, <1>2
  <2>4. IsProduct(Z, P, I)
    BY <1>1, <1>4, <2>1, <2>2, <2>3, PowerProduct
  <2>5. x.mant < P
    BY <2>1 DEF OddPart, IsSignificand, Power
  <2>6. J <= Z /\ J > 0 /\ I > 0
    <3>1. j <= L
      BY <1>1, <1>3
    <3>2. J > 0 /\ I > 0
      BY <1>4, <1>5, PowNat DEF Power
    <3> QED
      BY <1>5, <2>2, <3>1, <3>2, PowMonotone DEF Power
  <2>7. PICK A \in Nat : A = x.mant * I
    BY <1>1
  <2>8. A < Z
    <3>1. x.mant * I < P * I
      BY <1>1, <2>1, <2>5, <2>6, Factor
    <3> QED
      BY <2>4, <2>7, <3>1 DEF IsProduct
  <2>9. A * J < Z * J
    BY <2>6, <2>8, Factor
  <2>10. J * Z <= Z * Z
    BY <2>6, MulMono
  <2>11. Z * J = J * Z
    OBVIOUS
  <2>12. n < Z * Z
    BY <1>8, <2>7, <2>9, <2>10, <2>11
  <2> QED
    BY <2>2, <2>12 DEF Power
<1>12. IsRoot(n, Isqrt(n, L))
  BY <1>9, <1>11, IsqrtIs
<1> QED
  BY <1>10, <1>12

\* An approximation within its error is enough, looked at more closely when it is near.
LEMMA ApproxRight ==
  ASSUME NEW x, NEW p, NEW g, NEW nn, NEW qq, RootOf(x, p, g, nn, qq), x.prec = p,
         NEW L \in Nat, p < L, NEW n, n = (x.mant * 2^(L - p)) * 2^(L - OddExp(x)),
         NEW below \in Nat, NEW above \in Nat, NEW most, most = below + above,
         NEW off \in Int, - below <= off, off <= above,
         NEW root, root = Isqrt(n, L), NEW sh, sh = L - p, NEW rnd \in Rnds
  PROVE  RightRoot(EndOfApprox(p, sh, n, root, root + off, below, most, HalfExp(x), rnd),
                   x, p, g, nn, qq, rnd)
<1>1. OddPart(x) /\ p \in Nat /\ p > 0
  BY DEF RootOf
<1>2. PICK f : f = L - HalfExp(x)
  OBVIOUS
<1>3. InQuarters(n, x, f) /\ IsRoot(n, root) /\ HalfExp(x) \in Int
  BY <1>1, <1>2, SpecialRootIs, HalfExpIs DEF OddPart
<1>4. f \in Int /\ root \in Nat
  BY <1>2, <1>3 DEF IsRoot
<1>5. PICK j \in Nat : j = sh - 1
  BY <1>1
<1>6. j = ((f + HalfExp(x)) - p) - 1
  BY <1>1, <1>2, <1>3, <1>5
<1>7. PICK c \in Nat : Power(c, j) /\ c > 0
  BY PowerExists
<1>8. PICK S \in Nat : S = 2 * c
  OBVIOUS
<1>9. IsProduct(S, 2, c) /\ S = 2^sh /\ c = 2^(sh - 1)
  <2>1. sh = j + 1
    BY <1>1, <1>5
  <2> QED
    BY <1>5, <1>7, <1>8, <2>1, PowSucc DEF Power, IsProduct
<1>10. SeenFrom(x, p, f, root \div S, (root % S) \div c = 1, root % c # 0 \/ root * root # n)
  BY <1>1, <1>3, <1>4, <1>6, <1>7, <1>9, SeenOfRoot
<1>11. PICK near \in BOOLEAN : near = (((root + off) + below) % c <= most)
  <2>1. PICK near \in BOOLEAN : near <=> (((root + off) + below) % c <= most)
    OBVIOUS
  <2>2. ((root + off) + below) % c \in Int /\ most \in Int
    BY <1>4, <1>7
  <2>3. near = (((root + off) + below) % c <= most)
    BY <2>1, <2>2
  <2> QED
    BY <2>3, Zenon
<1>12. PICK seen : seen = IF near THEN root ELSE root + off
  OBVIOUS
<1>13. PICK rb \in BOOLEAN : rb = (Bit(seen, sh - 1) = 1)
  OBVIOUS
<1>14. PICK sb \in BOOLEAN : sb = ((near => root * root # n) \/ seen % c # 0)
  OBVIOUS
<1>15. PICK m : m = seen \div S
  OBVIOUS
<1>16. Bit(seen, sh - 1) = (seen % S) \div c
  <2>1. (sh - 1) + 1 = sh
    BY <1>1
  <2> QED
    BY <1>9, <2>1 DEF Bit, Bits
<1>17. m = root \div S /\ rb = ((root % S) \div c = 1) /\ sb = (root % c # 0 \/ root * root # n)
  <2>1. CASE near
    BY <1>12, <1>13, <1>14, <1>15, <1>16, <2>1
  <2>2. CASE ~ near
    <3>1. seen = root + off
      BY <1>12, <2>2
    <3>2. ~ (((root + off) + below) % c <= below + above)
      BY <1>11, <2>2
    <3>3. NotNear(root, off, below, above, c, S)
      BY <1>4, <1>7, <1>9, <3>2 DEF NotNear
    <3>4. /\ (root + off) \div S = root \div S /\ ((root + off) % S) \div c = (root % S) \div c
          /\ (root + off) % c # 0 /\ root % c # 0
      BY <3>3, ApproxIs
    <3> QED
      BY <1>13, <1>14, <1>15, <1>16, <2>2, <3>1, <3>4
  <2> QED
    BY <1>11, <2>1, <2>2
<1>18. SeenFrom(x, p, f, m, rb, sb)
  BY <1>10, <1>17
<1>19. EndOfApprox(p, sh, n, root, root + off, below, most, HalfExp(x), rnd)
         = RootEnd(p, m, HalfExp(x), rb, sb, rnd)
  <2>1. c = 2^(sh - 1) /\ S = 2^sh
    BY <1>9
  <2> QED
    BY <1>11, <1>12, <1>13, <1>14, <1>15, <2>1, Zenon DEF EndOfApprox
<1> QED
  BY <1>4, <1>18, <1>19, RootEndRight

\* The code for a number that fills its limb.
RestEnd(p, n, root, e, rnd) == RootEnd(p, root, e, n - root * root > root, n - root * root # 0, rnd)

\* When the root fills its limb, the rest tells the two bits.
LEMMA RestRight ==
  ASSUME NEW x, NEW p, NEW g, NEW nn, NEW qq, RootOf(x, p, g, nn, qq), x.prec = p,
         NEW n, n = x.mant * 2^(p - OddExp(x)), NEW root, root = Isqrt(n, p), NEW rnd \in Rnds
  PROVE  RightRoot(RestEnd(p, n, root, HalfExp(x), rnd), x, p, g, nn, qq, rnd)
<1>1. OddPart(x) /\ p \in Nat /\ p > 0
  BY DEF RootOf
<1>2. PICK f : f = p - HalfExp(x)
  OBVIOUS
<1>3. n = (x.mant * 2^(p - x.prec)) * 2^(p - OddExp(x))
  <2>1. 2^(p - x.prec) = 1
    <3>1. p - x.prec = 0 /\ 2^0 = 1
      BY <1>1
    <3> QED
      BY <3>1
  <2>2. x.mant * 1 = x.mant
    BY <1>1 DEF OddPart
  <2> QED
    BY <2>1, <2>2
<1>4. InQuarters(n, x, f) /\ IsRoot(n, root) /\ HalfExp(x) \in Int /\ OddExp(x) \in {0, 1}
  <2>1. x.prec <= p
    BY <1>1
  <2>2. InQuarters(n, x, f) /\ IsRoot(n, root)
    BY <1>1, <1>2, <1>3, <2>1, SpecialRootIs
  <2> QED
    BY <1>1, <2>2, HalfExpIs DEF OddPart
<1>5. f \in Int /\ f + HalfExp(x) = p /\ root \in Nat /\ n \in Nat
  <2>1. p - OddExp(x) \in Nat
    BY <1>1, <1>4
  <2> QED
    BY <1>1, <1>2, <1>4, <2>1, PowNat DEF IsRoot, OddPart
<1>6. SeenFrom(x, p, f, root, n - root * root > root, n - root * root # 0)
  BY <1>1, <1>4, <1>5, SeenOfRest
<1>7. PICK rb \in BOOLEAN : rb = (n - root * root > root)
  <2>1. PICK b \in BOOLEAN : b <=> (n - root * root > root)
    OBVIOUS
  <2>2. b = (n - root * root > root)
    BY <1>5, <2>1
  <2> QED
    BY <2>2, Zenon
<1>8. PICK sb \in BOOLEAN : sb = (n - root * root # 0)
  OBVIOUS
<1>9. SeenFrom(x, p, f, root, rb, sb)
  BY <1>6, <1>7, <1>8
<1>10. RightRoot(RootEnd(p, root, HalfExp(x), rb, sb, rnd), x, p, g, nn, qq, rnd)
  BY <1>5, <1>9, RootEndRight
<1> QED
  BY <1>7, <1>8, <1>10 DEF RestEnd

\* The general code: wide is what mpn_sqrtrem is given, and C what it does not see.
WideRadicand(x, w, rsize, p, sh, us, mm, left, wide, C) ==
  /\ OddPart(x) /\ w \in Nat /\ rsize \in Nat /\ p \in Nat /\ sh \in Nat /\ rsize * w = p + sh
  /\ us \in Nat /\ mm \in Nat /\ us * w = x.prec + mm
  /\ left = MaxOf(us - 2 * rsize, 0)
  /\ wide = (x.mant * 2^mm) * 2^((MaxOf(2 * rsize - us, 0) * w + 1) - OddExp(x))
  /\ C = 2^(left * w + 1)

\* It has the bits of the operand that the root depends on, and C units of what it leaves.
LEMMA WideRadicandIs ==
  ASSUME NEW x, NEW w, NEW rsize, NEW p, NEW sh, NEW us, NEW mm, NEW left, NEW wide, NEW C,
         WideRadicand(x, w, rsize, p, sh, us, mm, left, wide, C)
  PROVE  /\ wide \in Nat /\ C \in Nat /\ C > 0
         /\ \E Z \in Nat : Power(Z, rsize * w) /\ wide < C * (Z * Z)
         /\ \A K \in Int, k \in Nat : k = K - ((p + sh) - HalfExp(x)) =>
              \A t \in Nat : \A N : Power(t, k) /\ InQuarters(N, x, K) => N * C = wide * (t * t)
<1>1. /\ OddPart(x) /\ w \in Nat /\ rsize \in Nat /\ p \in Nat /\ sh \in Nat /\ rsize * w = p + sh
      /\ us \in Nat /\ mm \in Nat /\ us * w = x.prec + mm
      /\ left = MaxOf(us - 2 * rsize, 0)
      /\ wide = (x.mant * 2^mm) * 2^((MaxOf(2 * rsize - us, 0) * w + 1) - OddExp(x))
      /\ C = 2^(left * w + 1)
  BY DEF WideRadicand
<1>2. /\ HalfExp(x) \in Int /\ OddExp(x) \in {0, 1} /\ x.exp + OddExp(x) = 2 * HalfExp(x)
      /\ x.exp \in Int /\ x.prec \in Nat /\ x.prec > 0 /\ x.mant \in Nat
  BY <1>1, HalfExpIs DEF OddPart
<1>3. PICK pos \in Nat : pos = MaxOf(2 * rsize - us, 0)
  <2>1. rsize \in Nat /\ us \in Nat
    BY <1>1
  <2> QED
    BY <2>1 DEF MaxOf
<1>4. left \in Nat /\ pos + us = 2 * rsize + left
  BY <1>1, <1>3 DEF MaxOf
<1>5. PICK R \in Nat : R = rsize * w
  BY <1>1
<1>6. PICK l \in Nat : l = left * w
  BY <1>1, <1>4
<1>7. PICK s \in Nat : s = pos * w
  BY <1>1
<1>8. s + (x.prec + mm) = 2 * R + l
  <2>1. (pos + us) * w = pos * w + us * w /\ (2 * rsize + left) * w = 2 * (rsize * w) + left * w
    BY <1>1, <1>4
  <2> QED
    BY <1>1, <1>4, <1>5, <1>6, <1>7, <2>1
<1>9. PICK i \in Nat : i = (s + 1) - OddExp(x)
  BY <1>2
<1>10. PICK Mm \in Nat : Power(Mm, mm) /\ Mm > 0
  BY <1>1, PowerExists
<1>11. PICK I \in Nat : Power(I, i) /\ I > 0
  BY PowerExists
<1>12. PICK J \in Nat : Power(J, mm + i) /\ J > 0
  BY <1>1, PowerExists
<1>13. IsProduct(J, Mm, I)
  BY <1>1, <1>10, <1>11, <1>12, PowerProduct
<1>14. wide = x.mant * J /\ wide \in Nat
  <2>1. wide = (x.mant * Mm) * I
    BY <1>1, <1>3, <1>7, <1>9, <1>10, <1>11 DEF Power
  <2>2. (x.mant * Mm) * I = x.mant * (Mm * I)
    BY <1>2, <1>10, <1>11
  <2> QED
    BY <1>2, <1>12, <1>13, <2>1, <2>2 DEF IsProduct
<1>15. Power(C, l + 1) /\ C \in Nat /\ C > 0
  BY <1>1, <1>6, PowNat DEF Power
<1>16. \E Z \in Nat : Power(Z, rsize * w) /\ wide < C * (Z * Z)
  <2>1. PICK Z \in Nat : Power(Z, R) /\ Z > 0
    BY PowerExists
  <2>2. PICK P \in Nat : Power(P, x.prec) /\ P > 0
    BY <1>2, PowerExists
  <2>3. PICK T \in Nat : Power(T, x.prec + (mm + i))
    BY <1>1, <1>2, PowerExists
  <2>4. IsProduct(T, P, J)
    BY <1>1, <1>2, <1>12, <2>2, <2>3, PowerProduct
  <2>5. x.mant < P
    BY <1>1, <2>2 DEF OddPart, IsSignificand, Power
  <2>6. wide < T
    <3>1. x.mant * J < P * J
      BY <1>2, <1>12, <2>2, <2>5, Factor
    <3> QED
      BY <1>14, <2>4, <3>1 DEF IsProduct
  <2>7. PICK Y \in Nat : Power(Y, R + R)
    BY PowerExists
  <2>8. IsProduct(Y, Z, Z)
    BY <2>1, <2>7, PowerProduct
  <2>9. PICK V \in Nat : Power(V, (l + 1) + (R + R))
    BY PowerExists
  <2>10. IsProduct(V, C, Y)
    BY <1>15, <2>7, <2>9, PowerProduct
  <2>11. T <= V
    <3>1. x.prec + (mm + i) <= (l + 1) + (R + R)
      BY <1>1, <1>2, <1>8, <1>9
    <3>2. x.prec + (mm + i) \in Nat /\ (l + 1) + (R + R) \in Nat
      BY <1>1, <1>2
    <3> QED
      BY <2>3, <2>9, <3>1, <3>2, PowMonotone DEF Power
  <2>12. wide < C * (Z * Z)
    BY <1>14, <2>6, <2>8, <2>10, <2>11 DEF IsProduct
  <2> QED
    BY <1>5, <2>1, <2>12
<1>17. ASSUME NEW K \in Int, NEW k \in Nat, k = K - ((p + sh) - HalfExp(x)),
              NEW t \in Nat, NEW N, Power(t, k), InQuarters(N, x, K)
       PROVE  N * C = wide * (t * t)
  <2>1. PICK y \in Nat : y = (2 * K + x.exp) - x.prec
    BY <1>17 DEF InQuarters
  <2>2. PICK Y \in Nat : Power(Y, y)
    BY PowerExists
  <2>3. N = x.mant * Y
    BY <1>17, <2>1, <2>2 DEF InQuarters, Power
  <2>4. PICK T \in Nat : Power(T, k + k)
    BY PowerExists
  <2>5. IsProduct(T, t, t)
    BY <1>17, <2>4, PowerProduct
  <2>6. y + (l + 1) = (mm + i) + (k + k)
    <3>1. PICK H \in Int : H = HalfExp(x)
      BY <1>2
    <3>2. PICK o \in Int : o = OddExp(x)
      BY <1>2
    <3>3. PICK E \in Int : E = x.exp
      BY <1>2
    <3>4. PICK pr \in Int : pr = x.prec
      BY <1>2
    <3>5. /\ E + o = 2 * H /\ y = (2 * K + E) - pr /\ i = (s + 1) - o /\ s + (pr + mm) = 2 * R + l
          /\ k = K - (R - H)
      BY <1>1, <1>2, <1>5, <1>8, <1>9, <1>17, <2>1, <3>1, <3>2, <3>3, <3>4
    <3> QED
      BY <1>1, <3>5
  <2>7. PICK V \in Nat : Power(V, y + (l + 1))
    BY PowerExists
  <2>8. IsProduct(V, Y, C) /\ IsProduct(V, J, T)
    <3>1. l + 1 \in Nat /\ mm + i \in Nat /\ k + k \in Nat
      BY <1>1
    <3> QED
      BY <1>12, <1>15, <2>2, <2>4, <2>6, <2>7, <3>1, PowerProduct
  <2>9. N * C = x.mant * V
    BY <1>2, <1>15, <2>2, <2>3, <2>8 DEF IsProduct
  <2>10. wide * T = x.mant * V
    BY <1>2, <1>12, <1>14, <2>4, <2>8 DEF IsProduct
  <2> QED
    BY <2>5, <2>9, <2>10 DEF IsProduct
<1> QED
  BY <1>14, <1>15, <1>16, <1>17

\* What the general code looks at: the sh low bits of the root, and whether more follows.
GeneralBits(sh, m, low, rest, root) ==
  /\ sh \in Nat /\ root \in Nat /\ rest \in BOOLEAN /\ m = root \div 2^sh /\ low = root % 2^sh

\* What low and rest tell of a round bit and a sticky bit.
Tells(sh, low, rest, m, rb, sb) ==
  /\ rb \in BOOLEAN /\ sb \in BOOLEAN /\ low \in Nat
  /\ rb \/ sb <=> rest \/ low # 0
  /\ sh > 0 => /\ rb <=> low >= 2^(sh - 1)
               /\ rb => (sb <=> low # 2^(sh - 1) \/ rest)

\* The limbs that follow the significand and the rest tell what is seen.
LEMMA GeneralSeen ==
  ASSUME NEW N \in Nat, NEW t \in Nat, t > 0, NEW root, RootAt(N, t, root),
         NEW rest \in BOOLEAN, rest <=> ~ ExactAtRoot(N, t, root),
         NEW sh \in Nat, NEW m, NEW low, GeneralBits(sh, m, low, rest, root),
         NEW v \in Nat, v > 0, NEW i \in Nat, Power(v, i), NEW k \in Nat, Power(t, k), k + sh = i + 1
  PROVE  \E rb, sb : Seen(N, v, m, rb, sb) /\ Tells(sh, low, rest, m, rb, sb)
<1>1. root \in Nat /\ m = root \div 2^sh /\ low = root % 2^sh
  BY DEF GeneralBits
<1>2. CASE sh = 0
  <2>1. 2^sh = 1
    BY <1>2
  <2>2. m = root /\ low = 0
    BY <1>1, <2>1
  <2>3. IsProduct(t, 2, v)
    <3>1. k = i + 1
      BY <1>2
    <3> QED
      BY <3>1, PowSucc DEF IsProduct, Power
  <2>4. PICK rb, sb : Seen(N, v, root, rb, sb) /\ (rb \/ sb <=> ~ ExactAtRoot(N, t, root))
    BY <2>3, SeenWhole
  <2>5. rb \in BOOLEAN /\ sb \in BOOLEAN
    BY <2>4 DEF Seen
  <2>6. Tells(sh, low, rest, m, rb, sb)
    BY <1>2, <2>2, <2>4, <2>5 DEF Tells
  <2> QED
    BY <2>2, <2>4, <2>6
<1>3. CASE sh > 0
  <2>1. PICK j \in Nat : j = sh - 1
    BY <1>3
  <2>2. PICK c \in Nat : Power(c, j) /\ c > 0
    BY PowerExists
  <2>3. PICK S \in Nat : S = 2 * c
    OBVIOUS
  <2>4. IsProduct(S, 2, c) /\ S = 2^sh /\ c = 2^(sh - 1)
    <3>1. sh = j + 1
      BY <2>1
    <3> QED
      BY <2>1, <2>2, <2>3, <3>1, PowSucc DEF Power, IsProduct
  <2>5. IsProduct(v, c, t)
    <3>1. i = j + k
      BY <2>1
    <3> QED
      BY <2>2, <3>1, PowerProduct
  <2>6. Seen(N, v, root \div S, (root % S) \div c = 1, root % c # 0 \/ ~ ExactAtRoot(N, t, root))
    BY <2>2, <2>4, <2>5, SeenCut
  <2>7. PICK Q \in Nat, a \in Nat, b \in Nat : Halves(root, c, S, Q, a, b)
    BY <1>1, <2>2, <2>4, HalfCut, Zenon
  <2>8. PICK rb \in BOOLEAN : rb = ((root % S) \div c = 1)
    OBVIOUS
  <2>9. PICK sb \in BOOLEAN : sb = (root % c # 0 \/ ~ ExactAtRoot(N, t, root))
    OBVIOUS
  <2>10. Seen(N, v, m, rb, sb)
    BY <1>1, <2>4, <2>6, <2>8, <2>9
  <2>11. a < 2 /\ b < c /\ (rb <=> a = 1) /\ (sb <=> b # 0 \/ rest)
    BY <2>7, <2>8, <2>9 DEF Halves
  <2>12. low = a * c + b
    <3>1. root = Q * S + (a * c + b)
      <4>1. root = (Q * 2 + a) * c + b
        BY <2>7 DEF Halves
      <4>2. (Q * 2 + a) * c = Q * (2 * c) + a * c
        OBVIOUS
      <4> QED
        BY <2>3, <4>1, <4>2
    <3>2. PICK cut \in Nat : cut = a * c + b
      OBVIOUS
    <3>3. cut < S
      <4>1. CASE a = 0
        BY <2>3, <2>11, <3>2, <4>1
      <4>2. CASE a = 1
        BY <2>3, <2>11, <3>2, <4>2
      <4> QED
        BY <2>11, <4>1, <4>2
    <3>4. root % S = cut
      <4>1. S > 0
        BY <2>2, <2>3
      <4> QED
        BY <1>1, <3>1, <3>2, <3>3, <4>1, DivModUnique
    <3> QED
      BY <1>1, <2>4, <3>2, <3>4
  <2>13. Tells(sh, low, rest, m, rb, sb)
    <3>1. CASE a = 0
      <4>1. low = b
        BY <2>12, <3>1
      <4> QED
        BY <2>4, <2>11, <3>1, <4>1 DEF Tells
    <3>2. CASE a = 1
      <4>1. low = c + b
        BY <2>12, <3>2
      <4> QED
        BY <2>2, <2>4, <2>11, <3>2, <4>1 DEF Tells
    <3> QED
      BY <2>11, <3>1, <3>2
  <2> QED
    BY <2>10, <2>13
<1> QED
  BY <1>2, <1>3

\* The bits of the general code are those of the root.
LEMMA GeneralRounds ==
  ASSUME NEW x, NEW p, NEW g, NEW nn, NEW qq, RootOf(x, p, g, nn, qq),
         NEW w, NEW rsize, NEW sh, NEW us, NEW mm, NEW left, NEW wide, NEW C,
         WideRadicand(x, w, rsize, p, sh, us, mm, left, wide, C),
         NEW a, a = wide \div C, NEW root, root = Isqrt(a, rsize * w),
         NEW rest \in BOOLEAN, rest <=> (wide % C # 0 \/ root * root # a),
         NEW m, m = root \div 2^sh, NEW low, low = root % 2^sh
  PROVE  \E rb, sb : /\ RoundsFrom(Sticky(2 * qq, qq * qq # nn), p, HalfExp(x) + (g + 1), m, rb, sb)
                     /\ Tells(sh, low, rest, m, rb, sb)
<1>1. /\ OddPart(x) /\ p \in Nat /\ p > 0 /\ g \in Int /\ g + HalfExp(x) >= p + 2
      /\ InQuarters(nn, x, g) /\ IsRoot(nn, qq)
  BY DEF RootOf
<1>2. rsize * w \in Nat /\ sh \in Nat
  BY DEF WideRadicand
<1>3. HalfExp(x) \in Int
  BY <1>1, HalfExpIs DEF OddPart
<1>4. wide \in Nat /\ C \in Nat /\ C > 0
  BY WideRadicandIs
<1>5. PICK Z \in Nat : Power(Z, rsize * w) /\ wide < C * (Z * Z)
  BY WideRadicandIs
<1>6. a \in Nat /\ wide % C \in Nat /\ IsQuotient(wide, C, a, wide % C)
  BY <1>4, DivModExists DEF IsQuotient
<1>7. IsRoot(a, root)
  <2>1. PICK Y \in Nat : Y = Z * Z
    OBVIOUS
  <2>2. a * C < Y * C
    <3>1. a * C <= wide
      BY <1>4, <1>6 DEF IsQuotient
    <3>2. C * Y = Y * C /\ a * C \in Nat
      BY <1>4, <1>6
    <3> QED
      BY <1>4, <1>5, <2>1, <3>1, <3>2
  <2>3. a < Y
    BY <1>4, <1>6, <2>2, Factor
  <2>4. a < 2^(rsize * w) * 2^(rsize * w)
    BY <1>5, <2>1, <2>3 DEF Power
  <2> QED
    BY <1>2, <1>6, <2>4, IsqrtIs
<1>8. PICK f \in Int : f = (p + sh) - HalfExp(x)
  BY <1>1, <1>2, <1>3
<1>9. PICK K \in {f, g} : K \in Int /\ K >= f /\ K >= g
  BY <1>1
<1>10. PICK N : InQuarters(N, x, K)
  <2>1. (2 * g + x.exp) - x.prec \in Nat
    BY <1>1 DEF InQuarters
  <2> QED
    BY <1>1, <1>9, <2>1, QuartersExist
<1>11. PICK i \in Nat : i = ((K + HalfExp(x)) - p) - 1
  BY <1>1, <1>3, <1>9
<1>12. PICK v \in Nat : Power(v, i) /\ v > 0
  BY PowerExists
<1>13. PICK k \in Nat : k = K - f
  BY <1>9
<1>14. PICK t \in Nat : Power(t, k) /\ t > 0
  BY PowerExists
<1>15. N * C = wide * (t * t)
  <2>1. k = K - ((p + sh) - HalfExp(x))
    BY <1>8, <1>13
  <2> QED
    BY <1>9, <1>10, <1>14, <2>1, WideRadicandIs
<1>16. N \in Nat
  BY <1>1, <1>10, PowNat DEF InQuarters, OddPart
<1>17. RootAt(N, t, root) /\ (ExactAtRoot(N, t, root) <=> wide % C = 0 /\ root * root = a)
  BY <1>4, <1>6, <1>7, <1>14, <1>15, <1>16, RootOfQuotient
<1>18. GeneralBits(sh, m, low, rest, root)
  BY <1>2, <1>7 DEF GeneralBits, IsRoot
<1>19. k + sh = i + 1
  BY <1>1, <1>2, <1>3, <1>8, <1>9, <1>11, <1>13
<1>20. PICK rb, sb : Seen(N, v, m, rb, sb) /\ Tells(sh, low, rest, m, rb, sb)
  BY <1>2, <1>12, <1>14, <1>16, <1>17, <1>18, <1>19, GeneralSeen
<1>21. PICK X : X = Sticky(2 * qq, qq * qq # nn)
  OBVIOUS
<1>22. RoundsFrom(X, p, HalfExp(x) + (g + 1), m, rb, sb)
  BY <1>1, <1>9, <1>10, <1>11, <1>12, <1>20, <1>21, SeenRounds
<1> QED
  BY <1>20, <1>21, <1>22

\* The end of the general code.
EndOfGeneral(p, sh, root, rest, e, rnd, neg) ==
  LET low == root % 2^sh
      m == root \div 2^sh
      exact == ~ rest /\ low = 0
      half == 2^(sh - 1)
      up == CASE rnd \in {"RNDZ", "RNDD"} \/ exact -> FALSE
              [] rnd = "RNDN" /\ ~ exact ->
                   low >= half /\ (low # half \/ rest \/ m % 2 = 1)
              [] OTHER -> TRUE
      s == IF up THEN OneUlpAdded(p, m, e, neg)
           ELSE Return(Num(neg, e, m, p), Signed(neg, IF exact THEN 0 ELSE -1), {})
  IN CheckRange(s.y, s.inex, rnd, emin, emax)

\* A significand, increased or not, in the range or not.
Increased(p, m, e, up, t, rnd, neg) ==
  LET s == IF up THEN OneUlpAdded(p, m, e, neg) ELSE Return(Num(neg, e, m, p), t, {})
  IN CheckRange(s.y, s.inex, rnd, emin, emax)

\* mpn_add_1, with its carry.
LEMMA IncreasedIs ==
  ASSUME NEW p \in Nat, p > 0, NEW m, IsSignificand(m, p), NEW e \in Int, NEW up \in BOOLEAN,
         NEW t, NEW rnd, NEW neg \in BOOLEAN
  PROVE  LET s == Significand(m, p, Decision(up, 0))
         IN Increased(p, m, e, up, t, rnd, neg)
              = CheckRange(Num(neg, e + s.carry, s.mant, p), IF up THEN Signed(neg, 1) ELSE t,
                           rnd, emin, emax)
<1> DEFINE s == Significand(m, p, Decision(up, 0))
<1>1. m \in Nat /\ m < 2^p /\ 2^p \in Nat
  BY PowNat DEF IsSignificand
<1>2. /\ ~ up => s.mant = m /\ s.carry = 0
      /\ up /\ m + 1 < 2^p => s.mant = m + 1 /\ s.carry = 0
      /\ up /\ ~ (m + 1 < 2^p) => s.mant = 2^(p - 1) /\ s.carry = 1
  BY <1>1 DEF Significand, Decision
<1> DEFINE z == IF up THEN OneUlpAdded(p, m, e, neg) ELSE Return(Num(neg, e, m, p), t, {})
           i == IF up THEN Signed(neg, 1) ELSE t
<1>3. Increased(p, m, e, up, t, rnd, neg) = CheckRange(z.y, z.inex, rnd, emin, emax)
  BY DEF Increased
<1>4. z.y = Num(neg, e + s.carry, s.mant, p) /\ z.inex = i
  <2> HIDE DEF s
  <2>1. CASE ~ up
    <3>1. z = Return(Num(neg, e, m, p), t, {})
      BY <2>1
    <3>2. z.y = Num(neg, e, m, p) /\ z.inex = t
      BY <3>1 DEF Return
    <3>3. e + s.carry = e
      BY <1>2, <2>1
    <3> QED
      BY <1>2, <2>1, <3>2, <3>3
  <2>2. CASE up /\ m + 1 < 2^p
    <3>1. z = Return(Num(neg, e, m + 1, p), Signed(neg, 1), {})
      BY <2>2 DEF OneUlpAdded
    <3>2. z.y = Num(neg, e, m + 1, p) /\ z.inex = Signed(neg, 1)
      BY <3>1 DEF Return
    <3>3. e + s.carry = e
      BY <1>2, <2>2
    <3> QED
      BY <1>2, <2>2, <3>2, <3>3
  <2>3. CASE up /\ ~ (m + 1 < 2^p)
    <3>1. z = Return(Num(neg, e + 1, 2^(p - 1), p), Signed(neg, 1), {})
      BY <2>3 DEF OneUlpAdded
    <3>2. z.y = Num(neg, e + 1, 2^(p - 1), p) /\ z.inex = Signed(neg, 1)
      BY <3>1 DEF Return
    <3> QED
      BY <1>2, <2>3, <3>2
  <2> QED
    BY <2>1, <2>2, <2>3
<1> HIDE DEF z, i
<1>5. CheckRange(z.y, z.inex, rnd, emin, emax)
        = CheckRange(Num(neg, e + s.carry, s.mant, p), i, rnd, emin, emax)
  BY <1>4, Zenon
<1> QED
  BY <1>3, <1>5 DEF i

\* The end of the general code is right.
LEMMA EndOfGeneralRight ==
  ASSUME NEW p, NEW sc, NEW e, FitsIn(p, sc, e), NEW X, NEW m, NEW rb, NEW sb,
         RoundsFrom(X, p, e + sc, m, rb, sb), NEW sh, NEW low, NEW rest \in BOOLEAN,
         Tells(sh, low, rest, m, rb, sb), NEW root, m = root \div 2^sh, low = root % 2^sh,
         NEW rnd \in Rnds, rnd = "RNDN" => sh > 0, NEW neg \in BOOLEAN, ~ neg
  PROVE  RightResult(EndOfGeneral(p, sh, root, rest, e, rnd, neg), p, sc, X, rnd, neg)
<1>1. p \in Nat /\ p > 0 /\ e \in Int /\ IsSignificand(m, p) /\ sc \in Nat /\ e + sc \in 1..MaxBits
  BY DEF FitsIn, RoundsFrom
<1>2. PICK exact \in BOOLEAN : exact <=> ~ rest /\ low = 0
  OBVIOUS
<1>3. PICK up \in BOOLEAN : up <=> CASE rnd \in {"RNDZ", "RNDD"} \/ exact -> FALSE
              [] rnd = "RNDN" /\ ~ exact ->
                   low >= 2^(sh - 1) /\ (low # 2^(sh - 1) \/ rest \/ m % 2 = 1)
              [] OTHER -> TRUE
  OBVIOUS
<1>4. exact <=> ~ rb /\ ~ sb
  BY <1>2 DEF Tells
<1>5. PICK t : t = Signed(neg, IF exact THEN 0 ELSE -1)
  OBVIOUS
<1>6. EndOfGeneral(p, sh, root, rest, e, rnd, neg) = Increased(p, m, e, up, t, rnd, neg)
  BY <1>2, <1>3, <1>5 DEF EndOfGeneral, Increased
<1>7. PICK c : c = Increased(p, m, e, up, t, rnd, neg)
  OBVIOUS
<1> DEFINE s == Significand(m, p, Decision(up, 0))
<1>8. c = CheckRange(Num(neg, e + s.carry, s.mant, p), IF up THEN Signed(neg, 1) ELSE t, rnd, emin, emax)
  BY <1>1, <1>7, IncreasedIs
<1>9. CASE rnd # "RNDF"
  <2>1. rnd \in OneWay
    BY <1>9 DEF OneWay
  <2>2. up <=> Up(m, rb, sb, rnd, neg)
    <3>1. CASE exact
      BY <1>3, <1>4, <3>1 DEF Up
    <3>2. CASE ~ exact /\ rnd = "RNDN"
      BY <1>3, <1>4, <3>2 DEF Up, Tells
    <3>3. CASE ~ exact /\ rnd # "RNDN"
      BY <1>3, <1>4, <1>9, <3>3 DEF Up, IsLikeRNDZ, Rnds
    <3> QED
      BY <3>1, <3>2, <3>3
  <2>3. (IF up THEN Signed(neg, 1) ELSE t) = Signed(neg, Inexact(m, rb, sb, rnd, neg))
    BY <1>4, <1>5, <2>2 DEF Inexact, Up
  <2>4. up = Up(m, rb, sb, rnd, neg)
    BY <2>2 DEF Up, IsLikeRNDZ
  <2>5. c = Settled(p, m, e, rb, sb, rnd, neg)
    BY <1>8, <2>3, <2>4 DEF Settled
  <2>6. RightResult(c, p, sc, X, rnd, neg)
    BY <2>1, <2>5, SettledRight
  <2> QED
    BY <1>6, <1>7, <2>6
<1>10. CASE rnd = "RNDF"
  <2>1. CASE ~ up
    <3>1. s.mant = m /\ s.carry = 0
      BY <1>1, <2>1, PowNat DEF Significand, Decision, IsSignificand
    <3>2. c = CheckRange(Num(neg, e, m, p), t, "RNDF", emin, emax)
      <4> HIDE DEF s
      <4> QED
        BY <1>1, <1>8, <1>10, <2>1, <3>1
    <3>3. RightResult(c, p, sc, X, "RNDF", neg)
      BY <3>2, SettledFaithful
    <3> QED
      BY <1>6, <1>7, <1>10, <3>3
  <2>2. CASE up
    <3>1. PICK g : g = "RNDA" /\ g \in OneWay /\ g \in {"RNDZ", "RNDA"}
      BY DEF OneWay, Rnds
    <3>2. ~ exact
      BY <1>3, <2>2
    <3>3. up = Up(m, rb, sb, g, neg)
      <4>1. rb \in BOOLEAN /\ sb \in BOOLEAN
        BY DEF Tells
      <4> QED
        BY <1>4, <2>2, <3>1, <3>2, <4>1 DEF Up, IsLikeRNDZ
    <3>4. Represents(s.mant, p, (e + sc) + s.carry, RoundTo(X, p, g, neg))
      BY <1>1, <3>1, <3>3, BitsRound
    <3>5. s.carry \in {0, 1}
      BY DEF Significand
    <3>6. Represents(s.mant, p, (e + s.carry) + sc, RoundTo(X, p, g, neg)) /\ e + s.carry \in Int
      <4> HIDE DEF s
      <4>1. (e + sc) + s.carry = (e + s.carry) + sc /\ e + s.carry \in Int
        BY <1>1, <3>5
      <4> QED
        BY <3>4, <4>1
    <3>7. c.y = CheckRange(Num(neg, e + s.carry, s.mant, p), Signed(neg, 1), "RNDF", emin, emax).y
      <4> HIDE DEF s
      <4> QED
        BY <1>8, <1>10, <2>2
    <3>8. HasLength(X, e + sc)
      BY <1>1, RoundsFromLength
    <3>9. RightResult(c, p, sc, X, "RNDF", neg)
      <4> HIDE DEF s
      <4> QED
        BY <3>1, <3>6, <3>7, <3>8, ByCheckRangeFaithful
    <3> QED
      BY <1>6, <1>7, <1>10, <3>9
  <2> QED
    BY <2>1, <2>2
<1> QED
  BY <1>9, <1>10

\* The code of sqrt.c for limbs of w bits.
LimbsFor(w, p) == (p + w - 1) \div w

\* The bits of the last limb that are not used.
UnusedBits(w, p) == (-p) % w

\* The general code, for limbs of w bits.
GeneralSqrt(w, nl, mp, us, M, p, u, rnd) ==
  LET oneMore == rnd = "RNDN" /\ mp = 0
      sh == IF oneMore THEN w ELSE mp
      rsize == IF oneMore THEN nl + 1 ELSE nl
      left == MaxOf(us - 2 * rsize, 0)
      wide == M * 2^(MaxOf(2 * rsize - us, 0) * w + 1 - OddExp(u))
      a == wide \div 2^(left * w + 1)
      root == Isqrt(a, rsize * w)
      rest == wide % 2^(left * w + 1) # 0 \/ root * root # a
  IN EndOfGeneral(p, sh, root, rest, HalfExp(u), rnd, FALSE)

\* nl limbs of w bits hold p bits, and mp more.
Filled(w, p, nl, mp) == w \in Nat /\ w > 0 /\ nl \in Nat /\ mp \in Nat /\ nl * w = p + mp /\ mp < w

\* The limbs of p bits and those of their bits that are not used.
LEMMA FilledIs ==
  ASSUME NEW w \in Nat, w > 0, NEW p \in Nat, p > 0
  PROVE  Filled(w, p, LimbsFor(w, p), UnusedBits(w, p))
<1>1. PICK x \in Nat : x = (p + w) - 1
  OBVIOUS
<1>2. PICK n \in Nat, rest \in Nat : x = n * w + rest /\ rest < w
  <2>1. x \div w \in Nat /\ x % w \in Nat /\ x % w < w /\ x = (x \div w) * w + (x % w)
    BY DivModExists
  <2> QED
    BY <2>1
<1>3. LimbsFor(w, p) = n
  <2>1. x \div w = n
    BY <1>2, DivModUnique
  <2>2. p + w - 1 = x
    BY <1>1
  <2> QED
    BY <2>1, <2>2 DEF LimbsFor
<1>4. PICK s \in Nat : s = (w - 1) - rest
  BY <1>2
<1>5. s < w /\ n * w = p + s
  BY <1>1, <1>2, <1>4
<1>6. UnusedBits(w, p) = s
  <2>1. PICK k \in Int : k = - n
    OBVIOUS
  <2>2. - p = k * w + s
    <3>1. k * w = - (n * w)
      BY <2>1
    <3> QED
      BY <1>5, <3>1
  <2>3. - p \in Int
    OBVIOUS
  <2> QED
    BY <1>5, <2>2, <2>3, DivModUnique DEF UnusedBits
<1> QED
  BY <1>3, <1>5, <1>6 DEF Filled

\* The general code is right, for every precision of the operand and of the result.
LEMMA GeneralSqrtRight ==
  ASSUME NEW x, NEW p, NEW g, NEW nn, NEW qq, RootOf(x, p, g, nn, qq),
         NEW w, NEW nl, NEW mp, Filled(w, p, nl, mp), NEW us, NEW mm, Filled(w, x.prec, us, mm),
         NEW M, M = x.mant * 2^mm, NEW rnd \in Rnds
  PROVE  RightRoot(GeneralSqrt(w, nl, mp, us, M, p, x, rnd), x, p, g, nn, qq, rnd)
<1>1. OddPart(x) /\ p \in Nat /\ p > 0 /\ g \in Int /\ FitsIn(p, g + 1, HalfExp(x))
  BY DEF RootOf
<1>2. /\ w \in Nat /\ w > 0 /\ nl \in Nat /\ mp \in Nat /\ nl * w = p + mp
      /\ us \in Nat /\ mm \in Nat /\ us * w = x.prec + mm
  BY DEF Filled
<1>3. PICK oneMore \in BOOLEAN : oneMore = (rnd = "RNDN" /\ mp = 0)
  OBVIOUS
<1>4. PICK sh \in Nat : sh = IF oneMore THEN w ELSE mp
  BY <1>2
<1>5. PICK rsize \in Nat : rsize = IF oneMore THEN nl + 1 ELSE nl
  BY <1>2
<1>6. PICK left : left = MaxOf(us - 2 * rsize, 0)
  OBVIOUS
<1>7. PICK wide : wide = M * 2^(MaxOf(2 * rsize - us, 0) * w + 1 - OddExp(x))
  OBVIOUS
<1>8. PICK C : C = 2^(left * w + 1)
  OBVIOUS
<1>9. PICK a : a = wide \div C
  OBVIOUS
<1>10. PICK root : root = Isqrt(a, rsize * w)
  OBVIOUS
<1>11. PICK rest \in BOOLEAN : rest = (wide % C # 0 \/ root * root # a)
  OBVIOUS
<1>12. GeneralSqrt(w, nl, mp, us, M, p, x, rnd) = EndOfGeneral(p, sh, root, rest, HalfExp(x), rnd, FALSE)
  BY <1>3, <1>4, <1>5, <1>6, <1>7, <1>8, <1>9, <1>10, <1>11, Zenon DEF GeneralSqrt
<1>13. rsize * w = p + sh
  <2>1. CASE oneMore
    <3>1. (nl + 1) * w = nl * w + w
      BY <1>2
    <3>2. mp = 0
      BY <1>3, <2>1
    <3>3. sh = w /\ rsize = nl + 1
      BY <1>4, <1>5, <2>1
    <3>4. nl * w = p
      BY <1>1, <1>2, <3>2
    <3> QED
      BY <3>1, <3>3, <3>4
  <2>2. CASE ~ oneMore
    BY <1>2, <1>4, <1>5, <2>2
  <2> QED
    BY <2>1, <2>2
<1>14. rnd = "RNDN" => sh > 0
  <2>1. CASE oneMore
    BY <1>2, <1>4, <2>1
  <2>2. CASE ~ oneMore
    <3>1. ~ (rnd = "RNDN" /\ mp = 0)
      BY <1>3, <2>2
    <3> QED
      BY <1>2, <1>4, <2>2, <3>1
  <2> QED
    BY <2>1, <2>2
<1>15. WideRadicand(x, w, rsize, p, sh, us, mm, left, wide, C)
  <2>1. wide = (x.mant * 2^mm) * 2^((MaxOf(2 * rsize - us, 0) * w + 1) - OddExp(x))
    <3>1. PICK k : k = MaxOf(2 * rsize - us, 0)
      OBVIOUS
    <3>2. k \in Nat
      BY <1>2, <3>1 DEF MaxOf
    <3>3. OddExp(x) \in {0, 1}
      BY <1>1, HalfExpIs DEF OddPart
    <3>4. k * w + 1 - OddExp(x) = (k * w + 1) - OddExp(x)
      BY <1>2, <3>2, <3>3
    <3> QED
      BY <1>7, <3>1, <3>4
  <2> QED
    BY <1>1, <1>2, <1>6, <1>8, <1>13, <2>1 DEF WideRadicand
<1>16. PICK m : m = root \div 2^sh
  OBVIOUS
<1>17. PICK low : low = root % 2^sh
  OBVIOUS
<1>18. PICK X : X = Sticky(2 * qq, qq * qq # nn)
  OBVIOUS
<1>19. PICK rb, sb : RoundsFrom(X, p, HalfExp(x) + (g + 1), m, rb, sb) /\ Tells(sh, low, rest, m, rb, sb)
  <2>1. rest <=> (wide % C # 0 \/ root * root # a)
    BY <1>11
  <2> QED
    BY <1>9, <1>10, <1>15, <1>16, <1>17, <1>18, <2>1, GeneralRounds
<1>20. PICK neg \in BOOLEAN : neg = FALSE
  OBVIOUS
<1>21. ~ neg
  BY <1>20
<1>22. PICK sc : sc = g + 1
  OBVIOUS
<1>23. FitsIn(p, sc, HalfExp(x)) /\ RoundsFrom(X, p, HalfExp(x) + sc, m, rb, sb)
  BY <1>1, <1>19, <1>22
<1>24. RightResult(EndOfGeneral(p, sh, root, rest, HalfExp(x), rnd, neg), p, sc, X, rnd, neg)
  BY <1>14, <1>16, <1>17, <1>19, <1>21, <1>23, EndOfGeneralRight
<1> QED
  BY <1>12, <1>18, <1>20, <1>22, <1>24 DEF RightRoot
\* The whole of it.
SqrtWith(w, p, u, off, rnd, generic) ==
  LET special == ~ generic /\ p = u.prec
      M == u.mant * 2^UnusedBits(w, u.prec)
      n1 == M * 2^(w - OddExp(u))
      n2 == M * 2^(2 * w - OddExp(u))
      n == u.mant * 2^(w - OddExp(u))
  IN CASE special /\ p < w ->
            EndOfApprox(u.prec, w - u.prec, n1, Isqrt(n1, w), Isqrt(n1, w) - (- off),
                        Root1Error, Root1Error, HalfExp(u), rnd)
       [] special /\ p = w ->
            RestEnd(u.prec, n, Isqrt(n, w), HalfExp(u), rnd)
       [] special /\ w < p /\ p < 2 * w ->
            EndOfApprox(u.prec, 2 * w - u.prec, n2, Isqrt(n2, 2 * w), Isqrt(n2, 2 * w) + off,
                        Root2Below, Root2Below + Root2Above, HalfExp(u), rnd)
       [] ~ (special /\ p < 2 * w) ->
            GeneralSqrt(w, LimbsFor(w, p), UnusedBits(w, p), LimbsFor(w, u.prec), M, p, u, rnd)

\* How far from the root the approximation may be.
OffsetsWith(w, p, u, generic) ==
  CASE ~ generic /\ p = u.prec /\ p < w -> -Root1Error .. 0
    [] ~ generic /\ p = u.prec /\ w < p /\ p < 2 * w -> -Root2Below .. Root2Above
    [] OTHER -> {0}

\* mpfr_sqrt is SqrtWith for limbs of W bits.
LEMMA SqrtIs ==
  ASSUME NEW p, NEW u, NEW off, NEW rnd, NEW generic
  PROVE  /\ Sqrt(p, u, off, rnd, generic) = SqrtWith(W, p, u, off, rnd, generic)
         /\ RootOffsets(p, u, generic) = OffsetsWith(W, p, u, generic)
<1>1. SqrtGeneral(p, u, rnd)
        = GeneralSqrt(W, NLimbs(p), MinusModulo(p), NLimbs(u.prec), Mant(u), p, u, rnd)
  BY Zenon DEF SqrtGeneral, GeneralSqrt, EndOfGeneral, Signed, HalfExp
<1>2. Sqrt1(u, -off, rnd)
        = EndOfApprox(u.prec, W - u.prec, Mant(u) * 2^(W - OddExp(u)),
                      Isqrt(Mant(u) * 2^(W - OddExp(u)), W),
                      Isqrt(Mant(u) * 2^(W - OddExp(u)), W) - (- off),
                      Root1Error, Root1Error, HalfExp(u), rnd)
  BY Zenon DEF Sqrt1, EndOfApprox, HalfExp
<1>3. Sqrt2(u, off, rnd)
        = EndOfApprox(u.prec, 2 * W - u.prec, Mant(u) * 2^(2 * W - OddExp(u)),
                      Isqrt(Mant(u) * 2^(2 * W - OddExp(u)), 2 * W),
                      Isqrt(Mant(u) * 2^(2 * W - OddExp(u)), 2 * W) + off,
                      Root2Below, Root2Below + Root2Above, HalfExp(u), rnd)
  BY Zenon DEF Sqrt2, EndOfApprox, HalfExp
<1>4. /\ NLimbs(p) = LimbsFor(W, p) /\ NLimbs(u.prec) = LimbsFor(W, u.prec)
      /\ MinusModulo(p) = UnusedBits(W, p) /\ Mant(u) = u.mant * 2^UnusedBits(W, u.prec)
  BY Zenon DEF NLimbs, LimbsFor, MinusModulo, UnusedBits, Mant
<1>5. Sqrt1n(u, rnd)
        = RestEnd(u.prec, u.mant * 2^(W - OddExp(u)), Isqrt(u.mant * 2^(W - OddExp(u)), W),
                  HalfExp(u), rnd)
  BY Zenon DEF Sqrt1n, RestEnd, HalfExp
<1>6. Sqrt(p, u, off, rnd, generic) = SqrtWith(W, p, u, off, rnd, generic)
  BY <1>1, <1>2, <1>3, <1>4, <1>5, Zenon DEF Sqrt, SqrtWith
<1>7. RootOffsets(p, u, generic) = OffsetsWith(W, p, u, generic)
  BY Zenon DEF RootOffsets, OffsetsWith
<1> QED
  BY <1>6, <1>7


\* The bits of one or two limbs that p leaves unused.
LEMMA UnusedIs ==
  ASSUME NEW w \in Nat, NEW p \in Nat, p > 0, NEW nl, NEW mp, Filled(w, p, nl, mp),
         NEW k \in {1, 2}, p < k * w, (k - 1) * w < p
  PROVE  mp = k * w - p
<1>1. nl \in Nat /\ mp \in Nat /\ nl * w = p + mp /\ mp < w /\ w > 0
  BY DEF Filled
<1>2. CASE k = 1
  <2>1. p < w
    BY <1>2
  <2>2. nl * w < 2 * w /\ nl * w > 0 * w
    BY <1>1, <2>1
  <2>3. nl < 2 /\ 0 < nl
    BY <1>1, <2>2, Factor
  <2>4. nl = 1
    BY <1>1, <2>3
  <2> QED
    BY <1>1, <1>2, <2>4
<1>3. CASE k = 2
  <2>1. p < 2 * w /\ w < p
    BY <1>3
  <2>2. nl * w < 3 * w /\ nl * w > 1 * w
    BY <1>1, <2>1
  <2>3. nl < 3 /\ 1 < nl
    BY <1>1, <2>2, Factor
  <2>4. nl = 2
    BY <1>1, <2>3
  <2> QED
    BY <1>1, <1>3, <2>4
<1> QED
  BY <1>2, <1>3

\* mpfr_sqrt returns the exact root rounded once, for limbs of any size and any approximate
\* root within its error.
LEMMA SqrtWithRight ==
  ASSUME NEW x, NEW p, NEW g, NEW nn, NEW qq, RootOf(x, p, g, nn, qq), NEW w \in Nat, w > 0,
         NEW generic \in BOOLEAN, NEW off, off \in OffsetsWith(w, p, x, generic), NEW rnd \in Rnds
  PROVE  RightRoot(SqrtWith(w, p, x, off, rnd, generic), x, p, g, nn, qq, rnd)
<1>1. OddPart(x) /\ p \in Nat /\ p > 0 /\ x.prec \in Nat /\ x.prec > 0
  BY DEF RootOf, OddPart
<1>2. PICK special \in BOOLEAN : special = (~ generic /\ p = x.prec)
  OBVIOUS
<1>3. PICK M : M = x.mant * 2^UnusedBits(w, x.prec)
  OBVIOUS
<1>4. Filled(w, p, LimbsFor(w, p), UnusedBits(w, p))
      /\ Filled(w, x.prec, LimbsFor(w, x.prec), UnusedBits(w, x.prec))
  BY <1>1, FilledIs
<1>5. Root1Error \in Nat /\ Root2Below \in Nat /\ Root2Above \in Nat
  BY RootAssumption
<1>6. CASE special /\ p < w
  <2>1. x.prec = p /\ ~ generic
    BY <1>2, <1>6
  <2>2. UnusedBits(w, x.prec) = w - p
    <3>1. PICK k \in {1, 2} : k = 1
      OBVIOUS
    <3>2. p < k * w /\ (k - 1) * w < p /\ k * w - p = w - p
      BY <1>1, <1>6, <3>1
    <3> QED
      BY <1>1, <1>4, <2>1, <3>2, UnusedIs
  <2>3. PICK n : n = M * 2^(w - OddExp(x))
    OBVIOUS
  <2>4. n = (x.mant * 2^(w - p)) * 2^(w - OddExp(x))
    BY <1>3, <2>2, <2>3
  <2>5. PICK root : root = Isqrt(n, w)
    OBVIOUS
  <2>6. root \in Nat
    <3>1. x.prec <= w /\ n = (x.mant * 2^(w - x.prec)) * 2^(w - OddExp(x))
      BY <1>1, <1>6, <2>1, <2>4
    <3> QED
      BY <1>1, <2>5, <3>1, SpecialRootIs DEF IsRoot
  <2>7. off \in -Root1Error .. 0
    <3>1. ~ (w < p)
      BY <1>1, <1>6
    <3> QED
      BY <1>6, <2>1, <3>1 DEF OffsetsWith
  <2>8. SqrtWith(w, p, x, off, rnd, generic)
          = EndOfApprox(x.prec, w - x.prec, n, root, root - (- off), Root1Error, Root1Error,
                        HalfExp(x), rnd)
    <3>1. ~ (p = w) /\ ~ (w < p) /\ p < 2 * w
      BY <1>1, <1>6
    <3> QED
      BY <1>2, <1>3, <1>6, <2>1, <2>3, <2>5, <3>1 DEF SqrtWith
  <2>9. root - (- off) = root + off
    BY <1>5, <2>6, <2>7
  <2>10. RightRoot(EndOfApprox(p, w - p, n, root, root + off, Root1Error, Root1Error, HalfExp(x), rnd),
                   x, p, g, nn, qq, rnd)
    <3>1. PICK z \in Nat : z = 0
      OBVIOUS
    <3>2. off \in Int /\ - Root1Error <= off /\ off <= z /\ Root1Error = Root1Error + z
      BY <1>5, <2>7, <3>1
    <3>3. PICK sh : sh = w - p
      OBVIOUS
    <3>4. RightRoot(EndOfApprox(p, sh, n, root, root + off, Root1Error, Root1Error, HalfExp(x), rnd),
                    x, p, g, nn, qq, rnd)
      BY <1>5, <1>6, <2>1, <2>4, <2>5, <3>2, <3>3, ApproxRight
    <3> QED
      BY <3>3, <3>4
  <2> QED
    BY <2>1, <2>8, <2>9, <2>10
<1>7. CASE special /\ p = w
  <2>1. x.prec = p /\ ~ generic
    BY <1>2, <1>7
  <2>2. PICK n : n = x.mant * 2^(w - OddExp(x))
    OBVIOUS
  <2>3. PICK root : root = Isqrt(n, w)
    OBVIOUS
  <2>4. SqrtWith(w, p, x, off, rnd, generic)
          = RestEnd(x.prec, n, root, HalfExp(x), rnd)
    <3>1. ~ (p < w) /\ ~ (w < p) /\ p < 2 * w
      BY <1>1, <1>7
    <3> QED
      BY <1>2, <1>7, <2>1, <2>2, <2>3, <3>1 DEF SqrtWith
  <2>5. n = x.mant * 2^(p - OddExp(x)) /\ root = Isqrt(n, p)
    BY <1>7, <2>2, <2>3
  <2>6. RightRoot(RestEnd(p, n, root, HalfExp(x), rnd), x, p, g, nn, qq, rnd)
    BY <2>1, <2>5, RestRight, Zenon
  <2> QED
    BY <2>1, <2>4, <2>6
<1>8. CASE special /\ w < p /\ p < 2 * w
  <2>1. x.prec = p /\ ~ generic
    BY <1>2, <1>8
  <2>2. PICK L \in Nat : L = 2 * w
    OBVIOUS
  <2>3. UnusedBits(w, x.prec) = L - p
    <3>1. PICK k \in {1, 2} : k = 2
      OBVIOUS
    <3>2. p < k * w /\ (k - 1) * w < p /\ k * w - p = L - p
      BY <1>1, <1>8, <2>2, <3>1
    <3> QED
      BY <1>1, <1>4, <2>1, <3>2, UnusedIs
  <2>4. PICK n : n = M * 2^(L - OddExp(x))
    OBVIOUS
  <2>5. n = (x.mant * 2^(L - p)) * 2^(L - OddExp(x))
    BY <1>3, <2>3, <2>4
  <2>6. PICK root : root = Isqrt(n, L)
    OBVIOUS
  <2>7. off \in -Root2Below .. Root2Above
    <3>1. ~ (p < w)
      BY <1>1, <1>8
    <3> QED
      BY <1>8, <2>1, <3>1 DEF OffsetsWith
  <2>8. SqrtWith(w, p, x, off, rnd, generic)
          = EndOfApprox(x.prec, L - x.prec, n, root, root + off, Root2Below, Root2Below + Root2Above,
                        HalfExp(x), rnd)
    <3>1. ~ (p = w) /\ ~ (p < w)
      BY <1>1, <1>8
    <3> QED
      BY <1>2, <1>3, <1>8, <2>1, <2>2, <2>4, <2>6, <3>1 DEF SqrtWith
  <2>9. RightRoot(EndOfApprox(p, L - p, n, root, root + off, Root2Below, Root2Below + Root2Above,
                              HalfExp(x), rnd), x, p, g, nn, qq, rnd)
    <3>1. off \in Int /\ - Root2Below <= off /\ off <= Root2Above
      BY <1>5, <2>7
    <3>2. PICK sh : sh = L - p
      OBVIOUS
    <3>3. PICK most : most = Root2Below + Root2Above
      OBVIOUS
    <3>4. p < L
      BY <1>8, <2>2
    <3>5. RightRoot(EndOfApprox(p, sh, n, root, root + off, Root2Below, most, HalfExp(x), rnd),
                    x, p, g, nn, qq, rnd)
      BY <1>5, <2>1, <2>5, <2>6, <3>1, <3>2, <3>3, <3>4, ApproxRight
    <3> QED
      BY <3>2, <3>3, <3>5
  <2> QED
    BY <2>1, <2>8, <2>9
<1>9. CASE ~ (special /\ p < 2 * w)
  <2>1. SqrtWith(w, p, x, off, rnd, generic)
          = GeneralSqrt(w, LimbsFor(w, p), UnusedBits(w, p), LimbsFor(w, x.prec), M, p, x, rnd)
    <3>1. ~ (special /\ p < w) /\ ~ (special /\ p = w)
      BY <1>1, <1>9
    <3> QED
      BY <1>2, <1>3, <1>9, <3>1 DEF SqrtWith
  <2>2. RightRoot(GeneralSqrt(w, LimbsFor(w, p), UnusedBits(w, p), LimbsFor(w, x.prec), M, p, x, rnd),
                  x, p, g, nn, qq, rnd)
    BY <1>3, <1>4, GeneralSqrtRight
  <2> QED
    BY <2>1, <2>2
<1> QED
  BY <1>1, <1>6, <1>7, <1>8, <1>9

=============================================================================
