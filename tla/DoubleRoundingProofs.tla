------------------------ MODULE DoubleRoundingProofs ------------------------
(****************************************************************************)
(* The double roundings of MPFR are single roundings, for all precisions,   *)
(* exponent ranges, exact results, signs and modes: the cached constants    *)
(* (CacheIsRight), mpfr_round_nearest_away (NearestAwayIsRight),            *)
(* mpfr_subnormalize (SubnormalIsRight) and the flags (FlagsAreRight).      *)
(* mpfr_set_1_2, and with it the whole of AtomicRounding, come last.        *)
(*                                                                          *)
(* StagesInv says what each step has returned; each invariant is then a fact*)
(* about the operators, proved from RndRawRight and CheckRangeRight for the *)
(* first rounding and from the lemmas of RoundingProofs for the second.*)
(****************************************************************************)
EXTENDS DoubleRounding, RoundingProofs

-----------------------------------------------------------------------------
(* mpfr_cache *)

\* The sign of the constants.
Pos == FALSE

\* What is decided from the bits left and the side told by inex.
CacheDecides(m, P, p, q2, r2, u2, inex, rn) ==
  \E dec \in {AddOneUlp, Decision(FALSE, -1)} :
     /\ RndRawGen(m, P, p, rn, Pos, CacheMiddle(inex)) = Significand(q2, p, dec)
     /\ rn = "RNDN" =>
          (dec.up <=> 2 * r2 > u2
                      \/ (2 * r2 = u2 /\ (inex < 0 \/ (inex = 0 /\ q2 % 2 = 1))))
     /\ rn # "RNDN" => (dec.up <=> rn \in {"RNDU", "RNDA"})

\* MPFR_RNDRAW_GEN with the ties decided by cache->inexact, when bits are left.
LEMMA CacheDecision ==
  ASSUME NEW p \in Nat, p > 0, NEW P \in Nat, p < P, NEW m \in Nat, IsSignificand(m, P),
         NEW u2 \in Nat, NEW q2 \in Nat, NEW r2 \in Nat, Cut(m, P, p, u2, q2, r2), r2 # 0,
         NEW inex \in Int, NEW rn \in Rnds \ {"RNDF"}
  PROVE  CacheDecides(m, P, p, q2, r2, u2, inex, rn)
<1> DEFINE M == CacheMiddle(inex)
           s == RndRawGen(m, P, p, rn, Pos, M)
           odd == q2 % 2 = 1
<1>0. rn \in Rnds /\ rn # "RNDF" /\ Pos \in BOOLEAN /\ 0 < p
  BY DEF Pos
<1>1. /\ rn = "RNDN" /\ 2 * r2 = u2 => s = Significand(q2, p, M[odd])
      /\ ~ (rn = "RNDN" /\ 2 * r2 = u2) =>
              s = Significand(q2, p, Step(q2, r2, u2, rn, Pos))
  <2>1. ASSUME NEW neg \in BOOLEAN, NEW middle
        PROVE  LET t == RndRawGen(m, P, p, rn, neg, middle) IN
               /\ rn = "RNDN" /\ 2 * r2 = u2 => t = Significand(q2, p, middle[odd])
               /\ ~ (rn = "RNDN" /\ 2 * r2 = u2) =>
                       t = Significand(q2, p, Step(q2, r2, u2, rn, neg))
    BY <1>0, RndRawGenIs
  <2> HIDE DEF M, odd
  <2> QED
    BY <1>0, <2>1
<1>2. odd \in BOOLEAN
  OBVIOUS
<1>5. AddOneUlp.up = TRUE /\ Decision(FALSE, -1).up = FALSE
  BY DEF AddOneUlp, Decision
<1>6. u2 \in Nat /\ r2 \in Nat
  OBVIOUS
<1> SUFFICES \E dec \in {AddOneUlp, Decision(FALSE, -1)} :
              /\ RndRawGen(m, P, p, rn, Pos, CacheMiddle(inex)) = Significand(q2, p, dec)
              /\ rn = "RNDN" =>
                   (dec.up <=> 2 * r2 > u2
                               \/ (2 * r2 = u2 /\ (inex < 0 \/ (inex = 0 /\ q2 % 2 = 1))))
              /\ rn # "RNDN" => (dec.up <=> rn \in {"RNDU", "RNDA"})
  BY DEF CacheDecides
<1> HIDE DEF s, odd, M
<1>3. CASE rn = "RNDN" /\ 2 * r2 = u2
  <2>1. inex = 0 => M = ToEven
    BY DEF CacheMiddle, M
  <2>2. inex < 0 => M = [b \in BOOLEAN |-> AddOneUlp]
    BY DEF CacheMiddle, M
  <2>3. inex > 0 => M = [b \in BOOLEAN |-> Decision(FALSE, -1)]
    BY DEF CacheMiddle, M
  <2>4. s = Significand(q2, p, M[odd])
    BY <1>1, <1>3
  <2>5. ~ (2 * r2 > u2)
    BY <1>3, <1>6
  <2>6. CASE inex < 0 \/ (inex = 0 /\ odd)
    <3>1. M[odd] = AddOneUlp
      <4>1. CASE inex < 0
        BY <1>2, <2>2, <4>1
      <4>2. CASE inex = 0 /\ odd
        <5>1. odd = TRUE
          BY <1>2, <4>2
        <5> QED
          BY <2>1, <4>2, <5>1 DEF ToEven
      <4> QED
        BY <2>6, <4>1, <4>2
    <3> QED
      BY <1>3, <1>5, <2>4, <2>6, <3>1 DEF s, odd, M
  <2>7. CASE ~ (inex < 0 \/ (inex = 0 /\ odd))
    <3>1. M[odd] = Decision(FALSE, -1)
      <4>0. inex > 0 \/ inex = 0
        BY <2>7
      <4>1. CASE inex > 0
        BY <1>2, <2>3, <4>1
      <4>2. CASE inex = 0
        <5>1. odd = FALSE
          BY <1>2, <2>7, <4>2
        <5> QED
          BY <2>1, <4>2, <5>1 DEF ToEven
      <4> QED
        BY <4>0, <4>1, <4>2
    <3>2. s = Significand(q2, p, Decision(FALSE, -1))
      BY <2>4, <3>1
    <3> QED
      BY <1>3, <1>5, <2>5, <2>7, <3>2 DEF s, odd, M
  <2> QED
    BY <2>6, <2>7
<1>4. CASE ~ (rn = "RNDN" /\ 2 * r2 = u2)
  <2>1. s = Significand(q2, p, Step(q2, r2, u2, rn, Pos))
    BY <1>1, <1>4
  <2>2. Step(q2, r2, u2, rn, Pos)
          = IF GoesUp(q2, r2, u2, rn, Pos) THEN AddOneUlp ELSE Decision(FALSE, -1)
    BY DEF Step
  <2>4. /\ rn = "RNDN" => (GoesUp(q2, r2, u2, rn, Pos) <=> 2 * r2 > u2)
        /\ rn # "RNDN" => (GoesUp(q2, r2, u2, rn, Pos) <=> rn \in {"RNDU", "RNDA"})
    BY <1>4 DEF GoesUp, Rnds, Pos
  <2>5. CASE GoesUp(q2, r2, u2, rn, Pos)
    BY <1>4, <1>5, <2>1, <2>2, <2>4, <2>5 DEF s, M
  <2>6. CASE ~ GoesUp(q2, r2, u2, rn, Pos)
    BY <1>4, <1>5, <2>1, <2>2, <2>4, <2>6 DEF s, M
  <2> QED
    BY <2>5, <2>6
<1> QED
  BY <1>3, <1>4

\* Y is X rounded to nearest, to P bits, inex its ternary value.
CachedFor(X, P, Y, inex) == Y = RoundTo(X, P, "RNDN", Pos) /\ SignOf(inex) = SignOf(Y - X)

\* The ternary value of the cache tells the side of the cached number.
LEMMA CachedSides ==
  ASSUME NEW X \in Nat, NEW P, NEW Y \in Nat, NEW inex \in Int, CachedFor(X, P, Y, inex)
  PROVE  /\ ARounding(X, Y, P, Pos)
         /\ inex < 0 <=> X - Y > 0
         /\ inex = 0 <=> X - Y = 0
         /\ inex > 0 <=> X - Y < 0
<1>1. ARounding(X, Y, P, Pos)
  BY DEF ARounding, CachedFor
<1>2. ASSUME NEW i \in Int
      PROVE  (SignOf(i) = 1 <=> i > 0) /\ (SignOf(i) = 0 <=> i = 0) /\ (SignOf(i) = -1 <=> i < 0)
  <2>1. TRUE \in BOOLEAN
    OBVIOUS
  <2> QED
    BY <2>1, SignOfIs
<1>3. SignOf(inex) = SignOf(Y - X)
  BY DEF CachedFor
<1>4. Y - X \in Int
  OBVIOUS
<1>5. (inex > 0 <=> Y - X > 0) /\ (inex = 0 <=> Y - X = 0)
  BY <1>2, <1>3, <1>4
<1> QED
  BY <1>1, <1>5

\* What is taken from the cache, b and inex, is X rounded in the direction rn.
CacheRounds(X, b, inex, p, rn, sc, E) ==
  \E k \in Int, z \in Int, t \in Int :
     /\ CacheRounding(b, inex, p, rn) = Return(Num(Pos, z, k, p), t, {})
     /\ IsOneRounding(k, p, z + sc, t, X, rn, Pos, E)

\* A constant rounded from the cache, to a definite direction.
LEMMA CacheRoundingRight ==
  ASSUME NEW p \in Nat, p > 0, NEW P \in Nat, p <= P, NEW e \in 1..MaxBits,
         NEW X, HasLength(X, e), NEW sc \in Nat, NEW x \in Int, NEW m,
         NEW Y, NEW inex \in Int, CachedFor(X, P, Y, inex), Represents(m, P, x + sc, Y),
         Y < X => x # ExtEMax, X < Y => x # ExtEMin,
         NEW rn \in Rnds \ {"RNDF"}, NEW E
  PROVE  CacheRounds(X, Num(Pos, x, m, P), inex, p, rn, sc, E)
<1> DEFINE f == x + sc
           d == X - Y
           b == Num(Pos, x, m, P)
           s == RndRawGen(m, P, p, rn, Pos, CacheMiddle(inex))
           y == Num(Pos, x + s.carry, s.mant, p)
           c == CacheRounding(b, inex, p, rn)
<1>0. /\ ExtEMin \in Int /\ ExtEMax \in Int
      /\ rn \in Rnds /\ rn # "RNDF" /\ Pos \in BOOLEAN
      /\ rn = "RNDN" \/ rn \in ToOneSide
      /\ rn \in RoundingDirections \ {"RNDNA"}
  BY DoubleRoundingAssumption DEF Rnds, ToOneSide, RoundingDirections, Pos
<1>1. m \in Nat /\ IsSignificand(m, P) /\ f \in Nat /\ Y \in Nat /\ X \in Nat
  BY DEF Represents, IsSignificand, HasLength
<1>2. PICK u2 \in Nat, q2 \in Nat, r2 \in Nat : Cut(m, P, p, u2, q2, r2)
  BY <1>1, CutExistsUpTo
<1>3. /\ ARounding(X, Y, P, Pos)
      /\ d \in Int
      /\ inex < 0 <=> d > 0
      /\ inex = 0 <=> d = 0
      /\ inex > 0 <=> d < 0
  BY <1>1, CachedSides
<1>4. Hesitates(X, Y, p, f, q2, r2, u2, Pos)
  <2> HIDE DEF f
  <2>1. Represents(m, P, f, Y)
    BY DEF f
  <2> QED
    BY <1>0, <1>1, <1>2, <1>3, <2>1, Hesitation
<1>5. PICK K \in Int, Kp \in Int, Km \in Int :
         Candidates(X, p, f, q2, r2, u2, X - Y, Pos, K, Kp, Km)
  BY <1>4 DEF Hesitates
<1>6. (d > 0 <=> Y < X) /\ (d < 0 <=> X < Y)
  BY <1>1
<1>7. /\ Represents(q2, p, f, K)
      /\ K < X <=> r2 # 0 \/ d > 0
      /\ K = X <=> r2 = 0 /\ d = 0
      /\ r2 # 0 \/ d > 0 => Kp > X
      /\ r2 = 0 /\ d < 0 => Km < X
      /\ rn \in ToOneSide =>
           RoundTo(X, p, rn, Pos) =
             IF rn = "RNDA" \/ rn = "RNDU"
             THEN IF r2 # 0 \/ d > 0 THEN Kp ELSE K
             ELSE IF r2 = 0 /\ d < 0 THEN Km ELSE K
      /\ u2 # 1 =>
           RoundTo(X, p, "RNDN", Pos) =
             IF 2 * r2 > u2 \/ (2 * r2 = u2 /\ (d > 0 \/ (d = 0 /\ q2 % 2 = 1))) THEN Kp ELSE K
  BY <1>5 DEF Candidates, Pos
<1>8. u2 = 2^(P - p) /\ u2 > 0 /\ r2 < u2 /\ m = q2 * u2 + r2
  BY <1>2 DEF Cut
<1> HIDE DEF d
<1>13. /\ r2 = 0 /\ d < 0 /\ x # ExtEMin =>
            IsNumber(NextToZero(Num(Pos, x, q2, p), ExtEMin, ExtEMax), Pos, p, sc, Km)
       /\ (r2 # 0 \/ d > 0) /\ x # ExtEMax =>
            IsNumber(NextToInf(Num(Pos, x, q2, p), ExtEMin, ExtEMax), Pos, p, sc, Kp)
  <2>1. Candidates(X, p, x + sc, q2, r2, u2, d, Pos, K, Kp, Km)
    BY <1>5 DEF d
  <2> QED
    BY <1>0, <1>3, <2>1, NextIs
<1>9. /\ b.kind = "num" /\ b.neg = Pos /\ b.exp = x /\ b.mant = m /\ b.prec = P
  BY DEF Num
<1>10. c = CASE s.dir = 0 /\ inex # 0 /\ rn \in {"RNDZ", "RNDD"} /\ inex > 0 ->
                  Return(NextBelow(y, ExtEMin, ExtEMax), -inex, {})
             [] s.dir = 0 /\ inex # 0 /\ rn \in {"RNDU", "RNDA"} /\ inex < 0 ->
                  Return(NextAbove(y, ExtEMin, ExtEMax), -inex, {})
             [] OTHER -> Return(y, IF s.dir = 0 /\ inex # 0 THEN inex ELSE s.dir, {})
  BY <1>9 DEF CacheRounding, Pos
<1>11. CASE r2 = 0
  <2>1. s.mant = q2 /\ s.carry = 0 /\ s.dir = 0
    BY <1>0, <1>1, <1>2, <1>11, NothingLeft
  <2>2. y = Num(Pos, x, q2, p)
    BY <2>1
  <2>3. u2 = 1 => Y = K /\ P = p
    <3>1. ASSUME u2 = 1 PROVE m = q2 /\ P = p
      <4>1. m = q2
        BY <1>1, <1>8, <1>11, <3>1
      <4>2. ASSUME P - p # 0 PROVE FALSE
        <5>1. P - p \in Nat /\ 2^(P - p) = 2 * 2^((P - p) - 1) /\ 2^((P - p) - 1) \in Nat
          BY <4>2, PowHalf, PowNat
        <5> QED
          BY <1>8, <3>1, <5>1
      <4> QED
        BY <4>1, <4>2
    <3>2. 2^p \in Nat /\ 2^p > 0
      BY PowNat
    <3>3. ASSUME u2 = 1 PROVE K * 2^p = Y * 2^p
      <4>1. q2 * 2^f = K * 2^p
        BY <1>7 DEF Represents
      <4>2. m * 2^f = Y * 2^P
        BY DEF Represents
      <4> HIDE DEF f
      <4> QED
        BY <3>1, <3>3, <4>1, <4>2
    <3> QED
      BY <1>1, <3>1, <3>2, <3>3, MulCancel
  <2>4. RoundTo(X, p, "RNDN", Pos) = K
    <3>1. CASE u2 = 1
      BY <2>3, <3>1 DEF CachedFor
    <3>2. CASE u2 # 1
      BY <1>7, <1>8, <1>11, <3>2
    <3> QED
      BY <3>1, <3>2
  <2>5. rn = "RNDN" => RoundTo(X, p, rn, Pos) = K
    BY <2>4
  <2>6. NextBelow(y, ExtEMin, ExtEMax) = NextToZero(y, ExtEMin, ExtEMax)
        /\ NextAbove(y, ExtEMin, ExtEMax) = NextToInf(y, ExtEMin, ExtEMax)
    BY <2>2 DEF NextBelow, NextAbove, Num, Pos
  <2> DEFINE Good(o) == \E k \in Int, z \in Int, t \in Int :
                           o = Return(Num(Pos, z, k, p), t, {}) /\ IsOneRounding(k, p, z + sc, t, X, rn, Pos, E)
  <2>7. ASSUME NEW k \in Int, NEW z \in Int, NEW t \in Int, NEW Z,
               Z = RoundTo(X, p, rn, Pos), Represents(k, p, z + sc, Z),
               Z > X => t > 0, Z < X => t < 0, Z = X => t = 0
        PROVE  Good(Return(Num(Pos, z, k, p), t, {}))
    <3>1. Signed(Pos, t) = t
      BY DEF Signed, Pos
    <3>2. IsOneRounding(k, p, z + sc, t, X, rn, Pos, E)
      BY <1>0, <1>1, <2>7, <3>1, RightRounding
    <3> QED
      BY <2>7, <3>2
  <2> HIDE DEF Good, c, y, s
  <2>8. ASSUME inex > 0, rn \in {"RNDZ", "RNDD"} PROVE Good(c)
    <3>1. c = Return(NextToZero(y, ExtEMin, ExtEMax), -inex, {})
      BY <1>10, <2>1, <2>6, <2>8
    <3>2. d < 0 /\ x # ExtEMin
      BY <1>1, <1>3, <1>6, <2>8
    <3>3. PICK k \in Int, z \in Int : NextToZero(y, ExtEMin, ExtEMax) = Num(Pos, z, k, p)
                                      /\ Represents(k, p, z + sc, Km)
      BY <1>11, <1>13, <2>2, <3>2 DEF IsNumber
    <3>4. RoundTo(X, p, rn, Pos) = Km /\ Km < X
      BY <1>7, <1>11, <2>8, <3>2 DEF ToOneSide
    <3>5. -inex \in Int /\ ~ (Km > X) /\ Km # X /\ -inex < 0
      BY <1>1, <2>8, <3>4
    <3>6. Good(Return(Num(Pos, z, k, p), -inex, {}))
      BY <2>7, <3>3, <3>4, <3>5
    <3> QED
      BY <3>1, <3>3, <3>6
  <2>9. ASSUME inex < 0, rn \in {"RNDU", "RNDA"} PROVE Good(c)
    <3>1. c = Return(NextToInf(y, ExtEMin, ExtEMax), -inex, {})
      BY <1>10, <2>1, <2>6, <2>9
    <3>2. d > 0 /\ x # ExtEMax
      BY <1>1, <1>3, <1>6, <2>9
    <3>3. PICK k \in Int, z \in Int : NextToInf(y, ExtEMin, ExtEMax) = Num(Pos, z, k, p)
                                      /\ Represents(k, p, z + sc, Kp)
      BY <1>11, <1>13, <2>2, <3>2 DEF IsNumber
    <3>4. RoundTo(X, p, rn, Pos) = Kp /\ Kp > X
      BY <1>7, <1>11, <2>9, <3>2 DEF ToOneSide
    <3>5. -inex \in Int /\ ~ (Kp < X) /\ Kp # X /\ -inex > 0
      BY <1>1, <2>9, <3>4
    <3>6. Good(Return(Num(Pos, z, k, p), -inex, {}))
      BY <2>7, <3>3, <3>4, <3>5
    <3> QED
      BY <3>1, <3>3, <3>6
  <2>10. ASSUME ~ (inex > 0 /\ rn \in {"RNDZ", "RNDD"}), ~ (inex < 0 /\ rn \in {"RNDU", "RNDA"})
         PROVE  Good(c)
    <3>1. c = Return(y, inex, {})
      BY <1>10, <2>1, <2>10
    <3>2. RoundTo(X, p, rn, Pos) = K
      <4>1. CASE rn = "RNDN"
        BY <2>5, <4>1
      <4>2. CASE rn \in {"RNDU", "RNDA"}
        BY <1>3, <1>7, <1>11, <2>10, <4>2 DEF ToOneSide
      <4>3. CASE rn \in {"RNDZ", "RNDD"}
        BY <1>3, <1>7, <1>11, <2>10, <4>3 DEF ToOneSide
      <4> QED
        BY <1>0, <4>1, <4>2, <4>3 DEF ToOneSide
    <3>3. (K > X => inex > 0) /\ (K < X => inex < 0) /\ (K = X => inex = 0)
      BY <1>1, <1>3, <1>7, <1>11
    <3>4. Represents(q2, p, x + sc, K) /\ q2 \in Int
      BY <1>7
    <3>6. Good(Return(Num(Pos, x, q2, p), inex, {}))
      BY <2>7, <3>2, <3>3, <3>4
    <3> QED
      BY <2>2, <3>1, <3>6
  <2> QED
    BY <2>8, <2>9, <2>10 DEF Good, c, CacheRounds
<1>12. CASE r2 # 0
  <2>1. p < P
    <3>1. ASSUME P - p = 0 PROVE FALSE
      <4>1. u2 = 2^0
        BY <1>8, <3>1, Zenon
      <4> QED
        BY <1>8, <1>12, <4>1, PowZero
    <3> QED
      BY <3>1
  <2>2a. CacheDecides(m, P, p, q2, r2, u2, inex, rn)
    BY <1>1, <1>2, <1>12, <2>1, CacheDecision
  <2>2. PICK dec \in {AddOneUlp, Decision(FALSE, -1)} :
            /\ s = Significand(q2, p, dec)
            /\ rn = "RNDN" =>
                 (dec.up <=> 2 * r2 > u2
                             \/ (2 * r2 = u2 /\ (inex < 0 \/ (inex = 0 /\ q2 % 2 = 1))))
            /\ rn # "RNDN" => (dec.up <=> rn \in {"RNDU", "RNDA"})
    BY <2>2a DEF CacheDecides
  <2>3. dec.up \in BOOLEAN /\ dec.dir = (IF dec.up THEN 1 ELSE -1)
    BY UpOrDown
  <2>4. r2 # 0 \/ d > 0
    BY <1>12
  <2> DEFINE sg == Significand(q2, p, dec)
  <2>5. /\ Represents(sg.mant, p, f + sg.carry, IF dec.up THEN Kp ELSE K)
        /\ sg.carry \in {0, 1}
        /\ sg.dir = dec.dir
    <3>1. dec.up => r2 # 0 \/ d > 0
      BY <2>4
    <3>2. Candidates(X, p, f, q2, r2, u2, d, Pos, K, Kp, Km)
      BY <1>5 DEF d
    <3> HIDE DEF f
    <3> QED
      BY <1>1, <1>3, <2>3, <3>1, <3>2, CandidateChosen
  <2> DEFINE Z == IF dec.up THEN Kp ELSE K
  <2>6. Z = RoundTo(X, p, rn, Pos)
    <3>1. u2 # 1
      BY <1>8, <1>12
    <3>2. CASE rn = "RNDN"
      BY <1>3, <1>7, <2>2, <2>3, <3>1, <3>2
    <3>3. CASE rn \in {"RNDU", "RNDA"}
      BY <1>7, <1>12, <2>2, <2>3, <3>3 DEF ToOneSide
    <3>4. CASE rn \in {"RNDZ", "RNDD"}
      BY <1>7, <1>12, <2>2, <2>3, <3>4 DEF ToOneSide
    <3> QED
      BY <1>0, <3>2, <3>3, <3>4 DEF ToOneSide
  <2>7. (dec.up => Z > X) /\ (~ dec.up => Z < X)
    BY <1>7, <1>12, <2>4
  <2>8. s = sg
    BY <2>2
  <2>9. c = Return(y, s.dir, {})
    <3>1. s.dir # 0
      BY <2>3, <2>5, <2>8
    <3> HIDE DEF s, y, c
    <3> QED
      BY <1>10, <3>1
  <2>10. s.dir \in Int /\ s.mant \in Int /\ x + s.carry \in Int
         /\ Represents(s.mant, p, (x + s.carry) + sc, Z)
    <3>1. s.carry \in Int /\ s.dir \in Int
      BY <2>3, <2>5, <2>8
    <3>2. (x + s.carry) + sc = f + s.carry
      BY <3>1
    <3>3. Represents(s.mant, p, f + s.carry, Z)
      BY <2>5, <2>8
    <3>4. s.mant \in Int
      BY <3>3 DEF Represents, IsSignificand
    <3> HIDE DEF s, f, Z
    <3> QED
      BY <3>1, <3>2, <3>3, <3>4
  <2>11. (Z > X => Signed(Pos, s.dir) > 0) /\ (Z < X => Signed(Pos, s.dir) < 0)
         /\ (Z = X => s.dir = 0)
    <3>1. s.dir = IF dec.up THEN 1 ELSE -1
      BY <2>3, <2>5, <2>8
    <3>2. Signed(Pos, s.dir) = s.dir
      BY DEF Signed, Pos
    <3>3. X \in Int /\ Z \in Int
      BY <1>1
    <3> HIDE DEF Z, s
    <3> QED
      BY <2>3, <2>7, <3>1, <3>2, <3>3
  <2>12. IsOneRounding(s.mant, p, (x + s.carry) + sc, s.dir, X, rn, Pos, E)
    <3> HIDE DEF Z, s
    <3> QED
      BY <1>0, <1>1, <2>6, <2>10, <2>11, RightRounding
  <2>13. c = CacheRounding(Num(Pos, x, m, P), inex, p, rn)
    OBVIOUS
  <2> HIDE DEF s, c
  <2> QED
    BY <2>9, <2>10, <2>12, <2>13 DEF CacheRounds
<1> QED
  BY <1>11, <1>12


-----------------------------------------------------------------------------
(* The first rounding *)

\* The assumptions on the ranges, without the others.
LEMMA RangesAre ==
  /\ Scale \in Nat /\ XBits \in Nat /\ MaxBits \in Nat
  /\ EMin \in Int /\ EMax \in Int /\ ExtEMin \in Int /\ ExtEMax \in Int
  /\ ExtEMin < EMin /\ EMin < EMax /\ EMax <= ExtEMax
  /\ 2 <= ExtEMin + Scale /\ EMax + Scale + 1 < MaxBits
  /\ Exps \subseteq Int /\ Precs \subseteq 1..XBits
BY DoubleRoundingAssumption, RealRoundingAssumption

\* The same of one precision.
LEMMA PrecisionsAre ==
  ASSUME NEW p \in Precs
  PROVE  p \in Nat /\ p > 0 /\ p <= XBits /\ EMin + p - 1 <= EMax /\ 2 * p <= EMin + Scale
BY DoubleRoundingAssumption

\* What an MPFR function of precision P returns for the real X.
FirstResult(X, neg, P, rn, emin, emax) ==
  LET e == BitLength(X)
      s == RndRaw(X, e, P, rn, neg)
      y == Num(neg, e - Scale + s.carry, s.mant, P)
  IN CheckRange(y, Signed(neg, s.dir), rn, emin, emax)

\* It is its range check, made on a number that may have one more in its exponent.
FirstIs(X, neg, P, rn, emin, emax, e, x, m, t) ==
  /\ FirstResult(X, neg, P, rn, emin, emax) = CheckRange(Num(neg, x, m, P), t, rn, emin, emax)
  /\ x = e - Scale \/ (x = e - Scale + 1 /\ RoundTo(X, P, Definite(rn), neg) > X)
  /\ Represents(m, P, x + Scale, RoundTo(X, P, Definite(rn), neg))
  /\ rn = "RNDF" => t = 0
  /\ rn # "RNDF" => SignOf(t) = Ternary(RoundTo(X, P, rn, neg), X, neg)

\* The first rounding represents the rounded value, with the right ternary value.
LEMMA FirstRounds ==
  ASSUME NEW P \in Nat, P > 0, NEW e \in 1..MaxBits, NEW X, HasLength(X, e),
         NEW neg \in BOOLEAN, NEW rn \in Rnds, NEW emin, NEW emax
  PROVE  \E x \in Int, m \in Nat, t \in Int : FirstIs(X, neg, P, rn, emin, emax, e, x, m, t)
<1> DEFINE s == RndRaw(X, e, P, rn, neg)
           Y == RoundTo(X, P, Definite(rn), neg)
           x == e - Scale + s.carry
           t == Signed(neg, s.dir)
<1>1. BitLength(X) = e /\ e \in Nat /\ X \in Nat /\ Scale \in Int
  <2>1. BitLength(X) = e
    BY BitLengthIs
  <2> QED
    BY <2>1, RangesAre DEF HasLength
<1>2. FirstResult(X, neg, P, rn, emin, emax)
        = CheckRange(Num(neg, x, s.mant, P), t, rn, emin, emax)
  BY <1>1 DEF FirstResult
<1>3. /\ Represents(s.mant, P, e + s.carry, Y)
      /\ s.carry \in {0, 1}
      /\ s.dir \in {-1, 0, 1}
      /\ rn = "RNDF" => s.dir = 0
      /\ rn # "RNDF" => (s.dir = 1 <=> Y > X) /\ (s.dir = -1 <=> Y < X)
  BY RndRawRight
<1> HIDE DEF s, Y
<1>4. Y \in Nat /\ s.mant \in Nat
  BY <1>3 DEF Represents, IsSignificand
<1>5. x \in Int /\ t \in Int /\ x + Scale = e + s.carry
  BY <1>1, <1>3 DEF Signed
<1>6. x = e - Scale \/ (x = e - Scale + 1 /\ Y > X)
  <2>1. CASE s.carry = 0
    BY <1>1, <2>1
  <2>2. CASE s.carry = 1
    <3>1. HasLength(Y, e + 1)
      BY <1>3, <2>2, RepresentsLength
    <3>2. 2^e <= Y /\ X < 2^e /\ 2^e \in Nat
      <4>1. (e + 1) - 1 = e
        BY <1>1
      <4>2. 2^((e + 1) - 1) = 2^e
        BY <4>1
      <4>3. 2^e \in Nat
        BY <1>1, PowNat
      <4> QED
        BY <3>1, <4>2, <4>3 DEF HasLength
    <3> QED
      BY <1>1, <1>4, <2>2, <3>2
  <2> QED
    BY <1>3, <2>1, <2>2
<1>7. rn = "RNDF" => t = 0
  BY <1>3 DEF Signed
<1>8. rn # "RNDF" => SignOf(t) = Ternary(Y, X, neg)
  <2> HIDE DEF t
  <2>1. ASSUME rn # "RNDF" PROVE (t = 0 <=> s.dir = 0) /\ (Signed(neg, t) = s.dir)
    BY <1>3 DEF Signed, t
  <2>2. ASSUME rn # "RNDF"
        PROVE  /\ Y > X => Signed(neg, t) > 0
               /\ Y < X => Signed(neg, t) < 0
               /\ Y = X => t = 0
    BY <1>1, <1>3, <1>4, <2>1, <2>2
  <2> QED
    BY <1>1, <1>4, <1>5, <2>2, SignOfIs, TernaryIs DEF Signed
<1>9. rn # "RNDF" => Y = RoundTo(X, P, rn, neg)
  BY DEF Definite, Y
<1>10. FirstIs(X, neg, P, rn, emin, emax, e, x, s.mant, t)
  <2>1. Represents(s.mant, P, x + Scale, Y)
    BY <1>3, <1>5
  <2> HIDE DEF x, t
  <2> QED
    BY <1>2, <1>6, <1>7, <1>8, <1>9, <2>1 DEF FirstIs, Y
<1> QED
  BY <1>4, <1>5, <1>10

-----------------------------------------------------------------------------
(* What the cache holds, and what is taken from it *)

\* b is the constant X rounded to nearest, to P bits, and inex its ternary value; there is
\* a number of the extended range on the side where the constant is.
InCache(b, inex, X, P) ==
  \E x \in Int, m \in Nat, Y \in Nat :
    /\ b = Num(Pos, x, m, P)
    /\ CachedFor(X, P, Y, inex)
    /\ Represents(m, P, x + Scale, Y)
    /\ Y < X => x # ExtEMax
    /\ X < Y => x # ExtEMin
    /\ inex \in Int

\* The constant in the cache is the rounded constant.
LEMMA CacheHolds ==
  ASSUME NEW P \in Nat, P > 0, NEW e \in 1..MaxBits, NEW X, HasLength(X, e),
         e - Scale \in ExtEMin+1..ExtEMax-1
  PROVE  LET c == FirstResult(X, Pos, P, "RNDN", ExtEMin, ExtEMax) IN
         InCache(c.y, c.inex, X, P)
<1> DEFINE Y == RoundTo(X, P, "RNDN", Pos)
           c == FirstResult(X, Pos, P, "RNDN", ExtEMin, ExtEMax)
<1>1. "RNDN" \in Rnds /\ Pos \in BOOLEAN /\ Definite("RNDN") = "RNDN" /\ e \in Nat /\ X \in Nat
  BY DEF Rnds, Pos, Definite, HasLength
<1>2. PICK x \in Int, m \in Nat, t \in Int :
         FirstIs(X, Pos, P, "RNDN", ExtEMin, ExtEMax, e, x, m, t)
  BY <1>1, FirstRounds
<1>3. /\ c = CheckRange(Num(Pos, x, m, P), t, "RNDN", ExtEMin, ExtEMax)
      /\ x = e - Scale \/ (x = e - Scale + 1 /\ Y > X)
      /\ Represents(m, P, x + Scale, Y)
      /\ SignOf(t) = Ternary(Y, X, Pos)
  BY <1>1, <1>2 DEF FirstIs
<1>4. Y \in Nat
  BY <1>3 DEF Represents
<1> HIDE DEF Y, c
<1>5. x > ExtEMin /\ x <= ExtEMax /\ (Y < X => x # ExtEMax)
  BY <1>1, <1>3, <1>4, RangesAre
<1>6. c = Return(Num(Pos, x, m, P), t, {})
  <2>1. Num(Pos, x, m, P).kind = "num" /\ Num(Pos, x, m, P).exp = x
    BY DEF Num
  <2> QED
    BY <1>3, <1>5, <2>1, RangesAre DEF CheckRange
<1>7. c.y = Num(Pos, x, m, P) /\ c.inex = t
  BY <1>6 DEF Return
<1>8. CachedFor(X, P, Y, t)
  <2>1. Ternary(Y, X, Pos) = SignOf(Y - X)
    BY DEF Ternary, Pos
  <2> QED
    BY <1>3, <2>1 DEF CachedFor, Y
<1>9. x # ExtEMin
  BY <1>5, RangesAre
<1> QED
  BY <1>3, <1>4, <1>5, <1>7, <1>8, <1>9 DEF InCache, c

\* Faithful rounding: the cached constant is truncated.
LEMMA CacheRoundingFaithful ==
  ASSUME NEW p \in Nat, p > 0, NEW P \in Nat, p <= P, NEW e \in 1..MaxBits,
         NEW X, HasLength(X, e), NEW sc \in Nat, NEW x \in Int, NEW m,
         NEW Y, NEW inex \in Int, CachedFor(X, P, Y, inex), Represents(m, P, x + sc, Y)
  PROVE  \E k \in Int, g \in {"RNDZ", "RNDA"} :
            /\ CacheRounding(Num(Pos, x, m, P), inex, p, "RNDF") = Return(Num(Pos, x, k, p), inex, {})
            /\ Represents(k, p, x + sc, RoundTo(X, p, g, Pos))
<1> DEFINE f == x + sc
           d == X - Y
           b == Num(Pos, x, m, P)
           s == RndRawGen(m, P, p, "RNDF", Pos, CacheMiddle(inex))
           y == Num(Pos, x + s.carry, s.mant, p)
           c == CacheRounding(b, inex, p, "RNDF")
<1>0. "RNDF" \in Rnds /\ Pos \in BOOLEAN
  BY DEF Rnds, Pos
<1>1. m \in Nat /\ IsSignificand(m, P) /\ f \in Nat /\ Y \in Nat /\ X \in Nat
  BY DEF Represents, IsSignificand, HasLength
<1>2. PICK u2 \in Nat, q2 \in Nat, r2 \in Nat : Cut(m, P, p, u2, q2, r2)
  BY <1>1, CutExistsUpTo
<1>3. ARounding(X, Y, P, Pos) /\ d \in Int
  BY <1>1, CachedSides
<1>4. Hesitates(X, Y, p, f, q2, r2, u2, Pos)
  <2> HIDE DEF f
  <2>1. Represents(m, P, f, Y)
    BY DEF f
  <2> QED
    BY <1>0, <1>1, <1>2, <1>3, <2>1, Hesitation
<1>5. PICK K \in Int, Kp \in Int, Km \in Int :
         Candidates(X, p, f, q2, r2, u2, X - Y, Pos, K, Kp, Km)
  BY <1>4 DEF Hesitates
<1>6. /\ Represents(q2, p, f, K)
      /\ RoundTo(X, p, "RNDA", Pos) = IF r2 # 0 \/ d > 0 THEN Kp ELSE K
      /\ RoundTo(X, p, "RNDZ", Pos) = IF r2 = 0 /\ d < 0 THEN Km ELSE K
  BY <1>5 DEF Candidates, Pos, ToOneSide
<1>7. K = RoundTo(X, p, "RNDZ", Pos) \/ K = RoundTo(X, p, "RNDA", Pos)
  BY <1>1, <1>6
<1>8. s.mant = q2 /\ s.carry = 0 /\ s.dir = 0
  <2>1. CASE r2 = 0
    BY <1>0, <1>1, <1>2, <2>1, NothingLeft
  <2>2. CASE r2 # 0
    <3>1. p < P
      <4>1. u2 = 2^(P - p) /\ r2 < u2
        BY <1>2 DEF Cut
      <4>2. ASSUME P - p = 0 PROVE FALSE
        <5>1. u2 = 2^0
          BY <4>1, <4>2, Zenon
        <5> QED
          BY <2>2, <4>1, <5>1, PowZero
      <4> QED
        BY <4>2
    <3>2. s = Significand(q2, p, TruncDoit)
      BY <1>0, <1>1, <1>2, <3>1, RndRawGenIs
    <3>3. IsSignificand(q2, p)
      BY <1>6 DEF Represents
    <3>4. Significand(q2, p, TruncDoit).mant = q2 /\ Significand(q2, p, TruncDoit).carry = 0
          /\ Significand(q2, p, TruncDoit).dir = 0
      BY <3>3, TruncatedIs
    <3> HIDE DEF s
    <3> QED
      BY <3>2, <3>4
  <2> QED
    BY <2>1, <2>2
<1>9. b.mant = m /\ b.prec = P /\ b.exp = x
  BY DEF Num
<1>10. c = Return(y, IF s.dir = 0 /\ inex # 0 THEN inex ELSE s.dir, {})
  BY <1>9 DEF CacheRounding, Pos
<1> HIDE DEF s
<1>11. c = Return(Num(Pos, x, q2, p), inex, {})
  <2>1. y = Num(Pos, x, q2, p)
    BY <1>8
  <2>2. (IF s.dir = 0 /\ inex # 0 THEN inex ELSE s.dir) = inex
    BY <1>8
  <2> HIDE DEF c, y
  <2> QED
    BY <1>10, <2>1, <2>2
<1>12. q2 \in Int /\ (Represents(q2, p, f, RoundTo(X, p, "RNDZ", Pos))
                      \/ Represents(q2, p, f, RoundTo(X, p, "RNDA", Pos)))
  BY <1>6, <1>7
<1> HIDE DEF c
<1> QED
  BY <1>11, <1>12 DEF c, b

\* A number whose exponent is in the user's range.
Fits(y) == y.kind = "num" => y.exp \in Int /\ EMin <= y.exp /\ y.exp <= EMax

\* The number that mpfr_check_range returns is in the exponent range.
LEMMA CheckRangeFits ==
  ASSUME NEW x, NEW t, NEW rn, x.exp \in Int
  PROVE  Fits(CheckRange(x, t, rn, EMin, EMax).y)
<1>1. EMin \in Int /\ EMax \in Int /\ EMin <= EMax
  BY RangesAre
<1> QED
  BY <1>1, CheckRangeKeeps DEF Fits

\* A constant taken from the cache, brought back to the user's range.
LEMMA CacheDelivers ==
  ASSUME NEW p \in Precs, NEW P \in Nat, p <= P, NEW e \in 1..MaxBits, e < MaxBits,
         NEW X, HasLength(X, e), NEW b, NEW inex, InCache(b, inex, X, P), NEW rn \in Rnds
  PROVE  LET c == CacheRounding(b, inex, p, rn)
             r1 == CheckRange(c.y, c.inex, rn, EMin, EMax)
         IN /\ Fits(r1.y)
            /\ rn # "RNDF" => Delivers(r1, p, Scale, X, rn, Pos, EMin + Scale, EMax + Scale)
            /\ rn = "RNDF" => \E d \in {"RNDZ", "RNDA"} :
                 StandsFor(r1.y, p, Scale, CorrectValue(X, p, d, Pos, EMin + Scale, EMax + Scale))
<1> DEFINE c == CacheRounding(b, inex, p, rn)
           r1 == CheckRange(c.y, c.inex, rn, EMin, EMax)
<1>1. PICK x \in Int, m \in Nat, Y \in Nat :
        /\ b = Num(Pos, x, m, P)
        /\ CachedFor(X, P, Y, inex)
        /\ Represents(m, P, x + Scale, Y)
        /\ Y < X => x # ExtEMax
        /\ X < Y => x # ExtEMin
        /\ inex \in Int
  BY DEF InCache
<1>2. p \in Nat /\ p > 0 /\ p <= EMax + Scale
  BY PrecisionsAre, RangesAre
<1>3. Scale \in Nat /\ EMin \in Int /\ EMax \in Int /\ EMin <= EMax /\ EMin + Scale >= 2
  BY RangesAre
<1>4. Pos \in BOOLEAN
  BY DEF Pos
<1>5. CASE rn # "RNDF"
  <2>1. rn \in Rnds \ {"RNDF"} /\ rn \in RoundingDirections /\ Asked(rn) = rn
    BY <1>5 DEF Rnds, RoundingDirections, Asked
  <2>2. CacheRounds(X, b, inex, p, rn, Scale, EMin + Scale)
    BY <1>1, <1>2, <1>3, <2>1, CacheRoundingRight
  <2>5. PICK k \in Int, z \in Int, t \in Int :
            /\ CacheRounding(b, inex, p, rn) = Return(Num(Pos, z, k, p), t, {})
            /\ IsOneRounding(k, p, z + Scale, t, X, rn, Pos, EMin + Scale)
    BY <2>2 DEF CacheRounds
  <2>3. c.y = Num(Pos, z, k, p) /\ c.inex = t
    BY <2>5 DEF Return
  <2>4. LET a == CheckRange(Num(Pos, z, k, p), t, Asked(rn), EMin, EMax) IN
        Delivers(a, p, Scale, X, rn, Pos, EMin + Scale, EMax + Scale)
    BY <1>2, <1>3, <1>4, <2>1, <2>5, CheckRangeRight
  <2>6. c.y.exp \in Int
    BY <2>3, <2>5 DEF Num
  <2> HIDE DEF c
  <2>7. Fits(r1.y)
    BY <2>6, CheckRangeFits DEF r1
  <2> QED
    BY <1>5, <2>1, <2>3, <2>4, <2>7 DEF c
<1>6. CASE rn = "RNDF"
  <2>1. PICK k \in Int, g \in {"RNDZ", "RNDA"} :
            /\ CacheRounding(Num(Pos, x, m, P), inex, p, "RNDF") = Return(Num(Pos, x, k, p), inex, {})
            /\ Represents(k, p, x + Scale, RoundTo(X, p, g, Pos))
    BY <1>1, <1>2, <1>3, CacheRoundingFaithful
  <2>2. c.y = Num(Pos, x, k, p) /\ c.inex = inex
    BY <1>1, <1>6, <2>1 DEF Return
  <2>3. LET a == CheckRange(Num(Pos, x, k, p), inex, "RNDF", EMin, EMax) IN
        \E d \in {"RNDZ", "RNDA"} :
            StandsFor(a.y, p, Scale, CorrectValue(X, p, d, Pos, EMin + Scale, EMax + Scale))
    BY <1>2, <1>3, <1>4, <2>1, CheckRangeFaithful
  <2>4. c.y.exp \in Int
    BY <1>1, <2>2 DEF Num
  <2> HIDE DEF c
  <2>5. Fits(r1.y)
    BY <2>4, CheckRangeFits DEF r1
  <2> QED
    BY <1>6, <2>2, <2>3, <2>5 DEF c
<1> QED
  BY <1>5, <1>6

\* The value of what stands for V.
LEMMA ValueIs ==
  ASSUME NEW p \in Precs, NEW y, NEW V, StandsFor(y, p, Scale, V), Fits(y)
  PROVE  Value(y) = V
<1>1. CASE y.kind = "zero" /\ V = 0
  BY <1>1 DEF Value
<1>2. CASE y.kind = "inf" /\ V = Infinity
  BY <1>2 DEF Value
<1>3. CASE y.kind = "num" /\ y.prec = p /\ Represents(y.mant, p, y.exp + Scale, V)
  <2>1. p \in Nat /\ p <= y.exp + Scale
    BY <1>3, PrecisionsAre, RangesAre DEF Fits
  <2>2. V = y.mant * 2^((y.exp + Scale) - p)
    BY <1>3, <2>1, RepresentsValue
  <2>3. Value(y) = y.mant * 2^((y.exp + Scale) - y.prec)
    <3>1. /\ y.kind = "num" /\ y.exp \in Int /\ Scale \in Int /\ y.prec \in Int
          /\ y.mant \in Int
      BY <1>3, <2>1, RangesAre DEF Fits, Represents, IsSignificand
    <3> QED
      BY <3>1 DEF Value
  <2> QED
    BY <1>3, <2>2, <2>3
<1> QED
  BY <1>1, <1>2, <1>3 DEF StandsFor

-----------------------------------------------------------------------------
(* mpfr_round_nearest_away: from one more bit *)

\* What mpfr_round_nearest_away_end has before it checks the range: the exact result rounded
\* to nearest, ties away, or an infinity when the carry leaves the extended range.  The
\* flags raised on the way are those of an inexact result.
AwayRounded(s, X, p, neg, t1, x) ==
  \/ /\ \E k \in Int, z \in Int :
          /\ s.y = Num(neg, z, k, p)
          /\ Represents(k, p, z + Scale, RoundTo(X, p, "RNDNA", neg))
          /\ z >= x
     /\ s.inex \in Int
     /\ SignOf(s.inex) = Ternary(RoundTo(X, p, "RNDNA", neg), X, neg)
     /\ s.raised = {} \/ s.raised = {"inexact"}
     /\ s.raised # {} \/ t1 # 0 => s.inex # 0
  \/ /\ s.y = Inf(neg, p) /\ s.inex = Signed(neg, 1)
     /\ s.raised = {"inexact", "overflow"}
     /\ \E n \in Nat : HasLength(RoundTo(X, p, "RNDNA", neg), n) /\ n > ExtEMax + Scale

\* The direction that brings a midpoint to the nearest, once the side t of the first
\* rounding is known, is away from zero unless the exact result is nearer to zero.
MidpointRnd(t) == IF t = 0 THEN "RNDA" ELSE IF t > 0 THEN "RNDD" ELSE "RNDU"

\* mpfr_round_nearest_away_end chooses the mode that goes to the side of the exact result.
LEMMA MidpointGoes ==
  ASSUME NEW X \in Int, NEW Y \in Int, NEW neg \in BOOLEAN, NEW t \in Int, SignOf(t) = Ternary(Y, X, neg)
  PROVE  MidpointRnd(t) \in ToOneSide /\ (Away(MidpointRnd(t), neg) <=> Y <= X)
<1>1. /\ t = 0 <=> Y = X
      /\ Signed(neg, t) > 0 <=> Y > X
      /\ Signed(neg, t) < 0 <=> Y < X
  BY TernarySides
<1> QED
  BY <1>1 DEF MidpointRnd, Away, ToOneSide, Signed

\* The second rounding of mpfr_round_nearest_away_end, before its range check.
LEMMA NearestAwayRounds ==
  ASSUME NEW p \in Nat, p > 0, NEW P \in Nat, P = p + 1, NEW e \in 1..MaxBits,
         NEW X, HasLength(X, e), NEW neg \in BOOLEAN, NEW x \in Int, NEW m, NEW t1 \in Int,
         Represents(m, P, x + Scale, RoundTo(X, P, "RNDN", neg)),
         SignOf(t1) = Ternary(RoundTo(X, P, "RNDN", neg), X, neg)
  PROVE  AwayRounded(NearestAwayRounding(Num(neg, x, m, P), t1, p), X, p, neg, t1, x)
<1> DEFINE Y == RoundTo(X, P, "RNDN", neg)
           Z == RoundTo(X, p, "RNDNA", neg)
           f == x + Scale
           b == Num(neg, x, m, P)
           s == NearestAwayRounding(b, t1, p)
<1>1. /\ m \in Nat /\ IsSignificand(m, P) /\ f \in Nat /\ Y \in Nat /\ X \in Nat
      /\ p <= P /\ p < P /\ P > 0 /\ Represents(m, P, f, Y)
  BY DEF Represents, IsSignificand, HasLength
<1>2. PICK u2 \in Nat, q2 \in Nat, r2 \in Nat : Cut(m, P, p, u2, q2, r2)
  BY <1>1, CutExistsUpTo
<1>3. u2 = 2 /\ r2 \in {0, 1} /\ m % 2 = r2
  <2>1. P - p = 1
    OBVIOUS
  <2>2. u2 = 2^(P - p) /\ r2 < u2 /\ m = q2 * u2 + r2
    BY <1>2 DEF Cut
  <2>3. u2 = 2^1
    BY <2>1, <2>2, Zenon
  <2>4. 2^(0 + 1) = 2 * 2^0 /\ 2^0 = 1
    BY PowSucc, PowZero
  <2>5. 2^1 = 2
    BY <2>4
  <2>6. u2 = 2
    BY <2>3, <2>5
  <2>7. m = q2 * 2 + r2 /\ r2 < 2
    BY <2>2, <2>6
  <2> QED
    BY <1>1, <2>6, <2>7
<1>4. Hesitates(X, Y, p, f, q2, r2, u2, neg)
  <2>1. ARounding(X, Y, P, neg)
    BY DEF ARounding
  <2> HIDE DEF f, Y
  <2> QED
    BY <1>1, <1>2, <2>1, Hesitation
<1> HIDE DEF Y, Z, s
<1>5. PICK K \in Int, Kp \in Int, Km \in Int : Candidates(X, p, f, q2, r2, u2, X - Y, neg, K, Kp, Km)
  BY <1>4 DEF Hesitates
<1> DEFINE d == X - Y
<1>6. /\ Represents(q2, p, f, K)
      /\ K < X <=> r2 # 0 \/ d > 0
      /\ K = X <=> r2 = 0 /\ d = 0
      /\ r2 # 0 \/ d > 0 => Kp > X
      /\ Z = IF 2 * r2 > u2 \/ (2 * r2 = u2 /\ d >= 0) THEN Kp ELSE K
  BY <1>3, <1>5 DEF Candidates, Z
<1>7. d \in Int /\ SignOf(t1) = Ternary(Y, X, neg)
  BY <1>1 DEF Y
<1>8. b.kind = "num" /\ b.mant = m /\ b.neg = neg /\ b.prec = P /\ b.exp = x
  BY DEF Num
<1>9. /\ t1 = 0 <=> Y = X
      /\ Signed(neg, t1) > 0 <=> Y > X
      /\ Signed(neg, t1) < 0 <=> Y < X
  BY <1>1, <1>7, TernarySides
<1> HIDE DEF b
<1>10. CASE r2 = 0
  <2>1. Z = K
    BY <1>3, <1>6, <1>10
  <2> DEFINE rr == RndRaw(m, P, p, "RNDN", neg)
  <2>2. rr.mant = q2 /\ rr.carry = 0 /\ rr.dir = 0
    <3>1. "RNDN" \in Rnds
      BY DEF Rnds
    <3>2. \A middle : LET a == RndRawGen(m, P, p, "RNDN", neg, middle) IN
                      a.mant = q2 /\ a.carry = 0 /\ a.dir = 0
      BY <1>1, <1>2, <1>10, <3>1, NothingLeft
    <3> QED
      BY <3>2 DEF RndRaw
  <2>3. s = [Set4(b, p, "RNDN", neg, ExtEMax) EXCEPT !.inex = t1]
    BY <1>3, <1>8, <1>10 DEF NearestAwayRounding, IsSingular, s
  <2>4. Set4(b, p, "RNDN", neg, ExtEMax) = Set4Of(x, p, rr, "RNDN", neg, ExtEMax)
    BY Set4Is DEF b
  <2> HIDE DEF rr
  <2>5. Set4Of(x, p, rr, "RNDN", neg, ExtEMax) = Return(Num(neg, x, q2, p), 0, {})
    BY <2>2 DEF Set4Of, Signed
  <2>6. s.y = Num(neg, x, q2, p) /\ s.inex = t1 /\ s.raised = {}
    BY <2>3, <2>4, <2>5 DEF Return
  <2>7. SignOf(t1) = Ternary(Z, X, neg)
    <3>1. (K < X <=> Y < X) /\ (K = X <=> Y = X)
      BY <1>1, <1>6, <1>10
    <3>2. /\ K > X => Signed(neg, t1) > 0
          /\ K < X => Signed(neg, t1) < 0
          /\ K = X => t1 = 0
      BY <1>1, <1>9, <3>1
    <3>3. SignOf(t1) = Ternary(K, X, neg)
      BY <1>1, <3>2, RightSign
    <3> QED
      BY <2>1, <3>3
  <2>8. Represents(q2, p, x + Scale, Z)
    BY <1>6, <2>1
  <2> QED
    BY <2>6, <2>7, <2>8 DEF AwayRounded, s, b, Z
<1>11. CASE r2 = 1
  <2> DEFINE g == MidpointRnd(t1)
             rr == RndRaw(m, P, p, g, neg)
  <2>1. g \in ToOneSide /\ (Away(g, neg) <=> d >= 0)
    BY <1>1, <1>7, MidpointGoes
  <2>2. s = Set4(b, p, g, neg, ExtEMax)
    BY <1>3, <1>8, <1>11 DEF NearestAwayRounding, IsSingular, s, MidpointRnd
  <2>3. Set4(b, p, g, neg, ExtEMax) = Set4Of(x, p, rr, g, neg, ExtEMax)
    BY Set4Is DEF b
  <2>4. Directed(m, P, p, q2, g, neg)
    <3> HIDE DEF g
    <3> QED
      BY <1>1, <1>2, <1>11, <2>1, DirectedIs
  <2> HIDE DEF g
  <2>5. PICK dec \in {AddOneUlp, Decision(FALSE, -1)} : rr = Significand(q2, p, dec) /\ (dec.up <=> Away(g, neg))
    BY <2>4 DEF Directed
  <2>6. dec.up \in BOOLEAN /\ dec.dir = (IF dec.up THEN 1 ELSE -1)
    BY UpOrDown
  <2>7. Z = IF dec.up THEN Kp ELSE K
    BY <1>3, <1>6, <1>11, <2>1, <2>5
  <2> DEFINE sg == Significand(q2, p, dec)
  <2>8. /\ Represents(sg.mant, p, f + sg.carry, IF dec.up THEN Kp ELSE K)
        /\ sg.carry \in {0, 1}
        /\ sg.dir = dec.dir
    <3>1. dec.up => r2 # 0 \/ d > 0
      BY <1>11
    <3>2. dec.up \in BOOLEAN
      BY <2>6
    <3>3. Candidates(X, p, f, q2, r2, u2, d, neg, K, Kp, Km)
      BY <1>5
    <3> HIDE DEF f, d
    <3> QED
      BY <1>1, <1>7, <3>1, <3>2, <3>3, CandidateChosen
  <2>9. sg.carry = 1 => dec.up
    <3>1. IsSignificand(q2, p)
      BY <1>6 DEF Represents
    <3>2. dec.up \in BOOLEAN
      BY <2>6
    <3> QED
      BY <3>1, <3>2, SignificandIs
  <2>10. Represents(rr.mant, p, f + rr.carry, Z) /\ rr.carry \in {0, 1} /\ rr.dir = (IF dec.up THEN 1 ELSE -1)
         /\ (rr.carry = 1 => dec.up)
    BY <2>5, <2>6, <2>7, <2>8, <2>9
  <2>11. (dec.up => Z > X) /\ (~ dec.up => Z < X)
    BY <1>6, <1>11, <2>7
  <2>12. Z \in Int /\ rr.mant \in Int
    BY <2>10 DEF Represents, IsSignificand
  <2> HIDE DEF rr, sg, Z, f
  <2>13. CASE rr.carry = 1 /\ x + 1 > ExtEMax
    <3>1. ~ IsLikeRNDZ(g, neg)
      <4>1. Away(g, neg)
        BY <2>5, <2>10, <2>13
      <4> QED
        BY <4>1 DEF Away, IsLikeRNDZ
    <3>2. s = Overflow(p, g, neg, ExtEMax)
      BY <2>2, <2>3, <2>13 DEF Set4Of
    <3>3. s = Return(Inf(neg, p), Signed(neg, 1), {"overflow"})
      BY <3>1, <3>2 DEF Overflow
    <3>4. Signed(neg, 1) # 0
      BY DEF Signed
    <3>5. s.y = Inf(neg, p) /\ s.inex = Signed(neg, 1) /\ s.raised = {"inexact", "overflow"}
      BY <3>3, <3>4 DEF Return
    <3>6. HasLength(Z, f + 1) /\ f + 1 \in Nat /\ f + 1 > ExtEMax + Scale
      <4>1. Represents(rr.mant, p, f + 1, Z)
        BY <2>10, <2>13
      <4> QED
        BY <1>1, <2>13, <4>1, RepresentsLength, RangesAre DEF f
    <3> QED
      BY <3>5, <3>6 DEF AwayRounded, s, b, Z
  <2>14. CASE ~ (rr.carry = 1 /\ x + 1 > ExtEMax)
    <3> DEFINE t == Signed(neg, rr.dir)
    <3>1. s = Return(Num(neg, x + rr.carry, rr.mant, p), t, {})
      BY <2>2, <2>3, <2>14 DEF Set4Of
    <3>2. t \in Int /\ t # 0 /\ Signed(neg, t) = rr.dir
      <4>1. rr.dir = 1 \/ rr.dir = -1
        BY <2>10
      <4>2. neg = TRUE \/ neg = FALSE
        OBVIOUS
      <4> QED
        BY <4>1, <4>2 DEF Signed
    <3> HIDE DEF t
    <3>3. s.y = Num(neg, x + rr.carry, rr.mant, p) /\ s.inex = t /\ s.raised = {"inexact"}
      BY <3>1, <3>2 DEF Return
    <3>4. SignOf(t) = Ternary(Z, X, neg)
      <4>1. /\ Z > X => Signed(neg, t) > 0
            /\ Z < X => Signed(neg, t) < 0
            /\ Z = X => t = 0
        BY <1>1, <2>10, <2>11, <2>12, <3>2
      <4> QED
        BY <1>1, <2>12, <3>2, <4>1, RightSign
    <3>5. Represents(rr.mant, p, (x + rr.carry) + Scale, Z) /\ x + rr.carry \in Int /\ x + rr.carry >= x
      <4>1. (x + rr.carry) + Scale = f + rr.carry
        BY <2>10, RangesAre DEF f
      <4> QED
        BY <2>10, <4>1
    <3> QED
      BY <2>12, <3>2, <3>3, <3>4, <3>5 DEF AwayRounded, s, b, Z
  <2> QED
    BY <2>13, <2>14
<1> QED
  BY <1>3, <1>10, <1>11

\* What mpfr_check_range returns is a number, a ternary value and flags.
IsRecord(c) == c = [y |-> c.y, inex |-> c.inex, raised |-> c.raised]

\* mpfr_check_range returns a number and a ternary value.
LEMMA CheckRangeRecord ==
  ASSUME NEW x, NEW t, NEW rn, NEW emin \in Int, NEW emax \in Int, emin <= emax, x.exp \in Int
  PROVE  IsRecord(CheckRange(x, t, rn, emin, emax))
<1> DEFINE c == CheckRange(x, t, rn, emin, emax)
           r1 == IF rn = "RNDN" /\ HalfwayToZero(x, t, emin) THEN "RNDZ" ELSE rn
<1>1. ASSUME NEW o, NEW y, NEW u, NEW R, o = Return(y, u, R) PROVE IsRecord(o)
  BY <1>1 DEF Return, IsRecord
<1>2. \A p, g, neg : IsRecord(Underflow(p, g, neg, emin)) /\ IsRecord(Overflow(p, g, neg, emax))
  BY <1>1 DEF Underflow, Overflow
<1>4. CASE x.kind = "num" /\ x.exp < emin
  <2>1. c = Underflow(x.prec, r1, x.neg, emin)
    BY <1>4 DEF CheckRange
  <2> HIDE DEF c, r1
  <2> QED
    BY <1>2, <2>1 DEF c
<1>5. CASE x.kind = "num" /\ x.exp > emax
  <2>1. c = Overflow(x.prec, rn, x.neg, emax)
    BY <1>5 DEF CheckRange
  <2> HIDE DEF c
  <2> QED
    BY <1>2, <2>1 DEF c
<1>6. CASE x.kind = "inf"
  <2>1. c = Return(x, t, {"overflow"}) \/ c = Return(x, t, {})
    BY <1>6 DEF CheckRange
  <2> HIDE DEF c
  <2> QED
    BY <1>1, <2>1 DEF c
<1>7. CASE x.kind # "inf" /\ ~ (x.kind = "num" /\ x.exp < emin) /\ ~ (x.kind = "num" /\ x.exp > emax)
  <2>1. c = Return(x, t, {})
    BY <1>7 DEF CheckRange
  <2> HIDE DEF c
  <2> QED
    BY <1>1, <2>1 DEF c
<1> QED
  BY <1>4, <1>5, <1>6, <1>7

\* mpfr_round_nearest_away_end, on what the function returned: b.
WithHalfMin(s) == IF s.inex = 0 /\ IsHalfMin(s.y) THEN Signed(s.y.neg, -1) ELSE s.inex

NearestAwayOf(b, p) ==
  LET s == NearestAwayRounding(b.y, b.inex, p)
      c == CheckRange(s.y, WithHalfMin(s), "RNDN", EMin, EMax)
  IN [c EXCEPT !.raised = (@ \cup s.raised) \cup b.raised]

\* A ternary value of zero at half the smallest number is told from the others.
LEMMA HalfMinIs ==
  ASSUME NEW p \in Precs, NEW e \in 1..MaxBits, e < MaxBits, NEW X, HasLength(X, e),
         NEW neg \in BOOLEAN, NEW k \in Int, NEW z \in Int, NEW s, s.y = Num(neg, z, k, p),
         Represents(k, p, z + Scale, RoundTo(X, p, "RNDNA", neg)),
         s.inex \in Int, SignOf(s.inex) = Ternary(RoundTo(X, p, "RNDNA", neg), X, neg)
  PROVE  IsOneRounding(k, p, z + Scale, WithHalfMin(s), X, "RNDNA", neg, EMin + Scale)
<1> DEFINE Z == RoundTo(X, p, "RNDNA", neg)
           E == EMin + Scale
           i == WithHalfMin(s)
<1>1. p \in Nat /\ p > 0 /\ E \in Nat /\ E >= 3 /\ E - 1 \in Nat /\ E - 1 > 0 /\ (E - 1) - 1 = E - 2
      /\ Scale \in Nat /\ EMin \in Int
  BY PrecisionsAre, RangesAre
<1>2. Z \in Nat /\ X \in Nat /\ e \in Nat
  BY DEF Represents, HasLength
<1>3. Represents(2^(p - 1), p, E - 1, 2^(E - 2))
  BY <1>1, PowerRepresents
<1>4. HasLength(2^(E - 2), E - 1)
  BY <1>1, <1>3, RepresentsLength
<1>5. IsHalfMin(s.y) <=> z = EMin - 1 /\ k = 2^(p - 1)
  BY DEF IsHalfMin, IsPowerof2Raw, Num
<1>6. s.inex = 0 <=> Z = X
  BY <1>2, TernarySides
<1>7. s.y.neg = neg
  BY DEF Num
<1> HIDE DEF Z, E
<1>8. CASE X = 2^(E - 2)
  <2>1. e = E - 1
    BY <1>4, <1>8, LengthUnique
  <2>2. X = 2^(e - 1)
    BY <1>1, <1>8, <2>1
  <2>3. Z = X
    BY <1>1, <2>2, RoundToBounds DEF Z
  <2>4. Represents(k, p, z + Scale, X) /\ Represents(2^(p - 1), p, E - 1, X)
    BY <1>3, <1>8, <2>3 DEF Z
  <2>5. k = 2^(p - 1) /\ z + Scale = E - 1
    BY <1>1, <2>4, RepresentsUnique
  <2>6. z = EMin - 1
    BY <1>1, <2>5 DEF E
  <2>7. i = Signed(neg, -1)
    BY <1>5, <1>6, <1>7, <2>3, <2>5, <2>6 DEF WithHalfMin
  <2>8. Signed(neg, -1) \in Int /\ Signed(neg, Signed(neg, -1)) < 0
    <3>1. -1 \in Int
      OBVIOUS
    <3> QED
      BY <3>1, SignedTwice
  <2> QED
    BY <1>8, <2>7, <2>8 DEF IsOneRounding, E
<1>9. CASE X # 2^(E - 2)
  <2>1. ASSUME s.inex = 0, IsHalfMin(s.y) PROVE FALSE
    <3>1. Represents(k, p, E - 1, X)
      <4>1. z + Scale = E - 1
        BY <1>1, <1>5, <2>1 DEF E
      <4> QED
        BY <1>6, <2>1, <4>1 DEF Z
    <3>2. k = 2^(p - 1)
      BY <1>5, <2>1
    <3>3. k * 2^(E - 1) = X * 2^p /\ k * 2^(E - 1) = 2^(E - 2) * 2^p
      BY <1>3, <3>1, <3>2 DEF Represents
    <3>4. 2^p \in Nat /\ 2^p > 0 /\ 2^(E - 2) \in Nat
      BY <1>1, PowNat
    <3>5. X = 2^(E - 2)
      BY <1>2, <3>3, <3>4, MulCancel
    <3> QED
      BY <1>9, <3>5
  <2>2. i = s.inex
    BY <2>1 DEF WithHalfMin
  <2> QED
    BY <1>9, <2>2 DEF IsOneRounding, E
<1> QED
  BY <1>8, <1>9

\* A number of the model has no other field.
Plain(y) == y.kind = "num" => y = Num(y.neg, y.exp, y.mant, y.prec)

\* An operation returns a number of the model and an integer.
Sound(c) == Plain(c.y) /\ c.inex \in Int

\* A plain number and an integer make a sound result.
LEMMA ReturnSound ==
  ASSUME NEW y, Plain(y), NEW t \in Int, NEW f
  PROVE  Sound(Return(y, t, f))
<1>1. Return(y, t, f).y = y /\ Return(y, t, f).inex = t
  BY DEF Return
<1> QED
  BY <1>1, Zenon DEF Sound

\* The numbers that the model builds are plain.
LEMMA NumPlain ==
  ASSUME NEW neg, NEW x, NEW m, NEW p
  PROVE  /\ Plain(Num(neg, x, m, p)) /\ Plain(SetMin(neg, x, p)) /\ Plain(SetMax(neg, x, p))
         /\ Plain(Zero(neg, p)) /\ Plain(Inf(neg, p))
<1>1. \A k : Plain(Num(neg, x, k, p))
  BY DEF Plain, Num
<1> QED
  BY <1>1 DEF SetMin, SetMax, Zero, Inf, Plain

\* The range check of a plain number is sound.
LEMMA CheckRangeSound ==
  ASSUME NEW x, Plain(x), x.neg \in BOOLEAN, x.exp \in Int, NEW t \in Int, NEW rn,
         NEW emin \in Int, NEW emax \in Int, emin <= emax
  PROVE  Sound(CheckRange(x, t, rn, emin, emax))
<1> DEFINE c == CheckRange(x, t, rn, emin, emax)
           r1 == IF rn = "RNDN" /\ HalfwayToZero(x, t, emin) THEN "RNDZ" ELSE rn
<1>0. Signed(x.neg, 1) \in Int /\ Signed(x.neg, -1) \in Int
  BY SignedTwice
<1>1. CASE x.kind = "num" /\ x.exp < emin
  <2>1. c = Underflow(x.prec, r1, x.neg, emin)
    BY <1>1 DEF CheckRange
  <2>2. c = Return(Zero(x.neg, x.prec), Signed(x.neg, -1), {"underflow"})
        \/ c = Return(SetMin(x.neg, emin, x.prec), Signed(x.neg, 1), {"underflow"})
    BY <2>1 DEF Underflow
  <2>3. Sound(Return(Zero(x.neg, x.prec), Signed(x.neg, -1), {"underflow"}))
        /\ Sound(Return(SetMin(x.neg, emin, x.prec), Signed(x.neg, 1), {"underflow"}))
    BY <1>0, NumPlain, ReturnSound
  <2> HIDE DEF c
  <2>4. Sound(c)
    BY <2>2, <2>3, Zenon
  <2> QED
    BY <2>4 DEF c
<1>2. CASE x.kind = "num" /\ x.exp > emax
  <2>1. c = Overflow(x.prec, rn, x.neg, emax)
    BY <1>2 DEF CheckRange
  <2>2. c = Return(Inf(x.neg, x.prec), Signed(x.neg, 1), {"overflow"})
        \/ c = Return(SetMax(x.neg, emax, x.prec), Signed(x.neg, -1), {"overflow"})
    BY <2>1 DEF Overflow
  <2>3. Sound(Return(Inf(x.neg, x.prec), Signed(x.neg, 1), {"overflow"}))
        /\ Sound(Return(SetMax(x.neg, emax, x.prec), Signed(x.neg, -1), {"overflow"}))
    BY <1>0, NumPlain, ReturnSound
  <2> HIDE DEF c
  <2>4. Sound(c)
    BY <2>2, <2>3, Zenon
  <2> QED
    BY <2>4 DEF c
<1>3. CASE x.kind # "num" \/ (emin <= x.exp /\ x.exp <= emax)
  <2>1. c.y = x /\ c.inex = t
    BY <1>3 DEF CheckRange, Return
  <2> HIDE DEF c
  <2>2. Sound(c)
    BY <2>1, Zenon DEF Sound
  <2> QED
    BY <2>2 DEF c
<1> QED
  BY <1>1, <1>2, <1>3

\* What mpfr_round_nearest_away_end makes of a number of the extended range.
LEMMA NearestAwayInside ==
  ASSUME NEW p \in Precs, NEW e \in 1..MaxBits, e < MaxBits, NEW X, HasLength(X, e),
         NEW neg \in BOOLEAN, NEW b, NEW t1, NEW x,
         b.raised = {} \/ b.raised = {"inexact"}, t1 = 0 => b.raised = {},
         AwayRounded(NearestAwayRounding(b.y, b.inex, p), X, p, neg, t1, x)
  PROVE  /\ Delivers(NearestAwayOf(b, p), p, Scale, X, "RNDNA", neg, EMin + Scale, EMax + Scale)
         /\ Fits(NearestAwayOf(b, p).y)
         /\ Sound(NearestAwayOf(b, p))
<1> DEFINE s == NearestAwayRounding(b.y, b.inex, p)
           i == WithHalfMin(s)
           c == CheckRange(s.y, i, "RNDN", EMin, EMax)
           a == NearestAwayOf(b, p)
           Z == RoundTo(X, p, "RNDNA", neg)
           E == EMin + Scale
           F == EMax + Scale
<1>1. /\ p \in Nat /\ p > 0 /\ p <= F /\ E >= 2 /\ E > 0 /\ E \in Nat /\ F \in Nat /\ E <= F
      /\ Scale \in Nat /\ EMin \in Int /\ EMax \in Int /\ EMin <= EMax /\ F <= ExtEMax + Scale
      /\ ExtEMax + Scale \in Int
  BY PrecisionsAre, RangesAre
<1>2. "RNDNA" \in RoundingDirections /\ Asked("RNDNA") = "RNDN" /\ ~ TowardZero("RNDNA", neg)
  BY DEF RoundingDirections, Asked, TowardZero
<1>3. a = [c EXCEPT !.raised = (@ \cup s.raised) \cup b.raised]
  BY DEF NearestAwayOf
<1> HIDE DEF s, c, a, E, F, Z
<1>4. ASSUME s.y.exp \in Int
      PROVE  /\ a.y = c.y /\ a.inex = c.inex /\ a.raised = (c.raised \cup s.raised) \cup b.raised
             /\ Fits(c.y)
  <2>1. IsRecord(c)
    BY <1>1, <1>4, CheckRangeRecord DEF c
  <2>2. a = [y |-> c.y, inex |-> c.inex, raised |-> (c.raised \cup s.raised) \cup b.raised]
    BY <1>3, <2>1 DEF IsRecord
  <2>3. Fits(c.y)
    BY <1>4, CheckRangeFits DEF c
  <2> QED
    BY <2>2, <2>3
<1>5. CASE /\ \E k \in Int, z \in Int :
                /\ s.y = Num(neg, z, k, p)
                /\ Represents(k, p, z + Scale, Z)
           /\ s.inex \in Int
           /\ SignOf(s.inex) = Ternary(Z, X, neg)
           /\ s.raised = {} \/ s.raised = {"inexact"}
           /\ s.raised # {} \/ t1 # 0 => s.inex # 0
  <2>1. PICK k \in Int, z \in Int : s.y = Num(neg, z, k, p) /\ Represents(k, p, z + Scale, Z)
    BY <1>5
  <2>2. IsOneRounding(k, p, z + Scale, i, X, "RNDNA", neg, E)
    BY <1>5, <2>1, HalfMinIs DEF Z, E
  <2>3. c = CheckRange(Num(neg, z, k, p), i, Asked("RNDNA"), EMin, EMax)
    BY <1>2, <2>1 DEF c
  <2>4. Delivers(c, p, Scale, X, "RNDNA", neg, E, F)
    <3>1. LET o == CheckRange(Num(neg, z, k, p), i, Asked("RNDNA"), EMin, EMax) IN
          Delivers(o, p, Scale, X, "RNDNA", neg, EMin + Scale, EMax + Scale)
      <4> HIDE DEF i
      <4>1. IsOneRounding(k, p, z + Scale, i, X, "RNDNA", neg, EMin + Scale)
        BY <2>2 DEF E
      <4>2. EMin + Scale >= 2 /\ p <= EMax + Scale
        BY <1>1 DEF E, F
      <4> QED
        BY <1>1, <1>2, <4>1, <4>2, CheckRangeRight
    <3> QED
      BY <2>3, <3>1 DEF E, F
  <2>5. s.y.exp \in Int
    BY <2>1 DEF Num
  <2>6. c.raised = (c.raised \cup s.raised) \cup b.raised
    <3>1. CASE s.raised = {} /\ b.raised = {}
      BY <3>1
    <3>2. CASE s.raised # {} \/ b.raised # {}
      <4>1. s.inex # 0
        BY <1>5, <3>2
      <4>2. i \in Int /\ i # 0
        BY <1>5, <4>1 DEF WithHalfMin
      <4> HIDE DEF i
      <4>3. "inexact" \in c.raised
        BY <1>1, <2>5, <4>2, CheckRangeInexact DEF c
      <4> QED
        BY <1>5, <4>3
    <3> QED
      BY <3>1, <3>2
  <2>7. a.y = c.y /\ a.inex = c.inex /\ a.raised = c.raised
    BY <1>4, <2>5, <2>6
  <2>8. i \in Int
    <3>1. Signed(neg, -1) \in Int /\ s.y.neg = neg
      BY <2>1 DEF Num, Signed
    <3> QED
      BY <1>5, <3>1 DEF WithHalfMin
  <2>9. Plain(s.y) /\ s.y.neg \in BOOLEAN
    BY <2>1, NumPlain DEF Num
  <2>10. Sound(c)
    <3> HIDE DEF i
    <3> QED
      BY <1>1, <2>5, <2>8, <2>9, CheckRangeSound DEF c
  <2>11. Sound(a)
    BY <2>7, <2>10 DEF Sound
  <2> QED
    BY <1>4, <2>4, <2>5, <2>7, <2>11 DEF Delivers, a, E, F
<1>6. CASE /\ s.y = Inf(neg, p) /\ s.inex = Signed(neg, 1)
           /\ s.raised = {"inexact", "overflow"}
           /\ \E n \in Nat : HasLength(Z, n) /\ n > ExtEMax + Scale
  <2>1. PICK n \in Nat : HasLength(Z, n) /\ n > ExtEMax + Scale
    BY <1>6
  <2>2. n > F
    BY <1>1, <2>1
  <2>3. Signed(neg, 1) \in Int /\ Signed(neg, 1) # 0
    BY SignedTwice
  <2>4. i = Signed(neg, 1)
    BY <1>6, <2>3 DEF WithHalfMin
  <2>5. s.y.kind = "inf" /\ s.y.exp \in Int /\ s.y = Inf(neg, p)
    BY <1>6 DEF Inf
  <2> HIDE DEF i
  <2>6. c = Return(s.y, i, {"overflow"})
    BY <2>3, <2>4, <2>5 DEF CheckRange, c
  <2>7. c.y = Inf(neg, p) /\ c.inex = Signed(neg, 1) /\ c.raised = {"inexact", "overflow"}
    BY <2>3, <2>4, <2>5, <2>6 DEF Return
  <2>8. a.y = Inf(neg, p) /\ a.inex = Signed(neg, 1) /\ a.raised = {"inexact", "overflow"}
    BY <1>4, <1>6, <2>5, <2>7
  <2>9. Delivers(a, p, Scale, X, "RNDNA", neg, E, F)
    BY <1>1, <1>2, <2>1, <2>2, <2>8, InfinityDelivers DEF Z
  <2>10. Fits(a.y)
    BY <2>8 DEF Inf, Fits
  <2>11. Sound(a)
    <3>1. Plain(Inf(neg, p))
      BY NumPlain
    <3> QED
      BY <2>3, <2>8, <3>1, Zenon DEF Sound
  <2> QED
    BY <2>9, <2>10, <2>11 DEF a, E, F
<1>7. AwayRounded(s, X, p, neg, t1, x)
  BY DEF s
<1> QED
  BY <1>5, <1>6, <1>7 DEF AwayRounded, Z

\* Another sign and another precision change nothing else of a number.
NumberIs(y, k, n, z, m, P) == y = [kind |-> k, neg |-> n, exp |-> z, mant |-> m, prec |-> P]

\* Setting the sign of a number.
LEMMA NegSet ==
  ASSUME NEW k, NEW n1, NEW z, NEW m, NEW P, NEW n2, NEW y, NumberIs(y, k, n1, z, m, P)
  PROVE  NumberIs([y EXCEPT !.neg = n2], k, n2, z, m, P)
BY DEF NumberIs

\* Setting the precision of a number.
LEMMA PrecSet ==
  ASSUME NEW k, NEW n1, NEW z, NEW m, NEW P, NEW p, NEW y, NumberIs(y, k, n1, z, m, P)
  PROVE  NumberIs([y EXCEPT !.prec = p], k, n1, z, m, p)
BY DEF NumberIs

\* Setting both.
LEMMA BothSet ==
  ASSUME NEW k, NEW n1, NEW z, NEW m, NEW P, NEW n2, NEW p, NEW y, NumberIs(y, k, n1, z, m, P)
  PROVE  NumberIs([y EXCEPT !.neg = n2, !.prec = p], k, n2, z, m, p)
BY NegSet, PrecSet

\* An overflow of the extended range.
LEMMA NearestAwayAbove ==
  ASSUME NEW p \in Precs, NEW e \in 1..MaxBits, e < MaxBits, NEW X, HasLength(X, e),
         NEW neg \in BOOLEAN, NEW P, NEW b,
         b.y = Inf(neg, P), b.inex = Signed(neg, 1), b.raised = {"inexact", "overflow"},
         NEW n \in Nat, HasLength(RoundTo(X, p, "RNDNA", neg), n), n > ExtEMax + Scale
  PROVE  /\ Delivers(NearestAwayOf(b, p), p, Scale, X, "RNDNA", neg, EMin + Scale, EMax + Scale)
         /\ NearestAwayOf(b, p).y.kind # "num"
         /\ Sound(NearestAwayOf(b, p))
<1> DEFINE s == NearestAwayRounding(b.y, b.inex, p)
           c == CheckRange(s.y, WithHalfMin(s), "RNDN", EMin, EMax)
           a == NearestAwayOf(b, p)
           E == EMin + Scale
           F == EMax + Scale
<1>1. /\ p \in Nat /\ p > 0 /\ E > 0 /\ E \in Nat /\ F \in Nat /\ E <= F
      /\ EMin \in Int /\ EMax \in Int /\ EMin <= EMax /\ n > F
  BY PrecisionsAre, RangesAre
<1>2. ~ TowardZero("RNDNA", neg)
  BY DEF TowardZero
<1>3. Signed(neg, 1) \in Int /\ Signed(neg, 1) # 0
  BY SignedTwice
<1>4. b.y.kind = "inf" /\ b.y.neg = neg
  BY DEF Inf
<1>5. s = [Set4(b.y, p, "RNDN", neg, ExtEMax) EXCEPT !.inex = b.inex]
  BY <1>4 DEF NearestAwayRounding, IsSingular
<1>6. [b.y EXCEPT !.neg = neg, !.prec = p] = Inf(neg, p)
  <2>1. NumberIs(b.y, "inf", neg, 0, 0, P)
    BY Zenon DEF Inf, NumberIs
  <2>2. NumberIs([b.y EXCEPT !.neg = neg, !.prec = p], "inf", neg, 0, 0, p)
    BY <2>1, BothSet
  <2> QED
    BY <2>2, Zenon DEF NumberIs, Inf
<1>7. Set4(b.y, p, "RNDN", neg, ExtEMax) = Return(Inf(neg, p), 0, {})
  BY <1>4, <1>6 DEF Set4, IsSingular
<1> HIDE DEF s
<1>8. s.y = Inf(neg, p) /\ s.inex = Signed(neg, 1) /\ s.raised = {}
  BY <1>5, <1>7 DEF Return
<1>9. WithHalfMin(s) = Signed(neg, 1)
  BY <1>3, <1>8 DEF WithHalfMin
<1>10. s.y.kind = "inf" /\ s.y.exp \in Int
  BY <1>8 DEF Inf
<1>11. c = Return(Inf(neg, p), Signed(neg, 1), {"overflow"})
  BY <1>3, <1>8, <1>9, <1>10 DEF CheckRange
<1>12. a = [c EXCEPT !.raised = (@ \cup s.raised) \cup b.raised]
  BY DEF NearestAwayOf, s
<1> HIDE DEF c, a, E, F
<1>13. c = [y |-> Inf(neg, p), inex |-> Signed(neg, 1), raised |-> {"overflow", "inexact"}]
  BY <1>3, <1>11 DEF Return
<1>14. a.y = Inf(neg, p) /\ a.inex = Signed(neg, 1) /\ a.raised = {"inexact", "overflow"}
  BY <1>8, <1>12, <1>13
<1>15. Delivers(a, p, Scale, X, "RNDNA", neg, E, F)
  BY <1>1, <1>2, <1>14, InfinityDelivers
<1>16. a.y.kind # "num"
  BY <1>14 DEF Inf
<1>17. Sound(a)
  BY <1>3, <1>14, NumPlain, Zenon DEF Sound
<1> QED
  BY <1>15, <1>16, <1>17 DEF a, E, F

\* An underflow of the extended range: the number is zero or the smallest one, which is
\* below half of the smallest number of the user's range.
LEMMA NearestAwayBelow ==
  ASSUME NEW p \in Precs, NEW e \in 1..MaxBits, e < MaxBits, NEW X, HasLength(X, e),
         NEW neg \in BOOLEAN, NEW P, P = p + 1, NEW b,
         \/ b.y = Zero(neg, P) /\ b.inex = Signed(neg, -1)
         \/ b.y = SetMin(neg, ExtEMin, P) /\ b.inex = Signed(neg, 1),
         b.raised = {"inexact", "underflow"},
         e < ExtEMin + Scale
  PROVE  /\ Delivers(NearestAwayOf(b, p), p, Scale, X, "RNDNA", neg, EMin + Scale, EMax + Scale)
         /\ NearestAwayOf(b, p).y.kind # "num"
         /\ Sound(NearestAwayOf(b, p))
<1> DEFINE s == NearestAwayRounding(b.y, b.inex, p)
           c == CheckRange(s.y, WithHalfMin(s), "RNDN", EMin, EMax)
           a == NearestAwayOf(b, p)
           E == EMin + Scale
           F == EMax + Scale
           D == ExtEMin + Scale
<1>1. /\ p \in Nat /\ p > 0 /\ E > 0 /\ E \in Nat /\ F \in Nat /\ E <= F /\ E - 1 \in Nat
      /\ EMin \in Int /\ EMax \in Int /\ EMin <= EMax /\ D \in Nat /\ D < E /\ ExtEMin < EMin
      /\ ExtEMin \in Int /\ ExtEMax \in Int /\ ExtEMin < ExtEMax
  BY PrecisionsAre, RangesAre
<1>2. e \in Nat /\ X \in Nat /\ X < 2^e
  BY DEF HasLength
<1>3. /\ Signed(neg, 1) \in Int /\ Signed(neg, 1) # 0 /\ Signed(neg, Signed(neg, 1)) = 1
      /\ Signed(neg, -1) \in Int /\ Signed(neg, -1) # 0
  <2>1. 1 \in Int /\ -1 \in Int /\ 1 # 0
    OBVIOUS
  <2>2. Signed(neg, 1) \in Int /\ Signed(neg, 1) # 0 /\ Signed(neg, Signed(neg, 1)) = 1
    BY <2>1, SignedTwice
  <2>3. Signed(neg, -1) \in Int /\ Signed(neg, -1) # 0
    BY DEF Signed
  <2> QED
    BY <2>2, <2>3
<1>4. ~ GoesUp(0, X, 2^(E - 1), "RNDNA", neg)
  <2>1. e <= E - 2 /\ E - 2 \in Nat
    BY <1>1, <1>2
  <2>2. 2^e <= 2^(E - 2) /\ 2^e \in Nat /\ 2^(E - 2) \in Nat
    BY <1>2, <2>1, PowMonotone, PowNat
  <2>3. 2^(E - 1) = 2 * 2^(E - 2)
    <3>1. (E - 1) - 1 = E - 2 /\ E - 1 \in Nat /\ E - 1 # 0
      BY <1>1, <2>1
    <3> QED
      BY <3>1, PowHalf
  <2> HIDE DEF E
  <2>4. 2 * X < 2^(E - 1)
    BY <1>2, <2>2, <2>3
  <2>5. ~ (2 * X >= 2^(E - 1))
    <3>1. 2^(E - 1) \in Nat
      BY <2>2, <2>3
    <3> QED
      BY <1>2, <2>4, <3>1
  <2> QED
    BY <2>5 DEF GoesUp
<1>5. PICK n \in 1..MaxBits :
            /\ HasLength(RoundTo(X, p, "RNDNA", neg), n)
            /\ n = e \/ (n = e + 1 /\ RoundTo(X, p, "RNDNA", neg) = 2^e)
  BY <1>1, RoundedLength
<1>6. n \in Nat /\ n < E
  BY <1>1, <1>2, <1>5
<1>7. a = [c EXCEPT !.raised = (@ \cup s.raised) \cup b.raised]
  BY DEF NearestAwayOf
<1> HIDE DEF s, c, a, E, F, D
<1>8. ASSUME c.y = Zero(neg, p), c.inex = Signed(neg, -1), c.raised \subseteq {"inexact", "underflow"},
             s.raised = {}, IsRecord(c)
      PROVE  Delivers(a, p, Scale, X, "RNDNA", neg, E, F) /\ a.y.kind # "num" /\ Sound(a)
  <2>1. a = [y |-> c.y, inex |-> c.inex, raised |-> (c.raised \cup s.raised) \cup b.raised]
    BY <1>7, <1>8 DEF IsRecord
  <2>2. a.y = Zero(neg, p) /\ a.inex = Signed(neg, -1) /\ a.raised = {"inexact", "underflow"}
    BY <1>8, <2>1
  <2>3. Delivers(a, p, Scale, X, "RNDNA", neg, E, F)
    BY <1>1, <1>4, <1>5, <1>6, <2>2, ZeroDelivers
  <2>4. a.y.kind # "num"
    BY <2>2 DEF Zero
  <2>5. Sound(a)
    BY <1>3, <2>2, NumPlain, Zenon DEF Sound
  <2> QED
    BY <2>3, <2>4, <2>5
<1>9. CASE b.y = Zero(neg, P) /\ b.inex = Signed(neg, -1)
  <2>1. b.y.kind = "zero" /\ b.y.neg = neg
    BY <1>9 DEF Zero
  <2>2. s = [Set4(b.y, p, "RNDN", neg, ExtEMax) EXCEPT !.inex = b.inex]
    BY <2>1 DEF NearestAwayRounding, IsSingular, s
  <2>3. [b.y EXCEPT !.neg = neg, !.prec = p] = Zero(neg, p)
    <3>1. NumberIs(b.y, "zero", neg, 0, 0, P)
      BY <1>9, Zenon DEF Zero, NumberIs
    <3>2. NumberIs([b.y EXCEPT !.neg = neg, !.prec = p], "zero", neg, 0, 0, p)
      BY <3>1, BothSet
    <3> QED
      BY <3>2, Zenon DEF NumberIs, Zero
  <2>4. Set4(b.y, p, "RNDN", neg, ExtEMax) = Return(Zero(neg, p), 0, {})
    BY <2>1, <2>3 DEF Set4, IsSingular
  <2>5. s.y = Zero(neg, p) /\ s.inex = Signed(neg, -1) /\ s.raised = {}
    BY <1>9, <2>2, <2>4 DEF Return
  <2>6. WithHalfMin(s) = Signed(neg, -1)
    BY <1>3, <2>5 DEF WithHalfMin
  <2>7. s.y.kind = "zero" /\ s.y.exp \in Int
    BY <2>5 DEF Zero
  <2>8. c = Return(Zero(neg, p), Signed(neg, -1), {})
    BY <2>5, <2>6, <2>7 DEF CheckRange, c
  <2>9. c = [y |-> Zero(neg, p), inex |-> Signed(neg, -1), raised |-> {"inexact"}]
    BY <1>3, <2>8 DEF Return
  <2>10. c.y = Zero(neg, p) /\ c.inex = Signed(neg, -1) /\ c.raised \subseteq {"inexact", "underflow"}
         /\ IsRecord(c)
    BY <2>9 DEF IsRecord
  <2> QED
    BY <1>8, <2>5, <2>10 DEF a, E, F
<1>10. CASE b.y = SetMin(neg, ExtEMin, P) /\ b.inex = Signed(neg, 1)
  <2> DEFINE m == 2^(P - 1)
             rr == RndRaw(m, P, p, "RNDN", neg)
  <2>1. b.y = Num(neg, ExtEMin, m, P)
    BY <1>10 DEF SetMin
  <2>2. P \in Nat /\ p <= P /\ m \in Nat /\ IsSignificand(m, P) /\ m = 2 * 2^(p - 1) /\ 2^(p - 1) \in Nat
    <3>1. P - 1 = p /\ P \in Nat /\ P > 0
      BY <1>1
    <3>2. 2^P = 2 * 2^(P - 1) /\ 2^(P - 1) \in Nat /\ 2^(P - 1) > 0
      BY <3>1, PowHalf, PowNat
    <3>3. 2^p = 2 * 2^(p - 1) /\ 2^(p - 1) \in Nat
      BY <1>1, PowHalf, PowNat
    <3>4. 2^(P - 1) = 2^p
      BY <3>1
    <3> QED
      BY <1>1, <3>1, <3>2, <3>3, <3>4 DEF IsSignificand
  <2>3. Cut(m, P, p, 2, 2^(p - 1), 0)
    <3>1. 2^(P - p) = 2
      <4>1. P - p = 1
        BY <1>1
      <4>2. 2^(0 + 1) = 2 * 2^0 /\ 2^0 = 1
        BY PowSucc, PowZero
      <4>3. 2^1 = 2
        BY <4>2
      <4>4. 2^(P - p) = 2^1
        BY <4>1, Zenon
      <4> QED
        BY <4>3, <4>4
    <3> HIDE DEF m
    <3> QED
      BY <2>2, <3>1 DEF Cut
  <2>4. rr.mant = 2^(p - 1) /\ rr.carry = 0 /\ rr.dir = 0
    <3>1. "RNDN" \in Rnds
      BY DEF Rnds
    <3> HIDE DEF m
    <3>2. \A middle : LET o == RndRawGen(m, P, p, "RNDN", neg, middle) IN
                      o.mant = 2^(p - 1) /\ o.carry = 0 /\ o.dir = 0
      BY <1>1, <2>2, <2>3, <3>1, NothingLeft
    <3> QED
      BY <3>2 DEF RndRaw
  <2>5. m % 2 = 0
    <3> HIDE DEF m
    <3> QED
      BY <2>2
  <2>6. b.y.kind = "num" /\ b.y.mant = m /\ b.y.neg = neg
    BY <2>1 DEF Num
  <2> HIDE DEF m, rr
  <2>7. s = [Set4(b.y, p, "RNDN", neg, ExtEMax) EXCEPT !.inex = b.inex]
    BY <2>5, <2>6 DEF NearestAwayRounding, IsSingular, s
  <2>8. Set4(b.y, p, "RNDN", neg, ExtEMax) = Set4Of(ExtEMin, p, rr, "RNDN", neg, ExtEMax)
    BY <2>1, Set4Is DEF rr
  <2>9. Set4Of(ExtEMin, p, rr, "RNDN", neg, ExtEMax) = Return(Num(neg, ExtEMin, 2^(p - 1), p), 0, {})
    BY <1>1, <2>4 DEF Set4Of, Signed
  <2>10. s.y = Num(neg, ExtEMin, 2^(p - 1), p) /\ s.inex = Signed(neg, 1) /\ s.raised = {}
    BY <1>10, <2>7, <2>8, <2>9 DEF Return
  <2>11. WithHalfMin(s) = Signed(neg, 1)
    BY <1>3, <2>10 DEF WithHalfMin
  <2>12. s.y.kind = "num" /\ s.y.exp = ExtEMin /\ s.y.neg = neg /\ s.y.prec = p /\ s.y.mant = 2^(p - 1)
    BY <2>10 DEF Num
  <2>13. HalfwayToZero(s.y, Signed(neg, 1), EMin)
    BY <1>3, <2>12 DEF HalfwayToZero, IsPowerof2Raw
  <2>14. c = Underflow(p, "RNDZ", neg, EMin)
    BY <1>1, <2>11, <2>12, <2>13 DEF CheckRange, c
  <2>15. c = Return(Zero(neg, p), Signed(neg, -1), {"underflow"})
    BY <2>14 DEF Underflow, IsLikeRNDZ
  <2>16. c = [y |-> Zero(neg, p), inex |-> Signed(neg, -1), raised |-> {"underflow", "inexact"}]
    BY <1>3, <2>15 DEF Return
  <2>17. c.y = Zero(neg, p) /\ c.inex = Signed(neg, -1) /\ c.raised \subseteq {"inexact", "underflow"}
         /\ IsRecord(c)
    BY <2>16 DEF IsRecord
  <2> QED
    BY <1>8, <2>10, <2>17 DEF a, E, F
<1> QED
  BY <1>9, <1>10

\* What the number at the end of mpfr_round_nearest_away is: the exact result rounded once,
\* ties away, in the user's range.
AwayDelivers(b, p, X, neg) ==
  /\ Delivers(NearestAwayOf(b, p), p, Scale, X, "RNDNA", neg, EMin + Scale, EMax + Scale)
  /\ Fits(NearestAwayOf(b, p).y)
  /\ Sound(NearestAwayOf(b, p))

\* What mpfr_check_range makes of the number of p + 1 bits in the extended range.
FirstInRange(b, neg, x, m, P, t, emin, emax) ==
  /\ emin <= x /\ x <= emax =>
       /\ b.y = Num(neg, x, m, P) /\ b.inex = t
       /\ b.raised = {} \/ b.raised = {"inexact"}
       /\ t = 0 => b.raised = {}
  /\ x < emin =>
       /\ \/ b.y = Zero(neg, P) /\ b.inex = Signed(neg, -1)
          \/ b.y = SetMin(neg, emin, P) /\ b.inex = Signed(neg, 1)
       /\ b.raised = {"inexact", "underflow"}
  /\ x > emax =>
       b.y = Inf(neg, P) /\ b.inex = Signed(neg, 1) /\ b.raised = {"inexact", "overflow"}

\* The first rounding in the extended exponent range.
LEMMA RangeOfFirst ==
  ASSUME NEW neg \in BOOLEAN, NEW x \in Int, NEW m, NEW P, NEW t \in Int,
         NEW emin \in Int, NEW emax \in Int, emin <= emax, NEW b,
         b = CheckRange(Num(neg, x, m, P), t, "RNDN", emin, emax)
  PROVE  FirstInRange(b, neg, x, m, P, t, emin, emax)
<1> DEFINE y == Num(neg, x, m, P)
<1>1. y.kind = "num" /\ y.exp = x /\ y.neg = neg /\ y.prec = P
  BY DEF Num
<1>2. Signed(neg, 1) # 0 /\ Signed(neg, -1) # 0
  BY DEF Signed
<1>3. b = CheckRange(y, t, "RNDN", emin, emax)
  OBVIOUS
<1> HIDE DEF y
<1>4. CASE emin <= x /\ x <= emax
  <2>1. b = Return(y, t, {})
    BY <1>1, <1>3, <1>4 DEF CheckRange
  <2>2. b.y = y /\ b.inex = t /\ b.raised = {} \cup (IF t = 0 THEN {} ELSE {"inexact"})
    BY <2>1 DEF Return
  <2> QED
    BY <1>4, <2>2 DEF y, FirstInRange
<1>5. CASE x < emin
  <2>1. PICK g \in {"RNDZ", "RNDN"} : b = Underflow(P, g, neg, emin)
    <3>1. b = Underflow(P, IF "RNDN" = "RNDN" /\ HalfwayToZero(y, t, emin) THEN "RNDZ" ELSE "RNDN", neg, emin)
      BY <1>1, <1>3, <1>5 DEF CheckRange
    <3> QED
      BY <3>1
  <2>2. \/ b = Return(Zero(neg, P), Signed(neg, -1), {"underflow"})
        \/ b = Return(SetMin(neg, emin, P), Signed(neg, 1), {"underflow"})
    BY <2>1 DEF Underflow
  <2>3. CASE b = Return(Zero(neg, P), Signed(neg, -1), {"underflow"})
    <3>1. b.y = Zero(neg, P) /\ b.inex = Signed(neg, -1) /\ b.raised = {"inexact", "underflow"}
      BY <1>2, <2>3 DEF Return
    <3> QED
      BY <1>5, <3>1 DEF FirstInRange
  <2>4. CASE b = Return(SetMin(neg, emin, P), Signed(neg, 1), {"underflow"})
    <3>1. b.y = SetMin(neg, emin, P) /\ b.inex = Signed(neg, 1) /\ b.raised = {"inexact", "underflow"}
      BY <1>2, <2>4 DEF Return
    <3> QED
      BY <1>5, <3>1 DEF FirstInRange
  <2> QED
    BY <2>2, <2>3, <2>4
<1>6. CASE x > emax
  <2>1. b = Overflow(P, "RNDN", neg, emax)
    BY <1>1, <1>3, <1>6 DEF CheckRange
  <2>2. b = Return(Inf(neg, P), Signed(neg, 1), {"overflow"})
    BY <2>1 DEF Overflow, IsLikeRNDZ
  <2>3. b.y = Inf(neg, P) /\ b.inex = Signed(neg, 1) /\ b.raised = {"inexact", "overflow"}
    BY <1>2, <2>2 DEF Return
  <2> QED
    BY <1>6, <2>3 DEF FirstInRange
<1> QED
  BY <1>4, <1>5, <1>6

\* mpfr_round_nearest_away delivers a single rounding to nearest, ties away from zero:
\* value, ternary value and flags, for every precision, exponent range and real.
THEOREM NearestAwayDelivers ==
  ASSUME NEW p \in Precs, NEW e \in 1..MaxBits, e < MaxBits, NEW X, HasLength(X, e),
         NEW neg \in BOOLEAN, NEW P, P = p + 1
  PROVE  AwayDelivers(FirstResult(X, neg, P, "RNDN", ExtEMin, ExtEMax), p, X, neg)
<1> DEFINE b == FirstResult(X, neg, P, "RNDN", ExtEMin, ExtEMax)
           Z == RoundTo(X, p, "RNDNA", neg)
<1>1. /\ p \in Nat /\ p > 0 /\ P \in Nat /\ P > 0 /\ Scale \in Nat
      /\ ExtEMin \in Int /\ ExtEMax \in Int /\ ExtEMin <= ExtEMax /\ e \in Nat
  BY PrecisionsAre, RangesAre
<1>2. "RNDN" \in Rnds
  BY DEF Rnds
<1>3. PICK x \in Int, m \in Nat, t \in Int : FirstIs(X, neg, P, "RNDN", ExtEMin, ExtEMax, e, x, m, t)
  BY <1>1, <1>2, FirstRounds
<1>4. /\ b = CheckRange(Num(neg, x, m, P), t, "RNDN", ExtEMin, ExtEMax)
      /\ x = e - Scale \/ x = e - Scale + 1
      /\ Represents(m, P, x + Scale, RoundTo(X, P, "RNDN", neg))
      /\ SignOf(t) = Ternary(RoundTo(X, P, "RNDN", neg), X, neg)
  BY <1>3 DEF FirstIs, Definite
<1>5. x \in Int /\ t \in Int
  BY <1>3
<1> DEFINE s == NearestAwayRounding(Num(neg, x, m, P), t, p)
<1>6. AwayRounded(s, X, p, neg, t, x)
  BY <1>1, <1>4, <1>5, NearestAwayRounds
<1> HIDE DEF b, Z, s
<1>7. FirstInRange(b, neg, x, m, P, t, ExtEMin, ExtEMax)
  BY <1>1, <1>4, <1>5, RangeOfFirst
<1>8. AwayDelivers(b, p, X, neg)
  <2>1. CASE ExtEMin <= x /\ x <= ExtEMax
    <3>1. /\ b.y = Num(neg, x, m, P) /\ b.inex = t
          /\ b.raised = {} \/ b.raised = {"inexact"}
          /\ t = 0 => b.raised = {}
      BY <1>7, <2>1 DEF FirstInRange
    <3>2. AwayRounded(NearestAwayRounding(b.y, b.inex, p), X, p, neg, t, x)
      BY <1>6, <3>1, Zenon DEF s
    <3> QED
      BY <3>1, <3>2, NearestAwayInside DEF AwayDelivers
  <2>2. CASE x < ExtEMin
    <3>1. e < ExtEMin + Scale
      BY <1>1, <1>4, <1>5, <2>2
    <3>2. /\ \/ b.y = Zero(neg, P) /\ b.inex = Signed(neg, -1)
             \/ b.y = SetMin(neg, ExtEMin, P) /\ b.inex = Signed(neg, 1)
          /\ b.raised = {"inexact", "underflow"}
      BY <1>7, <2>2 DEF FirstInRange
    <3> QED
      BY <3>1, <3>2, NearestAwayBelow DEF AwayDelivers, Fits
  <2>3. CASE x > ExtEMax
    <3>1. PICK n \in Nat : HasLength(Z, n) /\ n > ExtEMax + Scale
      <4>1. CASE \E k \in Int, z \in Int : Represents(k, p, z + Scale, Z) /\ z >= x
        <5>1. PICK k \in Int, z \in Int : Represents(k, p, z + Scale, Z) /\ z >= x
          BY <4>1
        <5>2. HasLength(Z, z + Scale)
          BY <1>1, <5>1, RepresentsLength
        <5>3. z + Scale \in Nat /\ z + Scale > ExtEMax + Scale
          BY <1>1, <1>5, <2>3, <5>1 DEF Represents
        <5> QED
          BY <5>2, <5>3
      <4>2. CASE \E n \in Nat : HasLength(Z, n) /\ n > ExtEMax + Scale
        BY <4>2
      <4> QED
        BY <1>6, <4>1, <4>2 DEF AwayRounded, Z
    <3>2. b.y = Inf(neg, P) /\ b.inex = Signed(neg, 1) /\ b.raised = {"inexact", "overflow"}
      BY <1>7, <2>3 DEF FirstInRange
    <3> QED
      BY <3>1, <3>2, NearestAwayAbove DEF AwayDelivers, Fits, Z
  <2> QED
    BY <1>1, <1>5, <2>1, <2>2, <2>3
<1> QED
  BY <1>8 DEF b

-----------------------------------------------------------------------------
(* The steps of the double roundings *)

\* Raising more flags, twice.
LEMMA RaisedTwice ==
  ASSUME NEW c, NEW s, NEW b
  PROVE  [[c EXCEPT !.raised = @ \cup s] EXCEPT !.raised = @ \cup b]
           = [c EXCEPT !.raised = (@ \cup s) \cup b]
OBVIOUS

First(p) == FirstResult(exact.x, exact.neg, p, FirstRnd(job, rnd), FirstEMin(job), FirstEMax(job))

CacheOf(b, p, rn) ==
  LET c == CacheRounding(b.y, b.inex, p, rn) IN CheckRange(c.y, c.inex, rn, EMin, EMax)

Passed(result, b) == [result EXCEPT !.raised = @ \cup b.raised]

\* What the last step makes of the number b it sees.
DoneWith(b) ==
  CASE job = "cache" -> CacheOf(b, prec, rnd)
    [] job = "set_1_2" -> Passed(Set12(b.y, prec, rnd, b.inex, EMin, EMax), b)
    [] job \in {"subnormalize", "nearest_away"} -> Passed(Subnormalized(b.y, b.inex, rnd), b)

\* Where each step leaves the state: the result is the one of the operators above.
StagesInv ==
  /\ job \in Jobs /\ prec \in Precs
  /\ rnd \in IF job = "nearest_away" THEN {"RNDNA"} ELSE Rnds
  /\ exact.neg \in BOOLEAN /\ (job = "cache" => exact.neg = Pos)
  /\ exact.x \in Exacts(job, prec)
  /\ pc \in {"first", "second", "third", "done"}
  /\ pc = "second" => \E p \in FirstPrecs(job, prec) : r = First(p)
  /\ pc = "third" => job = "nearest_away" /\ r = NearestAwayOf(First(prec + 1), prec)
  /\ pc = "done" /\ job # "nearest_away" => \E p \in FirstPrecs(job, prec) : r = DoneWith(First(p))
  /\ pc = "done" /\ job = "nearest_away" => r = DoneWith(NearestAwayOf(First(prec + 1), prec))

\* Whatever the step, what is returned is what the operators of the functions called
\* so far give: the inductive invariant of the model.
LEMMA Stages == Spec => []StagesInv
<1>1. Init => StagesInv
  <2> SUFFICES ASSUME Init PROVE StagesInv
    OBVIOUS
  <2>1. exact.x \in Exacts(job, prec) /\ exact.neg \in (IF job = "cache" THEN {FALSE} ELSE BOOLEAN)
    BY DEF Init
  <2>2. exact.neg \in BOOLEAN /\ (job = "cache" => exact.neg = Pos)
    BY <2>1 DEF Pos
  <2> QED
    BY <2>1, <2>2 DEF Init, StagesInv
<1>2. StagesInv /\ [Next]_vars => StagesInv'
  <2> SUFFICES ASSUME StagesInv, [Next]_vars PROVE StagesInv'
    OBVIOUS
  <2> USE DEF StagesInv
  <2>1. ASSUME NEW p \in 1..2*XBits, FirstRounding(p)
        PROVE  StagesInv'
    <3>1. /\ UNCHANGED <<job, exact, prec, rnd>> /\ pc' = "second" /\ p \in FirstPrecs(job, prec)
          /\ r' = FirstResult(exact.x, exact.neg, p, FirstRnd(job, rnd), FirstEMin(job), FirstEMax(job))
      BY <2>1 DEF FirstRounding, FirstResult
    <3>2. r' = First(p)'
      BY <3>1 DEF First
    <3>3. /\ job' = job /\ prec' = prec /\ rnd' = rnd /\ exact' = exact
      BY <3>1
    <3> QED
      BY <3>1, <3>2, <3>3
  <2>2. CASE CacheRound
    <3>1. /\ UNCHANGED <<job, exact, prec, rnd>> /\ pc = "second" /\ pc' = "done" /\ job = "cache"
          /\ r' = CacheOf(r, prec, rnd)
      BY <2>2 DEF CacheRound, CacheOf
    <3>2. PICK p \in FirstPrecs(job, prec) : r = First(p)
      BY <3>1
    <3>3. r' = DoneWith(First(p))'
      BY <3>1, <3>2 DEF DoneWith, First
    <3> QED
      BY <3>1, <3>2, <3>3
  <2>3. CASE SetOneTwo
    <3>1. /\ UNCHANGED <<job, exact, prec, rnd>> /\ pc = "second" /\ pc' = "done" /\ job = "set_1_2"
          /\ r' = Passed(Set12(r.y, prec, rnd, r.inex, EMin, EMax), r)
      BY <2>3 DEF SetOneTwo, Finish, Passed
    <3>2. PICK p \in FirstPrecs(job, prec) : r = First(p)
      BY <3>1
    <3>3. r' = DoneWith(First(p))'
      BY <3>1, <3>2 DEF DoneWith, First
    <3> QED
      BY <3>1, <3>2, <3>3
  <2>4. CASE Subnormalize
    <3>1. /\ UNCHANGED <<job, exact, prec, rnd>> /\ pc' = "done"
          /\ r' = Passed(Subnormalized(r.y, r.inex, rnd), r)
          /\ \/ pc = "second" /\ job = "subnormalize"
             \/ pc = "third" /\ job = "nearest_away"
      BY <2>4 DEF Subnormalize, Finish, Passed
    <3>2. CASE pc = "second" /\ job = "subnormalize"
      <4>1. PICK p \in FirstPrecs(job, prec) : r = First(p)
        BY <3>2
      <4>2. r' = DoneWith(First(p))'
        BY <3>1, <3>2, <4>1 DEF DoneWith, First
      <4> QED
        BY <3>1, <3>2, <4>1, <4>2
    <3>3. CASE pc = "third" /\ job = "nearest_away"
      <4>1. r = NearestAwayOf(First(prec + 1), prec)
        BY <3>3
      <4>2. r' = DoneWith(NearestAwayOf(First(prec + 1), prec))'
        BY <3>1, <3>3, <4>1 DEF DoneWith, First
      <4> QED
        BY <3>1, <3>3, <4>2
    <3> QED
      BY <3>1, <3>2, <3>3
  <2>5. CASE NearestAwayEnd
    <3>1. /\ UNCHANGED <<job, exact, prec, rnd>> /\ pc = "second" /\ pc' = "third" /\ job = "nearest_away"
          /\ r' = NearestAwayOf(r, prec)
      <4> DEFINE s == NearestAwayRounding(r.y, r.inex, prec)
                 c == CheckRange(s.y, WithHalfMin(s), "RNDN", EMin, EMax)
      <4>1. /\ UNCHANGED <<job, exact, prec, rnd>> /\ pc = "second" /\ pc' = "third" /\ job = "nearest_away"
            /\ r' = [[c EXCEPT !.raised = @ \cup s.raised] EXCEPT !.raised = @ \cup r.raised]
        BY <2>5 DEF NearestAwayEnd, Finish, WithHalfMin
      <4>2. NearestAwayOf(r, prec) = [c EXCEPT !.raised = (@ \cup s.raised) \cup r.raised]
        BY DEF NearestAwayOf
      <4> HIDE DEF s, c
      <4> QED
        BY <4>1, <4>2, RaisedTwice, Zenon
    <3>2. PICK p \in FirstPrecs(job, prec) : r = First(p)
      BY <3>1
    <3>3. p = prec + 1
      BY <3>1, <3>2 DEF FirstPrecs
    <3>4. r' = NearestAwayOf(First(prec + 1), prec)'
      BY <3>1, <3>2, <3>3 DEF First
    <3> QED
      BY <3>1, <3>4
  <2>6. CASE UNCHANGED vars
    BY <2>6 DEF vars, First, DoneWith
  <2> QED
    BY <2>1, <2>2, <2>3, <2>4, <2>5, <2>6 DEF Next, Done
<1> QED
  BY <1>1, <1>2, PTL DEF Spec

-----------------------------------------------------------------------------
(* What the double roundings deliver *)

\* What a function rounds is a whole number of units below 2^MaxBits, and the one of a
\* constant is inside the extended range.
LEMMA RealsAre ==
  ASSUME NEW p \in Precs, NEW x \in Reals
  PROVE  \E e \in 1..MaxBits : e < MaxBits /\ HasLength(x, e)
<1>1. PICK m \in Significands(XBits), e \in Exps : x = m * 2^(e + Scale - XBits)
  BY DEF Reals
<1>2. /\ XBits \in Nat /\ XBits > 0 /\ e \in Int /\ Scale \in Nat
      /\ XBits <= e + Scale /\ e + Scale < MaxBits /\ MaxBits \in Nat
  BY PrecisionsAre, RangesAre, DoubleRoundingAssumption
<1> DEFINE f == e + Scale
<1>3. 2^(XBits - 1) \in Nat /\ 2^XBits \in Nat
  <2>1. XBits - 1 \in Nat
    BY <1>2
  <2> QED
    BY <1>2, <2>1, PowNat
<1>4. IsSignificand(m, XBits)
  BY <1>1, <1>3 DEF Significands, IsSignificand
<1>5. f \in Nat /\ XBits <= f /\ f > 0 /\ f < MaxBits
  BY <1>2
<1>6. x = m * 2^(f - XBits)
  BY <1>1, <1>2
<1> HIDE DEF f
<1>7. Represents(m, XBits, f, m * 2^(f - XBits))
  BY <1>2, <1>4, <1>5, RepresentsMultiple DEF IsSignificand
<1>8. HasLength(x, f)
  BY <1>2, <1>6, <1>7, RepresentsLength
<1>9. f \in 1..MaxBits
  BY <1>2, <1>5
<1> QED
  BY <1>5, <1>8, <1>9

\* What is rounded has a length within the bound of the model.
LEMMA ExactsAre ==
  ASSUME StagesInv, job # "set_1_2"
  PROVE  \E e \in 1..MaxBits :
            /\ e < MaxBits /\ HasLength(exact.x, e)
            /\ job = "cache" => e - Scale \in ExtEMin+1..ExtEMax-1
<1>1. exact.x \in Exacts(job, prec) /\ prec \in Precs /\ job \in Jobs
  BY DEF StagesInv
<1>2. exact.x \in Reals /\ (job = "cache" => BitLength(exact.x) - Scale \in ExtEMin+1..ExtEMax-1)
  <2>1. CASE job = "cache"
    BY <1>1, <2>1 DEF Exacts
  <2>2. CASE job # "cache"
    <3>1. Exacts(job, prec) = Reals
      BY <2>2 DEF Exacts
    <3> QED
      BY <1>1, <2>2, <3>1
  <2> QED
    BY <2>1, <2>2
<1>3. PICK e \in 1..MaxBits : e < MaxBits /\ HasLength(exact.x, e)
  BY <1>1, <1>2, RealsAre
<1>4. BitLength(exact.x) = e
  BY <1>3, BitLengthIs
<1> QED
  BY <1>2, <1>3, <1>4

\* The number at the end of mpfr_round_nearest_away.
LEMMA ThirdDelivers ==
  ASSUME StagesInv, job = "nearest_away"
  PROVE  AwayDelivers(First(prec + 1), prec, exact.x, exact.neg)
<1>1. PICK e \in 1..MaxBits : e < MaxBits /\ HasLength(exact.x, e)
  BY ExactsAre
<1>2. prec \in Precs /\ exact.neg \in BOOLEAN
  BY DEF StagesInv
<1>3. First(prec + 1) = FirstResult(exact.x, exact.neg, prec + 1, "RNDN", ExtEMin, ExtEMax)
  BY DEF First, FirstRnd, FirstEMin, FirstEMax, Extended
<1> QED
  BY <1>1, <1>2, <1>3, NearestAwayDelivers

\* What Delivers says of the state.
LEMMA DeliveredIs ==
  ASSUME NEW p \in Precs, NEW g, g # "RNDF", p = prec, Fits(r.y),
         Delivers(r, p, Scale, exact.x, g, exact.neg, EMin + Scale, EMax + Scale)
  PROVE  OneRounding(g)
<1>1. Value(r.y) = Expected(prec, g)
  BY ValueIs DEF Delivers, Expected
<1> QED
  BY <1>1 DEF Delivers, OneRounding, SameAs, Expected

\* NearestAwayRight (mpfr_round_nearest_away_end, src/rndna.c) holds of every execution.
THEOREM NearestAwayIsRight == Spec => []NearestAwayRight
<1>1. StagesInv => NearestAwayRight
  <2> SUFFICES ASSUME StagesInv, pc = "third" PROVE OneRounding("RNDNA")
    BY DEF NearestAwayRight
  <2>1. job = "nearest_away" /\ r = NearestAwayOf(First(prec + 1), prec) /\ prec \in Precs
    BY DEF StagesInv
  <2>2. AwayDelivers(First(prec + 1), prec, exact.x, exact.neg)
    BY <2>1, ThirdDelivers
  <2>3. /\ Delivers(r, prec, Scale, exact.x, "RNDNA", exact.neg, EMin + Scale, EMax + Scale)
        /\ Fits(r.y)
    BY <2>1, <2>2 DEF AwayDelivers
  <2> QED
    BY <2>1, <2>3, DeliveredIs
<1> QED
  BY <1>1, Stages, PTL

\* A constant taken from the cache.
CacheRight ==
  /\ Fits(r.y)
  /\ rnd # "RNDF" => Delivers(r, prec, Scale, exact.x, rnd, exact.neg, EMin + Scale, EMax + Scale)
  /\ rnd = "RNDF" => \E d \in {"RNDZ", "RNDA"} :
       StandsFor(r.y, prec, Scale, CorrectValue(exact.x, prec, d, exact.neg, EMin + Scale, EMax + Scale))

\* What mpfr_cache returns is right, the constant in the cache being so.
LEMMA CacheDone ==
  ASSUME StagesInv, pc = "done", job = "cache"
  PROVE  CacheRight
<1>1. PICK p \in FirstPrecs(job, prec) : r = DoneWith(First(p))
  BY DEF StagesInv
<1>2. p \in prec..XBits
  BY <1>1 DEF FirstPrecs
<1>3. prec \in Precs /\ rnd \in Rnds /\ exact.neg = Pos
  BY DEF StagesInv
<1>4. p \in Nat /\ p > 0 /\ prec <= p
  BY <1>2, <1>3, PrecisionsAre
<1>5. PICK e \in 1..MaxBits : /\ e < MaxBits /\ HasLength(exact.x, e)
                             /\ e - Scale \in ExtEMin+1..ExtEMax-1
  BY ExactsAre
<1> DEFINE b == FirstResult(exact.x, Pos, p, "RNDN", ExtEMin, ExtEMax)
<1>6. First(p) = b
  BY <1>3 DEF First, FirstRnd, FirstEMin, FirstEMax, Extended
<1>7. InCache(b.y, b.inex, exact.x, p)
  BY <1>4, <1>5, CacheHolds
<1> DEFINE c == CacheRounding(b.y, b.inex, prec, rnd)
           r1 == CheckRange(c.y, c.inex, rnd, EMin, EMax)
<1>8. r = r1
  BY <1>1, <1>6 DEF DoneWith, CacheOf
<1>9. /\ Fits(r1.y)
      /\ rnd # "RNDF" => Delivers(r1, prec, Scale, exact.x, rnd, Pos, EMin + Scale, EMax + Scale)
      /\ rnd = "RNDF" => \E d \in {"RNDZ", "RNDA"} :
           StandsFor(r1.y, prec, Scale, CorrectValue(exact.x, prec, d, Pos, EMin + Scale, EMax + Scale))
  <2> HIDE DEF b
  <2> QED
    BY <1>3, <1>4, <1>5, <1>7, CacheDelivers
<1> QED
  BY <1>3, <1>8, <1>9 DEF CacheRight

\* A constant taken from the cache is rounded once.
LEMMA CacheIsRight ==
  ASSUME StagesInv, pc = "done", job = "cache"
  PROVE  OneRounding(rnd)
<1>1. CacheRight /\ prec \in Precs
  BY CacheDone DEF StagesInv
<1>2. CASE rnd # "RNDF"
  BY <1>1, <1>2, DeliveredIs DEF CacheRight
<1>3. CASE rnd = "RNDF"
  <2>1. PICK d \in {"RNDZ", "RNDA"} :
           StandsFor(r.y, prec, Scale, CorrectValue(exact.x, prec, d, exact.neg, EMin + Scale, EMax + Scale))
    BY <1>1, <1>3 DEF CacheRight
  <2>2. Value(r.y) = Expected(prec, d)
    BY <1>1, <2>1, ValueIs DEF CacheRight, Expected
  <2> QED
    BY <1>3, <2>2 DEF OneRounding
<1> QED
  BY <1>2, <1>3

\* FlagsRight holds of every execution: mpfr_cache and mpfr_round_nearest_away_end
\* leave the flags of the result and no others.
THEOREM FlagsAreRight == Spec => []FlagsRight
<1>1. StagesInv => FlagsRight
  <2> SUFFICES ASSUME StagesInv, rnd # "RNDF", pc = "third" \/ (pc = "done" /\ job = "cache")
               PROVE  FlagsOfOneRounding
    BY DEF FlagsRight
  <2>1. CASE pc = "third"
    <3>1. job = "nearest_away" /\ r = NearestAwayOf(First(prec + 1), prec) /\ rnd = "RNDNA"
      BY <2>1 DEF StagesInv
    <3>2. AwayDelivers(First(prec + 1), prec, exact.x, exact.neg)
      BY <3>1, ThirdDelivers
    <3> QED
      BY <3>1, <3>2 DEF AwayDelivers, Delivers, FlagsOfOneRounding
  <2>2. CASE pc = "done" /\ job = "cache"
    <3>1. CacheRight
      BY <2>2, CacheDone
    <3> QED
      BY <3>1 DEF CacheRight, Delivers, FlagsOfOneRounding
  <2> QED
    BY <2>1, <2>2
<1> QED
  BY <1>1, Stages, PTL

-----------------------------------------------------------------------------
(* mpfr_subnormalize: from the precision of the normal numbers *)

\* A rounding to the multiples of v that falls on a multiple of a larger unit U is
\* the rounding to the multiples of U.
LEMMA CoarserKeeps ==
  ASSUME NEW X \in Nat, NEW v \in Nat, v > 0, NEW u \in Nat, NEW U \in Nat, IsProduct(U, u, v),
         u = 1 \/ (\E h \in Nat : h > 0 /\ IsProduct(u, 2, h)),
         NEW g \in RoundingDirections, NEW neg \in BOOLEAN, NEW k \in Nat,
         NEW Y, Y = RoundToMultiple(X, v, g, neg), IsProduct(Y, k, U)
  PROVE  RoundToMultiple(X, U, g, neg) = Y
<1>1. PICK q \in Nat, s \in Nat : IsQuotient(X, v, q, s)
  BY QuotientExists
<1> DEFINE q1 == IF GoesUp(q, s, v, g, neg) THEN q + 1 ELSE q
           d == X - Y
<1>2. RoundToMultiple(X, v, g, neg) = q1 * v
  BY <1>1, QuotientRounds
<1>3. /\ s < v /\ X = q * v + s
      /\ Y = q1 * v
  BY <1>1, <1>2 DEF IsQuotient
<1>4. \/ GoesUp(q, s, v, g, neg) /\ s # 0 /\ Y = q * v + v
      \/ ~ GoesUp(q, s, v, g, neg) /\ Y = q * v
  <2>1. q1 = q \/ (q1 = q + 1 /\ (q + 1) * v = q * v + v)
    OBVIOUS
  <2>2. GoesUp(q, s, v, g, neg) => s # 0
    BY DEF GoesUp
  <2>3. CASE GoesUp(q, s, v, g, neg)
    <3>1. Y = (q + 1) * v
      BY <1>3, <2>3
    <3>2. (q + 1) * v = q * v + v
      OBVIOUS
    <3> QED
      BY <2>2, <2>3, <3>1, <3>2
  <2>4. CASE ~ GoesUp(q, s, v, g, neg)
    BY <1>3, <2>4
  <2> QED
    BY <2>3, <2>4
<1>5. q * v \in Nat /\ Y \in Nat /\ d \in Int /\ -v < d /\ d < v /\ X = Y + d
  <2>1. q * v \in Nat
    OBVIOUS
  <2> HIDE DEF q1
  <2>2. Y \in Nat
    BY <1>4, <2>1
  <2> QED
    BY <1>3, <1>4, <2>1, <2>2
<1>6. u > 0 /\ U > 0
  <2>1. CASE u = 1
    BY <2>1 DEF IsProduct
  <2>2. CASE \E h \in Nat : h > 0 /\ IsProduct(u, 2, h)
    <3>1. u > 0
      BY <2>2 DEF IsProduct
    <3> QED
      BY <3>1 DEF IsProduct
  <2> QED
    BY <2>1, <2>2
<1>7. Near(X, v, u, k, 0, d)
  <2>1. Y = (k * u + 0) * v
    <3>1. Y = k * U /\ U = u * v
      BY DEF IsProduct
    <3>2. (k * u) * v = k * (u * v) /\ k * u + 0 = k * u
      OBVIOUS
    <3> QED
      BY <3>1, <3>2
  <2> HIDE DEF d
  <2> QED
    BY <1>5, <1>6, <2>1 DEF Near
<1>8. Grids(X, v, u, U, k, 0, d)
  BY <1>7 DEF Grids
<1> HIDE DEF q1
<1>9. CASE g \in ToOneSide
  <2>1. RoundToMultiple(X, U, g, neg) = SideSeen(g, neg, k, 0, d, U)
    <3>1. SideRounds(X, U, k, 0, d)
      <4> HIDE DEF d
      <4> QED
        BY <1>5, <1>8, NearDirected
    <3> QED
      BY <1>9, <3>1 DEF SideRounds
  <2>2. /\ Away(g, neg) => d <= 0
        /\ ~ Away(g, neg) => d >= 0
    <3>1. GoesUp(q, s, v, g, neg) <=> s # 0 /\ Away(g, neg)
      BY <1>9 DEF GoesUp, Away, ToOneSide
    <3> QED
      BY <1>3, <1>4, <1>5, <3>1
  <2>3. SideSeen(g, neg, k, 0, d, U) = k * U
    <3> HIDE DEF d
    <3> QED
      BY <1>5, <2>2 DEF SideSeen, Away
  <2> QED
    BY <2>1, <2>3 DEF IsProduct
<1>10. CASE g \in {"RNDN", "RNDNA"}
  <2>1. CASE u = 1
    <3>1. U = v
      BY <2>1 DEF IsProduct
    <3> QED
      BY <3>1
  <2>2. CASE \E h \in Nat : h > 0 /\ IsProduct(u, 2, h)
    <3>1. PICK h \in Nat : h > 0 /\ IsProduct(u, 2, h)
      BY <2>2
    <3>2. EvenGrids(X, v, u, h, U, k, 0, d)
      BY <1>8, <3>1 DEF EvenGrids
    <3> HIDE DEF d
    <3>3. NearestRounds(X, U, k, 0, h, d)
      BY <1>5, <3>1, <3>2, NearNearest
    <3>4. EvenSeen(k, 0, h, d, U) = k * U /\ AwaySeen(k, 0, h, d, U) = k * U
      BY <3>1 DEF EvenSeen, AwaySeen
    <3>5. RoundToMultiple(X, U, "RNDN", neg) = k * U /\ RoundToMultiple(X, U, "RNDNA", neg) = k * U
      BY <3>3, <3>4 DEF NearestRounds
    <3> QED
      BY <1>10, <3>5 DEF IsProduct
  <2> QED
    BY <2>1, <2>2
<1> QED
  BY <1>9, <1>10 DEF RoundingDirections, ToOneSide

\* The unit of the rounding to p bits, as a power of two.
LEMMA UlpPower ==
  ASSUME NEW p \in Nat, NEW e \in 1..MaxBits, NEW X, HasLength(X, e)
  PROVE  /\ e <= p => Ulp(X, p) = 2^0
         /\ p < e => Ulp(X, p) = 2^(e - p)
<1>1. CASE e <= p
  <2>1. BitLength(X) = e
    BY BitLengthIs
  <2>2. Ulp(X, p) = 1
    BY <1>1, <2>1 DEF Ulp
  <2> QED
    BY <1>1, <2>2, PowZero
<1>2. CASE p < e
  <2>1. BitLength(X) = e
    BY BitLengthIs
  <2> QED
    BY <1>2, <2>1 DEF Ulp
<1> QED
  BY <1>1, <1>2

\* A rounding that falls on a multiple of the last place of the subnormal numbers is the
\* rounding to these multiples.
LEMMA UnitRounds ==
  ASSUME NEW p \in Nat, NEW e \in 1..MaxBits, NEW X, HasLength(X, e), NEW g \in RoundingDirections,
         NEW neg \in BOOLEAN, NEW E \in Nat, E > 0, e - p <= E - 1, NEW k \in Nat,
         NEW Y, Y = RoundTo(X, p, g, neg), IsProduct(Y, k, 2^(E - 1))
  PROVE  RoundToMultiple(X, 2^(E - 1), g, neg) = Y
<1>1. PICK w \in Nat : Ulp(X, p) = 2^w /\ w <= E - 1
  <2>1. CASE e <= p
    <3>1. 0 \in Nat /\ 0 <= E - 1
      OBVIOUS
    <3> QED
      BY <2>1, <3>1, UlpPower
  <2>2. CASE p < e
    <3>1. e - p \in Nat
      BY <2>2
    <3> QED
      BY <2>2, <3>1, UlpPower
  <2> QED
    BY <2>1, <2>2
<1> DEFINE n == E - 1
           j == n - w
           v == 2^w
           u == 2^j
           U == 2^n
<1>2. n \in Nat /\ j \in Nat /\ w \in Nat /\ w <= n
  BY <1>1
<1>3. v \in Nat /\ v > 0 /\ u \in Nat /\ U \in Nat
  BY <1>2, PowNat
<1>4. IsProduct(U, u, v)
  BY <1>2, PowSplit DEF IsProduct
<1>5. u = 1 \/ (\E h \in Nat : h > 0 /\ IsProduct(u, 2, h))
  <2>1. CASE j = 0
    <3>1. 2^j = 2^0
      BY <2>1, Zenon
    <3> QED
      BY <3>1, PowZero
  <2>2. CASE j # 0
    <3>1. j - 1 \in Nat /\ 2^j = 2 * 2^(j - 1)
      BY <1>2, <2>2, PowHalf
    <3>2. 2^(j - 1) \in Nat /\ 2^(j - 1) > 0
      BY <3>1, PowNat
    <3> QED
      BY <3>1, <3>2 DEF IsProduct
  <2> QED
    BY <2>1, <2>2
<1>6. X \in Nat
  BY DEF HasLength
<1>7. Y = RoundToMultiple(X, v, g, neg)
  BY <1>1 DEF RoundTo
<1>8. IsProduct(Y, k, U)
  OBVIOUS
<1> HIDE DEF v, u, U
<1>9. RoundToMultiple(X, U, g, neg) = Y
  BY <1>3, <1>4, <1>5, <1>6, <1>7, <1>8, CoarserKeeps
<1> QED
  BY <1>9 DEF U

\* What mpfr_subnormalize must deliver.
SubExpected(X, p, g, neg) ==
  RoundToMultiple(X, IF Ulp(X, p) < Quantum THEN Quantum ELSE Ulp(X, p), g, neg)

\* The subnormal result expected: multiples of the quantum below, p bits above.
LEMMA SubExpectedIs ==
  ASSUME NEW p \in Precs, NEW e \in 1..MaxBits, NEW X, HasLength(X, e), NEW g, NEW neg \in BOOLEAN
  PROVE  LET E == EMin + Scale IN
         /\ e - p <= E - 1 => SubExpected(X, p, g, neg) = RoundToMultiple(X, 2^(E - 1), g, neg)
         /\ e - p >= E - 1 => SubExpected(X, p, g, neg) = RoundTo(X, p, g, neg)
<1> DEFINE E == EMin + Scale
           n == E - 1
<1>1. p \in Nat /\ p > 0 /\ E \in Nat /\ n \in Nat /\ n > 0 /\ EMin - 1 + Scale = n
  BY PrecisionsAre, RangesAre
<1>2. Quantum = 2^n
  <2>1. Quantum = 2^(EMin - 1 + Scale)
    BY DEF Quantum
  <2> QED
    BY <1>1, <2>1, Zenon
<1>3. 2^n \in Nat /\ 2^0 = 1 /\ 2^0 < 2^n
  BY <1>1, PowNat, PowZero, PowStrict
<1> HIDE DEF n
<1>4. CASE e <= p
  <2>1. Ulp(X, p) = 2^0
    BY <1>1, <1>4, UlpPower
  <2>2. SubExpected(X, p, g, neg) = RoundToMultiple(X, 2^n, g, neg)
    BY <1>2, <1>3, <2>1 DEF SubExpected
  <2>3. ~ (e - p >= n)
    BY <1>1, <1>4
  <2> QED
    BY <2>2, <2>3 DEF n
<1>5. CASE p < e
  <2> DEFINE w == e - p
  <2>1. w \in Nat /\ Ulp(X, p) = 2^w
    BY <1>1, <1>5, UlpPower
  <2>2. 2^w \in Nat
    BY <2>1, PowNat
  <2> HIDE DEF w
  <2>3. w < n => SubExpected(X, p, g, neg) = RoundToMultiple(X, 2^n, g, neg)
    <3>1. w < n => 2^w < 2^n
      BY <1>1, <2>1, PowStrict
    <3> QED
      BY <1>2, <2>1, <3>1 DEF SubExpected
  <2>4. w >= n => SubExpected(X, p, g, neg) = RoundTo(X, p, g, neg)
    <3>1. w >= n => ~ (2^w < 2^n)
      BY <1>1, <1>3, <2>1, <2>2, PowMonotone
    <3> QED
      BY <1>2, <2>1, <3>1 DEF SubExpected, RoundTo
  <2>5. w = n => SubExpected(X, p, g, neg) = RoundToMultiple(X, 2^n, g, neg)
    BY <1>1, <2>1, <2>4 DEF RoundTo
  <2>6. /\ w <= n => SubExpected(X, p, g, neg) = RoundToMultiple(X, 2^n, g, neg)
        /\ w >= n => SubExpected(X, p, g, neg) = RoundTo(X, p, g, neg)
    BY <1>1, <2>1, <2>3, <2>4, <2>5
  <2> QED
    BY <2>6 DEF w, n
<1> QED
  BY <1>1, <1>4, <1>5

\* The same number with more bits.
LEMMA RepresentsPadded ==
  ASSUME NEW q \in Nat, q > 0, NEW p \in Nat, q <= p, NEW k, NEW z, NEW V, Represents(k, q, z, V)
  PROVE  Represents(k * 2^(p - q), p, z, V)
<1> DEFINE w == 2^(p - q)
<1>1. p - q \in Nat /\ w \in Nat /\ w > 0
  <2>1. p - q \in Nat
    OBVIOUS
  <2> QED
    BY <2>1, PowNat
<1>2. /\ k \in Nat /\ 2^(q - 1) <= k /\ k < 2^q /\ z \in Nat /\ V \in Nat
      /\ k * 2^z = V * 2^q
  BY DEF Represents, IsSignificand
<1>3. 2^p = w * 2^q
  BY PowSplit
<1>4. 2^(p - 1) = w * 2^(q - 1)
  <2>1. q - 1 \in Nat /\ p - 1 \in Nat /\ q - 1 <= p - 1 /\ (p - 1) - (q - 1) = p - q
    OBVIOUS
  <2>2. 2^(p - 1) = 2^((p - 1) - (q - 1)) * 2^(q - 1)
    BY <2>1, PowSplit
  <2> QED
    BY <2>1, <2>2, Zenon
<1>5. 2^q \in Nat /\ 2^(q - 1) \in Nat /\ 2^z \in Nat
  <2>1. q - 1 \in Nat
    OBVIOUS
  <2> QED
    BY <1>2, <2>1, PowNat
<1> HIDE DEF w
<1>6. IsSignificand(k * w, p)
  <2>1. w * 2^(q - 1) <= k * w
    <3>1. 2^(q - 1) * w <= k * w
      BY <1>1, <1>2, <1>5, MulMono
    <3> QED
      BY <1>1, <1>5, <3>1
  <2>2. k * w < w * 2^q
    <3>1. (k + 1) * w <= 2^q * w
      BY <1>1, <1>2, <1>5, MulMono
    <3>2. (k + 1) * w = k * w + w
      BY <1>1, <1>2
    <3>3. k * w \in Nat /\ 2^q * w = w * 2^q /\ 2^q * w \in Nat
      BY <1>1, <1>2, <1>5
    <3> QED
      BY <1>1, <3>1, <3>2, <3>3
  <2>3. k * w \in Nat
    BY <1>1, <1>2
  <2> QED
    BY <1>3, <1>4, <2>1, <2>2, <2>3 DEF IsSignificand
<1>7. (k * w) * 2^z = V * 2^p
  <2>1. (k * w) * 2^z = w * (k * 2^z)
    BY <1>1, <1>2, <1>5
  <2>2. V * (w * 2^q) = w * (V * 2^q)
    BY <1>1, <1>2, <1>5
  <2> QED
    BY <1>2, <1>3, <2>1, <2>2
<1> QED
  BY <1>2, <1>6, <1>7 DEF Represents, w

\* Is the next number away from zero the right one, for an exact result d above the
\* number whose last bits are r2, below u2?
ChosenUp(g, neg, q2, r2, u2, d) ==
  IF g = "RNDN" THEN 2 * r2 > u2 \/ (2 * r2 = u2 /\ (d > 0 \/ (d = 0 /\ q2 % 2 = 1)))
  ELSE IF g = "RNDNA" THEN 2 * r2 > u2 \/ (2 * r2 = u2 /\ d >= 0)
  ELSE Away(g, neg)

Chosen(X, q, g, neg, q2, r2, u2, d, K, Kp) ==
  /\ RoundTo(X, q, g, neg) = (IF ChosenUp(g, neg, q2, r2, u2, d) THEN Kp ELSE K)
  /\ K < X /\ X < Kp

\* The candidate chosen is the rounding of the exact result.
LEMMA ChosenRounds ==
  ASSUME NEW X \in Nat, NEW q, NEW f, NEW q2 \in Nat, NEW r2 \in Nat, r2 # 0, NEW u2 \in Nat, u2 # 1,
         NEW d \in Int, NEW neg \in BOOLEAN, NEW K \in Int, NEW Kp \in Int, NEW Km \in Int,
         Candidates(X, q, f, q2, r2, u2, d, neg, K, Kp, Km), NEW g \in RoundingDirections
  PROVE  Chosen(X, q, g, neg, q2, r2, u2, d, K, Kp)
<1>1. K < X /\ X < Kp
  BY DEF Candidates
<1>2. CASE g = "RNDN"
  BY <1>1, <1>2 DEF Candidates, Chosen, ChosenUp
<1>3. CASE g = "RNDNA"
  BY <1>1, <1>3 DEF Candidates, Chosen, ChosenUp
<1>4. CASE g \in ToOneSide
  <2>1. RoundTo(X, q, g, neg) = IF Away(g, neg) THEN Kp ELSE K
    BY <1>4 DEF Candidates, Away
  <2>2. ChosenUp(g, neg, q2, r2, u2, d) <=> Away(g, neg)
    BY <1>4 DEF ChosenUp, ToOneSide
  <2> QED
    BY <1>1, <2>1, <2>2 DEF Chosen
<1> QED
  BY <1>2, <1>3, <1>4 DEF RoundingDirections, ToOneSide

\* One bit left.
AtEMinUp(old, g, neg, r2, u2) ==
  IF g \in {"RNDN", "RNDNA"} THEN 2 * r2 > u2 \/ (2 * r2 = u2 /\ Signed(neg, old) <= 0)
  ELSE ~ IsLikeRNDZ(g, neg)

AtEMinIs(o, old, g, neg, m, p, r2, u2) ==
  /\ r2 = 0 => o = Return(Num(neg, EMin, m, p), old, {})
  /\ r2 # 0 /\ AtEMinUp(old, g, neg, r2, u2) =>
       o = Return(SetMin(neg, EMin + 1, p), Signed(neg, 1), {})
  /\ r2 # 0 /\ ~ AtEMinUp(old, g, neg, r2, u2) =>
       o = Return(SetMin(neg, EMin, p), Signed(neg, -1), {})

\* mpfr_subnormalize on a number with EXP = emin makes the right choice.
LEMMA AtEMinChooses ==
  ASSUME NEW p \in Nat, p > 1, NEW m \in Nat, IsSignificand(m, p),
         NEW u2 \in Nat, NEW q2 \in Nat, NEW r2 \in Nat, Cut(m, p, 1, u2, q2, r2),
         NEW neg \in BOOLEAN, NEW g, NEW old \in Int
  PROVE  AtEMinIs(SubnormalizeAtEMin(Num(neg, EMin, m, p), old, g), old, g, neg, m, p, r2, u2)
<1> DEFINE y == Num(neg, EMin, m, p)
           o == SubnormalizeAtEMin(y, old, g)
           rb == Bit(m, p - 2) = 1
           sb == m % 2^(p - 2) # 0
           up == IF g \in {"RNDN", "RNDNA"} THEN rb /\ (sb \/ Signed(neg, old) <= 0)
                 ELSE ~ IsLikeRNDZ(g, neg)
<1>1. y.mant = m /\ y.prec = p /\ y.neg = neg
  BY DEF Num
<1>2. u2 = 2^(p - 1) /\ r2 < u2 /\ m = q2 * u2 + r2 /\ u2 > 0
  BY DEF Cut
<1>3. q2 = 1
  <2>1. IsSignificand(q2, 1)
    BY CutIs
  <2>2. 2^(1 - 1) <= q2 /\ q2 < 2^1
    BY <2>1 DEF IsSignificand
  <2>3. 2^(1 - 1) = 2^0 /\ 2^1 = 2^(0 + 1)
    OBVIOUS
  <2>4. 2^0 = 1 /\ 2^(0 + 1) = 2 * 2^0
    BY PowZero, PowSucc
  <2> QED
    BY <2>2, <2>3, <2>4
<1>4. m = u2 + r2 /\ m % u2 = r2
  <2>1. m = u2 + r2
    BY <1>2, <1>3
  <2>2. m % u2 = r2
    BY <1>2, DivModUnique
  <2> QED
    BY <2>1, <2>2
<1>5. IsPowerof2Raw(y) <=> r2 = 0
  <2>1. IsPowerof2Raw(y) <=> m = 2^(p - 1)
    BY <1>1 DEF IsPowerof2Raw
  <2> QED
    BY <1>2, <1>4, <2>1
<1>6. rb <=> 2 * r2 >= u2
  <2>1. RoundBit(m, p, 1) <=> 2 * (m % 2^(p - 1)) >= 2^(p - 1)
    BY RoundBitIs
  <2>2. p - 1 - 1 = p - 2
    OBVIOUS
  <2>3. RoundBit(m, p, 1) <=> rb
    <3>1. RoundBit(m, p, 1) <=> Bit(m, p - 1 - 1) = 1
      BY DEF RoundBit
    <3> QED
      BY <2>2, <3>1, Zenon
  <2> QED
    BY <1>2, <1>4, <2>1, <2>3
<1>7. sb <=> (r2 # 0 /\ 2 * r2 # u2)
  <2>1. m % 2^(p - 1 - 1) # 0 <=> (m % 2^(p - 1) # 0 /\ 2 * (m % 2^(p - 1)) # 2^(p - 1))
    BY StickyIs
  <2>2. p - 1 - 1 = p - 2
    OBVIOUS
  <2>3. sb <=> m % 2^(p - 1 - 1) # 0
    BY <2>2, Zenon
  <2> QED
    BY <1>2, <1>4, <2>1, <2>3
<1>8. r2 # 0 => (up <=> AtEMinUp(old, g, neg, r2, u2))
  <2>1. Signed(neg, old) \in Int
    BY SignedTwice
  <2> HIDE DEF rb, sb
  <2> QED
    BY <1>2, <1>6, <1>7, <2>1 DEF AtEMinUp
<1>9. o = CASE IsPowerof2Raw(y) -> Return(y, old, {})
            [] ~ IsPowerof2Raw(y) /\ up -> Return(SetMin(neg, EMin + 1, p), Signed(neg, 1), {})
            [] OTHER -> Return(SetMin(neg, EMin, p), Signed(neg, -1), {})
  BY <1>1 DEF SubnormalizeAtEMin
<1> HIDE DEF rb, sb, up, o
<1>10. /\ r2 = 0 => o = Return(y, old, {})
       /\ r2 # 0 /\ up => o = Return(SetMin(neg, EMin + 1, p), Signed(neg, 1), {})
       /\ r2 # 0 /\ ~ up => o = Return(SetMin(neg, EMin, p), Signed(neg, -1), {})
  BY <1>5, <1>9
<1>11. AtEMinIs(o, old, g, neg, m, p, r2, u2)
  BY <1>8, <1>10 DEF AtEMinIs
<1> QED
  BY <1>11 DEF o

\* More bits left.  The next number away from zero, as a number of q bits.
Succ(neg, x, q2, q) ==
  IF q2 + 1 < 2^q THEN Num(neg, x, q2 + 1, q) ELSE Num(neg, x + 1, 2^(q - 1), q)

Grown(neg, x, q2, q, up) == IF up THEN Succ(neg, x, q2, q) ELSE Num(neg, x, q2, q)

\* The significand kept or with an ulp more, carry included.
LEMMA GrownIs ==
  ASSUME NEW q \in Nat, q > 0, NEW q2 \in Nat, IsSignificand(q2, q), NEW dec, dec.up \in BOOLEAN,
         NEW neg, NEW x \in Int
  PROVE  LET s == Significand(q2, q, dec) IN
         Num(neg, x + s.carry, s.mant, q) = Grown(neg, x, q2, q, dec.up)
<1>1. q2 + 1 <= 2^q /\ 2^q \in Nat
  BY PowNat DEF IsSignificand
<1>2. CASE ~ dec.up
  <2>1. Significand(q2, q, dec) = [mant |-> q2, carry |-> 0, dir |-> dec.dir]
    BY <1>1, <1>2 DEF Significand, IsSignificand
  <2> QED
    BY <1>2, <2>1 DEF Grown
<1>3. CASE dec.up /\ q2 + 1 < 2^q
  <2>1. Significand(q2, q, dec) = [mant |-> q2 + 1, carry |-> 0, dir |-> dec.dir]
    BY <1>1, <1>3 DEF Significand
  <2> QED
    BY <1>3, <2>1 DEF Grown, Succ
<1>4. CASE dec.up /\ q2 + 1 = 2^q
  <2>1. Significand(q2, q, dec) = [mant |-> 2^(q - 1), carry |-> 1, dir |-> dec.dir]
    BY <1>1, <1>4 DEF Significand
  <2>2. ~ (q2 + 1 < 2^q)
    BY <1>1, <1>4
  <2> QED
    BY <1>4, <2>1, <2>2 DEF Grown, Succ
<1> QED
  BY <1>1, <1>2, <1>3, <1>4

\* The same, of a significand already rounded.
LEMMA GrownFrom ==
  ASSUME NEW q \in Nat, q > 0, NEW q2 \in Nat, IsSignificand(q2, q), NEW dec, dec.up \in BOOLEAN,
         NEW neg, NEW x \in Int, NEW s, s = Significand(q2, q, dec)
  PROVE  Num(neg, x + s.carry, s.mant, q) = Grown(neg, x, q2, q, dec.up)
  BY GrownIs

\* The step back, and the step forward, of the second rounding.
LEMMA GrownBack ==
  ASSUME NEW q \in Nat, q > 0, NEW q2 \in Nat, IsSignificand(q2, q), NEW neg, NEW x \in Int,
         NEW emin \in Int, NEW emax \in Int
  PROVE  /\ x + 1 # emin => NextToZero(Succ(neg, x, q2, q), emin, emax) = Num(neg, x, q2, q)
         /\ x # emax => NextToInf(Num(neg, x, q2, q), emin, emax) = Succ(neg, x, q2, q)
<1>1. q2 + 1 <= 2^q /\ 2^q \in Nat /\ 2^(q - 1) \in Nat /\ 2^(q - 1) <= q2
  <2>1. q - 1 \in Nat
    OBVIOUS
  <2> QED
    BY <2>1, PowNat DEF IsSignificand
<1>2. x # emax => NextToInf(Num(neg, x, q2, q), emin, emax) = Succ(neg, x, q2, q)
  <2> DEFINE y == Num(neg, x, q2, q)
  <2>1. y.kind = "num" /\ y.mant = q2 /\ y.prec = q /\ y.exp = x /\ y.neg = neg
    BY DEF Num
  <2> HIDE DEF y
  <2>4. x # emax => NextToInf(y, emin, emax) = Succ(neg, x, q2, q)
    <3>1. CASE q2 + 1 < 2^q
      BY <2>1, <3>1 DEF NextToInf, Succ
    <3>2. CASE q2 + 1 = 2^q
      <4>1. ~ (q2 + 1 < 2^q)
        BY <1>1, <3>2
      <4> QED
        BY <2>1, <3>2, <4>1 DEF NextToInf, Succ, SetMin
    <3> QED
      BY <1>1, <3>1, <3>2
  <2> QED
    BY <2>4 DEF y
<1>3. x + 1 # emin => NextToZero(Succ(neg, x, q2, q), emin, emax) = Num(neg, x, q2, q)
  <2> DEFINE y == Succ(neg, x, q2, q)
  <2>1. CASE q2 + 1 < 2^q
    <3>1. y.kind = "num" /\ y.mant = q2 + 1 /\ y.prec = q /\ y.exp = x /\ y.neg = neg
      BY <2>1 DEF Num, Succ
    <3> HIDE DEF y
    <3>2. ~ IsPowerof2Raw(y)
      BY <1>1, <3>1 DEF IsPowerof2Raw
    <3>3. NextToZero(y, emin, emax) = Num(neg, x, q2 + 1 - 1, q)
      BY <3>1, <3>2 DEF NextToZero
    <3> QED
      BY <3>3 DEF y
  <2>2. CASE q2 + 1 = 2^q
    <3>1. ~ (q2 + 1 < 2^q)
      BY <1>1, <2>2
    <3>2. y.kind = "num" /\ y.mant = 2^(q - 1) /\ y.prec = q /\ y.exp = x + 1 /\ y.neg = neg
      BY <3>1 DEF Num, Succ
    <3> HIDE DEF y
    <3>3. IsPowerof2Raw(y)
      BY <3>2 DEF IsPowerof2Raw
    <3>4. x + 1 # emin => NextToZero(y, emin, emax) = SetMax(neg, x + 1 - 1, q)
      BY <3>2, <3>3 DEF NextToZero
    <3>5. SetMax(neg, x + 1 - 1, q) = Num(neg, x, q2, q)
      BY <1>1, <2>2 DEF SetMax
    <3> QED
      BY <3>4, <3>5 DEF y
  <2> QED
    BY <1>1, <2>1, <2>2
<1> QED
  BY <1>2, <1>3

\* What the second rounding decides before it looks at the ternary value.
EvenStep(m, p, q, g, neg, q2, r2, u2) ==
  \E dec :
    /\ RndRawEven(m, p, q, g, neg) = Significand(q2, q, dec)
    /\ g = "RNDF" => dec = TruncDoit
    /\ g = "RNDN" /\ 2 * r2 = u2 =>
         IF q2 % 2 = 1 THEN dec = Decision(TRUE, EvenInex) ELSE dec = Decision(FALSE, -EvenInex)
    /\ g # "RNDF" /\ ~ (g = "RNDN" /\ 2 * r2 = u2) =>
         IF GoesUp(q2, r2, u2, g, neg) THEN dec = AddOneUlp ELSE dec = Decision(FALSE, -1)

\* mpfr_round_raw with the ties flagged makes the choices of the second rounding.
LEMMA EvenChooses ==
  ASSUME NEW q \in Nat, 0 < q, NEW p \in Nat, q < p, NEW m \in Nat, IsSignificand(m, p),
         NEW u2 \in Nat, NEW q2 \in Nat, NEW r2 \in Nat, Cut(m, p, q, u2, q2, r2), r2 # 0,
         NEW g \in Rnds, NEW neg \in BOOLEAN
  PROVE  EvenStep(m, p, q, g, neg, q2, r2, u2)
<1> DEFINE s == RndRawGen(m, p, q, g, neg, ToEvenFlagged)
           dec == IF g = "RNDF" THEN TruncDoit
                  ELSE IF g = "RNDN" /\ 2 * r2 = u2 THEN ToEvenFlagged[q2 % 2 = 1]
                  ELSE Step(q2, r2, u2, g, neg)
<1>1. /\ g = "RNDF" => s = Significand(q2, q, TruncDoit)
      /\ g = "RNDN" /\ 2 * r2 = u2 => s = Significand(q2, q, ToEvenFlagged[q2 % 2 = 1])
      /\ g # "RNDF" /\ ~ (g = "RNDN" /\ 2 * r2 = u2) => s = Significand(q2, q, Step(q2, r2, u2, g, neg))
  BY RndRawGenIs
<1>2. RndRawEven(m, p, q, g, neg) = s
  BY DEF RndRawEven
<1> HIDE DEF s
<1>3. s = Significand(q2, q, dec)
  BY <1>1
<1>4. g = "RNDN" /\ 2 * r2 = u2 =>
         IF q2 % 2 = 1 THEN dec = Decision(TRUE, EvenInex) ELSE dec = Decision(FALSE, -EvenInex)
  <2>1. (q2 % 2 = 1) \in BOOLEAN
    OBVIOUS
  <2>2. ToEvenFlagged[q2 % 2 = 1] = Decision(q2 % 2 = 1, IF q2 % 2 = 1 THEN EvenInex ELSE -EvenInex)
    BY <2>1 DEF ToEvenFlagged
  <2>3. CASE q2 % 2 = 1
    BY <2>2, <2>3
  <2>4. CASE q2 % 2 # 1
    BY <2>2, <2>4
  <2> QED
    BY <2>3, <2>4
<1>5. g # "RNDF" /\ ~ (g = "RNDN" /\ 2 * r2 = u2) =>
         IF GoesUp(q2, r2, u2, g, neg) THEN dec = AddOneUlp ELSE dec = Decision(FALSE, -1)
  BY DEF Step
<1>6. g = "RNDF" => dec = TruncDoit
  OBVIOUS
<1> HIDE DEF dec
<1> QED
  BY <1>2, <1>3, <1>4, <1>5, <1>6 DEF EvenStep

\* The end of mpfr_subnormalize, from the second rounding dest with direction dir.
HardBack(dest, dir, old, g, neg) ==
  LET inexact == Signed(neg, dir)
      tie == (IF g = "RNDNA" THEN "RNDN" ELSE g) = "RNDN" /\ dir \in {EvenInex, -EvenInex}
  IN CASE tie /\ old * inexact > 0 ->
            IF dir > 0 THEN NextToZero(dest, EMin, EMax) ELSE NextToInf(dest, EMin, EMax)
       [] tie /\ old = 0 /\ g = "RNDNA" /\ dir < 0 -> NextToInf(dest, EMin, EMax)
       [] OTHER -> dest

HardInex(dir, old, g, neg) ==
  LET inexact == Signed(neg, dir)
      tie == (IF g = "RNDNA" THEN "RNDN" ELSE g) = "RNDN" /\ dir \in {EvenInex, -EvenInex}
      turned == tie /\ (old * inexact > 0 \/ (old = 0 /\ g = "RNDNA" /\ dir < 0))
  IN CASE turned -> -inexact
       [] inexact = 0 -> old
       [] OTHER -> inexact

HardTurns(dest, old, g, neg, d) ==
  /\ HardBack(dest, 1, old, g, neg) = dest /\ HardInex(1, old, g, neg) = Signed(neg, 1)
  /\ HardBack(dest, -1, old, g, neg) = dest /\ HardInex(-1, old, g, neg) = Signed(neg, -1)
  /\ g \in {"RNDN", "RNDNA"} /\ d < 0 =>
       /\ HardBack(dest, 2, old, g, neg) = NextToZero(dest, EMin, EMax)
       /\ HardInex(2, old, g, neg) = Signed(neg, -2)
  /\ g \in {"RNDN", "RNDNA"} /\ d >= 0 =>
       /\ HardBack(dest, 2, old, g, neg) = dest
       /\ HardInex(2, old, g, neg) = Signed(neg, 2)
  /\ (g = "RNDN" /\ d > 0) \/ (g = "RNDNA" /\ d >= 0) =>
       /\ HardBack(dest, -2, old, g, neg) = NextToInf(dest, EMin, EMax)
       /\ HardInex(-2, old, g, neg) = Signed(neg, 2)
  /\ (g = "RNDN" /\ d <= 0) \/ (g = "RNDNA" /\ d < 0) =>
       /\ HardBack(dest, -2, old, g, neg) = dest
       /\ HardInex(-2, old, g, neg) = Signed(neg, -2)

\* When the way of the first rounding and the one of the second give ChosenUp.
LEMMA HardSides ==
  ASSUME NEW g \in RoundingDirections, NEW neg \in BOOLEAN, NEW old \in Int, NEW d \in Int,
         Signed(neg, old) > 0 <=> d < 0, Signed(neg, old) < 0 <=> d > 0, NEW dest
  PROVE  HardTurns(dest, old, g, neg, d)
<1>1. /\ Signed(neg, 1) = IF neg THEN -1 ELSE 1
      /\ Signed(neg, -1) = IF neg THEN 1 ELSE -1
      /\ Signed(neg, 2) = IF neg THEN -2 ELSE 2
      /\ Signed(neg, -2) = IF neg THEN 2 ELSE -2
      /\ Signed(neg, old) = IF neg THEN -old ELSE old
  BY DEF Signed
<1>2. old * 2 = old + old /\ old * (-2) = -(old + old)
  OBVIOUS
<1>3. /\ HardBack(dest, 1, old, g, neg) = dest /\ HardInex(1, old, g, neg) = Signed(neg, 1)
      /\ HardBack(dest, -1, old, g, neg) = dest /\ HardInex(-1, old, g, neg) = Signed(neg, -1)
  BY <1>1 DEF HardBack, HardInex, EvenInex
<1>4. CASE g = "RNDN"
  <2>1. /\ d < 0 => HardBack(dest, 2, old, g, neg) = NextToZero(dest, EMin, EMax)
        /\ d >= 0 => HardBack(dest, 2, old, g, neg) = dest
        /\ d > 0 => HardBack(dest, -2, old, g, neg) = NextToInf(dest, EMin, EMax)
        /\ d <= 0 => HardBack(dest, -2, old, g, neg) = dest
    BY <1>1, <1>2, <1>4 DEF HardBack, EvenInex
  <2>2. /\ d < 0 => HardInex(2, old, g, neg) = Signed(neg, -2)
        /\ d >= 0 => HardInex(2, old, g, neg) = Signed(neg, 2)
        /\ d > 0 => HardInex(-2, old, g, neg) = Signed(neg, 2)
        /\ d <= 0 => HardInex(-2, old, g, neg) = Signed(neg, -2)
    BY <1>1, <1>2, <1>4 DEF HardInex, EvenInex
  <2> QED
    BY <1>3, <1>4, <2>1, <2>2 DEF HardTurns
<1>5. CASE g = "RNDNA"
  <2>1. /\ d < 0 => HardBack(dest, 2, old, g, neg) = NextToZero(dest, EMin, EMax)
        /\ d >= 0 => HardBack(dest, 2, old, g, neg) = dest
        /\ d >= 0 => HardBack(dest, -2, old, g, neg) = NextToInf(dest, EMin, EMax)
        /\ d < 0 => HardBack(dest, -2, old, g, neg) = dest
    BY <1>1, <1>2, <1>5 DEF HardBack, EvenInex
  <2>2. /\ d < 0 => HardInex(2, old, g, neg) = Signed(neg, -2)
        /\ d >= 0 => HardInex(2, old, g, neg) = Signed(neg, 2)
        /\ d >= 0 => HardInex(-2, old, g, neg) = Signed(neg, 2)
        /\ d < 0 => HardInex(-2, old, g, neg) = Signed(neg, -2)
    BY <1>1, <1>2, <1>5 DEF HardInex, EvenInex
  <2> QED
    BY <1>3, <1>5, <2>1, <2>2 DEF HardTurns
<1>6. CASE g \notin {"RNDN", "RNDNA"}
  BY <1>3, <1>6 DEF HardTurns
<1> QED
  BY <1>4, <1>5, <1>6

HardIs(o, neg, x, q2, q, p, up) ==
  \E t \in Int :
    /\ o = Return([Grown(neg, x, q2, q, up) EXCEPT !.mant = @ * 2^(p - q), !.prec = p], t, {})
    /\ up => Signed(neg, t) > 0
    /\ ~ up => Signed(neg, t) < 0

\* The decision dec of the second rounding, and where it ends.
Decides(dec, g2, neg, q2, r2, u2) ==
  /\ g2 = "RNDN" /\ 2 * r2 = u2 =>
       IF q2 % 2 = 1 THEN dec = Decision(TRUE, EvenInex) ELSE dec = Decision(FALSE, -EvenInex)
  /\ ~ (g2 = "RNDN" /\ 2 * r2 = u2) =>
       IF GoesUp(q2, r2, u2, g2, neg) THEN dec = AddOneUlp ELSE dec = Decision(FALSE, -1)

HardGone(dec, old, g, neg, x, q2, q, up) ==
  /\ dec.up \in BOOLEAN
  /\ HardBack(Grown(neg, x, q2, q, dec.up), dec.dir, old, g, neg) = Grown(neg, x, q2, q, up)
  /\ HardInex(dec.dir, old, g, neg) \in Int
  /\ up => Signed(neg, HardInex(dec.dir, old, g, neg)) > 0
  /\ ~ up => Signed(neg, HardInex(dec.dir, old, g, neg)) < 0

\* The second rounding, the step back included, chooses between the same two numbers as
\* one rounding of the exact result.
LEMMA HardGoes ==
  ASSUME NEW g \in RoundingDirections, NEW neg \in BOOLEAN, NEW old \in Int, NEW d \in Int,
         Signed(neg, old) > 0 <=> d < 0, Signed(neg, old) < 0 <=> d > 0,
         NEW q \in Nat, q > 0, NEW q2 \in Nat, IsSignificand(q2, q), NEW x \in Int,
         x + 1 # EMin, x # EMax, NEW r2 \in Nat, r2 # 0, NEW u2 \in Nat, NEW dec, NEW g2,
         g2 = Asked(g),
         Decides(dec, g2, neg, q2, r2, u2),
         NEW up \in BOOLEAN, up <=> ChosenUp(g, neg, q2, r2, u2, d)
  PROVE  HardGone(dec, old, g, neg, x, q2, q, up)
<1>1. EMin \in Int /\ EMax \in Int
  BY RangesAre
<1>2. /\ NextToZero(Succ(neg, x, q2, q), EMin, EMax) = Num(neg, x, q2, q)
      /\ NextToInf(Num(neg, x, q2, q), EMin, EMax) = Succ(neg, x, q2, q)
  BY <1>1, GrownBack
<1>3. \A t \in {1, 2} : /\ Signed(neg, t) \in Int /\ Signed(neg, Signed(neg, t)) > 0
                        /\ Signed(neg, -t) \in Int /\ Signed(neg, Signed(neg, -t)) < 0
  BY DEF Signed
<1>4. \A dest : HardTurns(dest, old, g, neg, d)
  BY HardSides
<1>5. g \in {"RNDN", "RNDNA"} <=> g2 = "RNDN"
  BY DEF Asked, RoundingDirections
<1>6. CASE g2 = "RNDN" /\ 2 * r2 = u2 /\ q2 % 2 = 1
  <2>1. dec.up = TRUE /\ dec.dir = 2
    BY <1>6 DEF Decides, Decision, EvenInex
  <2>2. up <=> d >= 0
    BY <1>5, <1>6 DEF ChosenUp
  <2>3. Grown(neg, x, q2, q, dec.up) = Succ(neg, x, q2, q)
    BY <2>1 DEF Grown
  <2> DEFINE dest == Succ(neg, x, q2, q)
  <2>4. CASE d < 0
    <3>1. /\ HardBack(dest, 2, old, g, neg) = NextToZero(dest, EMin, EMax)
          /\ HardInex(2, old, g, neg) = Signed(neg, -2)
      BY <1>5, <1>6, <2>4, <1>4 DEF HardTurns
    <3>2. ~ up
      BY <2>2, <2>4
    <3> QED
      BY <1>2, <1>3, <1>4, <2>1, <2>3, <3>1, <3>2 DEF Grown, HardGone
  <2>5. CASE d >= 0
    <3>1. /\ HardBack(dest, 2, old, g, neg) = dest
          /\ HardInex(2, old, g, neg) = Signed(neg, 2)
      BY <1>5, <1>6, <2>5, <1>4 DEF HardTurns
    <3>2. up
      BY <2>2, <2>5
    <3> QED
      BY <1>2, <1>3, <1>4, <2>1, <2>3, <3>1, <3>2 DEF Grown, HardGone
  <2> QED
    BY <2>4, <2>5
<1>7. CASE g2 = "RNDN" /\ 2 * r2 = u2 /\ q2 % 2 # 1
  <2>1. dec.up = FALSE /\ dec.dir = -2
    BY <1>7 DEF Decides, Decision, EvenInex
  <2>2. up <=> (g = "RNDN" /\ d > 0) \/ (g = "RNDNA" /\ d >= 0)
    BY <1>5, <1>7 DEF ChosenUp
  <2>3. Grown(neg, x, q2, q, dec.up) = Num(neg, x, q2, q)
    BY <2>1 DEF Grown
  <2> DEFINE dest == Num(neg, x, q2, q)
  <2>4. CASE up
    <3>1. /\ HardBack(dest, -2, old, g, neg) = NextToInf(dest, EMin, EMax)
          /\ HardInex(-2, old, g, neg) = Signed(neg, 2)
      BY <2>2, <2>4, <1>4 DEF HardTurns
    <3> QED
      BY <1>2, <1>3, <1>4, <2>1, <2>3, <2>4, <3>1 DEF Grown, HardGone
  <2>5. CASE ~ up
    <3>1. (g = "RNDN" /\ d <= 0) \/ (g = "RNDNA" /\ d < 0)
      BY <1>5, <1>7, <2>2, <2>5
    <3>2. /\ HardBack(dest, -2, old, g, neg) = dest
          /\ HardInex(-2, old, g, neg) = Signed(neg, -2)
      BY <3>1, <1>4 DEF HardTurns
    <3> QED
      BY <1>2, <1>3, <1>4, <2>1, <2>3, <2>5, <3>2 DEF Grown, HardGone
  <2> QED
    BY <1>4, <2>4, <2>5
<1>8. CASE ~ (g2 = "RNDN" /\ 2 * r2 = u2)
  <2>1. GoesUp(q2, r2, u2, g2, neg) <=> up
    BY <1>8 DEF GoesUp, ChosenUp, Away, Asked, RoundingDirections
  <2>2. CASE up
    <3>1. dec.up = TRUE /\ dec.dir = 1
      BY <1>8, <2>1, <2>2 DEF Decides, AddOneUlp, Decision
    <3>2. Grown(neg, x, q2, q, dec.up) = Grown(neg, x, q2, q, up)
      BY <1>4, <2>2, <3>1 DEF Grown
    <3>3. /\ HardBack(Grown(neg, x, q2, q, up), 1, old, g, neg) = Grown(neg, x, q2, q, up)
          /\ HardInex(1, old, g, neg) = Signed(neg, 1)
      BY <1>4 DEF HardTurns
    <3> QED
      BY <1>3, <1>4, <2>2, <3>1, <3>2, <3>3 DEF HardGone
  <2>3. CASE ~ up
    <3>1. dec.up = FALSE /\ dec.dir = -1
      BY <1>8, <2>1, <2>3 DEF Decides, Decision
    <3>2. Grown(neg, x, q2, q, dec.up) = Grown(neg, x, q2, q, up)
      BY <1>4, <2>3, <3>1 DEF Grown
    <3>3. /\ HardBack(Grown(neg, x, q2, q, up), -1, old, g, neg) = Grown(neg, x, q2, q, up)
          /\ HardInex(-1, old, g, neg) = Signed(neg, -1)
      BY <1>4 DEF HardTurns
    <3> QED
      BY <1>3, <1>4, <2>3, <3>1, <3>2, <3>3 DEF HardGone
  <2> QED
    BY <1>4, <2>2, <2>3
<1> QED
  BY <1>6, <1>7, <1>8

\* mpfr_subnormalize from what its second rounding s returns.
HardFrom(s, old, g, neg, x, q, p) ==
  Return([HardBack(Num(neg, x + s.carry, s.mant, q), s.dir, old, g, neg)
            EXCEPT !.mant = @ * 2^(p - q), !.prec = p],
         HardInex(s.dir, old, g, neg), {})

\* mpfr_subnormalize on a number with EXP > emin, from its rounding.
LEMMA HardFromIs ==
  ASSUME NEW x \in Int, NEW m, NEW p, NEW q, q = x - EMin + 1, NEW neg, NEW old, NEW g
  PROVE  SubnormalizeHard(Num(neg, x, m, p), old, g)
           = HardFrom(RndRawEven(m, p, q, Asked(g), neg), old, g, neg, x, q, p)
<1> DEFINE y == Num(neg, x, m, p)
           s == RndRawEven(m, p, q, Asked(g), neg)
<1>1. y.mant = m /\ y.prec = p /\ y.exp = x /\ y.neg = neg
  BY DEF Num
<1> HIDE DEF y
<1>2. y.exp - EMin + 1 = q
  BY <1>1
<1>3. SubnormalizeHard(y, old, g) = HardFrom(s, old, g, neg, x, q, p)
  BY <1>1, <1>2 DEF SubnormalizeHard, HardFrom, HardBack, HardInex, Asked
<1> QED
  BY <1>3 DEF y, s

\* It makes the right choice: corrected after a tie that is none.
LEMMA HardChooses ==
  ASSUME NEW g \in RoundingDirections, NEW neg \in BOOLEAN, NEW old \in Int, NEW d \in Int,
         Signed(neg, old) > 0 <=> d < 0, Signed(neg, old) < 0 <=> d > 0,
         NEW q \in Nat, q > 0, NEW p \in Nat, q < p, NEW m \in Nat, IsSignificand(m, p),
         NEW u2 \in Nat, NEW q2 \in Nat, NEW r2 \in Nat, Cut(m, p, q, u2, q2, r2), r2 # 0,
         NEW x \in Int, q = x - EMin + 1, x # EMax,
         NEW up \in BOOLEAN, up <=> ChosenUp(g, neg, q2, r2, u2, d)
  PROVE  HardIs(SubnormalizeHard(Num(neg, x, m, p), old, g), neg, x, q2, q, p, up)
<1> DEFINE g2 == Asked(g)
           s == RndRawEven(m, p, q, g2, neg)
           o == SubnormalizeHard(Num(neg, x, m, p), old, g)
<1>1. g2 \in Rnds /\ g2 # "RNDF"
  BY DEF Asked, RoundingDirections, Rnds
<1>2. EvenStep(m, p, q, g2, neg, q2, r2, u2)
  BY <1>1, EvenChooses
<1>3. o = HardFrom(s, old, g, neg, x, q, p)
  BY HardFromIs
<1>4. IsSignificand(q2, q)
  BY CutIs
<1>5. EMin \in Int /\ x + 1 # EMin
  <2>1. EMin \in Int
    BY RangesAre
  <2> QED
    BY <2>1
<1> HIDE DEF g2, s, o
<1>6. PICK dec : s = Significand(q2, q, dec) /\ Decides(dec, g2, neg, q2, r2, u2)
  BY <1>1, <1>2 DEF EvenStep, Decides, s
<1>7. g2 = Asked(g)
  BY DEF g2
<1>8. HardGone(dec, old, g, neg, x, q2, q, up)
  BY <1>4, <1>5, <1>6, <1>7, HardGoes
<1>9. s.dir = dec.dir
  <2>1. Significand(q2, q, dec).dir = dec.dir
    BY DEF Significand
  <2> QED
    BY <1>6, <2>1
<1>10. Num(neg, x + s.carry, s.mant, q) = Grown(neg, x, q2, q, dec.up)
  <2>1. dec.up \in BOOLEAN
    BY <1>8 DEF HardGone
  <2> QED
    BY <1>4, <1>6, <2>1, GrownFrom
<1>11. o = Return([Grown(neg, x, q2, q, up) EXCEPT !.mant = @ * 2^(p - q), !.prec = p],
                  HardInex(dec.dir, old, g, neg), {})
  BY <1>3, <1>8, <1>9, <1>10, Zenon DEF HardFrom, HardGone
<1> QED
  BY <1>8, <1>11 DEF HardIs, HardGone, o

\* The same number with more bits, as a record.
Padded(n, p, w) == [n EXCEPT !.mant = @ * w, !.prec = p]

\* The bits that are left to a subnormal number.
BitsLeft(q, x) == q = x - EMin + 1

\* Nothing is rounded: all the last bits are zero, or the rounding is a truncation.
LEMMA HardTruncates ==
  ASSUME NEW g \in RoundingDirections \cup {"RNDF"}, NEW neg \in BOOLEAN, NEW old,
         NEW q \in Nat, q > 0, NEW p \in Nat, q < p, NEW m \in Nat, IsSignificand(m, p),
         NEW u2 \in Nat, NEW q2 \in Nat, NEW r2 \in Nat, Cut(m, p, q, u2, q2, r2),
         r2 = 0 \/ g = "RNDF", g = "RNDF" => old = 0,
         NEW x \in Int, BitsLeft(q, x)
  PROVE  SubnormalizeHard(Num(neg, x, m, p), old, g)
           = Return(Padded(Num(neg, x, q2, q), p, 2^(p - q)), old, {})
<1> DEFINE g2 == Asked(g)
           s == RndRawEven(m, p, q, g2, neg)
           o == SubnormalizeHard(Num(neg, x, m, p), old, g)
<1>1. g2 \in Rnds /\ (g = "RNDF" => g2 = "RNDF")
  BY DEF Asked, RoundingDirections, Rnds
<1>2. o = HardFrom(s, old, g, neg, x, q, p)
  BY HardFromIs DEF BitsLeft
<1> HIDE DEF g2
<1>3. s.mant = q2 /\ s.carry = 0 /\ s.dir = 0
  <2>1. CASE r2 = 0
    <3>1. \A middle : LET t == RndRawGen(m, p, q, g2, neg, middle) IN
                      t.mant = q2 /\ t.carry = 0 /\ t.dir = 0
      BY <1>1, <2>1, NothingLeft
    <3> QED
      BY <3>1 DEF RndRawEven
  <2>2. CASE r2 # 0
    <3>1. g2 = "RNDF"
      BY <1>1, <2>2
    <3>2. EvenStep(m, p, q, g2, neg, q2, r2, u2)
      BY <1>1, <2>2, EvenChooses
    <3>3. s = Significand(q2, q, TruncDoit)
      BY <3>1, <3>2 DEF EvenStep
    <3>4. IsSignificand(q2, q)
      BY CutIs
    <3>5. LET t == Significand(q2, q, TruncDoit) IN t.mant = q2 /\ t.carry = 0 /\ t.dir = 0
      BY <3>4, TruncatedIs
    <3> HIDE DEF s
    <3> QED
      BY <3>3, <3>5
  <2> QED
    BY <2>1, <2>2
<1> HIDE DEF s, o
<1>4. \A dest : HardBack(dest, 0, old, g, neg) = dest /\ HardInex(0, old, g, neg) = old
  <2>1. Signed(neg, 0) = 0
    BY SignedTwice
  <2> QED
    BY <2>1 DEF HardBack, HardInex, EvenInex
<1>5. Num(neg, x + s.carry, s.mant, q) = Num(neg, x, q2, q)
  BY <1>3
<1>6. o = Return([Num(neg, x, q2, q) EXCEPT !.mant = @ * 2^(p - q), !.prec = p], old, {})
  BY <1>2, <1>3, <1>4, <1>5, Zenon DEF HardFrom
<1> QED
  BY <1>6 DEF o, Padded

\* What mpfr_subnormalize delivers: a number that stands for V, and its ternary value.
SubOutcome(o, p, X, V, neg) ==
  /\ StandsFor(o.y, p, Scale, V)
  /\ Fits(o.y)
  /\ SignOf(o.inex) = Ternary(V, X, neg)

\* The number that a step of mpfr_subnormalize returns is the one it delivers.
LEMMA LeftNumber ==
  ASSUME NEW neg, NEW x \in Int, EMin <= x, NEW m, NEW p \in Nat, x < EMin + p - 1,
         NEW old, NEW g, NEW a, NEW t, NEW f,
         x = EMin => SubnormalizeAtEMin(Num(neg, x, m, p), old, g) = Return(a, t, f),
         x # EMin => SubnormalizeHard(Num(neg, x, m, p), old, g) = Return(a, t, f)
  PROVE  LET o == Subnormalized(Num(neg, x, m, p), old, g) IN o.y = a /\ o.inex = t
<1> DEFINE y == Num(neg, x, m, p)
           s == Return(a, t, f)
           o == Subnormalized(y, old, g)
<1>1. y.kind = "num" /\ y.prec = p /\ y.exp = x
  BY DEF Num
<1>2. EMin \in Int
  BY RangesAre
<1> HIDE DEF y, s
<1>3. /\ x = EMin => SubnormalizeAtEMin(y, old, g) = s
      /\ x # EMin => SubnormalizeHard(y, old, g) = s
  BY DEF y, s
<1> DEFINE h == IF y.exp = EMin THEN SubnormalizeAtEMin(y, old, g) ELSE SubnormalizeHard(y, old, g)
<1>7. h = s
  <2>1. CASE x = EMin
    BY <2>1, <1>1, <1>3, Zenon
  <2>2. CASE x # EMin
    BY <2>2, <1>1, <1>3, Zenon
  <2> QED
    BY <2>1, <2>2
<1>8. o = [h EXCEPT !.raised = @ \cup {"underflow"}]
  <2> HIDE DEF h
  <2>1. o = CASE IsSingular(y) -> Return(y, old, {})
              [] y.kind = "num" /\ y.exp >= EMin + y.prec - 1 -> Return(y, old, {})
              [] OTHER -> [h EXCEPT !.raised = @ \cup {"underflow"}]
    BY Zenon DEF Subnormalized, h
  <2>2. ~ IsSingular(y) /\ ~ (y.exp >= EMin + y.prec - 1)
    BY <1>1, <1>2 DEF IsSingular
  <2> HIDE DEF o
  <2> QED
    BY <2>1, <2>2
<1>4. o = [s EXCEPT !.raised = @ \cup {"underflow"}]
  BY <1>7, <1>8, Zenon
<1>5. s.y = a /\ s.inex = t /\ [s EXCEPT !.raised = @ \cup {"underflow"}].y = a
      /\ [s EXCEPT !.raised = @ \cup {"underflow"}].inex = t
  BY DEF Return, s
<1>6. o.y = a /\ o.inex = t
  <2> HIDE DEF o
  <2> QED
    BY <1>4, <1>5, Zenon
<1> QED
  BY <1>6 DEF o, y

\* Padding a number with zeros.
LEMMA PaddedNumber ==
  ASSUME NEW neg, NEW z, NEW k, NEW q, NEW p, NEW w
  PROVE  Padded(Num(neg, z, k, q), p, w) = Num(neg, z, k * w, p)
<1> DEFINE y == Num(neg, z, k, q)
           y1 == [y EXCEPT !.mant = @ * w]
<1>1. NumberIs(y, "num", neg, z, k, q)
  BY DEF NumberIs, Num
<1>2. NumberIs(y1, "num", neg, z, k * w, q)
  BY <1>1 DEF NumberIs
<1> HIDE DEF y1
<1>3. NumberIs([y1 EXCEPT !.prec = p], "num", neg, z, k * w, p)
  BY <1>2, PrecSet
<1> QED
  BY <1>3, Zenon DEF NumberIs, Num, Padded, y1

\* Grown is a number with q bits that represents V.
GrownNumber(n, neg, q, V) ==
  \E k, z \in Int : /\ n = Num(neg, z, k, q)
                    /\ Represents(k, q, z + Scale, V)
                    /\ EMin <= z /\ z <= EMax

\* The two numbers the second rounding chooses from.
LEMMA GrownRepresents ==
  ASSUME NEW q \in Nat, q > 0, NEW X, NEW q2 \in Nat, NEW r2 \in Nat,
         NEW u2 \in Nat, NEW d \in Int, NEW neg, NEW K \in Int, NEW Kp \in Int, NEW Km \in Int,
         NEW x \in Int, EMin <= x, x + 1 <= EMax, IsSignificand(q2, q),
         Candidates(X, q, x + Scale, q2, r2, u2, d, neg, K, Kp, Km), r2 # 0,
         NEW up \in BOOLEAN
  PROVE  GrownNumber(Grown(neg, x, q2, q, up), neg, q, IF up THEN Kp ELSE K)
<1>1. EMin \in Int /\ EMax \in Int /\ Scale \in Nat
  BY RangesAre
<1>2. CASE ~ up
  <2>1. Grown(neg, x, q2, q, up) = Num(neg, x, q2, q)
    BY <1>2 DEF Grown
  <2>2. Represents(q2, q, x + Scale, K)
    BY DEF Candidates
  <2>3. x <= EMax
    BY <1>1
  <2>4. GrownNumber(Num(neg, x, q2, q), neg, q, K)
    BY <2>2, <2>3 DEF GrownNumber
  <2> QED
    BY <1>2, <2>1, <2>4, Zenon
<1>3. CASE up
  <2>1. Grown(neg, x, q2, q, up) = Succ(neg, x, q2, q)
    BY <1>3 DEF Grown
  <2>2. GrownNumber(Succ(neg, x, q2, q), neg, q, Kp)
    <3>1. CASE q2 + 1 < 2^q
      <4>1. Succ(neg, x, q2, q) = Num(neg, x, q2 + 1, q)
        BY <3>1 DEF Succ
      <4>2. Represents(q2 + 1, q, x + Scale, Kp)
        BY <3>1 DEF Candidates
      <4>3. x <= EMax
        BY <1>1
      <4>4. GrownNumber(Num(neg, x, q2 + 1, q), neg, q, Kp)
        BY <4>2, <4>3 DEF GrownNumber
      <4> QED
        BY <4>1, <4>4, Zenon
    <3>2. CASE q2 + 1 = 2^q
      <4>1. Succ(neg, x, q2, q) = Num(neg, x + 1, 2^(q - 1), q)
        <5>1. ~ (q2 + 1 < 2^q)
          BY <3>2
        <5> QED
          BY <5>1, Zenon DEF Succ
      <4>2. Represents(2^(q - 1), q, (x + Scale) + 1, Kp)
        BY <3>2 DEF Candidates
      <4>3. x + 1 \in Int /\ EMin <= x + 1 /\ (x + Scale) + 1 = (x + 1) + Scale
        BY <1>1
      <4>4. Represents(2^(q - 1), q, (x + 1) + Scale, Kp)
        BY <4>2, <4>3, Zenon
      <4>5. 2^(q - 1) \in Int
        BY PowHalf, PowNat
      <4>6. GrownNumber(Num(neg, x + 1, 2^(q - 1), q), neg, q, Kp)
        BY <4>3, <4>4, <4>5 DEF GrownNumber
      <4> QED
        BY <4>1, <4>6, Zenon
    <3>3. q2 + 1 < 2^q \/ q2 + 1 = 2^q
      BY PowNat DEF IsSignificand
    <3> QED
      BY <3>1, <3>2, <3>3
  <2> QED
    BY <1>3, <2>1, <2>2, Zenon
<1> QED
  BY <1>2, <1>3

\* The same with the bits of p.
LEMMA GrownStandsFor ==
  ASSUME NEW p \in Nat, NEW q \in Nat, q > 0, q < p, NEW neg, NEW n, NEW V,
         GrownNumber(n, neg, q, V)
  PROVE  StandsFor(Padded(n, p, 2^(p - q)), p, Scale, V) /\ Fits(Padded(n, p, 2^(p - q)))
<1> DEFINE y == Padded(n, p, 2^(p - q))
<1>1. PICK k, z \in Int : /\ n = Num(neg, z, k, q)
                          /\ Represents(k, q, z + Scale, V)
                          /\ EMin <= z /\ z <= EMax
  BY DEF GrownNumber
<1>2. y = Num(neg, z, k * 2^(p - q), p)
  <2>1. Padded(Num(neg, z, k, q), p, 2^(p - q)) = Num(neg, z, k * 2^(p - q), p)
    BY PaddedNumber
  <2> QED
    BY <1>1, <2>1, Zenon
<1>3. Represents(k * 2^(p - q), p, z + Scale, V)
  BY <1>1, RepresentsPadded
<1> HIDE DEF y
<1>4. StandsFor(y, p, Scale, V) /\ Fits(y)
  BY <1>1, <1>2, <1>3 DEF StandsFor, Fits, Num
<1> QED
  BY <1>4 DEF y

\* The second rounding drops nothing: it finds the number it was given.
LEMMA CutRepresents ==
  ASSUME NEW q \in Nat, q > 0, NEW p \in Nat, q <= p, NEW m, NEW f, NEW Y, Represents(m, p, f, Y),
         NEW u2 \in Nat, NEW q2 \in Nat, NEW r2 \in Nat, Cut(m, p, q, u2, q2, r2), r2 = 0
  PROVE  Represents(q2, q, f, Y)
<1>1. m \in Nat /\ IsSignificand(m, p) /\ f \in Nat /\ Y \in Nat /\ m * 2^f = Y * 2^p
  BY DEF Represents, IsSignificand
<1>2. IsSignificand(q2, q) /\ 2^p = 2^q * u2
  BY <1>1, CutIs
<1>3. m = q2 * u2 /\ u2 > 0
  BY DEF Cut
<1> DEFINE F == 2^f
           Q == 2^q
<1>4. F \in Nat /\ Q \in Nat
  BY <1>1, PowNat
<1>5. (q2 * u2) * F = Y * (Q * u2)
  BY <1>1, <1>2, <1>3, Zenon
<1> HIDE DEF F, Q
<1>6. q2 * F = Y * Q
  <2>1. (q2 * F) * u2 = (Y * Q) * u2
    BY <1>1, <1>4, <1>5
  <2>2. q2 * F \in Int /\ Y * Q \in Int
    BY <1>1, <1>4
  <2> HIDE <1>5
  <2> DEFINE a == q2 * F
             b == Y * Q
  <2> HIDE DEF a, b
  <2>3. a * u2 = b * u2 /\ a \in Int /\ b \in Int
    BY <2>1, <2>2 DEF a, b
  <2>4. a = b
    BY <1>3, <2>3, MulCancel
  <2> QED
    BY <2>4 DEF a, b
<1> QED
  BY <1>1, <1>2, <1>6 DEF Represents, F, Q

\* Where a rounded number stands.
LEMMA PlaceOfRounded ==
  ASSUME NEW p \in Precs, NEW e \in 1..MaxBits, e < MaxBits, NEW X, HasLength(X, e),
         NEW g, NEW neg \in BOOLEAN, NEW x \in Int, EMin <= x, NEW m,
         Represents(m, p, x + Scale, RoundTo(X, p, g, neg))
  PROVE  /\ x + Scale \in 1..MaxBits /\ HasLength(RoundTo(X, p, g, neg), x + Scale)
         /\ x + Scale = e \/ (x + Scale = e + 1 /\ RoundTo(X, p, g, neg) = 2^e /\ m = 2^(p - 1))
<1> DEFINE Y == RoundTo(X, p, g, neg)
           f == x + Scale
<1>1. p \in Nat /\ p > 0
  BY PrecisionsAre
<1> HIDE DEF Y
<1>2. HasLength(Y, f)
  BY <1>1, RepresentsLength DEF Y
<1>3. f \in 1..MaxBits /\ (f = e \/ (f = e + 1 /\ Y = 2^e))
  BY <1>1, <1>2, RoundedLengthIs DEF Y
<1>4. CASE f = e + 1 /\ Y = 2^e
  <2>1. Represents(2^(p - 1), p, e + 1, 2^e)
    <3>1. e + 1 \in Nat /\ e + 1 > 0 /\ (e + 1) - 1 = e
      OBVIOUS
    <3>2. Represents(2^(p - 1), p, e + 1, 2^((e + 1) - 1))
      BY <1>1, <3>1, PowerRepresents
    <3> QED
      BY <3>1, <3>2, Zenon
  <2>2. Represents(m, p, e + 1, 2^e)
    BY <1>4 DEF Y
  <2>3. m = 2^(p - 1)
    BY <1>1, <2>1, <2>2, RepresentsUnique
  <2> QED
    BY <1>2, <1>3, <1>4, <2>3 DEF Y
<1> QED
  BY <1>2, <1>3, <1>4 DEF Y

\* Above the subnormal numbers, the first rounding is the one that is due.
LEMMA NormalExpected ==
  ASSUME NEW p \in Precs, NEW e \in 1..MaxBits, e < MaxBits, NEW X, HasLength(X, e),
         NEW g \in RoundingDirections, NEW neg \in BOOLEAN, NEW x \in Int, EMin + p - 1 <= x, NEW m,
         Represents(m, p, x + Scale, RoundTo(X, p, g, neg))
  PROVE  SubExpected(X, p, g, neg) = RoundTo(X, p, g, neg)
<1> DEFINE Y == RoundTo(X, p, g, neg)
           E == EMin + Scale
<1>1. p \in Nat /\ p > 0 /\ EMin \in Int /\ Scale \in Nat /\ E \in Nat /\ E >= 2
  BY PrecisionsAre, RangesAre
<1>2. EMin <= x
  BY <1>1
<1>3. x + Scale = e \/ (x + Scale = e + 1 /\ Y = 2^e)
  BY <1>2, PlaceOfRounded
<1> HIDE DEF Y, E
<1>4. /\ e - p <= E - 1 => SubExpected(X, p, g, neg) = RoundToMultiple(X, 2^(E - 1), g, neg)
      /\ e - p >= E - 1 => SubExpected(X, p, g, neg) = Y
  BY SubExpectedIs DEF Y, E
<1>5. CASE e - p >= E - 1
  BY <1>4, <1>5 DEF Y
<1>6. CASE e - p < E - 1
  <2>1. e = (p - 1) + (E - 1) /\ Y = 2^e /\ p - 1 \in Nat /\ E - 1 \in Nat
    BY <1>1, <1>3, <1>6 DEF E
  <2>2. 2^((p - 1) + (E - 1)) = 2^(p - 1) * 2^(E - 1)
    BY <2>1, PowAdd
  <2>3. IsProduct(Y, 2^(p - 1), 2^(E - 1)) /\ 2^(p - 1) \in Nat
    <3>1. Y = 2^(p - 1) * 2^(E - 1)
      BY <2>1, <2>2, Zenon
    <3> QED
      BY <2>1, <3>1, PowNat DEF IsProduct
  <2>4. e - p <= E - 1
    BY <1>1, <1>6
  <2>5. RoundToMultiple(X, 2^(E - 1), g, neg) = Y
    BY <1>1, <2>3, <2>4, UnitRounds DEF Y
  <2> QED
    BY <1>4, <2>4, <2>5 DEF Y
<1> QED
  BY <1>1, <1>5, <1>6

\* Among the subnormal numbers, when the second rounding drops nothing.
LEMMA ExactExpected ==
  ASSUME NEW p \in Precs, NEW e \in 1..MaxBits, e < MaxBits, NEW X, HasLength(X, e),
         NEW g \in RoundingDirections, NEW neg \in BOOLEAN, NEW x \in Int, EMin <= x, x < EMin + p - 1,
         NEW m, Represents(m, p, x + Scale, RoundTo(X, p, g, neg)),
         NEW q, q = x - EMin + 1,
         NEW u2 \in Nat, NEW q2 \in Nat, NEW r2 \in Nat, Cut(m, p, q, u2, q2, r2), r2 = 0
  PROVE  /\ Represents(q2, q, x + Scale, RoundTo(X, p, g, neg))
         /\ SubExpected(X, p, g, neg) = RoundTo(X, p, g, neg)
<1> DEFINE Y == RoundTo(X, p, g, neg)
           E == EMin + Scale
           f == x + Scale
<1>1. p \in Nat /\ p > 0 /\ EMin \in Int /\ Scale \in Nat /\ E \in Nat /\ E >= 2
  BY PrecisionsAre, RangesAre
<1>2. q \in Nat /\ q > 0 /\ q < p
  BY <1>1
<1>3. f \in Nat /\ (f = e \/ f = e + 1)
  BY PlaceOfRounded
<1>4. f - q = E - 1 /\ q <= f
  BY <1>1, <1>2
<1> HIDE DEF Y
<1>5. Represents(q2, q, f, Y)
  BY <1>1, <1>2, CutRepresents DEF Y
<1> HIDE DEF f
<1>6. Y = q2 * 2^(f - q)
  BY <1>2, <1>4, <1>5, RepresentsValue
<1>7. IsProduct(Y, q2, 2^(E - 1))
  <2>1. Y = q2 * 2^(E - 1)
    BY <1>4, <1>6, Zenon
  <2> QED
    BY <2>1 DEF IsProduct
<1>8. e - p <= E - 1
  BY <1>1, <1>2, <1>3, <1>4
<1> HIDE DEF E
<1>9. RoundToMultiple(X, 2^(E - 1), g, neg) = Y
  BY <1>1, <1>7, <1>8, UnitRounds DEF Y
<1>10. SubExpected(X, p, g, neg) = RoundToMultiple(X, 2^(E - 1), g, neg)
  BY <1>8, SubExpectedIs DEF E
<1> QED
  BY <1>5, <1>9, <1>10 DEF Y, f

\* When it drops something, the result is the rounding of X to the bits that are left.
LEMMA InexactExpected ==
  ASSUME NEW p \in Precs, NEW e \in 1..MaxBits, e < MaxBits, NEW X, HasLength(X, e),
         NEW g, NEW neg \in BOOLEAN, NEW x \in Int, EMin <= x, x < EMin + p - 1,
         NEW m, Represents(m, p, x + Scale, RoundTo(X, p, g, neg)),
         NEW q, q = x - EMin + 1,
         NEW u2 \in Nat, NEW q2 \in Nat, NEW r2 \in Nat, Cut(m, p, q, u2, q2, r2), r2 # 0
  PROVE  /\ u2 # 1
         /\ \A h \in RoundingDirections : SubExpected(X, p, h, neg) = RoundTo(X, q, h, neg)
         /\ Hesitates(X, RoundTo(X, p, g, neg), q, x + Scale, q2, r2, u2, neg)
<1> DEFINE Y == RoundTo(X, p, g, neg)
           E == EMin + Scale
           f == x + Scale
<1>1. p \in Nat /\ p > 0 /\ EMin \in Int /\ Scale \in Nat /\ E \in Nat /\ E >= 2
  BY PrecisionsAre, RangesAre
<1>2. q \in Nat /\ q > 0 /\ q < p
  BY <1>1
<1>3. f = e \/ m = 2^(p - 1)
  BY PlaceOfRounded
<1>4. m # 2^(p - 1)
  <2>1. SUFFICES ASSUME m = 2^(p - 1) PROVE FALSE
    OBVIOUS
  <2>2. p - 1 = (q - 1) + (p - q) /\ q - 1 \in Nat /\ p - q \in Nat
    BY <1>1, <1>2
  <2>3. 2^((q - 1) + (p - q)) = 2^(q - 1) * 2^(p - q)
    BY <2>2, PowAdd
  <2>4. u2 = 2^(p - q) /\ u2 > 0 /\ r2 < u2 /\ m = q2 * u2 + r2
    BY DEF Cut
  <2>5. m = 2^(q - 1) * u2
    BY <2>1, <2>2, <2>3, <2>4, Zenon
  <2> DEFINE k == 2^(q - 1)
  <2>6. k \in Nat
    BY <2>2, PowNat
  <2> HIDE DEF k
  <2>7. m = k * u2 + 0 /\ m \in Int
    BY <2>5, <2>6 DEF k
  <2>8. m % u2 = 0
    BY <2>4, <2>6, <2>7, DivModUnique
  <2>9. m % u2 = r2
    <3>1. u2 > 0 /\ r2 < u2 /\ m = q2 * u2 + r2 /\ m \in Int
      BY <2>4, <2>7
    <3> QED
      BY <3>1, DivModUnique
  <2> QED
    BY <2>8, <2>9
<1>5. f = e
  BY <1>3, <1>4
<1>6. e - q = E - 1 /\ q < e /\ e - p <= E - 1
  BY <1>1, <1>2, <1>5
<1>7. u2 # 1
  BY DEF Cut
<1>8. \A h \in RoundingDirections : SubExpected(X, p, h, neg) = RoundTo(X, q, h, neg)
  <2>1. SUFFICES ASSUME NEW h \in RoundingDirections PROVE SubExpected(X, p, h, neg) = RoundTo(X, q, h, neg)
    OBVIOUS
  <2> HIDE DEF E
  <2>2. SubExpected(X, p, h, neg) = RoundToMultiple(X, 2^(E - 1), h, neg)
    BY <1>6, SubExpectedIs DEF E
  <2>3. RoundTo(X, q, h, neg) = RoundToMultiple(X, 2^(e - q), h, neg)
    BY <1>2, <1>6, UlpIs
  <2> QED
    BY <1>6, <2>2, <2>3, Zenon
<1>9. Hesitates(X, Y, q, f, q2, r2, u2, neg)
  <2>1. ARounding(X, Y, p, neg)
    BY DEF ARounding
  <2> HIDE DEF Y, f
  <2>2. Represents(m, p, f, Y)
    BY DEF Y, f
  <2> QED
    BY <1>1, <1>2, <2>1, <2>2, Hesitation
<1> QED
  BY <1>7, <1>8, <1>9

\* The number that s returns stands for V, on the side that up tells.
LeftBy(s, neg, p, up, V) ==
  \E a, t : /\ s = Return(a, t, {}) /\ t \in Int
            /\ StandsFor(a, p, Scale, V)
            /\ Fits(a)
            /\ up => Signed(neg, t) > 0
            /\ ~ up => Signed(neg, t) < 0

\* What mpfr_subnormalize leaves of a number with EXP = emin is the candidate chosen.
LEMMA LeftAtEMin ==
  ASSUME NEW p \in Precs, p > 1, NEW X, NEW d \in Int, NEW old \in Int, NEW neg \in BOOLEAN,
         Signed(neg, old) > 0 <=> d < 0, Signed(neg, old) < 0 <=> d > 0,
         NEW m \in Nat, IsSignificand(m, p),
         NEW u2 \in Nat, NEW q2 \in Nat, NEW r2 \in Nat, Cut(m, p, 1, u2, q2, r2), r2 # 0,
         NEW K \in Int, NEW Kp \in Int, NEW Km \in Int,
         Candidates(X, 1, EMin + Scale, q2, r2, u2, d, neg, K, Kp, Km),
         NEW g \in RoundingDirections,
         NEW up \in BOOLEAN, up <=> ChosenUp(g, neg, q2, r2, u2, d)
  PROVE  LeftBy(SubnormalizeAtEMin(Num(neg, EMin, m, p), old, g), neg, p, up, IF up THEN Kp ELSE K)
<1> DEFINE o == SubnormalizeAtEMin(Num(neg, EMin, m, p), old, g)
<1>1. p \in Nat /\ p > 0 /\ EMin \in Int /\ EMax \in Int /\ EMin < EMax /\ Scale \in Nat
  BY PrecisionsAre, RangesAre
<1>2. AtEMinIs(o, old, g, neg, m, p, r2, u2)
  BY <1>1, AtEMinChooses
<1> HIDE DEF o
<1>3. q2 = 1
  <2>1. IsSignificand(q2, 1)
    BY <1>1, CutIs
  <2>2. 2^0 = 1 /\ 2^1 = 2
    <3>1. 2^(0 + 1) = 2 * 2^0
      BY PowSucc
    <3> QED
      BY <3>1, PowZero
  <2> QED
    BY <2>1, <2>2 DEF IsSignificand
<1>4. AtEMinUp(old, g, neg, r2, u2) <=> up
  <2>1. Signed(neg, old) <= 0 <=> d >= 0
    BY SignedTwice
  <2>2. CASE g \in {"RNDN", "RNDNA"}
    <3>1. d > 0 \/ (d = 0 /\ q2 % 2 = 1) <=> d >= 0
      BY <1>3
    <3> QED
      BY <2>1, <2>2, <3>1 DEF AtEMinUp, ChosenUp
  <2>3. CASE g \notin {"RNDN", "RNDNA"}
    <3>1. g \in Rnds \ {"RNDF", "RNDN"}
      BY <2>3 DEF RoundingDirections, Rnds
    <3>2. ~ IsLikeRNDZ(g, neg) <=> Away(g, neg)
      BY <3>1 DEF IsLikeRNDZ, Away, Rnds
    <3> QED
      BY <2>3, <3>2 DEF AtEMinUp, ChosenUp
  <2> QED
    BY <2>2, <2>3
<1>5. Represents(2^(p - 1), p, EMin + Scale, K)
  <2>1. Represents(1, 1, EMin + Scale, K)
    BY <1>3 DEF Candidates
  <2>2. Represents(1 * 2^(p - 1), p, EMin + Scale, K)
    BY <1>1, <2>1, RepresentsPadded
  <2>3. 1 * 2^(p - 1) = 2^(p - 1)
    BY <1>1, PowHalf, PowNat
  <2> QED
    BY <2>2, <2>3, Zenon
<1>6. Represents(2^(p - 1), p, (EMin + 1) + Scale, Kp)
  <2>1. 1 - 1 = 0 /\ q2 + 1 = 2^1
    <3>1. 2^(0 + 1) = 2 * 2^0
      BY PowSucc
    <3> QED
      BY <1>3, <3>1, PowZero
  <2>2. Represents(2^(1 - 1), 1, (EMin + Scale) + 1, Kp)
    BY <2>1 DEF Candidates
  <2>3. (EMin + Scale) + 1 = (EMin + 1) + Scale
    BY <1>1
  <2>4. 2^(1 - 1) = 1
    BY <2>1, PowZero, Zenon
  <2>5. Represents(1, 1, (EMin + 1) + Scale, Kp)
    BY <2>2, <2>3, <2>4, Zenon
  <2>6. Represents(1 * 2^(p - 1), p, (EMin + 1) + Scale, Kp)
    BY <1>1, <2>5, RepresentsPadded
  <2>7. 1 * 2^(p - 1) = 2^(p - 1)
    BY <1>1, PowHalf, PowNat
  <2> QED
    BY <2>6, <2>7, Zenon
<1>7. CASE up
  <2>1. o = Return(SetMin(neg, EMin + 1, p), Signed(neg, 1), {})
    BY <1>2, <1>4, <1>7 DEF AtEMinIs
  <2> DEFINE a == SetMin(neg, EMin + 1, p)
             t == Signed(neg, 1)
  <2>2. StandsFor(a, p, Scale, Kp) /\ Fits(a)
    BY <1>1, <1>6 DEF StandsFor, Fits, SetMin, Num
  <2>3. t \in Int /\ Signed(neg, t) > 0
    BY SignedTwice
  <2> HIDE DEF a, t
  <2>4. o = Return(a, t, {})
    BY <2>1 DEF a, t
  <2>5. LeftBy(o, neg, p, up, Kp)
    BY <1>7, <2>2, <2>3, <2>4 DEF LeftBy
  <2> QED
    BY <1>7, <2>5 DEF o
<1>8. CASE ~ up
  <2>1. o = Return(SetMin(neg, EMin, p), Signed(neg, -1), {})
    BY <1>2, <1>4, <1>8 DEF AtEMinIs
  <2> DEFINE a == SetMin(neg, EMin, p)
             t == Signed(neg, -1)
  <2>2. StandsFor(a, p, Scale, K) /\ Fits(a)
    BY <1>1, <1>5 DEF StandsFor, Fits, SetMin, Num
  <2>3. t \in Int /\ Signed(neg, t) < 0
    BY SignedTwice
  <2> HIDE DEF a, t
  <2>4. o = Return(a, t, {})
    BY <2>1 DEF a, t
  <2>5. LeftBy(o, neg, p, up, K)
    BY <1>8, <2>2, <2>3, <2>4 DEF LeftBy
  <2> QED
    BY <1>8, <2>5 DEF o
<1> QED
  BY <1>7, <1>8

PlaceOf(f, x) == f = x + Scale

\* What the ternary value tells of the side of the exact result.
SidesAre(neg, old, d) ==
  /\ old \in Int /\ d \in Int
  /\ Signed(neg, old) > 0 <=> d < 0
  /\ Signed(neg, old) < 0 <=> d > 0

\* The second rounding of m, of exponent x, drops something.
Drops(p, q, m, x, f, u2, q2, r2) ==
  /\ m \in Nat /\ IsSignificand(m, p)
  /\ q \in Nat /\ q > 0 /\ q < p
  /\ BitsLeft(q, x) /\ PlaceOf(f, x)
  /\ Cut(m, p, q, u2, q2, r2) /\ r2 # 0

LeftWith(s, neg, p, up, K, Kp) ==
  /\ up => LeftBy(s, neg, p, up, Kp)
  /\ ~ up => LeftBy(s, neg, p, up, K)

\* The same of a number with EXP > emin.
LEMMA LeftHard ==
  ASSUME NEW p \in Precs, NEW X, NEW d, NEW old, NEW neg \in BOOLEAN, SidesAre(neg, old, d),
         NEW m, NEW q, NEW u2 \in Nat, NEW q2 \in Nat, NEW r2 \in Nat, NEW x \in Int, NEW f,
         Drops(p, q, m, x, f, u2, q2, r2),
         NEW K \in Int, NEW Kp \in Int, NEW Km \in Int,
         Candidates(X, q, f, q2, r2, u2, d, neg, K, Kp, Km),
         NEW g \in RoundingDirections,
         NEW up \in BOOLEAN, up <=> ChosenUp(g, neg, q2, r2, u2, d)
  PROVE  LeftWith(SubnormalizeHard(Num(neg, x, m, p), old, g), neg, p, up, K, Kp)
<1> DEFINE o == SubnormalizeHard(Num(neg, x, m, p), old, g)
           n == Grown(neg, x, q2, q, up)
           a == Padded(n, p, 2^(p - q))
           V == IF up THEN Kp ELSE K
<1>1. p \in Nat /\ p > 0 /\ EMin \in Int /\ EMax \in Int /\ EMin + p - 1 <= EMax
  BY PrecisionsAre, RangesAre
<1>11. /\ m \in Nat /\ IsSignificand(m, p) /\ q \in Nat /\ q > 0 /\ q < p
       /\ BitsLeft(q, x) /\ PlaceOf(f, x) /\ Cut(m, p, q, u2, q2, r2) /\ r2 # 0
  BY DEF Drops
<1>12. /\ old \in Int /\ d \in Int
       /\ Signed(neg, old) > 0 <=> d < 0
       /\ Signed(neg, old) < 0 <=> d > 0
  BY DEF SidesAre
<1>2. EMin <= x /\ x + 1 <= EMax /\ x # EMax
  BY <1>1, <1>11 DEF BitsLeft
<1>3. IsSignificand(q2, q)
  BY <1>1, <1>11, CutIs
<1>4. HardIs(o, neg, x, q2, q, p, up)
  BY <1>1, <1>2, <1>11, <1>12, HardChooses DEF BitsLeft
<1>5. GrownNumber(n, neg, q, V)
  BY <1>2, <1>3, <1>11, <1>12, GrownRepresents DEF PlaceOf
<1> HIDE DEF o, V
<1>6. PICK t \in Int : /\ o = Return(a, t, {})
                       /\ up => Signed(neg, t) > 0
                       /\ ~ up => Signed(neg, t) < 0
  BY <1>4 DEF HardIs, Padded
<1> HIDE DEF n
<1>7. StandsFor(a, p, Scale, V) /\ Fits(a)
  BY <1>1, <1>5, <1>11, GrownStandsFor
<1> HIDE DEF a
<1>8. LeftBy(o, neg, p, up, V)
  BY <1>6, <1>7 DEF LeftBy
<1> QED
  BY <1>8 DEF o, V, LeftWith

\* What mpfr_subnormalize delivers for a number of the range that is the rounding of X.
LEMMA SubInexact ==
  ASSUME NEW p \in Precs, NEW e \in 1..MaxBits, e < MaxBits, NEW X, HasLength(X, e),
         NEW g \in RoundingDirections, NEW neg \in BOOLEAN, NEW x \in Int, EMin <= x, x < EMin + p - 1,
         NEW m, Represents(m, p, x + Scale, RoundTo(X, p, g, neg)),
         NEW q, BitsLeft(q, x),
         NEW u2 \in Nat, NEW q2 \in Nat, NEW r2 \in Nat, Cut(m, p, q, u2, q2, r2), r2 # 0,
         NEW old \in Int, SignOf(old) = Ternary(RoundTo(X, p, g, neg), X, neg)
  PROVE  SubOutcome(Subnormalized(Num(neg, x, m, p), old, g), p, X, SubExpected(X, p, g, neg), neg)
<1> DEFINE Y == RoundTo(X, p, g, neg)
           d == X - Y
           f == x + Scale
           o == Subnormalized(Num(neg, x, m, p), old, g)
<1>1. p \in Nat /\ p > 0 /\ p > 1 /\ EMin \in Int /\ Scale \in Nat /\ q \in Nat /\ q > 0 /\ q < p
  BY PrecisionsAre, RangesAre DEF BitsLeft
<1>2. X \in Nat /\ Y \in Nat /\ m \in Nat /\ IsSignificand(m, p)
  BY DEF HasLength, Represents, IsSignificand
<1>3. /\ u2 # 1
      /\ SubExpected(X, p, g, neg) = RoundTo(X, q, g, neg)
      /\ Hesitates(X, Y, q, f, q2, r2, u2, neg)
  BY InexactExpected DEF BitsLeft
<1> HIDE DEF Y
<1>4. d \in Int /\ (Signed(neg, old) > 0 <=> d < 0) /\ (Signed(neg, old) < 0 <=> d > 0)
  <2>1. (Signed(neg, old) > 0 <=> Y > X) /\ (Signed(neg, old) < 0 <=> Y < X)
    BY <1>2, TernarySides DEF Y
  <2> QED
    BY <1>2, <2>1
<1>5. PICK K \in Int, Kp \in Int, Km \in Int : Candidates(X, q, f, q2, r2, u2, d, neg, K, Kp, Km)
  BY <1>3 DEF Hesitates
<1> DEFINE up == ChosenUp(g, neg, q2, r2, u2, d)
           V == IF up THEN Kp ELSE K
<1>6. up \in BOOLEAN
  BY DEF ChosenUp, Away
<1> HIDE DEF d
<1>7. Chosen(X, q, g, neg, q2, r2, u2, d, K, Kp)
  BY <1>2, <1>3, <1>4, <1>5, ChosenRounds
<1>8. RoundTo(X, q, g, neg) = V /\ K < X /\ X < Kp
  BY <1>7 DEF Chosen
<1> HIDE DEF up, o
<1>9. up <=> ChosenUp(g, neg, q2, r2, u2, d)
  BY DEF up
<1> DEFINE s == IF x = EMin THEN SubnormalizeAtEMin(Num(neg, x, m, p), old, g)
                ELSE SubnormalizeHard(Num(neg, x, m, p), old, g)
<1>10. LeftBy(s, neg, p, up, V)
  <2>1. CASE x = EMin
    <3>1. q = 1
      BY <1>1, <2>1 DEF BitsLeft
    <3>2. Cut(m, p, 1, u2, q2, r2) /\ Candidates(X, 1, EMin + Scale, q2, r2, u2, d, neg, K, Kp, Km)
      BY <1>5, <2>1, <3>1
    <3>3. LeftBy(SubnormalizeAtEMin(Num(neg, EMin, m, p), old, g), neg, p, up, V)
      BY <1>1, <1>2, <1>4, <1>6, <1>9, <3>2, LeftAtEMin
    <3>4. s = SubnormalizeAtEMin(Num(neg, EMin, m, p), old, g)
      BY <2>1
    <3> HIDE DEF s, V
    <3> QED
      BY <3>3, <3>4, Zenon
  <2>2. CASE x # EMin
    <3>1. LeftBy(SubnormalizeHard(Num(neg, x, m, p), old, g), neg, p, up, V)
      <4> DEFINE h == SubnormalizeHard(Num(neg, x, m, p), old, g)
      <4>4. PlaceOf(f, x)
        BY DEF PlaceOf
      <4>5. LeftWith(h, neg, p, up, K, Kp)
        <5>1. Drops(p, q, m, x, f, u2, q2, r2) /\ SidesAre(neg, old, d)
          BY <1>1, <1>2, <1>4, <4>4 DEF Drops, SidesAre
        <5> HIDE DEF f
        <5> QED
          BY <1>5, <1>6, <1>9, <5>1, LeftHard
      <4>1. /\ up => LeftBy(h, neg, p, up, Kp)
            /\ ~ up => LeftBy(h, neg, p, up, K)
        <5> HIDE DEF h
        <5> QED
          BY <4>5 DEF LeftWith
      <4>2. CASE up
        BY <4>1, <4>2, Zenon
      <4>3. CASE ~ up
        BY <4>1, <4>3, Zenon
      <4> QED
        BY <4>2, <4>3
    <3>2. s = SubnormalizeHard(Num(neg, x, m, p), old, g)
      BY <2>2
    <3> HIDE DEF s, V
    <3> QED
      BY <3>1, <3>2, Zenon
  <2> QED
    BY <2>1, <2>2
<1>11. PICK a, t : /\ s = Return(a, t, {}) /\ t \in Int
                   /\ StandsFor(a, p, Scale, V)
                   /\ Fits(a)
                   /\ up => Signed(neg, t) > 0
                   /\ ~ up => Signed(neg, t) < 0
  BY <1>10 DEF LeftBy
<1>12. o.y = a /\ o.inex = t
  <2>1. x = EMin => SubnormalizeAtEMin(Num(neg, x, m, p), old, g) = Return(a, t, {})
    BY <1>11
  <2>2. x # EMin => SubnormalizeHard(Num(neg, x, m, p), old, g) = Return(a, t, {})
    BY <1>11
  <2> QED
    BY <1>1, <2>1, <2>2, LeftNumber DEF o
<1>13. SignOf(t) = Ternary(V, X, neg)
  <2>1. V \in Int /\ (V > X => up) /\ (V < X => ~ up) /\ V # X
    BY <1>2, <1>6, <1>8
  <2>2. /\ V > X => Signed(neg, t) > 0
        /\ V < X => Signed(neg, t) < 0
        /\ V = X => t = 0
    BY <1>11, <2>1
  <2>3. t \in Int /\ X \in Int
    BY <1>2, <1>11
  <2> HIDE DEF V
  <2> QED
    BY <2>1, <2>2, <2>3, RightSign
<1> HIDE DEF V
<1>14. SubOutcome(o, p, X, V, neg)
  BY <1>11, <1>12, <1>13 DEF SubOutcome
<1> QED
  BY <1>3, <1>8, <1>14 DEF o, V

\* A subnormal number that has no bit to lose stays as it is, whatever the mode.
Kept(o, p, V, old) == StandsFor(o.y, p, Scale, V) /\ Fits(o.y) /\ o.inex = old

\* A number that is already subnormal is returned as it is.
LEMMA KeptExactly ==
  ASSUME NEW p \in Precs, NEW e \in 1..MaxBits, e < MaxBits, NEW X, HasLength(X, e),
         NEW g \in RoundingDirections, NEW neg \in BOOLEAN, NEW x \in Int, EMin <= x, x < EMin + p - 1,
         NEW m, Represents(m, p, x + Scale, RoundTo(X, p, g, neg)),
         NEW q, BitsLeft(q, x),
         NEW u2 \in Nat, NEW q2 \in Nat, NEW r2 \in Nat, Cut(m, p, q, u2, q2, r2), r2 = 0,
         NEW old \in Int, NEW h \in RoundingDirections \cup {"RNDF"}, h = "RNDF" => old = 0
  PROVE  Kept(Subnormalized(Num(neg, x, m, p), old, h), p, RoundTo(X, p, g, neg), old)
<1> DEFINE Y == RoundTo(X, p, g, neg)
           f == x + Scale
           o == Subnormalized(Num(neg, x, m, p), old, h)
<1>1. /\ p \in Nat /\ p > 0 /\ p > 1 /\ EMin \in Int /\ EMax \in Int /\ Scale \in Nat
      /\ q \in Nat /\ q > 0 /\ q < p /\ EMin + p - 1 <= EMax
  BY PrecisionsAre, RangesAre DEF BitsLeft
<1>2. m \in Nat /\ IsSignificand(m, p)
  BY DEF Represents, IsSignificand
<1>3. Represents(q2, q, f, Y)
  BY ExactExpected DEF BitsLeft
<1>4. EMin <= x /\ x <= EMax
  BY <1>1
<1>5. CASE x = EMin
  <2>1. Cut(m, p, 1, u2, q2, r2)
    BY <1>1, <1>5 DEF BitsLeft
  <2>2. AtEMinIs(SubnormalizeAtEMin(Num(neg, EMin, m, p), old, h), old, h, neg, m, p, r2, u2)
    BY <1>1, <1>2, <2>1, AtEMinChooses
  <2>3. SubnormalizeAtEMin(Num(neg, EMin, m, p), old, h) = Return(Num(neg, EMin, m, p), old, {})
    BY <2>2 DEF AtEMinIs
  <2>4. SubnormalizeAtEMin(Num(neg, x, m, p), old, h) = Return(Num(neg, x, m, p), old, {})
    BY <1>5, <2>3, Zenon
  <2> DEFINE a == Num(neg, x, m, p)
  <2>5. StandsFor(a, p, Scale, Y) /\ Fits(a)
    BY <1>4 DEF StandsFor, Fits, Num
  <2>6. o.y = a /\ o.inex = old
    <3>1. x = EMin => SubnormalizeAtEMin(Num(neg, x, m, p), old, h) = Return(a, old, {})
      BY <2>4
    <3>2. x # EMin => SubnormalizeHard(Num(neg, x, m, p), old, h) = Return(a, old, {})
      BY <1>5
    <3> HIDE DEF a
    <3> QED
      BY <1>1, <3>1, <3>2, LeftNumber
  <2> HIDE DEF a, o, Y
  <2>7. Kept(o, p, Y, old)
    BY <2>5, <2>6 DEF Kept
  <2> QED
    BY <2>7 DEF o, Y
<1>6. CASE x # EMin
  <2> DEFINE n == Num(neg, x, q2, q)
             a == Padded(n, p, 2^(p - q))
  <2>1. SubnormalizeHard(Num(neg, x, m, p), old, h) = Return(a, old, {})
    BY <1>1, <1>2, HardTruncates
  <2>2. GrownNumber(n, neg, q, Y)
    <3> HIDE DEF Y
    <3> QED
      BY <1>3, <1>4 DEF GrownNumber
  <2> HIDE DEF n
  <2>3. StandsFor(a, p, Scale, Y) /\ Fits(a)
    BY <1>1, <2>2, GrownStandsFor
  <2>4. o.y = a /\ o.inex = old
    <3>1. x = EMin => SubnormalizeAtEMin(Num(neg, x, m, p), old, h) = Return(a, old, {})
      BY <1>6
    <3>2. x # EMin => SubnormalizeHard(Num(neg, x, m, p), old, h) = Return(a, old, {})
      BY <2>1
    <3> HIDE DEF a
    <3> QED
      BY <1>1, <3>1, <3>2, LeftNumber
  <2> HIDE DEF a, o, Y
  <2>5. Kept(o, p, Y, old)
    BY <2>3, <2>4 DEF Kept
  <2> QED
    BY <2>5 DEF o, Y
<1> QED
  BY <1>5, <1>6

\* It is the result expected.
LEMMA SubExact ==
  ASSUME NEW p \in Precs, NEW e \in 1..MaxBits, e < MaxBits, NEW X, HasLength(X, e),
         NEW g \in RoundingDirections, NEW neg \in BOOLEAN, NEW x \in Int, EMin <= x, x < EMin + p - 1,
         NEW m, Represents(m, p, x + Scale, RoundTo(X, p, g, neg)),
         NEW q, BitsLeft(q, x),
         NEW u2 \in Nat, NEW q2 \in Nat, NEW r2 \in Nat, Cut(m, p, q, u2, q2, r2), r2 = 0,
         NEW old \in Int, SignOf(old) = Ternary(RoundTo(X, p, g, neg), X, neg)
  PROVE  SubOutcome(Subnormalized(Num(neg, x, m, p), old, g), p, X, SubExpected(X, p, g, neg), neg)
<1>1. SubExpected(X, p, g, neg) = RoundTo(X, p, g, neg)
  BY ExactExpected DEF BitsLeft
<1>2. g # "RNDF" /\ g \in RoundingDirections \cup {"RNDF"}
  BY DEF RoundingDirections
<1>3. Kept(Subnormalized(Num(neg, x, m, p), old, g), p, RoundTo(X, p, g, neg), old)
  BY <1>2, KeptExactly
<1> QED
  BY <1>1, <1>3 DEF Kept, SubOutcome

\* A normal number is returned as it is.
LEMMA SubUnchanged ==
  ASSUME NEW neg, NEW x \in Int, NEW m, NEW p \in Nat, EMin + p - 1 <= x, NEW old, NEW g
  PROVE  Subnormalized(Num(neg, x, m, p), old, g) = Return(Num(neg, x, m, p), old, {})
<1> DEFINE y == Num(neg, x, m, p)
           h == IF y.exp = EMin THEN SubnormalizeAtEMin(y, old, g) ELSE SubnormalizeHard(y, old, g)
<1>1. y.kind = "num" /\ y.prec = p /\ y.exp = x
  BY DEF Num
<1>2. EMin \in Int
  BY RangesAre
<1> HIDE DEF y, h
<1>3. Subnormalized(y, old, g) =
        CASE IsSingular(y) -> Return(y, old, {})
          [] y.kind = "num" /\ y.exp >= EMin + y.prec - 1 -> Return(y, old, {})
          [] OTHER -> [h EXCEPT !.raised = @ \cup {"underflow"}]
  BY Zenon DEF Subnormalized, h
<1>4. ~ IsSingular(y) /\ y.exp >= EMin + y.prec - 1
  BY <1>1, <1>2 DEF IsSingular
<1> QED
  BY <1>1, <1>3, <1>4 DEF y

\* mpfr_subnormalize on a number in the exponent range gives the result expected.
LEMMA SubNumber ==
  ASSUME NEW p \in Precs, NEW e \in 1..MaxBits, e < MaxBits, NEW X, HasLength(X, e),
         NEW g \in RoundingDirections, NEW neg \in BOOLEAN, NEW x \in Int, EMin <= x, x <= EMax,
         NEW m, Represents(m, p, x + Scale, RoundTo(X, p, g, neg)),
         NEW old \in Int, SignOf(old) = Ternary(RoundTo(X, p, g, neg), X, neg)
  PROVE  SubOutcome(Subnormalized(Num(neg, x, m, p), old, g), p, X, SubExpected(X, p, g, neg), neg)
<1>1. p \in Nat /\ p > 0 /\ EMin \in Int
  BY PrecisionsAre, RangesAre
<1>2. CASE EMin + p - 1 <= x
  <2> DEFINE o == Subnormalized(Num(neg, x, m, p), old, g)
             Y == RoundTo(X, p, g, neg)
  <2>1. SubExpected(X, p, g, neg) = Y
    BY <1>2, NormalExpected
  <2>2. o = Return(Num(neg, x, m, p), old, {})
    BY <1>1, <1>2, SubUnchanged
  <2>3. StandsFor(Num(neg, x, m, p), p, Scale, Y) /\ Fits(Num(neg, x, m, p))
    BY DEF StandsFor, Fits, Num
  <2> HIDE DEF o, Y
  <2>4. o.y = Num(neg, x, m, p) /\ o.inex = old
    BY <2>2 DEF Return
  <2>5. SubOutcome(o, p, X, Y, neg)
    BY <2>3, <2>4 DEF SubOutcome, Y
  <2> QED
    BY <2>1, <2>5 DEF o
<1>3. CASE x < EMin + p - 1
  <2> DEFINE q == x - EMin + 1
  <2>1. q \in Nat /\ q <= p
    BY <1>1, <1>3
  <2>2. m \in Nat
    BY DEF Represents, IsSignificand
  <2> HIDE DEF q
  <2>3. PICK u2 \in Nat, q2 \in Nat, r2 \in Nat : Cut(m, p, q, u2, q2, r2)
    BY <1>1, <2>1, <2>2, CutExistsUpTo
  <2>4. BitsLeft(q, x)
    BY DEF q, BitsLeft
  <2>5. CASE r2 = 0
    BY <1>3, <2>3, <2>4, <2>5, SubExact
  <2>6. CASE r2 # 0
    BY <1>3, <2>3, <2>4, <2>6, SubInexact
  <2> QED
    BY <2>5, <2>6
<1> QED
  BY <1>1, <1>2, <1>3

\* The least number of the range stays as it is, whatever the mode.
LEMMA SubSetMin ==
  ASSUME NEW p \in Precs, NEW neg \in BOOLEAN, NEW old \in Int, NEW g
  PROVE  LET o == Subnormalized(SetMin(neg, EMin, p), old, g) IN
         o.y = SetMin(neg, EMin, p) /\ o.inex = old
<1> DEFINE m == 2^(p - 1)
           a == Num(neg, EMin, m, p)
           o == Subnormalized(a, old, g)
<1>1. p \in Nat /\ p > 0 /\ EMin \in Int /\ p - 1 \in Nat
  BY PrecisionsAre, RangesAre
<1>2. SetMin(neg, EMin, p) = a
  BY DEF SetMin
<1>3. o.y = a /\ o.inex = old
  <2>1. CASE p = 1
    <3>1. o = Return(a, old, {})
      BY <1>1, <2>1, SubUnchanged
    <3> HIDE DEF o, a
    <3> QED
      BY <3>1 DEF Return
  <2>2. CASE p > 1
    <3>1. m \in Nat /\ m > 0 /\ IsSignificand(m, p)
      <4>1. 2^p = 2 * m /\ m \in Nat /\ m > 0
        BY <1>1, PowHalf, PowNat
      <4> QED
        BY <4>1 DEF IsSignificand
    <3>2. Cut(m, p, 1, m, 1, 0)
      <4>1. m = 1 * m + 0
        BY <3>1
      <4> QED
        BY <3>1, <4>1 DEF Cut
    <3> HIDE DEF m
    <3>3. 1 \in Nat /\ 0 \in Nat
      OBVIOUS
    <3>4. AtEMinIs(SubnormalizeAtEMin(Num(neg, EMin, m, p), old, g), old, g, neg, m, p, 0, m)
      BY <1>1, <2>2, <3>1, <3>2, <3>3, AtEMinChooses
    <3>5. SubnormalizeAtEMin(Num(neg, EMin, m, p), old, g) = Return(a, old, {})
      BY <3>4 DEF AtEMinIs
    <3>6. /\ EMin = EMin => SubnormalizeAtEMin(Num(neg, EMin, m, p), old, g) = Return(a, old, {})
          /\ EMin # EMin => SubnormalizeHard(Num(neg, EMin, m, p), old, g) = Return(a, old, {})
      BY <3>5
    <3>7. EMin < EMin + p - 1 /\ EMin <= EMin
      BY <1>1, <2>2
    <3> QED
      BY <1>1, <3>6, <3>7, LeftNumber
  <2> QED
    BY <1>1, <2>1, <2>2
<1> QED
  BY <1>2, <1>3

\* A zero, an infinity or a NaN is returned as it is.
LEMMA SubSingular ==
  ASSUME NEW y, y.kind # "num", NEW old, NEW g
  PROVE  Subnormalized(y, old, g) = Return(y, old, {})
  BY DEF Subnormalized, IsSingular

\* A number below the range that was brought back to it.
LEMMA SubBelow ==
  ASSUME NEW p \in Precs, NEW X, NEW neg \in BOOLEAN, NEW y, NEW old \in Int, NEW g, NEW V,
         StandsFor(y, p, Scale, V), Fits(y), Plain(y), y.neg = neg,
         V = 0 \/ V = 2^((EMin + Scale) - 1), SignOf(old) = Ternary(V, X, neg)
  PROVE  SubOutcome(Subnormalized(y, old, g), p, X, V, neg)
<1> DEFINE o == Subnormalized(y, old, g)
           E == EMin + Scale
<1>1. /\ p \in Nat /\ p > 0 /\ EMin \in Int /\ Scale \in Nat /\ MaxBits \in Nat
      /\ E \in Nat /\ E >= 2 /\ E - 1 < MaxBits /\ E - 1 \in Nat
  BY PrecisionsAre, RangesAre
<1> HIDE DEF o
<1>2. CASE y.kind # "num"
  <2>1. o = Return(y, old, {})
    BY <1>2, SubSingular DEF o
  <2>2. o.y = y /\ o.inex = old
    BY <2>1 DEF Return
  <2> QED
    BY <2>2 DEF SubOutcome, o
<1>3. CASE y.kind = "num"
  <2> DEFINE x == y.exp
             m == y.mant
  <2>1. y.prec = p /\ Represents(m, p, x + Scale, V)
    BY <1>3 DEF StandsFor
  <2>2. x \in Int /\ y = Num(neg, x, m, p)
    BY <1>3, <2>1 DEF Fits, Plain
  <2>3. HasLength(V, x + Scale)
    <3> HIDE DEF x, m
    <3> QED
      BY <1>1, <2>1, RepresentsLength
  <2>4. V # 0
    <3> DEFINE f == x + Scale
    <3>1. V \in Nat /\ f \in Nat \ {0} /\ 2^(f - 1) <= V
      BY <2>3 DEF HasLength
    <3>2. f - 1 \in Nat
      BY <3>1
    <3>3. 2^(f - 1) \in Nat /\ 2^(f - 1) > 0
      BY <3>2, PowNat
    <3> HIDE DEF f
    <3> QED
      BY <3>1, <3>3
  <2>5. V = 2^(E - 1)
    BY <2>4, Zenon
  <2>6. Represents(2^(p - 1), p, E, V)
    BY <1>1, <2>5, PowerRepresents
  <2>7. m = 2^(p - 1) /\ x + Scale = E
    <3> HIDE DEF E, x, m
    <3> QED
      BY <1>1, <2>1, <2>6, RepresentsUnique
  <2>8. x = EMin
    BY <1>1, <2>2, <2>7
  <2>9. y = SetMin(neg, EMin, p)
    BY <2>2, <2>7, <2>8, Zenon DEF SetMin
  <2>10. o.y = y /\ o.inex = old
    <3>1. Subnormalized(SetMin(neg, EMin, p), old, g).y = SetMin(neg, EMin, p)
          /\ Subnormalized(SetMin(neg, EMin, p), old, g).inex = old
      BY SubSetMin
    <3> QED
      BY <2>9, <3>1, Zenon DEF o
  <2> QED
    BY <2>10 DEF SubOutcome, o
<1> QED
  BY <1>2, <1>3

\* mpfr_subnormalize after a function that delivers the rounding of X.
LEMMA SubDelivers ==
  ASSUME NEW p \in Precs, NEW e \in 1..MaxBits, e < MaxBits, NEW X, HasLength(X, e),
         NEW g \in RoundingDirections, NEW neg \in BOOLEAN, NEW b, Sound(b), Fits(b.y),
         Delivers(b, p, Scale, X, g, neg, EMin + Scale, EMax + Scale),
         ~ Overflows(X, p, g, neg, EMax + Scale)
  PROVE  SubOutcome(Subnormalized(b.y, b.inex, g), p, X, SubExpected(X, p, g, neg), neg)
<1> DEFINE Y == RoundTo(X, p, g, neg)
           E == EMin + Scale
           F == EMax + Scale
           V == CorrectValue(X, p, g, neg, E, F)
           y == b.y
           old == b.inex
<1>1. /\ p \in Nat /\ p > 0 /\ EMin \in Int /\ EMax \in Int /\ Scale \in Nat /\ MaxBits \in Nat
      /\ E \in Nat /\ E >= 2 /\ F \in Nat /\ E <= F /\ F < MaxBits
  BY PrecisionsAre, RangesAre
<1>2. StandsFor(y, p, Scale, V) /\ y.neg = neg /\ SignOf(old) = Ternary(V, X, neg)
  BY DEF Delivers
<1>3. Plain(y) /\ old \in Int
  BY DEF Sound
<1> HIDE DEF E, F
<1>4. PICK n \in 1..MaxBits : HasLength(Y, n) /\ (n = e \/ n = e + 1)
  BY <1>1, RoundedLength
<1>5. ValueFor(X, p, g, neg, E, F, n, V) /\ (n < E => X < 2^(E - 1))
  BY <1>1, <1>4, CorrectValueIs
<1>6. n <= F
  <2>1. BitLength(Y) = n
    BY <1>4, BitLengthIs
  <2> QED
    BY <1>1, <1>4, <2>1 DEF Overflows, F
<1> HIDE DEF V
<1>7. CASE n < E
  <2>1. V = IF GoesUp(0, X, 2^(E - 1), g, neg) THEN 2^(E - 1) ELSE 0
    BY <1>5, <1>7 DEF ValueFor
  <2>2. V = 0 \/ V = 2^((EMin + Scale) - 1)
    BY <2>1 DEF E
  <2>3. SubOutcome(Subnormalized(y, old, g), p, X, V, neg)
    <3> HIDE DEF y, old
    <3>1. Fits(y)
      BY DEF y
    <3> QED
      BY <1>2, <1>3, <2>2, <3>1, SubBelow
  <2>4. SubExpected(X, p, g, neg) = V
    <3>1. X \in Nat /\ X < 2^(E - 1) /\ 2^(E - 1) \in Nat
      <4>1. E - 1 \in Nat
        BY <1>1
      <4> QED
        BY <1>5, <1>7, <4>1, PowNat DEF HasLength
    <3>2. RoundToMultiple(X, 2^(E - 1), g, neg) = V
      BY <2>1, <3>1, BelowUnitRounds
    <3>3. e - p <= E - 1
      BY <1>1, <1>4, <1>7
    <3>4. SubExpected(X, p, g, neg) = RoundToMultiple(X, 2^(E - 1), g, neg)
      BY <3>3, SubExpectedIs DEF E
    <3> QED
      BY <3>2, <3>4
  <2> QED
    BY <2>3, <2>4
<1>8. CASE E <= n
  <2>1. V = Y
    BY <1>5, <1>6, <1>8 DEF ValueFor
  <2>2. Y # 0 /\ Y # Infinity
    <3>1. Y \in Nat /\ n - 1 \in Nat /\ n \in Nat /\ n <= MaxBits /\ 2^(n - 1) <= Y /\ Y < 2^n
      BY <1>1, <1>4 DEF HasLength
    <3>2. 2^(n - 1) \in Nat /\ 2^(n - 1) > 0
      BY <3>1, PowNat
    <3>3. 2^n <= 2^MaxBits /\ 2^n \in Nat /\ 2^MaxBits \in Nat
      BY <1>1, <3>1, PowMonotone, PowNat
    <3> HIDE DEF Y
    <3> QED
      BY <3>1, <3>2, <3>3 DEF Infinity
  <2> DEFINE x == y.exp
             m == y.mant
  <2>3. y.kind = "num" /\ y.prec = p /\ Represents(m, p, x + Scale, Y)
    BY <1>2, <2>1, <2>2 DEF StandsFor
  <2>4. y = Num(neg, x, m, p)
    BY <1>2, <1>3, <2>3 DEF Plain
  <2>5. x \in Int /\ EMin <= x /\ x <= EMax
    BY <2>3 DEF Fits
  <2>6. SignOf(old) = Ternary(Y, X, neg)
    BY <1>2, <2>1
  <2> HIDE DEF x, m, y, old
  <2>7. SubOutcome(Subnormalized(Num(neg, x, m, p), old, g), p, X, SubExpected(X, p, g, neg), neg)
    BY <1>3, <2>3, <2>5, <2>6, SubNumber
  <2>8. SubOutcome(Subnormalized(y, old, g), p, X, SubExpected(X, p, g, neg), neg)
    BY <2>4, <2>7, Zenon
  <2> QED
    BY <2>8 DEF y, old
<1> QED
  BY <1>1, <1>4, <1>7, <1>8

\* A faithful rounding (MPFR_RNDF) to the normal and subnormal numbers.
FaithOutcome(o, p, X, neg) ==
  \E d \in {"RNDZ", "RNDA"} : StandsFor(o.y, p, Scale, SubExpected(X, p, d, neg)) /\ Fits(o.y)

\* After a faithful rounding the result is faithful.
LEMMA SubFaithfulInexact ==
  ASSUME NEW p \in Precs, NEW e \in 1..MaxBits, e < MaxBits, NEW X, HasLength(X, e),
         NEW neg \in BOOLEAN, NEW x \in Int, EMin <= x, x < EMin + p - 1,
         NEW m, Represents(m, p, x + Scale, RoundTo(X, p, "RNDZ", neg)),
         NEW q, BitsLeft(q, x),
         NEW u2 \in Nat, NEW q2 \in Nat, NEW r2 \in Nat, Cut(m, p, q, u2, q2, r2), r2 # 0
  PROVE  FaithOutcome(Subnormalized(Num(neg, x, m, p), 0, "RNDF"), p, X, neg)
<1> DEFINE Y == RoundTo(X, p, "RNDZ", neg)
           d == X - Y
           f == x + Scale
           o == Subnormalized(Num(neg, x, m, p), 0, "RNDF")
<1>1. /\ p \in Nat /\ p > 0 /\ p > 1 /\ EMin \in Int /\ EMax \in Int /\ Scale \in Nat
      /\ q \in Nat /\ q > 0 /\ q < p /\ EMin + p - 1 <= EMax
  BY PrecisionsAre, RangesAre DEF BitsLeft
<1>2. X \in Nat /\ Y \in Nat /\ m \in Nat /\ IsSignificand(m, p) /\ x <= EMax
  BY <1>1 DEF HasLength, Represents, IsSignificand
<1>3. /\ SubExpected(X, p, "RNDZ", neg) = RoundTo(X, q, "RNDZ", neg)
      /\ SubExpected(X, p, "RNDA", neg) = RoundTo(X, q, "RNDA", neg)
      /\ Hesitates(X, Y, q, f, q2, r2, u2, neg)
  BY InexactExpected DEF BitsLeft, RoundingDirections
<1> HIDE DEF Y
<1>4. d \in Int
  BY <1>2
<1> HIDE DEF d
<1>5. PICK K \in Int, Kp \in Int, Km \in Int : Candidates(X, q, f, q2, r2, u2, d, neg, K, Kp, Km)
  BY <1>3 DEF Hesitates, d
<1>6. RoundTo(X, q, "RNDZ", neg) = K /\ RoundTo(X, q, "RNDA", neg) = Kp
  BY <1>5 DEF Candidates, ToOneSide
<1>7. CASE x = EMin
  <2>1. q = 1
    BY <1>1, <1>7 DEF BitsLeft
  <2>2. Cut(m, p, 1, u2, q2, r2) /\ Candidates(X, 1, EMin + Scale, q2, r2, u2, d, neg, K, Kp, Km)
    BY <1>5, <1>7, <2>1
  <2> DEFINE old == Signed(neg, -d)
             s == SubnormalizeAtEMin(Num(neg, EMin, m, p), old, "RNDA")
             up == TRUE
  <2>3. old \in Int /\ (Signed(neg, old) > 0 <=> d < 0) /\ (Signed(neg, old) < 0 <=> d > 0)
    BY <1>4, SignedTwice
  <2> HIDE DEF old
  <2>4. /\ AtEMinIs(s, old, "RNDA", neg, m, p, r2, u2)
        /\ AtEMinIs(SubnormalizeAtEMin(Num(neg, EMin, m, p), 0, "RNDF"), 0, "RNDF", neg, m, p, r2, u2)
    BY <1>1, <1>2, <2>2, <2>3, AtEMinChooses
  <2>5. s = SubnormalizeAtEMin(Num(neg, EMin, m, p), 0, "RNDF")
    <3>1. AtEMinUp(old, "RNDA", neg, r2, u2) /\ AtEMinUp(0, "RNDF", neg, r2, u2)
      BY DEF AtEMinUp, IsLikeRNDZ
    <3> QED
      BY <2>4, <3>1 DEF AtEMinIs
  <2>6. up \in BOOLEAN /\ (up <=> ChosenUp("RNDA", neg, q2, r2, u2, d)) /\ "RNDA" \in RoundingDirections
    BY DEF ChosenUp, Away, RoundingDirections
  <2>7. LeftBy(s, neg, p, up, Kp)
    <3>1. LeftBy(s, neg, p, up, IF up THEN Kp ELSE K)
      <4> HIDE DEF up, s
      <4> QED
        BY <1>1, <1>2, <1>4, <2>2, <2>3, <2>6, LeftAtEMin DEF s
    <3> QED
      BY <3>1
  <2> HIDE DEF up, s
  <2>8. PICK a, t : s = Return(a, t, {}) /\ StandsFor(a, p, Scale, Kp) /\ Fits(a)
    BY <2>7 DEF LeftBy
  <2>9. o.y = a
    <3>1. SubnormalizeAtEMin(Num(neg, x, m, p), 0, "RNDF") = Return(a, t, {})
      BY <1>7, <2>5, <2>8, Zenon
    <3>2. /\ x = EMin => SubnormalizeAtEMin(Num(neg, x, m, p), 0, "RNDF") = Return(a, t, {})
          /\ x # EMin => SubnormalizeHard(Num(neg, x, m, p), 0, "RNDF") = Return(a, t, {})
      BY <1>7, <3>1
    <3> QED
      BY <1>1, <3>2, LeftNumber
  <2> HIDE DEF o
  <2> QED
    BY <1>3, <1>6, <2>8, <2>9 DEF FaithOutcome, o
<1>8. CASE x # EMin
  <2> DEFINE n == Num(neg, x, q2, q)
             a == Padded(n, p, 2^(p - q))
  <2>1. SubnormalizeHard(Num(neg, x, m, p), 0, "RNDF") = Return(a, 0, {})
    BY <1>1, <1>2, HardTruncates
  <2>2. GrownNumber(n, neg, q, K)
    BY <1>2, <1>5 DEF GrownNumber, Candidates
  <2> HIDE DEF n
  <2>3. StandsFor(a, p, Scale, K) /\ Fits(a)
    BY <1>1, <2>2, GrownStandsFor
  <2> HIDE DEF a
  <2>4. o.y = a
    <3>2. /\ x = EMin => SubnormalizeAtEMin(Num(neg, x, m, p), 0, "RNDF") = Return(a, 0, {})
          /\ x # EMin => SubnormalizeHard(Num(neg, x, m, p), 0, "RNDF") = Return(a, 0, {})
      BY <1>8, <2>1
    <3> QED
      BY <1>1, <3>2, LeftNumber
  <2> HIDE DEF o
  <2> QED
    BY <1>3, <1>6, <2>3, <2>4 DEF FaithOutcome, o
<1> QED
  BY <1>7, <1>8

\* The same for every number of the range.
LEMMA SubFaithfulNumber ==
  ASSUME NEW p \in Precs, NEW e \in 1..MaxBits, e < MaxBits, NEW X, HasLength(X, e),
         NEW neg \in BOOLEAN, NEW x \in Int, EMin <= x, x <= EMax,
         NEW m, Represents(m, p, x + Scale, RoundTo(X, p, "RNDZ", neg))
  PROVE  FaithOutcome(Subnormalized(Num(neg, x, m, p), 0, "RNDF"), p, X, neg)
<1> DEFINE o == Subnormalized(Num(neg, x, m, p), 0, "RNDF")
           Y == RoundTo(X, p, "RNDZ", neg)
<1>1. p \in Nat /\ p > 0 /\ EMin \in Int /\ "RNDZ" \in RoundingDirections
  BY PrecisionsAre, RangesAre DEF RoundingDirections
<1>2. CASE EMin + p - 1 <= x
  <2>1. SubExpected(X, p, "RNDZ", neg) = Y
    BY <1>1, <1>2, NormalExpected
  <2>2. o = Return(Num(neg, x, m, p), 0, {})
    BY <1>1, <1>2, SubUnchanged
  <2>3. StandsFor(Num(neg, x, m, p), p, Scale, Y) /\ Fits(Num(neg, x, m, p))
    BY DEF StandsFor, Fits, Num
  <2> HIDE DEF o, Y
  <2>4. o.y = Num(neg, x, m, p)
    BY <2>2 DEF Return
  <2> QED
    BY <2>1, <2>3, <2>4 DEF FaithOutcome, o
<1>3. CASE x < EMin + p - 1
  <2> DEFINE q == x - EMin + 1
  <2>1. q \in Nat /\ q <= p
    BY <1>1, <1>3
  <2>2. m \in Nat
    BY DEF Represents, IsSignificand
  <2> HIDE DEF q
  <2>3. PICK u2 \in Nat, q2 \in Nat, r2 \in Nat : Cut(m, p, q, u2, q2, r2)
    BY <1>1, <2>1, <2>2, CutExistsUpTo
  <2>4. BitsLeft(q, x)
    BY DEF q, BitsLeft
  <2>5. CASE r2 = 0
    <3>1. SubExpected(X, p, "RNDZ", neg) = Y
      BY <1>1, <1>3, <2>3, <2>4, <2>5, ExactExpected DEF BitsLeft
    <3>2. "RNDF" \in RoundingDirections \cup {"RNDF"} /\ 0 \in Int
      OBVIOUS
    <3>3. Kept(o, p, Y, 0)
      BY <1>1, <1>3, <2>3, <2>4, <2>5, <3>2, KeptExactly
    <3> HIDE DEF o, Y
    <3> QED
      BY <3>1, <3>3 DEF Kept, FaithOutcome, o
  <2>6. CASE r2 # 0
    BY <1>3, <2>3, <2>4, <2>6, SubFaithfulInexact
  <2> QED
    BY <2>5, <2>6
<1> QED
  BY <1>1, <1>2, <1>3

\* mpfr_subnormalize after a function that rounds faithfully, which mpfr_check_range
\* has brought to the range.
LEMMA SubFaithful ==
  ASSUME NEW p \in Precs, NEW e \in 1..MaxBits, e < MaxBits, NEW X, HasLength(X, e),
         NEW neg \in BOOLEAN, NEW x \in Int, NEW m,
         Represents(m, p, x + Scale, RoundTo(X, p, "RNDZ", neg)),
         NEW b, b = CheckRange(Num(neg, x, m, p), 0, "RNDF", EMin, EMax),
         ~ Overflows(X, p, "RNDA", neg, EMax + Scale)
  PROVE  FaithOutcome(Subnormalized(b.y, b.inex, "RNDF"), p, X, neg)
<1> DEFINE Y == RoundTo(X, p, "RNDZ", neg)
           E == EMin + Scale
           F == EMax + Scale
           z == Num(neg, x, m, p)
<1>1. /\ p \in Nat /\ p > 0 /\ EMin \in Int /\ EMax \in Int /\ EMin < EMax /\ Scale \in Nat
      /\ MaxBits \in Nat /\ E \in Nat /\ E >= 2 /\ F \in Nat
  BY PrecisionsAre, RangesAre
<1>2. z.kind = "num" /\ z.exp = x /\ z.prec = p /\ z.neg = neg
  BY DEF Num
<1>3. x + Scale = e
  <2>1. X \in Nat /\ 2^(e - 1) <= X /\ X < 2^e /\ e \in Nat
    BY DEF HasLength
  <2>2. Y \in Nat /\ 2^(e - 1) <= Y /\ Y <= X
    BY <1>1, RoundToBounds DEF TowardZero
  <2>3. 2^e \in Nat /\ 2^(e - 1) \in Nat
    BY <2>1, PowNat
  <2>4. HasLength(Y, e)
    BY <2>1, <2>2, <2>3 DEF HasLength
  <2>5. HasLength(Y, x + Scale)
    BY <1>1, RepresentsLength
  <2> QED
    BY <2>4, <2>5, LengthUnique
<1>4. e <= F
  <2> DEFINE A == RoundTo(X, p, "RNDA", neg)
  <2>1. PICK n \in 1..MaxBits : HasLength(A, n) /\ (n = e \/ n = e + 1)
    BY <1>1, RoundedLength
  <2>2. BitLength(A) = n
    BY <2>1, BitLengthIs
  <2> QED
    BY <1>1, <2>1, <2>2 DEF Overflows
<1>5. CASE x < EMin
  <2>1. ~ IsLikeRNDZ("RNDF", neg)
    BY DEF IsLikeRNDZ
  <2>2. b = Underflow(p, "RNDF", neg, EMin)
    BY <1>1, <1>2, <1>5 DEF CheckRange
  <2>3. b = Return(SetMin(neg, EMin, p), Signed(neg, 1), {"underflow"})
    BY <2>1, <2>2, Zenon DEF Underflow
  <2>4. b.y = SetMin(neg, EMin, p) /\ b.inex = Signed(neg, 1)
    BY <2>3 DEF Return
  <2>5. Subnormalized(b.y, b.inex, "RNDF").y = SetMin(neg, EMin, p)
    <3>1. Signed(neg, 1) \in Int
      BY DEF Signed
    <3>2. Subnormalized(SetMin(neg, EMin, p), Signed(neg, 1), "RNDF").y = SetMin(neg, EMin, p)
      BY <3>1, SubSetMin
    <3> QED
      BY <2>4, <3>2, Zenon
  <2>6. StandsFor(SetMin(neg, EMin, p), p, Scale, 2^(E - 1)) /\ Fits(SetMin(neg, EMin, p))
    <3>1. Represents(2^(p - 1), p, E, 2^(E - 1))
      BY <1>1, PowerRepresents
    <3> QED
      BY <1>1, <3>1 DEF StandsFor, Fits, SetMin, Num
  <2>7. SubExpected(X, p, "RNDA", neg) = 2^(E - 1)
    <3>1. X \in Nat /\ X > 0 /\ X < 2^(E - 1) /\ 2^(E - 1) \in Nat
      <4>1. e <= E - 1 /\ E - 1 \in Nat /\ e \in Nat /\ e - 1 \in Nat
        BY <1>1, <1>3, <1>5
      <4>2. 2^e <= 2^(E - 1) /\ 2^e \in Nat /\ 2^(E - 1) \in Nat /\ 2^(e - 1) \in Nat /\ 2^(e - 1) > 0
        BY <4>1, PowMonotone, PowNat
      <4>3. X \in Nat /\ 2^(e - 1) <= X /\ X < 2^e
        BY DEF HasLength
      <4> HIDE DEF E
      <4> QED
        BY <4>2, <4>3
    <3>2. RoundToMultiple(X, 2^(E - 1), "RNDA", neg) = 2^(E - 1)
      <4>1. GoesUp(0, X, 2^(E - 1), "RNDA", neg)
        BY <3>1 DEF GoesUp
      <4> HIDE DEF E
      <4> QED
        BY <3>1, <4>1, BelowUnitRounds
    <3>3. e - p <= E - 1
      BY <1>1, <1>3, <1>5
    <3>4. SubExpected(X, p, "RNDA", neg) = RoundToMultiple(X, 2^(E - 1), "RNDA", neg)
      BY <3>3, SubExpectedIs
    <3> QED
      BY <3>2, <3>4
  <2> HIDE DEF E
  <2> QED
    BY <2>5, <2>6, <2>7 DEF FaithOutcome
<1>6. CASE EMin <= x
  <2>1. x <= EMax
    BY <1>1, <1>3, <1>4
  <2>2. b = Return(z, 0, {})
    <3>1. b = CheckRange(z, 0, "RNDF", EMin, EMax)
      OBVIOUS
    <3>2. CheckRange(z, 0, "RNDF", EMin, EMax) = Return(z, 0, {})
      <4> HIDE DEF z
      <4> QED
        BY <1>1, <1>2, <1>6, <2>1 DEF CheckRange
    <3> QED
      BY <3>1, <3>2
  <2>3. b.y = z /\ b.inex = 0
    BY <2>2 DEF Return
  <2>4. FaithOutcome(Subnormalized(z, 0, "RNDF"), p, X, neg)
    BY <1>6, <2>1, SubFaithfulNumber
  <2> QED
    BY <2>3, <2>4, Zenon
<1> QED
  BY <1>1, <1>5, <1>6

\* What mpfr_subnormalize sees is what it should.
SubRight(b) ==
  IF rnd = "RNDF"
  THEN FaithOutcome(Subnormalized(b.y, b.inex, rnd), prec, exact.x, exact.neg)
  ELSE SubOutcome(Subnormalized(b.y, b.inex, rnd), prec, exact.x,
                  SubExpected(exact.x, prec, rnd, exact.neg), exact.neg)

NoOverflow ==
  ~ Overflows(exact.x, prec, IF rnd = "RNDF" THEN "RNDA" ELSE rnd, exact.neg, EMax + Scale)

\* A function and mpfr_subnormalize: one rounding to the subnormal numbers.
LEMMA FunctionThenSub ==
  ASSUME StagesInv, job = "subnormalize", NoOverflow
  PROVE  SubRight(First(prec))
<1> DEFINE X == exact.x
           neg == exact.neg
           p == prec
           g == rnd
           b == First(p)
<1>1. p \in Precs /\ neg \in BOOLEAN /\ g \in Rnds
  BY DEF StagesInv
<1>2. PICK e \in 1..MaxBits : e < MaxBits /\ HasLength(X, e)
  BY ExactsAre
<1>3. b = FirstResult(X, neg, p, g, EMin, EMax)
  BY DEF First, FirstRnd, FirstEMin, FirstEMax, Extended
<1>4. /\ p \in Nat /\ p > 0 /\ EMin \in Int /\ EMax \in Int /\ EMin < EMax /\ Scale \in Nat
      /\ EMin + Scale >= 2 /\ p <= EMax + Scale
  BY <1>1, PrecisionsAre, RangesAre
<1>5. NoOverflow <=> ~ Overflows(X, p, IF g = "RNDF" THEN "RNDA" ELSE g, neg, EMax + Scale)
  BY DEF NoOverflow
<1>6. SubRight(b) <=> IF g = "RNDF" THEN FaithOutcome(Subnormalized(b.y, b.inex, g), p, X, neg)
                      ELSE SubOutcome(Subnormalized(b.y, b.inex, g), p, X, SubExpected(X, p, g, neg), neg)
  BY DEF SubRight
<1> HIDE DEF X, neg, p, g, b
<1>7. PICK x \in Int, m \in Nat, t \in Int : FirstIs(X, neg, p, g, EMin, EMax, e, x, m, t)
  BY <1>1, <1>2, <1>4, FirstRounds
<1> DEFINE z == Num(neg, x, m, p)
<1>8. b = CheckRange(z, t, g, EMin, EMax) /\ Represents(m, p, x + Scale, RoundTo(X, p, Definite(g), neg))
  BY <1>3, <1>7 DEF FirstIs
<1>9. CASE g = "RNDF"
  <2>1. t = 0 /\ Definite(g) = "RNDZ"
    BY <1>7, <1>9 DEF FirstIs, Definite
  <2>2. b = CheckRange(Num(neg, x, m, p), 0, "RNDF", EMin, EMax)
    BY <1>8, <1>9, <2>1
  <2>3. Represents(m, p, x + Scale, RoundTo(X, p, "RNDZ", neg))
    BY <1>8, <2>1
  <2>4. ~ Overflows(X, p, "RNDA", neg, EMax + Scale)
    BY <1>5, <1>9
  <2>5. FaithOutcome(Subnormalized(b.y, b.inex, "RNDF"), p, X, neg)
    BY <1>1, <1>2, <2>2, <2>3, <2>4, SubFaithful
  <2> QED
    BY <1>6, <1>9, <2>5 DEF b, p
<1>10. CASE g # "RNDF"
  <2>1. Definite(g) = g /\ g \in RoundingDirections \ {"RNDNA"} /\ Asked(g) = g /\ g \in RoundingDirections
    BY <1>1, <1>10 DEF Definite, Rnds, RoundingDirections, Asked
  <2> DEFINE Y == RoundTo(X, p, g, neg)
  <2>2. Represents(m, p, x + Scale, Y) /\ SignOf(t) = Ternary(Y, X, neg)
    BY <1>7, <1>10, <2>1 DEF FirstIs
  <2>3. X \in Nat /\ Y \in Nat
    BY <1>2, <2>2 DEF HasLength, Represents
  <2>4. IsOneRounding(m, p, x + Scale, t, X, g, neg, EMin + Scale)
    <3>1. /\ Y > X => Signed(neg, t) > 0
          /\ Y < X => Signed(neg, t) < 0
          /\ Y = X => t = 0
      <4> HIDE DEF Y
      <4> QED
        BY <1>1, <2>2, <2>3, TernarySides
    <3> QED
      BY <1>1, <1>4, <2>1, <2>2, <2>3, <3>1, RightRounding
  <2>5. Delivers(b, p, Scale, X, g, neg, EMin + Scale, EMax + Scale)
    <3>1. LET c == CheckRange(Num(neg, x, m, p), t, Asked(g), EMin, EMax) IN
          Delivers(c, p, Scale, X, g, neg, EMin + Scale, EMax + Scale)
      BY <1>1, <1>2, <1>4, <2>1, <2>4, CheckRangeRight
    <3>2. Asked(g) = g
      BY <2>1
    <3> QED
      BY <1>8, <3>1, <3>2, Zenon
  <2>6. Fits(b.y) /\ Sound(b)
    <3>1. z.exp \in Int /\ z.neg \in BOOLEAN /\ Plain(z)
      BY <1>1, NumPlain DEF Num
    <3> HIDE DEF z
    <3> QED
      BY <1>4, <1>8, <3>1, CheckRangeFits, CheckRangeSound
  <2>7. ~ Overflows(X, p, g, neg, EMax + Scale)
    BY <1>5, <1>10
  <2>8. SubOutcome(Subnormalized(b.y, b.inex, g), p, X, SubExpected(X, p, g, neg), neg)
    BY <1>1, <1>2, <2>1, <2>5, <2>6, <2>7, SubDelivers
  <2> QED
    BY <1>6, <1>10, <2>8 DEF b, p
<1> QED
  BY <1>9, <1>10

\* mpfr_round_nearest_away and mpfr_subnormalize: one rounding to the subnormal numbers.
LEMMA AwayThenSub ==
  ASSUME StagesInv, job = "nearest_away", NoOverflow
  PROVE  SubRight(NearestAwayOf(First(prec + 1), prec))
<1> DEFINE b == NearestAwayOf(First(prec + 1), prec)
<1>1. prec \in Precs /\ exact.neg \in BOOLEAN /\ rnd = "RNDNA"
  BY DEF StagesInv
<1>2. PICK e \in 1..MaxBits : e < MaxBits /\ HasLength(exact.x, e)
  BY ExactsAre
<1>3. /\ Delivers(b, prec, Scale, exact.x, rnd, exact.neg, EMin + Scale, EMax + Scale)
      /\ Fits(b.y) /\ Sound(b)
  BY <1>1, ThirdDelivers DEF AwayDelivers
<1>4. rnd \in RoundingDirections /\ ~ Overflows(exact.x, prec, rnd, exact.neg, EMax + Scale)
  BY <1>1 DEF NoOverflow, RoundingDirections
<1> HIDE DEF b
<1>5. SubOutcome(Subnormalized(b.y, b.inex, rnd), prec, exact.x,
                 SubExpected(exact.x, prec, rnd, exact.neg), exact.neg)
  BY <1>1, <1>2, <1>3, <1>4, SubDelivers
<1> QED
  BY <1>1, <1>5 DEF SubRight, b

\* Keeping the flags raised before changes neither the number nor the ternary value.
LEMMA PassedKeeps ==
  ASSUME NEW y, NEW old, NEW g, NEW b
  PROVE  LET s == Subnormalized(y, old, g) IN
         Passed(s, b).y = s.y /\ Passed(s, b).inex = s.inex
  BY DEF Passed

\* SubnormalRight (mpfr_subnormalize, src/subnormal.c) holds of every execution.
THEOREM SubnormalIsRight == Spec => []SubnormalRight
<1>1. StagesInv => SubnormalRight
  <2> DEFINE G == IF rnd = "RNDF" THEN "RNDA" ELSE rnd
             W1 == LET ulp == Ulp(exact.x, prec)
                       u == IF ulp < Quantum THEN Quantum ELSE ulp
                       Rnd1(rn) == RoundToMultiple(exact.x, u, rn, exact.neg)
                   IN IF rnd = "RNDF" THEN Value(r.y) \in {Rnd1("RNDZ"), Rnd1("RNDA")}
                      ELSE SameAs(Rnd1(rnd))
  <2> SUFFICES ASSUME StagesInv, pc = "done", job \in {"subnormalize", "nearest_away"}, NoOverflow
               PROVE  W1
    BY DEF SubnormalRight, NoOverflow
  <2>1. prec \in Precs
    BY DEF StagesInv
  <2>2. PICK b : SubRight(b) /\ r = Passed(Subnormalized(b.y, b.inex, rnd), b)
    <3>1. CASE job = "subnormalize"
      <4>1. PICK p \in FirstPrecs(job, prec) : r = DoneWith(First(p))
        BY <3>1 DEF StagesInv
      <4>2. p = prec
        BY <3>1, <4>1 DEF FirstPrecs
      <4>3. r = Passed(Subnormalized(First(prec).y, First(prec).inex, rnd), First(prec))
        BY <3>1, <4>1, <4>2 DEF DoneWith
      <4> QED
        BY <3>1, <4>3, FunctionThenSub
    <3>2. CASE job = "nearest_away"
      <4> DEFINE b == NearestAwayOf(First(prec + 1), prec)
      <4>1. r = DoneWith(b)
        BY <3>2 DEF StagesInv
      <4>2. SubRight(b)
        BY <3>2, AwayThenSub
      <4> HIDE DEF b
      <4>3. r = Passed(Subnormalized(b.y, b.inex, rnd), b)
        BY <3>2, <4>1 DEF DoneWith
      <4> QED
        BY <4>2, <4>3
    <3> QED
      BY <3>1, <3>2
  <2> DEFINE s == Subnormalized(b.y, b.inex, rnd)
  <2>3. r.y = s.y /\ r.inex = s.inex
    BY <2>2, PassedKeeps
  <2> HIDE DEF s
  <2>4. CASE rnd = "RNDF"
    <3>1. FaithOutcome(s, prec, exact.x, exact.neg)
      BY <2>2, <2>4 DEF SubRight, s
    <3>2. PICK d \in {"RNDZ", "RNDA"} :
             StandsFor(s.y, prec, Scale, SubExpected(exact.x, prec, d, exact.neg)) /\ Fits(s.y)
      BY <3>1 DEF FaithOutcome
    <3>3. Value(r.y) = SubExpected(exact.x, prec, d, exact.neg)
      BY <2>1, <2>3, <3>2, ValueIs
    <3> QED
      BY <2>4, <3>3 DEF SubExpected
  <2>5. CASE rnd # "RNDF"
    <3> DEFINE V == SubExpected(exact.x, prec, rnd, exact.neg)
    <3>1. SubOutcome(s, prec, exact.x, V, exact.neg)
      BY <2>2, <2>5 DEF SubRight, s
    <3> HIDE DEF V
    <3>2. Value(r.y) = V /\ SignOf(r.inex) = Ternary(V, exact.x, exact.neg)
      BY <2>1, <2>3, <3>1, ValueIs DEF SubOutcome
    <3>3. SameAs(V)
      BY <3>2 DEF SameAs
    <3> QED
      BY <2>5, <3>3 DEF SubExpected, V
  <2> QED
    BY <2>4, <2>5
<1> QED
  BY <1>1, Stages, PTL

-----------------------------------------------------------------------------
(****************************************************************************)
(* mpfr_set_1_2 (src/set.c) makes a single rounding of what mpfr_fma and    *)
(* mpfr_fmma leave it at twice the precision.  Both paths, of one limb      *)
(* (Set12Small) and of more (Set12Large, with the correction after a tie),  *)
(* give the number Set12Gives: the first half of u, an ulp added when SetUp *)
(* says so.  Set12Chosen shows that this is what the exact result asks for, *)
(* Set12Delivers joins the underflows and overflows of the first rounding,  *)
(* Set12Faithful is the case of MPFR_RNDF.                                  *)
(****************************************************************************)

-----------------------------------------------------------------------------
(* mpfr_set_1_2: from twice the precision *)

\* The bits mpfr_set_1_2 looks at, from the two halves of u.
LEMMA HalfBits ==
  ASSUME NEW p \in Nat, p > 0, NEW m \in Nat,
         NEW u2 \in Nat, NEW q2 \in Nat, NEW r2 \in Nat, Cut(m, 2 * p, p, u2, q2, r2)
  PROVE  /\ m \div 2^p = q2
         /\ Bit(m, p - 1) = 1 <=> 2 * r2 >= u2
         /\ m % 2^(p - 1) # 0 <=> r2 # 0 /\ 2 * r2 # u2
         /\ m % 2^p = 2^(p - 1) <=> 2 * r2 = u2
<1>1. p < 2 * p /\ 2 * p \in Nat /\ 2 * p - p = p /\ 2 * p - p - 1 = p - 1
  OBVIOUS
<1>2. u2 = 2^(2 * p - p) /\ u2 > 0 /\ r2 < u2 /\ m = q2 * u2 + r2
  BY DEF Cut
<1>3. u2 = 2^p
  BY <1>1, <1>2, Zenon
<1>4. m \div u2 = q2 /\ m % u2 = r2
  BY <1>2, DivModUnique
<1>5. m \div 2^p = q2 /\ m % 2^p = r2
  BY <1>3, <1>4, Zenon
<1>6. RoundBit(m, 2 * p, p) <=> 2 * (m % 2^(2 * p - p)) >= 2^(2 * p - p)
  BY <1>1, RoundBitIs
<1>7. RoundBit(m, 2 * p, p) <=> 2 * r2 >= u2
  BY <1>2, <1>4, <1>6, Zenon
<1>8. RoundBit(m, 2 * p, p) <=> Bit(m, p - 1) = 1
  BY <1>1, Zenon DEF RoundBit
<1>9. m % 2^(2 * p - p - 1) # 0 <=> (m % 2^(2 * p - p) # 0 /\ 2 * (m % 2^(2 * p - p)) # 2^(2 * p - p))
  BY <1>1, StickyIs
<1>10. m % 2^(p - 1) # 0 <=> r2 # 0 /\ 2 * r2 # u2
  BY <1>1, <1>2, <1>4, <1>9, Zenon
<1>11. 2^p = 2 * 2^(p - 1) /\ 2^(p - 1) \in Nat
  BY PowHalf, PowNat
<1>12. r2 = 2^(p - 1) <=> 2 * r2 = u2
  BY <1>3, <1>11
<1> QED
  BY <1>5, <1>7, <1>8, <1>10, <1>12, Zenon

\* Whether an ulp is to be added to the first half, d being the rest of the exact result.
SetUp(rn, neg, q2, r2, u2, d) ==
  IF rn = "RNDN" THEN 2 * r2 > u2 \/ (2 * r2 = u2 /\ (d > 0 \/ (d = 0 /\ q2 % 2 = 1)))
  ELSE ~ IsLikeRNDZ(rn, neg) /\ (r2 # 0 \/ d > 0)

\* The ternary value t is on the right side.
RightSide(t, neg, up, r2, d) ==
  /\ t \in Int
  /\ up => Signed(neg, t) > 0
  /\ ~ up /\ (r2 # 0 \/ d > 0) => Signed(neg, t) < 0
  /\ ~ up /\ r2 = 0 /\ d = 0 => t = 0
  /\ ~ up /\ r2 = 0 /\ d < 0 => Signed(neg, t) > 0

\* The result of mpfr_set_1_2 when up tells whether an ulp is added.
Set12Gives(s, neg, x, q2, p, up, r2, d) ==
  LET n == Grown(neg, x, q2, p, up) IN
  \/ s.y = n /\ n.exp <= EMax /\ RightSide(s.inex, neg, up, r2, d)
  \/ s.y = Inf(neg, p) /\ s.inex = Signed(neg, 1) /\ up /\ n.exp > EMax

SmallFrom(neg, x, q, p, rn, inex, rb0, sb0) ==
  LET inex2 == Signed(neg, inex)
      below == inex2 > 0 /\ rb0 /\ ~ sb0
      rb == rb0 /\ ~ below
      sb == sb0 \/ below \/ inex2 < 0
      up == (rb \/ sb) /\ IF rn = "RNDN" THEN rb /\ (sb \/ q % 2 = 1) ELSE ~ IsLikeRNDZ(rn, neg)
      s == Significand(q, p, Decision(up, 0))
      y == Num(neg, x + s.carry, s.mant, p)
  IN CASE ~ rb /\ ~ sb -> Return(y, IF inex2 > 0 THEN inex ELSE 0, {})
       [] up /\ y.exp > EMax -> Overflow(p, rn, neg, EMax)
       [] OTHER -> Return(y, Signed(neg, IF up THEN 1 ELSE -1), {})

\* mpfr_set_1_2 of precisions of one limb, on the fields of u.
LEMMA SmallIs ==
  ASSUME NEW p \in Nat, p > 0, NEW m \in Nat, NEW q2, m \div 2^p = q2,
         NEW neg, NEW x, NEW rn, NEW inex
  PROVE  Set12Small(Num(neg, x, m, 2 * p), p, rn, inex, EMax)
           = SmallFrom(neg, x, q2, p, rn, inex, Bit(m, p - 1) = 1, m % 2^(p - 1) # 0)
<1> DEFINE u == Num(neg, x, m, 2 * p)
<1>1. u.mant = m /\ u.exp = x /\ u.neg = neg
  BY DEF Num
<1> HIDE DEF u
<1>2. Set12Small(u, p, rn, inex, EMax)
        = SmallFrom(neg, x, q2, p, rn, inex, Bit(m, p - 1) = 1, m % 2^(p - 1) # 0)
  BY <1>1 DEF Set12Small, SmallFrom
<1> QED
  BY <1>2 DEF u

\* An overflow in a mode that goes away from zero is an infinity.
LEMMA OverflowUp ==
  ASSUME NEW p, NEW rn, NEW neg, ~ IsLikeRNDZ(rn, neg), NEW emax
  PROVE  Overflow(p, rn, neg, emax).y = Inf(neg, p) /\ Overflow(p, rn, neg, emax).inex = Signed(neg, 1)
<1>1. Overflow(p, rn, neg, emax) = Return(Inf(neg, p), Signed(neg, 1), {"overflow"})
  BY Zenon DEF Overflow
<1> QED
  BY <1>1 DEF Return

\* mpfr_set_1_2 of precisions of one limb makes the right choice.
LEMMA SmallGoes ==
  ASSUME NEW p \in Nat, p > 0, NEW neg \in BOOLEAN, NEW x \in Int, x <= EMax,
         NEW u2 \in Nat, NEW q2 \in Nat, NEW r2 \in Nat, u2 > 0, r2 < u2, IsSignificand(q2, p),
         NEW inex, NEW d, SidesAre(neg, inex, d), NEW rn \in Rnds,
         NEW rb0 \in BOOLEAN, rb0 <=> 2 * r2 >= u2,
         NEW sb0 \in BOOLEAN, sb0 <=> r2 # 0 /\ 2 * r2 # u2,
         NEW up0 \in BOOLEAN, up0 <=> SetUp(rn, neg, q2, r2, u2, d)
  PROVE  Set12Gives(SmallFrom(neg, x, q2, p, rn, inex, rb0, sb0), neg, x, q2, p, up0, r2, d)
<1> DEFINE inex2 == Signed(neg, inex)
           below == inex2 > 0 /\ rb0 /\ ~ sb0
           rb == rb0 /\ ~ below
           sb == sb0 \/ below \/ inex2 < 0
           up == (rb \/ sb) /\ IF rn = "RNDN" THEN rb /\ (sb \/ q2 % 2 = 1) ELSE ~ IsLikeRNDZ(rn, neg)
           dec == Decision(up, 0)
           s == Significand(q2, p, dec)
           y == Num(neg, x + s.carry, s.mant, p)
           n == Grown(neg, x, q2, p, up)
           o == SmallFrom(neg, x, q2, p, rn, inex, rb0, sb0)
<1>1. o = CASE ~ rb /\ ~ sb -> Return(y, IF inex2 > 0 THEN inex ELSE 0, {})
            [] up /\ y.exp > EMax -> Overflow(p, rn, neg, EMax)
            [] OTHER -> Return(y, Signed(neg, IF up THEN 1 ELSE -1), {})
  BY DEF SmallFrom
<1>2. inex \in Int /\ d \in Int /\ (inex2 > 0 <=> d < 0) /\ (inex2 < 0 <=> d > 0) /\ EMax \in Int
  BY RangesAre DEF SidesAre
<1>3. /\ ~ rb /\ ~ sb <=> r2 = 0 /\ d <= 0
      /\ rb <=> 2 * r2 > u2 \/ (2 * r2 = u2 /\ d >= 0)
      /\ rb \/ sb <=> r2 # 0 \/ d > 0
      /\ rb => (sb <=> ~ (2 * r2 = u2 /\ d = 0))
  <2> HIDE DEF inex2
  <2> QED
    BY <1>2
<1>4. up \in BOOLEAN /\ (up <=> up0)
  <2>1. up <=> SetUp(rn, neg, q2, r2, u2, d)
    <3> HIDE DEF rb, sb
    <3>1. CASE rn = "RNDN"
      <4>1. up <=> rb /\ (sb \/ q2 % 2 = 1)
        BY <1>3, <3>1
      <4> QED
        BY <1>2, <1>3, <3>1, <4>1 DEF SetUp
    <3>2. CASE rn # "RNDN"
      BY <1>3, <3>2 DEF SetUp
    <3> QED
      BY <3>1, <3>2
  <2> QED
    BY <2>1
<1>5. y = n
  <2>1. dec.up = up /\ dec.up \in BOOLEAN
    BY <1>4 DEF Decision
  <2> HIDE DEF dec, up
  <2>2. Num(neg, x + Significand(q2, p, dec).carry, Significand(q2, p, dec).mant, p)
          = Grown(neg, x, q2, p, dec.up)
    BY <2>1, GrownIs
  <2> QED
    BY <2>1, <2>2, Zenon
<1>6. up => ~ IsLikeRNDZ(rn, neg)
  <2>1. rn = "RNDN" => ~ IsLikeRNDZ(rn, neg)
    BY DEF IsLikeRNDZ
  <2> QED
    BY <2>1
<1>7. ~ up => n.exp = x
  BY DEF Grown, Num
<1>8. up => r2 # 0 \/ d > 0
  BY <1>3
<1>9. n.exp \in Int
  <2> HIDE DEF up
  <2> QED
    BY DEF Grown, Succ, Num
<1> HIDE DEF o, y, n, up, rb, sb
<1>10. Set12Gives(o, neg, x, q2, p, up, r2, d)
  <2>1. CASE r2 = 0 /\ d <= 0
    <3> DEFINE t == IF inex2 > 0 THEN inex ELSE 0
    <3>2. ~ up
      BY <1>8, <2>1, <1>2
    <3>1. o = Return(y, t, {})
      BY <1>1, <1>3, <2>1, <3>2
    <3>3. RightSide(t, neg, up, r2, d)
      <4>1. Signed(neg, 0) = 0
        BY SignedTwice
      <4> HIDE DEF inex2
      <4>2. CASE d < 0
        <5>1. t = inex
          BY <1>2, <4>2
        <5> HIDE DEF t
        <5> QED
          BY <1>2, <2>1, <3>2, <4>2, <5>1 DEF RightSide, inex2
      <4>3. CASE d = 0
        <5>1. t = 0
          BY <1>2, <4>3
        <5> HIDE DEF t
        <5> QED
          BY <1>2, <2>1, <3>2, <4>3, <5>1 DEF RightSide, inex2
      <4> QED
        BY <1>2, <2>1, <4>2, <4>3
    <3> HIDE DEF t
    <3>4. o.y = n /\ o.inex = t
      BY <1>5, <3>1 DEF Return
    <3> QED
      BY <1>7, <3>2, <3>3, <3>4 DEF Set12Gives, n
  <2>2. CASE ~ (r2 = 0 /\ d <= 0) /\ up /\ n.exp > EMax
    <3>1. o = Overflow(p, rn, neg, EMax)
      BY <1>1, <1>3, <1>5, <2>2
    <3>2. o.y = Inf(neg, p) /\ o.inex = Signed(neg, 1)
      BY <1>6, <2>2, <3>1, OverflowUp
    <3> QED
      BY <2>2, <3>2 DEF Set12Gives, n
  <2>3. CASE ~ (r2 = 0 /\ d <= 0) /\ ~ (up /\ n.exp > EMax)
    <3> DEFINE t == Signed(neg, IF up THEN 1 ELSE -1)
    <3>1. o = Return(y, t, {})
      BY <1>1, <1>3, <1>5, <2>3
    <3>2. RightSide(t, neg, up, r2, d)
      <4>1. CASE up
        <5>1. t = Signed(neg, 1)
          BY <4>1
        <5>2. Signed(neg, 1) \in Int /\ Signed(neg, Signed(neg, 1)) > 0
          BY SignedTwice
        <5> HIDE DEF t
        <5> QED
          BY <4>1, <5>1, <5>2 DEF RightSide
      <4>2. CASE ~ up
        <5>1. t = Signed(neg, -1)
          BY <4>2
        <5>2. Signed(neg, -1) \in Int /\ Signed(neg, Signed(neg, -1)) < 0
          BY SignedDown
        <5> HIDE DEF t
        <5> QED
          BY <1>2, <2>3, <4>2, <5>1, <5>2 DEF RightSide
      <4> QED
        BY <4>1, <4>2
    <3> HIDE DEF t
    <3>3. o.y = n /\ o.inex = t
      BY <1>5, <3>1 DEF Return
    <3>4. n.exp <= EMax
      BY <1>2, <1>7, <1>9, <2>3
    <3> QED
      BY <3>2, <3>3, <3>4 DEF Set12Gives, n
  <2> QED
    BY <2>1, <2>2, <2>3
<1>11. up = up0
  BY <1>4
<1> QED
  BY <1>10, <1>11, Zenon DEF o

\* Of more than a limb: what mpfr_set4 leaves for the correction.
LEMMA LargeIs ==
  ASSUME NEW p \in Nat, NEW m, NEW neg, NEW x, NEW rn, NEW inex
  PROVE  Set12Large(Num(neg, x, m, 2 * p), p, rn, inex, EMin, EMax)
           = Corrected12(Set4Of(x, p, RndRaw(m, 2 * p, p, rn, neg), rn, neg, EMax),
                         m % 2^p = 2^(p - 1), rn, inex, EMin, EMax)
<1> DEFINE u == Num(neg, x, m, 2 * p)
<1>1. u.mant = m /\ u.neg = neg
  BY DEF Num
<1>2. Set4(u, p, rn, neg, EMax) = Set4Of(x, p, RndRaw(m, 2 * p, p, rn, neg), rn, neg, EMax)
  BY Set4Is
<1> HIDE DEF u
<1>3. Set12Large(u, p, rn, inex, EMin, EMax)
        = Corrected12(Set4(u, p, rn, neg, EMax), m % 2^p = 2^(p - 1), rn, inex, EMin, EMax)
  BY <1>1, Zenon DEF Set12Large
<1> QED
  BY <1>2, <1>3, Zenon DEF u

\* Nothing was rounded off: the ternary value is the one of u.
LEMMA LargeKeeps ==
  ASSUME NEW p \in Nat, NEW m, NEW neg \in BOOLEAN, NEW x \in Int, x <= EMax, NEW rn, NEW inex \in Int, NEW q2,
         RndRaw(m, 2 * p, p, rn, neg).mant = q2, RndRaw(m, 2 * p, p, rn, neg).carry = 0,
         RndRaw(m, 2 * p, p, rn, neg).dir = 0
  PROVE  LET s == Set12Large(Num(neg, x, m, 2 * p), p, rn, inex, EMin, EMax) IN
         s.y = Num(neg, x, q2, p) /\ s.inex = inex
<1> DEFINE w == RndRaw(m, 2 * p, p, rn, neg)
           s4 == Set4Of(x, p, w, rn, neg, EMax)
           mid == m % 2^p = 2^(p - 1)
           y == Num(neg, x, q2, p)
<1>1. s4 = Return(Num(neg, x + 0, q2, p), Signed(neg, 0), {})
  <2> HIDE DEF w
  <2>1. w.carry = 0 /\ w.mant = q2 /\ w.dir = 0
    BY DEF w
  <2> QED
    BY <2>1 DEF Set4Of
<1>2. x + 0 = x /\ Signed(neg, 0) = 0
  BY SignedTwice
<1>3. s4 = Return(y, 0, {})
  BY <1>1, <1>2, Zenon
<1> HIDE DEF s4, y, mid
<1>4. s4.y = y /\ s4.inex = 0
  BY <1>3 DEF Return
<1>5. Corrected12(s4, mid, rn, inex, EMin, EMax) = Return(s4.y, inex, s4.raised)
  <2>1. ~ (inex * s4.inex > 0)
    BY <1>4
  <2> QED
    BY <1>4, <2>1 DEF Corrected12
<1>6. Set12Large(Num(neg, x, m, 2 * p), p, rn, inex, EMin, EMax) = Corrected12(s4, mid, rn, inex, EMin, EMax)
  BY LargeIs DEF s4, mid
<1> QED
  BY <1>4, <1>5, <1>6 DEF Return, y

\* What the rounding of the significand decides by itself.
Stepped(neg, q2, r2, u2, rn) ==
  IF GoesUp(q2, r2, u2, rn, neg) THEN AddOneUlp ELSE Decision(FALSE, -1)

\* mpfr_round_raw keeps or steps as the mode and the bits dropped tell.
LEMMA RawSteps ==
  ASSUME NEW p \in Nat, p > 0, NEW P \in Nat, p < P, NEW m \in Nat, IsSignificand(m, P),
         NEW u2 \in Nat, NEW q2 \in Nat, NEW r2 \in Nat, Cut(m, P, p, u2, q2, r2), r2 # 0,
         NEW rn \in Rnds, rn # "RNDF", NEW neg \in BOOLEAN
  PROVE  RndRaw(m, P, p, rn, neg) = Significand(q2, p, Stepped(neg, q2, r2, u2, rn))
<1>1. CASE rn = "RNDN" /\ 2 * r2 = u2
  <2>1. RndRaw(m, P, p, rn, neg) = Significand(q2, p, ToEven[q2 % 2 = 1])
    BY <1>1, RndRawGenIs DEF RndRaw
  <2>2. ToEven[q2 % 2 = 1] = IF q2 % 2 = 1 THEN AddOneUlp ELSE Decision(FALSE, -1)
    BY DEF ToEven
  <2>3. GoesUp(q2, r2, u2, rn, neg) <=> q2 % 2 = 1
    BY <1>1 DEF GoesUp
  <2>4. Stepped(neg, q2, r2, u2, rn) = ToEven[q2 % 2 = 1]
    BY <2>2, <2>3 DEF Stepped
  <2> QED
    BY <2>1, <2>4
<1>2. CASE ~ (rn = "RNDN" /\ 2 * r2 = u2)
  <2>1. RndRaw(m, P, p, rn, neg) = Significand(q2, p, Step(q2, r2, u2, rn, neg))
    BY <1>2, RndRawGenIs DEF RndRaw
  <2>2. Step(q2, r2, u2, rn, neg) = Stepped(neg, q2, r2, u2, rn)
    BY DEF Step, Stepped
  <2> QED
    BY <2>1, <2>2
<1> QED
  BY <1>1, <1>2

\* mpfr_set4 before the correction, when something is rounded off.
SetGives(s, neg, x, q2, p, up) ==
  LET n == Grown(neg, x, q2, p, up) IN
  \/ s.y = n /\ n.exp <= EMax /\ s.inex = Signed(neg, IF up THEN 1 ELSE -1)
  \/ s.y = Inf(neg, p) /\ s.inex = Signed(neg, 1) /\ up /\ n.exp > EMax

\* mpfr_set of the first half, an ulp added or not.
LEMMA SetSteps ==
  ASSUME NEW p \in Nat, p > 0, NEW neg \in BOOLEAN, NEW x \in Int, x <= EMax,
         NEW q2 \in Nat, IsSignificand(q2, p), NEW dec, NEW rn,
         NEW up \in BOOLEAN, dec.up \in BOOLEAN, dec.up <=> up, dec.dir = (IF up THEN 1 ELSE -1),
         up => ~ IsLikeRNDZ(rn, neg)
  PROVE  SetGives(Set4Of(x, p, Significand(q2, p, dec), rn, neg, EMax), neg, x, q2, p, up)
<1> DEFINE s == Significand(q2, p, dec)
           n == Grown(neg, x, q2, p, up)
           o == Set4Of(x, p, s, rn, neg, EMax)
<1>1. dec.up = up
  OBVIOUS
<1>2. /\ s.carry \in {0, 1} /\ s.dir = dec.dir
      /\ s.carry = 1 => dec.up
  BY SignificandIs
<1>3. Num(neg, x + s.carry, s.mant, p) = n
  <2>2. Num(neg, x + s.carry, s.mant, p) = Grown(neg, x, q2, p, dec.up)
    BY GrownIs
  <2> QED
    BY <1>1, <2>2, Zenon
<1>4. n.exp = x + s.carry
  <2>1. Num(neg, x + s.carry, s.mant, p).exp = x + s.carry
    BY DEF Num
  <2> QED
    BY <1>3, <2>1, Zenon
<1>5. EMax \in Int
  BY RangesAre
<1> HIDE DEF s, n
<1>6. o = IF s.carry = 1 /\ x + 1 > EMax THEN Overflow(p, rn, neg, EMax)
          ELSE Return(n, Signed(neg, s.dir), {})
  BY <1>3, Zenon DEF Set4Of
<1> HIDE DEF o
<1>7. CASE s.carry = 1 /\ x + 1 > EMax
  <2>1. up /\ n.exp > EMax
    BY <1>1, <1>2, <1>4, <1>7
  <2>2. o.y = Inf(neg, p) /\ o.inex = Signed(neg, 1)
    BY <1>6, <1>7, <2>1, OverflowUp
  <2> QED
    BY <2>1, <2>2 DEF SetGives, n, o, s
<1>8. CASE ~ (s.carry = 1 /\ x + 1 > EMax)
  <2>1. n.exp <= EMax
    BY <1>2, <1>4, <1>5, <1>8
  <2>2. o = Return(n, Signed(neg, s.dir), {})
    BY <1>6, <1>8
  <2>3. o.y = n /\ o.inex = Signed(neg, s.dir)
    BY <2>2 DEF Return
  <2>4. s.dir = IF up THEN 1 ELSE -1
    BY <1>1, <1>2
  <2> QED
    BY <2>1, <2>3, <2>4 DEF SetGives, n, o, s
<1> QED
  BY <1>7, <1>8

\* mpfr_set returns a number and a ternary value.
LEMMA SetOfIsRecord ==
  ASSUME NEW x, NEW p, NEW s, NEW rn, NEW neg, NEW emax
  PROVE  IsRecord(Set4Of(x, p, s, rn, neg, emax))
  BY DEF IsRecord, Set4Of, Overflow, Return

\* A product of ternary values that is positive tells that both roundings went the same way.
LEMMA SameWay ==
  ASSUME NEW inex, NEW d, NEW neg \in BOOLEAN, SidesAre(neg, inex, d)
  PROVE  /\ inex * Signed(neg, 1) > 0 <=> d < 0
         /\ inex * Signed(neg, -1) > 0 <=> d > 0
         /\ Signed(neg, -inex) > 0 <=> d > 0
         /\ Signed(neg, -inex) < 0 <=> d < 0
         /\ -inex \in Int
<1>1. CASE neg
  BY <1>1 DEF SidesAre, Signed
<1>2. CASE ~ neg
  BY <1>2 DEF SidesAre, Signed
<1> QED
  BY <1>1, <1>2

\* The number of the wrong side of the midpoint, and the one the correction goes back to.
LEMMA CorrectsBack ==
  ASSUME NEW p \in Nat, p > 0, NEW neg \in BOOLEAN, NEW x \in Int, EMin <= x, x <= EMax,
         NEW q2 \in Nat, IsSignificand(q2, p), NEW s, SetGives(s, neg, x, q2, p, ~ Pos)
  PROVE  NextToZero(s.y, EMin, EMax) = Num(neg, x, q2, p)
<1>1. EMin \in Int /\ EMax \in Int
  BY RangesAre
<1> DEFINE n == Succ(neg, x, q2, p)
<1>2. Grown(neg, x, q2, p, ~ Pos) = n
  BY DEF Grown, Pos
<1>3. s.y = n \/ (s.y = Inf(neg, p) /\ n.exp > EMax)
  BY <1>2 DEF SetGives
<1>4. CASE s.y = n
  BY <1>1, <1>4, GrownBack
<1>5. CASE s.y = Inf(neg, p) /\ n.exp > EMax
  <2>1. q2 + 1 = 2^p /\ x = EMax
    <3>1. q2 + 1 <= 2^p /\ 2^p \in Nat
      BY PowNat DEF IsSignificand
    <3>2. CASE q2 + 1 < 2^p
      <4>1. n.exp = x
        BY <3>2 DEF Succ, Num
      <4> QED
        BY <1>1, <1>5, <4>1
    <3>3. CASE ~ (q2 + 1 < 2^p)
      <4>1. n.exp = x + 1
        BY <3>3 DEF Succ, Num
      <4> HIDE DEF n
      <4> QED
        BY <1>1, <1>5, <3>1, <3>3, <4>1
    <3> QED
      BY <3>2, <3>3
  <2>2. NextToZero(Inf(neg, p), EMin, EMax) = SetMax(neg, EMax, p)
    BY DEF NextToZero, Inf
  <2>3. 2^p - 1 = q2
    BY <2>1
  <2>4. SetMax(neg, EMax, p) = Num(neg, x, q2, p)
    BY <2>1, <2>3, Zenon DEF SetMax
  <2> QED
    BY <1>5, <2>2, <2>4, Zenon
<1> QED
  BY <1>3, <1>4, <1>5

\* mpfr_nexttoinf adds an ulp to an even significand, without a carry.
LEMMA CorrectsForth ==
  ASSUME NEW p \in Nat, p > 0, NEW neg \in BOOLEAN, NEW x \in Int, x <= EMax,
         NEW q2 \in Nat, IsSignificand(q2, p), q2 % 2 # 1
  PROVE  LET n == Grown(neg, x, q2, p, ~ Pos) IN
         NextToInf(Num(neg, x, q2, p), EMin, EMax) = n /\ n.exp = x
<1>1. q2 + 1 < 2^p
  <2>1. 2^p = 2 * 2^(p - 1) /\ 2^(p - 1) \in Nat /\ 2^p \in Nat
    BY PowHalf, PowNat
  <2>2. q2 < 2^p
    BY DEF IsSignificand
  <2> DEFINE h == 2^(p - 1)
  <2>3. q2 < 2 * h /\ h \in Nat
    BY <2>1, <2>2
  <2> HIDE DEF h
  <2>4. q2 + 1 # 2 * h
    BY <2>3
  <2> QED
    BY <2>1, <2>3, <2>4 DEF h
<1> DEFINE y == Num(neg, x, q2, p)
<1>2. y.kind = "num" /\ y.mant = q2 /\ y.prec = p /\ y.exp = x /\ y.neg = neg
  BY DEF Num
<1>3. Grown(neg, x, q2, p, ~ Pos) = Num(neg, x, q2 + 1, p)
  BY <1>1 DEF Grown, Succ, Pos
<1>4. Num(neg, x, q2 + 1, p).exp = x
  BY DEF Num
<1> HIDE DEF y
<1>5. NextToInf(y, EMin, EMax) = Num(neg, x, q2 + 1, p)
  BY <1>1, <1>2 DEF NextToInf
<1> QED
  BY <1>3, <1>4, <1>5 DEF y

\* The neighbour the code takes, told by the sign of inex and of the number.
LEMMA CorrectedIs ==
  ASSUME NEW s, IsRecord(s), NEW rn, NEW inex \in Int, NEW neg \in BOOLEAN, s.y.neg = neg
  PROVE  LET c == Corrected12(s, Pos = Pos, "RNDN", inex, EMin, EMax) IN
         /\ inex * s.inex > 0 /\ Signed(neg, inex) > 0 =>
              c.y = NextToZero(s.y, EMin, EMax) /\ c.inex = -inex
         /\ inex * s.inex > 0 /\ Signed(neg, inex) < 0 =>
              c.y = NextToInf(s.y, EMin, EMax) /\ c.inex = -inex
<1> DEFINE back == NextToZero(s.y, EMin, EMax)
           forth == NextToInf(s.y, EMin, EMax)
           c == Corrected12(s, Pos = Pos, "RNDN", inex, EMin, EMax)
           n == IF inex > 0 THEN NextBelow(s.y, EMin, EMax) ELSE NextAbove(s.y, EMin, EMax)
<1> SUFFICES /\ inex * s.inex > 0 /\ Signed(neg, inex) > 0 => c.y = back /\ c.inex = -inex
             /\ inex * s.inex > 0 /\ Signed(neg, inex) < 0 => c.y = forth /\ c.inex = -inex
  OBVIOUS
<1>1. NextBelow(s.y, EMin, EMax) = (IF neg THEN forth ELSE back)
      /\ NextAbove(s.y, EMin, EMax) = (IF neg THEN back ELSE forth)
  BY DEF NextBelow, NextAbove
<1>2. ASSUME inex * s.inex > 0
      PROVE  c.y = n /\ c.inex = -inex
  BY <1>2 DEF Corrected12, IsRecord
<1> HIDE DEF back, forth, c
<1>3. /\ Signed(neg, inex) > 0 => n = back
      /\ Signed(neg, inex) < 0 => n = forth
  BY <1>1 DEF Signed
<1> HIDE DEF n
<1> QED
  BY <1>2, <1>3

\* Without a tie on the wrong side nothing is corrected.
LEMMA NotCorrected ==
  ASSUME NEW s, NEW mid, NEW rn, NEW inex, s.inex # 0, ~ (rn = "RNDN" /\ inex * s.inex > 0 /\ mid)
  PROVE  Corrected12(s, mid, rn, inex, EMin, EMax) = s
  BY DEF Corrected12

\* The sign and the ternary value of mpfr_set.
LEMMA GivesSign ==
  ASSUME NEW s, NEW neg \in BOOLEAN, NEW x, NEW q2, NEW p, NEW up \in BOOLEAN, SetGives(s, neg, x, q2, p, up)
  PROVE  /\ s.y.neg = neg
         /\ s.inex = Signed(neg, IF up THEN 1 ELSE -1)
         /\ s.inex # 0
<1>1. Grown(neg, x, q2, p, up).neg = neg /\ Inf(neg, p).neg = neg
  BY DEF Grown, Succ, Num, Inf
<1>2. s.y.neg = neg /\ s.inex = Signed(neg, IF up THEN 1 ELSE -1)
  BY <1>1 DEF SetGives
<1> QED
  BY <1>2 DEF Signed

\* Without a correction the second rounding goes where the exact result would.
LEMMA SameUp ==
  ASSUME NEW q2 \in Nat, NEW r2 \in Nat, r2 # 0, NEW u2 \in Nat, NEW d \in Int, NEW rn \in Rnds, rn # "RNDF",
         NEW neg \in BOOLEAN, NEW gu \in BOOLEAN, gu <=> GoesUp(q2, r2, u2, rn, neg),
         ~ (rn = "RNDN" /\ 2 * r2 = u2 /\ ((gu /\ d < 0) \/ (~ gu /\ d > 0)))
  PROVE  SetUp(rn, neg, q2, r2, u2, d) <=> gu
<1>1. CASE rn = "RNDN"
  BY <1>1 DEF GoesUp, SetUp
<1>2. CASE rn # "RNDN"
  <2>1. rn \in Rnds \ {"RNDF", "RNDN"}
    BY <1>2
  <2>2. IsLikeRNDZ(rn, neg) <=> TowardZero(rn, neg)
    BY <2>1, LikeIs
  <2>3. TowardZero(rn, neg) <=> ~ (rn = "RNDA" \/ rn = (IF neg THEN "RNDD" ELSE "RNDU"))
    BY <2>1 DEF TowardZero, Rnds
  <2>4. rn # "RNDNA"
    BY DEF Rnds
  <2>5. GoesUp(q2, r2, u2, rn, neg) <=> rn = "RNDA" \/ rn = (IF neg THEN "RNDD" ELSE "RNDU")
    BY <1>2, <2>4 DEF GoesUp
  <2> QED
    BY <1>2, <2>2, <2>3, <2>5 DEF SetUp
<1> QED
  BY <1>1, <1>2

\* mpfr_set_1_2 of more limbs makes the right choice, corrected after a tie that is none.
LEMMA Corrects ==
  ASSUME NEW p \in Nat, p > 0, NEW neg \in BOOLEAN, NEW x \in Int, EMin <= x, x <= EMax,
         NEW u2 \in Nat, NEW q2 \in Nat, NEW r2 \in Nat, IsSignificand(q2, p), r2 # 0,
         NEW inex, NEW d, SidesAre(neg, inex, d), NEW rn \in Rnds, rn # "RNDF",
         NEW s, IsRecord(s), NEW gu \in BOOLEAN, gu <=> GoesUp(q2, r2, u2, rn, neg),
         SetGives(s, neg, x, q2, p, gu), NEW mid, mid <=> 2 * r2 = u2,
         NEW up \in BOOLEAN, up <=> SetUp(rn, neg, q2, r2, u2, d)
  PROVE  Set12Gives(Corrected12(s, mid, rn, inex, EMin, EMax), neg, x, q2, p, up, r2, d)
<1> DEFINE c == Corrected12(s, mid, rn, inex, EMin, EMax)
           wrong == rn = "RNDN" /\ 2 * r2 = u2 /\ ((gu /\ d < 0) \/ (~ gu /\ d > 0))
<1>1. /\ s.y.neg = neg
      /\ s.inex = Signed(neg, IF gu THEN 1 ELSE -1)
      /\ s.inex # 0
  BY GivesSign
<1>2. inex \in Int /\ d \in Int /\ (Signed(neg, inex) > 0 <=> d < 0) /\ (Signed(neg, inex) < 0 <=> d > 0)
  BY DEF SidesAre
<1>3. /\ inex * Signed(neg, 1) > 0 <=> d < 0
      /\ inex * Signed(neg, -1) > 0 <=> d > 0
      /\ Signed(neg, -inex) > 0 <=> d > 0
      /\ Signed(neg, -inex) < 0 <=> d < 0
      /\ -inex \in Int
  BY SameWay
<1>4. inex * s.inex > 0 <=> (gu /\ d < 0) \/ (~ gu /\ d > 0)
  <2>1. CASE gu
    BY <1>1, <1>3, <2>1
  <2>2. CASE ~ gu
    BY <1>1, <1>3, <2>2
  <2> QED
    BY <2>1, <2>2
<1>5. CASE ~ wrong
  <2>1. up <=> gu
    BY <1>2, <1>5, SameUp
  <2>2. ~ (rn = "RNDN" /\ inex * s.inex > 0 /\ mid)
    BY <1>4, <1>5
  <2>3. c = s
    BY <1>1, <2>2, NotCorrected
  <2>4. SetGives(s, neg, x, q2, p, up)
    BY <2>1
  <2>5. RightSide(Signed(neg, IF up THEN 1 ELSE -1), neg, up, r2, d)
    <3> DEFINE t == IF up THEN 1 ELSE -1
    <3>1. t \in Int /\ (up => t > 0) /\ (~ up => t < 0)
      OBVIOUS
    <3> HIDE DEF t
    <3>2. Signed(neg, t) \in Int /\ Signed(neg, Signed(neg, t)) = t
      BY <3>1, SignedTwice
    <3>3. RightSide(Signed(neg, t), neg, up, r2, d)
      BY <3>1, <3>2 DEF RightSide
    <3> QED
      BY <3>3 DEF t
  <2>6. up => Signed(neg, IF up THEN 1 ELSE -1) = Signed(neg, 1)
    OBVIOUS
  <2> HIDE DEF c
  <2>7. Set12Gives(s, neg, x, q2, p, up, r2, d)
    BY <2>4, <2>5 DEF Set12Gives, SetGives
  <2>8. Set12Gives(c, neg, x, q2, p, up, r2, d)
    BY <2>3, <2>7
  <2> QED
    BY <2>8 DEF c
<1>6. CASE wrong
  <2>1. c = Corrected12(s, Pos = Pos, "RNDN", inex, EMin, EMax)
    <3>1. mid = (Pos = Pos) \/ c = Corrected12(s, Pos = Pos, "RNDN", inex, EMin, EMax)
      BY <1>6 DEF Corrected12
    <3> QED
      BY <3>1, <1>6
  <2>2. /\ inex * s.inex > 0 /\ Signed(neg, inex) > 0 =>
             c.y = NextToZero(s.y, EMin, EMax) /\ c.inex = -inex
        /\ inex * s.inex > 0 /\ Signed(neg, inex) < 0 =>
             c.y = NextToInf(s.y, EMin, EMax) /\ c.inex = -inex
    <3> HIDE DEF c
    <3> QED
      BY <1>1, <1>2, <2>1, CorrectedIs
  <2> HIDE DEF c
  <2>3. CASE gu /\ d < 0
    <3>1. SetGives(s, neg, x, q2, p, ~ Pos)
      BY <2>3 DEF Pos
    <3>2. c.y = Num(neg, x, q2, p) /\ c.inex = -inex
      BY <1>2, <1>4, <2>2, <2>3, <3>1, CorrectsBack
    <3>3. ~ up
      BY <1>2, <1>6, <2>3 DEF SetUp
    <3>4. Grown(neg, x, q2, p, up) = Num(neg, x, q2, p) /\ Num(neg, x, q2, p).exp = x
      BY <3>3 DEF Grown, Num
    <3>5. RightSide(-inex, neg, up, r2, d)
      BY <1>2, <1>3, <2>3, <3>3 DEF RightSide
    <3>6. Set12Gives(c, neg, x, q2, p, up, r2, d)
      BY <3>2, <3>4, <3>5 DEF Set12Gives
    <3> QED
      BY <3>6 DEF c
  <2>4. CASE ~ gu /\ d > 0
    <3>1. q2 % 2 # 1
      BY <1>6, <2>4 DEF GoesUp
    <3> DEFINE n == Grown(neg, x, q2, p, ~ Pos)
    <3>2. NextToInf(Num(neg, x, q2, p), EMin, EMax) = n /\ n.exp = x
      BY <3>1, CorrectsForth
    <3>3. s.y = Num(neg, x, q2, p)
      <4>1. Grown(neg, x, q2, p, gu) = Num(neg, x, q2, p)
        BY <2>4 DEF Grown
      <4> QED
        BY <2>4, <4>1 DEF SetGives
    <3>4. up
      BY <1>2, <1>6, <2>4 DEF SetUp
    <3>5. Grown(neg, x, q2, p, up) = n
      BY <3>4 DEF Pos
    <3> HIDE DEF n
    <3>6. c.y = n /\ c.inex = -inex
      BY <1>2, <1>4, <2>2, <2>4, <3>2, <3>3
    <3>7. RightSide(-inex, neg, up, r2, d)
      BY <1>2, <1>3, <2>4, <3>4 DEF RightSide
    <3>8. Set12Gives(c, neg, x, q2, p, up, r2, d)
      BY <3>2, <3>5, <3>6, <3>7 DEF Set12Gives
    <3> QED
      BY <3>8 DEF c
  <2> QED
    BY <1>6, <2>3, <2>4
<1> QED
  BY <1>5, <1>6

\* The ternary value of the first rounding stays when the second is exact.
LEMMA SidesAreRight ==
  ASSUME NEW neg \in BOOLEAN, NEW inex, NEW d, SidesAre(neg, inex, d), NEW up \in BOOLEAN, ~ up
  PROVE  RightSide(inex, neg, up, 0, d)
  BY DEF SidesAre, RightSide, Signed

\* mpfr_set_1_2 of more limbs, the second rounding being exact.
LEMMA LargeExact ==
  ASSUME NEW p \in Nat, p > 0, NEW neg \in BOOLEAN, NEW x \in Int, x <= EMax,
         NEW m \in Nat, IsSignificand(m, 2 * p),
         NEW u2 \in Nat, NEW q2 \in Nat, NEW r2 \in Nat, Cut(m, 2 * p, p, u2, q2, r2), r2 = 0,
         NEW inex, NEW d, SidesAre(neg, inex, d), NEW rn \in Rnds,
         NEW up \in BOOLEAN, ~ up
  PROVE  Set12Gives(Set12Large(Num(neg, x, m, 2 * p), p, rn, inex, EMin, EMax), neg, x, q2, p, up, r2, d)
<1> DEFINE P == 2 * p
           s == Set12Large(Num(neg, x, m, P), p, rn, inex, EMin, EMax)
<1>1. P \in Nat /\ p <= P
  OBVIOUS
<1>2. IsSignificand(m, P) /\ Cut(m, P, p, u2, q2, r2)
  OBVIOUS
<1> DEFINE o == RndRawGen(m, P, p, rn, neg, ToEven)
<1>3. o.mant = q2 /\ o.carry = 0 /\ o.dir = 0
  <2> HIDE DEF P
  <2> QED
    BY <1>1, <1>2, NothingLeft
<1>4. RndRaw(m, 2 * p, p, rn, neg) = o
  BY DEF RndRaw
<1>5. inex \in Int
  BY DEF SidesAre
<1>6. s.y = Num(neg, x, q2, p) /\ s.inex = inex
  <2> HIDE DEF o
  <2>1. /\ RndRaw(m, 2 * p, p, rn, neg).mant = q2 /\ RndRaw(m, 2 * p, p, rn, neg).carry = 0
        /\ RndRaw(m, 2 * p, p, rn, neg).dir = 0
    BY <1>3, <1>4
  <2> QED
    BY <1>5, <2>1, LargeKeeps
<1>7. Grown(neg, x, q2, p, up) = Num(neg, x, q2, p) /\ Num(neg, x, q2, p).exp = x
  BY DEF Grown, Num
<1>8. RightSide(inex, neg, up, r2, d)
  BY SidesAreRight
<1> HIDE DEF s
<1>9. Set12Gives(s, neg, x, q2, p, up, r2, d)
  BY <1>6, <1>7, <1>8 DEF Set12Gives
<1> QED
  BY <1>9 DEF s

\* mpfr_set_1_2 of more limbs makes the right choice.
LEMMA LargeGoes ==
  ASSUME NEW p \in Nat, p > 0, NEW neg \in BOOLEAN, NEW x \in Int, EMin <= x, x <= EMax,
         NEW m \in Nat, IsSignificand(m, 2 * p),
         NEW u2 \in Nat, NEW q2 \in Nat, NEW r2 \in Nat, Cut(m, 2 * p, p, u2, q2, r2),
         NEW inex, NEW d, SidesAre(neg, inex, d), NEW rn \in Rnds, rn # "RNDF" \/ r2 = 0,
         NEW up \in BOOLEAN, up <=> SetUp(rn, neg, q2, r2, u2, d), up => r2 # 0
  PROVE  Set12Gives(Set12Large(Num(neg, x, m, 2 * p), p, rn, inex, EMin, EMax), neg, x, q2, p, up, r2, d)
<1>1. CASE r2 = 0
  BY <1>1, LargeExact
<1>2. CASE r2 # 0
  <2> DEFINE P == 2 * p
             dec == Stepped(neg, q2, r2, u2, rn)
             s == Set4Of(x, p, RndRaw(m, P, p, rn, neg), rn, neg, EMax)
             mid == m % 2^p = 2^(p - 1)
             c == Corrected12(s, mid, rn, inex, EMin, EMax)
  <2>1. P \in Nat /\ p < P /\ IsSignificand(m, P) /\ Cut(m, P, p, u2, q2, r2)
    OBVIOUS
  <2>2. Set12Large(Num(neg, x, m, 2 * p), p, rn, inex, EMin, EMax) = c
    BY LargeIs
  <2>3. mid <=> 2 * r2 = u2
    BY HalfBits
  <2>4. IsSignificand(q2, p)
    <3> HIDE DEF P
    <3> QED
      BY <2>1, CutIs
  <2>5. RndRaw(m, P, p, rn, neg) = Significand(q2, p, dec)
    <3> HIDE DEF P
    <3> QED
      BY <1>2, <2>1, RawSteps
  <2>6. PICK gu \in BOOLEAN : gu <=> GoesUp(q2, r2, u2, rn, neg)
    OBVIOUS
  <2>7. dec.up \in BOOLEAN /\ (dec.up <=> gu) /\ dec.dir = (IF gu THEN 1 ELSE -1)
    BY <2>6 DEF Stepped, AddOneUlp, Decision
  <2>8. gu => ~ IsLikeRNDZ(rn, neg)
    <3>1. rn # "RNDNA"
      BY DEF Rnds
    <3> QED
      BY <2>6, <3>1 DEF GoesUp, IsLikeRNDZ
  <2>9. SetGives(s, neg, x, q2, p, gu)
    <3>1. SetGives(Set4Of(x, p, Significand(q2, p, dec), rn, neg, EMax), neg, x, q2, p, gu)
      <4> HIDE DEF dec
      <4> QED
        BY <2>4, <2>6, <2>7, <2>8, SetSteps
    <3> QED
      BY <2>5, <3>1, Zenon
  <2>10. IsRecord(s)
    BY SetOfIsRecord
  <2> HIDE DEF s, mid
  <2>11. Set12Gives(c, neg, x, q2, p, up, r2, d)
    BY <1>2, <2>3, <2>4, <2>6, <2>9, <2>10, Corrects
  <2> QED
    BY <2>2, <2>11, Zenon
<1> QED
  BY <1>1, <1>2

\* Of one limb.
LEMMA Set12OneLimb ==
  ASSUME NEW p \in Nat, p > 0, p < W, NEW neg \in BOOLEAN, NEW x \in Int, x <= EMax,
         NEW m \in Nat, IsSignificand(m, 2 * p),
         NEW u2 \in Nat, NEW q2 \in Nat, NEW r2 \in Nat, Cut(m, 2 * p, p, u2, q2, r2),
         NEW inex, NEW d, SidesAre(neg, inex, d), NEW rn \in Rnds,
         NEW up \in BOOLEAN, up <=> SetUp(rn, neg, q2, r2, u2, d)
  PROVE  Set12Gives(Set12(Num(neg, x, m, 2 * p), p, rn, inex, EMin, EMax), neg, x, q2, p, up, r2, d)
<1> DEFINE u == Num(neg, x, m, 2 * p)
           o == Set12(u, p, rn, inex, EMin, EMax)
           rb0 == Bit(m, p - 1) = 1
           sb0 == m % 2^(p - 1) # 0
<1>1. o = Set12Small(u, p, rn, inex, EMax)
  <2>1. u.kind = "num"
    BY DEF Num
  <2>2. ~ (p >= W)
    BY RoundingAssumption
  <2> QED
    BY <2>1, <2>2 DEF Set12, IsSingular
<1>2. m \div 2^p = q2 /\ (rb0 <=> 2 * r2 >= u2) /\ (sb0 <=> r2 # 0 /\ 2 * r2 # u2)
  BY HalfBits
<1>3. Set12Small(u, p, rn, inex, EMax) = SmallFrom(neg, x, q2, p, rn, inex, rb0, sb0)
  BY <1>2, SmallIs
<1>4. rb0 \in BOOLEAN /\ sb0 \in BOOLEAN
  OBVIOUS
<1>5. u2 > 0 /\ r2 < u2
  BY DEF Cut
<1>6. IsSignificand(q2, p)
  <2>1. p <= 2 * p /\ 2 * p \in Nat
    OBVIOUS
  <2> QED
    BY <2>1, CutIs
<1> HIDE DEF rb0, sb0
<1>7. Set12Gives(SmallFrom(neg, x, q2, p, rn, inex, rb0, sb0), neg, x, q2, p, up, r2, d)
  BY <1>2, <1>4, <1>5, <1>6, SmallGoes
<1> QED
  BY <1>1, <1>3, <1>7, Zenon

\* Precisions of more limbs take the general path.
LEMMA Set12MoreLimbs ==
  ASSUME NEW p \in Nat, p >= W, NEW neg, NEW x, NEW m, NEW rn, NEW inex
  PROVE  LET u == Num(neg, x, m, 2 * p) IN
         Set12(u, p, rn, inex, EMin, EMax) = Set12Large(u, p, rn, inex, EMin, EMax)
<1>1. ~ (p < W)
  BY RoundingAssumption
<1>2. Num(neg, x, m, 2 * p).kind = "num"
  BY DEF Num
<1> QED
  BY <1>1, <1>2 DEF Set12, IsSingular

\* Both paths of mpfr_set_1_2 make the right choice.
LEMMA Set12Number ==
  ASSUME NEW p \in Nat, p > 0, NEW neg \in BOOLEAN, NEW x \in Int, EMin <= x, x <= EMax,
         NEW m \in Nat, IsSignificand(m, 2 * p),
         NEW u2 \in Nat, NEW q2 \in Nat, NEW r2 \in Nat, Cut(m, 2 * p, p, u2, q2, r2),
         NEW inex, NEW d, SidesAre(neg, inex, d), NEW rn \in Rnds, rn # "RNDF" \/ r2 = 0,
         NEW up \in BOOLEAN, up <=> SetUp(rn, neg, q2, r2, u2, d), up => r2 # 0
  PROVE  Set12Gives(Set12(Num(neg, x, m, 2 * p), p, rn, inex, EMin, EMax), neg, x, q2, p, up, r2, d)
<1> DEFINE u == Num(neg, x, m, 2 * p)
<1>1. CASE p < W
  BY <1>1, Set12OneLimb
<1>2. CASE p >= W
  <2>1. Set12(u, p, rn, inex, EMin, EMax) = Set12Large(u, p, rn, inex, EMin, EMax)
    BY <1>2, Set12MoreLimbs
  <2>2. Set12Gives(Set12Large(u, p, rn, inex, EMin, EMax), neg, x, q2, p, up, r2, d)
    BY LargeGoes
  <2> QED
    BY <2>1, <2>2, Zenon
<1> QED
  BY <1>1, <1>2, RoundingAssumption

\* A rounding away from zero is not below the exact result.
LEMMA AwayBounds ==
  ASSUME NEW p \in Nat, NEW e \in 1..MaxBits, NEW X, HasLength(X, e),
         NEW g, NEW neg \in BOOLEAN, Away(g, neg)
  PROVE  X <= RoundTo(X, p, g, neg)
<1>1. X \in Nat
  BY DEF HasLength
<1> DEFINE v == Ulp(X, p)
<1>2. v \in Nat /\ v > 0
  <2>1. CASE e <= p
    BY <2>1, UlpPower, PowZero
  <2>2. CASE p < e
    <3>1. v = 2^(e - p) /\ e - p \in Nat
      BY <2>2, UlpPower
    <3> QED
      BY <3>1, PowNat
  <2> QED
    BY <2>1, <2>2
<1>3. RoundTo(X, p, g, neg) = RoundToMultiple(X, v, g, neg)
  BY DEF RoundTo
<1> HIDE DEF v
<1>4. PICK q \in Nat, s \in Nat : IsQuotient(X, v, q, s)
  BY <1>1, <1>2, QuotientExists
<1>5. RoundToMultiple(X, v, g, neg) = (IF GoesUp(q, s, v, g, neg) THEN q + 1 ELSE q) * v
  BY <1>1, <1>2, <1>4, QuotientRounds
<1>6. s # 0 => GoesUp(q, s, v, g, neg)
  BY DEF GoesUp, Away
<1>7. X = q * v + s /\ s < v
  BY <1>4 DEF IsQuotient
<1>8. q * v \in Nat /\ (q + 1) * v = q * v + v
  BY <1>2
<1>9. CASE s = 0
  <2>1. (IF GoesUp(q, s, v, g, neg) THEN q + 1 ELSE q) = q
    BY <1>9 DEF GoesUp
  <2> QED
    BY <1>3, <1>5, <1>7, <1>8, <1>9, <2>1
<1>10. CASE s # 0
  BY <1>3, <1>5, <1>6, <1>7, <1>8, <1>10, <1>2
<1> QED
  BY <1>9, <1>10

ChoiceIs(X, p, rn, neg, up, r2, K, Kp) ==
  /\ RoundTo(X, p, rn, neg) = (IF up THEN Kp ELSE K)
  /\ up => r2 # 0 /\ ~ TowardZero(rn, neg)

\* What mpfr_set_1_2 chooses is what the exact result asks for.
LEMMA Set12Chosen ==
  ASSUME NEW p \in Nat, p > 0, NEW e \in 1..MaxBits, NEW X, HasLength(X, e), NEW neg \in BOOLEAN,
         NEW f, NEW q2 \in Nat, NEW r2 \in Nat, NEW u2 \in Nat, u2 > 0, u2 # 1, NEW d \in Int,
         NEW K, NEW Kp, NEW Km, Candidates(X, p, f, q2, r2, u2, d, neg, K, Kp, Km),
         NEW rn \in Rnds, rn # "RNDF", Away(rn, neg) => d <= 0, TowardZero(rn, neg) => d >= 0,
         NEW up \in BOOLEAN, up <=> SetUp(rn, neg, q2, r2, u2, d)
  PROVE  ChoiceIs(X, p, rn, neg, up, r2, K, Kp)
<1>2. d \in Int /\ (Away(rn, neg) => d <= 0) /\ (TowardZero(rn, neg) => d >= 0)
  OBVIOUS
<1>3. Candidates(X, p, f, q2, r2, u2, d, neg, K, Kp, Km) /\ (up <=> SetUp(rn, neg, q2, r2, u2, d))
  OBVIOUS
<1> SUFFICES /\ RoundTo(X, p, rn, neg) = (IF up THEN Kp ELSE K)
             /\ up => r2 # 0 /\ ~ TowardZero(rn, neg)
  BY DEF ChoiceIs
<1>4. CASE rn = "RNDN"
  <2>1. RoundTo(X, p, "RNDN", neg) =
          IF 2 * r2 > u2 \/ (2 * r2 = u2 /\ (d > 0 \/ (d = 0 /\ q2 % 2 = 1))) THEN Kp ELSE K
    BY <1>3 DEF Candidates
  <2>2. up <=> 2 * r2 > u2 \/ (2 * r2 = u2 /\ (d > 0 \/ (d = 0 /\ q2 % 2 = 1)))
    BY <1>3, <1>4 DEF SetUp
  <2>3. ~ TowardZero("RNDN", neg)
    BY DEF TowardZero
  <2> QED
    BY <1>4, <2>1, <2>2, <2>3
<1>5. CASE rn # "RNDN"
  <2>1. rn \in Rnds \ {"RNDF", "RNDN"} /\ rn \in ToOneSide
    BY <1>5 DEF Rnds, ToOneSide
  <2>2. IsLikeRNDZ(rn, neg) <=> TowardZero(rn, neg)
    BY <2>1, LikeIs
  <2>3. TowardZero(rn, neg) <=> ~ Away(rn, neg)
    BY <2>1 DEF TowardZero, ToOneSide, Away
  <2>4. RoundTo(X, p, rn, neg) =
          IF Away(rn, neg) THEN IF r2 # 0 \/ d > 0 THEN Kp ELSE K
          ELSE IF r2 = 0 /\ d < 0 THEN Km ELSE K
    BY <1>3, <2>1 DEF Candidates, Away
  <2>5. up <=> Away(rn, neg) /\ (r2 # 0 \/ d > 0)
    BY <1>3, <1>5, <2>2, <2>3 DEF SetUp
  <2> QED
    BY <1>2, <2>3, <2>4, <2>5
<1> QED
  BY <1>4, <1>5

GrownTo(neg, x, q2, p, up, K, Kp) ==
  \E z \in Int : \E k : /\ Grown(neg, x, q2, p, up) = Num(neg, z, k, p)
                    /\ Represents(k, p, z + Scale, IF up THEN Kp ELSE K)
                    /\ z >= x

\* The number left is the candidate chosen.
LEMMA GrownFor ==
  ASSUME NEW p \in Nat, p > 0, NEW X, NEW x \in Int, NEW f \in Nat, PlaceOf(f, x), NEW q2 \in Nat, NEW r2 \in Nat,
         NEW u2 \in Nat, NEW d \in Int, NEW neg, NEW K, NEW Kp, NEW Km,
         Candidates(X, p, f, q2, r2, u2, d, neg, K, Kp, Km), NEW up \in BOOLEAN, up => r2 # 0
  PROVE  GrownTo(neg, x, q2, p, up, K, Kp)
<1> DEFINE dec == Decision(up, 0)
           s == Significand(q2, p, dec)
           n == Grown(neg, x, q2, p, up)
<1>1. dec.up = up
  BY DEF Decision
<1>2. dec.up \in BOOLEAN /\ (dec.up => r2 # 0 \/ d > 0)
  BY <1>1
<1> HIDE DEF dec
<1>3. /\ Represents(s.mant, p, f + s.carry, IF dec.up THEN Kp ELSE K)
      /\ s.carry \in {0, 1}
  BY <1>2, CandidateChosen
<1>4. IsSignificand(q2, p)
  BY DEF Candidates, Represents
<1>5. Num(neg, x + s.carry, s.mant, p) = Grown(neg, x, q2, p, dec.up)
  BY <1>2, <1>4, GrownIs
<1> HIDE DEF s
<1>6. n = Num(neg, x + s.carry, s.mant, p)
  BY <1>1, <1>5, Zenon
<1>7. f + s.carry = (x + s.carry) + Scale
  BY <1>3, RangesAre DEF PlaceOf
<1>8. Represents(s.mant, p, (x + s.carry) + Scale, IF up THEN Kp ELSE K)
  BY <1>1, <1>3, <1>7, Zenon
<1>9. x + s.carry \in Int /\ x + s.carry >= x
  BY <1>3
<1> HIDE DEF n
<1>10. \E z \in Int : \E k : /\ n = Num(neg, z, k, p)
                         /\ Represents(k, p, z + Scale, IF up THEN Kp ELSE K)
                         /\ z >= x
  BY <1>6, <1>8, <1>9
<1> QED
  BY <1>10 DEF GrownTo, n

\* The ternary value t is the one of the candidate chosen.
SignFor(t, up, K, Kp, X, neg) == SignOf(t) = Ternary(IF up THEN Kp ELSE K, X, neg)

\* The ternary value of mpfr_set_1_2 is the one of its result.
LEMMA RightSideSign ==
  ASSUME NEW X \in Nat, NEW d \in Int, NEW neg \in BOOLEAN, NEW t, NEW r2, NEW f, NEW p, NEW q2, NEW u2,
         NEW K \in Int, NEW Kp \in Int, NEW Km,
         Candidates(X, p, f, q2, r2, u2, d, neg, K, Kp, Km),
         NEW up \in BOOLEAN, up => r2 # 0, RightSide(t, neg, up, r2, d)
  PROVE  SignFor(t, up, K, Kp, X, neg)
<1> SUFFICES SignOf(t) = Ternary(IF up THEN Kp ELSE K, X, neg)
  BY DEF SignFor
<1>1. /\ t \in Int
      /\ up => Signed(neg, t) > 0
      /\ ~ up /\ (r2 # 0 \/ d > 0) => Signed(neg, t) < 0
      /\ ~ up /\ r2 = 0 /\ d = 0 => t = 0
      /\ ~ up /\ r2 = 0 /\ d < 0 => Signed(neg, t) > 0
  BY DEF RightSide
<1>2. /\ K < X <=> r2 # 0 \/ d > 0
      /\ K = X <=> r2 = 0 /\ d = 0
      /\ r2 # 0 \/ d > 0 => Kp > X
  BY DEF Candidates
<1>3. d \in Int
  OBVIOUS
<1>4. CASE up
  <2>1. Kp > X
    BY <1>2, <1>4
  <2>2. SignOf(t) = Ternary(Kp, X, neg)
    BY <1>1, <1>4, <2>1, RightSign
  <2> QED
    BY <1>1, <1>4, <2>2
<1>5. CASE ~ up
  <2>1. K > X <=> r2 = 0 /\ d < 0
    BY <1>2, <1>3
  <2>2. /\ K > X => Signed(neg, t) > 0
        /\ K < X => Signed(neg, t) < 0
        /\ K = X => t = 0
    BY <1>1, <1>2, <1>5, <2>1
  <2>3. SignOf(t) = Ternary(K, X, neg)
    BY <1>1, <2>2, RightSign
  <2> QED
    BY <1>1, <1>5, <2>3
<1> QED
  BY <1>4, <1>5

\* Half of the bits of u are dropped.
LEMMA TwicePrec ==
  ASSUME NEW p \in Nat, p > 0, NEW u2, NEW q2, NEW r2, NEW m, Cut(m, 2 * p, p, u2, q2, r2)
  PROVE  u2 # 1 /\ u2 > 0 /\ 2 * p \in Nat /\ 2 * p > 0 /\ p <= 2 * p
<1>1. u2 = 2^(2 * p - p) /\ u2 > 0
  BY DEF Cut
<1>2. 2 * p - p = p
  OBVIOUS
<1>3. u2 = 2^p
  BY <1>1, <1>2, Zenon
<1>4. 2^p = 2 * 2^(p - 1) /\ 2^(p - 1) \in Nat
  BY PowHalf, PowNat
<1> QED
  BY <1>1, <1>3, <1>4

\* mpfr_set_1_2 on a number in the exponent range gives the correct result.
LEMMA Set12InRange ==
  ASSUME NEW p \in Precs, NEW e \in 1..MaxBits, e < MaxBits, NEW X, HasLength(X, e),
         NEW neg \in BOOLEAN, NEW x \in Int, EMin <= x, x <= EMax, NEW m,
         NEW rn \in Rnds, rn # "RNDF",
         Represents(m, 2 * p, x + Scale, RoundTo(X, 2 * p, rn, neg)),
         NEW inex \in Int, SignOf(inex) = Ternary(RoundTo(X, 2 * p, rn, neg), X, neg)
  PROVE  SubOutcome(Set12(Num(neg, x, m, 2 * p), p, rn, inex, EMin, EMax), p, X,
                    CorrectValue(X, p, rn, neg, EMin + Scale, EMax + Scale), neg)
<1>1. p \in Nat /\ p > 0
  BY PrecisionsAre
<1>2. /\ Scale \in Nat /\ MaxBits \in Nat /\ EMin \in Int /\ EMax \in Int /\ ExtEMin \in Int
      /\ ExtEMin < EMin /\ EMin < EMax
      /\ 2 <= ExtEMin + Scale /\ EMax + Scale + 1 < MaxBits
  BY RangesAre
<1>3. X \in Nat
  BY DEF HasLength
<1> DEFINE P == 2 * p
           Y == RoundTo(X, P, rn, neg)
           E == EMin + Scale
           F == EMax + Scale
           f == x + Scale
           d == X - Y
           o == Set12(Num(neg, x, m, P), p, rn, inex, EMin, EMax)
<1>4. P \in Nat /\ P > 0 /\ p <= P
  BY <1>1
<1>5. m \in Nat /\ IsSignificand(m, P) /\ f \in Nat /\ Y \in Nat /\ Represents(m, P, f, Y)
  BY DEF Represents, IsSignificand
<1>6. PICK u2 \in Nat, q2 \in Nat, r2 \in Nat : Cut(m, P, p, u2, q2, r2)
  <2> HIDE DEF P
  <2> QED
    BY <1>1, <1>4, <1>5, CutExistsUpTo
<1>7. u2 # 1 /\ u2 > 0
  BY <1>1, <1>6, TwicePrec
<1>8. SidesAre(neg, inex, d) /\ d \in Int
  <2> HIDE DEF Y, P
  <2>1. SignOf(inex) = Ternary(Y, X, neg)
    BY DEF Y, P
  <2>2. /\ Signed(neg, inex) > 0 <=> Y > X
        /\ Signed(neg, inex) < 0 <=> Y < X
    BY <1>3, <1>5, <2>1, TernarySides
  <2> QED
    BY <1>3, <1>5, <2>2 DEF SidesAre
<1>9. Hesitates(X, Y, p, f, q2, r2, u2, neg)
  <2>1. ARounding(X, Y, P, neg)
    BY DEF ARounding
  <2> HIDE DEF P, Y, f
  <2> QED
    BY <1>1, <1>4, <1>5, <1>6, <2>1, Hesitation
<1>10. PICK K \in Int, Kp \in Int, Km \in Int : Candidates(X, p, f, q2, r2, u2, d, neg, K, Kp, Km)
  BY <1>9 DEF Hesitates
<1>11. (Away(rn, neg) => d <= 0) /\ (TowardZero(rn, neg) => d >= 0)
  <2>1. (Away(rn, neg) => X <= Y) /\ (TowardZero(rn, neg) => Y <= X)
    <3> HIDE DEF P
    <3> QED
      BY <1>4, AwayBounds, RoundToBounds
  <2> HIDE DEF Y
  <2> QED
    BY <1>3, <1>5, <2>1
<1>12. PICK up \in BOOLEAN : up <=> SetUp(rn, neg, q2, r2, u2, d)
  OBVIOUS
<1> DEFINE V == IF up THEN Kp ELSE K
<1>13. RoundTo(X, p, rn, neg) = V /\ (up => r2 # 0 /\ ~ TowardZero(rn, neg))
  <2> HIDE DEF d, f
  <2>1. ChoiceIs(X, p, rn, neg, up, r2, K, Kp)
    BY <1>1, <1>7, <1>8, <1>10, <1>11, <1>12, Set12Chosen
  <2> QED
    BY <2>1 DEF ChoiceIs
<1>14. Set12Gives(o, neg, x, q2, p, up, r2, d)
  <2> HIDE DEF d
  <2> QED
    BY <1>1, <1>5, <1>6, <1>8, <1>12, <1>13, Set12Number
<1>15a. PICK z \in Int : \E k : /\ Grown(neg, x, q2, p, up) = Num(neg, z, k, p)
                                /\ Represents(k, p, z + Scale, V)
                                /\ z >= x
  <2>1. PlaceOf(f, x) /\ f \in Nat
    BY <1>5 DEF PlaceOf
  <2> HIDE DEF d, f
  <2>2. GrownTo(neg, x, q2, p, up, K, Kp)
    BY <1>1, <1>8, <1>10, <1>13, <2>1, GrownFor
  <2> QED
    BY <2>2 DEF GrownTo
<1>15. PICK k : /\ Grown(neg, x, q2, p, up) = Num(neg, z, k, p)
                /\ Represents(k, p, z + Scale, V)
                /\ z >= x
  BY <1>15a
<1> DEFINE n == z + Scale
<1>16. HasLength(V, n)
  <2> HIDE DEF V
  <2> QED
    BY <1>1, <1>15, RepresentsLength
<1>17. n \in 1..MaxBits /\ HasLength(RoundTo(X, p, rn, neg), n)
  <2>1. HasLength(RoundTo(X, p, rn, neg), n)
    BY <1>13, <1>16
  <2> HIDE DEF n
  <2> QED
    BY <1>1, <2>1, RoundedLengthIs
<1>18. ValueFor(X, p, rn, neg, E, F, n, CorrectValue(X, p, rn, neg, E, F))
  <2>1. E \in Nat /\ E > 0 /\ F \in Nat /\ E <= F
    BY <1>2
  <2> HIDE DEF n, E, F
  <2> QED
    BY <1>1, <1>17, <2>1, CorrectValueIs
<1>19. E <= n /\ (z <= EMax <=> n <= F)
  BY <1>2, <1>15
<1>20. Num(neg, z, k, p).exp = z
  BY DEF Num
<1>21. CASE o.y = Num(neg, z, k, p) /\ z <= EMax /\ RightSide(o.inex, neg, up, r2, d)
  <2>1. CorrectValue(X, p, rn, neg, E, F) = V
    <3> HIDE DEF V, E, F, n
    <3> QED
      BY <1>13, <1>18, <1>19, <1>21 DEF ValueFor
  <2>2. StandsFor(o.y, p, Scale, V)
    <3> HIDE DEF V, o
    <3> QED
      BY <1>15, <1>21 DEF StandsFor, Num
  <2>3. Fits(o.y)
    <3> HIDE DEF o
    <3> QED
      BY <1>2, <1>15, <1>20, <1>21 DEF Fits
  <2>4. SignOf(o.inex) = Ternary(V, X, neg)
    <3> HIDE DEF o, d, f
    <3>1. SignFor(o.inex, up, K, Kp, X, neg)
      BY <1>3, <1>8, <1>10, <1>13, <1>21, RightSideSign
    <3> QED
      BY <3>1 DEF SignFor
  <2> HIDE DEF o, V, E, F
  <2>5. SubOutcome(o, p, X, V, neg)
    BY <2>2, <2>3, <2>4 DEF SubOutcome
  <2>6. SubOutcome(o, p, X, CorrectValue(X, p, rn, neg, E, F), neg)
    BY <2>1, <2>5
  <2> QED
    BY <2>6 DEF o, E, F
<1>22. CASE o.y = Inf(neg, p) /\ o.inex = Signed(neg, 1) /\ up /\ z > EMax
  <2>1. CorrectValue(X, p, rn, neg, E, F) = Infinity
    <3>1. ~ (n <= F) /\ n > F
      BY <1>2, <1>22
    <3> HIDE DEF V, E, F, n
    <3> QED
      BY <1>13, <1>18, <1>19, <1>22, <3>1 DEF ValueFor
  <2>2. Infinity \in Int /\ Infinity > X
    <3>1. X < 2^e /\ 2^e \in Nat /\ 2^MaxBits \in Nat /\ 2^e < 2^MaxBits
      BY <1>2, PowNat, PowStrict DEF HasLength
    <3> QED
      BY <1>3, <3>1 DEF Infinity
  <2>3. SignOf(Signed(neg, 1)) = Ternary(Infinity, X, neg)
    <3>1. Signed(neg, 1) \in Int /\ Signed(neg, Signed(neg, 1)) = 1
      BY SignedTwice
    <3> QED
      BY <1>3, <2>2, <3>1, RightSign
  <2>4. Inf(neg, p).kind = "inf"
    BY DEF Inf
  <2> HIDE DEF o, E, F
  <2>5. SubOutcome(o, p, X, Infinity, neg)
    BY <1>22, <2>3, <2>4 DEF SubOutcome, StandsFor, Fits
  <2>6. SubOutcome(o, p, X, CorrectValue(X, p, rn, neg, E, F), neg)
    BY <2>1, <2>5
  <2> QED
    BY <2>6 DEF o, E, F
<1> HIDE DEF o
<1>23. \/ o.y = Num(neg, z, k, p) /\ z <= EMax /\ RightSide(o.inex, neg, up, r2, d)
       \/ o.y = Inf(neg, p) /\ o.inex = Signed(neg, 1) /\ up /\ z > EMax
  BY <1>14, <1>15, <1>20 DEF Set12Gives
<1> QED
  BY <1>21, <1>22, <1>23

\* Below the range the precision no longer matters.
LEMMA BelowValue ==
  ASSUME NEW p \in Nat, p > 0, NEW e \in 1..MaxBits, e < MaxBits, NEW X, HasLength(X, e),
         NEW g \in RoundingDirections, NEW neg \in BOOLEAN,
         NEW E \in Nat, E > 0, X < 2^(E - 1), NEW F \in Nat, E <= F
  PROVE  CorrectValue(X, p, g, neg, E, F) = IF GoesUp(0, X, 2^(E - 1), g, neg) THEN 2^(E - 1) ELSE 0
<1> DEFINE u == 2^(E - 1)
           V == CorrectValue(X, p, g, neg, E, F)
           Y == RoundTo(X, p, g, neg)
<1>1. X \in Nat /\ X > 0 /\ E - 1 \in Nat /\ u \in Nat /\ u > 0
  BY PowNat DEF HasLength
<1>2. e <= E - 1
  <2>1. 2^(e - 1) <= X /\ e - 1 \in Nat
    BY DEF HasLength
  <2>2. CASE E - 1 < e
    <3>1. E - 1 <= e - 1
      BY <1>1, <2>2
    <3>2. 2^(E - 1) <= 2^(e - 1)
      BY <1>1, <2>1, <3>1, PowMonotone
    <3> QED
      BY <1>1, <2>1, <3>2, PowNat
  <2> QED
    BY <1>1, <2>2
<1>3. PICK n \in 1..MaxBits : HasLength(Y, n) /\ (n = e \/ (n = e + 1 /\ Y = 2^e))
  BY RoundedLength
<1>4. ValueFor(X, p, g, neg, E, F, n, V)
  BY <1>3, CorrectValueIs
<1>5. CASE n < E
  BY <1>4, <1>5 DEF ValueFor
<1>6. CASE ~ (n < E)
  <2>1. n = e + 1 /\ e = E - 1 /\ Y = 2^e /\ n = E
    BY <1>2, <1>3, <1>6
  <2>2. Y = u
    BY <2>1
  <2>3. V = Y
    BY <1>4, <2>1 DEF ValueFor
  <2>4. IsProduct(Y, 1, 2^(E - 1))
    BY <1>1, <2>2 DEF IsProduct
  <2>5. e - p <= E - 1
    BY <2>1
  <2> HIDE DEF Y
  <2>6. RoundToMultiple(X, 2^(E - 1), g, neg) = Y
    BY <2>4, <2>5, UnitRounds DEF Y
  <2>7. RoundToMultiple(X, u, g, neg) = IF GoesUp(0, X, u, g, neg) THEN u ELSE 0
    <3> HIDE DEF u
    <3> QED
      BY <1>1, BelowUnitRounds DEF u
  <2>8. V = IF GoesUp(0, X, u, g, neg) THEN u ELSE 0
    BY <2>3, <2>6, <2>7
  <2> QED
    BY <2>8
<1> QED
  BY <1>5, <1>6

\* Rounding to fewer bits does not shorten a result.
LEMMA NotShorter ==
  ASSUME NEW p \in Precs, NEW e \in 1..MaxBits, e < MaxBits, NEW X, HasLength(X, e),
         NEW neg \in BOOLEAN, NEW x \in Int, NEW m, NEW rn \in Rnds, rn # "RNDF",
         Represents(m, 2 * p, x + Scale, RoundTo(X, 2 * p, rn, neg))
  PROVE  \E n \in 1..MaxBits : HasLength(RoundTo(X, p, rn, neg), n) /\ n >= x + Scale
<1>1. p \in Nat /\ p > 0
  BY PrecisionsAre
<1>2. Scale \in Nat /\ MaxBits \in Nat
  BY RangesAre
<1>3. X \in Nat
  BY DEF HasLength
<1> DEFINE P == 2 * p
           Y == RoundTo(X, P, rn, neg)
           f == x + Scale
           d == X - Y
<1>4. P \in Nat /\ P > 0 /\ p <= P
  BY <1>1
<1>5. m \in Nat /\ IsSignificand(m, P) /\ f \in Nat /\ Y \in Nat /\ Represents(m, P, f, Y)
  BY DEF Represents, IsSignificand
<1>6. PICK u2 \in Nat, q2 \in Nat, r2 \in Nat : Cut(m, P, p, u2, q2, r2)
  <2> HIDE DEF P
  <2> QED
    BY <1>1, <1>4, <1>5, CutExistsUpTo
<1>7. u2 # 1 /\ u2 > 0
  BY <1>1, <1>6, TwicePrec
<1>8. d \in Int
  BY <1>3, <1>5
<1>9. Hesitates(X, Y, p, f, q2, r2, u2, neg)
  <2>1. ARounding(X, Y, P, neg)
    BY DEF ARounding
  <2> HIDE DEF P, Y, f
  <2> QED
    BY <1>1, <1>4, <1>5, <1>6, <2>1, Hesitation
<1>10. PICK K \in Int, Kp \in Int, Km \in Int : Candidates(X, p, f, q2, r2, u2, d, neg, K, Kp, Km)
  BY <1>9 DEF Hesitates
<1>11. (Away(rn, neg) => d <= 0) /\ (TowardZero(rn, neg) => d >= 0)
  <2>1. (Away(rn, neg) => X <= Y) /\ (TowardZero(rn, neg) => Y <= X)
    <3> HIDE DEF P
    <3> QED
      BY <1>4, AwayBounds, RoundToBounds
  <2> HIDE DEF Y
  <2> QED
    BY <1>3, <1>5, <2>1
<1>12. PICK up \in BOOLEAN : up <=> SetUp(rn, neg, q2, r2, u2, d)
  OBVIOUS
<1> DEFINE V == IF up THEN Kp ELSE K
<1>13. RoundTo(X, p, rn, neg) = V /\ (up => r2 # 0 /\ ~ TowardZero(rn, neg))
  <2> HIDE DEF d, f
  <2>1. ChoiceIs(X, p, rn, neg, up, r2, K, Kp)
    BY <1>1, <1>7, <1>8, <1>10, <1>11, <1>12, Set12Chosen
  <2> QED
    BY <2>1 DEF ChoiceIs
<1>14a. PICK z \in Int : \E k : /\ Represents(k, p, z + Scale, V)
                                /\ z >= x
  <2>1. PlaceOf(f, x) /\ f \in Nat
    BY <1>5 DEF PlaceOf
  <2> HIDE DEF d, f
  <2>2. GrownTo(neg, x, q2, p, up, K, Kp)
    BY <1>1, <1>8, <1>10, <1>13, <2>1, GrownFor
  <2> QED
    BY <2>2 DEF GrownTo
<1>14. PICK k : /\ Represents(k, p, z + Scale, V)
                /\ z >= x
  BY <1>14a
<1> DEFINE n == z + Scale
<1>15. HasLength(RoundTo(X, p, rn, neg), n)
  <2>1. HasLength(V, n)
    <3> HIDE DEF V
    <3> QED
      BY <1>1, <1>14, RepresentsLength
  <2> QED
    BY <1>13, <2>1
<1>16. n \in 1..MaxBits
  <2> HIDE DEF n
  <2> QED
    BY <1>1, <1>15, RoundedLengthIs
<1>17. n >= x + Scale
  BY <1>2, <1>14
<1> HIDE DEF n
<1> QED
  BY <1>15, <1>16, <1>17

\* mpfr_set_1_2 of a zero or of an infinity.
LEMMA Set12OfSingular ==
  ASSUME NEW p, NEW P, NEW neg, NEW rn, NEW inex
  PROVE  /\ LET o == Set12(Zero(neg, P), p, rn, inex, EMin, EMax) IN o.y = Zero(neg, p) /\ o.inex = inex
         /\ LET o == Set12(Inf(neg, P), p, rn, inex, EMin, EMax) IN o.y = Inf(neg, p) /\ o.inex = inex
<1>1. ASSUME NEW y, NEW k, k # "num", NumberIs(y, k, neg, 0, 0, P)
      PROVE  LET o == Set12(y, p, rn, inex, EMin, EMax) IN
             NumberIs(o.y, k, neg, 0, 0, p) /\ o.inex = inex
  <2> DEFINE a == [y EXCEPT !.neg = neg, !.prec = p]
             o == Set12(y, p, rn, inex, EMin, EMax)
  <2>1. NumberIs(a, k, neg, 0, 0, p)
    BY <1>1, BothSet
  <2>2. y.kind = k /\ y.neg = neg
    BY <1>1 DEF NumberIs
  <2>3. o = [Set4(y, p, rn, neg, EMax) EXCEPT !.inex = inex]
    BY <1>1, <2>2 DEF Set12, IsSingular
  <2> HIDE DEF o
  <2>4. Set4(y, p, rn, neg, EMax) = Return(a, 0, {})
    BY <1>1, <2>2 DEF Set4, IsSingular
  <2> HIDE DEF a
  <2>5. o.y = a /\ o.inex = inex
    BY <2>3, <2>4 DEF Return
  <2> QED
    BY <2>1, <2>5 DEF o
<1>2. NumberIs(Zero(neg, P), "zero", neg, 0, 0, P) /\ NumberIs(Inf(neg, P), "inf", neg, 0, 0, P)
  BY Zenon DEF Inf, Zero, NumberIs
<1>3. /\ LET o == Set12(Zero(neg, P), p, rn, inex, EMin, EMax) IN
         NumberIs(o.y, "zero", neg, 0, 0, p) /\ o.inex = inex
      /\ LET o == Set12(Inf(neg, P), p, rn, inex, EMin, EMax) IN
         NumberIs(o.y, "inf", neg, 0, 0, p) /\ o.inex = inex
  BY <1>1, <1>2
<1> QED
  BY <1>3, Zenon DEF Inf, Zero, NumberIs

\* The halves of the smallest and of the largest significand.
LEMMA TwicePowers ==
  ASSUME NEW p \in Nat, p > 0
  PROVE  /\ Cut(2^(2 * p - 1), 2 * p, p, 2^p, 2^(p - 1), 0)
         /\ Cut(2^(2 * p) - 1, 2 * p, p, 2^p, 2^p - 1, 2^p - 1)
         /\ IsSignificand(2^(2 * p - 1), 2 * p) /\ IsSignificand(2^(2 * p) - 1, 2 * p)
<1> DEFINE a == 2^(2 * p - 1)
           b == 2^(2 * p)
           u == 2^p
           h == 2^(p - 1)
<1>1. 2 * p - 1 \in Nat /\ 2 * p \in Nat /\ p - 1 \in Nat
  OBVIOUS
<1>2. a \in Nat /\ b \in Nat /\ u \in Nat /\ h \in Nat /\ a > 0 /\ b > 0 /\ u > 0 /\ h > 0
  BY <1>1, PowNat
<1>3. b = 2 * a
  <2>1. 2 * p # 0
    OBVIOUS
  <2> DEFINE w == 2 * p
  <2>2. w \in Nat /\ w # 0
    BY <1>1, <2>1
  <2> HIDE DEF w
  <2>3. 2^w = 2 * 2^(w - 1)
    BY <2>2, PowHalf
  <2> QED
    BY <2>3 DEF w
<1>4. u = 2 * h
  BY PowHalf
<1>5. a = h * u
  <2>1. (p - 1) + p = 2 * p - 1
    OBVIOUS
  <2>2. 2^((p - 1) + p) = 2^(p - 1) * 2^p
    BY <1>1, PowAdd
  <2> QED
    BY <2>1, <2>2, Zenon
<1>6. b = u * u
  BY <1>2, <1>3, <1>4, <1>5
<1>7. b - 1 = (u - 1) * u + (u - 1) /\ a = h * u + 0
  BY <1>2, <1>5, <1>6
<1>8. 2^(2 * p - p) = u
  <2>1. 2 * p - p = p
    OBVIOUS
  <2> QED
    BY <2>1, Zenon
<1> HIDE DEF a, b, u, h
<1>9. Cut(a, 2 * p, p, u, h, 0) /\ Cut(b - 1, 2 * p, p, u, u - 1, u - 1)
  BY <1>2, <1>7, <1>8 DEF Cut
<1>10. IsSignificand(a, 2 * p) /\ IsSignificand(b - 1, 2 * p)
  BY <1>2, <1>3 DEF IsSignificand, a, b
<1> QED
  BY <1>9, <1>10 DEF a, b, u, h

\* The smallest and the largest number of twice the precision become those of p bits.
LEMMA Set12Min ==
  ASSUME NEW p \in Precs, NEW neg \in BOOLEAN, NEW rn \in Rnds, NEW inex \in Int, Signed(neg, inex) > 0
  PROVE  LET o == Set12(SetMin(neg, EMin, 2 * p), p, rn, inex, EMin, EMax) IN
         o.y = SetMin(neg, EMin, p) /\ o.inex \in Int /\ Signed(neg, o.inex) > 0
<1>1. p \in Nat /\ p > 0
  BY PrecisionsAre
<1>2. EMin \in Int /\ EMax \in Int /\ EMin <= EMax
  BY RangesAre
<1> DEFINE m == 2^(2 * p - 1)
           u2 == 2^p
           q2 == 2^(p - 1)
           o == Set12(Num(neg, EMin, m, 2 * p), p, rn, inex, EMin, EMax)
<1>3. Cut(m, 2 * p, p, u2, q2, 0) /\ IsSignificand(m, 2 * p)
  BY <1>1, TwicePowers
<1>4. m \in Nat /\ u2 \in Nat /\ u2 > 0 /\ q2 \in Nat /\ p - 1 \in Nat
  <2>1. 2 * p - 1 \in Nat /\ p - 1 \in Nat
    BY <1>1
  <2> QED
    BY <1>1, <2>1, PowNat
<1>5. SidesAre(neg, inex, -1)
  <2>1. Signed(neg, inex) \in Int /\ ~ (Signed(neg, inex) < 0)
    BY SignedTwice
  <2> QED
    BY <2>1 DEF SidesAre
<1> HIDE DEF m, u2, q2
<1>6. ~ SetUp(rn, neg, q2, 0, u2, -1)
  BY <1>4 DEF SetUp
<1>7. PICK up \in BOOLEAN : ~ up
  OBVIOUS
<1>8. Set12Gives(o, neg, EMin, q2, p, up, 0, -1)
  BY <1>1, <1>2, <1>3, <1>4, <1>5, <1>6, <1>7, Set12Number
<1>9. Grown(neg, EMin, q2, p, up) = Num(neg, EMin, q2, p)
  BY <1>7 DEF Grown
<1> HIDE DEF o
<1>10. o.y = Num(neg, EMin, q2, p) /\ RightSide(o.inex, neg, up, 0, -1)
  BY <1>7, <1>8, <1>9 DEF Set12Gives
<1>11. o.inex \in Int /\ Signed(neg, o.inex) > 0
  BY <1>7, <1>10 DEF RightSide
<1>12. Set12(SetMin(neg, EMin, 2 * p), p, rn, inex, EMin, EMax) = o
  BY Zenon DEF SetMin, o, m
<1>13. o.y = SetMin(neg, EMin, p)
  BY <1>10, Zenon DEF SetMin, q2
<1> QED
  BY <1>11, <1>12, <1>13

\* mpfr_set_1_2 of the largest number, where the first rounding overflowed towards zero.
LEMMA Set12Max ==
  ASSUME NEW p \in Precs, NEW neg \in BOOLEAN, NEW rn \in Rnds, rn # "RNDF", TowardZero(rn, neg),
         NEW inex \in Int, Signed(neg, inex) < 0
  PROVE  LET o == Set12(SetMax(neg, EMax, 2 * p), p, rn, inex, EMin, EMax) IN
         o.y = SetMax(neg, EMax, p) /\ o.inex \in Int /\ Signed(neg, o.inex) < 0
<1>1. p \in Nat /\ p > 0
  BY PrecisionsAre
<1>2. EMin \in Int /\ EMax \in Int /\ EMin <= EMax
  BY RangesAre
<1> DEFINE m == 2^(2 * p) - 1
           u2 == 2^p
           q2 == 2^p - 1
           o == Set12(Num(neg, EMax, m, 2 * p), p, rn, inex, EMin, EMax)
<1>3. Cut(m, 2 * p, p, u2, q2, q2) /\ IsSignificand(m, 2 * p)
  BY <1>1, TwicePowers
<1>4. m \in Nat /\ u2 \in Nat /\ u2 > 1 /\ q2 \in Nat /\ q2 # 0
  <2>1. 2 * p \in Nat /\ 2^(2 * p) \in Nat /\ 2^(2 * p) > 0
    BY <1>1, PowNat
  <2>2. 2^p = 2 * 2^(p - 1) /\ 2^(p - 1) \in Nat /\ 2^(p - 1) > 0
    BY <1>1, PowHalf, PowNat
  <2> QED
    BY <2>1, <2>2
<1>5. SidesAre(neg, inex, 1)
  <2>1. Signed(neg, inex) \in Int /\ ~ (Signed(neg, inex) > 0)
    BY SignedTwice
  <2> QED
    BY <2>1 DEF SidesAre
<1>6. ~ SetUp(rn, neg, q2, q2, u2, 1)
  <2>1. rn \in Rnds \ {"RNDF", "RNDN"}
    BY DEF TowardZero
  <2>2. IsLikeRNDZ(rn, neg)
    BY <2>1, LikeIs
  <2> QED
    BY <2>1, <2>2 DEF SetUp
<1> HIDE DEF m, u2, q2
<1>7. PICK up \in BOOLEAN : ~ up
  OBVIOUS
<1>8. Set12Gives(o, neg, EMax, q2, p, up, q2, 1)
  BY <1>1, <1>2, <1>3, <1>4, <1>5, <1>6, <1>7, Set12Number
<1>9. Grown(neg, EMax, q2, p, up) = Num(neg, EMax, q2, p)
  BY <1>7 DEF Grown
<1> HIDE DEF o
<1>10. o.y = Num(neg, EMax, q2, p) /\ RightSide(o.inex, neg, up, q2, 1)
  BY <1>7, <1>8, <1>9 DEF Set12Gives
<1>11. o.inex \in Int /\ Signed(neg, o.inex) < 0
  BY <1>7, <1>10 DEF RightSide
<1>12. Set12(SetMax(neg, EMax, 2 * p), p, rn, inex, EMin, EMax) = o
  BY Zenon DEF SetMax, o, m
<1>13. o.y = SetMax(neg, EMax, p)
  BY <1>10, Zenon DEF SetMax, q2
<1> QED
  BY <1>11, <1>12, <1>13

\* An underflow of the first rounding.
LEMMA Set12Below ==
  ASSUME NEW p \in Precs, NEW e \in 1..MaxBits, e < MaxBits, NEW X, HasLength(X, e),
         NEW neg \in BOOLEAN, NEW g \in RoundingDirections, X < 2^((EMin + Scale) - 1), NEW V,
         V = (IF GoesUp(0, X, 2^((EMin + Scale) - 1), g, neg) THEN 2^((EMin + Scale) - 1) ELSE 0),
         NEW b, StandsFor(b.y, 2 * p, Scale, V), SignOf(b.inex) = Ternary(V, X, neg),
         \/ b.y = Zero(neg, 2 * p)
         \/ b.y = SetMin(neg, EMin, 2 * p) /\ b.inex = Signed(neg, 1),
         NEW rn \in Rnds
  PROVE  SubOutcome(Set12(b.y, p, rn, b.inex, EMin, EMax), p, X, V, neg)
<1> DEFINE E == EMin + Scale
           P == 2 * p
           o == Set12(b.y, p, rn, b.inex, EMin, EMax)
<1>1. /\ p \in Nat /\ p > 0 /\ P \in Nat /\ P > 0 /\ EMin \in Int /\ EMax \in Int /\ EMin <= EMax
      /\ E \in Nat /\ E > 0 /\ E - 1 \in Nat
  BY PrecisionsAre, RangesAre
<1>2. X \in Nat /\ 2^(E - 1) \in Nat /\ X < 2^(E - 1)
  BY <1>1, PowNat DEF HasLength
<1>3. CASE b.y = Zero(neg, P)
  <2>1. V = 0
    BY <1>3 DEF StandsFor, Zero
  <2>2. o.y = Zero(neg, p) /\ o.inex = b.inex
    BY <1>3, Set12OfSingular
  <2> HIDE DEF o
  <2>3. SubOutcome(o, p, X, V, neg)
    BY <2>1, <2>2 DEF SubOutcome, StandsFor, Fits, Zero
  <2> QED
    BY <2>3 DEF o
<1>4. CASE b.y = SetMin(neg, EMin, P) /\ b.inex = Signed(neg, 1)
  <2>1. V = 2^(E - 1)
    <3>1. \E k, f : Represents(k, P, f, V)
      BY <1>4 DEF StandsFor, SetMin, Num
    <3>2. \E f : HasLength(V, f)
      <4> HIDE DEF P
      <4> QED
        BY <1>1, <3>1, RepresentsLength
    <3>3. V # 0
      <4>1. PICK f : HasLength(V, f)
        BY <3>2
      <4>2. 2^(f - 1) <= V /\ f - 1 \in Nat
        BY <4>1 DEF HasLength
      <4> QED
        BY <4>2, PowNat
    <3> QED
      BY <3>3
  <2>2. Signed(neg, 1) \in Int /\ Signed(neg, Signed(neg, 1)) > 0
    BY SignedTwice
  <2>3. o.y = SetMin(neg, EMin, p) /\ o.inex \in Int /\ Signed(neg, o.inex) > 0
    BY <1>4, <2>2, Set12Min
  <2> HIDE DEF o
  <2>4. StandsFor(o.y, p, Scale, V) /\ Fits(o.y)
    <3>1. Represents(2^(p - 1), p, E, 2^(E - 1))
      BY <1>1, PowerRepresents
    <3> QED
      BY <1>1, <2>1, <2>3, <3>1 DEF StandsFor, Fits, SetMin, Num
  <2>5. SignOf(o.inex) = Ternary(V, X, neg)
    BY <1>2, <2>1, <2>3, RightSign
  <2>6. SubOutcome(o, p, X, V, neg)
    BY <2>4, <2>5 DEF SubOutcome
  <2> QED
    BY <2>6 DEF o
<1> QED
  BY <1>3, <1>4

\* An overflow of the first rounding.
LEMMA Set12Above ==
  ASSUME NEW p \in Precs, NEW e \in 1..MaxBits, e < MaxBits, NEW X, HasLength(X, e),
         NEW neg \in BOOLEAN, NEW rn \in Rnds, rn # "RNDF",
         NEW n \in 1..MaxBits, HasLength(RoundTo(X, p, rn, neg), n), n > EMax + Scale,
         TowardZero(rn, neg) => e > EMax + Scale,
         NEW b, b = Overflow(2 * p, rn, neg, EMax)
  PROVE  SubOutcome(Set12(b.y, p, rn, b.inex, EMin, EMax), p, X,
                    CorrectValue(X, p, rn, neg, EMin + Scale, EMax + Scale), neg)
<1> DEFINE E == EMin + Scale
           F == EMax + Scale
           P == 2 * p
           V == CorrectValue(X, p, rn, neg, E, F)
           o == Set12(b.y, p, rn, b.inex, EMin, EMax)
<1>1. /\ p \in Nat /\ p > 0 /\ P \in Nat /\ P > 0 /\ EMin \in Int /\ EMax \in Int /\ EMin <= EMax
      /\ E \in Nat /\ E > 0 /\ F \in Nat /\ E <= F /\ p <= F /\ Scale \in Nat
      /\ F < MaxBits /\ MaxBits \in Nat
  BY PrecisionsAre, RangesAre
<1>2. X \in Nat /\ 2^(e - 1) <= X /\ X < 2^e
  BY DEF HasLength
<1>3. ValueFor(X, p, rn, neg, E, F, n, V)
  <2> HIDE DEF E, F
  <2> QED
    BY <1>1, CorrectValueIs
<1>4. V = IF TowardZero(rn, neg) THEN (2^p - 1) * 2^(F - p) ELSE Infinity
  <2>1. E <= n /\ n > F
    BY <1>1
  <2> HIDE DEF E, F, V
  <2> QED
    BY <1>3, <2>1 DEF ValueFor
<1> HIDE DEF V
<1>5. IsLikeRNDZ(rn, neg) <=> TowardZero(rn, neg)
  <2>1. CASE rn = "RNDN"
    BY <2>1 DEF IsLikeRNDZ, TowardZero
  <2>2. CASE rn # "RNDN"
    BY <2>2, LikeIs
  <2> QED
    BY <2>1, <2>2
<1>6. CASE TowardZero(rn, neg)
  <2>1. b.y = SetMax(neg, EMax, P) /\ b.inex = Signed(neg, -1)
    BY <1>5, <1>6 DEF Overflow, Return
  <2>2. Signed(neg, -1) \in Int /\ Signed(neg, Signed(neg, -1)) < 0
    BY SignedDown
  <2>3. o.y = SetMax(neg, EMax, p) /\ o.inex \in Int /\ Signed(neg, o.inex) < 0
    BY <1>6, <2>1, <2>2, Set12Max
  <2> HIDE DEF o
  <2> DEFINE M == (2^p - 1) * 2^(F - p)
  <2>4. Represents(2^p - 1, p, F, M) /\ M < 2^F
    <3> HIDE DEF F
    <3> QED
      BY <1>1, MaxRepresents
  <2>5. V = M /\ M \in Nat
    BY <1>4, <1>6, <2>4 DEF Represents
  <2>6. M < X
    <3>1. F <= e - 1 /\ e - 1 \in Nat
      BY <1>1, <1>6
    <3>2. 2^F <= 2^(e - 1) /\ 2^F \in Nat /\ 2^(e - 1) \in Nat
      <4> HIDE DEF F
      <4> QED
        BY <1>1, <3>1, PowMonotone, PowNat
    <3> HIDE DEF M
    <3> QED
      BY <1>2, <2>4, <2>5, <3>2
  <2> HIDE DEF M
  <2>7. StandsFor(o.y, p, Scale, V) /\ Fits(o.y)
    <3>1. SetMax(neg, EMax, p).kind = "num" /\ SetMax(neg, EMax, p).prec = p
          /\ SetMax(neg, EMax, p).exp = EMax /\ SetMax(neg, EMax, p).mant = 2^p - 1
      BY DEF SetMax, Num
    <3> QED
      BY <1>1, <2>3, <2>4, <2>5, <3>1 DEF StandsFor, Fits
  <2>8. SignOf(o.inex) = Ternary(V, X, neg)
    BY <1>2, <2>3, <2>5, <2>6, RightSign
  <2>9. SubOutcome(o, p, X, V, neg)
    BY <2>7, <2>8 DEF SubOutcome
  <2> QED
    BY <2>9 DEF o, V
<1>7. CASE ~ TowardZero(rn, neg)
  <2>1. b.y = Inf(neg, P) /\ b.inex = Signed(neg, 1)
    BY <1>5, <1>7 DEF Overflow, Return
  <2>2. o.y = Inf(neg, p) /\ o.inex = Signed(neg, 1)
    BY <2>1, Set12OfSingular
  <2> HIDE DEF o
  <2>3. V = Infinity
    BY <1>4, <1>7
  <2>4. Infinity \in Nat /\ Infinity > X
    <3>1. 2^e \in Nat /\ 2^MaxBits \in Nat /\ 2^e < 2^MaxBits
      BY <1>1, PowNat, PowStrict
    <3> QED
      BY <1>2, <3>1 DEF Infinity
  <2>5. SignOf(Signed(neg, 1)) = Ternary(V, X, neg)
    <3>1. Signed(neg, 1) \in Int /\ Signed(neg, Signed(neg, 1)) > 0
      BY SignedTwice
    <3> QED
      BY <1>2, <2>3, <2>4, <3>1, RightSign
  <2>6. SubOutcome(o, p, X, V, neg)
    BY <2>2, <2>3, <2>5 DEF SubOutcome, StandsFor, Fits, Inf
  <2> QED
    BY <2>6 DEF o, V
<1> QED
  BY <1>6, <1>7

\* mpfr_set_1_2 after a function delivers what one rounding would have.
LEMMA Set12Delivers ==
  ASSUME NEW p \in Precs, NEW e \in 1..MaxBits, e < MaxBits, NEW X, HasLength(X, e),
         NEW neg \in BOOLEAN, NEW rn \in Rnds, rn # "RNDF",
         NEW b, b = FirstResult(X, neg, 2 * p, rn, EMin, EMax)
  PROVE  SubOutcome(Set12(b.y, p, rn, b.inex, EMin, EMax), p, X,
                    CorrectValue(X, p, rn, neg, EMin + Scale, EMax + Scale), neg)
<1> DEFINE E == EMin + Scale
           F == EMax + Scale
           P == 2 * p
           Y == RoundTo(X, P, rn, neg)
<1>1. /\ p \in Nat /\ p > 0 /\ P \in Nat /\ P > 0 /\ EMin \in Int /\ EMax \in Int /\ EMin <= EMax
      /\ E \in Nat /\ E >= 2 /\ E > 0 /\ F \in Nat /\ E <= F /\ P <= E /\ P <= F /\ Scale \in Nat
  BY PrecisionsAre, RangesAre
<1>2. X \in Nat /\ 2^(e - 1) <= X /\ X < 2^e
  BY DEF HasLength
<1>3. PICK x \in Int, m \in Nat, t \in Int : FirstIs(X, neg, P, rn, EMin, EMax, e, x, m, t)
  <2> HIDE DEF P
  <2> QED
    BY <1>1, FirstRounds
<1> DEFINE z == Num(neg, x, m, P)
<1>4. Definite(rn) = rn /\ rn \in RoundingDirections \ {"RNDNA"} /\ Asked(rn) = rn /\ rn \in RoundingDirections
  BY DEF Definite, Rnds, RoundingDirections, Asked
<1>5. /\ b = CheckRange(z, t, rn, EMin, EMax)
      /\ x = e - Scale \/ (x = e - Scale + 1 /\ Y > X)
      /\ Represents(m, P, x + Scale, Y)
      /\ SignOf(t) = Ternary(Y, X, neg)
  BY <1>3, <1>4 DEF FirstIs
<1>6. z.kind = "num" /\ z.exp = x /\ z.prec = P /\ z.neg = neg
  BY DEF Num
<1>7. Y \in Nat
  BY <1>5 DEF Represents
<1>8. CASE EMin <= x /\ x <= EMax
  <2>1. b = Return(z, t, {})
    <3> HIDE DEF z
    <3> QED
      BY <1>1, <1>5, <1>6, <1>8 DEF CheckRange
  <2>2. b.y = Num(neg, x, m, 2 * p) /\ b.inex = t
    BY <2>1 DEF Return
  <2>3. SubOutcome(Set12(Num(neg, x, m, 2 * p), p, rn, t, EMin, EMax), p, X,
                   CorrectValue(X, p, rn, neg, EMin + Scale, EMax + Scale), neg)
    BY <1>5, <1>8, Set12InRange
  <2> QED
    BY <2>2, <2>3, Zenon
<1>9. CASE x < EMin
  <2> DEFINE V == CorrectValue(X, P, rn, neg, E, F)
             up == GoesUp(0, X, 2^(E - 1), rn, neg)
  <2>1. Delivers(b, P, Scale, X, rn, neg, E, F)
    <3>1. IsOneRounding(m, P, x + Scale, t, X, rn, neg, EMin + Scale)
      <4>1. /\ Y > X => Signed(neg, t) > 0
            /\ Y < X => Signed(neg, t) < 0
            /\ Y = X => t = 0
        <5> HIDE DEF Y
        <5> QED
          BY <1>2, <1>5, <1>7, TernarySides
      <4> HIDE DEF P
      <4> QED
        BY <1>1, <1>2, <1>4, <1>5, <1>7, <4>1, RightRounding
    <3>2. LET c == CheckRange(Num(neg, x, m, P), t, Asked(rn), EMin, EMax) IN
          Delivers(c, P, Scale, X, rn, neg, EMin + Scale, EMax + Scale)
      <4> HIDE DEF P
      <4> QED
        BY <1>1, <1>4, <3>1, CheckRangeRight
    <3> QED
      BY <1>4, <1>5, <3>2, Zenon
  <2>2. StandsFor(b.y, P, Scale, V) /\ SignOf(b.inex) = Ternary(V, X, neg)
    BY <2>1 DEF Delivers
  <2>3. X < 2^(E - 1)
    <3> DEFINE n == x + Scale
    <3>1. HasLength(Y, n)
      <4> HIDE DEF P, n, Y
      <4> QED
        BY <1>1, <1>5, RepresentsLength DEF n
    <3>2. n \in 1..MaxBits
      <4> HIDE DEF P, n
      <4> QED
        BY <1>1, <3>1, RoundedLengthIs
    <3>3. n < E
      BY <1>1, <1>9
    <3> HIDE DEF P, n, E, F
    <3> QED
      BY <1>1, <3>1, <3>2, <3>3, CorrectValueIs
  <2>4. V = IF up THEN 2^(E - 1) ELSE 0
    <3> HIDE DEF P, E, F
    <3> QED
      BY <1>1, <1>4, <2>3, BelowValue
  <2>5. CorrectValue(X, p, rn, neg, E, F) = IF up THEN 2^(E - 1) ELSE 0
    <3> HIDE DEF E, F
    <3> QED
      BY <1>1, <1>4, <2>3, BelowValue
  <2>6. \/ b.y = Zero(neg, P)
        \/ b.y = SetMin(neg, EMin, P) /\ b.inex = Signed(neg, 1)
    <3>1. \E rr : b = Underflow(P, rr, neg, EMin)
      <4> DEFINE rr == IF rn = "RNDN" /\ HalfwayToZero(z, t, EMin) THEN "RNDZ" ELSE rn
      <4>1. ~ (x > EMax)
        BY <1>1, <1>9
      <4> HIDE DEF z, P
      <4>2. b = Underflow(P, rr, neg, EMin)
        BY <1>5, <1>6, <1>9, <4>1 DEF CheckRange
      <4> QED
        BY <4>2
    <3> QED
      BY <3>1 DEF Underflow, Return
  <2>7. CorrectValue(X, p, rn, neg, E, F) = V
    BY <2>4, <2>5
  <2>8. SubOutcome(Set12(b.y, p, rn, b.inex, EMin, EMax), p, X, V, neg)
    <3> HIDE DEF V
    <3> QED
      BY <1>4, <2>2, <2>3, <2>4, <2>6, Set12Below
  <2> QED
    BY <2>7, <2>8, Zenon
<1>10. CASE x > EMax
  <2>1. PICK n \in 1..MaxBits : HasLength(RoundTo(X, p, rn, neg), n) /\ n >= x + Scale
    BY <1>5, NotShorter
  <2>2. n > EMax + Scale
    BY <1>1, <1>10, <2>1
  <2>3. TowardZero(rn, neg) => e > EMax + Scale
    <3>1. TowardZero(rn, neg) => Y <= X
      <4> HIDE DEF P
      <4> QED
        BY <1>1, RoundToBounds
    <3>2. TowardZero(rn, neg) => x = e - Scale
      <4> HIDE DEF Y
      <4> QED
        BY <1>2, <1>5, <1>7, <3>1
    <3> QED
      BY <1>1, <1>10, <3>2
  <2>4. b = Overflow(2 * p, rn, neg, EMax)
    <3>1. ~ (x < EMin)
      BY <1>1, <1>10
    <3>2. b = Overflow(P, rn, neg, EMax)
      <4> HIDE DEF z, P
      <4> QED
        BY <1>5, <1>6, <1>10, <3>1 DEF CheckRange
    <3> QED
      BY <3>2
  <2> QED
    BY <2>1, <2>2, <2>3, <2>4, Set12Above
<1> QED
  BY <1>1, <1>8, <1>9, <1>10

FaithfulFma(o, p, X, neg) ==
  \E g \in {"RNDZ", "RNDA"} :
     /\ StandsFor(o.y, p, Scale, CorrectValue(X, p, g, neg, EMin + Scale, EMax + Scale))
     /\ Fits(o.y)

\* An infinity is faithful if the rounding away from zero overflows.
LEMMA FaithfulInfinity ==
  ASSUME NEW p \in Precs, NEW e \in 1..MaxBits, e < MaxBits, NEW X, HasLength(X, e), NEW neg \in BOOLEAN,
         NEW n, HasLength(RoundTo(X, p, "RNDA", neg), n), n > EMax + Scale, NEW o, o.y = Inf(neg, p)
  PROVE  FaithfulFma(o, p, X, neg)
<1> DEFINE E == EMin + Scale
           F == EMax + Scale
           V == CorrectValue(X, p, "RNDA", neg, E, F)
<1>1. p \in Nat /\ p > 0 /\ E \in Nat /\ E > 0 /\ F \in Nat /\ E <= F
  BY PrecisionsAre, RangesAre
<1>2. n \in 1..MaxBits
  BY <1>1, RoundedLengthIs
<1>3. ValueFor(X, p, "RNDA", neg, E, F, n, V)
  <2> HIDE DEF E, F
  <2> QED
    BY <1>1, <1>2, CorrectValueIs
<1>4. ~ TowardZero("RNDA", neg)
  BY DEF TowardZero
<1>5. E <= n /\ n > F
  BY <1>1, <1>2
<1> HIDE DEF E, F, V
<1>6. V = Infinity
  BY <1>3, <1>4, <1>5 DEF ValueFor
<1>7. StandsFor(o.y, p, Scale, V) /\ Fits(o.y)
  BY <1>6 DEF StandsFor, Fits, Inf
<1> QED
  BY <1>7 DEF FaithfulFma, V, E, F

\* A number in the range that is one of the two roundings is faithful.
LEMMA FaithfulNumber ==
  ASSUME NEW p \in Precs, NEW e \in 1..MaxBits, e < MaxBits, NEW X, HasLength(X, e), NEW neg \in BOOLEAN,
         NEW g \in {"RNDZ", "RNDA"}, NEW z \in Int, NEW k, EMin <= z, z <= EMax,
         Represents(k, p, z + Scale, RoundTo(X, p, g, neg)), NEW o, o.y = Num(neg, z, k, p)
  PROVE  FaithfulFma(o, p, X, neg)
<1> DEFINE E == EMin + Scale
           F == EMax + Scale
           n == z + Scale
           V == CorrectValue(X, p, g, neg, E, F)
           Y == RoundTo(X, p, g, neg)
<1>1. p \in Nat /\ p > 0 /\ E \in Nat /\ E > 0 /\ F \in Nat /\ E <= F /\ EMin \in Int /\ EMax \in Int
  BY PrecisionsAre, RangesAre
<1>2. HasLength(Y, n)
  <2> HIDE DEF Y, n
  <2> QED
    BY <1>1, RepresentsLength DEF Y, n
<1>3. n \in 1..MaxBits
  <2> HIDE DEF n
  <2> QED
    BY <1>1, <1>2, RoundedLengthIs
<1>4. ValueFor(X, p, g, neg, E, F, n, V)
  <2> HIDE DEF E, F, n
  <2> QED
    BY <1>1, <1>2, <1>3, CorrectValueIs
<1>5. E <= n /\ n <= F
  BY RangesAre
<1>6. V = Y
  <2> HIDE DEF E, F, n, V, Y
  <2> QED
    BY <1>4, <1>5 DEF ValueFor, Y
<1>7. o.y.kind = "num" /\ o.y.prec = p /\ o.y.exp = z /\ o.y.mant = k
  BY DEF Num
<1> HIDE DEF V, E, F, Y
<1>8. StandsFor(o.y, p, Scale, V) /\ Fits(o.y)
  BY <1>1, <1>6, <1>7 DEF StandsFor, Fits, Y
<1> QED
  BY <1>8 DEF FaithfulFma, V, E, F

\* MPFR_RNDF from twice the precision.
LEMMA FaithfulInRange ==
  ASSUME NEW p \in Precs, NEW e \in 1..MaxBits, e < MaxBits, NEW X, HasLength(X, e), NEW neg \in BOOLEAN,
         NEW x \in Int, EMin <= x, x <= EMax, NEW m,
         Represents(m, 2 * p, x + Scale, RoundTo(X, 2 * p, "RNDZ", neg))
  PROVE  FaithfulFma(Set12(Num(neg, x, m, 2 * p), p, "RNDF", 0, EMin, EMax), p, X, neg)
<1>1. p \in Nat /\ p > 0
  BY PrecisionsAre
<1>2. Scale \in Nat /\ MaxBits \in Nat /\ EMin \in Int /\ EMax \in Int
  BY RangesAre
<1>3. X \in Nat
  BY DEF HasLength
<1> DEFINE P == 2 * p
           Y == RoundTo(X, P, "RNDZ", neg)
           f == x + Scale
           d == X - Y
           o == Set12(Num(neg, x, m, P), p, "RNDF", 0, EMin, EMax)
<1>4. P \in Nat /\ P > 0 /\ p <= P /\ p < P
  BY <1>1
<1>5. m \in Nat /\ IsSignificand(m, P) /\ f \in Nat /\ Y \in Nat /\ Represents(m, P, f, Y)
  BY DEF Represents, IsSignificand
<1>6. PICK u2 \in Nat, q2 \in Nat, r2 \in Nat : Cut(m, P, p, u2, q2, r2)
  <2> HIDE DEF P
  <2> QED
    BY <1>1, <1>4, <1>5, CutExistsUpTo
<1>7. u2 # 1 /\ u2 > 0
  BY <1>1, <1>6, TwicePrec
<1>8. d \in Int /\ d >= 0
  <2>1. Y <= X
    <3>1. TowardZero("RNDZ", neg)
      BY DEF TowardZero
    <3> HIDE DEF P
    <3> QED
      BY <1>4, <3>1, RoundToBounds
  <2> HIDE DEF Y
  <2> QED
    BY <1>3, <1>5, <2>1
<1>9. Hesitates(X, Y, p, f, q2, r2, u2, neg)
  <2>1. ARounding(X, Y, P, neg)
    BY DEF ARounding
  <2> HIDE DEF P, Y, f
  <2> QED
    BY <1>1, <1>4, <1>5, <1>6, <2>1, Hesitation
<1>10. PICK K \in Int, Kp \in Int, Km \in Int : Candidates(X, p, f, q2, r2, u2, d, neg, K, Kp, Km)
  BY <1>9 DEF Hesitates
<1> HIDE DEF d
<1>11. RoundTo(X, p, "RNDZ", neg) = K /\ (r2 # 0 => RoundTo(X, p, "RNDA", neg) = Kp)
  <2>1. "RNDZ" \in ToOneSide /\ "RNDA" \in ToOneSide
    BY DEF ToOneSide
  <2> HIDE DEF f
  <2>2. RoundTo(X, p, "RNDZ", neg) = IF r2 = 0 /\ d < 0 THEN Km ELSE K
    BY <1>10, <2>1 DEF Candidates
  <2>3. RoundTo(X, p, "RNDA", neg) = IF r2 # 0 \/ d > 0 THEN Kp ELSE K
    BY <1>10, <2>1 DEF Candidates
  <2> QED
    BY <1>8, <2>2, <2>3
<1>12. ASSUME o.y = Num(neg, x, q2, p) PROVE FaithfulFma(o, p, X, neg)
  <2>1. Represents(q2, p, x + Scale, RoundTo(X, p, "RNDZ", neg))
    BY <1>10, <1>11 DEF Candidates
  <2> HIDE DEF o
  <2> QED
    BY <1>12, <2>1, FaithfulNumber
<1>13. CASE p < W
  <2>1. SidesAre(neg, 0, 0)
    BY DEF SidesAre, Signed
  <2>2. PICK up \in BOOLEAN : up <=> r2 # 0
    OBVIOUS
  <2>3. up <=> SetUp("RNDF", neg, q2, r2, u2, 0)
    BY <2>2 DEF SetUp, IsLikeRNDZ
  <2>4. Set12Gives(o, neg, x, q2, p, up, r2, 0)
    <3>1. "RNDF" \in Rnds
      BY DEF Rnds
    <3> QED
      BY <1>1, <1>5, <1>6, <1>13, <2>1, <2>3, <3>1, Set12OneLimb
  <2> HIDE DEF o
  <2>5. CASE ~ up
    <3>1. Grown(neg, x, q2, p, up) = Num(neg, x, q2, p)
      BY <2>5 DEF Grown
    <3>2. o.y = Num(neg, x, q2, p)
      BY <2>4, <2>5, <3>1 DEF Set12Gives
    <3> QED
      BY <1>12, <3>2 DEF o
  <2>6. CASE up
    <3>1a. PICK z \in Int : \E k : /\ Grown(neg, x, q2, p, up) = Num(neg, z, k, p)
                                   /\ Represents(k, p, z + Scale, RoundTo(X, p, "RNDA", neg))
                                   /\ z >= x
      <4>1. PlaceOf(f, x) /\ f \in Nat
        BY <1>5 DEF PlaceOf
      <4>2. GrownTo(neg, x, q2, p, up, K, Kp)
        <5> HIDE DEF f
        <5> QED
          BY <1>1, <1>8, <1>10, <2>2, <4>1, GrownFor
      <4>3. RoundTo(X, p, "RNDA", neg) = IF up THEN Kp ELSE K
        BY <1>11, <2>2, <2>6
      <4> QED
        BY <4>2, <4>3, Zenon DEF GrownTo
    <3>1. PICK k : /\ Grown(neg, x, q2, p, up) = Num(neg, z, k, p)
                   /\ Represents(k, p, z + Scale, RoundTo(X, p, "RNDA", neg))
                   /\ z >= x
      BY <3>1a
    <3>2. Num(neg, z, k, p).exp = z
      BY DEF Num
    <3>3. CASE o.y = Num(neg, z, k, p) /\ z <= EMax
      <4>1. EMin <= z
        BY <1>2, <3>1
      <4>2. FaithfulFma(o, p, X, neg)
        BY <3>1, <3>3, <4>1, FaithfulNumber
      <4> QED
        BY <4>2 DEF o
    <3>4. CASE o.y = Inf(neg, p) /\ z > EMax
      <4>1. HasLength(RoundTo(X, p, "RNDA", neg), z + Scale)
        BY <1>1, <3>1, RepresentsLength
      <4>2. z + Scale > EMax + Scale
        BY <1>2, <3>4
      <4>3. FaithfulFma(o, p, X, neg)
        BY <3>4, <4>1, <4>2, FaithfulInfinity
      <4> QED
        BY <4>3 DEF o
    <3> QED
      BY <2>4, <3>1, <3>2, <3>3, <3>4 DEF Set12Gives
  <2> QED
    BY <2>5, <2>6
<1>14. CASE p >= W
  <2> DEFINE s == RndRawGen(m, P, p, "RNDF", neg, ToEven)
  <2>1. s = Significand(q2, p, TruncDoit) \/ (s.mant = q2 /\ s.carry = 0 /\ s.dir = 0)
    <3>1. "RNDF" \in Rnds
      BY DEF Rnds
    <3> HIDE DEF P
    <3> QED
      BY <1>1, <1>4, <1>5, <1>6, <3>1, RndRawGenIs
  <2>2. IsSignificand(q2, p)
    BY <1>10 DEF Candidates, Represents
  <2>3. s.mant = q2 /\ s.carry = 0 /\ s.dir = 0
    <3> HIDE DEF s
    <3> QED
      BY <1>1, <2>1, <2>2, TruncatedIs
  <2>4. RndRaw(m, 2 * p, p, "RNDF", neg) = s
    BY DEF RndRaw
  <2> HIDE DEF s
  <2>5. /\ RndRaw(m, 2 * p, p, "RNDF", neg).mant = q2 /\ RndRaw(m, 2 * p, p, "RNDF", neg).carry = 0
        /\ RndRaw(m, 2 * p, p, "RNDF", neg).dir = 0
    BY <2>3, <2>4
  <2>6. Set12Large(Num(neg, x, m, 2 * p), p, "RNDF", 0, EMin, EMax).y = Num(neg, x, q2, p)
    BY <1>1, <2>5, LargeKeeps
  <2>7. o = Set12Large(Num(neg, x, m, 2 * p), p, "RNDF", 0, EMin, EMax)
    BY <1>1, <1>14, Set12MoreLimbs
  <2>8. o.y = Num(neg, x, q2, p)
    BY <2>6, <2>7, Zenon
  <2> QED
    BY <1>12, <2>8
<1> QED
  BY <1>1, <1>13, <1>14, RoundingAssumption

\* mpfr_set_1_2 in MPFR_RNDF is faithful.
LEMMA Set12Faithful ==
  ASSUME NEW p \in Precs, NEW e \in 1..MaxBits, e < MaxBits, NEW X, HasLength(X, e), NEW neg \in BOOLEAN,
         NEW b, b = FirstResult(X, neg, 2 * p, "RNDF", EMin, EMax)
  PROVE  FaithfulFma(Set12(b.y, p, "RNDF", b.inex, EMin, EMax), p, X, neg)
<1> DEFINE E == EMin + Scale
           F == EMax + Scale
           P == 2 * p
           Y == RoundTo(X, P, "RNDZ", neg)
           o == Set12(b.y, p, "RNDF", b.inex, EMin, EMax)
<1>1. /\ p \in Nat /\ p > 0 /\ P \in Nat /\ P > 0 /\ EMin \in Int /\ EMax \in Int /\ EMin <= EMax
      /\ E \in Nat /\ E >= 2 /\ E > 0 /\ F \in Nat /\ E <= F /\ Scale \in Nat
  BY PrecisionsAre, RangesAre
<1>2. X \in Nat /\ 2^(e - 1) <= X /\ X < 2^e
  BY DEF HasLength
<1>3. "RNDF" \in Rnds /\ Definite("RNDF") = "RNDZ" /\ TowardZero("RNDZ", neg) /\ ~ IsLikeRNDZ("RNDF", neg)
  BY DEF Rnds, Definite, TowardZero, IsLikeRNDZ
<1>4. PICK x \in Int, m \in Nat, t \in Int : FirstIs(X, neg, P, "RNDF", EMin, EMax, e, x, m, t)
  <2> HIDE DEF P
  <2> QED
    BY <1>1, <1>3, FirstRounds
<1> DEFINE z == Num(neg, x, m, P)
<1>5. /\ b = CheckRange(z, t, "RNDF", EMin, EMax)
      /\ x = e - Scale \/ (x = e - Scale + 1 /\ Y > X)
      /\ Represents(m, P, x + Scale, Y)
      /\ t = 0
  BY <1>3, <1>4 DEF FirstIs
<1>6. z.kind = "num" /\ z.exp = x /\ z.prec = P /\ z.neg = neg
  BY DEF Num
<1>7. x = e - Scale
  <2>1. Y \in Nat /\ Y <= X
    <3> HIDE DEF P
    <3> QED
      BY <1>1, <1>3, RoundToBounds
  <2> HIDE DEF Y
  <2> QED
    BY <1>2, <1>5, <2>1
<1>8. CASE EMin <= x /\ x <= EMax
  <2>1. b = Return(z, 0, {})
    <3> HIDE DEF z
    <3> QED
      BY <1>1, <1>5, <1>6, <1>8 DEF CheckRange
  <2>2. b.y = Num(neg, x, m, 2 * p) /\ b.inex = 0
    BY <2>1 DEF Return
  <2>3. FaithfulFma(Set12(Num(neg, x, m, 2 * p), p, "RNDF", 0, EMin, EMax), p, X, neg)
    BY <1>5, <1>8, FaithfulInRange
  <2> QED
    BY <2>2, <2>3, Zenon
<1>9. CASE x < EMin
  <2>1. b.y = SetMin(neg, EMin, 2 * p) /\ b.inex = Signed(neg, 1)
    <3>1. b = Underflow(P, "RNDF", neg, EMin)
      <4>1. ~ (x > EMax)
        BY <1>1, <1>9
      <4> HIDE DEF z, P
      <4> QED
        BY <1>5, <1>6, <1>9, <4>1 DEF CheckRange
    <3> QED
      BY <1>3, <3>1 DEF Underflow, Return
  <2>2. Signed(neg, 1) \in Int /\ Signed(neg, Signed(neg, 1)) > 0
    BY SignedTwice
  <2>3. o.y = SetMin(neg, EMin, p)
    BY <1>3, <2>1, <2>2, Set12Min
  <2>4. X < 2^(E - 1)
    <3>1. e <= E - 1 /\ e \in Nat /\ E - 1 \in Nat
      BY <1>1, <1>7, <1>9
    <3>2. 2^e <= 2^(E - 1) /\ 2^e \in Nat /\ 2^(E - 1) \in Nat
      BY <3>1, PowMonotone, PowNat
    <3> QED
      BY <1>2, <3>2
  <2>5. CorrectValue(X, p, "RNDA", neg, E, F) = 2^(E - 1)
    <3>1. "RNDA" \in RoundingDirections /\ X # 0
      BY <1>2, PowNat DEF RoundingDirections, HasLength
    <3>2. GoesUp(0, X, 2^(E - 1), "RNDA", neg)
      BY <3>1 DEF GoesUp
    <3> HIDE DEF E, F
    <3>3. CorrectValue(X, p, "RNDA", neg, E, F) = IF GoesUp(0, X, 2^(E - 1), "RNDA", neg) THEN 2^(E - 1) ELSE 0
      BY <1>1, <2>4, <3>1, BelowValue
    <3> QED
      BY <3>2, <3>3
  <2>6. StandsFor(o.y, p, Scale, 2^(E - 1)) /\ Fits(o.y)
    <3>1. Represents(2^(p - 1), p, E, 2^(E - 1))
      BY <1>1, PowerRepresents
    <3> HIDE DEF o
    <3> QED
      BY <1>1, <2>3, <3>1 DEF StandsFor, Fits, SetMin, Num
  <2> HIDE DEF o
  <2>7. FaithfulFma(o, p, X, neg)
    BY <2>5, <2>6 DEF FaithfulFma
  <2> QED
    BY <2>7 DEF o
<1>10. CASE x > EMax
  <2>1. b.y = Inf(neg, 2 * p)
    <3>1. b = Overflow(P, "RNDF", neg, EMax)
      <4>1. ~ (x < EMin)
        BY <1>1, <1>10
      <4> HIDE DEF z, P
      <4> QED
        BY <1>5, <1>6, <1>10, <4>1 DEF CheckRange
    <3> QED
      BY <1>3, <3>1 DEF Overflow, Return
  <2>2. o.y = Inf(neg, p)
    BY <2>1, Set12OfSingular
  <2>3. PICK n \in 1..MaxBits : HasLength(RoundTo(X, p, "RNDA", neg), n) /\ (n = e \/ n = e + 1)
    BY <1>1, RoundedLength
  <2>4. n > EMax + Scale
    BY <1>1, <1>7, <1>10, <2>3
  <2> HIDE DEF o
  <2>5. FaithfulFma(o, p, X, neg)
    BY <2>2, <2>3, <2>4, FaithfulInfinity
  <2> QED
    BY <2>5 DEF o
<1> QED
  BY <1>1, <1>8, <1>9, <1>10

\* |a*b + c| and |a*b + c*d| have fewer than MaxBits bits.
LEMMA SumsAre ==
  ASSUME NEW p \in Precs, NEW X \in SumsOfProducts[p]
  PROVE  \E e \in 1..MaxBits : e < MaxBits /\ HasLength(X, e)
<1>1. /\ p \in Nat /\ p > 0 /\ EMin \in Int /\ EMax \in Int /\ EMin <= EMax
      /\ 2 * p <= EMin + Scale /\ Scale \in Nat /\ EMax + Scale + 1 < MaxBits /\ MaxBits \in Nat
  BY PrecisionsAre, RangesAre
<1>2. X \in (IF p >= W /\ 2 * Limbs(p) # Limbs(2 * p) THEN {}
             ELSE {Abs(m * 2^(e + Scale - 2 * p) + s * n * 2^(f + Scale - 2 * p)) :
                     m \in Products(p), n \in IF p < W THEN Addends(p) ELSE Products(p),
                     e \in EMin+1..EMax, f \in EMin..EMax, s \in {1, -1}} \ {0})
  BY DEF SumsOfProducts
<1>3. PICK m \in Products(p), n \in (IF p < W THEN Addends(p) ELSE Products(p)),
           e \in EMin+1..EMax, f \in EMin..EMax, s \in {1, -1} :
             X = Abs(m * 2^(e + Scale - 2 * p) + s * n * 2^(f + Scale - 2 * p))
  BY <1>2
<1>4. X # 0
  BY <1>2
<1> DEFINE M == 2^(2 * p)
<1>5. \A a, b \in Significands(p) : a * b \in Nat /\ a * b < M
  <2>1. M = 2^p * 2^p /\ 2^p \in Nat
    <3>1. 2^(p + p) = 2^p * 2^p /\ 2^p \in Nat
      BY <1>1, PowAdd, PowNat
    <3>2. p + p = 2 * p
      BY <1>1
    <3> QED
      BY <3>1, <3>2, Zenon
  <2>2. ASSUME NEW a \in Significands(p), NEW b \in Significands(p)
        PROVE  a * b \in Nat /\ a * b < M
    <3>1. 2^(p - 1) \in Nat /\ p - 1 \in Nat
      <4>1. p - 1 \in Nat
        BY <1>1
      <4> QED
        BY <4>1, PowNat
    <3>2. a \in Nat /\ b \in Nat /\ a < 2^p /\ b < 2^p
      BY <2>1, <3>1 DEF Significands
    <3> DEFINE q == 2^p
    <3>3. a * b <= a * q /\ a * q < q * q
      <4>1. a \in Nat /\ b \in Nat /\ q \in Nat /\ a + 1 <= q /\ b <= q
        BY <2>1, <3>2
      <4> HIDE DEF q
      <4>2. b * a <= q * a
        BY <4>1, MulMono
      <4>3. (a + 1) * q <= q * q /\ (a + 1) * q = a * q + q /\ q > 0
        BY <4>1, MulMono
      <4>4. a * q \in Nat /\ q * q \in Nat /\ b * a = a * b /\ q * a = a * q
        BY <4>1
      <4> QED
        BY <4>1, <4>2, <4>3, <4>4
    <3>4. a * b \in Nat /\ a * q \in Nat /\ q * q \in Nat
      BY <2>1, <3>2
    <3> QED
      BY <2>1, <3>3, <3>4
  <2> QED
    BY <2>2
<1>6. \A c \in Significands(p) : c * 2^p \in Nat /\ c * 2^p < M
  <2>1. M = 2^p * 2^p /\ 2^p \in Nat /\ 2^p > 0
    <3>1. 2^(p + p) = 2^p * 2^p /\ 2^p \in Nat /\ 2^p > 0
      BY <1>1, PowAdd, PowNat
    <3>2. p + p = 2 * p
      BY <1>1
    <3> QED
      BY <3>1, <3>2, Zenon
  <2> SUFFICES ASSUME NEW c \in Significands(p)
               PROVE  c * 2^p \in Nat /\ c * 2^p < M
    OBVIOUS
  <2>2. 2^(p - 1) \in Nat
    <3>1. p - 1 \in Nat
      BY <1>1
    <3> QED
      BY <3>1, PowNat
  <2> DEFINE q == 2^p
  <2>3. c \in Nat /\ c + 1 <= q /\ q \in Nat /\ q > 0 /\ M = q * q
    BY <2>1, <2>2 DEF Significands
  <2> HIDE DEF q, M
  <2>4. (c + 1) * q <= q * q /\ (c + 1) * q = c * q + q
    BY <2>3, MulMono
  <2>5. c * q \in Nat /\ q * q \in Nat
    BY <2>3
  <2>6. c * q \in Nat /\ c * q < M
    BY <2>3, <2>4, <2>5
  <2> QED
    BY <2>6 DEF q
<1>7. m \in Nat /\ n \in Nat /\ m < M /\ n < M
  <2>1. \A i \in Products(p) : i \in Nat /\ i < M
    BY <1>5 DEF Products
  <2>2. \A i \in Addends(p) : i \in Nat /\ i < M
    BY <1>6, <2>1 DEF Addends
  <2> QED
    BY <1>3, <2>1, <2>2
<1> DEFINE G == EMax + Scale - 2 * p
           ue == 2^(e + Scale - 2 * p)
           uf == 2^(f + Scale - 2 * p)
           ug == 2^G
           k == EMax + Scale + 1
<1>8. ue \in Nat /\ uf \in Nat /\ ug \in Nat /\ ue <= ug /\ uf <= ug
  <2>1. /\ e + Scale - 2 * p \in Nat /\ f + Scale - 2 * p \in Nat /\ G \in Nat
        /\ e + Scale - 2 * p <= G /\ f + Scale - 2 * p <= G
    BY <1>1
  <2> QED
    BY <2>1, PowNat, PowMonotone
<1>9. M * ug = 2^(EMax + Scale) /\ 2^k = 2 * 2^(EMax + Scale) /\ 2^(EMax + Scale) \in Nat
  <2>1. 2 * p \in Nat /\ G \in Nat /\ 2 * p + G = EMax + Scale /\ EMax + Scale \in Nat
    BY <1>1
  <2>2. 2^(2 * p + G) = M * ug
    BY <2>1, PowAdd
  <2>3. 2^(EMax + Scale + 1) = 2 * 2^(EMax + Scale) /\ 2^(EMax + Scale) \in Nat
    BY <2>1, PowSucc, PowNat
  <2> QED
    BY <2>1, <2>2, <2>3, Zenon
<1>10. M \in Nat /\ M > 0 /\ k \in Nat /\ 2^k \in Nat /\ ug > 0
  <2>1. 2 * p \in Nat /\ k \in Nat /\ G \in Nat
    BY <1>1
  <2> QED
    BY <2>1, PowNat
<1>11. X = Abs(m * ue + s * n * uf)
  BY <1>3
<1> HIDE DEF M, ue, uf, ug
<1>12. m * ue < M * ug /\ n * uf < M * ug /\ m * ue \in Nat /\ n * uf \in Nat /\ M * ug \in Nat
  <2>1. \A i, v \in Nat : i < M /\ v <= ug => i * v < M * ug /\ i * v \in Nat
    <3> SUFFICES ASSUME NEW i \in Nat, NEW v \in Nat, i + 1 <= M, v <= ug
                 PROVE  i * v < M * ug /\ i * v \in Nat
      BY <1>10
    <3>1. v * i <= ug * i
      BY <1>8, MulMono
    <3>2. (i + 1) * ug <= M * ug /\ (i + 1) * ug = i * ug + ug
      BY <1>8, <1>10, MulMono
    <3>3. v * i = i * v /\ ug * i = i * ug /\ i * v \in Nat /\ i * ug \in Nat /\ M * ug \in Nat
      BY <1>8, <1>10
    <3> QED
      BY <1>8, <1>10, <3>1, <3>2, <3>3
  <2> QED
    BY <1>7, <1>8, <1>10, <2>1
<1> DEFINE A == m * ue
           B == n * uf
           T == M * ug
<1>13. s * n * uf = B \/ s * n * uf = -B
  <2>1. s * n = n \/ s * n = -n
    BY <1>7
  <2>2. (-n) * uf = -(n * uf)
    BY <1>7, <1>8
  <2> QED
    BY <2>1, <2>2
<1>14. A \in Nat /\ B \in Nat /\ T \in Nat /\ A < T /\ B < T /\ 2^k = 2 * T
  BY <1>9, <1>12
<1>15. X = Abs(A + B) \/ X = Abs(A - B)
  <2>1. A + (-B) = A - B
    BY <1>14
  <2> QED
    BY <1>11, <1>13, <2>1
<1> HIDE DEF A, B, T
<1>16. X \in Nat /\ X < 2 * T
  BY <1>14, <1>15 DEF Abs
<1>17. X > 0 /\ X < 2^k
  BY <1>4, <1>14, <1>16
<1>18. PICK l \in 1..k : HasLength(X, l)
  BY <1>10, <1>16, <1>17, LengthExists
<1>19. l \in 1..MaxBits /\ l < MaxBits
  BY <1>1, <1>18
<1> QED
  BY <1>18, <1>19


\* Keeping the flags raised before changes neither the number nor the ternary value.
LEMMA Set12Keeps ==
  ASSUME NEW y, NEW p, NEW g, NEW old, NEW b
  PROVE  LET s == Set12(y, p, g, old, EMin, EMax) IN
         Passed(s, b).y = s.y /\ Passed(s, b).inex = s.inex
  BY DEF Passed

\* What mpfr_fma and mpfr_fmma leave to mpfr_set_1_2 is rounded once.
LEMMA FmaIsRight ==
  ASSUME StagesInv, pc = "done", job = "set_1_2"
  PROVE  OneRounding(rnd)
<1> DEFINE X == exact.x
           neg == exact.neg
           b == First(2 * prec)
           o == Set12(b.y, prec, rnd, b.inex, EMin, EMax)
<1>1. prec \in Precs /\ neg \in BOOLEAN /\ rnd \in Rnds /\ X \in Exacts(job, prec)
  BY DEF StagesInv
<1>2. PICK e \in 1..MaxBits : e < MaxBits /\ HasLength(X, e)
  <2>1. X \in SumsOfProducts[prec]
    BY <1>1 DEF Exacts
  <2> QED
    BY <1>1, <2>1, SumsAre
<1>3. b = FirstResult(X, neg, 2 * prec, rnd, EMin, EMax)
  BY DEF First, FirstRnd, FirstEMin, FirstEMax, Extended
<1>4. r = Passed(o, b)
  <2>1. PICK p \in FirstPrecs(job, prec) : r = DoneWith(First(p))
    BY DEF StagesInv
  <2>2. p = 2 * prec
    BY <2>1 DEF FirstPrecs
  <2> QED
    BY <2>1, <2>2 DEF DoneWith
<1> HIDE DEF b
<1>5. r.y = o.y /\ r.inex = o.inex
  BY <1>4, Set12Keeps
<1>6. CASE rnd # "RNDF"
  <2> DEFINE V == CorrectValue(X, prec, rnd, neg, EMin + Scale, EMax + Scale)
  <2>1. SubOutcome(o, prec, X, V, neg)
    BY <1>1, <1>2, <1>3, <1>6, Set12Delivers
  <2> HIDE DEF V, o
  <2>2. Value(r.y) = V /\ SignOf(r.inex) = Ternary(V, X, neg)
    BY <1>1, <1>5, <2>1, ValueIs DEF SubOutcome
  <2> QED
    BY <1>6, <2>2 DEF OneRounding, SameAs, Expected, V
<1>7. CASE rnd = "RNDF"
  <2>1. FaithfulFma(o, prec, X, neg)
    BY <1>1, <1>2, <1>3, <1>7, Set12Faithful
  <2> HIDE DEF o
  <2>2. PICK d \in {"RNDZ", "RNDA"} :
           StandsFor(o.y, prec, Scale, CorrectValue(X, prec, d, neg, EMin + Scale, EMax + Scale)) /\ Fits(o.y)
    BY <2>1 DEF FaithfulFma
  <2>3. Value(r.y) = Expected(prec, d)
    BY <1>1, <1>5, <2>2, ValueIs DEF Expected
  <2> QED
    BY <1>7, <2>3 DEF OneRounding
<1> QED
  BY <1>6, <1>7

\* AtomicRounding holds of every execution.
THEOREM AtomicIsRight == Spec => []AtomicRounding
<1>1. StagesInv => AtomicRounding
  BY CacheIsRight, FmaIsRight DEF AtomicRounding
<1> QED
  BY <1>1, Stages, PTL
================================================================================
