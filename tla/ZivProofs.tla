------------------------------ MODULE ZivProofs ------------------------------
(***************************************************************************)
(* A function computed as Ziv.tla says keeps CorrectFunction's promise     *)
(* for every range, precision, error bound and approximation.  Three facts *)
(* on numbers carry the proof:                                             *)
(*                                                                         *)
(*  - an approximation that passes MPFR_CAN_ROUND is on the same side of   *)
(*    every breakpoint as the exact result, which has too many bits to be  *)
(*    one (TestedApproximation), so it rounds as the exact result does;    *)
(*  - so does a number v nearer to the result than mpfr_round_near_x asks, *)
(*    or v is a number of the precision and the side of the result tells   *)
(*    which neighbour is meant (NearXOutcome);                             *)
(*  - what one of them leaves in a range, its ternary value and the flags  *)
(*    that were kept are all that mpfr_check_range needs to deliver the    *)
(*    result in the user's range (BackExact, BackFaithful).                *)
(***************************************************************************)
EXTENDS Ziv, RoundingProofs

-----------------------------------------------------------------------------
(* The operators of the promise are those of RealRounding                  *)

\* The promise counts bits and rounds as the model does.
LEMMA SameRoundTo ==
  ASSUME NEW X, NEW p, NEW g, NEW neg
  PROVE  /\ Promise!BitLength(X) = BitLength(X)
         /\ Promise!RoundTo(X, p, g, neg) = RoundTo(X, p, g, neg)
<1>1. \A Z : Promise!BitLength(Z) = BitLength(Z)
  BY Zenon DEF Promise!BitLength, BitLength
<1>2. Promise!Ulp(X, p) = Ulp(X, p)
  BY <1>1, Zenon DEF Promise!Ulp, Ulp
<1>3. \A u : Promise!RoundToMultiple(X, u, g, neg) = RoundToMultiple(X, u, g, neg)
  BY DEF Promise!RoundToMultiple, RoundToMultiple
<1> QED
  BY <1>1, <1>2, <1>3, Zenon DEF Promise!RoundTo, RoundTo

\* Its correct values and flags are those of RealRounding.
LEMMA SamePromise ==
  ASSUME NEW X, NEW p, NEW g, NEW neg, NEW E, NEW F
  PROVE  /\ Promise!CorrectValue(X, p, g, neg, E, F) = CorrectValue(X, p, g, neg, E, F)
         /\ Promise!CorrectFlags(X, p, g, neg, E, F) = CorrectFlags(X, p, g, neg, E, F)
<1>1. \A Z : Promise!BitLength(Z) = BitLength(Z)
  BY SameRoundTo
<1>2. Promise!RoundTo(X, p, g, neg) = RoundTo(X, p, g, neg)
  BY SameRoundTo
<1>3. \A u : Promise!RoundToMultiple(X, u, g, neg) = RoundToMultiple(X, u, g, neg)
  BY DEF Promise!RoundToMultiple, RoundToMultiple
<1>4. Promise!TowardZero(g, neg) = TowardZero(g, neg) /\ Promise!Infinity = Infinity
  BY DEF Promise!TowardZero, TowardZero, Promise!Infinity, Infinity
<1>5. Promise!CorrectValue(X, p, g, neg, E, F) = CorrectValue(X, p, g, neg, E, F)
  BY <1>1, <1>2, <1>3, <1>4 DEF Promise!CorrectValue, CorrectValue
<1>6. Promise!CorrectFlags(X, p, g, neg, E, F) = CorrectFlags(X, p, g, neg, E, F)
  BY <1>1, <1>2, <1>5, Zenon DEF Promise!CorrectFlags, CorrectFlags
<1> QED
  BY <1>5, <1>6

\* So is its ternary value.
LEMMA SameTernary ==
  ASSUME NEW X, NEW Y, NEW neg
  PROVE  Promise!Ternary(Y, X, neg) = Ternary(Y, X, neg)
<1>1. \A i : Promise!SignOf(i) = SignOf(i)
  BY DEF Promise!SignOf, SignOf
<1> QED
  BY <1>1, Zenon DEF Promise!Ternary, Ternary

-----------------------------------------------------------------------------
(* Room between two numbers of the precision                               *)

\* What lies strictly between two consecutive multiples is not a multiple.
LEMMA BetweenOff ==
  ASSUME NEW X \in Nat, NEW Q \in Nat, NEW U \in Nat, Between(X, Q, U), NEW i \in Int
  PROVE  X # i * U
<1>1. SUFFICES ASSUME X = i * U PROVE FALSE
  OBVIOUS
<1>2. Q * U < X /\ X < (Q + 1) * U
  BY DEF Between
<1>3. CASE i <= Q
  <2>1. i * U <= Q * U
    BY <1>3, MulMono
  <2> QED
    BY <2>1, <1>1, <1>2
<1>4. CASE i >= Q + 1
  <2>1. (Q + 1) * U <= i * U
    BY <1>4, MulMono
  <2> QED
    BY <2>1, <1>1, <1>2
<1> QED
  BY <1>3, <1>4

\* S units of N bits make one of w bits.
UnitOf(S, w, N) == w <= N /\ Power(S, N - w)

\* The cut of a significand after p bits, in smaller units.
LEMMA ScaledCut ==
  ASSUME NEW w \in Nat, NEW k \in Nat, NEW p \in Nat, p <= w,
         NEW u \in Nat, NEW q \in Nat, NEW r \in Nat, Cut(k, w, p, u, q, r),
         NEW N \in Nat, NEW S \in Nat, UnitOf(S, w, N),
         NEW C \in Nat, IsProduct(C, k, S), NEW U \in Nat, IsProduct(U, u, S), NEW R \in Nat, IsProduct(R, r, S)
  PROVE  Cut(C, N, p, U, q, R)
<1>0. w <= N /\ Power(S, N - w)
  BY DEF UnitOf
<1>1. u = 2^(w - p) /\ u > 0 /\ r < u /\ k = q * u + r
  BY DEF Cut
<1>2. w - p \in Nat /\ N - w \in Nat /\ (w - p) + (N - w) = N - p
  BY <1>0
<1>3. 2^((w - p) + (N - w)) = 2^(w - p) * 2^(N - w) /\ 2^(N - w) > 0
  BY <1>2, PowAdd, PowNat
<1>4. S > 0 /\ S = 2^(N - w)
  BY <1>0, <1>3 DEF Power
<1>5. U = 2^(N - p)
  BY <1>1, <1>2, <1>3, <1>4, Zenon DEF IsProduct
<1>6. C = k * S /\ U = u * S /\ R = r * S
  BY DEF IsProduct
<1>7. R < U
  <2>1. r * S < u * S <=> r < u
    BY <1>4, LessTimes
  <2> QED
    BY <2>1, <1>1, <1>6
<1>8. C = q * U + R
  <2>1. (q * u + r) * S = q * (u * S) + r * S
    OBVIOUS
  <2> QED
    BY <2>1, <1>1, <1>6
<1> QED
  BY <1>4, <1>5, <1>7, <1>8 DEF Cut

SameDecision(q, r, u, R, U, g, neg) ==
  /\ R = 0 <=> r = 0
  /\ 2 * R = U <=> 2 * r = u
  /\ GoesUp(q, R, U, g, neg) <=> GoesUp(q, r, u, g, neg)

\* The decision does not depend on the unit.
LEMMA ScaledGoesUp ==
  ASSUME NEW u \in Nat, NEW q \in Nat, NEW r \in Nat, NEW S \in Nat, S > 0,
         NEW U \in Nat, IsProduct(U, u, S), NEW R \in Nat, IsProduct(R, r, S), NEW g, NEW neg
  PROVE  SameDecision(q, r, u, R, U, g, neg)
<1>1. U = u * S /\ R = r * S /\ 2 * R = (2 * r) * S /\ 0 = 0 * S
  BY DEF IsProduct
<1>2. /\ u * S < (2 * r) * S <=> u < 2 * r
      /\ (2 * r) * S < u * S <=> 2 * r < u
      /\ 0 * S < r * S <=> 0 < r
  BY LessTimes
<1>3. /\ U < 2 * R <=> u < 2 * r
      /\ 2 * R < U <=> 2 * r < u
      /\ 0 < R <=> 0 < r
  BY <1>1, <1>2
<1> HIDE DEF IsProduct
<1>4. /\ R = 0 <=> r = 0
      /\ 2 * R = U <=> 2 * r = u
      /\ 2 * R > U <=> 2 * r > u
      /\ 2 * R >= U <=> 2 * r >= u
  BY <1>1, <1>3
<1> QED
  BY <1>4 DEF GoesUp, SameDecision

\* InsideIs, for a number C of N bits that is the number b of n bits in smaller units.
LEMMA InsideAt ==
  ASSUME NEW n \in Nat, n > 0, NEW b, IsSignificand(b, n), NEW N \in Nat, n <= N,
         NEW S \in Nat, Power(S, N - n), NEW C, IsProduct(C, b, S),
         NEW p \in Nat, p > 0, p < N, NEW cb \in Nat, cb > 0, cb <= N,
         NEW u \in Nat, NEW q \in Nat, NEW r \in Nat, p <= n => Cut(b, n, p, u, q, r),
         NEW U \in Nat, NEW Q \in Nat, NEW R \in Nat, Cut(C, N, p, U, Q, R),
         NEW E \in Nat, Power(E, N - cb)
  PROVE  Clear(E, R, U) <=> Enough(p, n, cb, r, u)
<1> DEFINE k == N - n
<1>1. k \in Nat /\ n + k = N
  OBVIOUS
<1>2. Power(S, k)
  OBVIOUS
<1> HIDE DEF k
<1>3. Cut(b * S, n + k, p, U, Q, R)
  BY <1>1, Zenon DEF IsProduct
<1>4. Power(E, (n + k) - cb) /\ p < n + k /\ cb <= n + k
  BY <1>1
<1> QED
  BY <1>1, <1>2, <1>3, <1>4, InsideIs

\* The limbs of w bits.
LEMMA LimbsHold ==
  ASSUME NEW w \in Nat, w > 0
  PROVE  /\ (w + W - 1) \div W \in Nat
         /\ w <= ((w + W - 1) \div W) * W
<1>1. W \in Nat /\ W > 0
  BY RoundingAssumption
<1>2. w + W - 1 \in Nat
  BY <1>1
<1>3. PICK z \in Nat : z = w + W - 1
  BY <1>2
<1>4. /\ z \div W \in Nat /\ z % W < W /\ z % W \in Nat
      /\ z = (z \div W) * W + (z % W)
  BY <1>1, DivModExists
<1>5. w <= (z \div W) * W
  BY <1>1, <1>3, <1>4
<1> QED
  BY <1>3, <1>4, <1>5

\* When mpfr_round_p says yes for P bits of the w-bit significand k, with cb correct bits,
\* the whole interval around the number C lies between two consecutive numbers of P bits.
LEMMA Room ==
  ASSUME NEW w \in Nat, w > 0, NEW k, IsSignificand(k, w),
         NEW bn \in Nat, w <= bn * W,
         NEW cb \in Int, cb <= w, NEW P \in Nat, P > 0,
         RoundP(k * 2^(bn * W - w), bn, cb, P),
         NEW N \in Nat, w <= N, NEW S \in Nat, Power(S, N - w), NEW C, IsProduct(C, k, S),
         NEW E \in Nat, Power(E, N - cb)
  PROVE  /\ P < cb
         /\ \E Q \in Nat, U \in Nat :
              /\ IsSignificand(Q, P) /\ UlpOf(U, N, P)
              /\ Q * U + E <= C /\ C + E < (Q + 1) * U
<1>1. PICK n \in Nat : n = bn * W
  BY RoundingAssumption
<1>2. n - w \in Nat /\ n > 0
  BY <1>1
<1>3. PICK T \in Nat : Power(T, n - w)
  BY <1>2, PowNat DEF Power
<1>4. PICK b \in Nat : IsProduct(b, k, T)
  BY DEF IsProduct, IsSignificand
<1>5. b = k * 2^(bn * W - w)
  BY <1>1, <1>3, <1>4, Zenon DEF IsProduct, Power
<1>6. RoundP(b, bn, cb, P)
  BY <1>5, Zenon
<1>7. P < cb /\ cb \in Nat /\ cb > 0
  BY <1>6 DEF RoundP
<1>8. IsSignificand(b, n)
  <2>1. PICK l \in Nat : l = n - w
    BY <1>2
  <2>2. w + l = n
    BY <2>1
  <2>3. Power(T, l)
    BY <1>3, <2>1
  <2>4. IsSignificand(k * T, w + l)
    BY <2>3, Scaled
  <2> QED
    BY <2>4, <2>2, <1>4, Zenon DEF IsProduct
<1>9. P <= w /\ P < n /\ P < N /\ cb <= n /\ cb <= N
  BY <1>1, <1>7
<1>10. PICK u \in Nat, q \in Nat, r \in Nat : Cut(b, n, P, u, q, r)
  BY <1>9, CutExists
<1>11. Enough(P, n, cb, r, u)
  <2>1. ASSUME NEW nn \in Nat, nn = bn * W, nn > 0, Cut(b, nn, P, u, q, r) PROVE Enough(P, nn, cb, r, u)
    BY <2>1, <1>6, <1>7, <1>10, RoundPEnough
  <2> QED
    BY <2>1, <1>1, <1>2, <1>10
<1>12. PICK e \in Nat : Power(e, n - cb)
  BY <1>9, <1>7, PowNat DEF Power
<1>13. Clear(e, r, u)
  BY <1>11, <1>12, <1>9 DEF Enough, Power
<1>14. k \in Nat
  BY DEF IsSignificand
<1>15. PICK v \in Nat, x \in Nat, z \in Nat : Cut(k, w, P, v, x, z)
  BY <1>9, <1>14, CutExistsUpTo
<1>16. Enough(P, w, cb, z, v)
  <2>1. Clear(e, r, u) <=> Enough(P, w, cb, z, v)
    BY <1>1, <1>2, <1>3, <1>4, <1>7, <1>9, <1>10, <1>12, <1>15, InsideAt
  <2> QED
    BY <2>1, <1>13
<1>17. PICK U \in Nat, R \in Nat : IsProduct(U, v, S) /\ IsProduct(R, z, S)
  BY <1>15 DEF IsProduct
<1>18. C \in Nat /\ Cut(C, N, P, U, x, R)
  <2>1. P <= w
    BY <1>9
  <2>2. C \in Nat
    BY <1>14 DEF IsProduct
  <2>3. Cut(C, N, P, U, x, R)
    <3>1. UnitOf(S, w, N)
      BY DEF UnitOf
    <3> QED
      BY <2>1, <2>2, <1>14, <1>15, <1>17, <3>1, ScaledCut, ZenonT(40)
  <2> QED
    BY <2>2, <2>3
<1>19. Clear(E, R, U)
  <2>1. Clear(E, R, U) <=> Enough(P, w, cb, z, v)
    BY <1>7, <1>9, <1>15, <1>18, InsideAt
  <2> QED
    BY <2>1, <1>16
<1>20. IsSignificand(x, P)
  BY <1>9, <1>14, <1>15, CutIs
<1>21. UlpOf(U, N, P) /\ C = x * U + R
  BY <1>18 DEF Cut, UlpOf
<1>22. x * U + E <= C /\ C + E < (x + 1) * U
  BY <1>19, <1>21 DEF Clear
<1> QED
  BY <1>7, <1>15, <1>17, <1>20, <1>21, <1>22

-----------------------------------------------------------------------------
(* Rounding what lies in the room                                          *)

\* The bits that decide: MPFR_CAN_ROUND looks at one more for MPFR_RNDN.
Kept(g, p) == IF g = "RNDN" THEN p + 1 ELSE p

\* The nearest even number is one of the two ends.
LEMMA HalfUpIs ==
  ASSUME NEW Q \in Nat, NEW U \in Nat
  PROVE  HalfUp(Q, U) \in {Q * U, (Q + 1) * U}
<1>1. PICK h \in Nat, b \in {0, 1} : Q = h * 2 + b
  <2>1. Q = (Q \div 2) * 2 + (Q % 2) /\ Q \div 2 \in Nat /\ Q % 2 \in {0, 1}
    OBVIOUS
  <2> QED
    BY <2>1
<1>2. Q \div 2 = h /\ Q % 2 = b
  BY <1>1
<1>3. HalfUp(Q, U) = (h + b) * (2 * U)
  BY <1>2, Zenon DEF HalfUp
<1>4. CASE b = 0
  <2>1. (h + 0) * (2 * U) = (h * 2 + 0) * U
    OBVIOUS
  <2> QED
    BY <2>1, <1>1, <1>3, <1>4
<1>5. CASE b = 1
  <2>1. (h + 1) * (2 * U) = ((h * 2 + 1) + 1) * U
    OBVIOUS
  <2> QED
    BY <2>1, <1>1, <1>3, <1>5
<1> QED
  BY <1>4, <1>5

Alike(X, C, p, g, neg) ==
  LET Y == RoundTo(X, p, g, neg) IN
  /\ Y = RoundTo(C, p, g, neg)
  /\ Y \in Nat /\ Y # X /\ Y # C
  /\ Y > X <=> Y > C

\* Two numbers strictly between the same two consecutive numbers round alike, and are on the
\* same side of their rounding.
LEMMA BetweenAlike ==
  ASSUME NEW p \in Nat, p > 0, NEW N \in 1..MaxBits, NEW g \in Rnds \ {"RNDF"}, NEW neg \in BOOLEAN,
         NEW P \in Nat, P = Kept(g, p), P < N,
         NEW Q \in Nat, IsSignificand(Q, P), NEW U \in Nat, UlpOf(U, N, P),
         NEW C \in Nat, Between(C, Q, U), NEW X \in Nat, Between(X, Q, U)
  PROVE  Alike(X, C, p, g, neg)
<1>1. \E Y \in {Q * U, (Q + 1) * U} : RoundTo(X, p, g, neg) = Y /\ RoundTo(C, p, g, neg) = Y
  <2>1. CASE g = "RNDN"
    <3>1. P = p + 1
      BY <2>1 DEF Kept
    <3>2. p + 1 < N /\ IsSignificand(Q, p + 1) /\ UlpOf(U, N, p + 1)
      BY <3>1
    <3>3. \A Z \in Nat : Between(Z, Q, U) => RoundTo(Z, p, "RNDN", neg) = HalfUp(Q, U)
      BY <3>2, BetweenNearest
    <3>4. HalfUp(Q, U) \in {Q * U, (Q + 1) * U}
      BY HalfUpIs
    <3> QED
      BY <2>1, <3>3, <3>4
  <2>2. CASE g # "RNDN"
    <3>1. P = p
      BY <2>2 DEF Kept
    <3>2. p < N /\ IsSignificand(Q, p) /\ UlpOf(U, N, p) /\ g \notin {"RNDN", "RNDNA"}
      BY <2>2, <3>1 DEF Rnds
    <3>3. \A Z \in Nat : Between(Z, Q, U) =>
             RoundTo(Z, p, g, neg) = (IF Outward(g, neg) THEN Q + 1 ELSE Q) * U
      BY <3>2, BetweenDirected
    <3>4. /\ RoundTo(X, p, g, neg) = (IF Outward(g, neg) THEN Q + 1 ELSE Q) * U
          /\ RoundTo(C, p, g, neg) = (IF Outward(g, neg) THEN Q + 1 ELSE Q) * U
      BY <3>3
    <3> QED
      BY <3>4
  <2> QED
    BY <2>1, <2>2
<1>2. PICK lo \in Nat, hi \in Nat : lo = Q * U /\ hi = (Q + 1) * U
  OBVIOUS
<1>3. lo < X /\ X < hi /\ lo < C /\ C < hi
  BY <1>2 DEF Between
<1> QED
  BY <1>1, <1>2, <1>3 DEF Alike

\* s is the rounding of X to p bits, the exponent before the carry being N; MPFR_RNDF
\* truncates and says nothing.
Settled(s, N, X, p, g, neg) ==
  LET Y == RoundTo(X, p, Definite(g), neg) IN
  /\ s.carry \in {0, 1}
  /\ Represents(s.mant, p, N + s.carry, Y)
  /\ g = "RNDF" => s.carry = 0 /\ s.dir = 0
  /\ g # "RNDF" => /\ s.dir \in {-1, 1}
                   /\ s.dir = 1 <=> Y > X
                   /\ s.dir = -1 <=> Y < X
                   /\ s.carry = 1 => s.dir = 1

CarriesOnce(s, d) ==
  /\ s.carry \in {0, 1}
  /\ s.dir = d.dir
  /\ s.carry = 1 => d.up

\* There is a carry only when an ulp is added.
LEMMA SignificandCarries ==
  ASSUME NEW p \in Nat, p > 0, NEW q, IsSignificand(q, p), NEW d, d.up \in BOOLEAN
  PROVE  CarriesOnce(Significand(q, p, d), d)
BY SignificandIs DEF CarriesOnce

Chosen(q, U, d, Y) == Y = (IF d.up THEN q + 1 ELSE q) * U

\* The number that is kept, or the next one.
LEMMA SignificandChosen ==
  ASSUME NEW p \in Nat, p > 0, NEW N \in Nat, p <= N, NEW q, IsSignificand(q, p),
         NEW d, d.up \in BOOLEAN, NEW U, UlpOf(U, N, p), NEW Y, Chosen(q, U, d, Y)
  PROVE  LET s == Significand(q, p, d) IN Represents(s.mant, p, N + s.carry, Y)
<1>1. LET s == Significand(q, p, d) IN
      Represents(s.mant, p, N + s.carry, (IF d.up THEN q + 1 ELSE q) * 2^(N - p))
  BY SignificandRepresents
<1> QED
  BY <1>1, Zenon DEF UlpOf, Chosen

\* No number of p bits and, to nearest, no midpoint: what the cut after p bits leaves.
LEMMA NothingSpecial ==
  ASSUME NEW p \in Nat, p > 0, NEW N \in Nat, NEW g \in Rnds,
         NEW P \in Nat, P = Kept(g, p), P < N,
         NEW Q \in Nat, NEW U \in Nat, UlpOf(U, N, P), NEW C \in Nat, Between(C, Q, U),
         NEW v \in Nat, NEW q \in Nat, NEW r \in Nat, Cut(C, N, p, v, q, r)
  PROVE  r # 0 /\ (g = "RNDN" => 2 * r # v)
<1>1. C = q * v + r /\ v = 2^(N - p)
  BY DEF Cut
<1>2. U = 2^(N - P)
  BY DEF UlpOf
<1>3. \A i \in Nat : C # i * U
  BY BetweenOff
<1>4. CASE g # "RNDN"
  <2>1. P = p
    BY <1>4 DEF Kept
  <2>2. v = U
    BY <1>1, <1>2, <2>1
  <2> QED
    BY <1>1, <1>3, <1>4, <2>2
<1>5. CASE g = "RNDN"
  <2>1. P = p + 1
    BY <1>5 DEF Kept
  <2>2. N - p \in Nat /\ N - p # 0 /\ (N - p) - 1 = N - P
    BY <2>1
  <2>3. 2^(N - p) = 2 * 2^((N - p) - 1)
    BY <2>2, PowHalf
  <2>4. v = 2 * U
    BY <1>1, <1>2, <2>2, <2>3
  <2>5. C = q * (2 * U) + r
    BY <1>1, <2>4
  <2>6. q * (2 * U) + 0 = (2 * q) * U /\ q * (2 * U) + U = (2 * q + 1) * U
    OBVIOUS
  <2>7. 2 * q \in Nat /\ 2 * q + 1 \in Nat
    OBVIOUS
  <2>8. r # 0 /\ r # U
    BY <1>3, <2>5, <2>6, <2>7
  <2> QED
    BY <2>4, <2>8
<1> QED
  BY <1>4, <1>5

\* The rounding of the approximation is the rounding of X, whatever is done of a midpoint.
LEMMA TestSettles ==
  ASSUME NEW p \in Nat, p > 0, NEW g \in Rnds, NEW neg \in BOOLEAN, NEW middle,
         NEW w \in Nat, NEW k, IsSignificand(k, w), NEW N \in 1..MaxBits, w <= N,
         NEW S \in Nat, Power(S, N - w), NEW C \in Nat, IsProduct(C, k, S),
         NEW P \in Nat, P = Kept(g, p), P < w,
         NEW Q \in Nat, IsSignificand(Q, P), NEW U \in Nat, UlpOf(U, N, P),
         Between(C, Q, U), NEW X \in Nat, Between(X, Q, U)
  PROVE  Settled(RndRawGen(k, w, p, g, neg, middle), N, X, p, g, neg)
<1>1. k \in Nat /\ p < w /\ p < N /\ P < N /\ p <= w /\ N \in Nat
  BY DEF IsSignificand, Kept
<1>2. PICK u \in Nat, q \in Nat, r \in Nat : Cut(k, w, p, u, q, r)
  BY <1>1, CutExists
<1>3. PICK v \in Nat, z \in Nat : IsProduct(v, u, S) /\ IsProduct(z, r, S)
  BY DEF IsProduct
<1>4. Cut(C, N, p, v, q, z)
  <2>1. UnitOf(S, w, N)
    BY DEF UnitOf
  <2> QED
    BY <1>1, <1>2, <1>3, <2>1, ScaledCut, ZenonT(40)
<1>5. z # 0 /\ (g = "RNDN" => 2 * z # v)
  BY <1>1, <1>4, NothingSpecial
<1>6. S > 0
  BY PowNat DEF Power
<1>7. SameDecision(q, r, u, z, v, g, neg)
  BY <1>3, <1>6, ScaledGoesUp
<1>8. /\ z = 0 <=> r = 0
      /\ 2 * z = v <=> 2 * r = u
      /\ GoesUp(q, z, v, g, neg) <=> GoesUp(q, r, u, g, neg)
  BY <1>7 DEF SameDecision
<1>9. IsSignificand(q, p)
  BY <1>1, <1>2, CutIs
<1>10. v = 2^(N - p) /\ z < v /\ C = q * v + z
  BY <1>4 DEF Cut
<1>11. HasLength(C, N)
  <2>1. PICK l \in Nat : l = N - w
    BY <1>1
  <2>2. Power(S, l) /\ w + l = N /\ w > 0
    BY <2>1, <1>1
  <2>3. IsSignificand(k * S, w + l)
    BY <2>2, Scaled
  <2>4. IsSignificand(C, N)
    BY <2>2, <2>3, Zenon DEF IsProduct
  <2> QED
    BY <2>4, <1>1 DEF HasLength, IsSignificand
<1>12. SUFFICES ASSUME NEW s, s = RndRawGen(k, w, p, g, neg, middle)
               PROVE  Settled(s, N, X, p, g, neg)
  OBVIOUS
<1>13. CASE g = "RNDF"
  <2>1. s = Significand(q, p, TruncDoit)
    BY <1>12, <1>1, <1>2, <1>13, RndRawGenIs
  <2>2. s.mant = q /\ s.carry = 0 /\ s.dir = 0
    BY <2>1, <1>9, TruncatedIs
  <2>3. Represents(q, p, N, q * v)
    BY <1>1, <1>9, <1>10, RepresentsMultiple
  <2>4. RoundTo(C, p, "RNDZ", neg) = q * v
    <3>1. TowardZero("RNDZ", neg)
      BY DEF TowardZero
    <3>2. UlpOf(v, N, p) /\ q * v <= C /\ C < (q + 1) * v
      BY <1>9, <1>10 DEF UlpOf
    <3> QED
      BY <3>1, <3>2, <1>1, <1>9, FloorBetween
  <2>5. RoundTo(X, p, "RNDZ", neg) = q * v
    <3>1. PICK g2 \in Rnds \ {"RNDF"} : g2 = "RNDZ"
      BY DEF Rnds
    <3>2. P = Kept(g2, p)
      BY <3>1, <1>13 DEF Kept
    <3>3. Alike(X, C, p, g2, neg)
      BY <3>2, <1>1, BetweenAlike
    <3> QED
      BY <3>1, <3>3, <2>4 DEF Alike
  <2>6. N + 0 = N
    BY <1>1
  <2>7. Represents(s.mant, p, N + s.carry, RoundTo(X, p, Definite(g), neg))
    BY <1>13, <2>2, <2>3, <2>5, <2>6, Zenon DEF Definite
  <2> QED
    BY <2>2, <2>7, <1>13 DEF Settled
<1>14. CASE g # "RNDF"
  <2>1. PICK up \in BOOLEAN : up <=> GoesUp(q, r, u, g, neg)
    OBVIOUS
  <2>2. PICK d \in {AddOneUlp, Decision(FALSE, -1)} :
           d = IF up THEN AddOneUlp ELSE Decision(FALSE, -1)
    OBVIOUS
  <2>3. d = Step(q, r, u, g, neg)
    BY <1>5, <1>8, <2>1, <2>2, Zenon DEF Step
  <2>4. s = Significand(q, p, d)
    BY <1>12, <1>1, <1>2, <1>5, <1>8, <1>14, <2>3, RndRawGenIs
  <2>5. d.up = up /\ d.dir = IF up THEN 1 ELSE -1
    BY <2>2 DEF AddOneUlp, Decision
  <2>6. Represents(s.mant, p, N + s.carry, (IF d.up THEN q + 1 ELSE q) * 2^(N - p))
    BY <1>1, <1>9, <2>4, <2>5, SignificandRepresents
  <2>7. s.carry \in {0, 1} /\ s.dir = d.dir /\ (s.carry = 1 => d.up)
    <3>1. d.up \in BOOLEAN
      BY <2>5
    <3>2. CarriesOnce(Significand(q, p, d), d)
      BY <3>1, <1>9, SignificandCarries
    <3>3. CarriesOnce(s, d)
      BY <2>4, <3>2, Zenon
    <3> QED
      BY <3>3 DEF CarriesOnce
  <2>8. RoundTo(C, p, g, neg) = (IF up THEN q + 1 ELSE q) * v
    <3>1. RoundTo(C, p, g, neg) = (IF GoesUp(q, z, v, g, neg) THEN q + 1 ELSE q) * v
      BY <1>1, <1>4, <1>11, RoundToLong
    <3> QED
      BY <3>1, <1>8, <2>1, Zenon
  <2>9. Alike(X, C, p, g, neg)
    BY <1>1, <1>14, BetweenAlike
  <2>10. PICK Y \in Nat : Y = RoundTo(X, p, g, neg)
    BY <2>9 DEF Alike
  <2>11. Y # X /\ (Y > X <=> Y > C) /\ Y # C
    BY <2>9, <2>10 DEF Alike
  <2>12. Y = (IF up THEN q + 1 ELSE q) * v
    BY <2>8, <2>9, <2>10 DEF Alike
  <2>13. Y > C <=> up
    <3>1. q \in Nat
      OBVIOUS
    <3>2. CASE up
      BY <3>2, <1>10, <2>12
    <3>3. CASE ~ up
      BY <3>3, <1>10, <2>12
    <3> QED
      BY <3>2, <3>3
  <2>14. Definite(g) = g
    BY <1>14 DEF Definite
  <2>15. Represents(s.mant, p, N + s.carry, Y)
    BY <2>5, <2>6, <2>12, <1>10, Zenon
  <2>16. s.dir \in {-1, 1} /\ (s.dir = 1 <=> Y > X) /\ (s.dir = -1 <=> Y < X)
    BY <2>5, <2>7, <2>11, <2>13
  <2> QED
    BY <2>5, <2>7, <2>10, <2>14, <2>15, <2>16, <1>14 DEF Settled
<1> QED
  BY <1>13, <1>14

-----------------------------------------------------------------------------
(* Rounding what is very close to a number of the precision                *)

\* HalfUp by cases.
LEMMA HalfUpOf ==
  ASSUME NEW a \in Nat, NEW b \in {0, 1}, NEW U \in Nat
  PROVE  HalfUp(2 * a + b, U) = (a + b) * (2 * U)
<1>1. (2 * a + b) \div 2 = a /\ (2 * a + b) % 2 = b
  OBVIOUS
<1> QED
  BY <1>1, Zenon DEF HalfUp

\* A quarter of an ulp.
LEMMA Quarter ==
  ASSUME NEW p \in Nat, NEW N \in Nat, p + 2 <= N, NEW h \in Nat, UlpOf(h, N, p + 2)
  PROVE  /\ h > 0
         /\ UlpOf(2 * h, N, p + 1) /\ UlpOf(4 * h, N, p)
         /\ UlpOf(2 * h, N - 1, p) /\ UlpOf(h, N - 1, p + 1)
<1>1. PICK l \in Nat : l = N - (p + 2)
  OBVIOUS
<1>2. 2^(l + 1) = 2 * 2^l /\ 2^((l + 1) + 1) = 2 * 2^(l + 1) /\ 2^l > 0 /\ 2^l \in Nat
  BY PowSucc, PowNat
<1>3. /\ N - (p + 1) = l + 1 /\ N - p = (l + 1) + 1
      /\ (N - 1) - p = l + 1 /\ (N - 1) - (p + 1) = l
  BY <1>1
<1>4. h = 2^l
  BY <1>1 DEF UlpOf
<1>5. 2 * h = 2^(l + 1) /\ 4 * h = 2^((l + 1) + 1) /\ h > 0
  BY <1>2, <1>4
<1> QED
  BY <1>3, <1>4, <1>5 DEF UlpOf

\* Just above a number of p bits.
LEMMA AboveGrid ==
  ASSUME NEW p \in Nat, p > 0, NEW N \in 1..MaxBits, p + 2 <= N, NEW q \in Nat, IsSignificand(q, p),
         NEW h \in Nat, UlpOf(h, N, p + 2), NEW U \in Nat, UlpOf(U, N, p),
         NEW X \in Nat, q * U < X, X < q * U + h, NEW neg \in BOOLEAN
  PROVE  /\ RoundTo(X, p, "RNDN", neg) = q * U
         /\ \A g \in ToOneSide :
              RoundTo(X, p, g, neg) = (IF Outward(g, neg) THEN q + 1 ELSE q) * U
<1>1. h > 0 /\ UlpOf(2 * h, N, p + 1) /\ U = 4 * h
  BY Quarter DEF UlpOf
<1>2. Between(X, q, U)
  <2>1. (q + 1) * U = q * U + U /\ q * U \in Nat
    OBVIOUS
  <2> QED
    BY <1>1, <2>1 DEF Between
<1>3. IsSignificand(2 * q, p + 1)
  <2>1. 2^(p + 1) = 2 * 2^p /\ 2^p = 2 * 2^(p - 1) /\ (p + 1) - 1 = p
    BY PowSucc, PowHalf
  <2>2. 2^p \in Nat /\ 2^(p - 1) \in Nat
    BY PowNat
  <2> QED
    BY <2>1, <2>2 DEF IsSignificand
<1>4. Between(X, 2 * q, 2 * h)
  <2>1. (2 * q) * (2 * h) = q * (4 * h) /\ (2 * q + 1) * (2 * h) = q * (4 * h) + 2 * h
    OBVIOUS
  <2>2. q * (4 * h) < X /\ X < q * (4 * h) + h
    BY <1>1
  <2>3. PICK V \in Nat : V = q * (4 * h)
    OBVIOUS
  <2>4. (2 * q) * (2 * h) < X /\ X < (2 * q + 1) * (2 * h)
    BY <2>1, <2>2, <2>3
  <2> QED
    BY <2>4 DEF Between
<1>5. RoundTo(X, p, "RNDN", neg) = HalfUp(2 * q, 2 * h)
  <2>1. p + 1 < N /\ 2 * h \in Nat /\ 2 * q \in Nat
    OBVIOUS
  <2> QED
    BY <1>1, <1>3, <1>4, <2>1, BetweenNearest
<1>6. HalfUp(2 * q, 2 * h) = q * U
  <2>1. HalfUp(2 * q + 0, 2 * h) = (q + 0) * (2 * (2 * h))
    BY HalfUpOf
  <2>2. 2 * q + 0 = 2 * q /\ (q + 0) * (2 * (2 * h)) = q * (4 * h)
    OBVIOUS
  <2> QED
    BY <2>1, <2>2, <1>1
<1>7. ASSUME NEW g \in ToOneSide
      PROVE  RoundTo(X, p, g, neg) = (IF Outward(g, neg) THEN q + 1 ELSE q) * U
  <2>1. g \notin {"RNDN", "RNDNA"} /\ p < N
    BY DEF ToOneSide
  <2> QED
    BY <2>1, <1>2, BetweenDirected
<1> QED
  BY <1>5, <1>6, <1>7

\* The number of p bits below q*U, 2*h being half of U.
Previous(q, p, U, h) == IF q = 2^(p - 1) THEN (2^p - 1) * (2 * h) ELSE (q - 1) * U

\* Just below a number of p bits, which may be the first of its binade.
LEMMA BelowGrid ==
  ASSUME NEW p \in Nat, p > 0, NEW N \in 1..MaxBits, p + 2 <= N, NEW q \in Nat, IsSignificand(q, p),
         NEW h \in Nat, UlpOf(h, N, p + 2), NEW U \in Nat, UlpOf(U, N, p),
         NEW X \in Nat, q * U - h < X, X < q * U, NEW neg \in BOOLEAN
  PROVE  /\ RoundTo(X, p, "RNDN", neg) = q * U
         /\ \A g \in ToOneSide :
              RoundTo(X, p, g, neg) = IF Outward(g, neg) THEN q * U ELSE Previous(q, p, U, h)
<1>1. /\ h > 0 /\ UlpOf(2 * h, N, p + 1) /\ U = 4 * h
      /\ UlpOf(2 * h, N - 1, p) /\ UlpOf(h, N - 1, p + 1)
  BY Quarter DEF UlpOf
<1>2. 2^(p + 1) = 2 * 2^p /\ 2^p = 2 * 2^(p - 1) /\ (p + 1) - 1 = p /\ 2^p \in Nat /\ 2^(p - 1) \in Nat
  BY PowSucc, PowHalf, PowNat
<1>3. PICK V \in Nat : V = q * U
  OBVIOUS
<1>4. V - h < X /\ X < V
  BY <1>3
<1>5. CASE q # 2^(p - 1)
  <2>1. q - 1 \in Nat /\ IsSignificand(q - 1, p)
    BY <1>2, <1>5 DEF IsSignificand
  <2>2. Between(X, q - 1, U)
    <3>1. (q - 1) * U = V - U /\ ((q - 1) + 1) * U = V
      BY <1>3
    <3>2. (q - 1) * U < X /\ X < ((q - 1) + 1) * U
      BY <3>1, <1>1, <1>4
    <3> QED
      BY <3>2 DEF Between
  <2>3. IsSignificand(2 * q - 1, p + 1) /\ 2 * q - 1 \in Nat
    BY <1>2, <1>5, <2>1 DEF IsSignificand
  <2>4. Between(X, 2 * q - 1, 2 * h)
    <3>1. (2 * q - 1) * (2 * h) = q * (4 * h) - 2 * h /\ ((2 * q - 1) + 1) * (2 * h) = q * (4 * h)
      OBVIOUS
    <3>2. q * (4 * h) = V
      BY <1>1, <1>3
    <3>3. (2 * q - 1) * (2 * h) < X /\ X < ((2 * q - 1) + 1) * (2 * h)
      BY <3>1, <3>2, <1>1, <1>4
    <3> QED
      BY <3>3 DEF Between
  <2>5. RoundTo(X, p, "RNDN", neg) = HalfUp(2 * q - 1, 2 * h)
    <3>1. p + 1 < N /\ 2 * h \in Nat
      OBVIOUS
    <3> QED
      BY <1>1, <2>3, <2>4, <3>1, BetweenNearest
  <2>6. HalfUp(2 * q - 1, 2 * h) = q * U
    <3>1. PICK a \in Nat : q = a + 1
      BY <2>1
    <3>2. HalfUp(2 * a + 1, 2 * h) = (a + 1) * (2 * (2 * h))
      BY HalfUpOf
    <3>3. 2 * a + 1 = 2 * q - 1 /\ (a + 1) * (2 * (2 * h)) = q * (4 * h)
      BY <3>1
    <3> QED
      BY <3>2, <3>3, <1>1
  <2>7. ASSUME NEW g \in ToOneSide
        PROVE  RoundTo(X, p, g, neg) = IF Outward(g, neg) THEN q * U ELSE Previous(q, p, U, h)
    <3>1. g \notin {"RNDN", "RNDNA"} /\ p < N
      BY DEF ToOneSide
    <3>2. RoundTo(X, p, g, neg) = (IF Outward(g, neg) THEN (q - 1) + 1 ELSE q - 1) * U
      BY <3>1, <2>1, <2>2, BetweenDirected
    <3>3. Previous(q, p, U, h) = (q - 1) * U
      BY <1>5 DEF Previous
    <3>4. (q - 1) + 1 = q
      OBVIOUS
    <3> QED
      BY <3>2, <3>3, <3>4, Zenon
  <2> QED
    BY <2>5, <2>6, <2>7
<1>6. CASE q = 2^(p - 1)
  <2>1. /\ 2^p - 1 \in Nat /\ IsSignificand(2^p - 1, p)
        /\ 2^(p + 1) - 1 \in Nat /\ IsSignificand(2^(p + 1) - 1, p + 1)
        /\ 2^(p + 1) - 1 = 2 * (2^p - 1) + 1
    <3>1. 2^(p - 1) > 0
      BY PowNat
    <3> QED
      BY <1>2, <3>1 DEF IsSignificand
  <2>2. V = 2^p * (2 * h)
    <3>1. PICK c \in Nat : c = 2^(p - 1)
      BY <1>2
    <3>2. V = c * (4 * h)
      BY <1>1, <1>3, <1>6, <3>1
    <3>3. 2^p * (2 * h) = (2 * c) * (2 * h)
      BY <1>2, <3>1
    <3>4. c * (4 * h) = (2 * c) * (2 * h)
      OBVIOUS
    <3> QED
      BY <3>2, <3>3, <3>4
  <2>3. PICK M \in Nat : M = 2^p - 1
    BY <2>1
  <2>4. 2^p = M + 1 /\ V = (M + 1) * (2 * h) /\ 2^(p + 1) - 1 = 2 * M + 1
    BY <2>1, <2>2, <2>3, <1>2
  <2>5. Between(X, M, 2 * h)
    <3>1. M * (2 * h) = (M + 1) * (2 * h) - 2 * h
      OBVIOUS
    <3>2. M * (2 * h) < X /\ X < (M + 1) * (2 * h)
      BY <3>1, <2>4, <1>1, <1>4
    <3> QED
      BY <3>2 DEF Between
  <2>6. Between(X, 2 * M + 1, h)
    <3>1. (2 * M + 1) * h = (M + 1) * (2 * h) - h /\ ((2 * M + 1) + 1) * h = (M + 1) * (2 * h)
      OBVIOUS
    <3>2. (2 * M + 1) * h < X /\ X < ((2 * M + 1) + 1) * h
      BY <3>1, <2>4, <1>1, <1>4
    <3> QED
      BY <3>2 DEF Between
  <2>7. IsSignificand(M, p) /\ IsSignificand(2 * M + 1, p + 1)
    BY <2>1, <2>3, <2>4
  <2>8. N - 1 \in 1..MaxBits /\ p < N - 1 /\ p + 1 < N - 1
    <3>1. h # 1
      BY <1>4
    <3>2. N - (p + 2) # 0
      BY <3>1, PowZero DEF UlpOf
    <3> QED
      BY <3>2, RealRoundingAssumption
  <2>9. RoundTo(X, p, "RNDN", neg) = HalfUp(2 * M + 1, h)
    <3>1. 2 * M + 1 \in Nat
      OBVIOUS
    <3> QED
      BY <1>1, <2>6, <2>7, <2>8, <3>1, BetweenNearest
  <2>10. HalfUp(2 * M + 1, h) = q * U
    <3>1. HalfUp(2 * M + 1, h) = (M + 1) * (2 * h)
      BY HalfUpOf
    <3> QED
      BY <3>1, <2>4, <1>3
  <2>11. ASSUME NEW g \in ToOneSide
         PROVE  RoundTo(X, p, g, neg) = IF Outward(g, neg) THEN q * U ELSE Previous(q, p, U, h)
    <3>1. g \notin {"RNDN", "RNDNA"} /\ 2 * h \in Nat
      BY DEF ToOneSide
    <3>2. RoundTo(X, p, g, neg) = (IF Outward(g, neg) THEN M + 1 ELSE M) * (2 * h)
      BY <3>1, <1>1, <2>5, <2>7, <2>8, BetweenDirected
    <3>3. Previous(q, p, U, h) = M * (2 * h)
      BY <1>6, <2>3 DEF Previous
    <3>4. q * U = (M + 1) * (2 * h)
      BY <2>4, <1>3
    <3> QED
      BY <3>2, <3>3, <3>4, Zenon
  <2> QED
    BY <2>9, <2>10, <2>11
<1> QED
  BY <1>5, <1>6

\* The significand of the number of p bits below q*U, and where it lies.
LEMMA PreviousIs ==
  ASSUME NEW p \in Nat, p > 0, NEW N \in Nat, p + 2 <= N, NEW q \in Nat, IsSignificand(q, p),
         NEW h \in Nat, UlpOf(h, N, p + 2), NEW U \in Nat, UlpOf(U, N, p)
  PROVE  /\ Previous(q, p, U, h) \in Nat
         /\ Previous(q, p, U, h) <= q * U - 2 * h
         /\ q # 2^(p - 1) => Represents(q - 1, p, N, Previous(q, p, U, h))
         /\ q = 2^(p - 1) => Represents(2^p - 1, p, N - 1, Previous(q, p, U, h))
<1>1. h > 0 /\ U = 4 * h /\ UlpOf(2 * h, N - 1, p)
  BY Quarter DEF UlpOf
<1>2. 2^p = 2 * 2^(p - 1) /\ 2^p \in Nat /\ 2^(p - 1) \in Nat /\ 2^(p - 1) > 0
  BY PowHalf, PowNat
<1>3. PICK V \in Nat : V = q * U
  OBVIOUS
<1>4. CASE q # 2^(p - 1)
  <2>1. Previous(q, p, U, h) = (q - 1) * U
    BY <1>4 DEF Previous
  <2>2. q - 1 \in Nat /\ IsSignificand(q - 1, p)
    BY <1>2, <1>4 DEF IsSignificand
  <2>3. Represents(q - 1, p, N, (q - 1) * 2^(N - p))
    BY <2>2, RepresentsMultiple
  <2>4. (q - 1) * U = V - U /\ (q - 1) * U \in Nat
    BY <1>3, <2>2
  <2>5. U = 2^(N - p)
    BY DEF UlpOf
  <2>6. Represents(q - 1, p, N, Previous(q, p, U, h))
    BY <2>1, <2>3, <2>5, Zenon
  <2>7. PICK Y \in Nat : Y = (q - 1) * U
    BY <2>4
  <2> QED
    BY <1>1, <1>3, <1>4, <2>1, <2>4, <2>6, <2>7
<1>5. CASE q = 2^(p - 1)
  <2>1. Previous(q, p, U, h) = (2^p - 1) * (2 * h)
    BY <1>5 DEF Previous
  <2>2. N - 1 \in Nat /\ p <= N - 1
    OBVIOUS
  <2>3. Represents(2^p - 1, p, N - 1, (2^p - 1) * 2^((N - 1) - p))
    BY <2>2, MaxRepresents
  <2>4. 2 * h = 2^((N - 1) - p)
    BY <1>1 DEF UlpOf
  <2>5. Represents(2^p - 1, p, N - 1, Previous(q, p, U, h))
    BY <2>1, <2>3, <2>4, Zenon
  <2>6. PICK c \in Nat : c = 2^(p - 1)
    BY <1>2
  <2>7. 2^p = 2 * c /\ c > 0 /\ V = c * (4 * h)
    BY <1>1, <1>2, <1>3, <1>5, <2>6
  <2>8. (2 * c - 1) * (2 * h) = c * (4 * h) - 2 * h
    OBVIOUS
  <2>9. Previous(q, p, U, h) = V - 2 * h
    BY <2>1, <2>7, <2>8
  <2>10. Previous(q, p, U, h) \in Nat
    BY <2>5 DEF Represents
  <2> QED
    BY <1>3, <1>5, <2>5, <2>9, <2>10
<1> QED
  BY <1>4, <1>5

\* The number of p bits above q*U.
LEMMA FollowingIs ==
  ASSUME NEW p \in Nat, p > 0, NEW N \in Nat, p < N, NEW q \in Nat, IsSignificand(q, p),
         NEW U \in Nat, UlpOf(U, N, p)
  PROVE  /\ Represents(q, p, N, q * U)
         /\ q + 1 < 2^p => Represents(q + 1, p, N, (q + 1) * U)
         /\ q + 1 = 2^p => Represents(2^(p - 1), p, N + 1, (q + 1) * U)
<1>1. 2^(p - 1) <= q /\ q < 2^p /\ 2^p \in Nat
  BY PowNat DEF IsSignificand
<1>2. U = 2^(N - p)
  BY DEF UlpOf
<1>3. Represents(q, p, N, q * U)
  <2>1. Represents(q, p, N, q * 2^(N - p))
    BY RepresentsMultiple
  <2> QED
    BY <1>2, <2>1, Zenon
<1>4. ASSUME q + 1 < 2^p PROVE Represents(q + 1, p, N, (q + 1) * U)
  <2>1. PICK a \in Nat : a = q + 1
    OBVIOUS
  <2>2. IsSignificand(a, p)
    BY <1>1, <1>4, <2>1 DEF IsSignificand
  <2>3. Represents(a, p, N, a * 2^(N - p))
    BY <2>2, RepresentsMultiple
  <2> QED
    BY <1>2, <2>1, <2>3, Zenon
<1>5. ASSUME q + 1 = 2^p PROVE Represents(2^(p - 1), p, N + 1, (q + 1) * U)
  <2>1. PICK e \in Nat : e = N + 1
    OBVIOUS
  <2>2. Represents(2^(p - 1), p, e, 2^(e - 1))
    BY <2>1, PowerRepresents
  <2>3. e - 1 = N /\ N - p \in Nat
    BY <2>1
  <2>4. 2^N = 2^p * 2^(N - p)
    BY <2>3, PowSplit
  <2> QED
    BY <1>2, <1>5, <2>1, <2>2, <2>3, <2>4, Zenon
<1> QED
  BY <1>3, <1>4, <1>5

-----------------------------------------------------------------------------
(* Rounding what is very close to a number v of more bits                  *)

\* Less than G units away, when the last bit of k is worth at least 2*G of them: a number
\* that is not on the grid has X on the same side of every number of the grid.
LEMMA InsideCut ==
  ASSUME NEW w \in Nat, NEW k \in Nat, NEW P \in Nat,
         NEW u \in Nat, NEW q \in Nat, NEW r \in Nat, Cut(k, w, P, u, q, r), r # 0,
         NEW S \in Nat, NEW C \in Nat, IsProduct(C, k, S), NEW U \in Nat, IsProduct(U, u, S),
         NEW G \in Nat, 2 * G <= S, NEW X \in Nat, C - G < X, X < C + G
  PROVE  Between(C, q, U) /\ Between(X, q, U)
<1>1. r < u /\ k = q * u + r
  BY DEF Cut
<1>2. PICK R \in Nat : R = r * S
  OBVIOUS
<1>3. C = q * U + R
  <2>1. (q * u + r) * S = q * (u * S) + r * S
    OBVIOUS
  <2> QED
    BY <1>1, <1>2, <2>1 DEF IsProduct
<1>4. S <= R
  <2>1. 1 * S <= r * S
    BY MulMono
  <2> QED
    BY <1>2, <2>1
<1>5. R + S <= U
  <2>1. (r + 1) * S <= u * S
    BY <1>1, MulMono
  <2>2. (r + 1) * S = r * S + S
    OBVIOUS
  <2> QED
    BY <1>2, <2>1, <2>2 DEF IsProduct
<1>6. G < S /\ G > 0
  OBVIOUS
<1>7. (q + 1) * U = q * U + U /\ q * U \in Nat
  OBVIOUS
<1> QED
  BY <1>3, <1>4, <1>5, <1>6, <1>7 DEF Between

\* Neither a number of p bits nor a midpoint: not a number of p + 1 bits.
LEMMA OneMoreBit ==
  ASSUME NEW p \in Nat, NEW w \in Nat, p < w, NEW k \in Nat,
         NEW u \in Nat, NEW q \in Nat, NEW r \in Nat, Cut(k, w, p, u, q, r), r # 0, 2 * r # u,
         NEW v \in Nat, NEW x \in Nat, NEW z \in Nat, Cut(k, w, p + 1, v, x, z)
  PROVE  p + 1 < w /\ z # 0
<1>1. u = 2^(w - p) /\ r < u /\ k = q * u + r /\ v = 2^(w - (p + 1)) /\ k = x * v + z /\ v > 0
  BY DEF Cut
<1>2. u = 2 * v
  <2>1. w - p \in Nat /\ w - p # 0 /\ (w - p) - 1 = w - (p + 1)
    OBVIOUS
  <2>2. 2^(w - p) = 2 * 2^((w - p) - 1)
    BY <2>1, PowHalf
  <2> QED
    BY <1>1, <2>1, <2>2
<1>3. z # 0
  <2>1. SUFFICES ASSUME z = 0 PROVE FALSE
    OBVIOUS
  <2>2. PICK a \in Nat, b \in {0, 1} : x = a * 2 + b
    <3>1. x = (x \div 2) * 2 + (x % 2) /\ x \div 2 \in Nat /\ x % 2 \in {0, 1}
      OBVIOUS
    <3> QED
      BY <3>1
  <2>3. (a * 2 + b) * v = a * (2 * v) + b * v
    OBVIOUS
  <2>4. PICK c \in Nat : c = b * v
    OBVIOUS
  <2>5. a * u + c = q * u + r
    BY <1>1, <1>2, <2>1, <2>2, <2>3, <2>4
  <2>6. c = 0 \/ c = v
    BY <2>4
  <2>7. c < u
    BY <1>1, <1>2, <2>6
  <2>8. r < u
    BY <1>1
  <2>9. c = r
    BY <2>5, <2>7, <2>8, SameDivision
  <2> QED
    BY <1>2, <2>6, <2>9
<1>4. p + 1 < w
  <2>1. SUFFICES ASSUME w = p + 1 PROVE FALSE
    OBVIOUS
  <2>2. w - (p + 1) = 0
    BY <2>1
  <2>3. v = 1
    BY <1>1, <2>2, PowZero
  <2> QED
    BY <1>1, <1>2, <2>3
<1> QED
  BY <1>3, <1>4

\* Units of the same size.
LEMMA OneUnit ==
  ASSUME NEW S, NEW l, Power(S, l), l = 0
  PROVE  S = 1
BY PowZero DEF Power

\* What mpfr_round_near_x does of a midpoint.
MiddleOf(dir) == IF dir = 0 THEN Decision(FALSE, -1) ELSE AddOneUlp

\* What the code does of a midpoint is left to the caller.
LEMMA MidpointRaw ==
  ASSUME NEW w \in Nat, NEW p \in Nat, 0 < p, p < w, NEW k \in Nat, IsSignificand(k, w),
         NEW u \in Nat, NEW q \in Nat, NEW r \in Nat, Cut(k, w, p, u, q, r), 2 * r = u,
         NEW neg \in BOOLEAN, NEW middle
  PROVE  RndRawGen(k, w, p, "RNDN", neg, middle) = Significand(q, p, middle[q % 2 = 1])
<1>1. PICK g \in Rnds : g = "RNDN"
  BY DEF Rnds
<1>2. RndRawGen(k, w, p, g, neg, middle) = Significand(q, p, middle[q % 2 = 1])
  BY <1>1, RndRawGenIs
<1> QED
  BY <1>1, <1>2

\* X is close to a midpoint: the side on which it lies settles its rounding.
LEMMA MidpointSettles ==
  ASSUME NEW p \in Nat, p > 0, NEW neg \in BOOLEAN,
         NEW w \in Nat, p < w, NEW k \in Nat, IsSignificand(k, w), NEW N \in 1..MaxBits, w <= N,
         NEW S \in Nat, Power(S, N - w), NEW C \in Nat, IsProduct(C, k, S),
         NEW u \in Nat, NEW q \in Nat, NEW r \in Nat, Cut(k, w, p, u, q, r), r # 0, IsProduct(u, 2, r),
         NEW G \in Nat, 2 * G <= S, NEW X \in Nat, C - G < X, X < C + G, X # C,
         NEW dir \in {0, 1}, dir = 1 <=> X > C
  PROVE  Settled(RndRawGen(k, w, p, "RNDN", neg, NearXMiddle(dir)), N, X, p, "RNDN", neg)
<1>0. SUFFICES ASSUME NEW s, s = RndRawGen(k, w, p, "RNDN", neg, NearXMiddle(dir))
               PROVE  Settled(s, N, X, p, "RNDN", neg)
  OBVIOUS
<1>1. PICK d \in {AddOneUlp, Decision(FALSE, -1)} : d = MiddleOf(dir)
  BY DEF MiddleOf
<1>2. d.up \in BOOLEAN /\ (d.up <=> dir = 1) /\ d.dir = IF d.up THEN 1 ELSE -1
  BY <1>1 DEF MiddleOf, AddOneUlp, Decision
<1>3. 2 * r = u
  BY DEF IsProduct
<1>4. s = Significand(q, p, d)
  <2>1. s = Significand(q, p, NearXMiddle(dir)[q % 2 = 1])
    <3>1. \A middle : RndRawGen(k, w, p, "RNDN", neg, middle) = Significand(q, p, middle[q % 2 = 1])
      BY <1>3, MidpointRaw, SMTT(40)
    <3> QED
      BY <1>0, <3>1, Zenon
  <2>2. \A odd \in BOOLEAN : NearXMiddle(dir)[odd] = MiddleOf(dir)
    BY Zenon DEF NearXMiddle, MiddleOf
  <2>3. (q % 2 = 1) \in BOOLEAN
    OBVIOUS
  <2> QED
    BY <1>1, <2>1, <2>2, <2>3, Zenon
<1>5. p <= w /\ p < N /\ N \in Nat
  OBVIOUS
<1>6. IsSignificand(q, p)
  BY <1>5, CutIs
<1>7. PICK U \in Nat, T \in Nat : IsProduct(U, u, S) /\ IsProduct(T, r, S)
  BY DEF IsProduct
<1>8. Cut(C, N, p, U, q, T)
  <2>1. UnitOf(S, w, N)
    BY DEF UnitOf
  <2> QED
    BY <1>5, <1>7, <2>1, ScaledCut, ZenonT(40)
<1>9. U = 2^(N - p) /\ C = q * U + T
  BY <1>8 DEF Cut
<1>10. U = 2 * T
  BY <1>7, <1>3 DEF IsProduct
<1>11. S <= T
  <2>1. 1 * S <= r * S
    BY MulMono
  <2> QED
    BY <2>1, <1>7 DEF IsProduct
<1>12. G < T /\ S >= 2
  BY <1>11
<1>13. p + 1 < N
  <2>1. PICK l \in Nat : l = N - w
    OBVIOUS
  <2>2. Power(S, l)
    BY <2>1
  <2>3. l # 0
    BY <2>2, <1>12, OneUnit
  <2> QED
    BY <2>1, <2>3
<1>14. UlpOf(T, N, p + 1)
  <2>1. N - p \in Nat /\ N - p # 0 /\ (N - p) - 1 = N - (p + 1) /\ N - (p + 1) \in Nat
    BY <1>13
  <2>2. 2^(N - p) = 2 * 2^((N - p) - 1)
    BY <2>1, PowHalf
  <2>3. 2^(N - (p + 1)) \in Nat
    BY <2>1, PowNat
  <2> QED
    BY <1>9, <1>10, <2>1, <2>2, <2>3 DEF UlpOf
<1>15. C = (2 * q + 1) * T
  BY <1>9, <1>10
<1>16. 2^(p + 1) = 2 * 2^p /\ 2^p = 2 * 2^(p - 1) /\ (p + 1) - 1 = p /\ 2^p \in Nat /\ 2^(p - 1) \in Nat
  BY PowSucc, PowHalf, PowNat
<1>17. PICK Y \in Nat : Y = (IF d.up THEN q + 1 ELSE q) * U
  BY <1>2
<1>18. RoundTo(X, p, "RNDN", neg) = Y /\ (Y > X <=> d.up) /\ Y # X
  <2>1. CASE d.up
    <3>1. X > C
      BY <2>1, <1>2
    <3>2. Between(X, 2 * q + 1, T)
      <4>1. ((2 * q + 1) + 1) * T = (2 * q + 1) * T + T
        OBVIOUS
      <4> QED
        BY <3>1, <4>1, <1>12, <1>15 DEF Between
    <3>3. IsSignificand(2 * q + 1, p + 1) /\ 2 * q + 1 \in Nat
      BY <1>6, <1>16 DEF IsSignificand
    <3>4. RoundTo(X, p, "RNDN", neg) = HalfUp(2 * q + 1, T)
      BY <1>13, <1>14, <3>2, <3>3, BetweenNearest
    <3>5. HalfUp(2 * q + 1, T) = (q + 1) * (2 * T)
      BY HalfUpOf
    <3>6. Y = (q + 1) * U
      BY <2>1, <1>17
    <3>7. Y = C + T
      BY <3>6, <1>9, <1>10
    <3> QED
      BY <2>1, <3>4, <3>5, <3>6, <3>7, <1>10, <1>12
  <2>2. CASE ~ d.up
    <3>1. X < C
      BY <2>2, <1>2
    <3>2. Between(X, 2 * q, T)
      <4>1. (2 * q + 1) * T = (2 * q) * T + T /\ (2 * q) * T \in Nat
        OBVIOUS
      <4> QED
        BY <3>1, <4>1, <1>12, <1>15 DEF Between
    <3>3. IsSignificand(2 * q, p + 1) /\ 2 * q \in Nat
      BY <1>6, <1>16 DEF IsSignificand
    <3>4. RoundTo(X, p, "RNDN", neg) = HalfUp(2 * q, T)
      BY <1>13, <1>14, <3>2, <3>3, BetweenNearest
    <3>5. HalfUp(2 * q + 0, T) = (q + 0) * (2 * T)
      BY HalfUpOf
    <3>6. HalfUp(2 * q, T) = q * U
      BY <3>5, <1>10
    <3>7. Y = q * U
      BY <2>2, <1>17
    <3>8. Y = C - T
      BY <3>7, <1>9
    <3> QED
      BY <2>2, <3>4, <3>6, <3>7, <3>8, <1>12
  <2> QED
    BY <2>1, <2>2, <1>2
<1>19. Represents(s.mant, p, N + s.carry, Y)
  <2>1. Represents(Significand(q, p, d).mant, p, N + Significand(q, p, d).carry, Y)
    <3>1. d.up \in BOOLEAN
      BY <1>2
    <3>2. UlpOf(U, N, p) /\ Chosen(q, U, d, Y)
      BY <1>9, <1>17 DEF UlpOf, Chosen
    <3> QED
      BY <3>1, <3>2, <1>5, <1>6, SignificandChosen
  <2> QED
    BY <2>1, <1>4, Zenon
<1>20. s.carry \in {0, 1} /\ s.dir = d.dir /\ (s.carry = 1 => d.up)
  <2>1. d.up \in BOOLEAN
    BY <1>2
  <2>2. CarriesOnce(s, d)
    <3>1. CarriesOnce(Significand(q, p, d), d)
      BY <2>1, <1>6, SignificandCarries
    <3> QED
      BY <3>1, <1>4, Zenon
  <2> QED
    BY <2>2 DEF CarriesOnce
<1>21. s.dir \in {-1, 1} /\ (s.dir = 1 <=> Y > X) /\ (s.dir = -1 <=> Y < X)
  BY <1>2, <1>18, <1>20
<1> QED
  BY <1>2, <1>18, <1>19, <1>20, <1>21 DEF Settled, Definite

CloserThan(G, X, C, S, dir) ==
  /\ 2 * G <= S
  /\ C - G < X /\ X < C + G /\ X # C
  /\ dir = 1 <=> X > C

\* X is closer to a number v of more bits than half of its last bit, and v is not a number
\* of the precision: the significand of v and the side of X settle the rounding of X.
LEMMA CloseSettles ==
  ASSUME NEW p \in Nat, p > 0, NEW g \in Rnds \ {"RNDF"}, NEW neg \in BOOLEAN,
         NEW w \in Nat, p < w, NEW k \in Nat, IsSignificand(k, w), NEW N \in 1..MaxBits, w <= N,
         NEW S \in Nat, Power(S, N - w), NEW C \in Nat, IsProduct(C, k, S),
         NEW u \in Nat, NEW q \in Nat, NEW r \in Nat, Cut(k, w, p, u, q, r), r # 0,
         NEW G \in Nat, NEW X \in Nat, NEW dir \in {0, 1},
         CloserThan(G, X, C, S, dir)
  PROVE  Settled(RndRawGen(k, w, p, g, neg, NearXMiddle(dir)), N, X, p, g, neg)
<1>0. 2 * G <= S /\ C - G < X /\ X < C + G /\ X # C /\ (dir = 1 <=> X > C)
  BY DEF CloserThan
<1>1. CASE g = "RNDN" /\ 2 * r = u
  <2>1. Settled(RndRawGen(k, w, p, "RNDN", neg, NearXMiddle(dir)), N, X, p, "RNDN", neg)
    <3>1. IsProduct(u, 2, r)
      BY <1>1 DEF IsProduct
    <3> QED
      BY <1>0, <3>1, MidpointSettles, ZenonT(60)
  <2> QED
    BY <2>1, <1>1, Zenon
<1>2. CASE ~ (g = "RNDN" /\ 2 * r = u)
  <2>1. PICK P \in Nat : P = Kept(g, p)
    BY DEF Kept
  <2>2. P > 0 /\ P <= w
    BY <2>1 DEF Kept
  <2>3. PICK v \in Nat, x \in Nat, z \in Nat : Cut(k, w, P, v, x, z)
    BY <2>2, CutExistsUpTo
  <2>4. P < w /\ z # 0
    <3>1. CASE g = "RNDN"
      <4>1. P = p + 1 /\ 2 * r # u
        BY <1>2, <2>1, <3>1 DEF Kept
      <4>2. Cut(k, w, p + 1, v, x, z)
        BY <2>3, <4>1
      <4>3. p + 1 < w /\ z # 0
        BY <4>1, <4>2, OneMoreBit
      <4> QED
        BY <4>1, <4>3
    <3>2. CASE g # "RNDN"
      <4>1. P = p
        BY <2>1, <3>2 DEF Kept
      <4>2. Cut(k, w, p, v, x, z)
        BY <2>3, <4>1
      <4>3. z = r
        <5>1. u = v
          BY <4>2 DEF Cut
        <5>2. r < u /\ z < u
          BY <4>2, <5>1 DEF Cut
        <5>3. x * u + z = q * u + r
          BY <4>2, <5>1 DEF Cut
        <5> QED
          BY <5>2, <5>3, SameDivision
      <4> QED
        BY <4>1, <4>3
    <3> QED
      BY <3>1, <3>2
  <2>5. PICK U \in Nat, R \in Nat : IsProduct(U, v, S) /\ IsProduct(R, z, S)
    BY DEF IsProduct
  <2>6. Between(C, x, U) /\ Between(X, x, U)
    BY <1>0, <2>3, <2>4, <2>5, InsideCut, ZenonT(60)
  <2>7. P <= w /\ N \in Nat
    BY <2>4
  <2>8. Cut(C, N, P, U, x, R)
    <3>1. UnitOf(S, w, N)
      BY DEF UnitOf
    <3> QED
      BY <2>3, <2>5, <2>7, <3>1, ScaledCut, ZenonT(40)
  <2>9. UlpOf(U, N, P)
    BY <2>8 DEF Cut, UlpOf
  <2>10. IsSignificand(x, P)
    BY <2>2, <2>3, CutIs
  <2> QED
    BY <2>1, <2>4, <2>6, <2>9, <2>10, TestSettles
<1> QED
  BY <1>1, <1>2

-----------------------------------------------------------------------------
(* What a computation may leave in the exponent range lo..hi               *)

Fits(z, i, X, p, g, neg, lo, hi) ==
  \E e \in Int, m \in Nat :
    /\ z = Num(neg, e, m, p) /\ lo <= e /\ e <= hi
    /\ Represents(m, p, e + Scale, RoundTo(X, p, Definite(g), neg))
    /\ i \in Int
    /\ IF g = "RNDF" THEN i = 0
       ELSE i # 0 /\ SignOf(i) = Ternary(RoundTo(X, p, g, neg), X, neg)

TooLarge(z, i, X, p, g, neg, hi) ==
  /\ z = Inf(neg, p) /\ i = Signed(neg, 1)
  /\ g # "RNDF" /\ ~ TowardZero(g, neg)
  /\ \E l \in Nat : HasLength(RoundTo(X, p, g, neg), l) /\ l > hi + Scale

TooSmall(z, i, X, p, g, neg, lo) ==
  /\ z = Zero(neg, p) /\ i = Signed(neg, -1)
  /\ TowardZero(Definite(g), neg)
  /\ \E l \in Nat : HasLength(RoundTo(X, p, Definite(g), neg), l) /\ l < lo + Scale

Outcome(n, X, p, g, neg, lo, hi) ==
  \E z, i :
    \/ n = Return(z, i, {}) /\ Fits(z, i, X, p, g, neg, lo, hi)
    \/ n = Return(z, i, {"overflow"}) /\ TooLarge(z, i, X, p, g, neg, hi)
    \/ n = Return(z, i, {"underflow"}) /\ TooSmall(z, i, X, p, g, neg, lo)

RoundsTo(Y, X, p, g, neg) == Y = RoundTo(X, p, g, neg)

\* A number of the range, with the ternary value of its side.
LEMMA FitsOutcome ==
  ASSUME NEW p, NEW neg \in BOOLEAN, NEW g, g # "RNDF", NEW lo, NEW hi,
         NEW e \in Int, lo <= e, e <= hi, NEW X \in Nat, NEW Y \in Nat, RoundsTo(Y, X, p, g, neg),
         NEW m \in Nat, Represents(m, p, e + Scale, Y),
         NEW d \in {-1, 1}, d = 1 <=> Y > X, d = -1 <=> Y < X
  PROVE  Outcome(Return(Num(neg, e, m, p), Signed(neg, d), {}), X, p, g, neg, lo, hi)
<1>1. PICK i \in Int : i = Signed(neg, d)
  BY SignedTwice
<1>2. i # 0 /\ SignOf(i) = Ternary(Y, X, neg)
  <2>1. Signed(neg, i) = d /\ (i = 0 <=> d = 0)
    BY <1>1, SignedTwice
  <2> QED
    BY <2>1, RightSign
<1>3. Definite(g) = g
  BY DEF Definite
<1>4. PICK z : z = Num(neg, e, m, p)
  OBVIOUS
<1>5. Fits(z, i, X, p, g, neg, lo, hi)
  BY <1>2, <1>3, <1>4 DEF Fits, RoundsTo
<1>6. Outcome(Return(z, i, {}), X, p, g, neg, lo, hi)
  BY <1>5, Zenon DEF Outcome
<1> QED
  BY <1>1, <1>4, <1>6, Zenon

\* An infinity when the rounding, away from zero, is above the range.
LEMMA InfOutcome ==
  ASSUME NEW p, NEW neg \in BOOLEAN, NEW g, g # "RNDF", ~ TowardZero(g, neg), NEW lo, NEW hi,
         NEW X, NEW l \in Nat, HasLength(RoundTo(X, p, g, neg), l), l > hi + Scale
  PROVE  Outcome(Return(Inf(neg, p), Signed(neg, 1), {"overflow"}), X, p, g, neg, lo, hi)
<1>1. TooLarge(Inf(neg, p), Signed(neg, 1), X, p, g, neg, hi)
  BY DEF TooLarge
<1> QED
  BY <1>1, Zenon DEF Outcome

\* A zero when the rounding, toward zero, is below the range.
LEMMA ZeroOutcome ==
  ASSUME NEW p, NEW neg \in BOOLEAN, NEW g, g # "RNDF", TowardZero(g, neg), NEW lo, NEW hi,
         NEW X, NEW l \in Nat, HasLength(RoundTo(X, p, g, neg), l), l < lo + Scale
  PROVE  Outcome(Return(Zero(neg, p), Signed(neg, -1), {"underflow"}), X, p, g, neg, lo, hi)
<1>1. TooSmall(Zero(neg, p), Signed(neg, -1), X, p, g, neg, lo)
  BY DEF TooSmall, Definite
<1> QED
  BY <1>1, Zenon DEF Outcome

\* What is settled and delivered by mpfr_set4.
LEMMA SettledOutcome ==
  ASSUME NEW p \in Nat, p > 0, NEW neg \in BOOLEAN, NEW g \in Rnds,
         NEW e \in Int, NEW lo \in Int, NEW hi \in Int, lo <= e, e <= hi, NEW N \in Nat, N = e + Scale,
         NEW M \in 1..MaxBits, NEW X, HasLength(X, M), NEW s, Settled(s, N, X, p, g, neg)
  PROVE  Outcome(Set4Of(e, p, s, g, neg, hi), X, p, g, neg, lo, hi)
<1>0. X \in Nat /\ Scale \in Nat
  BY ZivAssumption DEF HasLength
<1>1. PICK Y : RoundsTo(Y, X, p, Definite(g), neg)
  BY DEF RoundsTo
<1>2. /\ s.carry \in {0, 1}
      /\ Represents(s.mant, p, N + s.carry, Y)
      /\ g = "RNDF" => s.carry = 0 /\ s.dir = 0
      /\ g # "RNDF" => /\ s.dir \in {-1, 1}
                       /\ s.dir = 1 <=> Y > X
                       /\ s.dir = -1 <=> Y < X
                       /\ s.carry = 1 => s.dir = 1
  BY <1>1 DEF Settled, RoundsTo
<1>3. s.mant \in Nat /\ Y \in Nat
  BY <1>2 DEF Represents, IsSignificand
<1>4. CASE s.carry = 1 /\ e + 1 > hi
  <2>1. g # "RNDF" /\ Y > X /\ Definite(g) = g
    BY <1>2, <1>4 DEF Definite
  <2>2. ~ TowardZero(g, neg)
    <3>1. TowardZero(g, neg) => RoundTo(X, p, g, neg) <= X
      BY RoundToBounds
    <3>2. Y = RoundTo(X, p, g, neg)
      BY <1>1, <2>1 DEF RoundsTo
    <3> QED
      BY <1>0, <1>3, <2>1, <3>1, <3>2
  <2>3. ~ IsLikeRNDZ(g, neg)
    BY <2>2 DEF IsLikeRNDZ, TowardZero
  <2>4. Set4Of(e, p, s, g, neg, hi) = Return(Inf(neg, p), Signed(neg, 1), {"overflow"})
    BY <1>4, <2>3 DEF Set4Of, Overflow
  <2>5. HasLength(Y, N + 1)
    BY <1>2, <1>4, RepresentsLength
  <2>6. HasLength(RoundTo(X, p, g, neg), N + 1) /\ N + 1 \in Nat /\ N + 1 > hi + Scale
    BY <1>0, <1>1, <1>4, <2>1, <2>5 DEF RoundsTo
  <2> QED
    BY <2>1, <2>2, <2>4, <2>6, InfOutcome
<1>5. CASE ~ (s.carry = 1 /\ e + 1 > hi)
  <2>1. Set4Of(e, p, s, g, neg, hi) = Return(Num(neg, e + s.carry, s.mant, p), Signed(neg, s.dir), {})
    BY <1>5, Zenon DEF Set4Of
  <2>2. PICK f \in Int : f = e + s.carry
    BY <1>2
  <2>3. lo <= f /\ f <= hi /\ f + Scale = N + s.carry
    BY <1>0, <1>2, <1>5, <2>2
  <2>4. Represents(s.mant, p, f + Scale, Y)
    BY <1>2, <2>3
  <2>5. CASE g # "RNDF"
    <3>1. RoundsTo(Y, X, p, g, neg)
      BY <1>1, <2>5 DEF Definite
    <3>2. PICK d \in {-1, 1} : d = s.dir
      BY <1>2, <2>5
    <3>3. (d = 1 <=> Y > X) /\ (d = -1 <=> Y < X)
      BY <1>2, <2>5, <3>2
    <3>4. PICK m \in Nat : m = s.mant
      BY <1>3
    <3>5. Outcome(Return(Num(neg, f, m, p), Signed(neg, d), {}), X, p, g, neg, lo, hi)
      BY <1>0, <1>3, <2>3, <2>4, <2>5, <3>1, <3>3, <3>4, FitsOutcome
    <3> QED
      BY <2>1, <2>2, <3>2, <3>4, <3>5, Zenon
  <2>6. CASE g = "RNDF"
    <3>1. s.dir = 0
      BY <1>2, <2>6
    <3>2. PICK i \in Int : i = Signed(neg, s.dir) /\ i = 0
      BY <3>1 DEF Signed
    <3>3. PICK z : z = Num(neg, f, s.mant, p)
      OBVIOUS
    <3>4. Fits(z, i, X, p, g, neg, lo, hi)
      BY <1>1, <1>3, <2>3, <2>4, <2>6, <3>2, <3>3 DEF Fits, RoundsTo
    <3>5. Outcome(Return(z, i, {}), X, p, g, neg, lo, hi)
      BY <3>4, Zenon DEF Outcome
    <3> QED
      BY <2>1, <2>2, <3>2, <3>3, <3>5, Zenon
  <2> QED
    BY <2>5, <2>6
<1> QED
  BY <1>4, <1>5

-----------------------------------------------------------------------------
(* mpfr_round_near_x                                                       *)

Nearby(n, s, e, dir, p, g, neg, lo, hi) ==
  LET z == Num(neg, e + s.carry, s.mant, p)
      below == NextToZero(z, lo, hi)
      above == NextToInf(z, lo, hi)
  IN /\ s.dir # 0 /\ s.carry = 1 /\ e + s.carry > hi => n = Overflow(p, g, neg, hi)
     /\ s.dir # 0 /\ e + s.carry <= hi => n = Return(z, Signed(neg, s.dir), {})
     /\ s.dir = 0 /\ s.carry = 0 /\ dir = 0 /\ IsLikeRNDZ(g, neg) =>
          n = Return(below, Signed(neg, -1), IF IsSingular(below) THEN {"underflow"} ELSE {})
     /\ s.dir = 0 /\ s.carry = 0 /\ dir = 0 /\ ~ IsLikeRNDZ(g, neg) => n = Return(z, Signed(neg, 1), {})
     /\ s.dir = 0 /\ s.carry = 0 /\ dir = 1 /\ IsLikeRNDA(g, neg) =>
          n = Return(above, Signed(neg, 1), IF IsSingular(above) THEN {"overflow"} ELSE {})
     /\ s.dir = 0 /\ s.carry = 0 /\ dir = 1 /\ ~ IsLikeRNDA(g, neg) => n = Return(z, Signed(neg, -1), {})

\* The cases of mpfr_round_near_x, s being the rounding of v.
LEMMA NearXCases ==
  ASSUME NEW neg \in BOOLEAN, NEW e \in Int, NEW k, NEW w, NEW err, NEW dir \in {0, 1}, NEW p, NEW rnd,
         NEW lo, NEW hi \in Int, NEW g, g = Definite(rnd),
         NEW s, s = RndRawGen(k, w, p, g, neg, NearXMiddle(dir)), s.carry \in {0, 1}, s.dir \in {-1, 0, 1},
         NEW z, z = Num(neg, e + s.carry, s.mant, p),
         NEW n, n = RoundNearX(Num(neg, e, k, w), err, dir, p, rnd, lo, hi)
  PROVE  Nearby(n, s, e, dir, p, g, neg, lo, hi)
<1>1. PICK v : v = Num(neg, e, k, w)
  OBVIOUS
<1>2. v.neg = neg /\ v.exp = e /\ v.mant = k /\ v.prec = w
  BY <1>1 DEF Num
<1>3. n = RoundNearX(v, err, dir, p, rnd, lo, hi)
  BY <1>1, Zenon
<1>4. s = RndRawGen(v.mant, v.prec, p, g, v.neg, NearXMiddle(dir))
  BY <1>2, Zenon
<1>5. z = Num(v.neg, v.exp + s.carry, s.mant, p) /\ z.exp = e + s.carry
  BY <1>2 DEF Num
<1>6. g = IF rnd = "RNDF" THEN "RNDZ" ELSE rnd
  BY Zenon DEF Definite
<1>7. n = CASE s.carry = 1 /\ z.exp > hi -> Overflow(p, g, v.neg, hi)
            [] s.dir # 0 /\ z.exp <= hi -> Return(z, Signed(v.neg, s.dir), {})
            [] s.dir = 0 /\ dir = 0 /\ IsLikeRNDZ(g, v.neg) ->
                 Return(NextToZero(z, lo, hi), Signed(v.neg, -1),
                        IF IsSingular(NextToZero(z, lo, hi)) THEN {"underflow"} ELSE {})
            [] s.dir = 0 /\ dir = 0 /\ ~ IsLikeRNDZ(g, v.neg) -> Return(z, Signed(v.neg, 1), {})
            [] s.dir = 0 /\ dir = 1 /\ IsLikeRNDA(g, v.neg) ->
                 Return(NextToInf(z, lo, hi), Signed(v.neg, 1),
                        IF IsSingular(NextToInf(z, lo, hi)) THEN {"overflow"} ELSE {})
            [] s.dir = 0 /\ dir = 1 /\ ~ IsLikeRNDA(g, v.neg) -> Return(z, Signed(v.neg, -1), {})
  BY <1>3, <1>4, <1>5, <1>6, ZenonT(60) DEF RoundNearX
<1>8. /\ s.dir # 0 /\ s.carry = 1 /\ e + s.carry > hi => n = Overflow(p, g, neg, hi)
      /\ s.dir # 0 /\ e + s.carry <= hi => n = Return(z, Signed(neg, s.dir), {})
      /\ s.dir = 0 /\ s.carry = 0 /\ dir = 0 /\ IsLikeRNDZ(g, neg) =>
           n = Return(NextToZero(z, lo, hi), Signed(neg, -1),
                      IF IsSingular(NextToZero(z, lo, hi)) THEN {"underflow"} ELSE {})
      /\ s.dir = 0 /\ s.carry = 0 /\ dir = 0 /\ ~ IsLikeRNDZ(g, neg) => n = Return(z, Signed(neg, 1), {})
      /\ s.dir = 0 /\ s.carry = 0 /\ dir = 1 /\ IsLikeRNDA(g, neg) =>
           n = Return(NextToInf(z, lo, hi), Signed(neg, 1),
                      IF IsSingular(NextToInf(z, lo, hi)) THEN {"overflow"} ELSE {})
      /\ s.dir = 0 /\ s.carry = 0 /\ dir = 1 /\ ~ IsLikeRNDA(g, neg) => n = Return(z, Signed(neg, -1), {})
  BY <1>2, <1>5, <1>7
<1> QED
  BY <1>8, Zenon DEF Nearby


\* When the rounding of v was not exact, it is what mpfr_set4 would deliver.
LEMMA NearXSettled ==
  ASSUME NEW p \in Nat, p > 0, NEW neg \in BOOLEAN, NEW g \in Rnds \ {"RNDF"},
         NEW e \in Int, NEW lo \in Int, NEW hi \in Int, lo <= e, e <= hi, NEW N \in Nat, N = e + Scale,
         NEW M \in 1..MaxBits, NEW X, HasLength(X, M), NEW s, Settled(s, N, X, p, g, neg),
         NEW dir, NEW n, Nearby(n, s, e, dir, p, g, neg, lo, hi)
  PROVE  Outcome(n, X, p, g, neg, lo, hi)
<1>1. s.carry \in {0, 1} /\ s.dir \in {-1, 1}
  BY DEF Settled
<1>2. Outcome(Set4Of(e, p, s, g, neg, hi), X, p, g, neg, lo, hi)
  BY SettledOutcome
<1>3. CASE s.carry = 1 /\ e + 1 > hi
  <2>1. n = Overflow(p, g, neg, hi)
    BY <1>1, <1>3 DEF Nearby
  <2>2. Set4Of(e, p, s, g, neg, hi) = Overflow(p, g, neg, hi)
    BY <1>3 DEF Set4Of
  <2> QED
    BY <1>2, <2>1, <2>2
<1>4. CASE ~ (s.carry = 1 /\ e + 1 > hi)
  <2>1. e + s.carry <= hi /\ s.dir # 0
    BY <1>1, <1>4
  <2>2. n = Return(Num(neg, e + s.carry, s.mant, p), Signed(neg, s.dir), {})
    BY <2>1 DEF Nearby
  <2>3. Set4Of(e, p, s, g, neg, hi) = Return(Num(neg, e + s.carry, s.mant, p), Signed(neg, s.dir), {})
    BY <1>4, Zenon DEF Set4Of
  <2> QED
    BY <1>2, <2>2, <2>3
<1> QED
  BY <1>3, <1>4

\* What mpfr_nexttozero makes of a number.
LEMMA NearerNumber ==
  ASSUME NEW neg, NEW e, NEW q, NEW p, NEW lo, NEW hi, NEW z, z = Num(neg, e, q, p)
  PROVE  /\ q # 2^(p - 1) => NextToZero(z, lo, hi) = Num(neg, e, q - 1, p)
         /\ q = 2^(p - 1) /\ e = lo => NextToZero(z, lo, hi) = Zero(neg, p)
         /\ q = 2^(p - 1) /\ e # lo => NextToZero(z, lo, hi) = Num(neg, e - 1, 2^p - 1, p)
<1>1. z.kind = "num" /\ z.neg = neg /\ z.exp = e /\ z.mant = q /\ z.prec = p
  BY DEF Num
<1>2. /\ q # 2^(p - 1) => NextToZero(z, lo, hi) = Num(neg, e, q - 1, p)
      /\ q = 2^(p - 1) /\ e = lo => NextToZero(z, lo, hi) = Zero(neg, p)
      /\ q = 2^(p - 1) /\ e # lo => NextToZero(z, lo, hi) = SetMax(neg, e - 1, p)
  BY <1>1 DEF NextToZero, IsPowerof2Raw
<1> QED
  BY <1>2, Zenon DEF SetMax

\* What mpfr_nexttoinf makes of a number.
LEMMA FartherNumber ==
  ASSUME NEW neg, NEW e, NEW q \in Nat, NEW p \in Nat, NEW lo, NEW hi, NEW z, z = Num(neg, e, q, p)
  PROVE  /\ q + 1 < 2^p => NextToInf(z, lo, hi) = Num(neg, e, q + 1, p)
         /\ q + 1 = 2^p /\ e = hi => NextToInf(z, lo, hi) = Inf(neg, p)
         /\ q + 1 = 2^p /\ e # hi => NextToInf(z, lo, hi) = Num(neg, e + 1, 2^(p - 1), p)
<1>1. z.kind = "num" /\ z.neg = neg /\ z.exp = e /\ z.mant = q /\ z.prec = p
  BY DEF Num
<1>2. PICK a \in Nat : a = 2^p
  BY PowNat
<1>3. /\ q + 1 < a => NextToInf(z, lo, hi) = Num(neg, e, q + 1, p)
      /\ q + 1 = a /\ e = hi => NextToInf(z, lo, hi) = Inf(neg, p)
      /\ q + 1 = a /\ e # hi => NextToInf(z, lo, hi) = SetMin(neg, e + 1, p)
  <2>1. z.mant + 1 \in Nat /\ z.mant + 1 = q + 1 /\ 2^z.prec = a
    BY <1>1, <1>2
  <2>2. CASE q + 1 < a
    <3>1. z.mant + 1 < 2^z.prec /\ ~ (z.mant + 1 = 2^z.prec)
      BY <2>1, <2>2
    <3>2. NextToInf(z, lo, hi) = Num(z.neg, z.exp, z.mant + 1, z.prec)
      BY <1>1, <3>1 DEF NextToInf
    <3> QED
      BY <1>1, <2>2, <3>2
  <2>3. CASE q + 1 = a
    <3>1. ~ (z.mant + 1 < 2^z.prec) /\ z.mant + 1 = 2^z.prec
      BY <2>1, <2>3
    <3>2. NextToInf(z, lo, hi) =
            IF z.exp = hi THEN Inf(z.neg, z.prec) ELSE SetMin(z.neg, z.exp + 1, z.prec)
      BY <1>1, <3>1 DEF NextToInf
    <3> QED
      BY <1>1, <2>3, <3>2
  <2> QED
    BY <1>2, <2>2, <2>3
<1> QED
  BY <1>2, <1>3, Zenon DEF SetMin

\* The direction of a rounding of a number just off the grid.
LEMMA Sides ==
  ASSUME NEW g \in Rnds \ {"RNDF"}, NEW neg \in BOOLEAN
  PROVE  /\ IsLikeRNDZ(g, neg) => g \in ToOneSide /\ ~ Outward(g, neg) /\ TowardZero(g, neg)
         /\ IsLikeRNDA(g, neg) => g \in ToOneSide /\ Outward(g, neg) /\ ~ TowardZero(g, neg)
         /\ ~ IsLikeRNDZ(g, neg) => g = "RNDN" \/ (g \in ToOneSide /\ Outward(g, neg))
         /\ ~ IsLikeRNDA(g, neg) => g = "RNDN" \/ (g \in ToOneSide /\ ~ Outward(g, neg))
BY DEF Rnds, ToOneSide, IsLikeRNDZ, IsLikeRNDA, Outward, TowardZero

\* v on the grid and the exact result below it: the rounding of v is v, and is corrected
\* only toward zero.
LEMMA NearXBelow ==
  ASSUME NEW p \in Nat, p > 0, NEW neg \in BOOLEAN, NEW g \in Rnds \ {"RNDF"},
         NEW e \in Int, NEW lo \in Int, NEW hi \in Int, lo <= e, e <= hi,
         NEW N \in 1..MaxBits, N = e + Scale, p + 2 <= N, NEW q \in Nat, IsSignificand(q, p),
         NEW h \in Nat, UlpOf(h, N, p + 2), NEW U \in Nat, UlpOf(U, N, p),
         NEW X \in Nat, q * U - h < X, X < q * U,
         NEW s, s.mant = q, s.carry = 0, s.dir = 0,
         NEW n, Nearby(n, s, e, 0, p, g, neg, lo, hi)
  PROVE  Outcome(n, X, p, g, neg, lo, hi)
<1>1. N \in Nat /\ Scale \in Nat /\ e + 0 = e /\ p < N /\ e - 1 \in Int
  BY ZivAssumption DEF RealRoundingAssumption
<1>2. PICK z : z = Num(neg, e, q, p)
  OBVIOUS
<1>3. PICK V \in Nat : V = q * U
  OBVIOUS
<1>4. /\ q # 2^(p - 1) => NextToZero(z, lo, hi) = Num(neg, e, q - 1, p)
      /\ q = 2^(p - 1) /\ e = lo => NextToZero(z, lo, hi) = Zero(neg, p)
      /\ q = 2^(p - 1) /\ e # lo => NextToZero(z, lo, hi) = Num(neg, e - 1, 2^p - 1, p)
  BY <1>2, NearerNumber
<1>5. h > 0
  BY <1>1, Quarter
<1>6. Represents(q, p, N, V)
  BY <1>1, <1>3, FollowingIs
<1>7. CASE IsLikeRNDZ(g, neg)
  <2>1. g # "RNDF" /\ g \in ToOneSide /\ ~ Outward(g, neg) /\ TowardZero(g, neg)
    BY <1>7, Sides
  <2>2. PICK Y : Y = Previous(q, p, U, h)
    OBVIOUS
  <2>3. RoundsTo(Y, X, p, g, neg)
    BY <2>1, <2>2, BelowGrid DEF RoundsTo
  <2>4. /\ Y \in Nat
        /\ Y <= V - 2 * h
        /\ q # 2^(p - 1) => Represents(q - 1, p, N, Y)
        /\ q = 2^(p - 1) => Represents(2^p - 1, p, N - 1, Y)
    BY <1>1, <1>3, <2>2, PreviousIs
  <2>5. Y < X
    BY <1>3, <1>5, <2>4
  <2>6. n = Return(NextToZero(z, lo, hi), Signed(neg, -1),
                   IF IsSingular(NextToZero(z, lo, hi)) THEN {"underflow"} ELSE {})
    BY <1>1, <1>2, <1>7 DEF Nearby
  <2>7. CASE q # 2^(p - 1)
    <3>1. PICK m : m = q - 1
      OBVIOUS
    <3>2. Represents(m, p, e + Scale, Y)
      BY <1>1, <2>4, <2>7, <3>1
    <3>3. m \in Nat
      BY <3>2 DEF Represents, IsSignificand
    <3>4. NextToZero(z, lo, hi) = Num(neg, e, m, p)
      BY <1>4, <2>7, <3>1
    <3>5. n = Return(Num(neg, e, m, p), Signed(neg, -1), {})
      BY <2>6, <3>4 DEF IsSingular, Num
    <3>6. Outcome(Return(Num(neg, e, m, p), Signed(neg, -1), {}), X, p, g, neg, lo, hi)
      BY <2>1, <2>3, <2>4, <2>5, <3>2, <3>3, FitsOutcome
    <3> QED
      BY <3>5, <3>6, Zenon
  <2>8. CASE q = 2^(p - 1) /\ e = lo
    <3>1. NextToZero(z, lo, hi) = Zero(neg, p)
      BY <1>4, <2>8
    <3>2. n = Return(Zero(neg, p), Signed(neg, -1), {"underflow"})
      BY <2>6, <3>1 DEF IsSingular, Zero
    <3>3. HasLength(RoundTo(X, p, g, neg), N - 1) /\ N - 1 \in Nat /\ N - 1 < lo + Scale
      BY <1>1, <2>3, <2>4, <2>8, RepresentsLength DEF RoundsTo
    <3> QED
      BY <2>1, <3>2, <3>3, ZeroOutcome
  <2>9. CASE q = 2^(p - 1) /\ e # lo
    <3>1. PICK m, f \in Int : m = 2^p - 1 /\ f = e - 1
      BY <1>1
    <3>2. f + Scale = N - 1 /\ lo <= f /\ f <= hi
      BY <1>1, <2>9, <3>1
    <3>3. Represents(m, p, f + Scale, Y)
      BY <2>4, <2>9, <3>1, <3>2
    <3>4. m \in Nat
      BY <3>3 DEF Represents, IsSignificand
    <3>5. NextToZero(z, lo, hi) = Num(neg, f, m, p)
      BY <1>4, <2>9, <3>1
    <3>6. n = Return(Num(neg, f, m, p), Signed(neg, -1), {})
      BY <2>6, <3>5 DEF IsSingular, Num
    <3>7. Outcome(Return(Num(neg, f, m, p), Signed(neg, -1), {}), X, p, g, neg, lo, hi)
      BY <2>1, <2>3, <2>4, <2>5, <3>2, <3>3, <3>4, FitsOutcome
    <3> QED
      BY <3>6, <3>7, Zenon
  <2> QED
    BY <2>7, <2>8, <2>9
<1>8. CASE ~ IsLikeRNDZ(g, neg)
  <2>1. g # "RNDF" /\ (g = "RNDN" \/ (g \in ToOneSide /\ Outward(g, neg)))
    BY <1>8, Sides
  <2>2. RoundsTo(V, X, p, g, neg)
    BY <1>3, <2>1, BelowGrid DEF RoundsTo
  <2>3. n = Return(Num(neg, e, q, p), Signed(neg, 1), {})
    BY <1>1, <1>8 DEF Nearby
  <2>4. Represents(q, p, e + Scale, V)
    BY <1>6
  <2>5. Outcome(Return(Num(neg, e, q, p), Signed(neg, 1), {}), X, p, g, neg, lo, hi)
    <3>1. X < V
      BY <1>3
    <3>2. PICK d \in {-1, 1} : d = 1
      OBVIOUS
    <3>3. (d = 1 <=> V > X) /\ (d = -1 <=> V < X)
      BY <3>1, <3>2
    <3>4. Outcome(Return(Num(neg, e, q, p), Signed(neg, d), {}), X, p, g, neg, lo, hi)
      BY <2>1, <2>2, <2>4, <3>3, FitsOutcome
    <3> QED
      BY <3>2, <3>4, Zenon
  <2> QED
    BY <2>3, <2>5, Zenon
<1> QED
  BY <1>7, <1>8

\* v on the grid and the exact result above it: the rounding of v is corrected only away
\* from zero.
LEMMA NearXAbove ==
  ASSUME NEW p \in Nat, p > 0, NEW neg \in BOOLEAN, NEW g \in Rnds \ {"RNDF"},
         NEW e \in Int, NEW lo \in Int, NEW hi \in Int, lo <= e, e <= hi,
         NEW N \in 1..MaxBits, N = e + Scale, p + 2 <= N, NEW q \in Nat, IsSignificand(q, p),
         NEW h \in Nat, UlpOf(h, N, p + 2), NEW U \in Nat, UlpOf(U, N, p),
         NEW X \in Nat, q * U < X, X < q * U + h,
         NEW s, s.mant = q, s.carry = 0, s.dir = 0,
         NEW n, Nearby(n, s, e, 1, p, g, neg, lo, hi)
  PROVE  Outcome(n, X, p, g, neg, lo, hi)
<1>1. N \in Nat /\ Scale \in Nat /\ e + 0 = e /\ p < N /\ e + 1 \in Int
  BY ZivAssumption DEF RealRoundingAssumption
<1>2. PICK z : z = Num(neg, e, q, p)
  OBVIOUS
<1>3. /\ q + 1 < 2^p => NextToInf(z, lo, hi) = Num(neg, e, q + 1, p)
      /\ q + 1 = 2^p /\ e = hi => NextToInf(z, lo, hi) = Inf(neg, p)
      /\ q + 1 = 2^p /\ e # hi => NextToInf(z, lo, hi) = Num(neg, e + 1, 2^(p - 1), p)
  BY <1>2, FartherNumber
<1>4. PICK V \in Nat : V = q * U
  OBVIOUS
<1>5. Represents(q, p, N, V)
  BY <1>1, <1>4, FollowingIs
<1>6. CASE IsLikeRNDA(g, neg)
  <2>1. g # "RNDF" /\ g \in ToOneSide /\ Outward(g, neg) /\ ~ TowardZero(g, neg)
    BY <1>6, Sides
  <2>2. PICK Y \in Nat : Y = (q + 1) * U
    OBVIOUS
  <2>3. RoundsTo(Y, X, p, g, neg)
    BY <2>1, <2>2, AboveGrid DEF RoundsTo
  <2>4. /\ q + 1 < 2^p => Represents(q + 1, p, N, Y)
        /\ q + 1 = 2^p => Represents(2^(p - 1), p, N + 1, Y)
    BY <1>1, <2>2, FollowingIs
  <2>5. X < Y
    <3>1. h > 0 /\ U = 4 * h
      <4>1. h > 0 /\ UlpOf(4 * h, N, p)
        BY <1>1, Quarter
      <4> QED
        BY <4>1 DEF UlpOf
    <3>2. (q + 1) * U = q * U + U
      OBVIOUS
    <3> QED
      BY <2>2, <3>1, <3>2
  <2>6. PICK d \in {-1, 1} : d = 1
    OBVIOUS
  <2>7. (d = 1 <=> Y > X) /\ (d = -1 <=> Y < X)
    BY <2>5, <2>6
  <2>8. n = Return(NextToInf(z, lo, hi), Signed(neg, d),
                   IF IsSingular(NextToInf(z, lo, hi)) THEN {"overflow"} ELSE {})
    BY <1>1, <1>2, <1>6, <2>6 DEF Nearby
  <2>9. CASE q + 1 < 2^p
    <3>1. PICK m \in Nat : m = q + 1
      OBVIOUS
    <3>2. Represents(m, p, e + Scale, Y)
      BY <1>1, <2>4, <2>9, <3>1
    <3>3. NextToInf(z, lo, hi) = Num(neg, e, m, p)
      BY <1>3, <2>9, <3>1
    <3>4. n = Return(Num(neg, e, m, p), Signed(neg, d), {})
      BY <2>8, <3>3 DEF IsSingular, Num
    <3>5. Outcome(Return(Num(neg, e, m, p), Signed(neg, d), {}), X, p, g, neg, lo, hi)
      BY <2>1, <2>3, <2>7, <3>2, FitsOutcome
    <3> QED
      BY <3>4, <3>5, Zenon
  <2>10. CASE q + 1 = 2^p /\ e = hi
    <3>1. NextToInf(z, lo, hi) = Inf(neg, p)
      BY <1>3, <2>10
    <3>2. n = Return(Inf(neg, p), Signed(neg, 1), {"overflow"})
      BY <2>6, <2>8, <3>1 DEF IsSingular, Inf
    <3>3. HasLength(RoundTo(X, p, g, neg), N + 1) /\ N + 1 \in Nat /\ N + 1 > hi + Scale
      BY <1>1, <2>3, <2>4, <2>10, RepresentsLength DEF RoundsTo
    <3> QED
      BY <2>1, <3>2, <3>3, InfOutcome
  <2>11. CASE q + 1 = 2^p /\ e # hi
    <3>1. PICK m, f \in Int : m = 2^(p - 1) /\ f = e + 1
      BY <1>1, PowNat
    <3>2. f + Scale = N + 1 /\ lo <= f /\ f <= hi
      BY <1>1, <2>11, <3>1
    <3>3. Represents(m, p, f + Scale, Y)
      BY <2>4, <2>11, <3>1, <3>2
    <3>4. m \in Nat
      BY <3>3 DEF Represents, IsSignificand
    <3>5. NextToInf(z, lo, hi) = Num(neg, f, m, p)
      BY <1>3, <2>11, <3>1
    <3>6. n = Return(Num(neg, f, m, p), Signed(neg, d), {})
      BY <2>8, <3>5 DEF IsSingular, Num
    <3>7. Outcome(Return(Num(neg, f, m, p), Signed(neg, d), {}), X, p, g, neg, lo, hi)
      BY <2>1, <2>3, <2>7, <3>2, <3>3, <3>4, FitsOutcome
    <3> QED
      BY <3>6, <3>7, Zenon
  <2>12. q + 1 < 2^p \/ q + 1 = 2^p
    BY PowNat DEF IsSignificand
  <2> QED
    BY <2>9, <2>10, <2>11, <2>12
<1>7. CASE ~ IsLikeRNDA(g, neg)
  <2>1. g # "RNDF" /\ (g = "RNDN" \/ (g \in ToOneSide /\ ~ Outward(g, neg)))
    BY <1>7, Sides
  <2>2. RoundsTo(V, X, p, g, neg)
    BY <1>4, <2>1, AboveGrid DEF RoundsTo
  <2>3. n = Return(Num(neg, e, q, p), Signed(neg, -1), {})
    BY <1>1, <1>7 DEF Nearby
  <2>4. Represents(q, p, e + Scale, V) /\ V < X
    BY <1>4, <1>5
  <2>5. Outcome(Return(Num(neg, e, q, p), Signed(neg, -1), {}), X, p, g, neg, lo, hi)
    BY <2>1, <2>2, <2>4, FitsOutcome
  <2> QED
    BY <2>3, <2>5, Zenon
<1> QED
  BY <1>6, <1>7

\* The test of mpfr_round_p passed: v and the exact result are on the same side of every
\* number of p bits, and of every midpoint to nearest.
LEMMA NearXTested ==
  ASSUME NEW p \in Nat, p > 0, NEW neg \in BOOLEAN, NEW g \in Rnds \ {"RNDF"}, NEW middle,
         NEW w \in Nat, w > 0, NEW k \in Nat, IsSignificand(k, w), NEW N \in 1..MaxBits, w <= N,
         NEW S \in Nat, Power(S, N - w), NEW C \in Nat, IsProduct(C, k, S),
         NEW err \in Nat, err <= w, NEW bn \in Nat, w <= bn * W,
         RoundP(k * 2^(bn * W - w), bn, err, Kept(g, p)),
         NEW G \in Nat, Power(G, N - err), NEW X \in Nat, C - G < X, X < C + G
  PROVE  Settled(RndRawGen(k, w, p, g, neg, middle), N, X, p, g, neg)
<1>1. PICK P \in Nat : P = Kept(g, p) /\ P > 0
  BY DEF Kept
<1>2. N \in Nat /\ err \in Int
  BY DEF RealRoundingAssumption
<1>3. RoundP(k * 2^(bn * W - w), bn, err, P)
  BY <1>1, Zenon
<1>4. /\ P < err
      /\ \E Q \in Nat, U \in Nat :
           /\ IsSignificand(Q, P) /\ UlpOf(U, N, P)
           /\ Q * U + G <= C /\ C + G < (Q + 1) * U
  BY <1>1, <1>2, <1>3, Room
<1>5. PICK Q \in Nat, U \in Nat :
        /\ IsSignificand(Q, P) /\ UlpOf(U, N, P)
        /\ Q * U + G <= C /\ C + G < (Q + 1) * U
  BY <1>4
<1>6. G > 0
  <2>1. N - err \in Nat
    BY <1>2
  <2> QED
    BY <2>1, PowNat DEF Power
<1>7. Between(C, Q, U) /\ Between(X, Q, U)
  <2>1. PICK a \in Nat : a = Q * U
    OBVIOUS
  <2>2. PICK b \in Nat : b = (Q + 1) * U
    OBVIOUS
  <2>3. a + G <= C /\ C + G < b
    BY <1>5, <2>1, <2>2
  <2>4. a < C /\ C < b /\ a < X /\ X < b
    BY <1>6, <2>3
  <2> QED
    BY <2>1, <2>2, <2>4 DEF Between
<1>8. P < w /\ P = Kept(g, p) /\ g \in Rnds
  BY <1>1, <1>4
<1> QED
  BY <1>5, <1>7, <1>8, TestSettles

OnGrid(s, p, N, C) ==
  /\ s.carry = 0 /\ s.dir = 0
  /\ \E q \in Nat, U \in Nat :
       s.mant = q /\ IsSignificand(q, p) /\ UlpOf(U, N, p) /\ IsProduct(C, q, U)

\* The error is below half of the last bit of v: either v is on the grid, or it tells where
\* the exact result is.
LEMMA NearXExact ==
  ASSUME NEW p \in Nat, p > 0, NEW neg \in BOOLEAN, NEW g \in Rnds \ {"RNDF"},
         NEW w \in Nat, w > 0, NEW k \in Nat, IsSignificand(k, w), NEW N \in 1..MaxBits, w <= N, p <= N,
         NEW S \in Nat, Power(S, N - w), NEW C \in Nat, IsProduct(C, k, S),
         NEW err \in Nat, w < err, err <= N,
         NEW G \in Nat, Power(G, N - err), NEW X \in Nat, C - G < X, X < C + G, X # C,
         NEW dir \in {0, 1}, dir = 1 <=> X > C
  PROVE  LET s == RndRawGen(k, w, p, g, neg, NearXMiddle(dir)) IN
         Settled(s, N, X, p, g, neg) \/ OnGrid(s, p, N, C)
<1>0. SUFFICES ASSUME NEW s, s = RndRawGen(k, w, p, g, neg, NearXMiddle(dir))
               PROVE  Settled(s, N, X, p, g, neg) \/ OnGrid(s, p, N, C)
  OBVIOUS
<1>1. N \in Nat /\ N - w \in Nat /\ N - err \in Nat /\ N - err < N - w
  BY DEF RealRoundingAssumption
<1>2. CloserThan(G, X, C, S, dir)
  BY <1>1, PowStrict DEF Power, CloserThan
<1>3. CASE p < w
  <2>1. PICK u \in Nat, q \in Nat, r \in Nat : Cut(k, w, p, u, q, r)
    BY <1>3, CutExists
  <2>2. CASE r # 0
    <3>1. Settled(RndRawGen(k, w, p, g, neg, NearXMiddle(dir)), N, X, p, g, neg)
      BY <1>2, <1>3, <2>1, <2>2, CloseSettles, SMTT(40)
    <3> QED
      BY <1>0, <3>1
  <2>3. CASE r = 0
    <3>1. s.mant = q /\ s.carry = 0 /\ s.dir = 0
      <4>1. g \in Rnds /\ p <= w
        BY <1>3
      <4> QED
        BY <1>0, <2>1, <2>3, <4>1, NothingLeft
    <3>2. IsSignificand(q, p)
      BY <1>3, <2>1, CutIs
    <3>3. PICK U \in Nat : IsProduct(U, u, S)
      BY DEF IsProduct
    <3>4. UlpOf(U, N, p)
      <4>1. PICK i \in Nat, j \in Nat : i = w - p /\ j = N - w
        BY <1>1, <1>3
      <4>2. 2^(i + j) = 2^i * 2^j
        BY PowAdd
      <4>3. i + j = N - p
        BY <1>1, <4>1
      <4>4. u = 2^i /\ S = 2^j
        BY <2>1, <4>1 DEF Cut, Power
      <4> QED
        BY <3>3, <4>2, <4>3, <4>4, Zenon DEF UlpOf, IsProduct
    <3>5. IsProduct(C, q, U)
      <4>1. k = q * u
        BY <2>1, <2>3 DEF Cut
      <4>2. (q * u) * S = q * (u * S)
        OBVIOUS
      <4> QED
        BY <3>3, <4>1, <4>2, Zenon DEF IsProduct
    <3> QED
      BY <3>1, <3>2, <3>4, <3>5 DEF OnGrid
  <2> QED
    BY <2>2, <2>3
<1>4. CASE w <= p
  <2>1. PICK i \in Nat : i = p - w
    BY <1>4
  <2>2. PICK T \in Nat : Power(T, i) /\ T > 0
    BY PowNat DEF Power
  <2>3. PICK q \in Nat : q = k * T
    OBVIOUS
  <2>4. s.mant = q /\ s.carry = 0 /\ s.dir = 0
    <3>1. s = [mant |-> k * 2^(p - w), carry |-> 0, dir |-> 0]
      BY <1>0, <1>4 DEF RndRawGen
    <3> QED
      BY <2>1, <2>2, <2>3, <3>1 DEF Power
  <2>5. IsSignificand(q, p)
    <3>1. IsSignificand(k * T, w + i)
      BY <2>2, Scaled
    <3>2. w + i = p
      BY <1>4, <2>1
    <3> QED
      BY <2>3, <3>1, <3>2
  <2>6. PICK U \in Nat : UlpOf(U, N, p)
    <3>1. N - p \in Nat
      BY <1>1
    <3> QED
      BY <3>1, PowNat DEF UlpOf
  <2>7. S = T * U
    <3>1. PICK j \in Nat : j = N - p
      BY <1>1
    <3>2. 2^(i + j) = 2^i * 2^j
      BY PowAdd
    <3>3. i + j = N - w
      BY <1>1, <1>4, <2>1, <3>1
    <3>4. S = 2^(i + j) /\ T = 2^i /\ U = 2^j
      BY <2>2, <2>6, <3>1, <3>3 DEF Power, UlpOf
    <3> QED
      BY <3>2, <3>4, Zenon
  <2>8. IsProduct(C, q, U)
    <3>1. (k * T) * U = k * (T * U)
      OBVIOUS
    <3> QED
      BY <2>3, <2>7, <3>1, Zenon DEF IsProduct
  <2> QED
    BY <2>4, <2>5, <2>6, <2>8 DEF OnGrid
<1> QED
  BY <1>3, <1>4

\* What mpfr_round_near_x may have been given: the exact result X less than G = 2^(N-err)
\* units from v, on the side dir.
NearTo(G, N, err, X, C, dir) ==
  /\ Power(G, N - err)
  /\ C - G < X /\ X < C + G /\ X # C
  /\ dir = 1 <=> X > C

MayRoundNear(k, w, err, p, g) ==
  LET bn == (w + W - 1) \div W IN
  /\ err > p + 1
  /\ err > w \/ RoundP(k * 2^(bn * W - w), bn, err, Kept(g, p))


\* The number of exponent e and significand k on w bits is closer to X than 2^(e-err), on the
\* other side of dir.
NearNumber(e, k, w, err, X, dir) ==
  \E N \in 1..MaxBits, S \in Nat, C \in Nat, G \in Nat :
    /\ N = e + Scale /\ w <= N /\ err <= N
    /\ Power(S, N - w) /\ IsProduct(C, k, S)
    /\ NearTo(G, N, err, X, C, dir)

\* mpfr_round_near_x is right, in any range that holds v.
THEOREM NearXOutcome ==
  ASSUME NEW p \in Nat, p > 0, NEW neg \in BOOLEAN, NEW rnd \in Rnds,
         NEW e \in Int, NEW lo \in Int, NEW hi \in Int, lo <= e, e <= hi,
         NEW w \in Nat, w > 0, NEW k \in Nat, IsSignificand(k, w),
         NEW err \in Nat, MayRoundNear(k, w, err, p, Definite(rnd)), NEW dir \in {0, 1},
         NEW M \in 1..MaxBits, NEW X, HasLength(X, M), NearNumber(e, k, w, err, X, dir)
  PROVE  Outcome(RoundNearX(Num(neg, e, k, w), err, dir, p, rnd, lo, hi),
                 X, p, Definite(rnd), neg, lo, hi)
<1>1. PICK N \in 1..MaxBits, S \in Nat, C \in Nat, G \in Nat :
        /\ N = e + Scale /\ w <= N /\ err <= N
        /\ Power(S, N - w) /\ IsProduct(C, k, S)
        /\ NearTo(G, N, err, X, C, dir)
  BY DEF NearNumber
<1>2. PICK g : g = Definite(rnd)
  OBVIOUS
<1>3. X \in Nat /\ C - G < X /\ X < C + G /\ X # C /\ (dir = 1 <=> X > C) /\ Power(G, N - err)
  BY <1>1 DEF NearTo, HasLength
<1>4. N \in Nat /\ N - w \in Nat /\ N - err \in Nat /\ p + 2 <= err /\ p + 2 <= N /\ p <= N
  BY <1>1 DEF MayRoundNear, RealRoundingAssumption
<1>5. g \in Rnds \ {"RNDF"}
  BY <1>2 DEF Definite, Rnds
<1>6. PICK s : s = RndRawGen(k, w, p, g, neg, NearXMiddle(dir))
  OBVIOUS
<1>7. PICK n : n = RoundNearX(Num(neg, e, k, w), err, dir, p, rnd, lo, hi)
  OBVIOUS
<1>8. Settled(s, N, X, p, g, neg) \/ OnGrid(s, p, N, C)
  <2>1. CASE err <= w
    <3>1. PICK bn \in Nat : bn = (w + W - 1) \div W /\ w <= bn * W
      BY LimbsHold
    <3>2. RoundP(k * 2^(bn * W - w), bn, err, Kept(g, p))
      BY <1>2, <2>1, <3>1 DEF MayRoundNear, Kept
    <3>3. Settled(RndRawGen(k, w, p, g, neg, NearXMiddle(dir)), N, X, p, g, neg)
      BY <1>3, <1>5, <1>1, <2>1, <3>1, <3>2, NearXTested
    <3> QED
      BY <1>6, <3>3
  <2>2. CASE err > w
    <3> QED
      BY <1>3, <1>4, <1>5, <1>6, <1>1, <2>2, NearXExact, ZenonT(60)
  <2> QED
    BY <2>1, <2>2
<1>9. s.carry \in {0, 1} /\ s.dir \in {-1, 0, 1}
  BY <1>5, <1>8 DEF Settled, OnGrid
<1>10. Nearby(n, s, e, dir, p, g, neg, lo, hi)
  BY <1>2, <1>6, <1>7, <1>9, <1>1, NearXCases
<1>11. CASE Settled(s, N, X, p, g, neg)
  <2>1. Outcome(n, X, p, g, neg, lo, hi)
    BY <1>2, <1>4, <1>5, <1>10, <1>11, <1>1, NearXSettled
  <2> QED
    BY <1>2, <1>7, <2>1
<1>12. CASE OnGrid(s, p, N, C)
  <2>1. PICK q \in Nat, U \in Nat :
          s.mant = q /\ IsSignificand(q, p) /\ UlpOf(U, N, p) /\ IsProduct(C, q, U)
    BY <1>12 DEF OnGrid
  <2>2. s.mant = q /\ s.carry = 0 /\ s.dir = 0
    BY <1>12, <2>1 DEF OnGrid
  <2>3. PICK h \in Nat : UlpOf(h, N, p + 2)
    <3>1. N - (p + 2) \in Nat
      BY <1>4
    <3> QED
      BY <3>1, PowNat DEF UlpOf
  <2>4. G <= h
    <3>1. N - err <= N - (p + 2) /\ N - (p + 2) \in Nat
      BY <1>4
    <3> QED
      BY <1>3, <1>4, <1>1, <2>3, <3>1, PowMonotone DEF Power, UlpOf
  <2>5. PICK V \in Nat : V = q * U
    OBVIOUS
  <2>6. C = V
    BY <1>1, <2>1, <2>5 DEF IsProduct
  <2>7. CASE dir = 0
    <3>1. V - h < X /\ X < V
      BY <1>3, <2>4, <2>6, <2>7
    <3>2. q * U - h < X /\ X < q * U
      BY <2>5, <3>1
    <3>3. Nearby(n, s, e, 0, p, g, neg, lo, hi)
      BY <1>10, <2>7
    <3>4. Outcome(n, X, p, g, neg, lo, hi)
      BY <1>2, <1>3, <1>4, <1>5, <2>1, <2>2, <2>3, <3>2, <3>3, <1>1, NearXBelow, ZenonT(60)
    <3> QED
      BY <1>2, <1>7, <3>4
  <2>8. CASE dir = 1
    <3>1. V < X /\ X < V + h
      BY <1>3, <2>4, <2>6, <2>8
    <3>2. q * U < X /\ X < q * U + h
      BY <2>5, <3>1
    <3>3. Nearby(n, s, e, 1, p, g, neg, lo, hi)
      BY <1>10, <2>8
    <3>4. Outcome(n, X, p, g, neg, lo, hi)
      BY <1>2, <1>3, <1>4, <1>5, <2>1, <2>2, <2>3, <3>2, <3>3, <1>1, NearXAbove, ZenonT(60)
    <3> QED
      BY <1>2, <1>7, <3>4
  <2> QED
    BY <2>7, <2>8
<1> QED
  BY <1>8, <1>11, <1>12

-----------------------------------------------------------------------------
(* From what is left in a range to what the user is promised               *)

\* The ternary value of a result on one side is not 0 and raises the inexact flag.
LEMMA InexactReturn ==
  ASSUME NEW neg \in BOOLEAN, NEW z, NEW f, NEW d \in {-1, 1}
  PROVE  Return(z, Signed(neg, d), f).raised = f \cup {"inexact"} /\ Signed(neg, d) # 0
<1>1. Signed(neg, d) # 0
  BY DEF Signed
<1> QED
  BY <1>1 DEF Return

\* What fits, as the lemmas on mpfr_check_range want it.
LEMMA FitsIs ==
  ASSUME NEW p, NEW neg, NEW g \in Rnds \ {"RNDF"}, NEW lo, NEW hi, NEW X, NEW z, NEW i,
         Fits(z, i, X, p, g, neg, lo, hi)
  PROVE  /\ i \in Int /\ i # 0
         /\ \E e \in Int, m \in Nat :
              /\ z = Num(neg, e, m, p) /\ lo <= e /\ e <= hi
              /\ \A E : IsOneRounding(m, p, e + Scale, i, X, g, neg, E)
<1>1. g # "RNDF" /\ g # "RNDNA" /\ Definite(g) = g
  BY DEF Rnds, Definite
<1>2. PICK e \in Int, m \in Nat :
        /\ z = Num(neg, e, m, p) /\ lo <= e /\ e <= hi
        /\ Represents(m, p, e + Scale, RoundTo(X, p, g, neg))
        /\ i \in Int /\ i # 0 /\ SignOf(i) = Ternary(RoundTo(X, p, g, neg), X, neg)
  BY <1>1 DEF Fits
<1>3. ASSUME NEW E PROVE IsOneRounding(m, p, e + Scale, i, X, g, neg, E)
  BY <1>1, <1>2 DEF IsOneRounding
<1> QED
  BY <1>2, <1>3

\* Nothing toward zero goes up.
LEMMA StaysBelow ==
  ASSUME NEW g \in Rnds, NEW neg \in BOOLEAN, TowardZero(g, neg), NEW X, NEW u
  PROVE  ~ GoesUp(0, X, u, g, neg)
BY DEF Rnds, TowardZero, GoesUp

\* An infinity or a zero beyond the borders of a range is beyond those of a smaller one.
LEMMA BeyondDelivers ==
  ASSUME NEW p \in Nat, p > 0, NEW neg \in BOOLEAN, NEW g \in Rnds \ {"RNDF"},
         NEW lo \in Int, NEW hi \in Int, lo <= hi, 2 <= lo + Scale, NEW xlo \in Int, NEW xhi \in Int, xlo <= lo, hi <= xhi,
         NEW M \in 1..MaxBits, M < MaxBits, NEW X, HasLength(X, M),
         NEW z, NEW i, NEW c, c.y = z, c.inex = i
  PROVE  /\ TooLarge(z, i, X, p, g, neg, xhi) /\ c.raised = {"inexact", "overflow"} =>
              Delivers(c, p, Scale, X, g, neg, lo + Scale, hi + Scale)
         /\ TooSmall(z, i, X, p, g, neg, xlo) /\ c.raised = {"inexact", "underflow"} =>
              Delivers(c, p, Scale, X, g, neg, lo + Scale, hi + Scale)
<1>1. Definite(g) = g /\ Scale \in Nat
  BY ZivAssumption DEF Rnds, Definite
<1>2. PICK E \in Nat, F \in Nat : E = lo + Scale /\ F = hi + Scale /\ E > 0 /\ E <= F
  BY <1>1
<1>3. ASSUME TooLarge(z, i, X, p, g, neg, xhi), c.raised = {"inexact", "overflow"}
      PROVE  Delivers(c, p, Scale, X, g, neg, E, F)
  <2>1. PICK l \in Nat : HasLength(RoundTo(X, p, g, neg), l) /\ l > xhi + Scale
    BY <1>3 DEF TooLarge
  <2>2. l > F
    BY <1>1, <1>2, <2>1
  <2>3. c.y = Inf(neg, p) /\ c.inex = Signed(neg, 1) /\ ~ TowardZero(g, neg)
    BY <1>3 DEF TooLarge
  <2> QED
    BY <1>2, <1>3, <2>1, <2>2, <2>3, InfinityDelivers
<1>4. ASSUME TooSmall(z, i, X, p, g, neg, xlo), c.raised = {"inexact", "underflow"}
      PROVE  Delivers(c, p, Scale, X, g, neg, E, F)
  <2>1. PICK l \in Nat : HasLength(RoundTo(X, p, g, neg), l) /\ l < xlo + Scale
    BY <1>1, <1>4 DEF TooSmall
  <2>2. l < E
    BY <1>1, <1>2, <2>1
  <2>3. c.y = Zero(neg, p) /\ c.inex = Signed(neg, -1) /\ TowardZero(g, neg)
    BY <1>1, <1>4 DEF TooSmall
  <2>4. ~ GoesUp(0, X, 2^(E - 1), g, neg)
    BY <2>3, StaysBelow
  <2> QED
    BY <1>2, <1>4, <2>1, <2>2, <2>3, <2>4, ZeroDelivers
<1> QED
  BY <1>2, <1>3, <1>4

Held(c, lo) == c.y.kind = "num" => c.y.exp \in Int /\ lo <= c.y.exp

\* What is left in the user's range is what the user wants.
LEMMA OutcomeDelivers ==
  ASSUME NEW p \in Nat, p > 0, NEW neg \in BOOLEAN, NEW g \in Rnds \ {"RNDF"},
         NEW lo \in Int, NEW hi \in Int, lo <= hi, 2 <= lo + Scale,
         NEW M \in 1..MaxBits, M < MaxBits, NEW X, HasLength(X, M),
         NEW n, Outcome(n, X, p, g, neg, lo, hi)
  PROVE  Delivers(n, p, Scale, X, g, neg, lo + Scale, hi + Scale) /\ Held(n, lo)
<1>1. PICK z, i :
        \/ n = Return(z, i, {}) /\ Fits(z, i, X, p, g, neg, lo, hi)
        \/ n = Return(z, i, {"overflow"}) /\ TooLarge(z, i, X, p, g, neg, hi)
        \/ n = Return(z, i, {"underflow"}) /\ TooSmall(z, i, X, p, g, neg, lo)
  BY DEF Outcome
<1>2. g \in RoundingDirections /\ Asked(g) = g /\ Scale \in Nat
  BY ZivAssumption DEF Rnds, RoundingDirections, Asked
<1>3. CASE n = Return(z, i, {}) /\ Fits(z, i, X, p, g, neg, lo, hi)
  <2>1. PICK e \in Int, m \in Nat :
          /\ z = Num(neg, e, m, p) /\ lo <= e /\ e <= hi
          /\ IsOneRounding(m, p, e + Scale, i, X, g, neg, lo + Scale)
    BY <1>3, FitsIs
  <2>2. LET c == CheckRange(Num(neg, e, m, p), i, Asked(g), lo, hi) IN
        /\ c = Return(Num(neg, e, m, p), i, {})
        /\ Delivers(c, p, Scale, X, g, neg, lo + Scale, hi + Scale)
    BY <1>2, <2>1, CheckRangeInside
  <2>3. n.y = Num(neg, e, m, p)
    BY <1>3, <2>1 DEF Return
  <2>4. Held(n, lo)
    BY <2>1, <2>3 DEF Held, Num
  <2> QED
    BY <1>3, <2>1, <2>2, <2>4, Zenon
<1>4. CASE n = Return(z, i, {"overflow"}) /\ TooLarge(z, i, X, p, g, neg, hi)
  <2>1. n.y = z /\ n.inex = i /\ z = Inf(neg, p) /\ i = Signed(neg, 1)
    BY <1>4 DEF Return, TooLarge
  <2>2. n.raised = {"inexact", "overflow"}
    <3>1. Return(z, Signed(neg, 1), {"overflow"}).raised = {"overflow"} \cup {"inexact"}
      BY InexactReturn
    <3> QED
      BY <1>4, <2>1, <3>1
  <2>3. Held(n, lo)
    BY <2>1 DEF Held, Inf
  <2>4. Delivers(n, p, Scale, X, g, neg, lo + Scale, hi + Scale)
    BY <1>4, <2>1, <2>2, BeyondDelivers
  <2> QED
    BY <2>3, <2>4
<1>5. CASE n = Return(z, i, {"underflow"}) /\ TooSmall(z, i, X, p, g, neg, lo)
  <2>1. n.y = z /\ n.inex = i /\ z = Zero(neg, p) /\ i = Signed(neg, -1)
    BY <1>5 DEF Return, TooSmall
  <2>2. n.raised = {"inexact", "underflow"}
    <3>1. Return(z, Signed(neg, -1), {"underflow"}).raised = {"underflow"} \cup {"inexact"}
      BY InexactReturn
    <3> QED
      BY <1>5, <2>1, <3>1
  <2>3. Held(n, lo)
    BY <2>1 DEF Held, Zero
  <2>4. Delivers(n, p, Scale, X, g, neg, lo + Scale, hi + Scale)
    BY <1>5, <2>1, <2>2, BeyondDelivers
  <2> QED
    BY <2>3, <2>4
<1> QED
  BY <1>1, <1>3, <1>4, <1>5

\* What a computation leaves to mpfr_check_range, in the exponent range xlo..xhi, and the
\* flags that were kept.
Left(z, i, kept, X, p, g, neg, xlo, xhi) ==
  \/ Fits(z, i, X, p, g, neg, xlo, xhi) /\ kept \subseteq {"inexact"} /\ (i = 0 => kept = {})
  \/ TooLarge(z, i, X, p, g, neg, xhi) /\ kept \subseteq {"inexact", "overflow"}
  \/ TooSmall(z, i, X, p, g, neg, xlo) /\ kept = {"inexact", "underflow"}

\* What a computation leaves in a range may be taken out of it with its flags kept.
LEMMA OutcomeLeft ==
  ASSUME NEW n, NEW X, NEW p, NEW g, NEW neg \in BOOLEAN, NEW lo, NEW hi, Outcome(n, X, p, g, neg, lo, hi)
  PROVE  Left(n.y, n.inex, n.raised, X, p, g, neg, lo, hi)
<1>1. PICK z, i :
        \/ n = Return(z, i, {}) /\ Fits(z, i, X, p, g, neg, lo, hi)
        \/ n = Return(z, i, {"overflow"}) /\ TooLarge(z, i, X, p, g, neg, hi)
        \/ n = Return(z, i, {"underflow"}) /\ TooSmall(z, i, X, p, g, neg, lo)
  BY DEF Outcome
<1>2. n.y = z /\ n.inex = i
  BY <1>1 DEF Return
<1>3. CASE n = Return(z, i, {}) /\ Fits(z, i, X, p, g, neg, lo, hi)
  <2>1. n.raised = IF i = 0 THEN {} ELSE {"inexact"}
    BY <1>3 DEF Return
  <2> QED
    BY <1>2, <1>3, <2>1 DEF Left
<1>4. CASE n = Return(z, i, {"overflow"}) /\ TooLarge(z, i, X, p, g, neg, hi)
  <2>1. n.raised \subseteq {"inexact", "overflow"}
    BY <1>4 DEF Return
  <2> QED
    BY <1>2, <1>4, <2>1 DEF Left
<1>5. CASE n = Return(z, i, {"underflow"}) /\ TooSmall(z, i, X, p, g, neg, lo)
  <2>1. Return(z, Signed(neg, -1), {"underflow"}).raised = {"underflow"} \cup {"inexact"}
    BY InexactReturn
  <2>2. n.raised = {"inexact", "underflow"}
    BY <1>5, <2>1 DEF TooSmall
  <2> QED
    BY <1>2, <1>5, <2>2 DEF Left
<1> QED
  BY <1>1, <1>3, <1>4, <1>5

\* The flags that mpfr_check_range raises do not depend on the direction.
LEMMA RaisedAlike ==
  ASSUME NEW neg \in BOOLEAN, NEW e \in Int, NEW m, NEW p, NEW i, NEW j, i # 0 => j # 0,
         NEW lo \in Int, NEW hi \in Int, lo <= hi
  PROVE  CheckRange(Num(neg, e, m, p), i, "RNDF", lo, hi).raised
           \subseteq CheckRange(Num(neg, e, m, p), j, "RNDZ", lo, hi).raised
<1>1. PICK z : z = Num(neg, e, m, p)
  OBVIOUS
<1>2. z.kind = "num" /\ z.exp = e
  BY <1>1 DEF Num
<1>3. CheckRange(z, i, "RNDF", lo, hi).raised \subseteq CheckRange(z, j, "RNDZ", lo, hi).raised
  <2>1. CASE z.exp < lo
    <3>1. z.exp < lo /\ ~ (z.exp > hi)
      BY <1>2, <2>1
    <3>2. /\ CheckRange(z, i, "RNDF", lo, hi) = Underflow(z.prec, "RNDF", z.neg, lo)
          /\ CheckRange(z, j, "RNDZ", lo, hi) = Underflow(z.prec, "RNDZ", z.neg, lo)
      BY <1>2, <3>1 DEF CheckRange
    <3>3. z.neg \in BOOLEAN
      BY <1>1 DEF Num
    <3>4. ASSUME NEW g PROVE Underflow(z.prec, g, z.neg, lo).raised = {"underflow", "inexact"}
      <4>1. ASSUME NEW w, NEW d \in {-1, 1}
            PROVE  Return(w, Signed(z.neg, d), {"underflow"}).raised = {"underflow"} \cup {"inexact"}
        BY <3>3, InexactReturn
      <4> QED
        BY <4>1 DEF Underflow
    <3> QED
      BY <3>2, <3>4
  <2>2. CASE ~ (z.exp < lo) /\ z.exp > hi
    <3>1. /\ CheckRange(z, i, "RNDF", lo, hi) = Overflow(z.prec, "RNDF", z.neg, hi)
          /\ CheckRange(z, j, "RNDZ", lo, hi) = Overflow(z.prec, "RNDZ", z.neg, hi)
      BY <1>2, <2>2 DEF CheckRange
    <3>2. z.neg \in BOOLEAN
      BY <1>1 DEF Num
    <3>3. ASSUME NEW g PROVE Overflow(z.prec, g, z.neg, hi).raised = {"overflow", "inexact"}
      <4>1. ASSUME NEW w, NEW d \in {-1, 1}
            PROVE  Return(w, Signed(z.neg, d), {"overflow"}).raised = {"overflow"} \cup {"inexact"}
        BY <3>2, InexactReturn
      <4> QED
        BY <4>1 DEF Overflow
    <3> QED
      BY <3>1, <3>3
  <2>3. CASE ~ (z.exp < lo) /\ ~ (z.exp > hi)
    <3>1. /\ CheckRange(z, i, "RNDF", lo, hi) = Return(z, i, {})
          /\ CheckRange(z, j, "RNDZ", lo, hi) = Return(z, j, {})
      BY <1>2, <2>3 DEF CheckRange
    <3> QED
      BY <3>1 DEF Return
  <2> QED
    BY <2>1, <2>2, <2>3
<1> QED
  BY <1>1, <1>3

\* c after the flags of the computation were kept.
After(b, c, kept) == b.y = c.y /\ b.inex = c.inex /\ b.raised = kept \cup c.raised

\* Flags that the last check raises again may have been kept.
LEMMA AfterDelivers ==
  ASSUME NEW b, NEW c, NEW kept, After(b, c, kept), kept \subseteq c.raised,
         NEW p, NEW X, NEW g, NEW neg, NEW E, NEW F, Delivers(c, p, Scale, X, g, neg, E, F)
  PROVE  Delivers(b, p, Scale, X, g, neg, E, F)
<1>1. b.raised = c.raised
  BY DEF After
<1> QED
  BY <1>1, Zenon DEF After, Delivers

\* mpfr_check_range on an infinity or a zero.
LEMMA SingularChecked ==
  ASSUME NEW neg \in BOOLEAN, NEW p, NEW z, NEW i, NEW rnd, NEW lo, NEW hi
  PROVE  /\ z = Inf(neg, p) /\ i = Signed(neg, 1) =>
              CheckRange(z, i, rnd, lo, hi) = Return(z, i, {"overflow"})
         /\ z = Zero(neg, p) => CheckRange(z, i, rnd, lo, hi) = Return(z, i, {})
<1>1. ASSUME z = Inf(neg, p), i = Signed(neg, 1)
      PROVE  CheckRange(z, i, rnd, lo, hi) = Return(z, i, {"overflow"})
  <2>1. z.kind = "inf" /\ i # 0
    BY <1>1 DEF Inf, Signed
  <2> QED
    BY <2>1 DEF CheckRange
<1>2. ASSUME z = Zero(neg, p) PROVE CheckRange(z, i, rnd, lo, hi) = Return(z, i, {})
  <2>1. z.kind = "zero"
    BY <1>2 DEF Zero
  <2> QED
    BY <2>1 DEF CheckRange
<1> QED
  BY <1>1, <1>2

\* The exponent of an mpfr_t, whatever its kind.
LEMMA ExpInt ==
  ASSUME NEW z, NEW i, NEW kept, NEW X, NEW p, NEW g, NEW neg, NEW lo, NEW hi,
         Left(z, i, kept, X, p, g, neg, lo, hi)
  PROVE  z.exp \in Int
<1>1. ASSUME Fits(z, i, X, p, g, neg, lo, hi) PROVE z.exp \in Int
  <2>1. PICK e \in Int, m \in Nat : z = Num(neg, e, m, p)
    BY <1>1 DEF Fits
  <2> QED
    BY <2>1 DEF Num
<1>2. ASSUME TooLarge(z, i, X, p, g, neg, hi) PROVE z.exp \in Int
  BY <1>2 DEF TooLarge, Inf
<1>3. ASSUME TooSmall(z, i, X, p, g, neg, lo) PROVE z.exp \in Int
  BY <1>3 DEF TooSmall, Zero
<1> QED
  BY <1>1, <1>2, <1>3 DEF Left

\* mpfr_check_range makes the number held.
LEMMA AfterHeld ==
  ASSUME NEW z, z.exp \in Int, NEW i, NEW rnd, NEW lo \in Int, NEW hi \in Int, lo <= hi,
         NEW b, NEW c, NEW kept, After(b, c, kept), c = CheckRange(z, i, rnd, lo, hi)
  PROVE  Held(b, lo)
<1>1. c.y.kind = "num" => c.y.exp \in Int /\ lo <= c.y.exp
  BY CheckRangeKeeps
<1> QED
  BY <1>1 DEF After, Held

\* Out of the extended range: mpfr_check_range changes nothing but the overflow flag.
LEMMA BackBeyond ==
  ASSUME NEW p \in Nat, p > 0, NEW neg \in BOOLEAN, NEW g \in Rnds \ {"RNDF"}, NEW rnd,
         NEW lo \in Int, NEW hi \in Int, lo <= hi, 2 <= lo + Scale,
         NEW xlo \in Int, NEW xhi \in Int, xlo <= lo, hi <= xhi,
         NEW M \in 1..MaxBits, M < MaxBits, NEW X, HasLength(X, M),
         NEW z, NEW i, NEW kept,
         \/ TooLarge(z, i, X, p, g, neg, xhi) /\ kept \subseteq {"inexact", "overflow"}
         \/ TooSmall(z, i, X, p, g, neg, xlo) /\ kept = {"inexact", "underflow"},
         NEW b, NEW c, After(b, c, kept), c = CheckRange(z, i, rnd, lo, hi)
  PROVE  Delivers(b, p, Scale, X, g, neg, lo + Scale, hi + Scale)
<1>1. CASE TooLarge(z, i, X, p, g, neg, xhi) /\ kept \subseteq {"inexact", "overflow"}
  <2>1. z = Inf(neg, p) /\ i = Signed(neg, 1)
    BY <1>1 DEF TooLarge
  <2>2. c = Return(z, i, {"overflow"})
    BY <2>1, SingularChecked
  <2>3. c.y = z /\ c.inex = i
    BY <2>2 DEF Return
  <2>4. c.raised = {"inexact", "overflow"}
    <3>1. Return(z, Signed(neg, 1), {"overflow"}).raised = {"overflow"} \cup {"inexact"}
      BY InexactReturn
    <3> QED
      BY <2>1, <2>2, <3>1
  <2>5. Delivers(c, p, Scale, X, g, neg, lo + Scale, hi + Scale)
    BY <1>1, <2>3, <2>4, BeyondDelivers
  <2>6. kept \subseteq c.raised
    BY <1>1, <2>4
  <2> QED
    BY <2>5, <2>6, AfterDelivers
<1>2. CASE TooSmall(z, i, X, p, g, neg, xlo) /\ kept = {"inexact", "underflow"}
  <2>1. z = Zero(neg, p) /\ i = Signed(neg, -1)
    BY <1>2 DEF TooSmall
  <2>2. c = Return(z, i, {})
    BY <2>1, SingularChecked
  <2>3. b.y = z /\ b.inex = i
    BY <2>2 DEF Return, After
  <2>4. b.raised = {"inexact", "underflow"}
    <3>1. Return(z, Signed(neg, -1), {}).raised = {} \cup {"inexact"}
      BY InexactReturn
    <3>2. c.raised = {"inexact"}
      BY <2>1, <2>2, <3>1
    <3> QED
      BY <1>2, <3>2 DEF After
  <2> QED
    BY <1>2, <2>3, <2>4, BeyondDelivers
<1> QED
  BY <1>1, <1>2

\* What a computation leaves in the extended range, brought back to the user's: the result
\* the user asked for, with its flags.
LEMMA BackExact ==
  ASSUME NEW p \in Nat, p > 0, NEW neg \in BOOLEAN, NEW g \in Rnds \ {"RNDF"},
         NEW lo \in Int, NEW hi \in Int, lo <= hi, 2 <= lo + Scale, p <= hi + Scale,
         NEW xlo \in Int, NEW xhi \in Int, xlo <= lo, hi <= xhi,
         NEW M \in 1..MaxBits, M < MaxBits, NEW X, HasLength(X, M),
         NEW z, NEW i, NEW kept, Left(z, i, kept, X, p, g, neg, xlo, xhi),
         NEW b, NEW c, After(b, c, kept), c = CheckRange(z, i, g, lo, hi)
  PROVE  Delivers(b, p, Scale, X, g, neg, lo + Scale, hi + Scale) /\ Held(b, lo)
<1>1. Held(b, lo)
  BY ExpInt, AfterHeld
<1>2. g \in RoundingDirections /\ Asked(g) = g /\ Scale \in Nat
  BY ZivAssumption DEF Rnds, RoundingDirections, Asked
<1>3. CASE Fits(z, i, X, p, g, neg, xlo, xhi) /\ kept \subseteq {"inexact"}
  <2>0. Fits(z, i, X, p, g, neg, xlo, xhi)
    BY <1>3
  <2>1. PICK e \in Int, m \in Nat :
          z = Num(neg, e, m, p) /\ IsOneRounding(m, p, e + Scale, i, X, g, neg, lo + Scale)
    <3>1. \E e \in Int, m \in Nat :
            /\ z = Num(neg, e, m, p) /\ xlo <= e /\ e <= xhi
            /\ \A E : IsOneRounding(m, p, e + Scale, i, X, g, neg, E)
      BY <2>0, FitsIs, Zenon
    <3> QED
      BY <3>1
  <2>2. i \in Int /\ i # 0
    BY <2>0 DEF Fits
  <2>3. Delivers(CheckRange(Num(neg, e, m, p), i, Asked(g), lo, hi), p, Scale, X, g, neg, lo + Scale, hi + Scale)
    BY <1>2, <2>1, CheckRangeRight
  <2>4. Delivers(c, p, Scale, X, g, neg, lo + Scale, hi + Scale)
    BY <1>2, <2>1, <2>3, Zenon
  <2>5. "inexact" \in c.raised
    BY <2>2, ExpInt, CheckRangeInexact
  <2> QED
    BY <1>1, <1>3, <2>4, <2>5, AfterDelivers
<1>4. CASE \/ TooLarge(z, i, X, p, g, neg, xhi) /\ kept \subseteq {"inexact", "overflow"}
           \/ TooSmall(z, i, X, p, g, neg, xlo) /\ kept = {"inexact", "underflow"}
  BY <1>1, <1>4, BackBeyond
<1> QED
  BY <1>3, <1>4 DEF Left

\* With MPFR_RNDF: one of the two roundings, and flags that one of them calls for.
Faithful(b, X, p, neg, E, F) ==
  /\ \E d \in {"RNDZ", "RNDA"} : StandsFor(b.y, p, Scale, CorrectValue(X, p, d, neg, E, F))
  /\ b.raised \subseteq CorrectFlags(X, p, "RNDZ", neg, E, F) \cup CorrectFlags(X, p, "RNDA", neg, E, F)

\* With MPFR_RNDF, what was left is brought back to one of the two faithful results; the flags
\* are those that one of them calls for.
LEMMA BackFaithful ==
  ASSUME NEW p \in Nat, p > 0, NEW neg \in BOOLEAN, NEW g \in {"RNDZ", "RNDF"},
         NEW lo \in Int, NEW hi \in Int, lo <= hi, 2 <= lo + Scale, p <= hi + Scale,
         NEW xlo \in Int, NEW xhi \in Int, xlo <= lo, hi <= xhi,
         NEW M \in 1..MaxBits, M < MaxBits, NEW X, HasLength(X, M),
         NEW z, NEW i, NEW kept, Left(z, i, kept, X, p, g, neg, xlo, xhi),
         NEW b, NEW c, After(b, c, kept), c = CheckRange(z, i, "RNDF", lo, hi)
  PROVE  Faithful(b, X, p, neg, lo + Scale, hi + Scale) /\ Held(b, lo)
<1>1. Held(b, lo)
  BY ExpInt, AfterHeld
<1>2. Scale \in Nat
  BY ZivAssumption
<1>3. CASE Fits(z, i, X, p, g, neg, xlo, xhi) /\ kept \subseteq {"inexact"} /\ (i = 0 => kept = {})
  <2>1. PICK e \in Int, m \in Nat :
          /\ z = Num(neg, e, m, p)
          /\ Represents(m, p, e + Scale, RoundTo(X, p, Definite(g), neg))
          /\ i \in Int
          /\ IF g = "RNDF" THEN i = 0
             ELSE i # 0 /\ SignOf(i) = Ternary(RoundTo(X, p, g, neg), X, neg)
    BY <1>3 DEF Fits
  <2>2. PICK d \in Rnds : d = "RNDZ"
    BY DEF Rnds
  <2>3. Definite(g) = d /\ d \in RoundingDirections /\ Asked(d) = d /\ d # "RNDNA" /\ d \in {"RNDZ", "RNDA"}
        /\ d \in Rnds \ {"RNDF"}
    BY <2>2 DEF Definite, RoundingDirections, Asked
  <2>4. Represents(m, p, e + Scale, RoundTo(X, p, d, neg))
    BY <2>1, <2>3, Zenon
  <2>5. PICK Y \in Nat : RoundsTo(Y, X, p, d, neg)
    <3>1. RoundTo(X, p, d, neg) \in Nat
      BY <2>4 DEF Represents
    <3> QED
      BY <3>1 DEF RoundsTo
  <2>6. X \in Nat
    BY DEF HasLength
  <2>7. PICK j \in Int : SignOf(j) = Ternary(Y, X, neg) /\ (i # 0 => j = i)
    <3>1. CASE i # 0
      <4>1. g = d /\ SignOf(i) = Ternary(RoundTo(X, p, g, neg), X, neg)
        BY <2>1, <2>2, <3>1
      <4> QED
        BY <2>1, <2>5, <4>1 DEF RoundsTo
    <3>2. CASE i = 0
      <4>1. Ternary(Y, X, neg) \in {-1, 0, 1}
        BY <2>5, <2>6 DEF Ternary, SignOf
      <4>2. \A k \in {-1, 0, 1} : SignOf(k) = k
        BY DEF SignOf
      <4> QED
        BY <3>2, <4>1, <4>2
    <3> QED
      BY <2>1, <3>1, <3>2
  <2>8. IsOneRounding(m, p, e + Scale, j, X, d, neg, lo + Scale)
    <3>1. SignOf(j) = Ternary(RoundTo(X, p, d, neg), X, neg)
      BY <2>5, <2>7 DEF RoundsTo
    <3> QED
      BY <2>3, <2>4, <3>1, <2>7 DEF IsOneRounding
  <2>9. PICK a : a = CheckRange(Num(neg, e, m, p), j, d, lo, hi)
    OBVIOUS
  <2>10. Delivers(a, p, Scale, X, d, neg, lo + Scale, hi + Scale)
    <3>1. Delivers(CheckRange(Num(neg, e, m, p), j, Asked(d), lo, hi), p, Scale, X, d, neg, lo + Scale, hi + Scale)
      BY <1>2, <2>3, <2>8, CheckRangeRight
    <3> QED
      BY <2>3, <2>9, <3>1, Zenon
  <2>11. a.raised = CorrectFlags(X, p, "RNDZ", neg, lo + Scale, hi + Scale)
    BY <2>2, <2>10, Zenon DEF Delivers
  <2>12. c.raised \subseteq a.raised
    <3>1. i # 0 => j # 0
      BY <2>7
    <3>2. CheckRange(Num(neg, e, m, p), i, "RNDF", lo, hi).raised
            \subseteq CheckRange(Num(neg, e, m, p), j, "RNDZ", lo, hi).raised
      BY <3>1, RaisedAlike
    <3> QED
      BY <2>1, <2>2, <2>9, <3>2, Zenon
  <2>13. kept \subseteq a.raised
    <3>1. CASE i = 0
      BY <1>3, <3>1
    <3>2. CASE i # 0
      <4>1. j # 0
        BY <2>7, <3>2
      <4>2. Num(neg, e, m, p).exp \in Int
        BY DEF Num
      <4>3. "inexact" \in a.raised
        BY <2>9, <4>1, <4>2, CheckRangeInexact
      <4> QED
        BY <1>3, <4>3
    <3> QED
      BY <3>1, <3>2
  <2>14. PICK f \in {"RNDZ", "RNDA"} : StandsFor(c.y, p, Scale, CorrectValue(X, p, f, neg, lo + Scale, hi + Scale))
    <3>1. LET cc == CheckRange(Num(neg, e, m, p), i, "RNDF", lo, hi) IN
          \E f \in {"RNDZ", "RNDA"} :
            StandsFor(cc.y, p, Scale, CorrectValue(X, p, f, neg, lo + Scale, hi + Scale))
      BY <1>2, <2>3, <2>4, CheckRangeFaithful
    <3> QED
      BY <2>1, <3>1
  <2>15. b.y = c.y /\ b.raised \subseteq CorrectFlags(X, p, "RNDZ", neg, lo + Scale, hi + Scale)
    BY <2>11, <2>12, <2>13 DEF After
  <2>16. StandsFor(b.y, p, Scale, CorrectValue(X, p, f, neg, lo + Scale, hi + Scale))
    BY <2>14, <2>15, Zenon
  <2> QED
    BY <1>1, <2>15, <2>16 DEF Faithful
<1>4. CASE TooLarge(z, i, X, p, g, neg, xhi)
  BY <1>4 DEF TooLarge, TowardZero
<1>5. CASE TooSmall(z, i, X, p, g, neg, xlo) /\ kept = {"inexact", "underflow"}
  <2>1. PICK d \in Rnds \ {"RNDF"} : d = "RNDZ"
    BY DEF Rnds
  <2>2. Definite(g) = Definite(d)
    BY <2>1 DEF Definite
  <2>3. TooSmall(z, i, X, p, d, neg, xlo)
    BY <1>5, <2>2 DEF TooSmall
  <2>4. Delivers(b, p, Scale, X, d, neg, lo + Scale, hi + Scale)
    BY <1>5, <2>3, BackBeyond
  <2>5. /\ StandsFor(b.y, p, Scale, CorrectValue(X, p, "RNDZ", neg, lo + Scale, hi + Scale))
        /\ b.raised = CorrectFlags(X, p, "RNDZ", neg, lo + Scale, hi + Scale)
    BY <2>1, <2>4, Zenon DEF Delivers
  <2> QED
    BY <1>1, <2>5 DEF Faithful
<1> QED
  BY <1>3, <1>4, <1>5 DEF Left

-----------------------------------------------------------------------------
(* What is asked for, and the approximations of it                         *)

\* A number of XBits bits, the last one set.
Long(X, M) == \E j \in Nat, S \in Nat : X = (2 * j + 1) * S /\ Power(S, M - XBits)

\* The exact results are bounded, and have more bits than any precision and its midpoints.
LEMMA CallIs ==
  ASSUME call \in Calls
  PROVE  /\ call.neg \in BOOLEAN /\ call.rnd \in Rnds
         /\ call.prec \in Nat /\ call.prec > 0
         /\ call.prec + 1 < XBits /\ call.prec <= ExtEMin + Scale
         /\ call.x \in Nat
         /\ \E M \in 1..MaxBits :
              M < MaxBits /\ XBits <= M /\ HasLength(call.x, M) /\ Long(call.x, M)
<1>1. call.neg \in BOOLEAN /\ call.rnd \in Rnds /\ call.prec \in Precs /\ call.x \in Results
  BY DEF Calls
<1>2. /\ call.prec \in Nat /\ call.prec > 0
      /\ call.prec + 1 < XBits /\ call.prec <= ExtEMin + Scale
  BY <1>1, ZivAssumption
<1>3. PICK k \in 2^(XBits-2)..2^(XBits-1)-1, e \in Exps : call.x = (2 * k + 1) * 2^(e + Scale - XBits)
  BY <1>1 DEF Results
<1>4. Scale \in Nat /\ XBits \in Nat /\ XBits > 2 /\ e \in Int /\ XBits <= e + Scale /\ e + Scale < MaxBits
  BY <1>2, ZivAssumption
<1>5. MaxBits \in Nat
  BY RealRoundingAssumption
<1>6. PICK M \in 1..MaxBits : M = e + Scale /\ M < MaxBits /\ XBits <= M
  BY <1>4, <1>5
<1>7. M - XBits \in Nat /\ M \in Nat
  BY <1>4, <1>6
<1>8. PICK S \in Nat : Power(S, M - XBits) /\ S > 0
  BY <1>7, PowNat DEF Power
<1>9. /\ k \in Nat
      /\ IsSignificand(2 * k + 1, XBits)
  <2>1. PICK a \in Nat : a = XBits - 2
    BY <1>4
  <2>2. a + 1 = XBits - 1 /\ (a + 1) + 1 = XBits
    BY <1>4, <2>1
  <2>3. PICK A \in Nat : A = 2^a
    BY PowNat
  <2>4. 2^(a + 1) = 2 * A /\ 2^((a + 1) + 1) = 2 * (2 * A)
    BY <2>3, PowSucc
  <2>5. 2^(XBits - 2) = A /\ 2^(XBits - 1) = 2 * A /\ 2^XBits = 4 * A
    BY <2>1, <2>2, <2>3, <2>4
  <2>6. k \in Int /\ A <= k /\ k <= 2 * A - 1
    BY <2>5
  <2>7. k \in Nat /\ 2 * k + 1 \in Nat /\ 2 * A <= 2 * k + 1 /\ 2 * k + 1 < 4 * A
    BY <2>6
  <2> QED
    BY <2>5, <2>7 DEF IsSignificand
<1>10. call.x = (2 * k + 1) * S
  <2>1. e + Scale - XBits = M - XBits
    BY <1>4, <1>6
  <2>2. 2^(e + Scale - XBits) = S
    BY <1>8, <2>1, Zenon DEF Power
  <2> QED
    BY <1>3, <2>2, Zenon
<1>11. HasLength(call.x, M)
  <2>1. PICK l \in Nat : l = M - XBits
    BY <1>7
  <2>2. PICK b \in Nat : b = 2 * k + 1
    BY <1>9
  <2>3. IsSignificand(b * S, XBits + l)
    BY <1>4, <1>8, <1>9, <2>1, <2>2, Scaled
  <2>4. XBits + l = M
    BY <1>4, <1>7, <2>1
  <2>5. IsSignificand(call.x, M)
    BY <1>10, <2>2, <2>3, <2>4
  <2> QED
    BY <1>7, <1>6, <2>5 DEF IsSignificand, HasLength
<1>12. Long(call.x, M)
  BY <1>8, <1>9, <1>10 DEF Long
<1>13. call.x \in Nat
  BY <1>11 DEF HasLength
<1> QED
  BY <1>1, <1>2, <1>6, <1>11, <1>12, <1>13

\* Such a number is none of the numbers of fewer bits.
LEMMA NotShort ==
  ASSUME NEW M \in Nat, XBits <= M, NEW X, HasLength(X, M), Long(X, M),
         NEW P \in Nat, P > 0, P < XBits, NEW N \in Nat, P <= N,
         NEW Q \in Nat, IsSignificand(Q, P), NEW U \in Nat, UlpOf(U, N, P)
  PROVE  X # Q * U
<1>1. SUFFICES ASSUME X = Q * U PROVE FALSE
  OBVIOUS
<1>2. XBits \in Nat
  BY ZivAssumption
<1>3. N = M
  <2>1. Represents(Q, P, N, Q * 2^(N - P))
    BY RepresentsMultiple
  <2>2. HasLength(Q * 2^(N - P), N)
    BY <2>1, RepresentsLength
  <2>3. HasLength(X, N)
    BY <1>1, <2>2, Zenon DEF UlpOf
  <2> QED
    BY <2>3, LengthUnique
<1>4. PICK j \in Nat, S \in Nat : X = (2 * j + 1) * S /\ Power(S, M - XBits)
  BY DEF Long
<1>5. PICK l \in Nat, d \in Nat : l = M - XBits /\ d + 1 = XBits - P
  BY <1>2
<1>6. PICK T \in Nat : T = 2^d
  BY PowNat
<1>7. U = (2 * T) * S /\ S > 0
  <2>1. 2^((d + 1) + l) = 2^(d + 1) * 2^l /\ 2^(d + 1) = 2 * 2^d
    BY PowAdd, PowSucc
  <2>2. (d + 1) + l = N - P
    BY <1>2, <1>3, <1>5
  <2>3. S = 2^l /\ S > 0
    BY <1>4, <1>5, PowNat DEF Power
  <2>4. U = 2^((d + 1) + l)
    BY <2>2 DEF UlpOf
  <2> QED
    BY <1>6, <2>1, <2>3, <2>4
<1>8. (2 * j + 1) * S = (2 * (Q * T)) * S
  <2>1. Q * ((2 * T) * S) = (2 * (Q * T)) * S
    OBVIOUS
  <2> QED
    BY <1>1, <1>4, <1>7, <2>1
<1>9. PICK a \in Nat, b \in Nat : a = 2 * j + 1 /\ b = Q * T
  OBVIOUS
<1>10. a * S = (2 * b) * S
  BY <1>8, <1>9
<1>11. ~ (a < 2 * b) /\ ~ (2 * b < a)
  BY <1>7, <1>10, LessTimes
<1> QED
  BY <1>9, <1>11

\* The numbers of w bits around the exact result.
LEMMA AroundIs ==
  ASSUME NEW M \in 1..MaxBits, HasLength(call.x, M), NEW w \in Nat, w > 0, NEW n \in Nat,
         NEW v \in Around(w, n)
  PROVE  \E e \in Int, k \in Nat : v = Num(call.neg, e, k, w) /\ IsSignificand(k, w) /\ w <= e + Scale
<1>1. BitLength(call.x) = M
  BY BitLengthIs
<1>2. Scale \in Nat /\ M \in Int
  BY ZivAssumption
<1>3. PICK top \in Int : top = BitLength(call.x) - Scale
  BY <1>1, <1>2
<1>4. PICK e \in (top - 1)..(top + 1), k \in Int :
        v = Num(call.neg, e, k, w) /\ w <= Scale + e /\ 2^(w - 1) <= k /\ k < 2^w
  <2>1. v \in UNION {{Num(call.neg, e, k, w) :
                         k \in {k \in ((call.x \div 2^(Scale + e - w)) - n)..((call.x \div 2^(Scale + e - w)) + n + 1) :
                                  2^(w - 1) <= k /\ k < 2^w}} :
                       e \in {e \in (top - 1)..(top + 1) : w <= Scale + e}}
    BY <1>3, Zenon DEF Around
  <2>2. PICK e \in (top - 1)..(top + 1) : w <= Scale + e /\
          v \in {Num(call.neg, e, k, w) :
                   k \in {k \in ((call.x \div 2^(Scale + e - w)) - n)..((call.x \div 2^(Scale + e - w)) + n + 1) :
                            2^(w - 1) <= k /\ k < 2^w}}
    BY <2>1
  <2>3. \E k \in Int : v = Num(call.neg, e, k, w) /\ 2^(w - 1) <= k /\ k < 2^w
    BY <2>2
  <2> QED
    BY <2>2, <2>3
<1>5. k \in Nat /\ IsSignificand(k, w)
  <2>1. 2^(w - 1) \in Nat
    BY PowNat
  <2> QED
    BY <1>4, <2>1 DEF IsSignificand
<1>6. e \in Int /\ w <= e + Scale
  BY <1>2, <1>3, <1>4
<1> QED
  BY <1>4, <1>5, <1>6

\* The units in a number.
LEMMA ValueIs ==
  ASSUME NEW neg, NEW e, NEW k, NEW w
  PROVE  Value(Num(neg, e, k, w)) = k * 2^(e + Scale - w)
<1>1. PICK z : z = Num(neg, e, k, w)
  OBVIOUS
<1>2. z.kind = "num" /\ z.exp = e /\ z.mant = k /\ z.prec = w
  BY <1>1 DEF Num
<1>3. Value(z) = k * 2^(e + Scale - w)
  BY <1>2 DEF Value
<1> QED
  BY <1>1, <1>3

\* What MPFR_CAN_ROUND was told of the approximation: an error of E = 2^(N-cb) units at most.
Approximates(X, C, E, N, cb) == Power(E, N - cb) /\ C - E <= X /\ X <= C + E

\* The exact result is on the same side of every number of p bits, and of every midpoint to
\* nearest, as an approximation that can be rounded: it is none of them.
THEOREM TestedApproximation ==
  ASSUME NEW p \in Nat, p > 0, p + 1 < XBits, NEW neg \in BOOLEAN, NEW g \in Rnds, NEW middle,
         NEW w \in Nat, w > 0, NEW k \in Nat, IsSignificand(k, w), NEW N \in 1..MaxBits, w <= N,
         NEW S \in Nat, Power(S, N - w), NEW C \in Nat, IsProduct(C, k, S),
         NEW cb \in Int, cb <= w, NEW bn \in Nat, w <= bn * W,
         RoundP(k * 2^(bn * W - w), bn, cb, Kept(g, p)),
         NEW M \in 1..MaxBits, XBits <= M, NEW X, HasLength(X, M), Long(X, M),
         NEW E \in Nat, Approximates(X, C, E, N, cb)
  PROVE  Settled(RndRawGen(k, w, p, g, neg, middle), N, X, p, g, neg)
<1>1. PICK P \in Nat : P = Kept(g, p) /\ P > 0 /\ P <= p + 1
  BY DEF Kept
<1>2. N \in Nat /\ M \in Nat /\ X \in Nat
  BY DEF RealRoundingAssumption, HasLength
<1>3. RoundP(k * 2^(bn * W - w), bn, cb, P)
  BY <1>1, Zenon
<1>4. Power(E, N - cb) /\ C - E <= X /\ X <= C + E
  BY DEF Approximates
<1>5. /\ P < cb
      /\ \E Q \in Nat, U \in Nat :
           /\ IsSignificand(Q, P) /\ UlpOf(U, N, P)
           /\ Q * U + E <= C /\ C + E < (Q + 1) * U
  BY <1>1, <1>2, <1>3, <1>4, Room
<1>6. PICK Q \in Nat, U \in Nat :
        /\ IsSignificand(Q, P) /\ UlpOf(U, N, P)
        /\ Q * U + E <= C /\ C + E < (Q + 1) * U
  BY <1>5
<1>7. E > 0
  <2>1. N - cb \in Nat
    BY <1>2
  <2> QED
    BY <1>4, <2>1, PowNat DEF Power
<1>8. X # Q * U
  <2>1. XBits \in Nat /\ P < XBits /\ P <= N
    BY <1>1, <1>2, <1>5, ZivAssumption
  <2> QED
    BY <1>1, <1>2, <1>6, <2>1, NotShort
<1>9. Between(C, Q, U) /\ Between(X, Q, U)
  <2>1. PICK a \in Nat, b \in Nat : a = Q * U /\ b = (Q + 1) * U
    OBVIOUS
  <2>2. a + E <= C /\ C + E < b /\ X # a
    BY <1>6, <1>8, <2>1
  <2>3. a < C /\ C < b /\ a < X /\ X < b
    BY <1>2, <1>4, <1>7, <2>2
  <2> QED
    BY <2>1, <2>3 DEF Between
<1>10. P < w /\ P = Kept(g, p)
  BY <1>1, <1>5
<1> QED
  BY <1>2, <1>6, <1>9, <1>10, TestSettles

InRange(z, i) ==
  \/ Fits(z, i, call.x, call.prec, call.rnd, call.neg, ExtEMin, ExtEMax)
  \/ TooLarge(z, i, call.x, call.prec, call.rnd, call.neg, ExtEMax)

\* mpfr_set of such an approximation.
LEMMA ApproximationRounds ==
  ASSUME call \in Calls, wprec \in Nat, wprec > 0, t \in Approximations, ApproximationCanBeRounded
  PROVE  LET s == Set4(t, call.prec, call.rnd, call.neg, ExtEMax) IN InRange(s.y, s.inex)
<1>1. /\ call.neg \in BOOLEAN /\ call.rnd \in Rnds
      /\ call.prec \in Nat /\ call.prec > 0 /\ call.prec + 1 < XBits
      /\ call.x \in Nat
  BY CallIs
<1>2. PICK M \in 1..MaxBits : M < MaxBits /\ XBits <= M /\ HasLength(call.x, M) /\ Long(call.x, M)
  BY CallIs
<1>3. /\ Scale \in Nat /\ ErrBits \in Nat /\ ExtEMin \in Int /\ ExtEMax \in Int
      /\ 2 <= ExtEMin + Scale /\ ExtEMax + Scale < MaxBits
  BY ZivAssumption
<1>4. PICK a \in Around(wprec, 2^ErrBits) :
        /\ t = InExtendedRange(a)
        /\ LET gap == call.x - Value(a)
               bound == 2^(a.exp + Scale - (wprec - ErrBits))
           IN -bound <= gap /\ gap <= bound
  BY DEF Approximations
<1>5. PICK e \in Int, k \in Nat : a = Num(call.neg, e, k, wprec) /\ IsSignificand(k, wprec) /\ wprec <= e + Scale
  <2>1. 2^ErrBits \in Nat
    BY <1>3, PowNat
  <2> QED
    BY <1>2, <1>4, <2>1, AroundIs
<1>6. a.exp = e /\ a.mant = k /\ a.prec = wprec
  BY <1>5 DEF Num
<1>7. ~ IsSingular(t)
  BY DEF ApproximationCanBeRounded
<1>8. ExtEMin <= e /\ e <= ExtEMax /\ t = a
  <2>1. ASSUME e > ExtEMax PROVE FALSE
    <3>1. ~ (e < ExtEMin) \/ e < ExtEMin
      OBVIOUS
    <3>2. t.kind \in {"inf", "zero"}
      BY <1>4, <1>6, <2>1 DEF InExtendedRange, Inf, Zero
    <3> QED
      BY <1>7, <3>2 DEF IsSingular
  <2>2. ASSUME e < ExtEMin PROVE FALSE
    <3>1. t.kind \in {"inf", "zero"}
      BY <1>4, <1>6, <2>2 DEF InExtendedRange, Inf, Zero
    <3> QED
      BY <1>7, <3>1 DEF IsSingular
  <2>3. ExtEMin <= e /\ e <= ExtEMax
    BY <1>3, <2>1, <2>2
  <2>4. t = a
    BY <1>3, <1>4, <1>6, <2>3 DEF InExtendedRange
  <2> QED
    BY <2>3, <2>4
<1>9. PICK N \in 1..MaxBits : N = e + Scale
  BY <1>3, <1>8, RealRoundingAssumption
<1>10. N \in Nat /\ N - wprec \in Nat /\ wprec <= N
  BY <1>5, <1>9, RealRoundingAssumption
<1>11. PICK S \in Nat : Power(S, N - wprec)
  BY <1>10, PowNat DEF Power
<1>12. PICK C \in Nat : IsProduct(C, k, S)
  BY DEF IsProduct
<1>13. PICK cb \in Int : cb = wprec - ErrBits /\ cb <= wprec
  BY <1>3
<1>14. PICK E \in Nat : Power(E, N - cb)
  <2>1. N - cb \in Nat
    BY <1>10, <1>13
  <2> QED
    BY <2>1, PowNat DEF Power
<1>15. Approximates(call.x, C, E, N, cb)
  <2>1. Value(a) = k * 2^(e + Scale - wprec)
    BY <1>5, ValueIs
  <2>2. e + Scale - wprec = N - wprec
    BY <1>3, <1>9
  <2>3. Value(a) = C
    BY <1>11, <1>12, <2>1, <2>2, Zenon DEF Power, IsProduct
  <2>4. a.exp + Scale - (wprec - ErrBits) = N - cb
    BY <1>3, <1>6, <1>9, <1>13
  <2>5. 2^(a.exp + Scale - (wprec - ErrBits)) = E
    BY <1>14, <2>4, Zenon DEF Power
  <2>6. -E <= call.x - C /\ call.x - C <= E
    BY <1>4, <2>3, <2>5
  <2>7. C - E <= call.x /\ call.x <= C + E
    BY <1>1, <2>6
  <2> QED
    BY <1>14, <2>7 DEF Approximates
<1>16. PICK bn \in Nat : bn = (wprec + W - 1) \div W /\ wprec <= bn * W
  BY LimbsHold
<1>17. RoundP(k * 2^(bn * W - wprec), bn, cb, Kept(call.rnd, call.prec))
  BY <1>6, <1>8, <1>13, <1>16 DEF ApproximationCanBeRounded, CanRound, Kept
<1>18. PICK s : s = RndRaw(k, wprec, call.prec, call.rnd, call.neg)
  OBVIOUS
<1>19. Settled(s, N, call.x, call.prec, call.rnd, call.neg)
  <2>1. Settled(RndRawGen(k, wprec, call.prec, call.rnd, call.neg, ToEven), N, call.x, call.prec, call.rnd, call.neg)
    BY <1>1, <1>2, <1>5, <1>10, <1>11, <1>12, <1>13, <1>15, <1>16, <1>17, TestedApproximation
  <2> QED
    BY <1>18, <2>1, Zenon DEF RndRaw
<1>20. PICK r : r = Set4Of(e, call.prec, s, call.rnd, call.neg, ExtEMax)
  OBVIOUS
<1>21. Set4(t, call.prec, call.rnd, call.neg, ExtEMax) = r
  <2>1. Set4(Num(call.neg, e, k, wprec), call.prec, call.rnd, call.neg, ExtEMax)
          = Set4Of(e, call.prec, RndRaw(k, wprec, call.prec, call.rnd, call.neg), call.rnd, call.neg, ExtEMax)
    BY Set4Is
  <2> QED
    BY <1>5, <1>8, <1>18, <1>20, <2>1, Zenon
<1>22. Outcome(r, call.x, call.prec, call.rnd, call.neg, ExtEMin, ExtEMax)
  BY <1>1, <1>2, <1>3, <1>8, <1>9, <1>10, <1>19, <1>20, SettledOutcome
<1>23. r.y.kind # "zero"
  BY <1>20 DEF Set4Of, Overflow, Return, Num, Inf, SetMax
<1>24. PICK z, i :
        \/ r = Return(z, i, {}) /\ Fits(z, i, call.x, call.prec, call.rnd, call.neg, ExtEMin, ExtEMax)
        \/ r = Return(z, i, {"overflow"}) /\ TooLarge(z, i, call.x, call.prec, call.rnd, call.neg, ExtEMax)
        \/ r = Return(z, i, {"underflow"}) /\ TooSmall(z, i, call.x, call.prec, call.rnd, call.neg, ExtEMin)
  BY <1>22 DEF Outcome
<1>25. r.y = z /\ r.inex = i
  BY <1>24 DEF Return
<1>26. ~ TooSmall(z, i, call.x, call.prec, call.rnd, call.neg, ExtEMin)
  BY <1>23, <1>25 DEF TooSmall, Zero
<1>27. InRange(r.y, r.inex)
  BY <1>24, <1>25, <1>26 DEF InRange
<1> QED
  BY <1>21, <1>27, Zenon

\* What the shortcuts return: v near the result, taken in the range lo..hi.
LEMMA SmallInputOutcome ==
  ASSUME call \in Calls, NEW lo \in Int, NEW hi \in Int, ExtEMin <= lo, lo <= hi, hi <= ExtEMax,
         NEW n \in SmallInputs(lo, hi)
  PROVE  Outcome(n, call.x, call.prec, Definite(call.rnd), call.neg, lo, hi)
<1>1. /\ call.neg \in BOOLEAN /\ call.rnd \in Rnds
      /\ call.prec \in Nat /\ call.prec > 0
      /\ call.x \in Nat
  BY CallIs
<1>2. PICK M \in 1..MaxBits : M < MaxBits /\ HasLength(call.x, M)
  BY CallIs
<1>3. /\ Scale \in Nat /\ ExtEMin \in Int /\ ExtEMax \in Int
      /\ 2 <= ExtEMin + Scale /\ ExtEMax + Scale < MaxBits
      /\ VPrecs \subseteq Nat \ {0}
      /\ \A err \in Errs : err \in Nat /\ err <= ExtEMin + Scale
  BY ZivAssumption
<1>4. PICK w \in VPrecs, err \in Errs, dir \in {0, 1} :
        \E v \in Around(w, 1) :
          /\ Close(v, err, dir)
          /\ lo <= v.exp /\ v.exp <= hi
          /\ CanRoundNearX(v, err, call.prec, call.rnd)
          /\ n = RoundNearX(v, err, dir, call.prec, call.rnd, lo, hi)
  <2>1. PICK w \in VPrecs, err \in Errs, dir \in {0, 1} :
          n \in {RoundNearX(v, err, dir, call.prec, call.rnd, lo, hi) :
                  v \in {v \in Around(w, 1) :
                           /\ Close(v, err, dir)
                           /\ lo <= v.exp /\ v.exp <= hi
                           /\ CanRoundNearX(v, err, call.prec, call.rnd)}}
    BY DEF SmallInputs
  <2> QED
    BY <2>1
<1>5. PICK v \in Around(w, 1) :
        /\ Close(v, err, dir)
        /\ lo <= v.exp /\ v.exp <= hi
        /\ CanRoundNearX(v, err, call.prec, call.rnd)
        /\ n = RoundNearX(v, err, dir, call.prec, call.rnd, lo, hi)
  BY <1>4
<1>6. w \in Nat /\ w > 0 /\ err \in Nat /\ err <= ExtEMin + Scale
  BY <1>3, <1>4
<1>7. PICK e \in Int, k \in Nat : v = Num(call.neg, e, k, w) /\ IsSignificand(k, w) /\ w <= e + Scale
  BY <1>2, <1>6, <1>5, AroundIs
<1>8. v.exp = e /\ v.mant = k /\ v.prec = w
  BY <1>7 DEF Num
<1>9. lo <= e /\ e <= hi
  BY <1>8, <1>5
<1>10. PICK N \in 1..MaxBits : N = e + Scale
  BY <1>3, <1>9, RealRoundingAssumption
<1>11. N \in Nat /\ N - w \in Nat /\ w <= N /\ N - err \in Nat /\ err <= N
  BY <1>3, <1>6, <1>7, <1>9, <1>10, RealRoundingAssumption
<1>12. PICK S \in Nat : Power(S, N - w)
  BY <1>11, PowNat DEF Power
<1>13. PICK C \in Nat : IsProduct(C, k, S)
  BY DEF IsProduct
<1>14. PICK G \in Nat : Power(G, N - err)
  BY <1>11, PowNat DEF Power
<1>15. Value(v) = C
  <2>1. Value(v) = k * 2^(e + Scale - w)
    BY <1>7, ValueIs
  <2>2. e + Scale - w = N - w
    BY <1>3, <1>6, <1>10
  <2> QED
    BY <1>12, <1>13, <2>1, <2>2, Zenon DEF Power, IsProduct
<1>16. 2^(v.exp + Scale - err) = G
  <2>1. v.exp + Scale - err = N - err
    BY <1>3, <1>6, <1>8, <1>10
  <2> QED
    BY <1>14, <2>1, Zenon DEF Power
<1>17. LET gap == IF dir = 1 THEN call.x - C ELSE C - call.x IN 0 < gap /\ gap < G
  BY <1>15, <1>16, <1>5 DEF Close
<1>18. NearTo(G, N, err, call.x, C, dir)
  <2>1. CASE dir = 1
    <3>1. C - G < call.x /\ call.x < C + G /\ call.x # C /\ call.x > C
      BY <1>1, <1>17, <2>1
    <3> QED
      BY <1>14, <2>1, <3>1 DEF NearTo
  <2>2. CASE dir = 0
    <3>1. C - G < call.x /\ call.x < C + G /\ call.x # C /\ ~ (call.x > C)
      BY <1>1, <1>17, <2>2
    <3> QED
      BY <1>14, <2>2, <3>1 DEF NearTo
  <2> QED
    BY <1>4, <2>1, <2>2
<1>19. Kept(Definite(call.rnd), call.prec) = IF call.rnd = "RNDN" THEN call.prec + 1 ELSE call.prec
  BY <1>1 DEF Kept, Definite
<1>20. MayRoundNear(k, w, err, call.prec, Definite(call.rnd))
  BY <1>8, <1>19, <1>5 DEF CanRoundNearX, MayRoundNear
<1>21. NearNumber(e, k, w, err, call.x, dir)
  BY <1>10, <1>11, <1>12, <1>13, <1>18 DEF NearNumber
<1>22. Outcome(RoundNearX(Num(call.neg, e, k, w), err, dir, call.prec, call.rnd, lo, hi),
              call.x, call.prec, Definite(call.rnd), call.neg, lo, hi)
  BY <1>1, <1>2, <1>4, <1>6, <1>7, <1>9, <1>20, <1>21, NearXOutcome, ZenonT(60)
<1> QED
  BY <1>7, <1>22, <1>5, Zenon

-----------------------------------------------------------------------------
(* The steps of the function                                               *)

\* In the user's range a number is read as what it stands for.
LEMMA StandsValue ==
  ASSUME NEW p \in Nat, NEW lo \in Int, p <= lo + Scale,
         NEW b, NEW V, StandsFor(b.y, p, Scale, V), Held(b, lo)
  PROVE  Value(b.y) = V
<1>1. Scale \in Nat
  BY ZivAssumption
<1>2. CASE b.y.kind = "zero" /\ V = 0
  BY <1>2 DEF Value
<1>3. CASE b.y.kind = "inf" /\ V = Infinity
  BY <1>3 DEF Value
<1>4. CASE b.y.kind = "num" /\ b.y.prec = p /\ Represents(b.y.mant, p, b.y.exp + Scale, V)
  <2>1. p <= b.y.exp + Scale
    BY <1>1, <1>4 DEF Held
  <2>2. V = b.y.mant * 2^(b.y.exp + Scale - p)
    <3>1. PICK k, f : k = b.y.mant /\ f = b.y.exp + Scale
      OBVIOUS
    <3>2. p <= f /\ Represents(k, p, f, V)
      BY <1>4, <2>1, <3>1
    <3>3. V = k * 2^(f - p)
      BY <3>2, RepresentsValue
    <3>4. k = b.y.mant
      BY <3>1
    <3>5. f - p = b.y.exp + Scale - p
      BY <1>1, <1>4, <3>1 DEF Held
    <3> QED
      BY <3>3, <3>4, <3>5, Zenon
  <2>3. Value(b.y) = b.y.mant * 2^(b.y.exp + Scale - b.y.prec)
    BY <1>4 DEF Value
  <2> QED
    BY <1>4, <2>2, <2>3, Zenon
<1> QED
  BY <1>2, <1>3, <1>4 DEF StandsFor

\* The result b is what the user is promised.
Promised(b, lo, hi) ==
  /\ Held(b, lo)
  /\ IF call.rnd = "RNDF"
     THEN Faithful(b, call.x, call.prec, call.neg, lo + Scale, hi + Scale)
     ELSE Delivers(b, call.prec, Scale, call.x, call.rnd, call.neg, lo + Scale, hi + Scale)

\* To return such a result is the one step of the promise.
LEMMA ReturningDelivers ==
  ASSUME call \in Calls, call' = call, pc # "returned", pc' = "returned",
         UserEMin' = UserEMin, UserEMax' = UserEMax, UserEMin \in Int, ExtEMin <= UserEMin,
         NEW b, Promised(b, UserEMin, UserEMax),
         y' = b.y, inex' = b.inex, UserFlags' = UserFlags \cup b.raised
  PROVE  Promise!Deliver
<1>1. call.prec \in Nat /\ call.prec <= UserEMin + Scale
  <2>1. call.prec \in Nat /\ call.prec <= ExtEMin + Scale
    BY CallIs
  <2> QED
    BY <2>1, ZivAssumption
<1>2. PICK E, F : E = UserEMin + Scale /\ F = UserEMax + Scale
  OBVIOUS
<1>3. PICK before : before = IF pc # "returned" THEN [value |-> -1, inex |-> 0]
                             ELSE [value |-> Value(y),
                                   inex |-> IF call.rnd = "RNDF" THEN 0 ELSE SignOf(inex)]
  OBVIOUS
<1>4. before = Promise!NoAnswer
  BY <1>3 DEF Promise!NoAnswer
<1>5. PICK after : after = IF pc' # "returned" THEN [value |-> -1, inex |-> 0]
                           ELSE [value |-> Value(y'),
                                 inex |-> IF call'.rnd = "RNDF" THEN 0 ELSE SignOf(inex')]
  OBVIOUS
<1>6. after = [value |-> Value(b.y), inex |-> IF call.rnd = "RNDF" THEN 0 ELSE SignOf(b.inex)]
  BY <1>5
<1>7. \A g : /\ Promise!Value(g) = CorrectValue(call.x, call.prec, g, call.neg, E, F)
             /\ Promise!Raised(g) = CorrectFlags(call.x, call.prec, g, call.neg, E, F)
  BY <1>2, SamePromise, Zenon DEF Promise!Value, Promise!Raised
<1>8. CASE call.rnd = "RNDF"
  <2>1. Faithful(b, call.x, call.prec, call.neg, E, F) /\ Held(b, UserEMin)
    BY <1>2, <1>8 DEF Promised
  <2>2. PICK d \in {"RNDZ", "RNDA"} :
          StandsFor(b.y, call.prec, Scale, CorrectValue(call.x, call.prec, d, call.neg, E, F))
    BY <2>1 DEF Faithful
  <2>3. Value(b.y) = Promise!Value(d)
    BY <1>1, <1>7, <2>1, <2>2, StandsValue
  <2>4. after = [value |-> Promise!Value(d), inex |-> 0]
    BY <1>6, <1>8, <2>3
  <2>5. b.raised \in SUBSET (Promise!Raised("RNDZ") \cup Promise!Raised("RNDA"))
    BY <1>7, <2>1 DEF Faithful
  <2> QED
    BY <1>3, <1>4, <1>5, <1>8, <2>4, <2>5 DEF Promise!Deliver
<1>9. CASE call.rnd # "RNDF"
  <2>1. Delivers(b, call.prec, Scale, call.x, call.rnd, call.neg, E, F) /\ Held(b, UserEMin)
    BY <1>2, <1>9 DEF Promised
  <2>2. Value(b.y) = Promise!Value(call.rnd)
    BY <1>1, <1>7, <2>1, StandsValue DEF Delivers
  <2>3. SignOf(b.inex) = Promise!Ternary(Promise!Value(call.rnd), call.x, call.neg)
    BY <1>7, <2>1, SameTernary, Zenon DEF Delivers
  <2>4. after = [value |-> Promise!Value(call.rnd),
                 inex |-> Promise!Ternary(Promise!Value(call.rnd), call.x, call.neg)]
    BY <1>6, <1>9, <2>2, <2>3
  <2>5. b.raised = Promise!Raised(call.rnd)
    BY <1>7, <2>1, Zenon DEF Delivers
  <2> QED
    BY <1>3, <1>4, <1>5, <1>9, <2>4, <2>5 DEF Promise!Deliver
<1> QED
  BY <1>8, <1>9

-----------------------------------------------------------------------------
(* The invariant                                                           *)

Inside == {"saved", "approximate", "test", "rounded"}

\* Inside the function the user's range and flags are saved and the extended range is in
\* force; what is rounded there is the correct rounding in the extended range.
Inv ==
  /\ call \in Calls
  /\ UserEMin \in EMins /\ UserEMax \in EMaxs
  /\ pc \in Inside \cup {"start", "returned"}
  /\ pc = "start" => flags = {"divby0"}
  /\ pc \in {"start", "returned"} => saved = NotSaved
  /\ pc \in Inside => saved.flags = {"divby0"} /\ emin = ExtEMin /\ emax = ExtEMax
  /\ pc \in {"approximate", "test"} => wprec \in Nat /\ wprec > 0 /\ step \in Nat
  /\ pc = "test" => t \in Approximations
  /\ pc = "rounded" => InRange(y, inex)

\* The user's range is a range, inside the extended one.
LEMMA RangeIs ==
  ASSUME Inv
  PROVE  /\ UserEMin \in Int /\ UserEMax \in Int /\ UserEMin <= UserEMax
         /\ ExtEMin <= UserEMin /\ UserEMax <= ExtEMax
         /\ 2 <= UserEMin + Scale /\ ExtEMin + Scale <= UserEMin + Scale
         /\ ExtEMin \in Int /\ ExtEMax \in Int
<1>1. PICK lo, hi : lo = UserEMin /\ hi = UserEMax
  OBVIOUS
<1>2. lo \in EMins /\ hi \in EMaxs
  BY <1>1 DEF Inv
<1>3. /\ EMins \subseteq Int /\ EMaxs \subseteq Int
      /\ \A l \in EMins, h \in EMaxs : ExtEMin <= l /\ l <= h /\ h <= ExtEMax
      /\ Scale \in Nat /\ ExtEMin \in Int /\ ExtEMax \in Int /\ 2 <= ExtEMin + Scale
  BY ZivAssumption
<1>4. lo \in Int /\ hi \in Int /\ ExtEMin <= lo /\ lo <= hi /\ hi <= ExtEMax
  BY <1>2, <1>3
<1>5. 2 <= lo + Scale /\ ExtEMin + Scale <= lo + Scale
  BY <1>3, <1>4
<1> QED
  BY <1>1, <1>3, <1>4, <1>5

\* Inside, what the user sees is what was saved.
LEMMA SavedIs ==
  ASSUME Inv, pc \in Inside
  PROVE  /\ saved # NotSaved
         /\ UserEMin = saved.emin /\ UserEMax = saved.emax /\ UserFlags = saved.flags
<1>1. saved.flags # {}
  BY DEF Inv
<1>2. saved # NotSaved
  BY <1>1 DEF NotSaved
<1> QED
  BY <1>2 DEF UserEMin, UserEMax, UserFlags

\* What is left in the extended range leaves the function as it was promised.
LEMMA FreeDelivers ==
  ASSUME Inv, pc \in Inside, pc' = "returned", call' = call,
         NEW z, NEW i, NEW kept, NEW g \in {call.rnd, Definite(call.rnd)},
         Left(z, i, kept, call.x, call.prec, g, call.neg, ExtEMin, ExtEMax),
         FreeAndCheckRange(z, i, kept)
  PROVE  Inv' /\ Promise!Deliver
<1>1. call \in Calls
  BY DEF Inv
<1>2. /\ call.neg \in BOOLEAN /\ call.rnd \in Rnds
      /\ call.prec \in Nat /\ call.prec > 0 /\ call.prec <= ExtEMin + Scale
      /\ \E M \in 1..MaxBits : M < MaxBits /\ HasLength(call.x, M)
  BY <1>1, CallIs
<1>3. PICK M \in 1..MaxBits : M < MaxBits /\ HasLength(call.x, M)
  BY <1>2
<1>4. PICK lo, hi : lo = UserEMin /\ hi = UserEMax
  OBVIOUS
<1>5. /\ lo \in Int /\ hi \in Int /\ lo <= hi /\ ExtEMin <= lo /\ hi <= ExtEMax
      /\ 2 <= lo + Scale /\ ExtEMin + Scale <= lo + Scale
      /\ ExtEMin \in Int /\ ExtEMax \in Int
  BY <1>4, RangeIs
<1>6. lo = saved.emin /\ hi = saved.emax /\ UserFlags = saved.flags
  BY <1>4, SavedIs
<1>7. PICK c : c = CheckRange(z, i, call.rnd, lo, hi)
  OBVIOUS
<1>8. PICK b : b = [y |-> c.y, inex |-> c.inex, raised |-> kept \cup c.raised]
  OBVIOUS
<1>9. After(b, c, kept)
  BY <1>8 DEF After
<1>10. call.prec <= hi + Scale
  BY <1>2, <1>5, ZivAssumption
<1>11. /\ y' = b.y /\ inex' = b.inex /\ flags' = saved.flags \cup b.raised
       /\ emin' = lo /\ emax' = hi /\ saved' = NotSaved
  BY <1>6, <1>7, <1>8 DEF FreeAndCheckRange
<1>12. UserEMin' = lo /\ UserEMax' = hi /\ UserFlags' = saved.flags \cup b.raised
  BY <1>11 DEF UserEMin, UserEMax, UserFlags, NotSaved
<1>13. Promised(b, lo, hi)
  <2>1. CASE call.rnd = "RNDF"
    <3>1. g \in {"RNDZ", "RNDF"}
      BY <2>1 DEF Definite
    <3>2. c = CheckRange(z, i, "RNDF", lo, hi)
      BY <1>7, <2>1
    <3>3. Faithful(b, call.x, call.prec, call.neg, lo + Scale, hi + Scale) /\ Held(b, lo)
      BY <1>2, <1>3, <1>5, <1>9, <1>10, <3>1, <3>2, BackFaithful
    <3> QED
      BY <2>1, <3>3 DEF Promised
  <2>2. CASE call.rnd # "RNDF"
    <3>1. g = call.rnd /\ g \in Rnds \ {"RNDF"}
      BY <1>2, <2>2 DEF Definite
    <3>2. c = CheckRange(z, i, g, lo, hi)
      BY <1>7, <3>1
    <3>3. Delivers(b, call.prec, Scale, call.x, g, call.neg, lo + Scale, hi + Scale) /\ Held(b, lo)
      BY <1>2, <1>3, <1>5, <1>9, <1>10, <3>1, <3>2, BackExact
    <3> QED
      BY <2>2, <3>1, <3>3 DEF Promised
  <2> QED
    BY <2>1, <2>2
<1>14. pc # "returned"
  BY DEF Inside
<1>15. Promise!Deliver
  BY <1>1, <1>4, <1>5, <1>6, <1>11, <1>12, <1>13, <1>14, ReturningDelivers
<1>16. Inv'
  BY <1>1, <1>4, <1>11, <1>12 DEF Inv, Inside
<1> QED
  BY <1>15, <1>16

\* Steps inside the function change nothing the user sees.
LEMMA InsideStutters ==
  ASSUME pc # "returned", pc' # "returned", call' = call,
         UserEMin' = UserEMin, UserEMax' = UserEMax, UserFlags' = UserFlags
  PROVE  UNCHANGED Promise!vars
BY DEF Promise!vars

\* The function starts with nothing saved.
LEMMA InvInit == Init => Inv
<1>1. SUFFICES ASSUME Init PROVE Inv
  OBVIOUS
<1>2. UserEMin = emin /\ UserEMax = emax
  BY <1>1 DEF Init, UserEMin, UserEMax
<1> QED
  BY <1>1, <1>2 DEF Init, Inv, Inside

\* MPFR_SAVE_EXPO_MARK: what the user sees is now what was saved.
LEMMA BeginKeeps == Inv /\ Begin => Inv' /\ UNCHANGED Promise!vars
<1>1. SUFFICES ASSUME Inv, Begin PROVE Inv' /\ UNCHANGED Promise!vars
  OBVIOUS
<1>2. /\ pc = "start" /\ pc' = "saved" /\ call' = call /\ flags = {"divby0"} /\ saved = NotSaved
      /\ saved' = [flags |-> flags, emin |-> emin, emax |-> emax]
      /\ emin' = ExtEMin /\ emax' = ExtEMax
  BY <1>1 DEF Begin, Mark, Inv
<1>3. saved' # NotSaved
  <2>1. saved'.flags # NotSaved.flags
    BY <1>2 DEF NotSaved
  <2> QED
    BY <2>1
<1>4. UserEMin' = UserEMin /\ UserEMax' = UserEMax /\ UserFlags' = UserFlags
  BY <1>2, <1>3 DEF UserEMin, UserEMax, UserFlags
<1>5. Inv'
  BY <1>1, <1>2, <1>4 DEF Inv, Inside
<1> QED
  BY <1>2, <1>4, <1>5, InsideStutters

\* MPFR_ZIV_INIT: a positive working precision.
LEMMA ZivInitKeeps == Inv /\ ZivInit => Inv' /\ UNCHANGED Promise!vars
<1>1. SUFFICES ASSUME Inv, ZivInit PROVE Inv' /\ UNCHANGED Promise!vars
  OBVIOUS
<1>2. /\ pc = "saved" /\ pc' = "approximate" /\ call' = call /\ UNCHANGED <<emin, emax, flags, saved>>
      /\ wprec' = call.prec + ExtraPrec /\ step' = W
  BY <1>1 DEF ZivInit, expo
<1>3. call.prec \in Nat /\ call.prec > 0
  BY <1>1, CallIs DEF Inv
<1>4. wprec' \in Nat /\ wprec' > 0 /\ step' \in Nat
  BY <1>2, <1>3, ZivAssumption, RoundingAssumption
<1>5. UserEMin' = UserEMin /\ UserEMax' = UserEMax /\ UserFlags' = UserFlags
  BY <1>2 DEF UserEMin, UserEMax, UserFlags
<1>6. Inv'
  BY <1>1, <1>2, <1>4, <1>5 DEF Inv, Inside
<1> QED
  BY <1>2, <1>5, <1>6, InsideStutters

\* An approximation comes; the flags that it raises are not the user's.
LEMMA ApproximateKeeps == Inv /\ Approximate => Inv' /\ UNCHANGED Promise!vars
<1>1. SUFFICES ASSUME Inv, Approximate PROVE Inv' /\ UNCHANGED Promise!vars
  OBVIOUS
<1>2. /\ pc = "approximate" /\ pc' = "test" /\ t' \in Approximations
      /\ UNCHANGED <<emin, emax, saved, call, wprec, step>>
  BY <1>1 DEF Approximate
<1>3. Approximations' = Approximations
  BY <1>2 DEF Approximations, Around
<1>4. saved # NotSaved
  BY <1>1, <1>2, SavedIs DEF Inside
<1>5. UserEMin' = UserEMin /\ UserEMax' = UserEMax /\ UserFlags' = UserFlags
  BY <1>2, <1>4 DEF UserEMin, UserEMax, UserFlags
<1>6. Inv'
  BY <1>1, <1>2, <1>3, <1>5 DEF Inv, Inside
<1> QED
  BY <1>2, <1>5, <1>6, InsideStutters

\* MPFR_ZIV_NEXT: the working precision stays positive.
LEMMA ZivNextKeeps == Inv /\ ZivNext => Inv' /\ UNCHANGED Promise!vars
<1>1. SUFFICES ASSUME Inv, ZivNext PROVE Inv' /\ UNCHANGED Promise!vars
  OBVIOUS
<1>2. /\ pc = "test" /\ pc' = "approximate" /\ call' = call /\ UNCHANGED <<emin, emax, flags, saved>>
      /\ wprec' = wprec + step /\ step' = (wprec + step) \div 2
  BY <1>1 DEF ZivNext, expo
<1>3. wprec \in Nat /\ wprec > 0 /\ step \in Nat
  BY <1>1, <1>2 DEF Inv
<1>4. wprec' \in Nat /\ wprec' > 0 /\ step' \in Nat
  BY <1>2, <1>3
<1>5. UserEMin' = UserEMin /\ UserEMax' = UserEMax /\ UserFlags' = UserFlags
  BY <1>2 DEF UserEMin, UserEMax, UserFlags
<1>6. Inv'
  BY <1>1, <1>2, <1>4, <1>5 DEF Inv, Inside
<1> QED
  BY <1>2, <1>5, <1>6, InsideStutters

\* The approximation that passed the test is rounded as the exact result is, in the
\* extended range.
LEMMA RoundKeeps == Inv /\ RoundApproximation => Inv' /\ UNCHANGED Promise!vars
<1>1. SUFFICES ASSUME Inv, RoundApproximation PROVE Inv' /\ UNCHANGED Promise!vars
  OBVIOUS
<1>2. PICK s : s = Set4(t, call.prec, call.rnd, call.neg, ExtEMax)
  OBVIOUS
<1>3. pc = "test" /\ emax = ExtEMax
  BY <1>1 DEF RoundApproximation, Inv, Inside
<1>4. /\ pc' = "rounded" /\ y' = s.y /\ inex' = s.inex /\ ApproximationCanBeRounded
      /\ UNCHANGED <<emin, emax, saved, call>>
  BY <1>1, <1>2, <1>3 DEF RoundApproximation
<1>5. InRange(s.y, s.inex)
  <2>1. call \in Calls /\ wprec \in Nat /\ wprec > 0 /\ t \in Approximations
    BY <1>1, <1>3 DEF Inv
  <2> QED
    BY <1>2, <1>4, <2>1, ApproximationRounds
<1>6. InRange(y, inex)'
  BY <1>4, <1>5 DEF InRange
<1>7. saved # NotSaved
  BY <1>1, <1>3, SavedIs DEF Inside
<1>8. UserEMin' = UserEMin /\ UserEMax' = UserEMax /\ UserFlags' = UserFlags
  BY <1>4, <1>7 DEF UserEMin, UserEMax, UserFlags
<1>9. Inv'
  BY <1>1, <1>3, <1>4, <1>6, <1>8 DEF Inv, Inside
<1> QED
  BY <1>3, <1>4, <1>8, <1>9, InsideStutters

\* MPFR_FAST_COMPUTE_IF_SMALL_INPUT returns what was promised.
LEMMA FastSmallInputKeeps == Inv /\ FastSmallInput => Inv' /\ Promise!Deliver
<1>1. SUFFICES ASSUME Inv, FastSmallInput PROVE Inv' /\ Promise!Deliver
  OBVIOUS
<1>2. /\ pc = "start" /\ pc' = "returned" /\ UNCHANGED <<emin, emax, saved, call>>
      /\ saved = NotSaved /\ call \in Calls
  BY <1>1 DEF FastSmallInput, Inv
<1>3. PICK n \in SmallInputs(emin, emax) : y' = n.y /\ inex' = n.inex /\ flags' = flags \cup n.raised
  BY <1>1 DEF FastSmallInput
<1>4. /\ UserEMin = emin /\ UserEMax = emax /\ UserFlags = flags
      /\ UserEMin' = emin /\ UserEMax' = emax /\ UserFlags' = flags'
  BY <1>2 DEF UserEMin, UserEMax, UserFlags
<1>5. /\ emin \in Int /\ emax \in Int /\ emin <= emax /\ ExtEMin <= emin /\ emax <= ExtEMax
      /\ 2 <= emin + Scale
  BY <1>1, <1>4, RangeIs
<1>6. /\ call.neg \in BOOLEAN /\ call.rnd \in Rnds /\ call.prec \in Nat /\ call.prec > 0
      /\ \E M \in 1..MaxBits : M < MaxBits /\ HasLength(call.x, M)
  BY <1>2, CallIs
<1>7. PICK M \in 1..MaxBits : M < MaxBits /\ HasLength(call.x, M)
  BY <1>6
<1>8. PICK g : g = Definite(call.rnd)
  OBVIOUS
<1>9. g \in Rnds \ {"RNDF"}
  BY <1>6, <1>8 DEF Definite, Rnds
<1>10. Outcome(n, call.x, call.prec, g, call.neg, emin, emax)
  BY <1>2, <1>5, <1>8, SmallInputOutcome
<1>11. Delivers(n, call.prec, Scale, call.x, g, call.neg, emin + Scale, emax + Scale) /\ Held(n, emin)
  BY <1>5, <1>6, <1>7, <1>9, <1>10, OutcomeDelivers
<1>12. Promised(n, emin, emax)
  <2>1. CASE call.rnd = "RNDF"
    <3>1. g = "RNDZ"
      BY <1>8, <2>1 DEF Definite
    <3>2. Faithful(n, call.x, call.prec, call.neg, emin + Scale, emax + Scale)
      BY <1>11, <3>1 DEF Faithful, Delivers
    <3> QED
      BY <1>11, <2>1, <3>2 DEF Promised
  <2>2. CASE call.rnd # "RNDF"
    <3>1. g = call.rnd
      BY <1>8, <2>2 DEF Definite
    <3> QED
      BY <1>11, <2>2, <3>1 DEF Promised
  <2> QED
    BY <2>1, <2>2
<1>13. Promise!Deliver
  BY <1>2, <1>3, <1>4, <1>5, <1>12, ReturningDelivers
<1>14. Inv'
  BY <1>1, <1>2, <1>4 DEF Inv, Inside
<1> QED
  BY <1>13, <1>14

\* MPFR_SMALL_INPUT_AFTER_SAVE_EXPO returns what was promised, the flags it kept included.
LEMMA SmallInputAfterSaveKeeps == Inv /\ SmallInputAfterSave => Inv' /\ Promise!Deliver
<1>1. SUFFICES ASSUME Inv, SmallInputAfterSave PROVE Inv' /\ Promise!Deliver
  OBVIOUS
<1>2. pc = "saved" /\ pc' = "returned" /\ call' = call /\ pc \in Inside /\ call \in Calls
  BY <1>1 DEF SmallInputAfterSave, Inv, Inside
<1>3. PICK n \in SmallInputs(ExtEMin, ExtEMax) : FreeAndCheckRange(n.y, n.inex, n.raised)
  BY <1>1 DEF SmallInputAfterSave
<1>4. ExtEMin \in Int /\ ExtEMax \in Int /\ ExtEMin <= ExtEMax /\ call.neg \in BOOLEAN
  BY <1>1, <1>2, CallIs, RangeIs
<1>5. PICK g : g = Definite(call.rnd)
  OBVIOUS
<1>6. Outcome(n, call.x, call.prec, g, call.neg, ExtEMin, ExtEMax)
  BY <1>2, <1>4, <1>5, SmallInputOutcome
<1>7. Left(n.y, n.inex, n.raised, call.x, call.prec, g, call.neg, ExtEMin, ExtEMax)
  BY <1>4, <1>6, OutcomeLeft
<1> QED
  BY <1>1, <1>2, <1>3, <1>5, <1>7, FreeDelivers

\* MPFR_SAVE_EXPO_FREE and mpfr_check_range deliver what was rounded.
LEMMA RestoreRangeKeeps == Inv /\ RestoreRange => Inv' /\ Promise!Deliver
<1>1. SUFFICES ASSUME Inv, RestoreRange PROVE Inv' /\ Promise!Deliver
  OBVIOUS
<1>2. pc = "rounded" /\ pc' = "returned" /\ call' = call /\ FreeAndCheckRange(y, inex, {})
  BY <1>1 DEF RestoreRange
<1>3. InRange(y, inex) /\ pc \in Inside
  BY <1>1, <1>2 DEF Inv, Inside
<1>4. PICK g \in {call.rnd, Definite(call.rnd)} : g = call.rnd
  OBVIOUS
<1>5. Left(y, inex, {}, call.x, call.prec, g, call.neg, ExtEMin, ExtEMax)
  BY <1>3, <1>4 DEF InRange, Left
<1> QED
  BY <1>1, <1>2, <1>3, <1>5, FreeDelivers

\* Nothing changes when the model stutters.
LEMMA StutterKeeps == Inv /\ UNCHANGED vars => Inv' /\ UNCHANGED Promise!vars
<1>1. SUFFICES ASSUME Inv, UNCHANGED vars PROVE Inv' /\ UNCHANGED Promise!vars
  OBVIOUS
<1>2. UNCHANGED <<emin, emax, flags, saved, call, wprec, step, t, y, inex, pc>>
  BY <1>1 DEF vars
<1>3. UserEMin' = UserEMin /\ UserEMax' = UserEMax /\ UserFlags' = UserFlags
  BY <1>2 DEF UserEMin, UserEMax, UserFlags
<1>4. Approximations' = Approximations
  BY <1>2 DEF Approximations, Around
<1>5. InRange(y, inex)' <=> InRange(y, inex)
  BY <1>2 DEF InRange
<1>6. Inv'
  BY <1>1, <1>2, <1>3, <1>4, <1>5 DEF Inv
<1>7. UNCHANGED Promise!vars
  BY <1>2, <1>3 DEF Promise!vars
<1> QED
  BY <1>6, <1>7

-----------------------------------------------------------------------------
(* The theorem                                                             *)

\* Every step keeps the invariant, and is the promised return or one the user does not see.
LEMMA StepKeeps == Inv /\ [Next]_vars => Inv' /\ (Promise!Deliver \/ UNCHANGED Promise!vars)
BY FastSmallInputKeeps, SmallInputAfterSaveKeeps, BeginKeeps, ZivInitKeeps, ApproximateKeeps,
   ZivNextKeeps, RoundKeeps, RestoreRangeKeeps, StutterKeeps
   DEF Next, Function, Done

\* Whatever approximations come within the error bound, whichever shortcut is taken, in every
\* range and precision: the function returns at most once, the correctly rounded result with its
\* ternary value, adds to the user's flags those the result calls for, and gives the
\* user's range back (the steps listed in mpfr_check_range, src/exceptions.c).
THEOREM FunctionKeepsPromise == Spec => PromiseKept
<1>1. Init => Promise!Spec!1
  BY DEF Init, Promise!Spec, Promise!NoAnswer
<1> QED
  BY <1>1, InvInit, StepKeeps, PTL DEF Spec, PromiseKept, Promise!Spec
=============================================================================
