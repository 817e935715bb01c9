--------------------------- MODULE CanRoundProofs ---------------------------
(***************************************************************************)
(* The tests that tell whether an approximation can be rounded, for every  *)
(* limb size, number of limbs, precision and error: mpfr_can_round         *)
(* (src/round_prec.c) toward zero from an approximation of unknown side    *)
(* says yes exactly when both ends of the interval round alike, and        *)
(* mpfr_round_p (src/round_p.c), the test of Ziv's loops, never says yes   *)
(* for an interval whose interior numbers round differently.               *)
(*                                                                         *)
(* Both are reduced to one condition, Clear: with U the ulp, R the bits    *)
(* of the approximation below it and E the error, E <= R /\ R + E < U.     *)
(* Whole numbers of units are scaled on both sides until it is the same    *)
(* one: the bits that the limb code compares, and the real interval.       *)
(***************************************************************************)
EXTENDS CanRound, RoundingProofs

-----------------------------------------------------------------------------
(* Roundings toward zero of the ends of an interval                        *)

\* A rounding toward zero does not go below a number of p bits,
LEMMA FloorAbove ==
  ASSUME NEW p \in Nat, p > 0, NEW N \in 1..MaxBits, p < N, N < MaxBits,
         NEW U \in Nat, UlpOf(U, N, p), NEW k \in Nat, k <= 2^p,
         NEW X \in Nat, 2^(N - 1) <= X, X < 2^(N + 1), k * U <= X,
         NEW g, NEW neg \in BOOLEAN, TowardZero(g, neg)
  PROVE  k * U <= RoundTo(X, p, g, neg)
<1>1. 2^N \in Nat /\ 2^p \in Nat /\ U > 0 /\ 2^N = 2^p * U
  <2>1. N - p \in Nat /\ p + (N - p) = N
    OBVIOUS
  <2>2. 2^(p + (N - p)) = 2^p * 2^(N - p)
    BY <2>1, PowAdd
  <2>3. 2^N = 2^p * U
    BY <2>1, <2>2, Zenon DEF UlpOf
  <2>4. 2^N \in Nat /\ 2^p \in Nat /\ 2^(N - p) > 0
    BY <2>1, PowNat
  <2> QED
    BY <2>3, <2>4 DEF UlpOf
<1>2. CASE X < 2^N
  <2>1. HasLength(X, N)
    BY <1>2 DEF HasLength
  <2>2. PICK u \in Nat, q \in Nat, r \in Nat : Cut(X, N, p, u, q, r)
    <3>1. N \in Nat
      OBVIOUS
    <3> QED
      BY <3>1, CutExists
  <2>3. u = U /\ u > 0 /\ r < u /\ X = q * u + r
    BY <2>2 DEF Cut, UlpOf
  <2>4. RoundTo(X, p, g, neg) = (IF GoesUp(q, r, u, g, neg) THEN q + 1 ELSE q) * u
    BY <2>1, <2>2, RoundToLong
  <2>5. ~ GoesUp(q, r, u, g, neg)
    BY DEF GoesUp, TowardZero
  <2>6. k <= q
    <3>1. k * U < (q + 1) * U
      BY <2>3
    <3> QED
      BY <1>1, <3>1, MulCancel
  <2>7. k * U <= q * U
    BY <2>6, MulMono
  <2> QED
    BY <2>3, <2>4, <2>5, <2>7
<1>3. CASE X >= 2^N
  <2>1. HasLength(X, N + 1) /\ N + 1 \in 1..MaxBits
    <3>1. N + 1 \in 1..MaxBits /\ N + 1 \in Nat \ {0} /\ (N + 1) - 1 = N
      BY RealRoundingAssumption
    <3>2. 2^((N + 1) - 1) <= X
      BY <1>3, <3>1, Zenon
    <3> QED
      BY <3>1, <3>2 DEF HasLength
  <2>2. RoundTo(X, p, g, neg) \in Nat /\ 2^((N + 1) - 1) <= RoundTo(X, p, g, neg)
    BY <2>1, RoundToBounds
  <2>3. (N + 1) - 1 = N
    OBVIOUS
  <2>4. 2^N <= RoundTo(X, p, g, neg)
    BY <2>2, <2>3, Zenon
  <2>5. k * U <= 2^p * U
    BY <1>1, MulMono
  <2>6. k * U \in Nat
    OBVIOUS
  <2> QED
    BY <1>1, <2>2, <2>4, <2>5, <2>6
<1> QED
  BY <1>1, <1>2, <1>3

\* and it stays below what is rounded.
LEMMA FloorBelow ==
  ASSUME NEW p \in Nat, p > 0, NEW X \in Nat, X < 2^MaxBits,
         NEW g, NEW neg \in BOOLEAN, TowardZero(g, neg)
  PROVE  RoundTo(X, p, g, neg) \in Nat /\ RoundTo(X, p, g, neg) <= X
<1>1. CASE X > 0
  <2>1. BitLength(X) \in 1..MaxBits /\ HasLength(X, BitLength(X))
    BY <1>1, BitLengthExists
  <2> QED
    BY <2>1, RoundToBounds
<1>2. CASE X = 0
  <2>1. Ulp(0, p) \in Nat /\ Ulp(0, p) > 0
    <3> DEFINE n == BitLength(0)
    <3>1. 2^0 = 1 /\ 0 \in 0..MaxBits
      BY PowZero, RealRoundingAssumption
    <3>2. \E m \in 0..MaxBits : 2^m > 0 /\ (m = 0 \/ 0 >= 2^(m - 1))
      <4>1. 2^0 > 0
        BY <3>1
      <4> QED
        BY <3>1, <4>1
    <3>3. n \in 0..MaxBits
      BY <3>2 DEF BitLength
    <3> HIDE DEF n
    <3>4. n > p => 2^(n - p) \in Nat /\ 2^(n - p) > 0
      <4>1. n > p => n - p \in Nat
        BY <3>3
      <4> QED
        BY <4>1, PowNat
    <3>5. Ulp(0, p) = IF n > p THEN 2^(n - p) ELSE 1
      BY DEF Ulp, n
    <3> QED
      BY <3>4, <3>5
  <2> DEFINE u == Ulp(0, p)
  <2>2. u \in Nat /\ u > 0
    BY <2>1
  <2>3. RoundTo(0, p, g, neg) = RoundToMultiple(0, u, g, neg)
    BY DEF RoundTo
  <2> HIDE DEF u
  <2>4. IsQuotient(0, u, 0, 0)
    BY <2>2 DEF IsQuotient
  <2>5. RoundToMultiple(0, u, g, neg) = (IF GoesUp(0, 0, u, g, neg) THEN 0 + 1 ELSE 0) * u
    BY <2>2, <2>4, QuotientRounds
  <2>6. ~ GoesUp(0, 0, u, g, neg)
    BY DEF GoesUp
  <2> QED
    BY <1>2, <2>2, <2>3, <2>5, <2>6
<1> QED
  BY <1>1, <1>2

\* An interval around B rounds to one number toward zero if and only if it has no
\* number of p bits but its lower end.
LEMMA SameFloor ==
  ASSUME NEW p \in Nat, p > 0, NEW N \in 1..MaxBits, p < N, N < MaxBits, NEW q, IsSignificand(q, p),
         NEW U \in Nat, UlpOf(U, N, p), NEW R \in Nat, R < U, NEW C, C = q * U + R,
         NEW E \in Nat, E > 0, E <= 2^(N - 1), NEW g, NEW neg \in BOOLEAN, TowardZero(g, neg),
         NEW lo, lo = C - E, NEW hi, hi = C + E
  PROVE  RoundTo(lo, p, g, neg) = RoundTo(hi, p, g, neg) <=> E <= R /\ R + E < U
<1>1. q \in Nat /\ q * U \in Nat /\ (q + 1) * U = q * U + U /\ q + 1 <= 2^p /\ q <= 2^p
  BY PowNat DEF IsSignificand
<1>2. HasLength(C, N)
  <2>1. q * U <= C /\ C < (q + 1) * U /\ C \in Nat
    BY <1>1
  <2> DEFINE d == C - q * U
  <2>2. d = C - q * U
    OBVIOUS
  <2> HIDE DEF d
  <2> QED
    BY <2>1, <2>2, BetweenCut
<1>3. C \in Nat /\ 2^(N - 1) <= C /\ C < 2^N /\ 2^(N - 1) \in Nat /\ 2^N \in Nat /\ 2^(N + 1) = 2 * 2^N
      /\ 2^(N - 1) <= 2^N
  <2>1. N - 1 \in Nat /\ N \in Nat /\ N - 1 <= N
    OBVIOUS
  <2> QED
    BY <1>2, <2>1, PowNat, PowSucc, PowMonotone DEF HasLength
<1>4. lo \in Nat /\ hi \in Nat /\ lo < C /\ C < hi /\ 2^(N - 1) <= hi /\ hi < 2^(N + 1)
  BY <1>3
<1>5. CASE E <= R /\ R + E < U
  <2>1. q * U <= lo /\ lo < (q + 1) * U /\ q * U <= hi /\ hi < (q + 1) * U
    BY <1>1, <1>5
  <2> QED
    BY <1>4, <1>5, <2>1, FloorBetween
<1>6. lo < 2^MaxBits
  <2>1. MaxBits \in Nat /\ N \in Nat
    BY RealRoundingAssumption
  <2>2. 2^N < 2^MaxBits /\ 2^MaxBits \in Nat
    BY <2>1, PowStrict, PowNat
  <2> QED
    BY <1>3, <1>4, <2>2
<1>7. RoundTo(lo, p, g, neg) \in Nat /\ RoundTo(lo, p, g, neg) <= lo
  BY <1>4, <1>6, FloorBelow
<1>8. \A k \in Nat : k <= 2^p /\ k * U <= hi => k * U <= RoundTo(hi, p, g, neg)
  BY <1>4, FloorAbove
<1>9. CASE ~ (E <= R)
  <2>1. lo < q * U /\ q * U <= hi
    BY <1>1, <1>4, <1>9
  <2>2. q * U <= RoundTo(hi, p, g, neg)
    BY <1>1, <1>8, <2>1
  <2> QED
    BY <1>1, <1>4, <1>7, <1>9, <2>1, <2>2
<1>10. CASE ~ (R + E < U)
  <2>1. lo < (q + 1) * U /\ (q + 1) * U <= hi /\ q + 1 \in Nat
    BY <1>1, <1>3, <1>4, <1>10
  <2>2. (q + 1) * U <= RoundTo(hi, p, g, neg)
    BY <1>1, <1>8, <2>1
  <2> QED
    BY <1>1, <1>4, <1>7, <1>10, <2>1, <2>2
<1> QED
  BY <1>5, <1>9, <1>10

-----------------------------------------------------------------------------
(* mpfr_can_round_raw, for an error of unknown sign and a rounding toward zero *)

\* T is a multiple of 2 * u: the limbs kept end above the bit at u.
Wraps(T, h, u) == T = h * (2 * u)

\* The bit at u of a number, seen after its higher bits are dropped.
LEMMA BitOfRemainder ==
  ASSUME NEW u \in Nat, u > 0, NEW h \in Nat, h > 0, NEW T, Wraps(T, h, u),
         NEW v \in Int
  PROVE  ((v % T) % (2 * u)) \div u = (v \div u) % 2
<1> DEFINE w == 2 * u
           z == v \div T
           m == v % T
           y == m \div w
           s == m % w
           d == s \div u
           f == s % u
<1>1. w \in Nat /\ w > 0 /\ T \in Nat /\ T > 0 /\ T = h * w
  <2>1. h * w >= 1 * w
    BY MulMono
  <2> QED
    BY <2>1 DEF Wraps
<1>2. z \in Int /\ m \in Nat /\ v = z * T + m
  BY <1>1
<1> HIDE DEF z, m
<1>3. y \in Nat /\ s \in Nat /\ s < w /\ m = y * w + s
  BY <1>1, <1>2, DivModExists
<1> HIDE DEF y, s
<1>4. d \in Nat /\ f \in Nat /\ f < u /\ s = d * u + f
  BY <1>3, DivModExists
<1> HIDE DEF d, f
<1>5. d = 0 \/ d = 1
  <2>1. d * u < 2 * u
    BY <1>3, <1>4
  <2>2. d < 2
    BY <1>4, <2>1, MulCancel
  <2> QED
    BY <1>4, <2>2
<1>6. v = (2 * (z * h + y) + d) * u + f
  <2>1. v = z * (h * w) + (y * w + (d * u + f))
    BY <1>1, <1>2, <1>3, <1>4
  <2>2. z * (h * w) = (z * h) * w
    BY <1>1, <1>2
  <2>3. (z * h) * w + y * w = (z * h + y) * w
    BY <1>1, <1>2, <1>3
  <2>4. (z * h + y) * w = (2 * (z * h + y)) * u
    BY <1>2, <1>3
  <2>5. (2 * (z * h + y)) * u + d * u = (2 * (z * h + y) + d) * u
    BY <1>2, <1>3, <1>4
  <2>6. z * h \in Int /\ (z * h) * w \in Int /\ y * w \in Int /\ d * u \in Int
    BY <1>1, <1>2, <1>3, <1>4
  <2> QED
    BY <1>4, <2>1, <2>2, <2>3, <2>4, <2>5, <2>6
<1> DEFINE g == z * h + y
<1>7. g \in Int
  BY <1>2, <1>3
<1> HIDE DEF g
<1>8. v \div u = 2 * g + d
  <2>1. v = (2 * g + d) * u + f /\ 2 * g + d \in Int
    BY <1>4, <1>6, <1>7 DEF g
  <2> QED
    BY <1>4, <2>1, DivModUnique
<1>9. (2 * g + d) % 2 = d
  BY <1>5, <1>7
<1> QED
  BY <1>8, <1>9 DEF d, s, m

BitsAgree(low, c, T, u) ==
  (((low + c) % T) % (2 * u)) \div u = 1 <=> (((low - c) % T) % (2 * u)) \div u = 1

SitsAt(low, a, u, r) == low = a * u + r

\* The two ends, c above and c below low, have the same bit at u if and only if no
\* multiple of u is crossed.
LEMMA BoundsBits ==
  ASSUME NEW u \in Nat, u > 0, NEW h \in Nat, h > 0, NEW T, Wraps(T, h, u),
         NEW a \in Nat, NEW r \in Nat, r < u, NEW low, SitsAt(low, a, u, r),
         NEW c \in Nat, 2 * c < u
  PROVE  BitsAgree(low, c, T, u) <=> Clear(c, r, u)
<1>1. low \in Nat /\ low + c \in Int /\ low - c \in Int /\ a * u \in Nat /\ low = a * u + r
  BY DEF SitsAt
<1>2. /\ (((low + c) % T) % (2 * u)) \div u = ((low + c) \div u) % 2
      /\ (((low - c) % T) % (2 * u)) \div u = ((low - c) \div u) % 2
  BY <1>1, BitOfRemainder
<1>3. (a + 1) * u = a * u + u /\ (a - 1) * u = a * u - u
  OBVIOUS
<1>4. (low + c) \div u = IF r + c < u THEN a ELSE a + 1
  <2>1. CASE r + c < u
    <3>1. low + c = a * u + (r + c) /\ r + c \in Nat
      BY <1>1
    <3> QED
      BY <1>1, <2>1, <3>1, DivModUnique
  <2>2. CASE ~ (r + c < u)
    <3>1. low + c = (a + 1) * u + (r + c - u) /\ r + c - u \in Nat /\ r + c - u < u /\ a + 1 \in Int
      BY <1>1, <1>3, <2>2
    <3> QED
      BY <1>1, <2>2, <3>1, DivModUnique
  <2> QED
    BY <2>1, <2>2
<1>5. (low - c) \div u = IF c <= r THEN a ELSE a - 1
  <2>1. CASE c <= r
    <3>1. low - c = a * u + (r - c) /\ r - c \in Nat /\ r - c < u
      BY <1>1, <2>1
    <3> QED
      BY <1>1, <2>1, <3>1, DivModUnique
  <2>2. CASE ~ (c <= r)
    <3>1. low - c = (a - 1) * u + (r - c + u) /\ r - c + u \in Nat /\ r - c + u < u /\ a - 1 \in Int
      BY <1>1, <1>3, <2>2
    <3> QED
      BY <1>1, <2>2, <3>1, DivModUnique
  <2> QED
    BY <2>1, <2>2
<1>6. a % 2 \in {0, 1} /\ (a + 1) % 2 = 1 - (a % 2) /\ (a - 1) % 2 = 1 - (a % 2)
  OBVIOUS
<1>7. ~ (~ (c <= r) /\ ~ (r + c < u))
  OBVIOUS
<1> QED
  BY <1>2, <1>4, <1>5, <1>6, <1>7 DEF BitsAgree, Clear

\* The limbs that mpfr_can_round_raw leaves aside, and the place of the last bit kept.
LEMMA PlacesAre ==
  ASSUME NEW p \in Nat, p > 0, NEW n \in Nat, NEW bn \in Nat, n = bn * W, p <= n,
         NEW k1, k1 = (p - 1) \div W, NEW s, s = (bn - k1) * W
  PROVE  /\ k1 \in Nat /\ k1 <= bn - 1
         /\ s \in Nat /\ s = n - k1 * W /\ n - p < s
         /\ s - W + MinusModulo(p) = n - p
         /\ k1 * W < p /\ k1 * W \in Nat
<1>1. W \in Nat /\ W > 0
  BY RoundingAssumption
<1>2. p - 1 \in Nat
  OBVIOUS
<1> DEFINE f == (p - 1) % W
<1>3. k1 \in Nat /\ f \in Nat /\ f < W /\ p - 1 = k1 * W + f
  BY <1>1, <1>2, DivModExists
<1> HIDE DEF f
<1>4. k1 * W \in Nat /\ k1 * W < p
  BY <1>1, <1>3
<1>5. (bn - k1) * W = bn * W - k1 * W
  BY <1>1, <1>3
<1>6. (-p) % W = W - (f + 1)
  <2>1. -p = (-(k1 + 1)) * W + (W - (f + 1))
    <3>1. (-(k1 + 1)) * W = -(k1 * W) - W
      BY <1>1, <1>3
    <3> QED
      BY <1>1, <1>3, <1>4, <3>1
  <2>2. PICK g \in Nat : g = W - (f + 1)
    BY <1>1, <1>3
  <2>3. PICK h \in Int : h = -(k1 + 1)
    BY <1>3
  <2>4. PICK P \in Int : P = -p
    OBVIOUS
  <2>5. P = h * W + g /\ g < W
    BY <1>1, <1>3, <2>1, <2>2, <2>3, <2>4
  <2>6. P % W = g
    BY <1>1, <2>5, DivModUnique
  <2> QED
    BY <2>2, <2>4, <2>6
<1>7. k1 <= bn - 1
  <2>1. k1 * W < bn * W
    BY <1>4
  <2>2. k1 < bn
    BY <1>1, <1>3, <2>1, MulCancel
  <2> QED
    BY <1>3, <2>2
<1> QED
  BY <1>1, <1>3, <1>4, <1>5, <1>6, <1>7 DEF MinusModulo

\* The carry that mpfr_can_round_raw sees leave b + c, and the binade it sees b - c leave.
CarryOut(low, c, T, hi, k1) ==
  LET inner == IF k1 > 1 THEN 2^((k1 - 1) * W) ELSE 1
  IN low + c >= T /\ hi % inner = inner - 1

ExpFalls(low, c, T, hi, k1, s) ==
  IF k1 = 0 THEN (low - c) % T < 2^(s - 1) ELSE low < c /\ hi = 2^(k1 * W - 1)

SameBits(low, c, T, i) == Bit((low + c) % T, i) = 1 <=> Bit((low - c) % T, i) = 1

\* Toward zero the last bits of b - c and b + c decide.
LEMMA ByBoundsIs ==
  ASSUME NEW b, NEW bn, NEW neg \in BOOLEAN, NEW cb, NEW p
  PROVE  LET k1 == (p - 1) \div W
             s == (bn - k1) * W
             c == 2^(bn * W - cb)
             low == b % 2^s
             hi == b \div 2^s
         IN CanRoundByBounds(b, bn, neg, "RNDN", "RNDZ", cb, p)
              <=> /\ ~ CarryOut(low, c, 2^s, hi, k1)
                  /\ ~ ExpFalls(low, c, 2^s, hi, k1, s)
                  /\ cb # p + 1
                  /\ SameBits(low, c, 2^s, s - W + MinusModulo(p))
<1> DEFINE k1 == (p - 1) \div W
           s == (bn - k1) * W
           c == 2^(bn * W - cb)
           T == 2^s
           low == b % T
           hi == b \div T
           i == s - W + MinusModulo(p)
           k == (cb - 1) \div W - k1 + 1
           p2 == p - k1 * W
           plus == (low + c) % T
           minus == (low - c) % T
           Last(v) == (Bit(v, i) = 1) # RoundRaw2(v, s, neg, p2, "RNDZ")
           cy == CarryOut(low, c, T, hi, k1)
           ed == ExpFalls(low, c, T, hi, k1, s)
<1>1. \A v, w : RoundRaw2(v, s, neg, w, "RNDZ") = FALSE
  BY DEF RoundRaw2, IsLikeRNDZ
<1>2. CanRoundByBounds(b, bn, neg, "RNDN", "RNDZ", cb, p)
        <=> IF cy THEN FALSE
            ELSE IF ed THEN FALSE
            ELSE IF cb = p + 1 THEN FALSE ELSE Last(plus) = Last(minus)
  BY DEF CanRoundByBounds, CarryOut, ExpFalls
<1>3. Last(plus) = Last(minus) <=> SameBits(low, c, T, i)
  <2> DEFINE A == Bit(plus, i) = 1
             B1 == Bit(minus, i) = 1
             Ra == RoundRaw2(plus, s, neg, p2, "RNDZ")
             Rb == RoundRaw2(minus, s, neg, p2, "RNDZ")
  <2>1. Ra = FALSE /\ Rb = FALSE /\ A \in BOOLEAN /\ B1 \in BOOLEAN
    BY <1>1
  <2>2. Last(plus) = Last(minus) <=> (A # Ra) = (B1 # Rb)
    OBVIOUS
  <2>3. SameBits(low, c, T, i) <=> (A <=> B1)
    BY DEF SameBits
  <2> HIDE DEF A, B1, Ra, Rb
  <2>4. (A # Ra) = (B1 # Rb) <=> (A <=> B1)
    BY <2>1
  <2> QED
    BY <2>2, <2>3, <2>4, Zenon
<1> QED
  BY <1>2, <1>3
\* mpfr_can_round_raw computes b + c and b - c without the limbs that cannot change.
LEMMA ByBoundsClear ==
  ASSUME NEW bn \in Nat, NEW n \in Nat, n = bn * W, NEW b, IsSignificand(b, n), NEW neg \in BOOLEAN,
         NEW p \in Nat, p > 0, p <= n, NEW cb \in Nat, cb <= n, p + 2 <= cb,
         NEW u \in Nat, NEW q \in Nat, NEW r \in Nat, Cut(b, n, p, u, q, r)
  PROVE  CanRoundByBounds(b, bn, neg, "RNDN", "RNDZ", cb, p) <=> Clear(2^(n - cb), r, u)
<1> DEFINE k1 == (p - 1) \div W
           s == (bn - k1) * W
           c == 2^(n - cb)
           T == 2^s
           low == b % T
           hi == b \div T
           i == s - W + MinusModulo(p)
           k == n - p
           h == 2^(s - k - 1)
<1>1. /\ k1 \in Nat /\ k1 <= bn - 1 /\ s \in Nat /\ s = n - k1 * W /\ k < s /\ i = k /\ k \in Nat
      /\ k1 * W \in Nat
  BY PlacesAre
<1>2. b \in Nat /\ 2^(n - 1) <= b /\ b < 2^n
  BY DEF IsSignificand
<1>3. u = 2^k /\ u > 0 /\ r < u /\ b = q * u + r
  BY DEF Cut
<1>4. CanRoundByBounds(b, bn, neg, "RNDN", "RNDZ", cb, p)
        <=> /\ ~ CarryOut(low, c, T, hi, k1)
            /\ ~ ExpFalls(low, c, T, hi, k1, s)
            /\ cb # p + 1
            /\ SameBits(low, c, T, i)
  BY ByBoundsIs
<1> HIDE DEF k1, i
<1>5. h \in Nat /\ h > 0 /\ Wraps(T, h, u) /\ T \in Nat /\ T > 0
  <2>1. s - k - 1 \in Nat /\ k + 1 \in Nat /\ (s - k - 1) + (k + 1) = s
    BY <1>1
  <2> HIDE DEF s, k
  <2>2. 2^((s - k - 1) + (k + 1)) = 2^(s - k - 1) * 2^(k + 1)
    BY <2>1, PowAdd
  <2>3. 2^(k + 1) = 2 * 2^k
    BY <1>1, PowSucc
  <2>4. T = h * (2 * u)
    BY <1>3, <2>1, <2>2, <2>3, Zenon
  <2>5. h \in Nat /\ h > 0 /\ T \in Nat /\ T > 0
    BY <1>1, <2>1, PowNat
  <2> QED
    BY <2>4, <2>5 DEF Wraps
<1>6. c \in Nat /\ 2 * c < u /\ c <= 2^(n - 1) /\ 2^(n - 1) \in Nat
  <2>1. n - cb \in Nat /\ n - p - 1 \in Nat /\ n - cb < n - p - 1 /\ n - p - 1 < n - p /\ n - p \in Nat
        /\ n - cb <= n - 1 /\ n - 1 \in Nat
    OBVIOUS
  <2>2. 2 * 2^(n - cb) <= 2^(n - p - 1) /\ 2^(n - p - 1) < 2^(n - p) /\ 2^(n - cb) <= 2^(n - 1)
    BY <2>1, PowStrict, PowMonotone
  <2>3. 2^(n - cb) \in Nat /\ 2^(n - p - 1) \in Nat /\ 2^(n - p) \in Nat /\ 2^(n - 1) \in Nat
    BY <2>1, PowNat
  <2> QED
    BY <1>3, <2>2, <2>3
<1>7. low \in Nat /\ low < T /\ hi \in Nat /\ b = hi * T + low
  BY <1>2, <1>5, DivModExists
<1> HIDE DEF c, T, h, low, hi
<1> DEFINE a == q - hi * (2 * h)
<1>8. a \in Nat /\ low = a * u + r /\ a < 2 * h
  <2>1. T = (2 * h) * u /\ hi * T = (hi * (2 * h)) * u
    BY <1>5, <1>7 DEF Wraps
  <2>2. hi * (2 * h) \in Int /\ a \in Int
    BY <1>5, <1>7
  <2>3. a * u = q * u - (hi * (2 * h)) * u /\ a * u \in Int
    BY <2>2
  <2>4. low = a * u + r
    BY <1>3, <1>7, <2>1, <2>3
  <2> HIDE DEF a
  <2>5. (-1) * u < a * u /\ a * u < (2 * h) * u
    BY <1>3, <1>7, <2>1, <2>3, <2>4
  <2>6. -1 < a /\ a < 2 * h
    BY <1>3, <1>5, <2>2, <2>5, MulCancel
  <2> QED
    BY <2>2, <2>4, <2>6
<1> HIDE DEF a
<1>9. SameBits(low, c, T, i) <=> Clear(c, r, u)
  <2>0. SitsAt(low, a, u, r)
    BY <1>8 DEF SitsAt
  <2>1. BitsAgree(low, c, T, u) <=> Clear(c, r, u)
    BY <1>3, <1>5, <1>6, <1>8, <2>0, BoundsBits
  <2>2. 2^(k + 1) = 2 * u
    BY <1>1, <1>3, PowSucc, Zenon
  <2>3. \A v : Bit(v, i) = (v % (2 * u)) \div u
    BY <1>1, <1>3, <2>2, Zenon DEF Bit, Bits
  <2>4. SameBits(low, c, T, i) <=> BitsAgree(low, c, T, u)
    BY <2>3, Zenon DEF SameBits, BitsAgree
  <2> QED
    BY <2>1, <2>4, Zenon
<1>10. CarryOut(low, c, T, hi, k1) => ~ Clear(c, r, u)
  <2> SUFFICES ASSUME low + c >= T PROVE ~ (r + c < u)
    BY DEF CarryOut, Clear
  <2>1. (a + 1) * u <= (2 * h) * u /\ (a + 1) * u = a * u + u
    BY <1>5, <1>8, MulMono
  <2>2. T = (2 * h) * u
    BY <1>5 DEF Wraps
  <2> QED
    BY <1>3, <1>5, <1>6, <1>8, <2>1, <2>2
<1>11. ExpFalls(low, c, T, hi, k1, s) => ~ Clear(c, r, u)
  <2> SUFFICES ASSUME ExpFalls(low, c, T, hi, k1, s), c <= r PROVE FALSE
    BY DEF Clear
  <2>1. CASE k1 # 0
    <3>1. low < c
      BY <2>1 DEF ExpFalls
    <3>2. a * u \in Nat
      BY <1>8
    <3> QED
      BY <1>6, <1>8, <3>1, <3>2
  <2>2. CASE k1 = 0
    <3>1. s = n
      BY <1>1, <2>2
    <3>2. T = 2^n
      BY <3>1 DEF T
    <3>3. (low - c) % T < 2^(n - 1)
      BY <2>2, <3>1, Zenon DEF ExpFalls
    <3>4. b < T
      BY <1>2, <3>2
    <3>5. low = b
      BY <1>2, <1>5, <3>4 DEF low
    <3>6. b - c \in Nat /\ b - c < T
      BY <1>2, <1>5, <1>6, <3>4
    <3>7. (b - c) % T = b - c
      BY <1>5, <3>6
    <3>8. q * u >= 2^(n - 1)
      <4>1. IsSignificand(q, p) /\ n - p \in Nat
        <5>1. 0 < p
          OBVIOUS
        <5> QED
          BY <1>2, <5>1, CutIs
      <4>2. 2^(p - 1) <= q /\ 2^(p - 1) \in Nat /\ p - 1 \in Nat
        <5>1. p - 1 \in Nat
          OBVIOUS
        <5> QED
          BY <4>1, <5>1, PowNat DEF IsSignificand
      <4>3. 2^(p - 1) * u <= q * u
        BY <4>2, MulMono
      <4>4. 2^(n - 1) = 2^(p - 1) * u
        <5>1. (p - 1) + (n - p) = n - 1
          OBVIOUS
        <5>2. 2^((p - 1) + (n - p)) = 2^(p - 1) * 2^(n - p)
          BY <4>1, <4>2, PowAdd
        <5> QED
          BY <1>3, <5>1, <5>2, Zenon
      <4> QED
        BY <4>3, <4>4, Zenon
    <3>9. q * u \in Nat
      OBVIOUS
    <3>10. b - c < 2^(n - 1)
      BY <3>3, <3>5, <3>7
    <3> QED
      BY <1>3, <1>6, <3>8, <3>9, <3>10
  <2> QED
    BY <2>1, <2>2
<1>12. cb # p + 1
  OBVIOUS
<1> QED
  BY <1>4, <1>9, <1>10, <1>11, <1>12 DEF c

\* mpfr_round_raw_2 away from zero: is there anything to drop?
LEMMA RoundRaw2Away ==
  ASSUME NEW b \in Nat, NEW n \in Nat, NEW p \in Nat, NEW neg \in BOOLEAN, p <= n,
         NEW u \in Nat, NEW q \in Nat, NEW r \in Nat, Cut(b, n, p, u, q, r)
  PROVE  RoundRaw2(b, n, neg, p, "RNDA") <=> r # 0
<1>1. u = 2^(n - p) /\ u > 0 /\ r < u /\ b = q * u + r
  BY DEF Cut
<1>2. b % u = r
  BY <1>1, DivModUnique
<1>3. CASE p < n
  <2> DEFINE rb == RoundBit(b, n, p)
             sb == b % 2^(n - p - 1) # 0
             odd == Bit(b, n - p) = 1
  <2>1. rb <=> 2 * (b % 2^(n - p)) >= 2^(n - p)
    BY <1>3, RoundBitIs
  <2>2. sb <=> (b % 2^(n - p) # 0 /\ 2 * (b % 2^(n - p)) # 2^(n - p))
    BY <1>3, StickyIs
  <2>3. rb <=> 2 * r >= u
    BY <1>1, <1>2, <2>1, Zenon
  <2>4. sb <=> r # 0 /\ 2 * r # u
    BY <1>1, <1>2, <2>2, Zenon
  <2>5. ~ IsLikeRNDZ("RNDA", neg)
    BY DEF IsLikeRNDZ
  <2>6. RoundRaw2(b, n, neg, p, "RNDA") <=> RoundRawDecision(b, n, neg, p, "RNDA").up
    BY <1>3, <2>5 DEF RoundRaw2
  <2>7. RoundRawDecision(b, n, neg, p, "RNDA") = IF rb \/ sb THEN AddOneUlp ELSE TruncDoit
    BY <2>5 DEF RoundRawDecision
  <2> HIDE DEF rb, sb
  <2>8. RoundRaw2(b, n, neg, p, "RNDA") <=> rb \/ sb
    BY <2>6, <2>7 DEF AddOneUlp, TruncDoit, Decision
  <2> QED
    BY <1>1, <2>3, <2>4, <2>8
<1>4. CASE p = n
  <2>1. u = 1
    BY <1>1, <1>4, PowZero
  <2>2. ~ RoundRaw2(b, n, neg, p, "RNDA")
    BY <1>4 DEF RoundRaw2
  <2> QED
    BY <1>1, <2>1, <2>2
<1> QED
  BY <1>3, <1>4

\* mpfr_can_round_raw toward zero: the three cases of the code amount to Enough.
LEMMA NearTowardZero ==
  ASSUME NEW bn \in Nat, NEW n \in Nat, n = bn * W, NEW b, IsSignificand(b, n), NEW neg \in BOOLEAN,
         NEW p \in Nat, p > 0, NEW cb \in Nat, cb > 0,
         NEW rnd1 \in {"RNDN", "RNDF"}, NEW rnd2, TowardZero(rnd2, neg),
         NEW u \in Nat, NEW q \in Nat, NEW r \in Nat, p <= n => Cut(b, n, p, u, q, r)
  PROVE  CanRoundRaw(b, bn, neg, cb, rnd1, rnd2, p) <=> Enough(p, n, cb, r, u)
<1>1. Rnd1Abs(rnd1, neg) = "RNDN"
  BY DEF Rnd1Abs
<1>2. Rnd2Abs("RNDN", rnd2, neg) = "RNDZ" /\ rnd2 # "RNDF"
  <2>1. rnd2 # "RNDN" /\ rnd2 # "RNDF" /\ IsLikeRNDZ(rnd2, neg)
    BY DEF TowardZero, IsLikeRNDZ
  <2> QED
    BY <2>1 DEF Rnd2Abs
<1>3. CanRoundRaw(b, bn, neg, cb, rnd1, rnd2, p)
        <=> /\ ~ (cb < p + 1) /\ cb # p + 1
            /\ CASE p > n -> CanRoundLargePrec(b, n, "RNDN", "RNDZ", cb, p)
                 [] p <= n /\ cb > n -> CanRoundTinyError(b, n, neg, "RNDN", "RNDZ", cb, p)
                 [] OTHER -> CanRoundByBounds(b, bn, neg, "RNDN", "RNDZ", cb, p)
  BY <1>1, <1>2 DEF CanRoundRaw
<1>4. CASE p > n
  <2>1. ~ CanRoundLargePrec(b, n, "RNDN", "RNDZ", cb, p)
    BY DEF CanRoundLargePrec
  <2> QED
    BY <1>3, <1>4, <2>1 DEF Enough
<1>5. CASE p <= n
  <2>1. Cut(b, n, p, u, q, r) /\ u = 2^(n - p) /\ u > 0 /\ r < u /\ b = q * u + r /\ b \in Nat
    BY <1>5 DEF Cut, IsSignificand
  <2>2. CASE cb <= p + 1
    <3>1. CASE cb > n
      <4>1. n - p = 0
        BY <1>5, <2>2, <3>1
      <4>2. u = 1
        BY <2>1, <4>1, PowZero
      <4> QED
        BY <1>3, <2>1, <2>2, <3>1, <4>2 DEF Enough
    <3>2. CASE cb <= n
      <4>1. n - cb \in Nat /\ n - p \in Nat /\ n - p <= (n - cb) + 1
        BY <1>5, <2>2, <3>2
      <4>2. 2^(n - p) <= 2^((n - cb) + 1) /\ 2^((n - cb) + 1) = 2 * 2^(n - cb) /\ 2^(n - cb) \in Nat
        <5>1. (n - cb) + 1 \in Nat
          BY <4>1
        <5> QED
          BY <4>1, <5>1, PowMonotone, PowSucc, PowNat
      <4>3. ~ Clear(2^(n - cb), r, u)
        BY <2>1, <4>2 DEF Clear
      <4> QED
        BY <1>3, <2>2, <3>2, <4>3 DEF Enough
    <3> QED
      BY <3>1, <3>2
  <2>3. CASE cb > p + 1 /\ cb > n
    <3>1. CanRoundRaw(b, bn, neg, cb, rnd1, rnd2, p) <=> CanRoundTinyError(b, n, neg, "RNDN", "RNDZ", cb, p)
      BY <1>3, <1>5, <2>3
    <3>2. CASE IsPowerOf2(b, n)
      <4>1. r = 0
        <5>1. b = 2^(n - 1) /\ n \in Nat /\ n - 1 >= n - p
          BY <3>2 DEF IsPowerOf2
        <5>2. b % u = r
          <6>1. Cut(b, n, p, u, q, r)
            BY <2>1
          <6>2. ASSUME NEW z, z = q * u + r, u > 0, r < u PROVE z % u = r
            BY <6>2, DivModUnique
          <6>3. b = q * u + r /\ u > 0 /\ r < u
            BY <6>1 DEF Cut
          <6> QED
            BY <6>2, <6>3, Zenon
        <5>3. n - p \in Nat /\ n - 1 \in Nat /\ n - p <= n - 1 /\ (n - 1) - (n - p) = p - 1
          BY <1>5
        <5>4. 2^(n - 1) = 2^((n - 1) - (n - p)) * 2^(n - p)
          BY <5>3, PowSplit
        <5>5. b = 2^(p - 1) * u
          BY <2>1, <5>1, <5>3, <5>4, Zenon
        <5>6. 2^(p - 1) \in Nat
          BY <5>3, PowNat
        <5>7. b = 2^(p - 1) * u + 0
          BY <2>1, <5>5, <5>6
        <5>8. b % u = 0
          <6>1. ASSUME NEW k \in Nat PROVE (k * u + 0) % u = 0
            <7>1. k * u + 0 \in Int /\ u > 0
              BY <2>1 DEF Cut
            <7> QED
              BY <7>1, DivModUnique
          <6> QED
            BY <5>6, <5>7, <6>1, Zenon
        <5> QED
          BY <5>2, <5>8
      <4>2. ~ CanRoundTinyError(b, n, neg, "RNDN", "RNDZ", cb, p)
        BY <3>2 DEF CanRoundTinyError
      <4> QED
        BY <2>3, <3>1, <4>1, <4>2 DEF Enough
    <3>3. CASE ~ IsPowerOf2(b, n)
      <4>1. CanRoundTinyError(b, n, neg, "RNDN", "RNDZ", cb, p) <=> RoundRaw2(b, n, neg, p, "RNDA")
        BY <3>3 DEF CanRoundTinyError
      <4>2. RoundRaw2(b, n, neg, p, "RNDA") <=> r # 0
        <5>1. Cut(b, n, p, u, q, r) /\ b \in Nat
          BY <2>1
        <5> QED
          BY <1>5, <5>1, RoundRaw2Away
      <4> QED
        BY <1>5, <2>3, <3>1, <4>1, <4>2 DEF Enough
    <3> QED
      BY <3>2, <3>3
  <2>4. CASE cb > p + 1 /\ cb <= n
    <3>1. CanRoundRaw(b, bn, neg, cb, rnd1, rnd2, p) <=> CanRoundByBounds(b, bn, neg, "RNDN", "RNDZ", cb, p)
      BY <1>3, <1>5, <2>4
    <3>2. CanRoundByBounds(b, bn, neg, "RNDN", "RNDZ", cb, p) <=> Clear(2^(n - cb), r, u)
      <4>1. p + 2 <= cb /\ cb <= n /\ p <= n
        BY <1>5, <2>4
      <4> QED
        BY <2>1, <4>1, ByBoundsClear
    <3> QED
      BY <1>5, <2>4, <3>1, <3>2 DEF Enough
  <2> QED
    BY <2>2, <2>3, <2>4
<1> QED
  BY <1>4, <1>5


-----------------------------------------------------------------------------
(* mpfr_can_round toward zero: the answer is exact *)

ErrorIs(E, N, cb) == Power(E, N - cb)

RoundAlike(C, E, p, g, neg) == RoundTo(C - E, p, g, neg) = RoundTo(C + E, p, g, neg)

\* The two ends of an interval round alike.
LEMMA SameEnds ==
  ASSUME NEW p \in Nat, p > 0, NEW N \in 1..MaxBits, p < N, N < MaxBits, NEW C \in Nat, IsSignificand(C, N),
         NEW U \in Nat, NEW Q \in Nat, NEW R \in Nat, Cut(C, N, p, U, Q, R),
         NEW cb \in Nat, cb > 0, cb <= N, NEW E \in Nat, ErrorIs(E, N, cb),
         NEW g, NEW neg \in BOOLEAN, TowardZero(g, neg)
  PROVE  RoundAlike(C, E, p, g, neg) <=> Clear(E, R, U)
<1>1. IsSignificand(Q, p)
  BY CutIs
<1>2. UlpOf(U, N, p) /\ R < U /\ C = Q * U + R
  BY DEF Cut, UlpOf
<1>3. E > 0 /\ E <= 2^(N - 1)
  <2>1. N - cb \in Nat /\ N - 1 \in Nat /\ N - cb <= N - 1
    OBVIOUS
  <2> QED
    BY <2>1, PowNat, PowMonotone DEF ErrorIs, Power
<1>4. PICK lo : lo = C - E
  OBVIOUS
<1>5. PICK hi : hi = C + E
  OBVIOUS
<1>6. RoundTo(lo, p, g, neg) = RoundTo(hi, p, g, neg) <=> E <= R /\ R + E < U
  BY <1>1, <1>2, <1>3, <1>4, <1>5, SameFloor
<1> QED
  BY <1>4, <1>5, <1>6, Zenon DEF Clear, RoundAlike

-----------------------------------------------------------------------------
(* The system: a question, then its answer *)

Calls == UNION {Queries(a) : a \in Approximations}

\* What the test that is asked returns.
Verdict ==
  IF call.test = "can_round"
  THEN CanRoundRaw(call.b, call.bn, call.neg, call.cb, call.rnd1, call.rnd2, call.prec)
  ELSE CanRound(call.b, call.bn, call.cb, call.prec, call.rnd2)

AnswersInv ==
  /\ call \in Calls
  /\ answer \in {"none", "yes", "no"}
  /\ answer = "yes" => Verdict
  /\ answer = "no" => ~ Verdict

\* The answer is that of the test.
LEMMA Answers == Spec => []AnswersInv
<1>1. Init => AnswersInv
  BY DEF Init, AnswersInv, Calls
<1>2. AnswersInv /\ [Next]_vars => AnswersInv'
  <2> SUFFICES ASSUME AnswersInv, [Next]_vars PROVE AnswersInv'
    OBVIOUS
  <2>1. call' = call
    BY DEF Next, AskCanRound, AskRoundP, Answer, Done, vars
  <2>2. Verdict' <=> Verdict
    BY <2>1 DEF Verdict
  <2>3. CASE AskCanRound
    BY <2>1, <2>2, <2>3 DEF AskCanRound, Answer, AnswersInv, Verdict, Calls
  <2>4. CASE AskRoundP
    BY <2>1, <2>2, <2>4 DEF AskRoundP, Answer, AnswersInv, Verdict, Calls
  <2>5. CASE UNCHANGED vars
    BY <2>1, <2>2, <2>5 DEF AnswersInv, vars, Calls
  <2> QED
    BY <2>3, <2>4, <2>5 DEF Next, Done
<1> QED
  BY <1>1, <1>2, PTL DEF Spec

\* What is asked.
LEMMA CallIs ==
  ASSUME call \in Calls
  PROVE  /\ call.bn \in Nat /\ call.bn > 0 /\ call.bn * W \in Nat /\ call.bn * W > 0
         /\ call.bn * W + Slack + 2 <= MaxBits
         /\ IsSignificand(call.b, call.bn * W)
         /\ call.neg \in BOOLEAN /\ call.rnd1 \in Rnds /\ call.rnd2 \in Rnds
         /\ call.cb \in 1..(call.bn * W + Slack) /\ call.prec \in 1..(call.bn * W + Slack)
         /\ call.test = "round_p" => call.neg = FALSE /\ call.rnd1 = "RNDN"
<1>1. PICK bn \in 1..MaxLimbs : \E b \in 2^(bn*W-1)..2^(bn*W)-1 : call \in Queries([bn |-> bn, b |-> b])
  BY DEF Calls, Approximations
<1>2. PICK b \in 2^(bn*W-1)..2^(bn*W)-1 : call \in Queries([bn |-> bn, b |-> b])
  BY <1>1
<1>3. W \in Nat /\ W > 0 /\ MaxLimbs \in Nat /\ Slack \in Nat /\ MaxLimbs * W + Slack + 2 <= MaxBits
      /\ Negs \subseteq BOOLEAN /\ MaxBits \in Nat
  BY RoundingAssumption, CanRoundAssumption, RealRoundingAssumption
<1>4. bn \in Nat /\ bn > 0 /\ bn * W \in Nat /\ bn * W > 0 /\ bn * W <= MaxLimbs * W /\ MaxLimbs * W \in Nat
  BY <1>3, MulMono
<1>5. bn * W - 1 \in Nat /\ 2^(bn*W-1) \in Nat /\ 2^(bn*W) \in Nat
  <2>1. bn * W - 1 \in Nat
    BY <1>4
  <2> QED
    BY <1>4, <2>1, PowNat
<1>6. IsSignificand(b, bn * W)
  <2>1. b \in Nat /\ 2^(bn*W-1) <= b /\ b < 2^(bn*W)
    BY <1>2, <1>5
  <2> QED
    BY <2>1 DEF IsSignificand
<1>7. /\ call.bn = bn /\ call.b = b
      /\ call.neg \in Negs \cup {FALSE} /\ call.rnd1 \in Rnds /\ call.rnd2 \in Rnds
      /\ call.cb \in 1..(bn * W + Slack) /\ call.prec \in 1..(bn * W + Slack)
      /\ call.test = "round_p" => call.neg = FALSE /\ call.rnd1 = "RNDN"
  BY <1>2 DEF Queries, Rnds
<1>8. bn * W + Slack + 2 <= MaxBits
  BY <1>3, <1>4
<1>9. call.neg \in BOOLEAN
  BY <1>3, <1>7
<1> QED
  BY <1>4, <1>6, <1>7, <1>8, <1>9, Zenon

\* The ends of the interval, when the sign of the error is not known.
LEMMA Ends ==
  ASSUME call.rnd1 \in {"RNDN", "RNDF"}
  PROVE  Lower = B - Error /\ Upper = B + Error
<1>1. ~ BelowX /\ ~ AboveX
  BY DEF BelowX, AboveX, TowardZero
<1> QED
  BY <1>1 DEF Lower, Upper

\* mpfr_can_round toward zero, on an approximation with an error of unknown sign, says
\* yes if and only if all the numbers of the interval have the same rounding.
THEOREM ExactIsExact == Spec => []ExactTowardZero
<1>1. AnswersInv => ExactTowardZero
  <2> SUFFICES ASSUME AnswersInv, answer # "none", call.test = "can_round",
                      call.rnd1 \in {"RNDN", "RNDF"}, TowardZero(call.rnd2, call.neg)
               PROVE  answer = "yes" <=> CanBeRounded
    BY DEF ExactTowardZero
  <2> DEFINE n == call.bn * W
             k == Slack + 1
             N == n + k
             p == call.prec
             S == 2^k
  <2>1. /\ call.bn \in Nat /\ call.bn > 0 /\ n \in Nat /\ n > 0
        /\ n + Slack + 2 <= MaxBits
        /\ IsSignificand(call.b, n)
        /\ call.neg \in BOOLEAN
        /\ call.cb \in 1..(n + Slack) /\ p \in 1..(n + Slack)
    BY CallIs DEF AnswersInv
  <2>2. Slack \in Nat /\ MaxBits \in Nat
    BY CanRoundAssumption, RealRoundingAssumption
  <2>3. k \in Nat /\ N \in Nat /\ N \in 1..MaxBits /\ N < MaxBits /\ p \in Nat /\ p > 0 /\ p < N
        /\ call.cb \in Nat /\ call.cb > 0 /\ call.cb <= N
    BY <2>1, <2>2
  <2>4. S \in Nat /\ Power(S, k)
    BY <2>3, PowNat DEF Power
  <2>5. answer = "yes" <=> CanRoundRaw(call.b, call.bn, call.neg, call.cb, call.rnd1, call.rnd2, p)
    BY DEF AnswersInv, Verdict
  <2> HIDE DEF n, k, N, S
  <2>6. PICK u \in Nat, q \in Nat, r \in Nat : p <= n => Cut(call.b, n, p, u, q, r)
    <3>1. CASE p <= n
      BY <2>1, <2>3, <3>1, CutExistsUpTo DEF IsSignificand
    <3>2. CASE p > n
      BY <2>1, <2>3, <3>2
    <3> QED
      BY <2>1, <2>3, <3>1, <3>2
  <2>7. CanRoundRaw(call.b, call.bn, call.neg, call.cb, call.rnd1, call.rnd2, p)
          <=> Enough(p, n, call.cb, r, u)
    <3>1. ASSUME NEW b, NEW bn \in Nat, IsSignificand(b, bn * W), NEW neg \in BOOLEAN, NEW cb \in Nat,
                 NEW rnd1 \in {"RNDN", "RNDF"}, NEW rnd2, TowardZero(rnd2, neg), cb > 0,
                 p <= bn * W => Cut(b, bn * W, p, u, q, r)
          PROVE  CanRoundRaw(b, bn, neg, cb, rnd1, rnd2, p) <=> Enough(p, bn * W, cb, r, u)
      <4>1. PICK m \in Nat : m = bn * W
        BY RoundingAssumption
      <4>2. IsSignificand(b, m) /\ (p <= m => Cut(b, m, p, u, q, r))
        BY <3>1, <4>1, Zenon
      <4>3. p \in Nat /\ p > 0
        BY <2>3
      <4> HIDE DEF p
      <4>4. CanRoundRaw(b, bn, neg, cb, rnd1, rnd2, p) <=> Enough(p, m, cb, r, u)
        BY <3>1, <4>1, <4>2, <4>3, NearTowardZero
      <4> QED
        BY <4>1, <4>4, Zenon
    <3>2. IsSignificand(call.b, call.bn * W) /\ (p <= call.bn * W => Cut(call.b, call.bn * W, p, u, q, r))
      BY <2>1, <2>6, Zenon DEF n
    <3>3. CanRoundRaw(call.b, call.bn, call.neg, call.cb, call.rnd1, call.rnd2, p)
            <=> Enough(p, call.bn * W, call.cb, r, u)
      BY <2>1, <2>3, <3>1, <3>2
    <3> QED
      BY <3>3, Zenon DEF n
  <2>8. IsSignificand(call.b * S, N) /\ call.b * S \in Nat
    BY <2>1, <2>3, <2>4, Scaled DEF IsSignificand, N
  <2>9. PICK U \in Nat, Q \in Nat, R \in Nat : Cut(call.b * S, N, p, U, Q, R)
    BY <2>3, <2>8, CutExists
  <2>10. PICK E \in Nat : Power(E, N - call.cb)
    <3>1. N - call.cb \in Nat
      BY <2>3
    <3> QED
      BY <3>1, PowNat DEF Power
  <2>11. Clear(E, R, U) <=> Enough(p, n, call.cb, r, u)
    <3>1. p < n + k /\ call.cb <= n + k /\ Power(E, (n + k) - call.cb) /\ Cut(call.b * S, n + k, p, U, Q, R)
      BY <2>3, <2>9, <2>10 DEF N
    <3> QED
      BY <2>1, <2>3, <2>4, <2>6, <3>1, InsideIs
  <2>12. B = call.b * S /\ Error = E
    <3>1. n - call.cb + Slack + 1 = N - call.cb
      BY <2>1, <2>2, <2>3 DEF N, k
    <3>2. Error = 2^(N - call.cb)
      BY <3>1, Zenon DEF Error, n
    <3> QED
      BY <2>10, <3>2 DEF B, S, k, Power
  <2>13. Lower = B - Error /\ Upper = B + Error
    BY Ends
  <2>14. call.rnd2 # "RNDF"
    BY DEF TowardZero
  <2>15. CanBeRounded <=> Clear(E, R, U)
    <3>1. CanBeRounded <=> RoundTo(Lower, p, call.rnd2, call.neg) = RoundTo(Upper, p, call.rnd2, call.neg)
      BY <2>14 DEF CanBeRounded, SameRounding, Rounded
    <3>2. Lower = call.b * S - E /\ Upper = call.b * S + E
      BY <2>12, <2>13, Zenon
    <3>3. RoundAlike(call.b * S, E, p, call.rnd2, call.neg) <=> Clear(E, R, U)
      <4>1. ErrorIs(E, N, call.cb)
        BY <2>10 DEF ErrorIs
      <4> QED
        BY <2>1, <2>3, <2>8, <2>9, <4>1, SameEnds
    <3> QED
      BY <3>1, <3>2, <3>3, Zenon DEF RoundAlike
  <2> QED
    BY <2>5, <2>7, <2>11, <2>15
<1> QED
  BY <1>1, Answers, PTL

-----------------------------------------------------------------------------
(* The test of Ziv's loops *)

\* The direction ZivTestSound rounds in, and the precision mpfr_round_p is given.
ZivRnd == IF call.rnd2 = "RNDF" THEN "RNDZ" ELSE call.rnd2
ZivPrec == IF call.rnd2 = "RNDN" THEN call.prec + 1 ELSE call.prec

\* When MPFR_CAN_ROUND says yes, in Ziv's loops, all real numbers within the error that are
\* not breakpoints round alike, and mpfr_can_round_raw, in debug builds, agrees.
THEOREM ZivTestIsSound == Spec => []ZivTestSound
<1>1. AnswersInv => ZivTestSound
  <2> SUFFICES ASSUME AnswersInv, answer = "yes", call.test = "round_p"
               PROVE  /\ SameRounding(Lower + 1, Upper - 1, ZivRnd)
                      /\ CanRoundRaw(call.b, call.bn, FALSE, call.cb, "RNDN", "RNDZ", ZivPrec)
    BY DEF ZivTestSound, ZivRnd, ZivPrec
  <2> DEFINE n == call.bn * W
             k == Slack + 1
             N == n + k
             p == ZivPrec
             S == 2^k
  <2>1. /\ call.bn \in Nat /\ call.bn > 0 /\ n \in Nat /\ n > 0
        /\ n + Slack + 2 <= MaxBits
        /\ IsSignificand(call.b, n)
        /\ call.neg = FALSE /\ call.rnd1 = "RNDN" /\ call.rnd2 \in Rnds
        /\ call.cb \in 1..(n + Slack) /\ call.prec \in 1..(n + Slack)
    BY CallIs DEF AnswersInv
  <2>2. Slack \in Nat /\ MaxBits \in Nat
    BY CanRoundAssumption, RealRoundingAssumption
  <2>3. p \in Nat /\ p > 0 /\ call.prec \in Nat /\ call.prec > 0
    BY <2>1, <2>2 DEF ZivPrec
  <2>4. RoundP(call.b, call.bn, call.cb, p)
    BY DEF AnswersInv, Verdict, CanRound, ZivPrec
  <2>5. k \in Nat /\ N \in Nat /\ N \in 1..MaxBits /\ N < MaxBits
        /\ call.cb \in Nat /\ call.cb > 0 /\ call.cb <= N
    BY <2>1, <2>2
  <2>6. S \in Nat /\ Power(S, k)
    BY <2>5, PowNat DEF Power
  <2>7. n = call.bn * W
    OBVIOUS
  <2>8. call.b \in Nat
    BY <2>1 DEF IsSignificand
  <2> HIDE DEF n, k, N, S, p
  <2>9. PICK u \in Nat, q \in Nat, r \in Nat : p <= n => Cut(call.b, n, p, u, q, r)
    <3>1. CASE p <= n
      BY <2>1, <2>3, <2>8, <3>1, CutExistsUpTo
    <3>2. CASE p > n
      BY <2>1, <2>3, <3>2
    <3> QED
      BY <2>1, <2>3, <3>1, <3>2
  <2>10. p < n /\ Enough(p, n, call.cb, r, u)
    <3>1. ASSUME NEW b \in Nat, NEW bn \in Nat, NEW cb \in Nat, cb > 0, bn * W \in Nat, bn * W > 0,
                 RoundP(b, bn, cb, p), p <= bn * W => Cut(b, bn * W, p, u, q, r)
          PROVE  p < bn * W /\ Enough(p, bn * W, cb, r, u)
      <4>1. PICK m \in Nat : m = bn * W
        BY <3>1
      <4>2. m > 0 /\ (p <= m => Cut(b, m, p, u, q, r))
        BY <3>1, <4>1, Zenon
      <4>3. p < m /\ Enough(p, m, cb, r, u)
        BY <2>3, <3>1, <4>1, <4>2, RoundPEnough
      <4> QED
        BY <4>1, <4>3, Zenon
    <3>2. call.bn * W \in Nat /\ call.bn * W > 0 /\ (p <= call.bn * W => Cut(call.b, call.bn * W, p, u, q, r))
      BY <2>1, <2>7, <2>9, Zenon
    <3>3. p < call.bn * W /\ Enough(p, call.bn * W, call.cb, r, u)
      BY <2>1, <2>4, <2>5, <2>8, <3>1, <3>2
    <3> QED
      BY <2>7, <3>3, Zenon
  <2>11. CanRoundRaw(call.b, call.bn, FALSE, call.cb, "RNDN", "RNDZ", p)
    <3>1. ASSUME NEW b, NEW bn \in Nat, IsSignificand(b, bn * W), NEW neg \in BOOLEAN, NEW cb \in Nat,
                 NEW rnd1 \in {"RNDN", "RNDF"}, NEW rnd2, TowardZero(rnd2, neg), cb > 0,
                 p <= bn * W => Cut(b, bn * W, p, u, q, r)
          PROVE  CanRoundRaw(b, bn, neg, cb, rnd1, rnd2, p) <=> Enough(p, bn * W, cb, r, u)
      <4>1. PICK m \in Nat : m = bn * W
        BY RoundingAssumption
      <4>2. IsSignificand(b, m) /\ (p <= m => Cut(b, m, p, u, q, r))
        BY <3>1, <4>1, Zenon
      <4>3. CanRoundRaw(b, bn, neg, cb, rnd1, rnd2, p) <=> Enough(p, m, cb, r, u)
        BY <2>3, <3>1, <4>1, <4>2, NearTowardZero
      <4> QED
        BY <4>1, <4>3, Zenon
    <3>2. IsSignificand(call.b, call.bn * W) /\ (p <= call.bn * W => Cut(call.b, call.bn * W, p, u, q, r))
      BY <2>1, <2>7, <2>9, Zenon
    <3>3. PICK neg \in BOOLEAN : neg = FALSE
      OBVIOUS
    <3>4. TowardZero("RNDZ", neg)
      BY DEF TowardZero
    <3>5. CanRoundRaw(call.b, call.bn, neg, call.cb, "RNDN", "RNDZ", p)
            <=> Enough(p, call.bn * W, call.cb, r, u)
      BY <2>1, <2>5, <3>1, <3>2, <3>4
    <3> QED
      BY <2>7, <2>10, <3>3, <3>5, Zenon
  <2>12. IsSignificand(call.b * S, N) /\ call.b * S \in Nat
    BY <2>1, <2>5, <2>6, Scaled DEF IsSignificand, N
  <2>13. p < N /\ p + 1 \in Nat
    BY <2>1, <2>2, <2>3, <2>10 DEF N, k
  <2>14. PICK U \in Nat, Q \in Nat, R \in Nat : Cut(call.b * S, N, p, U, Q, R)
    BY <2>3, <2>5, <2>12, <2>13, CutExists
  <2>15. PICK E \in Nat : Power(E, N - call.cb) /\ E > 0
    <3>1. N - call.cb \in Nat
      BY <2>5
    <3> QED
      BY <3>1, PowNat DEF Power
  <2>16. Clear(E, R, U)
    <3>1. p < n + k /\ call.cb <= n + k /\ Power(E, (n + k) - call.cb) /\ Cut(call.b * S, n + k, p, U, Q, R)
      BY <2>5, <2>13, <2>14, <2>15 DEF N
    <3>2. Clear(E, R, U) <=> Enough(p, n, call.cb, r, u)
      BY <2>1, <2>3, <2>5, <2>6, <2>9, <3>1, InsideIs
    <3> QED
      BY <2>10, <3>2
  <2>17. B = call.b * S /\ Error = E
    <3>1. n - call.cb + Slack + 1 = N - call.cb
      BY <2>1, <2>2, <2>5 DEF N, k
    <3>2. Error = 2^(N - call.cb)
      BY <2>7, <3>1, Zenon DEF Error
    <3> QED
      BY <2>15, <3>2 DEF B, S, k, Power
  <2>18. InsideOf(call.b * S, 1 - E, Lower + 1) /\ InsideOf(call.b * S, E - 1, Upper - 1)
    <3>1. Lower = call.b * S - E /\ Upper = call.b * S + E
      <4>1. Lower = B - Error /\ Upper = B + Error
        BY <2>1, Ends
      <4> QED
        BY <2>17, <4>1, Zenon
    <3> QED
      BY <2>12, <3>1 DEF InsideOf
  <2>19. PICK d1 \in Int, d2 \in Int : /\ -E < d1 /\ d1 < E /\ InsideOf(call.b * S, d1, Lower + 1)
                                       /\ -E < d2 /\ d2 < E /\ InsideOf(call.b * S, d2, Upper - 1)
    <3>1. 1 - E \in Int /\ E - 1 \in Int /\ -E < 1 - E /\ 1 - E < E /\ -E < E - 1 /\ E - 1 < E
      BY <2>15
    <3> QED
      BY <2>18, <3>1
  <2>20. PICK lo, hi, C : lo = Lower + 1 /\ hi = Upper - 1 /\ C = call.b * S
    OBVIOUS
  <2>21. /\ C \in Nat /\ IsSignificand(C, N) /\ Cut(C, N, p, U, Q, R)
         /\ InsideOf(C, d1, lo) /\ InsideOf(C, d2, hi)
    BY <2>12, <2>14, <2>19, <2>20, Zenon
  <2>22. RoundTo(lo, call.prec, ZivRnd, call.neg) = RoundTo(hi, call.prec, ZivRnd, call.neg)
    <3>1. call.neg \in BOOLEAN
      BY <2>1
    <3>2. CASE call.rnd2 = "RNDN"
      <4>1. p = call.prec + 1 /\ ZivRnd = "RNDN"
        BY <3>2 DEF p, ZivPrec, ZivRnd
      <4>2. CutAfter(C, N, call.prec, U, Q, R)
        BY <2>13, <2>21, <4>1, Zenon DEF CutAfter
      <4>3. RoundTo(lo, call.prec, "RNDN", call.neg) = HalfUp(Q, U)
        BY <2>3, <2>5, <2>16, <2>19, <2>21, <3>1, <4>2, InteriorNearest
      <4>4. RoundTo(hi, call.prec, "RNDN", call.neg) = HalfUp(Q, U)
        BY <2>3, <2>5, <2>16, <2>19, <2>21, <3>1, <4>2, InteriorNearest
      <4> QED
        BY <4>1, <4>3, <4>4, Zenon
    <3>3. CASE call.rnd2 # "RNDN"
      <4>1. p = call.prec /\ ZivRnd \notin {"RNDN", "RNDNA"}
        BY <2>1, <3>3 DEF p, ZivPrec, ZivRnd, Rnds
      <4>2. RoundTo(lo, p, ZivRnd, call.neg) = (IF Outward(ZivRnd, call.neg) THEN Q + 1 ELSE Q) * U
        BY <2>3, <2>5, <2>13, <2>16, <2>19, <2>21, <3>1, <4>1, InteriorDirected
      <4>3. RoundTo(hi, p, ZivRnd, call.neg) = (IF Outward(ZivRnd, call.neg) THEN Q + 1 ELSE Q) * U
        BY <2>3, <2>5, <2>13, <2>16, <2>19, <2>21, <3>1, <4>1, InteriorDirected
      <4> QED
        BY <4>1, <4>2, <4>3, Zenon
    <3> QED
      BY <3>2, <3>3
  <2>23. SameRounding(Lower + 1, Upper - 1, ZivRnd)
    BY <2>20, <2>22, Zenon DEF SameRounding, Rounded
  <2> QED
    BY <2>11, <2>23 DEF p
<1> QED
  BY <1>1, Answers, PTL
=============================================================================
