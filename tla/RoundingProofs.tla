--------------------------- MODULE RoundingProofs ---------------------------
(****************************************************************************)
(* One rounding: mpfr_round_raw and mpfr_check_range deliver, for every     *)
(* precision, exponent range, real, sign and mode, what the definition of   *)
(* correct rounding asks for.                                               *)
(*                                                                          *)
(* The provers know nothing of 2^n for a variable n.  The library theorem   *)
(* FS_SUBSET says that 2^n is the number of subsets of a set of n elements: *)
(* the laws of the powers of two are drawn from it.  The induction theorems *)
(* of the library take an operator as a parameter; WFMin, a nonempty set has*)
(* a minimal element, does not: induction on the naturals is drawn from it. *)
(*                                                                          *)
(* Then: a number cut in the bits kept (a quotient q by the unit u) and the *)
(* bits dropped (a remainder r); what the rounding bit and the sticky bit   *)
(* tell of r; the length of a number; the significand and exponent that     *)
(* represent a value; and the two theorems, RndRawRight and CheckRangeRight.*)
(****************************************************************************)
EXTENDS Exceptions, RealRounding, FiniteSets, FiniteSetTheorems,
        WellFoundedInduction, TLAPS

-----------------------------------------------------------------------------
(* Induction *)

Less == {ss \in Nat \X Nat : ss[1] < ss[2]}

\* The order of the naturals is well founded, as a set of pairs.
LEMMA LessWellFounded == IsWellFoundedOn(Less, Nat)
<1>1. OpToRel(<, Nat) = Less
  BY Zenon DEF OpToRel, Less
<1> QED
  BY <1>1, NatLessThanWellFounded, Zenon

\* A nonempty set of naturals has a least element.
LEMMA LeastNatural ==
  ASSUME NEW T \in SUBSET Nat, T # {}
  PROVE  \E x \in T : \A y \in T : x <= y
<1>1. PICK x \in T : \A y \in T : <<y, x>> \notin Less
  BY LessWellFounded, WFMin
<1>2. ASSUME NEW y \in T PROVE x <= y
  <2>1. <<y, x>> \in Less \/ ~ (y < x)
    BY SMT DEF Less
  <2> QED
    BY <2>1, <1>1
<1> QED
  BY <1>2

\* Induction, for a set instead of a predicate.
LEMMA Induction ==
  ASSUME NEW T \in SUBSET Nat, 0 \in T, \A n \in T : n + 1 \in T
  PROVE  T = Nat
<1> SUFFICES ASSUME Nat \ T # {} PROVE FALSE
  OBVIOUS
<1>1. PICK x \in Nat \ T : \A y \in Nat \ T : x <= y
  BY LeastNatural
<1>2. x # 0 /\ x - 1 \in Nat
  OBVIOUS
<1>3. x - 1 \in T
  BY <1>1, <1>2
<1> QED
  BY <1>2, <1>3

-----------------------------------------------------------------------------
(* Powers of two *)

\* 2^n is the number of subsets of a set of n elements.
LEMMA PowIsCount ==
  ASSUME NEW n \in Nat
  PROVE  /\ IsFiniteSet(SUBSET (1..n))
         /\ Cardinality(SUBSET (1..n)) = 2^n
<1>1. IsFiniteSet(1..n) /\ Cardinality(1..n) = n
  BY FS_Interval
<1> QED
  BY <1>1, FS_SUBSET

\* The first power of two.
LEMMA PowZero == 2^0 = 1
  OBVIOUS

\* The union of two disjoint sets of the same size is twice as large.
LEMMA TwiceAsMany ==
  ASSUME NEW S, IsFiniteSet(S), NEW T, ExistsBijection(S, T), S \cap T = {}
  PROVE  Cardinality(S) \in Nat /\ Cardinality(S \cup T) = Cardinality(S) + Cardinality(S)
<1>1. IsFiniteSet(T) /\ Cardinality(T) = Cardinality(S)
  BY FS_Bijection
<1>2. Cardinality(S \cup T) = Cardinality(S) + Cardinality(T) - Cardinality(S \cap T)
  BY <1>1, FS_Union
<1>3. Cardinality(S \cap T) = 0
  BY FS_EmptySet
<1>4. Cardinality(S) \in Nat
  BY FS_CardinalityType
<1> QED
  BY <1>1, <1>2, <1>3, <1>4

\* One element more, twice as many subsets.
LEMMA PowSuccCount ==
  ASSUME NEW n \in Nat
  PROVE  /\ 2^n \in Nat
         /\ 2^(n + 1) = 2^n + 2^n
<1> DEFINE S == SUBSET (1..n)
           With == {s \cup {n + 1} : s \in S}
           f == [s \in S |-> s \cup {n + 1}]
<1>1. IsFiniteSet(S) /\ Cardinality(S) = 2^n
  BY PowIsCount
<1>2. f \in Bijection(S, With)
  <2>1. f \in [S -> With]
    OBVIOUS
  <2>2. \A s, t \in S : f[s] = f[t] => s = t
    <3> SUFFICES ASSUME NEW s \in S, NEW t \in S, f[s] = f[t] PROVE s = t
      OBVIOUS
    <3>1. s \cup {n + 1} = t \cup {n + 1}
      OBVIOUS
    <3>2. n + 1 \notin s /\ n + 1 \notin t
      OBVIOUS
    <3> QED
      BY <3>1, <3>2
  <2>3. \A w \in With : \E s \in S : f[s] = w
    OBVIOUS
  <2> QED
    BY <2>1, <2>2, <2>3 DEF Bijection, Injection, Surjection, IsInjective
<1>3. ExistsBijection(S, With)
  BY <1>2 DEF ExistsBijection
<1>4. S \cap With = {}
  <2> SUFFICES ASSUME NEW s \in S, s \in With PROVE FALSE
    OBVIOUS
  <2>1. n + 1 \in s
    OBVIOUS
  <2> QED
    BY <2>1
<1>5. SUBSET (1..(n + 1)) = S \cup With
  <2>1. ASSUME NEW s \in SUBSET (1..(n + 1)) PROVE s \in S \cup With
    <3>1. CASE n + 1 \in s
      <4>1. s \ {n + 1} \in S
        OBVIOUS
      <4>2. s = (s \ {n + 1}) \cup {n + 1}
        BY <3>1
      <4> QED
        BY <4>1, <4>2
    <3>2. CASE n + 1 \notin s
      BY <3>2
    <3> QED
      BY <3>1, <3>2
  <2>2. ASSUME NEW s \in S \cup With PROVE s \in SUBSET (1..(n + 1))
    OBVIOUS
  <2> QED
    BY <2>1, <2>2
<1>6. Cardinality(SUBSET (1..(n + 1))) = 2^(n + 1)
  BY PowIsCount
<1> HIDE DEF S, With, f
<1>7. Cardinality(S) \in Nat /\ Cardinality(S \cup With) = Cardinality(S) + Cardinality(S)
  BY <1>1, <1>3, <1>4, TwiceAsMany
<1> QED
  BY <1>1, <1>5, <1>6, <1>7

\* The laws every proof uses.
LEMMA PowSucc ==
  ASSUME NEW n \in Nat
  PROVE  2^(n + 1) = 2 * 2^n
<1>1. 2^n \in Nat /\ 2^(n + 1) = 2^n + 2^n
  BY PowSuccCount
<1> QED
  BY <1>1

\* The powers of two are positive naturals.
LEMMA PowNat ==
  ASSUME NEW n \in Nat
  PROVE  2^n \in Nat /\ 2^n > 0
<1> DEFINE T == {k \in Nat : 2^k > 0}
<1>1. 2^n \in Nat
  BY PowSuccCount
<1>2. T = Nat
  <2>1. T \in SUBSET Nat
    OBVIOUS
  <2>2. 0 \in T
    OBVIOUS
  <2>3. ASSUME NEW k \in T PROVE k + 1 \in T
    <3>1. 2^k \in Nat /\ 2^(k + 1) = 2^k + 2^k
      BY PowSuccCount
    <3> QED
      BY <3>1
  <2> HIDE DEF T
  <2> QED
    BY <2>1, <2>2, <2>3, Induction
<1> QED
  BY <1>1, <1>2

\* The power of a sum.
LEMMA PowAdd ==
  ASSUME NEW m \in Nat, NEW n \in Nat
  PROVE  2^(m + n) = 2^m * 2^n
<1> DEFINE T == {k \in Nat : 2^(m + k) = 2^m * 2^k}
<1>1. T = Nat
  <2>1. T \in SUBSET Nat
    OBVIOUS
  <2>2. 0 \in T
    BY PowNat
  <2>3. ASSUME NEW k \in T PROVE k + 1 \in T
    <3>1. 2^k \in Nat /\ 2^m \in Nat /\ 2^(m + k) \in Nat
      BY PowNat
    <3>2. 2^(k + 1) = 2 * 2^k /\ 2^((m + k) + 1) = 2 * 2^(m + k)
      BY PowSucc
    <3>3. 2^(m + k) = 2^m * 2^k
      OBVIOUS
    <3>4. 2^((m + k) + 1) = 2^m * 2^(k + 1)
      BY <3>1, <3>2, <3>3
    <3>5. (m + k) + 1 = m + (k + 1)
      OBVIOUS
    <3> QED
      BY <3>4, <3>5
  <2> HIDE DEF T
  <2> QED
    BY <2>1, <2>2, <2>3, Induction
<1> QED
  BY <1>1

\* 2^n split at m, the form in which a significand is cut.
LEMMA PowSplit ==
  ASSUME NEW m \in Nat, NEW n \in Nat, m <= n
  PROVE  n - m \in Nat /\ 2^n = 2^(n - m) * 2^m
<1>1. n - m \in Nat /\ n = (n - m) + m
  OBVIOUS
<1> QED
  BY <1>1, PowAdd

\* A power of two that is not 1 is even.
LEMMA PowHalf ==
  ASSUME NEW n \in Nat, n # 0
  PROVE  n - 1 \in Nat /\ 2^n = 2 * 2^(n - 1)
<1>1. n - 1 \in Nat /\ n = (n - 1) + 1
  OBVIOUS
<1> QED
  BY <1>1, PowSucc

\* The powers of two grow.
LEMMA PowMonotone ==
  ASSUME NEW m \in Nat, NEW n \in Nat, m <= n
  PROVE  2^m <= 2^n
<1>1. n - m \in Nat /\ 2^n = 2^(n - m) * 2^m
  BY PowSplit
<1>2. 2^(n - m) \in Nat /\ 2^(n - m) >= 1 /\ 2^m \in Nat
  BY <1>1, PowNat
<1> QED
  BY <1>1, <1>2

\* They at least double from one exponent to the next.
LEMMA PowStrict ==
  ASSUME NEW m \in Nat, NEW n \in Nat, m < n
  PROVE  2 * 2^m <= 2^n /\ 2^m < 2^n
<1>1. 2^(m + 1) <= 2^n
  BY PowMonotone
<1>2. 2^(m + 1) = 2 * 2^m /\ 2^m \in Nat /\ 2^m > 0 /\ 2^n \in Nat
  BY PowSucc, PowNat
<1> QED
  BY <1>1, <1>2

-----------------------------------------------------------------------------
(* Quotients, remainders, bits *)

\* A quotient and a remainder are the results of \div and %.
LEMMA DivModUnique ==
  ASSUME NEW X \in Int, NEW u \in Nat, u > 0, NEW q \in Int, NEW r \in Nat, r < u, X = q * u + r
  PROVE  X \div u = q /\ X % u = r
  OBVIOUS

\* There is a quotient and a remainder.
LEMMA DivModExists ==
  ASSUME NEW X \in Nat, NEW u \in Nat, u > 0
  PROVE  /\ X \div u \in Nat /\ X % u \in Nat /\ X % u < u
         /\ X = (X \div u) * u + (X % u)
  OBVIOUS

\* Multiplying by a natural keeps the order.
LEMMA MulMono ==
  ASSUME NEW a \in Int, NEW b \in Int, NEW v \in Nat, a <= b
  PROVE  a * v <= b * v
  OBVIOUS

\* A positive factor can be cancelled.
LEMMA MulCancel ==
  ASSUME NEW a \in Int, NEW b \in Int, NEW v \in Nat, v > 0
  PROVE  /\ a * v < b * v => a < b
         /\ a * v <= b * v => a <= b
         /\ a * v = b * v => a = b
  OBVIOUS

-----------------------------------------------------------------------------
GoesUp(q, r, u, rnd, neg) ==
  /\ r # 0
  /\ CASE rnd = "RNDN"  -> 2 * r > u \/ (2 * r = u /\ q % 2 = 1)
       [] rnd = "RNDNA" -> 2 * r >= u
       [] OTHER -> rnd = "RNDA" \/ rnd = (IF neg THEN "RNDD" ELSE "RNDU")

\* RoundToMultiple keeps the quotient or adds one to it.
LEMMA RoundToMultipleIs ==
  ASSUME NEW u \in Nat, u > 0, NEW q \in Nat, NEW r \in Nat, r < u,
         NEW rnd, NEW neg \in BOOLEAN
  PROVE  RoundToMultiple(q * u + r, u, rnd, neg)
           = (IF GoesUp(q, r, u, rnd, neg) THEN q + 1 ELSE q) * u
<1> DEFINE X == q * u + r
<1>1. X % u = r /\ X \div u = q
  BY DivModUnique
<1>2. X - (X % u) = q * u /\ q * u + u = (q + 1) * u
  BY <1>1
<1>3. (q * u) \div u = q
  BY DivModUnique
<1>4. X - q * u = r /\ (q + 1) * u - X = u - r
  OBVIOUS
<1>5. X \in Int /\ q * u \in Int /\ (q + 1) * u \in Int /\ (q * u # X <=> r # 0)
  OBVIOUS
<1> DEFINE lo == q * u
           hi == (q + 1) * u
<1>6. RoundToMultiple(X, u, rnd, neg) =
        CASE lo = X -> X
          [] lo # X /\ rnd \in {"RNDN", "RNDNA"} ->
               IF X - lo # hi - X THEN (IF X - lo < hi - X THEN lo ELSE hi)
               ELSE IF rnd = "RNDNA" \/ q % 2 = 1 THEN hi ELSE lo
          [] OTHER -> IF rnd = "RNDA" \/ rnd = (IF neg THEN "RNDD" ELSE "RNDU") THEN hi ELSE lo
  BY <1>1, <1>2, <1>3 DEF RoundToMultiple
<1> HIDE DEF X, lo, hi
<1>7. CASE r = 0
  BY <1>5, <1>6, <1>7 DEF GoesUp, lo, X
<1>8. CASE r # 0 /\ rnd \in {"RNDN", "RNDNA"}
  <2>1. X - lo # hi - X <=> 2 * r # u
    BY <1>4 DEF lo, hi
  <2>2. X - lo < hi - X <=> 2 * r < u
    BY <1>4 DEF lo, hi
  <2> QED
    BY <1>5, <1>6, <1>8, <2>1, <2>2 DEF GoesUp, lo, hi, X
<1>9. CASE r # 0 /\ rnd \notin {"RNDN", "RNDNA"}
  BY <1>5, <1>6, <1>9 DEF GoesUp, lo, hi, X
<1> QED
  BY <1>7, <1>8, <1>9

\* X is r more than q times u.
IsQuotient(X, u, q, r) == u > 0 /\ r < u /\ X = q * u + r

\* The same, of a number known by its quotient and remainder.
LEMMA QuotientRounds ==
  ASSUME NEW X \in Nat, NEW u \in Nat, NEW q \in Nat, NEW r \in Nat, IsQuotient(X, u, q, r),
         NEW rnd, NEW neg \in BOOLEAN
  PROVE  RoundToMultiple(X, u, rnd, neg) = (IF GoesUp(q, r, u, rnd, neg) THEN q + 1 ELSE q) * u
<1>1. u > 0 /\ r < u
  BY DEF IsQuotient
<1>2. X = q * u + r
  BY DEF IsQuotient
<1>3. RoundToMultiple(q * u + r, u, rnd, neg)
        = (IF GoesUp(q, r, u, rnd, neg) THEN q + 1 ELSE q) * u
  BY <1>1, RoundToMultipleIs
<1> QED
  BY <1>2, <1>3

\* Every natural has a quotient and a remainder by u.
LEMMA QuotientExists ==
  ASSUME NEW X \in Nat, NEW u \in Nat, u > 0
  PROVE  \E q \in Nat, r \in Nat : IsQuotient(X, u, q, r)
BY DivModExists DEF IsQuotient

\* What is smaller than the unit rounds to zero or to the unit.
LEMMA BelowUnitRounds ==
  ASSUME NEW X \in Nat, NEW u \in Nat, X < u, NEW rnd, NEW neg \in BOOLEAN
  PROVE  RoundToMultiple(X, u, rnd, neg) = IF GoesUp(0, X, u, rnd, neg) THEN u ELSE 0
<1>1. IsQuotient(X, u, 0, X)
  BY DEF IsQuotient
<1>2. RoundToMultiple(X, u, rnd, neg) = (IF GoesUp(0, X, u, rnd, neg) THEN 0 + 1 ELSE 0) * u
  BY <1>1, QuotientRounds
<1>3. CASE GoesUp(0, X, u, rnd, neg)
  BY <1>2, <1>3
<1>4. CASE ~ GoesUp(0, X, u, rnd, neg)
  BY <1>2, <1>4
<1> QED
  BY <1>3, <1>4

-----------------------------------------------------------------------------
(* The bits MPFR_RNDRAW_GEN looks at: u is one unit in the last place kept, *)
(* h half of it.                                                            *)

\* The top bit of a remainder, and the bits under it.
LEMMA HalfRemainder ==
  ASSUME NEW m \in Nat, NEW h \in Nat, h > 0
  PROVE  /\ (m % (2 * h)) \div h = 1 <=> 2 * (m % (2 * h)) >= 2 * h
         /\ m % h # 0 <=> (m % (2 * h) # 0 /\ m % (2 * h) # h)
<1> DEFINE q == m \div (2 * h)
           r == m % (2 * h)
<1>1. q \in Nat /\ r \in Nat /\ r < 2 * h /\ m = q * (2 * h) + r
  <2>1. 2 * h \in Nat /\ 2 * h > 0
    OBVIOUS
  <2> HIDE DEF q, r
  <2> QED
    BY <2>1, DivModExists DEF q, r
<1>2. CASE r < h
  <2> HIDE DEF q, r
  <2>1. r = 0 * h + r /\ 2 * q \in Int /\ m = (2 * q) * h + r
    BY <1>1
  <2>2. r \div h = 0
    BY <1>1, <1>2, <2>1, DivModUnique
  <2>3. m % h = r
    BY <1>1, <1>2, <2>1, DivModUnique
  <2> QED
    BY <1>1, <1>2, <2>2, <2>3 DEF r
<1>3. CASE r >= h
  <2> HIDE DEF q, r
  <2> DEFINE k == 2 * q + 1
             s == r - h
  <2>1. r = 1 * h + s /\ k \in Int /\ m = k * h + s /\ s \in Nat /\ s < h
    BY <1>1, <1>3
  <2> HIDE DEF k, s
  <2>2. r \div h = 1
    BY <1>1, <1>3, <2>1, DivModUnique
  <2>3. m % h = s
    BY <2>1, DivModUnique
  <2> QED
    BY <1>1, <1>3, <2>2, <2>3 DEF r, s
<1> QED
  BY <1>1, <1>2, <1>3

\* The rounding bit tells the bits dropped that make half an ulp or more from the others.
LEMMA RoundBitIs ==
  ASSUME NEW m \in Nat, NEW sp \in Nat, NEW dp \in Nat, dp < sp
  PROVE  RoundBit(m, sp, dp) <=> 2 * (m % 2^(sp - dp)) >= 2^(sp - dp)
<1>1. sp - dp \in Nat /\ sp - dp # 0 /\ sp - dp = (sp - dp - 1) + 1
  OBVIOUS
<1>2. sp - dp - 1 \in Nat /\ 2^(sp - dp) = 2 * 2^(sp - dp - 1)
  BY <1>1, PowHalf
<1>3. 2^(sp - dp - 1) \in Nat /\ 2^(sp - dp - 1) > 0
  BY <1>2, PowNat
<1>4. RoundBit(m, sp, dp) <=> (m % 2^(sp - dp)) \div 2^(sp - dp - 1) = 1
  BY <1>1 DEF RoundBit, Bit, Bits
<1> HIDE DEF RoundBit
<1>5. ASSUME NEW h \in Nat, h > 0, NEW u, u = 2 * h
      PROVE  (m % u) \div h = 1 <=> 2 * (m % u) >= u
  BY <1>5, HalfRemainder
<1> QED
  BY <1>2, <1>3, <1>4, <1>5

\* What lies below the rounding bit.
LEMMA StickyIs ==
  ASSUME NEW m \in Nat, NEW sp \in Nat, NEW dp \in Nat, dp < sp
  PROVE  m % 2^(sp - dp - 1) # 0
           <=> (m % 2^(sp - dp) # 0 /\ 2 * (m % 2^(sp - dp)) # 2^(sp - dp))
<1>1. sp - dp \in Nat /\ sp - dp # 0
  OBVIOUS
<1>2. sp - dp - 1 \in Nat /\ 2^(sp - dp) = 2 * 2^(sp - dp - 1)
  BY <1>1, PowHalf
<1>3. 2^(sp - dp - 1) \in Nat /\ 2^(sp - dp - 1) > 0
  BY <1>2, PowNat
<1>4. 2 * 2^(sp - dp - 1) \in Nat /\ 2 * 2^(sp - dp - 1) > 0
  BY <1>3
<1>5. m % 2^(sp - dp) \in Nat
  BY <1>2, <1>4, DivModExists
<1>6. ASSUME NEW h \in Nat, h > 0, NEW u, u = 2 * h, m % u \in Nat
      PROVE  m % h # 0 <=> (m % u # 0 /\ 2 * (m % u) # u)
  <2>1. m % h # 0 <=> (m % (2 * h) # 0 /\ m % (2 * h) # h)
    BY <1>6, HalfRemainder
  <2> QED
    BY <1>6, <2>1
<1> QED
  BY <1>2, <1>3, <1>5, <1>6

\* The scan may stop early, but only where its answer no longer matters.
LEMMA StickyBitIs ==
  ASSUME NEW m \in Nat, NEW sp \in Nat, NEW dp \in Nat, dp < sp, NEW rnd
  PROVE  /\ StickyBit(m, sp, dp, rnd) \in BOOLEAN
         /\ (rnd = "RNDN" \/ ~ RoundBit(m, sp, dp)) =>
              (StickyBit(m, sp, dp, rnd) <=> m % 2^(sp - dp - 1) # 0)
<1>1. StickyBit(m, sp, dp, rnd) \in BOOLEAN
  BY DEF StickyBit
<1>2. ASSUME rnd = "RNDN" \/ ~ RoundBit(m, sp, dp)
      PROVE  StickyBit(m, sp, dp, rnd) <=> m % 2^(sp - dp - 1) # 0
  <2>1. StickyBit(m, sp, dp, rnd) <=> Bits(m, 0, sp - dp - 1) # 0
    BY <1>2 DEF StickyBit
  <2>2. sp - dp - 1 \in Nat
    OBVIOUS
  <2>3. 2^(sp - dp - 1) \in Nat /\ 2^(sp - dp - 1) > 0
    BY <2>2, PowNat
  <2>4. m % 2^(sp - dp - 1) \in Nat
    BY <2>3, DivModExists
  <2>5. ASSUME NEW r \in Nat PROVE r \div 2^0 = r
    <3>1. 2^0 = 1 /\ r = r * 1 + 0
      BY PowZero
    <3> QED
      BY <3>1, DivModUnique
  <2> QED
    BY <2>1, <2>4, <2>5 DEF Bits
<1> QED
  BY <1>1, <1>2

-----------------------------------------------------------------------------
(* MPFR_RNDRAW_GEN computes the rounding of the definition *)

\* The decision of the definition, with its ternary value.
Step(q, r, u, rnd, neg) ==
  IF r = 0 THEN TruncDoit
  ELSE IF GoesUp(q, r, u, rnd, neg) THEN AddOneUlp ELSE Decision(FALSE, -1)

\* The decision, case by case, from the two bits.
LEMMA DecisionFromBits ==
  ASSUME NEW rb \in BOOLEAN, NEW sb \in BOOLEAN, NEW odd, NEW rnd \in Rnds,
         NEW neg \in BOOLEAN, NEW middle
  PROVE  LET d == RndRawDecision(rb, sb, odd, rnd, neg, middle) IN
         /\ rnd = "RNDF" => d = TruncDoit
         /\ rnd = "RNDN" /\ rb /\ ~ sb => d = middle[odd]
         /\ rnd = "RNDN" /\ rb /\ sb => d = AddOneUlp
         /\ rnd = "RNDN" /\ ~ rb => d = Trunc(rb, sb)
         /\ rnd \notin {"RNDF", "RNDN"} /\ IsLikeRNDZ(rnd, neg) => d = Trunc(rb, sb)
         /\ rnd \notin {"RNDF", "RNDN"} /\ ~ IsLikeRNDZ(rnd, neg) =>
              d = IF rb \/ sb THEN AddOneUlp ELSE TruncDoit
<1> DEFINE d == RndRawDecision(rb, sb, odd, rnd, neg, middle)
<1>1. rnd = "RNDF" => d = TruncDoit
  BY DEF RndRawDecision, IsLikeRNDZ
<1>2. rnd = "RNDN" => d = IF ~ rb THEN Trunc(rb, sb)
                          ELSE IF ~ sb THEN middle[odd] ELSE AddOneUlp
  BY DEF RndRawDecision, IsLikeRNDZ
<1>3. rnd \notin {"RNDF", "RNDN"} /\ IsLikeRNDZ(rnd, neg) => d = Trunc(rb, sb)
  BY DEF RndRawDecision, IsLikeRNDZ
<1>4. rnd \notin {"RNDF", "RNDN"} /\ ~ IsLikeRNDZ(rnd, neg) =>
         d = IF rb \/ sb THEN AddOneUlp ELSE TruncDoit
  BY DEF RndRawDecision, IsLikeRNDZ
<1> HIDE DEF d
<1> QED
  BY <1>1, <1>2, <1>3, <1>4 DEF d

\* m of sp bits cut at dp bits: q is kept, r is what is left, u its weight.
Cut(m, sp, dp, u, q, r) ==
  /\ u = 2^(sp - dp)
  /\ u > 0 /\ r < u
  /\ m = q * u + r

\* Every significand can be cut in the bits kept and the bits dropped.
LEMMA CutExistsUpTo ==
  ASSUME NEW m \in Nat, NEW sp \in Nat, NEW dp \in Nat, dp <= sp
  PROVE  \E u \in Nat, q \in Nat, r \in Nat : Cut(m, sp, dp, u, q, r)
<1> DEFINE u == 2^(sp - dp)
<1>1. sp - dp \in Nat
  OBVIOUS
<1>2. u \in Nat /\ u > 0
  BY <1>1, PowNat
<1> HIDE DEF u
<1>3. m \div u \in Nat /\ m % u \in Nat /\ m % u < u /\ m = (m \div u) * u + (m % u)
  BY <1>2, DivModExists
<1>4. Cut(m, sp, dp, u, m \div u, m % u)
  BY <1>2, <1>3 DEF Cut, u
<1> QED
  BY <1>2, <1>3, <1>4

\* The same, when some bits are dropped.
LEMMA CutExists ==
  ASSUME NEW m \in Nat, NEW sp \in Nat, NEW dp \in Nat, dp < sp
  PROVE  \E u \in Nat, q \in Nat, r \in Nat : Cut(m, sp, dp, u, q, r)
<1>1. dp <= sp
  OBVIOUS
<1> QED
  BY <1>1, CutExistsUpTo

\* mpfr_rndraw decides from two bits what the definition decides from the distances.
LEMMA RndRawDecisionIs ==
  ASSUME NEW m \in Nat, NEW sp \in Nat, NEW dp \in Nat, dp < sp,
         NEW u \in Nat, NEW q \in Nat, NEW r \in Nat, Cut(m, sp, dp, u, q, r),
         NEW rnd \in Rnds, NEW neg \in BOOLEAN, NEW middle, NEW odd
  PROVE  LET d == RndRawDecision(RoundBit(m, sp, dp), StickyBit(m, sp, dp, rnd), odd, rnd,
                                 neg, middle)
         IN /\ rnd = "RNDF" => d = TruncDoit
            /\ rnd = "RNDN" /\ 2 * r = u => d = middle[odd]
            /\ rnd # "RNDF" /\ ~ (rnd = "RNDN" /\ 2 * r = u) => d = Step(q, r, u, rnd, neg)
<1> DEFINE rb == RoundBit(m, sp, dp)
           sb == StickyBit(m, sp, dp, rnd)
           d == RndRawDecision(rb, sb, odd, rnd, neg, middle)
<1>1. u = 2^(sp - dp) /\ m % u = r
  BY DivModUnique DEF Cut
<1>2. u > 0 /\ r < u
  BY DEF Cut
<1>4. rb \in BOOLEAN /\ sb \in BOOLEAN
  BY StickyBitIs DEF RoundBit
<1>5. rb <=> 2 * r >= u
  <2>1. rb <=> 2 * (m % 2^(sp - dp)) >= 2^(sp - dp)
    BY RoundBitIs
  <2> QED
    BY <1>1, <2>1
<1>6. (rnd = "RNDN" \/ ~ rb) => (sb <=> r # 0 /\ 2 * r # u)
  <2>1. m % 2^(sp - dp - 1) # 0
           <=> (m % 2^(sp - dp) # 0 /\ 2 * (m % 2^(sp - dp)) # 2^(sp - dp))
    BY StickyIs
  <2>2. m % 2^(sp - dp - 1) # 0 <=> r # 0 /\ 2 * r # u
    BY <1>1, <2>1
  <2> QED
    BY <2>2, StickyBitIs
<1> HIDE DEF rb, sb
<1>7. (rnd # "RNDN") => ((rb \/ sb) <=> r # 0)
  BY <1>2, <1>5, <1>6
<1>8. rnd \notin {"RNDF", "RNDN"} =>
        (GoesUp(q, r, u, rnd, neg) <=> r # 0 /\ ~ IsLikeRNDZ(rnd, neg))
  BY DEF GoesUp, IsLikeRNDZ, Rnds
<1>9. rnd = "RNDN" /\ 2 * r # u => (GoesUp(q, r, u, rnd, neg) <=> 2 * r > u)
  BY <1>2 DEF GoesUp
<1>10. /\ rnd = "RNDF" => d = TruncDoit
       /\ rnd = "RNDN" /\ rb /\ ~ sb => d = middle[odd]
       /\ rnd = "RNDN" /\ rb /\ sb => d = AddOneUlp
       /\ rnd = "RNDN" /\ ~ rb => d = Trunc(rb, sb)
       /\ rnd \notin {"RNDF", "RNDN"} /\ IsLikeRNDZ(rnd, neg) => d = Trunc(rb, sb)
       /\ rnd \notin {"RNDF", "RNDN"} /\ ~ IsLikeRNDZ(rnd, neg) =>
            d = IF rb \/ sb THEN AddOneUlp ELSE TruncDoit
  BY <1>4, DecisionFromBits
<1> HIDE DEF d
<1>11. rnd = "RNDN" /\ 2 * r = u => d = middle[odd]
  BY <1>2, <1>5, <1>6, <1>10
<1>12. ASSUME rnd = "RNDN", 2 * r # u PROVE d = Step(q, r, u, rnd, neg)
  <2>1. CASE rb
    <3>1. d = AddOneUlp /\ GoesUp(q, r, u, rnd, neg) /\ r # 0
      BY <1>2, <1>5, <1>6, <1>9, <1>10, <1>12, <2>1
    <3> QED
      BY <3>1 DEF Step
  <2>2. CASE ~ rb
    <3>1. d = Trunc(rb, sb) /\ ~ GoesUp(q, r, u, rnd, neg) /\ ((rb \/ sb) <=> r # 0)
      BY <1>2, <1>5, <1>6, <1>9, <1>10, <1>12, <2>2
    <3> QED
      BY <1>4, <3>1 DEF Step, Trunc, TruncDoit
  <2> QED
    BY <1>4, <2>1, <2>2
<1>13. ASSUME rnd \notin {"RNDF", "RNDN"} PROVE d = Step(q, r, u, rnd, neg)
  BY <1>4, <1>7, <1>8, <1>10, <1>13 DEF Step, Trunc, TruncDoit
<1> QED
  BY <1>10, <1>11, <1>12, <1>13 DEF d, rb, sb

\* A significand of n bits.
IsSignificand(m, n) == m \in Nat /\ 2^(n - 1) <= m /\ m < 2^n

\* Adding an ulp to a significand, with the carry to the next binade.
LEMMA SignificandIs ==
  ASSUME NEW p \in Nat, p > 0, NEW q, IsSignificand(q, p), NEW d, d.up \in BOOLEAN
  PROVE  LET s == Significand(q, p, d) IN
         /\ IsSignificand(s.mant, p)
         /\ s.carry \in {0, 1}
         /\ s.dir = d.dir
         /\ s.carry = 0 => s.mant = IF d.up THEN q + 1 ELSE q
         /\ s.carry = 1 => d.up /\ q + 1 = 2^p /\ s.mant = 2^(p - 1)
<1>1. p - 1 \in Nat /\ 2^p = 2 * 2^(p - 1) /\ 2^(p - 1) \in Nat /\ 2^(p - 1) > 0
  BY PowHalf, PowNat
<1> DEFINE t == IF d.up THEN q + 1 ELSE q
<1>2. t \in Nat /\ 2^(p - 1) <= t /\ t <= 2^p /\ q < 2^p
  BY <1>1 DEF IsSignificand
<1>3. CASE t = 2^p
  <2>1. Significand(q, p, d) = [mant |-> 2^(p-1), carry |-> 1, dir |-> d.dir]
    BY <1>3 DEF Significand
  <2>2. d.up /\ q + 1 = 2^p
    BY <1>2, <1>3
  <2> QED
    BY <1>1, <2>1, <2>2 DEF IsSignificand
<1>4. CASE t # 2^p
  <2>1. Significand(q, p, d) = [mant |-> t, carry |-> 0, dir |-> d.dir]
    BY <1>4 DEF Significand
  <2> HIDE DEF t
  <2>2. t < 2^p
    BY <1>1, <1>2, <1>4
  <2> QED
    BY <1>1, <1>2, <2>1, <2>2 DEF IsSignificand, t
<1> QED
  BY <1>3, <1>4

\* The bits kept of a significand are a significand.
LEMMA CutIs ==
  ASSUME NEW sp \in Nat, NEW dp \in Nat, 0 < dp, dp <= sp,
         NEW m \in Nat, IsSignificand(m, sp),
         NEW u \in Nat, NEW q \in Nat, NEW r \in Nat, Cut(m, sp, dp, u, q, r)
  PROVE  IsSignificand(q, dp) /\ 2^sp = 2^dp * u
<1>1. sp - dp \in Nat /\ sp - 1 \in Nat /\ dp - 1 \in Nat /\ sp - dp <= sp - 1
      /\ sp - (sp - dp) = dp /\ (sp - 1) - (sp - dp) = dp - 1 /\ sp - dp <= sp
  OBVIOUS
<1>2. u = 2^(sp - dp) /\ u > 0 /\ r < u /\ m = q * u + r
  BY DEF Cut
<1>3. 2^dp \in Nat /\ 2^(dp - 1) \in Nat
  BY <1>1, PowNat
<1>4. 2^sp = 2^dp * u /\ 2^(sp - 1) = 2^(dp - 1) * u
  <2>1. 2^sp = 2^(sp - (sp - dp)) * 2^(sp - dp)
    BY <1>1, PowSplit
  <2>2. 2^(sp - 1) = 2^((sp - 1) - (sp - dp)) * 2^(sp - dp)
    BY <1>1, PowSplit
  <2> QED
    BY <1>1, <1>2, <2>1, <2>2
<1>5. 2^(sp - 1) <= m /\ m < 2^sp
  BY DEF IsSignificand
<1>6. q * u < 2^dp * u /\ 2^(dp - 1) * u < (q + 1) * u
  BY <1>2, <1>3, <1>4, <1>5
<1>7. q < 2^dp /\ 2^(dp - 1) < q + 1
  BY <1>2, <1>3, <1>6, MulCancel
<1> QED
  BY <1>3, <1>4, <1>7 DEF IsSignificand

\* MPFR_RNDRAW_GEN to fewer bits: the truncation, then the decision.
LEMMA RndRawGenIs ==
  ASSUME NEW sp \in Nat, NEW dp \in Nat, 0 < dp, dp < sp,
         NEW m \in Nat, IsSignificand(m, sp),
         NEW u \in Nat, NEW q \in Nat, NEW r \in Nat, Cut(m, sp, dp, u, q, r),
         NEW rnd \in Rnds, NEW neg \in BOOLEAN, NEW middle
  PROVE  LET s == RndRawGen(m, sp, dp, rnd, neg, middle) IN
         /\ rnd = "RNDF" => s = Significand(q, dp, TruncDoit)
         /\ rnd = "RNDN" /\ 2 * r = u => s = Significand(q, dp, middle[q % 2 = 1])
         /\ rnd # "RNDF" /\ ~ (rnd = "RNDN" /\ 2 * r = u) =>
              s = Significand(q, dp, Step(q, r, u, rnd, neg))
<1>1. m \div 2^(sp - dp) = q
  BY DivModUnique DEF Cut
<1> DEFINE odd == (q % 2 = 1)
           d == RndRawDecision(RoundBit(m, sp, dp), StickyBit(m, sp, dp, rnd), odd, rnd, neg, middle)
<1>2. RndRawGen(m, sp, dp, rnd, neg, middle) = Significand(q, dp, d)
  <2>1. ~ (dp >= sp)
    OBVIOUS
  <2> QED
    BY <1>1, <2>1, Zenon DEF RndRawGen
<1>3. /\ rnd = "RNDF" => d = TruncDoit
      /\ rnd = "RNDN" /\ 2 * r = u => d = middle[odd]
      /\ rnd # "RNDF" /\ ~ (rnd = "RNDN" /\ 2 * r = u) => d = Step(q, r, u, rnd, neg)
  BY RndRawDecisionIs
<1> HIDE DEF d
<1> QED
  BY <1>2, <1>3

-----------------------------------------------------------------------------
(* Lengths in bits *)

\* A positive integer of n bits.
HasLength(X, n) == X \in Nat /\ n \in Nat \ {0} /\ 2^(n - 1) <= X /\ X < 2^n

\* A number has one length.
LEMMA LengthUnique ==
  ASSUME NEW X, NEW m, NEW n, HasLength(X, m), HasLength(X, n)
  PROVE  m = n
<1>1. ASSUME NEW a, NEW b, HasLength(X, a), HasLength(X, b), a < b PROVE FALSE
  <2>1. a \in Nat /\ b - 1 \in Nat /\ a <= b - 1 /\ X \in Nat /\ X < 2^a /\ 2^(b - 1) <= X
    BY <1>1 DEF HasLength
  <2>2. 2^a <= 2^(b - 1)
    BY <2>1, PowMonotone
  <2>3. 2^a \in Nat /\ 2^(b - 1) \in Nat
    BY <2>1, PowNat
  <2> QED
    BY <2>1, <2>2, <2>3
<1>2. m \in Nat /\ n \in Nat
  BY DEF HasLength
<1> QED
  BY <1>1, <1>2

\* Every positive number below 2^k has a length of k bits at most.
LEMMA LengthExists ==
  ASSUME NEW X \in Nat, X > 0, NEW k \in Nat, X < 2^k
  PROVE  \E n \in 1..k : HasLength(X, n)
<1> DEFINE T == {n \in Nat : X < 2^n}
<1>1. T \in SUBSET Nat /\ k \in T
  OBVIOUS
<1>2. PICK n \in T : \A m \in T : n <= m
  BY <1>1, LeastNatural
<1>3. n \in Nat /\ X < 2^n /\ n <= k
  BY <1>1, <1>2
<1>4. n # 0
  <2>1. ASSUME n = 0 PROVE FALSE
    <3>1. X < 2^0
      BY <1>3, <2>1, Zenon
    <3> QED
      BY <3>1, PowZero
  <2> QED
    BY <2>1
<1>5. n - 1 \in Nat /\ n - 1 \notin T
  BY <1>2, <1>3, <1>4
<1>6. 2^(n - 1) \in Nat /\ 2^(n - 1) <= X
  BY <1>5, PowNat
<1> QED
  BY <1>3, <1>4, <1>6 DEF HasLength

\* BitLength (a CHOOSE) is the length of the number.
LEMMA BitLengthIs ==
  ASSUME NEW X, NEW n \in 1..MaxBits, HasLength(X, n)
  PROVE  BitLength(X) = n
<1> DEFINE B(k) == 2^k > X /\ (k = 0 \/ X >= 2^(k-1))
<1>1. n \in 0..MaxBits /\ B(n) /\ X \in Nat /\ X > 0
  <2>1. n - 1 \in Nat /\ X \in Nat /\ 2^(n - 1) <= X /\ X < 2^n /\ MaxBits \in Nat
    BY RealRoundingAssumption DEF HasLength
  <2>2. 2^(n - 1) \in Nat /\ 2^(n - 1) > 0 /\ 2^n \in Nat
    BY <2>1, PowNat
  <2> QED
    BY <2>1, <2>2
<1>2. ASSUME NEW k \in 0..MaxBits, B(k) PROVE k = n
  <2>1. k \in Nat
    BY RealRoundingAssumption
  <2>2. k # 0
    <3>1. ASSUME k = 0 PROVE FALSE
      <4>1. 2^0 > X
        BY <1>2, <3>1, Zenon
      <4> QED
        BY <1>1, <4>1, PowZero
    <3> QED
      BY <3>1
  <2>3. HasLength(X, k)
    <3>1. k - 1 \in Nat /\ 2^k \in Nat /\ 2^(k - 1) \in Nat
      BY <2>1, <2>2, PowNat
    <3> QED
      BY <1>1, <1>2, <2>1, <2>2, <3>1 DEF HasLength
  <2> QED
    BY <2>3, LengthUnique
<1>3. BitLength(X) = CHOOSE k \in 0..MaxBits : B(k)
  BY DEF BitLength
<1> HIDE DEF B
<1> QED
  BY <1>1, <1>2, <1>3

\* Every positive number below 2^MaxBits has a bit length.
LEMMA BitLengthExists ==
  ASSUME NEW X \in Nat, X > 0, X < 2^MaxBits
  PROVE  BitLength(X) \in 1..MaxBits /\ HasLength(X, BitLength(X))
BY LengthExists, BitLengthIs, RealRoundingAssumption

-----------------------------------------------------------------------------
(* Numbers and the values they represent.  The exponent counts units, so   *)
(* that 2^(e - p) might not be an integer: the equation is kept multiplied *)
(* by 2^p.                                                                 *)

Represents(m, p, e, Y) ==
  /\ IsSignificand(m, p)
  /\ e \in Nat /\ Y \in Nat
  /\ m * 2^e = Y * 2^p

\* The exponent of a number is the length of what it represents.
LEMMA RepresentsLength ==
  ASSUME NEW p \in Nat, p > 0, NEW m, NEW e, NEW Y, Represents(m, p, e, Y)
  PROVE  HasLength(Y, e)
<1>1. p - 1 \in Nat /\ 2^p = 2 * 2^(p - 1) /\ 2^(p - 1) \in Nat /\ 2^(p - 1) > 0
  BY PowHalf, PowNat
<1>2. m \in Nat /\ 2^(p - 1) <= m /\ m < 2^p /\ e \in Nat /\ Y \in Nat /\ m * 2^e = Y * 2^p
  BY DEF Represents, IsSignificand
<1>3. 2^e \in Nat /\ 2^e > 0
  BY <1>2, PowNat
<1> DEFINE c == 2^(p - 1)
           d == 2^e
<1>4. c \in Nat /\ c > 0 /\ c <= m /\ m < 2 * c /\ d \in Nat /\ d > 0 /\ m * d = Y * (2 * c)
  BY <1>1, <1>2, <1>3
<1>5. d = 2^e
  OBVIOUS
<1> HIDE DEF c, d
<1>6. Y < d
  <2>1. Y * (2 * c) < d * (2 * c)
    BY <1>2, <1>4
  <2> QED
    BY <1>2, <1>4, <2>1, MulCancel
<1>7. d <= 2 * Y
  <2>1. d * c <= m * d
    BY <1>2, <1>4
  <2>2. d * c <= (2 * Y) * c
    BY <1>2, <1>4, <2>1
  <2> QED
    BY <1>2, <1>4, <2>2, MulCancel
<1>8. e # 0
  <2>1. ASSUME e = 0 PROVE FALSE
    <3>1. d = 2^0
      BY <1>5, <2>1, Zenon
    <3> QED
      BY <1>2, <1>6, <1>7, <3>1, PowZero
  <2> QED
    BY <2>1
<1>9. e - 1 \in Nat /\ d = 2 * 2^(e - 1) /\ 2^(e - 1) \in Nat
  BY <1>2, <1>5, <1>8, PowHalf, PowNat
<1> QED
  BY <1>2, <1>5, <1>6, <1>7, <1>8, <1>9 DEF HasLength

\* A significand of p bits represents the multiples of 2^(e-p).
LEMMA RepresentsMultiple ==
  ASSUME NEW p \in Nat, NEW e \in Nat, p <= e, NEW q \in Nat, IsSignificand(q, p)
  PROVE  Represents(q, p, e, q * 2^(e - p))
<1>1. e - p \in Nat /\ 2^e = 2^(e - p) * 2^p
  BY PowSplit
<1>2. 2^(e - p) \in Nat /\ 2^p \in Nat
  BY <1>1, PowNat
<1> QED
  BY <1>1, <1>2 DEF Represents

\* A number of e bits is represented on p >= e bits, shifted to the left.
LEMMA RepresentsShort ==
  ASSUME NEW p \in Nat, NEW e, e <= p, NEW X, HasLength(X, e)
  PROVE  Represents(X * 2^(p - e), p, e, X)
<1>1. X \in Nat /\ e \in Nat /\ e - 1 \in Nat /\ 2^(e - 1) <= X /\ X < 2^e
  BY DEF HasLength
<1>2. p - e \in Nat /\ 2^p = 2^(p - e) * 2^e /\ p - 1 \in Nat
  BY <1>1, PowSplit
<1>3. 2^(p - e) \in Nat /\ 2^(p - e) > 0 /\ 2^e \in Nat /\ 2^(e - 1) \in Nat
  BY <1>1, <1>2, PowNat
<1>4. 2^(p - 1) = 2^(p - e) * 2^(e - 1)
  <2>1. p - 1 = (p - e) + (e - 1)
    BY <1>1
  <2> QED
    BY <1>1, <1>2, <2>1, PowAdd
<1>5. 2^(p - e) * 2^(e - 1) <= X * 2^(p - e) /\ X * 2^(p - e) < 2^(p - e) * 2^e
      /\ X * 2^(p - e) \in Nat
  BY <1>1, <1>3
<1>6. (X * 2^(p - e)) * 2^e = X * 2^p
  BY <1>1, <1>2, <1>3
<1>7. 2^(p - 1) <= X * 2^(p - e) /\ X * 2^(p - e) < 2^p
  BY <1>2, <1>4, <1>5
<1> QED
  BY <1>1, <1>5, <1>6, <1>7 DEF Represents, IsSignificand

\* Only one significand and one exponent represent a value.
LEMMA RepresentsUnique ==
  ASSUME NEW p \in Nat, p > 0, NEW Y, NEW m, NEW e, Represents(m, p, e, Y),
         NEW n, NEW f, Represents(n, p, f, Y)
  PROVE  m = n /\ e = f
<1>1. e = f
  BY RepresentsLength, LengthUnique
<1>2. m \in Nat /\ n \in Nat /\ e \in Nat /\ Y \in Nat /\ m * 2^e = Y * 2^p /\ n * 2^f = Y * 2^p
  BY DEF Represents, IsSignificand
<1>3. 2^e \in Nat /\ 2^e > 0 /\ m * 2^e = n * 2^e
  BY <1>1, <1>2, PowNat
<1>4. m = n
  BY <1>2, <1>3, MulCancel
<1> QED
  BY <1>1, <1>4

\* What a significand of p bits represents at an exponent e >= p.
LEMMA RepresentsValue ==
  ASSUME NEW p \in Nat, NEW Y, NEW m, NEW e, p <= e, Represents(m, p, e, Y)
  PROVE  Y = m * 2^(e - p)
<1>1. m \in Nat /\ e \in Nat /\ Y \in Nat /\ m * 2^e = Y * 2^p
  BY DEF Represents, IsSignificand
<1>2. e - p \in Nat /\ 2^e = 2^(e - p) * 2^p
  BY <1>1, PowSplit
<1>3. 2^(e - p) \in Nat /\ 2^p \in Nat /\ 2^p > 0
  BY <1>2, PowNat
<1>4. (m * 2^(e - p)) * 2^p = Y * 2^p /\ m * 2^(e - p) \in Nat
  BY <1>1, <1>2, <1>3
<1> QED
  BY <1>1, <1>3, <1>4, MulCancel

-----------------------------------------------------------------------------
(* The rounding of the definition, X being cut at p bits *)

\* Nothing to round.
LEMMA RoundToShort ==
  ASSUME NEW p \in Nat, NEW e \in 1..MaxBits, e <= p, NEW X, HasLength(X, e),
         NEW rnd, NEW neg \in BOOLEAN
  PROVE  Ulp(X, p) = 1 /\ RoundTo(X, p, rnd, neg) = X
<1>1. BitLength(X) = e /\ e \in Nat
  BY BitLengthIs
<1>2. Ulp(X, p) = 1
  BY <1>1 DEF Ulp
<1>3. X \in Nat /\ X = X * 1 + 0
  BY DEF HasLength
<1>4. RoundToMultiple(X * 1 + 0, 1, rnd, neg)
        = (IF GoesUp(X, 0, 1, rnd, neg) THEN X + 1 ELSE X) * 1
  BY <1>3, RoundToMultipleIs
<1>5. RoundToMultiple(X, 1, rnd, neg) = X
  BY <1>3, <1>4 DEF GoesUp
<1> QED
  BY <1>2, <1>5 DEF RoundTo

\* The rounding of a number longer than the precision, by its ulp, quotient and remainder.
LEMMA RoundToLong ==
  ASSUME NEW p \in Nat, NEW e \in 1..MaxBits, p < e, NEW X, HasLength(X, e),
         NEW u \in Nat, NEW q \in Nat, NEW r \in Nat, Cut(X, e, p, u, q, r),
         NEW rnd, NEW neg \in BOOLEAN
  PROVE  /\ Ulp(X, p) = u
         /\ RoundTo(X, p, rnd, neg) = (IF GoesUp(q, r, u, rnd, neg) THEN q + 1 ELSE q) * u
<1>1. BitLength(X) = e /\ e \in Nat
  BY BitLengthIs
<1>2. u = 2^(e - p) /\ u > 0 /\ r < u /\ X = q * u + r
  BY DEF Cut
<1>3. Ulp(X, p) = u
  BY <1>1, <1>2 DEF Ulp
<1>4. RoundToMultiple(X, u, rnd, neg)
        = (IF GoesUp(q, r, u, rnd, neg) THEN q + 1 ELSE q) * u
  <2>1. IsQuotient(X, u, q, r)
    BY <1>2 DEF IsQuotient
  <2>2. X \in Nat
    BY DEF HasLength
  <2> QED
    BY <2>1, <2>2, QuotientRounds
<1> QED
  BY <1>3, <1>4 DEF RoundTo

\* MPFR_RNDF is free to do as MPFR_RNDZ: it truncates.
Definite(rnd) == IF rnd = "RNDF" THEN "RNDZ" ELSE rnd

\* The significand rounded to p bits and the carry represent the rounding of X.
LEMMA SignificandRepresents ==
  ASSUME NEW p \in Nat, p > 0, NEW e \in Nat, p <= e,
         NEW q, IsSignificand(q, p), NEW d, d.up \in BOOLEAN
  PROVE  LET s == Significand(q, p, d) IN
         Represents(s.mant, p, e + s.carry, (IF d.up THEN q + 1 ELSE q) * 2^(e - p))
<1> DEFINE s == Significand(q, p, d)
           t == IF d.up THEN q + 1 ELSE q
<1>1. /\ IsSignificand(s.mant, p)
      /\ s.carry \in {0, 1}
      /\ s.carry = 0 => s.mant = t
      /\ s.carry = 1 => d.up /\ q + 1 = 2^p /\ s.mant = 2^(p - 1)
  BY SignificandIs
<1>2. q \in Nat /\ t \in Nat
  BY DEF IsSignificand
<1> HIDE DEF s
<1>3. CASE s.carry = 0
  <2>1. s.mant = t /\ e + s.carry = e
    BY <1>1, <1>3
  <2>2. Represents(t, p, e, t * 2^(e - p))
    BY <1>1, <1>2, <2>1, RepresentsMultiple
  <2> QED
    BY <2>1, <2>2 DEF s
<1>4. CASE s.carry = 1
  <2>1. t = 2^p /\ s.mant = 2^(p - 1) /\ e + s.carry = e + 1
    BY <1>1, <1>4
  <2>2. p - 1 \in Nat /\ 2^p = 2 * 2^(p - 1) /\ 2^(p - 1) \in Nat
    BY PowHalf, PowNat
  <2>3. e - p \in Nat /\ 2^(e - p) \in Nat /\ 2^(e + 1) = 2 * 2^e /\ 2^e = 2^(e - p) * 2^p
    BY PowSplit, PowSucc, PowNat
  <2>4. s.mant * 2^(e + 1) = (t * 2^(e - p)) * 2^p /\ t * 2^(e - p) \in Nat
    <3> DEFINE a == 2^(p - 1)
               b == 2^(e - p)
               c == 2^p
               d2 == 2^e
    <3>1. a \in Nat /\ b \in Nat /\ c = 2 * a /\ d2 = b * c /\ t = c
      BY <2>1, <2>2, <2>3
    <3>2. s.mant * 2^(e + 1) = a * (2 * d2)
      BY <2>1, <2>3
    <3> HIDE DEF a, b, c, d2
    <3>3. a * (2 * d2) = (t * b) * c /\ t * b \in Nat
      BY <3>1
    <3> QED
      BY <3>2, <3>3 DEF a, b, c, d2
  <2>5. e + 1 \in Nat
    OBVIOUS
  <2>6. Represents(s.mant, p, e + 1, t * 2^(e - p))
    BY <1>1, <2>4, <2>5 DEF Represents
  <2> QED
    BY <2>1, <2>6 DEF s
<1> QED
  BY <1>1, <1>3, <1>4

\* MPFR_RNDRAW of a number of any length delivers the rounding of the definition, and
\* the side of it where the result is.
THEOREM RndRawRight ==
  ASSUME NEW p \in Nat, p > 0, NEW e \in 1..MaxBits, NEW X, HasLength(X, e),
         NEW rnd \in Rnds, NEW neg \in BOOLEAN
  PROVE  LET s == RndRaw(X, e, p, rnd, neg)
             Y == RoundTo(X, p, Definite(rnd), neg)
         IN /\ Represents(s.mant, p, e + s.carry, Y)
            /\ s.carry \in {0, 1}
            /\ s.dir \in {-1, 0, 1}
            /\ rnd = "RNDF" => s.dir = 0
            /\ rnd # "RNDF" => (s.dir = 1 <=> Y > X) /\ (s.dir = -1 <=> Y < X)
<1> DEFINE s == RndRaw(X, e, p, rnd, neg)
           Y == RoundTo(X, p, Definite(rnd), neg)
<1>1. e \in Nat /\ X \in Nat
  BY DEF HasLength
<1>2. CASE e <= p
  <2>1. s = [mant |-> X * 2^(p - e), carry |-> 0, dir |-> 0]
    BY <1>2 DEF RndRaw, RndRawGen
  <2>2. s.mant = X * 2^(p - e) /\ s.carry = 0 /\ s.dir = 0
    BY <2>1
  <2>3. Y = X
    BY <1>2, RoundToShort
  <2>4. Represents(X * 2^(p - e), p, e, X)
    BY <1>2, RepresentsShort
  <2> HIDE DEF s, Y
  <2> QED
    BY <1>1, <2>2, <2>3, <2>4 DEF s, Y
<1>3. CASE p < e
  <2>1. PICK u \in Nat, q \in Nat, r \in Nat : Cut(X, e, p, u, q, r)
    BY <1>1, <1>3, CutExists
  <2>2. IsSignificand(X, e)
    BY DEF HasLength, IsSignificand
  <2>3. IsSignificand(q, p)
    BY <1>1, <1>3, <2>1, <2>2, CutIs
  <2>4. u = 2^(e - p) /\ r < u /\ X = q * u + r
    BY <2>1 DEF Cut
  <2>5. Y = (IF GoesUp(q, r, u, Definite(rnd), neg) THEN q + 1 ELSE q) * u
    BY <1>3, <2>1, RoundToLong
  <2>6. PICK d : /\ s = Significand(q, p, d)
                 /\ d = IF rnd = "RNDF" THEN TruncDoit ELSE Step(q, r, u, rnd, neg)
    <3>1. /\ rnd = "RNDF" => s = Significand(q, p, TruncDoit)
          /\ rnd = "RNDN" /\ 2 * r = u => s = Significand(q, p, ToEven[q % 2 = 1])
          /\ rnd # "RNDF" /\ ~ (rnd = "RNDN" /\ 2 * r = u) =>
                s = Significand(q, p, Step(q, r, u, rnd, neg))
      BY <1>1, <1>3, <2>1, <2>2, RndRawGenIs DEF RndRaw
    <3>2. rnd = "RNDN" /\ 2 * r = u => ToEven[q % 2 = 1] = Step(q, r, u, rnd, neg)
      <4>1. ASSUME 2 * r = u PROVE r # 0
        BY <2>4, <4>1
      <4>2. q % 2 = 1 => ToEven[q % 2 = 1] = AddOneUlp
        BY DEF ToEven
      <4>3. ~ (q % 2 = 1) => ToEven[q % 2 = 1] = Decision(FALSE, -1)
        BY DEF ToEven
      <4>4. 2 * r = u => ~ (2 * r > u)
        BY <2>4
      <4>5. rnd = "RNDN" /\ 2 * r = u => (GoesUp(q, r, u, rnd, neg) <=> q % 2 = 1)
        BY <4>1, <4>4 DEF GoesUp
      <4> QED
        BY <4>1, <4>2, <4>3, <4>5 DEF Step
    <3> HIDE DEF s
    <3> QED
      BY <3>1, <3>2
  <2>7. d.up \in BOOLEAN /\ d.dir \in {-1, 0, 1}
        /\ (d.up <=> GoesUp(q, r, u, Definite(rnd), neg))
        /\ (rnd = "RNDF" => d.dir = 0)
        /\ (rnd # "RNDF" => (d.dir = 1 <=> d.up) /\ (d.dir = -1 <=> r # 0 /\ ~ d.up))
    <3>1. GoesUp(q, r, u, rnd, neg) \in BOOLEAN /\ (GoesUp(q, r, u, rnd, neg) => r # 0)
      BY DEF GoesUp
    <3>2. ~ GoesUp(q, r, u, "RNDZ", neg)
      BY DEF GoesUp
    <3>3. CASE rnd = "RNDF"
      BY <2>6, <3>2, <3>3 DEF Definite, TruncDoit, Decision
    <3>4. CASE rnd # "RNDF"
      <4>1. d = Step(q, r, u, rnd, neg) /\ Definite(rnd) = rnd
        BY <2>6, <3>4 DEF Definite
      <4>2. CASE r = 0
        BY <3>1, <3>4, <4>1, <4>2 DEF Step, TruncDoit, Decision
      <4>3. CASE r # 0 /\ GoesUp(q, r, u, rnd, neg)
        BY <3>1, <3>4, <4>1, <4>3 DEF Step, AddOneUlp, Decision
      <4>4. CASE r # 0 /\ ~ GoesUp(q, r, u, rnd, neg)
        BY <3>1, <3>4, <4>1, <4>4 DEF Step, Decision
      <4> QED
        BY <4>2, <4>3, <4>4
    <3> QED
      BY <3>3, <3>4
  <2> DEFINE t == IF d.up THEN q + 1 ELSE q
  <2>8. Y = t * u
    BY <2>5, <2>7
  <2>9. Represents(s.mant, p, e + s.carry, Y)
    BY <1>1, <1>3, <2>3, <2>4, <2>6, <2>7, <2>8, SignificandRepresents
  <2>10. s.carry \in {0, 1} /\ s.dir = d.dir
    <3>1. d.up \in BOOLEAN
      BY <2>7
    <3>2. Significand(q, p, d).carry \in {0, 1} /\ Significand(q, p, d).dir = d.dir
      BY <2>3, <3>1, SignificandIs
    <3> QED
      BY <2>6, <3>2
  <2>11. (Y > X <=> d.up) /\ (Y < X <=> r # 0 /\ ~ d.up)
    BY <2>4, <2>7, <2>8
  <2> HIDE DEF s, Y
  <2> QED
    BY <2>7, <2>9, <2>10, <2>11 DEF s, Y
<1> QED
  BY <1>1, <1>2, <1>3

\* A rounding stays between the powers of two around the number, is exact on a power of
\* two, and on the side its direction says.
LEMMA RoundToBounds ==
  ASSUME NEW p \in Nat, p > 0, NEW e \in 1..MaxBits, NEW X, HasLength(X, e),
         NEW g, NEW neg \in BOOLEAN
  PROVE  LET Y == RoundTo(X, p, g, neg) IN
         /\ Y \in Nat
         /\ 2^(e - 1) <= Y /\ Y <= 2^e
         /\ X = 2^(e - 1) => Y = X
         /\ TowardZero(g, neg) => Y <= X
<1> DEFINE Y == RoundTo(X, p, g, neg)
<1>1. e \in Nat /\ X \in Nat /\ 2^(e - 1) <= X /\ X < 2^e
  BY DEF HasLength
<1>2. CASE e <= p
  <2>1. Y = X
    BY <1>2, RoundToShort
  <2> QED
    BY <1>1, <2>1, PowNat
<1>3. CASE p < e
  <2>1. PICK u \in Nat, q \in Nat, r \in Nat : Cut(X, e, p, u, q, r)
    BY <1>1, <1>3, CutExists
  <2>2. IsSignificand(X, e)
    BY <1>1 DEF IsSignificand
  <2>3. IsSignificand(q, p) /\ 2^e = 2^p * u
    BY <1>1, <1>3, <2>1, <2>2, CutIs
  <2>4. Y = (IF GoesUp(q, r, u, g, neg) THEN q + 1 ELSE q) * u
    BY <1>3, <2>1, RoundToLong
  <2>5. u > 0 /\ r < u /\ X = q * u + r
    BY <2>1 DEF Cut
  <2>6. p - 1 \in Nat /\ 2^p = 2 * 2^(p - 1) /\ 2^(p - 1) \in Nat
        /\ e - 1 \in Nat /\ 2^e = 2 * 2^(e - 1) /\ 2^(e - 1) \in Nat
    BY <1>1, PowHalf, PowNat
  <2>7. 2^(p - 1) <= q /\ q + 1 <= 2 * 2^(p - 1)
    BY <2>3, <2>6 DEF IsSignificand
  <2> DEFINE a == 2^(p - 1)
             b == 2^(e - 1)
  <2>8. a \in Nat /\ b = a * u /\ 2^e = 2 * b /\ a <= q /\ q + 1 <= 2 * a
    BY <2>3, <2>6, <2>7
  <2>9. b <= X
    BY <1>1
  <2> HIDE DEF a, b, Y
  <2>10. a * u <= q * u /\ (q + 1) * u <= 2 * (a * u) /\ q * u + u = (q + 1) * u
         /\ q * u \in Nat /\ (q + 1) * u \in Nat /\ a * u \in Nat
    BY <2>5, <2>8
  <2>11. Y \in Nat /\ b <= Y /\ Y <= 2^e
    BY <2>4, <2>5, <2>8, <2>10
  <2>12. ASSUME X = b PROVE Y = X
    <3>1. r = 0
      BY <2>5, <2>8, <2>10, <2>12
    <3>2. ~ GoesUp(q, r, u, g, neg)
      BY <3>1 DEF GoesUp
    <3> QED
      BY <2>4, <2>5, <3>1, <3>2
  <2>13. ASSUME TowardZero(g, neg) PROVE Y <= X
    <3>1. ~ GoesUp(q, r, u, g, neg)
      BY <2>13 DEF GoesUp, TowardZero
    <3> QED
      BY <2>4, <2>5, <3>1
  <2> QED
    BY <2>11, <2>12, <2>13 DEF Y, b
<1> QED
  BY <1>1, <1>2, <1>3

-----------------------------------------------------------------------------
(* mpfr_check_range.  The exponents of the numbers are sc less than the    *)
(* lengths of what they represent: E and F are emin and emax so counted.   *)

\* What an mpfr_t of precision p is worth.
StandsFor(y, p, sc, Y) ==
  \/ y.kind = "zero" /\ Y = 0
  \/ y.kind = "inf" /\ Y = Infinity
  \/ y.kind = "num" /\ y.prec = p /\ Represents(y.mant, p, y.exp + sc, Y)

\* The number f, m with ternary value t is X rounded to p bits in an unbounded range, in
\* direction g.  For ties away, t is negative at half the smallest number, where nothing
\* else tells the exact result from one that is nearer to zero.
IsOneRounding(m, p, f, t, X, g, neg, E) ==
  LET Y == RoundTo(X, p, g, neg) IN
  /\ Represents(m, p, f, Y)
  /\ t \in Int
  /\ IF g = "RNDNA" /\ X = 2^(E - 2) THEN Signed(neg, t) < 0
     ELSE SignOf(t) = Ternary(Y, X, neg)

\* The code knows nothing of ties away from zero: it is given MPFR_RNDN.
Asked(g) == IF g = "RNDNA" THEN "RNDN" ELSE g

RoundingDirections == {"RNDN", "RNDZ", "RNDU", "RNDD", "RNDA", "RNDNA"}

\* SignOf commutes with MPFR_FROM_SIGN_TO_INT.
LEMMA SignOfIs ==
  ASSUME NEW t \in Int, NEW neg \in BOOLEAN
  PROVE  /\ SignOf(t) \in {-1, 0, 1}
         /\ SignOf(t) = 1 <=> t > 0
         /\ SignOf(t) = 0 <=> t = 0
         /\ SignOf(t) = -1 <=> t < 0
         /\ SignOf(Signed(neg, t)) = Signed(neg, SignOf(t))
         /\ Signed(neg, t) \in Int
<1>1. t < 0 => SignOf(t) = -1
  BY DEF SignOf
<1>2. t = 0 => SignOf(t) = 0
  BY DEF SignOf
<1>3. t > 0 => SignOf(t) = 1
  BY DEF SignOf
<1>4. -t < 0 => SignOf(-t) = -1
  BY DEF SignOf
<1>5. -t = 0 => SignOf(-t) = 0
  BY DEF SignOf
<1>6. -t > 0 => SignOf(-t) = 1
  BY DEF SignOf
<1>7. SignOf(-t) = - SignOf(t)
  BY <1>1, <1>2, <1>3, <1>4, <1>5, <1>6
<1> QED
  BY <1>1, <1>2, <1>3, <1>7 DEF Signed

\* The ternary value in terms of the absolute values.
LEMMA TernaryIs ==
  ASSUME NEW X \in Int, NEW Y \in Int, NEW neg \in BOOLEAN
  PROVE  /\ Ternary(Y, X, neg) = Signed(neg, SignOf(Y - X))
         /\ Y > X => Ternary(Y, X, neg) = Signed(neg, 1)
         /\ Y < X => Ternary(Y, X, neg) = Signed(neg, -1)
         /\ Y = X => Ternary(Y, X, neg) = 0
<1>1. SignOf(X - Y) = - SignOf(Y - X)
  <2>1. X - Y = Signed(TRUE, Y - X)
    BY DEF Signed
  <2> QED
    BY <2>1, SignOfIs DEF Signed
<1>2. Ternary(Y, X, neg) = Signed(neg, SignOf(Y - X))
  BY <1>1 DEF Ternary, Signed
<1>3. /\ Y > X => SignOf(Y - X) = 1
      /\ Y < X => SignOf(Y - X) = -1
      /\ Y = X => SignOf(Y - X) = 0
  BY SignOfIs
<1> QED
  BY <1>2, <1>3 DEF Signed

\* Below half of the smallest number, exactly half, above: mpfr_check_range tells them
\* apart with the rounded number and its ternary value.
LEMMA HalfwayToZeroIs ==
  ASSUME NEW p \in Nat, p > 0, NEW e \in 1..MaxBits, NEW X, HasLength(X, e),
         NEW g \in {"RNDN", "RNDNA"}, NEW neg \in BOOLEAN,
         NEW E \in Nat, E >= 2, NEW f, f < E, NEW m, NEW t, IsOneRounding(m, p, f, t, X, g, neg, E)
  PROVE  (f + 1 < E \/ (m = 2^(p - 1) /\ Signed(neg, t) >= 0))
            <=> ~ GoesUp(0, X, 2^(E - 1), g, neg)
<1> DEFINE Y == RoundTo(X, p, g, neg)
           V == 2^(E - 2)
<1>1. Represents(m, p, f, Y) /\ t \in Int /\ HasLength(Y, f)
  BY RepresentsLength DEF IsOneRounding
<1>2. /\ f \in Nat /\ f - 1 \in Nat /\ 2^(f - 1) <= Y /\ Y < 2^f
      /\ e \in Nat /\ e - 1 \in Nat /\ 2^(e - 1) <= X /\ X < 2^e /\ X \in Nat /\ Y \in Nat
  BY <1>1 DEF HasLength
<1>3. E - 2 \in Nat /\ E - 1 \in Nat /\ V \in Nat /\ V > 0 /\ 2^(E - 1) = 2 * V
  <2>1. E - 1 \in Nat /\ E - 1 # 0 /\ (E - 1) - 1 = E - 2 /\ E - 2 \in Nat
    OBVIOUS
  <2> QED
    BY <2>1, PowHalf, PowNat
<1>4. 2^(e - 1) <= Y /\ Y <= 2^e /\ (X = 2^(e - 1) => Y = X)
  BY RoundToBounds
<1>5. e <= f
  <2>1. ASSUME f <= e - 1 PROVE FALSE
    <3>1. 2^f <= 2^(e - 1) /\ 2^f \in Nat /\ 2^(e - 1) \in Nat
      BY <1>2, <2>1, PowMonotone, PowNat
    <3> QED
      BY <1>2, <1>4, <3>1
  <2> QED
    BY <1>2, <2>1
<1>6. X > 0
  <2>1. 2^(e - 1) \in Nat /\ 2^(e - 1) > 0
    BY <1>2, PowNat
  <2> QED
    BY <1>2, <2>1
<1>7. /\ g = "RNDN" => (GoesUp(0, X, 2^(E - 1), g, neg) <=> X > V)
      /\ g = "RNDNA" => (GoesUp(0, X, 2^(E - 1), g, neg) <=> X >= V)
  <2>1. g = "RNDN" => (GoesUp(0, X, 2^(E - 1), g, neg) <=> 2 * X > 2^(E - 1))
    BY <1>6 DEF GoesUp
  <2>2. g = "RNDNA" => (GoesUp(0, X, 2^(E - 1), g, neg) <=> 2 * X >= 2^(E - 1))
    BY <1>6 DEF GoesUp
  <2> HIDE DEF V
  <2> QED
    BY <1>2, <1>3, <2>1, <2>2
<1>8. CASE f + 1 < E
  <2>1. f <= E - 2
    BY <1>2, <1>8
  <2>2. 2^e <= 2^f /\ 2^f <= V /\ 2^e \in Nat /\ 2^f \in Nat
    BY <1>2, <1>3, <1>5, <2>1, PowMonotone, PowNat
  <2>3. X < V
    BY <1>2, <1>3, <2>2
  <2> QED
    BY <1>2, <1>3, <1>7, <1>8, <2>3
<1>9. CASE ~ (f + 1 < E)
  <2>1. f = E - 1 /\ f - 1 = E - 2 /\ f # E - 2
    BY <1>2, <1>9
  <2>2. V <= Y
    BY <1>2, <2>1
  <2>3. m = 2^(p - 1) <=> Y = V
    <3>1. m \in Nat /\ m * 2^f = Y * 2^p
      BY <1>1 DEF Represents, IsSignificand
    <3>2. 2^p = 2 * 2^(p - 1) /\ 2^(p - 1) \in Nat /\ 2^(p - 1) > 0 /\ 2^f = 2 * V
      BY <1>2, <1>3, <2>1, PowHalf, PowNat
    <3>3. ASSUME NEW c \in Nat, c > 0, NEW v \in Nat, v > 0, m * (2 * v) = Y * (2 * c)
          PROVE  m = c <=> Y = v
      <4>1. m = c => Y = v
        <5>1. ASSUME m = c PROVE v * (2 * c) = Y * (2 * c)
          BY <1>2, <3>1, <3>3, <5>1
        <5> QED
          BY <1>2, <3>3, <5>1, MulCancel
      <4>2. Y = v => m = c
        <5>1. ASSUME Y = v PROVE m * (2 * v) = c * (2 * v)
          BY <1>2, <3>1, <3>3, <5>1
        <5> QED
          BY <1>2, <3>1, <3>3, <5>1, MulCancel
      <4> QED
        BY <4>1, <4>2
    <3> HIDE DEF V
    <3> QED
      BY <1>3, <3>1, <3>2, <3>3
  <2>4. X <= V => Y = V
    <3>1. ASSUME X < V PROVE Y = V
      <4>1. e <= E - 2
        <5>1. ASSUME E - 2 <= e - 1 PROVE FALSE
          <6>1. V <= 2^(e - 1) /\ 2^(e - 1) \in Nat
            BY <1>2, <1>3, <5>1, PowMonotone, PowNat
          <6> QED
            BY <1>2, <1>3, <3>1, <6>1
        <5> QED
          BY <1>2, <5>1
      <4>2. 2^e <= V /\ 2^e \in Nat
        BY <1>2, <1>3, <4>1, PowMonotone, PowNat
      <4> QED
        BY <1>2, <1>3, <1>4, <2>2, <4>2
    <3>2. ASSUME X = V PROVE Y = V
      <4>1. HasLength(X, E - 1)
        BY <1>3, <3>2 DEF HasLength
      <4>2. e = E - 1 /\ e - 1 = E - 2
        BY <1>2, <4>1, LengthUnique
      <4> QED
        BY <1>4, <3>2, <4>2
    <3> QED
      BY <1>2, <1>3, <3>1, <3>2
  <2>5. ~ (g = "RNDNA" /\ X = V) => (Signed(neg, t) >= 0 <=> Y >= X)
    <3>1. ASSUME ~ (g = "RNDNA" /\ X = V) PROVE SignOf(t) = Signed(neg, SignOf(Y - X))
      BY <1>2, <3>1, TernaryIs DEF IsOneRounding
    <3>2. SignOf(Signed(neg, t)) = Signed(neg, SignOf(t))
      BY <1>1, SignOfIs
    <3>3. ASSUME ~ (g = "RNDNA" /\ X = V) PROVE SignOf(Signed(neg, t)) = SignOf(Y - X)
      BY <1>2, <3>1, <3>2, <3>3, SignOfIs DEF Signed
    <3>4. Signed(neg, t) \in Int /\ Y - X \in Int
      BY <1>1, <1>2, SignOfIs
    <3>5. ASSUME NEW a \in Int, NEW b \in Int, SignOf(a) = SignOf(b) PROVE a >= 0 <=> b >= 0
      BY <3>5, SignOfIs
    <3> HIDE DEF Y, V
    <3> QED
      BY <1>2, <3>3, <3>4, <3>5
  <2>6. g = "RNDNA" /\ X = V => Signed(neg, t) < 0
    BY DEF IsOneRounding
  <2>7. Signed(neg, t) \in Int
    BY <1>1, SignOfIs
  <2> HIDE DEF Y, V
  <2>8. g = "RNDN" => ((m = 2^(p - 1) /\ Signed(neg, t) >= 0) <=> ~ (X > V))
    BY <1>2, <1>3, <2>3, <2>4, <2>5, <2>7
  <2>9. g = "RNDNA" => ((m = 2^(p - 1) /\ Signed(neg, t) >= 0) <=> ~ (X >= V))
    BY <1>2, <1>3, <2>3, <2>4, <2>5, <2>6, <2>7
  <2> QED
    BY <1>7, <1>9, <2>8, <2>9
<1> QED
  BY <1>8, <1>9

\* MPFR_IS_LIKE_RNDZ and MPFR_IS_LIKE_RNDA, directed modes only, are the direction asked.
LEMMA LikeIs ==
  ASSUME NEW rnd \in Rnds \ {"RNDF", "RNDN"}, NEW neg \in BOOLEAN
  PROVE  /\ IsLikeRNDZ(rnd, neg) <=> TowardZero(rnd, neg)
         /\ IsLikeRNDA(rnd, neg) <=> ~ TowardZero(rnd, neg)
BY DEF Rnds, IsLikeRNDZ, IsLikeRNDA, TowardZero

\* What a function leaves: the value, the ternary value and the flags of the definition.
Delivers(c, p, sc, X, g, neg, E, F) ==
  /\ StandsFor(c.y, p, sc, CorrectValue(X, p, g, neg, E, F))
  /\ c.y.neg = neg
  /\ SignOf(c.inex) = Ternary(CorrectValue(X, p, g, neg, E, F), X, neg)
  /\ c.raised = CorrectFlags(X, p, g, neg, E, F)

\* A power of two as a number.
LEMMA PowerRepresents ==
  ASSUME NEW p \in Nat, p > 0, NEW e \in Nat, e > 0
  PROVE  Represents(2^(p - 1), p, e, 2^(e - 1))
<1>1. p - 1 \in Nat /\ 2^p = 2 * 2^(p - 1) /\ 2^(p - 1) \in Nat /\ 2^(p - 1) > 0
      /\ e - 1 \in Nat /\ 2^e = 2 * 2^(e - 1) /\ 2^(e - 1) \in Nat
  BY PowHalf, PowNat
<1> QED
  BY <1>1 DEF Represents, IsSignificand

\* An underflow, when the rounded number is below the range.
LEMMA CheckRangeBelow ==
  ASSUME NEW p \in Nat, p > 0, NEW e \in 1..MaxBits, e < MaxBits, NEW X, HasLength(X, e),
         NEW g \in RoundingDirections, NEW neg \in BOOLEAN, NEW sc \in Nat,
         NEW emin \in Int, NEW emax \in Int, emin <= emax, emin + sc >= 2,
         NEW x \in Int, x < emin, NEW m, NEW t,
         IsOneRounding(m, p, x + sc, t, X, g, neg, emin + sc)
  PROVE  LET c == CheckRange(Num(neg, x, m, p), t, Asked(g), emin, emax) IN
         Delivers(c, p, sc, X, g, neg, emin + sc, emax + sc)
<1> DEFINE Y == RoundTo(X, p, g, neg)
           E == emin + sc
           F == emax + sc
           f == x + sc
           U == 2^(E - 1)
           y == Num(neg, x, m, p)
           r == IF Asked(g) = "RNDN" /\ HalfwayToZero(y, t, emin) THEN "RNDZ" ELSE Asked(g)
           up == GoesUp(0, X, U, g, neg)
<1>1. E \in Nat /\ F \in Nat /\ E <= F /\ f < E /\ E - 1 \in Nat /\ E >= 2
  OBVIOUS
<1>2. Represents(m, p, f, Y) /\ HasLength(Y, f)
  BY RepresentsLength DEF IsOneRounding
<1>3. /\ f \in Nat /\ f - 1 \in Nat /\ f # 0 /\ 2^(f - 1) <= Y /\ Y < 2^f
      /\ e \in Nat /\ e - 1 \in Nat /\ 2^(e - 1) <= X /\ X < 2^e /\ X \in Nat /\ Y \in Nat
  BY <1>2 DEF HasLength
<1>4. 2^(e - 1) <= Y /\ Y <= 2^e
  BY RoundToBounds
<1>5. e <= f /\ f <= e + 1
  <2>1. ASSUME f <= e - 1 PROVE FALSE
    <3>1. 2^f <= 2^(e - 1) /\ 2^f \in Nat /\ 2^(e - 1) \in Nat
      BY <1>3, <2>1, PowMonotone, PowNat
    <3> QED
      BY <1>3, <1>4, <3>1
  <2>2. ASSUME e < f - 1 PROVE FALSE
    <3>1. 2^e < 2^(f - 1) /\ 2^e \in Nat /\ 2^(f - 1) \in Nat
      BY <1>3, <2>2, PowStrict, PowNat
    <3> QED
      BY <1>3, <1>4, <3>1
  <2> QED
    BY <1>3, <2>1, <2>2
<1>6. BitLength(Y) = f
  <2>1. f \in 1..MaxBits
    BY <1>3, <1>5, RealRoundingAssumption
  <2> QED
    BY <1>2, <2>1, BitLengthIs
<1>7. U \in Nat /\ 0 < X /\ X < U
  <2>1. 2^(e - 1) \in Nat /\ 2^(e - 1) > 0 /\ 2^e \in Nat /\ U \in Nat
    BY <1>1, <1>3, PowNat
  <2>2. 2^e <= U
    BY <1>1, <1>3, <1>5, PowMonotone
  <2> QED
    BY <1>3, <2>1, <2>2
<1>8. CorrectValue(X, p, g, neg, E, F) = IF up THEN U ELSE 0
  <2> HIDE DEF U
  <2>1. RoundToMultiple(X, U, g, neg) = IF up THEN U ELSE 0
    BY <1>3, <1>7, BelowUnitRounds
  <2> HIDE DEF up
  <2>2. CorrectValue(X, p, g, neg, E, F) = RoundToMultiple(X, U, g, neg)
    BY <1>1, <1>6 DEF CorrectValue, U
  <2> QED
    BY <2>1, <2>2
<1>9. up \in BOOLEAN
  BY DEF GoesUp
<1>10. IsLikeRNDZ(r, neg) <=> ~ up
  <2>1. CASE Asked(g) = "RNDN"
    <3>1. g \in {"RNDN", "RNDNA"}
      BY <2>1 DEF Asked, RoundingDirections
    <3>2. HalfwayToZero(y, t, emin) <=> f + 1 < E \/ (m = 2^(p - 1) /\ Signed(neg, t) >= 0)
      BY DEF HalfwayToZero, Num, IsPowerof2Raw
    <3>3. IsOneRounding(m, p, f, t, X, g, neg, E)
      OBVIOUS
    <3> HIDE DEF E, f
    <3>4. (f + 1 < E \/ (m = 2^(p - 1) /\ Signed(neg, t) >= 0)) <=> ~ up
      BY <1>1, <3>1, <3>3, HalfwayToZeroIs
    <3>5. HalfwayToZero(y, t, emin) <=> ~ up
      BY <3>2, <3>4
    <3> HIDE DEF up
    <3> QED
      BY <2>1, <3>5 DEF IsLikeRNDZ
  <2>2. CASE Asked(g) # "RNDN"
    <3>1. g \in Rnds \ {"RNDF", "RNDN"} /\ r = g
      BY <2>2 DEF Asked, RoundingDirections, Rnds
    <3>2. up <=> g = "RNDA" \/ g = (IF neg THEN "RNDD" ELSE "RNDU")
      BY <1>7, <3>1 DEF GoesUp, Rnds
    <3> HIDE DEF up, r
    <3>3. up <=> IsLikeRNDA(g, neg)
      BY <3>2 DEF IsLikeRNDA
    <3> QED
      BY <3>1, <3>3, LikeIs
  <2> QED
    BY <2>1, <2>2
<1>11. CheckRange(y, t, Asked(g), emin, emax) = Underflow(p, r, neg, emin)
  BY DEF CheckRange, Num
<1>12. CorrectFlags(X, p, g, neg, E, F) =
         (IF CorrectValue(X, p, g, neg, E, F) # X THEN {"inexact"} ELSE {}) \cup {"underflow"}
  <2> HIDE DEF Y, E, F
  <2>1. BitLength(Y) < E /\ ~ (BitLength(Y) > F)
    BY <1>1, <1>3, <1>6
  <2> QED
    BY <2>1, Zenon DEF CorrectFlags, Y
<1> HIDE DEF up, r, Y, y, E, F, f
<1>13. CASE up
  <2>1. CorrectValue(X, p, g, neg, E, F) = U
    BY <1>7, <1>8, <1>13
  <2>2. Underflow(p, r, neg, emin) = Return(SetMin(neg, emin, p), Signed(neg, 1), {"underflow"})
    BY <1>10, <1>13 DEF Underflow
  <2>3. Represents(2^(p - 1), p, E, U)
    BY <1>1, PowerRepresents
  <2>4. StandsFor(SetMin(neg, emin, p), p, sc, U)
    BY <2>3 DEF StandsFor, SetMin, Num, E
  <2>5. Ternary(U, X, neg) = Signed(neg, 1) /\ SignOf(Signed(neg, 1)) = Signed(neg, 1)
        /\ Signed(neg, 1) # 0
    BY <1>3, <1>7, TernaryIs, SignOfIs DEF Signed
  <2>6. CorrectFlags(X, p, g, neg, E, F) = {"inexact"} \cup {"underflow"}
    BY <1>7, <1>12, <2>1
  <2> DEFINE c == Underflow(p, r, neg, emin)
  <2>7. c.y = SetMin(neg, emin, p) /\ c.inex = Signed(neg, 1) /\ c.raised = {"underflow"} \cup {"inexact"}
    BY <2>2, <2>5 DEF Return
  <2>8. SetMin(neg, emin, p).neg = neg
    BY DEF SetMin, Num
  <2> QED
    BY <1>11, <2>1, <2>4, <2>5, <2>6, <2>7, <2>8 DEF Delivers, E, F, y
<1>14. CASE ~ up
  <2>1. CorrectValue(X, p, g, neg, E, F) = 0
    BY <1>7, <1>8, <1>14
  <2>2. Underflow(p, r, neg, emin) = Return(Zero(neg, p), Signed(neg, -1), {"underflow"})
    BY <1>10, <1>14 DEF Underflow
  <2>4. StandsFor(Zero(neg, p), p, sc, 0)
    BY DEF StandsFor, Zero
  <2>5. Ternary(0, X, neg) = Signed(neg, -1) /\ SignOf(Signed(neg, -1)) = Signed(neg, -1)
        /\ Signed(neg, -1) # 0
    BY <1>3, <1>7, TernaryIs, SignOfIs DEF Signed
  <2>6. CorrectFlags(X, p, g, neg, E, F) = {"inexact"} \cup {"underflow"}
    BY <1>7, <1>12, <2>1
  <2> DEFINE c == Underflow(p, r, neg, emin)
  <2>7. c.y = Zero(neg, p) /\ c.inex = Signed(neg, -1) /\ c.raised = {"underflow"} \cup {"inexact"}
    BY <2>2, <2>5 DEF Return
  <2>8. Zero(neg, p).neg = neg
    BY DEF Zero
  <2> QED
    BY <1>11, <2>1, <2>4, <2>5, <2>6, <2>7, <2>8 DEF Delivers, E, F, y
<1> QED
  BY <1>9, <1>13, <1>14

\* The largest number of p bits and exponent e.
LEMMA MaxRepresents ==
  ASSUME NEW p \in Nat, p > 0, NEW e \in Nat, p <= e
  PROVE  /\ Represents(2^p - 1, p, e, (2^p - 1) * 2^(e - p))
         /\ (2^p - 1) * 2^(e - p) < 2^e
<1>1. p - 1 \in Nat /\ 2^p = 2 * 2^(p - 1) /\ 2^(p - 1) \in Nat /\ 2^(p - 1) > 0
  BY PowHalf, PowNat
<1>2. IsSignificand(2^p - 1, p) /\ 2^p - 1 \in Nat
  BY <1>1 DEF IsSignificand
<1>3. Represents(2^p - 1, p, e, (2^p - 1) * 2^(e - p))
  BY <1>2, RepresentsMultiple
<1>4. e - p \in Nat /\ 2^e = 2^(e - p) * 2^p /\ 2^(e - p) \in Nat /\ 2^(e - p) > 0
  BY PowSplit, PowNat
<1>5. (2^p - 1) * 2^(e - p) < 2^e
  BY <1>1, <1>4
<1> QED
  BY <1>3, <1>5

\* An overflow, when the rounded number is above the range.
LEMMA CheckRangeAbove ==
  ASSUME NEW p \in Nat, p > 0, NEW e \in 1..MaxBits, e < MaxBits, NEW X, HasLength(X, e),
         NEW g \in RoundingDirections, NEW neg \in BOOLEAN, NEW sc \in Nat,
         NEW emin \in Int, NEW emax \in Int, emin <= emax, emin + sc >= 2, p <= emax + sc,
         NEW x \in Int, emax < x, NEW m, NEW t,
         IsOneRounding(m, p, x + sc, t, X, g, neg, emin + sc)
  PROVE  LET c == CheckRange(Num(neg, x, m, p), t, Asked(g), emin, emax) IN
         Delivers(c, p, sc, X, g, neg, emin + sc, emax + sc)
<1> DEFINE Y == RoundTo(X, p, g, neg)
           E == emin + sc
           F == emax + sc
           f == x + sc
           y == Num(neg, x, m, p)
           M == (2^p - 1) * 2^(F - p)
<1>1. E \in Nat /\ F \in Nat /\ E <= F /\ F < f /\ E >= 2 /\ p <= F
  OBVIOUS
<1>2. Represents(m, p, f, Y) /\ HasLength(Y, f)
  BY RepresentsLength DEF IsOneRounding
<1>3. /\ f \in Nat /\ f - 1 \in Nat /\ f # 0 /\ 2^(f - 1) <= Y /\ Y < 2^f
      /\ e \in Nat /\ X < 2^e /\ X \in Nat /\ Y \in Nat
  BY <1>2 DEF HasLength
<1>4. Y <= 2^e /\ (TowardZero(g, neg) => Y <= X)
  BY RoundToBounds
<1>5. f <= e + 1
  <2>1. ASSUME e < f - 1 PROVE FALSE
    <3>1. 2^e < 2^(f - 1) /\ 2^e \in Nat /\ 2^(f - 1) \in Nat
      BY <1>3, <2>1, PowStrict, PowNat
    <3> QED
      BY <1>3, <1>4, <3>1
  <2> QED
    BY <1>3, <2>1
<1>6. BitLength(Y) = f
  <2>1. f \in 1..MaxBits
    BY <1>3, <1>5, RealRoundingAssumption
  <2> QED
    BY <1>2, <2>1, BitLengthIs
<1>7. IsLikeRNDZ(Asked(g), neg) <=> TowardZero(g, neg)
  BY DEF IsLikeRNDZ, TowardZero, Asked, RoundingDirections
<1>8. CheckRange(y, t, Asked(g), emin, emax) = Overflow(p, Asked(g), neg, emax)
  BY DEF CheckRange, Num
<1>9. /\ CorrectValue(X, p, g, neg, E, F) = IF TowardZero(g, neg) THEN M ELSE Infinity
      /\ CorrectFlags(X, p, g, neg, E, F) =
           (IF CorrectValue(X, p, g, neg, E, F) # X THEN {"inexact"} ELSE {}) \cup {"overflow"}
  <2> HIDE DEF Y, E, F
  <2>1. ~ (BitLength(Y) < E) /\ BitLength(Y) > F
    BY <1>1, <1>3, <1>6
  <2>2. CorrectFlags(X, p, g, neg, E, F) =
           (IF CorrectValue(X, p, g, neg, E, F) # X THEN {"inexact"} ELSE {}) \cup {"overflow"}
    BY <2>1, Zenon DEF CorrectFlags, Y
  <2>3. CorrectValue(X, p, g, neg, E, F) = IF TowardZero(g, neg) THEN M ELSE Infinity
    BY <2>1 DEF CorrectValue, Y
  <2> QED
    BY <2>2, <2>3
<1> HIDE DEF Y, y, E, F, f, M
<1>10. CASE TowardZero(g, neg)
  <2>1. CorrectValue(X, p, g, neg, E, F) = M
    BY <1>9, <1>10
  <2>2. Overflow(p, Asked(g), neg, emax) = Return(SetMax(neg, emax, p), Signed(neg, -1), {"overflow"})
    BY <1>7, <1>10 DEF Overflow
  <2>3. Represents(2^p - 1, p, F, M) /\ M < 2^F
    BY <1>1, MaxRepresents DEF M
  <2>4. StandsFor(SetMax(neg, emax, p), p, sc, M)
    BY <2>3 DEF StandsFor, SetMax, Num, F
  <2>5. M \in Nat /\ M < X
    <3>1. 2^F <= 2^(f - 1) /\ 2^F \in Nat /\ 2^(f - 1) \in Nat
      <4>1. F <= f - 1
        BY <1>1, <1>3
      <4> QED
        BY <1>1, <1>3, <4>1, PowMonotone, PowNat
    <3>2. M \in Nat
      BY <2>3 DEF Represents
    <3> QED
      BY <1>3, <1>4, <1>10, <2>3, <3>1, <3>2
  <2>6. Ternary(M, X, neg) = Signed(neg, -1) /\ SignOf(Signed(neg, -1)) = Signed(neg, -1)
        /\ Signed(neg, -1) # 0
    BY <1>3, <2>5, TernaryIs, SignOfIs DEF Signed
  <2>7. CorrectFlags(X, p, g, neg, E, F) = {"inexact"} \cup {"overflow"}
    BY <1>3, <1>9, <2>1, <2>5
  <2> DEFINE c == Overflow(p, Asked(g), neg, emax)
  <2>8. c.y = SetMax(neg, emax, p) /\ c.inex = Signed(neg, -1) /\ c.raised = {"overflow"} \cup {"inexact"}
    BY <2>2, <2>6 DEF Return
  <2>9. SetMax(neg, emax, p).neg = neg
    BY DEF SetMax, Num
  <2> QED
    BY <1>8, <2>1, <2>4, <2>6, <2>7, <2>8, <2>9 DEF Delivers, E, F, y
<1>11. CASE ~ TowardZero(g, neg)
  <2>1. CorrectValue(X, p, g, neg, E, F) = Infinity
    BY <1>9, <1>11
  <2>2. Overflow(p, Asked(g), neg, emax) = Return(Inf(neg, p), Signed(neg, 1), {"overflow"})
    BY <1>7, <1>11 DEF Overflow
  <2>4. StandsFor(Inf(neg, p), p, sc, Infinity)
    BY DEF StandsFor, Inf
  <2>5. Infinity \in Nat /\ X < Infinity
    <3>1. 2^e <= 2^MaxBits /\ 2^e \in Nat /\ 2^MaxBits \in Nat
      BY <1>3, RealRoundingAssumption, PowMonotone, PowNat
    <3> QED
      BY <1>3, <3>1 DEF Infinity
  <2>6. Ternary(Infinity, X, neg) = Signed(neg, 1) /\ SignOf(Signed(neg, 1)) = Signed(neg, 1)
        /\ Signed(neg, 1) # 0
    BY <1>3, <2>5, TernaryIs, SignOfIs DEF Signed
  <2>7. CorrectFlags(X, p, g, neg, E, F) = {"inexact"} \cup {"overflow"}
    BY <1>3, <1>9, <2>1, <2>5
  <2> DEFINE c == Overflow(p, Asked(g), neg, emax)
  <2>8. c.y = Inf(neg, p) /\ c.inex = Signed(neg, 1) /\ c.raised = {"overflow"} \cup {"inexact"}
    BY <2>2, <2>6 DEF Return
  <2>9. Inf(neg, p).neg = neg
    BY DEF Inf
  <2> QED
    BY <1>8, <2>1, <2>4, <2>6, <2>7, <2>8, <2>9 DEF Delivers, E, F, y
<1> QED
  BY <1>10, <1>11

\* Nothing to do when the rounded number is in the range.
LEMMA CheckRangeInside ==
  ASSUME NEW p \in Nat, p > 0, NEW e \in 1..MaxBits, e < MaxBits, NEW X, HasLength(X, e),
         NEW g \in RoundingDirections, NEW neg \in BOOLEAN, NEW sc \in Nat,
         NEW emin \in Int, NEW emax \in Int, emin <= emax, emin + sc >= 2,
         NEW x \in Int, emin <= x, x <= emax, NEW m, NEW t,
         IsOneRounding(m, p, x + sc, t, X, g, neg, emin + sc)
  PROVE  LET c == CheckRange(Num(neg, x, m, p), t, Asked(g), emin, emax) IN
         /\ c = Return(Num(neg, x, m, p), t, {})
         /\ Delivers(c, p, sc, X, g, neg, emin + sc, emax + sc)
<1> DEFINE Y == RoundTo(X, p, g, neg)
           E == emin + sc
           F == emax + sc
           f == x + sc
           y == Num(neg, x, m, p)
<1>1. E \in Nat /\ F \in Nat /\ E <= f /\ f <= F /\ E >= 2 /\ E - 1 \in Nat /\ E - 2 \in Nat
  OBVIOUS
<1>2. Represents(m, p, f, Y) /\ HasLength(Y, f) /\ t \in Int
  BY RepresentsLength DEF IsOneRounding
<1>3. /\ f \in Nat /\ f - 1 \in Nat /\ f # 0 /\ 2^(f - 1) <= Y /\ Y < 2^f
      /\ e \in Nat /\ X < 2^e /\ X \in Nat /\ Y \in Nat
  BY <1>2 DEF HasLength
<1>4. Y <= 2^e /\ (X = 2^(e - 1) => Y = X)
  BY RoundToBounds
<1>5. f <= e + 1
  <2>1. ASSUME e < f - 1 PROVE FALSE
    <3>1. 2^e < 2^(f - 1) /\ 2^e \in Nat /\ 2^(f - 1) \in Nat
      BY <1>3, <2>1, PowStrict, PowNat
    <3> QED
      BY <1>3, <1>4, <3>1
  <2> QED
    BY <1>3, <2>1
<1>6. BitLength(Y) = f
  <2>1. f \in 1..MaxBits
    BY <1>3, <1>5, RealRoundingAssumption
  <2> QED
    BY <1>2, <2>1, BitLengthIs
<1>7. X # 2^(E - 2)
  <2>1. ASSUME X = 2^(E - 2) PROVE FALSE
    <3>1. HasLength(X, E - 1)
      <4>1. (E - 1) - 1 = E - 2 /\ E - 1 # 0 /\ 2^(E - 1) = 2 * 2^(E - 2)
            /\ 2^(E - 2) \in Nat /\ 2^(E - 2) > 0
        <5>1. (E - 1) - 1 = E - 2 /\ E - 1 # 0
          OBVIOUS
        <5> QED
          BY <1>1, <5>1, PowHalf, PowNat
      <4> HIDE DEF E
      <4> QED
        BY <1>1, <2>1, <4>1 DEF HasLength
    <3>2. E - 1 = e
      BY <3>1, LengthUnique
    <3>3. Y = X /\ X < 2^e
      BY <1>3, <1>4, <2>1, <3>2
    <3>4. 2^e <= 2^(f - 1) /\ 2^e \in Nat /\ 2^(f - 1) \in Nat
      <4>1. e <= f - 1
        BY <1>1, <3>2
      <4> QED
        BY <1>3, <4>1, PowMonotone, PowNat
    <3> QED
      BY <1>3, <3>3, <3>4
  <2> QED
    BY <2>1
<1>8. CheckRange(y, t, Asked(g), emin, emax) = Return(y, t, {})
  BY DEF CheckRange, Num
<1>9. /\ CorrectValue(X, p, g, neg, E, F) = Y
      /\ CorrectFlags(X, p, g, neg, E, F) = IF Y # X THEN {"inexact"} ELSE {}
  <2> HIDE DEF E, F
  <2>1. ~ (BitLength(Y) < E) /\ ~ (BitLength(Y) > F)
    BY <1>1, <1>3, <1>6
  <2>2. CorrectValue(X, p, g, neg, E, F) = Y
    BY <2>1 DEF CorrectValue
  <2> HIDE DEF Y
  <2>3. CorrectFlags(X, p, g, neg, E, F) =
           (IF CorrectValue(X, p, g, neg, E, F) # X THEN {"inexact"} ELSE {}) \cup {} \cup {}
    BY <2>1, Zenon DEF CorrectFlags, Y
  <2> QED
    BY <2>2, <2>3
<1>10. SignOf(t) = Ternary(Y, X, neg)
  BY <1>7 DEF IsOneRounding
<1>11. t = 0 <=> Y = X
  <2>1. (t = 0 <=> SignOf(t) = 0) /\ (Y = X <=> Ternary(Y, X, neg) = 0)
    BY <1>2, <1>3, SignOfIs, TernaryIs DEF Signed
  <2> QED
    BY <1>10, <2>1
<1> HIDE DEF Y, y, E, F, f
<1>12. StandsFor(y, p, sc, Y) /\ y.neg = neg
  BY <1>2 DEF StandsFor, Num, y, f
<1> DEFINE c == Return(y, t, {})
<1>13. c.y = y /\ c.inex = t /\ c.raised = IF Y # X THEN {"inexact"} ELSE {}
  BY <1>11 DEF Return
<1> QED
  BY <1>8, <1>9, <1>10, <1>12, <1>13 DEF Delivers, E, F, y

\* mpfr_check_range brings a rounded number of the extended range back to the user's:
\* value, ternary value and flags are those of the exact result rounded once.
THEOREM CheckRangeRight ==
  ASSUME NEW p \in Nat, p > 0, NEW e \in 1..MaxBits, e < MaxBits, NEW X, HasLength(X, e),
         NEW g \in RoundingDirections, NEW neg \in BOOLEAN, NEW sc \in Nat,
         NEW emin \in Int, NEW emax \in Int, emin <= emax, emin + sc >= 2, p <= emax + sc,
         NEW x \in Int, NEW m, NEW t,
         IsOneRounding(m, p, x + sc, t, X, g, neg, emin + sc)
  PROVE  LET c == CheckRange(Num(neg, x, m, p), t, Asked(g), emin, emax) IN
         Delivers(c, p, sc, X, g, neg, emin + sc, emax + sc)
<1>1. x < emin \/ emax < x \/ (emin <= x /\ x <= emax)
  OBVIOUS
<1> QED
  BY <1>1, CheckRangeBelow, CheckRangeAbove, CheckRangeInside

-----------------------------------------------------------------------------
(* The definition, by cases on the length n of the rounded number *)

\* A rounded number has the length of the exact one, or is the next power of two.
LEMMA RoundedLength ==
  ASSUME NEW p \in Nat, p > 0, NEW e \in 1..MaxBits, e < MaxBits, NEW X, HasLength(X, e),
         NEW g, NEW neg \in BOOLEAN
  PROVE  \E n \in 1..MaxBits :
            /\ HasLength(RoundTo(X, p, g, neg), n)
            /\ n = e \/ (n = e + 1 /\ RoundTo(X, p, g, neg) = 2^e)
<1> DEFINE Y == RoundTo(X, p, g, neg)
<1>1. e \in Nat /\ e - 1 \in Nat /\ MaxBits \in Nat
  BY RealRoundingAssumption
<1>2. Y \in Nat /\ 2^(e - 1) <= Y /\ Y <= 2^e
  BY RoundToBounds
<1>3. 2^e \in Nat /\ 2^e > 0 /\ 2^(e + 1) = 2 * 2^e
  BY <1>1, PowNat, PowSucc
<1>4. CASE Y < 2^e
  <2>1. HasLength(Y, e)
    BY <1>1, <1>2, <1>4 DEF HasLength
  <2> QED
    BY <2>1
<1>5. CASE Y = 2^e
  <2>1. (e + 1) - 1 = e /\ e + 1 # 0 /\ e + 1 \in 1..MaxBits
    BY <1>1
  <2>2. 2^((e + 1) - 1) = 2^e
    BY <2>1
  <2> HIDE DEF Y
  <2>3. HasLength(Y, e + 1)
    BY <1>1, <1>2, <1>3, <1>5, <2>1, <2>2 DEF HasLength
  <2> QED
    BY <1>5, <2>1, <2>3 DEF Y
<1> QED
  BY <1>2, <1>3, <1>4, <1>5

\* The rounding of a number of e bits has e bits, or is 2^e.
LEMMA RoundedLengthIs ==
  ASSUME NEW p \in Nat, p > 0, NEW e \in 1..MaxBits, e < MaxBits, NEW X, HasLength(X, e),
         NEW g, NEW neg \in BOOLEAN, NEW n, HasLength(RoundTo(X, p, g, neg), n)
  PROVE  n \in 1..MaxBits /\ (n = e \/ (n = e + 1 /\ RoundTo(X, p, g, neg) = 2^e))
<1>1. PICK k \in 1..MaxBits :
            /\ HasLength(RoundTo(X, p, g, neg), k)
            /\ k = e \/ (k = e + 1 /\ RoundTo(X, p, g, neg) = 2^e)
  BY RoundedLength
<1>2. n = k
  BY <1>1, LengthUnique
<1> QED
  BY <1>1, <1>2

\* The result for a rounded number of length n.
ValueFor(X, p, g, neg, E, F, n, V) ==
  /\ n < E => V = IF GoesUp(0, X, 2^(E - 1), g, neg) THEN 2^(E - 1) ELSE 0
  /\ E <= n /\ n <= F => V = RoundTo(X, p, g, neg)
  /\ E <= n /\ n > F =>
       V = IF TowardZero(g, neg) THEN (2^p - 1) * 2^(F - p) ELSE Infinity

\* The three cases of the correct result: underflow, overflow, the rounded number.
LEMMA CorrectValueIs ==
  ASSUME NEW p \in Nat, p > 0, NEW e \in 1..MaxBits, e < MaxBits, NEW X, HasLength(X, e),
         NEW g, NEW neg \in BOOLEAN, NEW n \in 1..MaxBits, HasLength(RoundTo(X, p, g, neg), n),
         NEW E \in Nat, E > 0, NEW F \in Nat, E <= F
  PROVE  /\ ValueFor(X, p, g, neg, E, F, n, CorrectValue(X, p, g, neg, E, F))
         /\ n < E => X < 2^(E - 1)
<1> DEFINE Y == RoundTo(X, p, g, neg)
<1>1. BitLength(Y) = n
  BY BitLengthIs
<1>2. e \in Nat /\ n \in Nat /\ X \in Nat
  BY DEF HasLength
<1>3. ASSUME n < E PROVE X < 2^(E - 1)
  <2>1. n = e \/ n = e + 1
    <3>1. PICK k \in 1..MaxBits : HasLength(Y, k) /\ (k = e \/ k = e + 1)
      BY RoundedLength
    <3> QED
      BY <3>1, LengthUnique
  <2>2. e <= E - 1 /\ E - 1 \in Nat
    BY <1>2, <1>3, <2>1
  <2>3. 2^e <= 2^(E - 1) /\ 2^e \in Nat /\ 2^(E - 1) \in Nat
    BY <1>2, <2>2, PowMonotone, PowNat
  <2> QED
    BY <2>3 DEF HasLength
<1>4. ASSUME n < E
      PROVE  CorrectValue(X, p, g, neg, E, F)
                = IF GoesUp(0, X, 2^(E - 1), g, neg) THEN 2^(E - 1) ELSE 0
  <2> DEFINE U == 2^(E - 1)
  <2>1. U \in Nat /\ X < U
    BY <1>3, <1>4, PowNat
  <2> HIDE DEF U
  <2>2. RoundToMultiple(X, U, g, neg) = IF GoesUp(0, X, U, g, neg) THEN U ELSE 0
    BY <1>2, <2>1, BelowUnitRounds
  <2>3. CorrectValue(X, p, g, neg, E, F) = RoundToMultiple(X, U, g, neg)
    BY <1>1, <1>2, <1>4 DEF CorrectValue, U
  <2> QED
    BY <2>2, <2>3 DEF U
<1>5. ASSUME E <= n, n <= F PROVE CorrectValue(X, p, g, neg, E, F) = Y
  BY <1>1, <1>2, <1>5 DEF CorrectValue
<1>6. ASSUME E <= n, n > F
      PROVE  CorrectValue(X, p, g, neg, E, F)
                = IF TowardZero(g, neg) THEN (2^p - 1) * 2^(F - p) ELSE Infinity
  <2>1. ~ (BitLength(Y) < E) /\ BitLength(Y) > F
    BY <1>1, <1>2, <1>6
  <2> HIDE DEF Y
  <2> QED
    BY <2>1 DEF CorrectValue, Y
<1> QED
  BY <1>3, <1>4, <1>5, <1>6 DEF ValueFor

\* Faithful rounding: a number that is one of the two around X, truncated or away from
\* zero, is brought back to one of the two results of the definition.
LEMMA CheckRangeFaithful ==
  ASSUME NEW p \in Nat, p > 0, NEW e \in 1..MaxBits, e < MaxBits, NEW X, HasLength(X, e),
         NEW g \in {"RNDZ", "RNDA"}, NEW neg \in BOOLEAN, NEW sc \in Nat,
         NEW emin \in Int, NEW emax \in Int, emin <= emax, emin + sc >= 2,
         NEW x \in Int, NEW m, NEW t, Represents(m, p, x + sc, RoundTo(X, p, g, neg))
  PROVE  LET c == CheckRange(Num(neg, x, m, p), t, "RNDF", emin, emax) IN
         \E d \in {"RNDZ", "RNDA"} :
            StandsFor(c.y, p, sc, CorrectValue(X, p, d, neg, emin + sc, emax + sc))
<1> DEFINE Y == RoundTo(X, p, g, neg)
           A == RoundTo(X, p, "RNDA", neg)
           E == emin + sc
           F == emax + sc
           f == x + sc
           y == Num(neg, x, m, p)
           c == CheckRange(y, t, "RNDF", emin, emax)
<1>1. E \in Nat /\ E > 0 /\ F \in Nat /\ E <= F /\ e \in Nat /\ X \in Nat
  BY DEF HasLength
<1>2. HasLength(Y, f) /\ f \in Nat
  BY RepresentsLength DEF HasLength
<1>3. PICK k \in 1..MaxBits : HasLength(Y, k) /\ (k = e \/ k = e + 1)
  BY RoundedLength
<1>4. f = k /\ f \in 1..MaxBits
  BY <1>2, <1>3, LengthUnique
<1>5. PICK n \in 1..MaxBits : HasLength(A, n) /\ (n = e \/ (n = e + 1 /\ A = 2^e))
  BY RoundedLength
<1>6. ValueFor(X, p, g, neg, E, F, f, CorrectValue(X, p, g, neg, E, F))
  BY <1>1, <1>2, <1>4, CorrectValueIs
<1>7. ValueFor(X, p, "RNDA", neg, E, F, n, CorrectValue(X, p, "RNDA", neg, E, F))
      /\ (n < E => X < 2^(E - 1))
  BY <1>1, <1>5, CorrectValueIs
<1>8. f <= n
  <2>1. CASE g = "RNDA"
    BY <1>2, <1>5, <2>1, LengthUnique
  <2>2. CASE g = "RNDZ"
    <3>1. Y <= X
      BY <2>2, RoundToBounds DEF TowardZero
    <3>2. ASSUME f = e + 1 PROVE FALSE
      <4>1. f - 1 = e
        BY <1>1, <3>2
      <4>2. 2^(f - 1) = 2^e
        BY <4>1
      <4>3. 2^e \in Nat
        BY <1>1, PowNat
      <4> QED
        BY <1>2, <3>1, <4>2, <4>3 DEF HasLength
    <3> QED
      BY <1>1, <1>3, <1>4, <1>5, <3>2
  <2> QED
    BY <2>1, <2>2
<1>9. y.kind = "num" /\ y.exp = x /\ y.neg = neg /\ y.prec = p /\ y.mant = m
  BY DEF Num
<1>10. CASE emin <= x /\ x <= emax
  <2>1. c = Return(y, t, {})
    BY <1>9, <1>10 DEF CheckRange
  <2>2. CorrectValue(X, p, g, neg, E, F) = Y
    BY <1>6, <1>10 DEF ValueFor
  <2>3. StandsFor(y, p, sc, Y)
    BY <1>9 DEF StandsFor
  <2>4. c.y = y
    BY <2>1 DEF Return
  <2> QED
    BY <2>2, <2>3, <2>4
<1>11. CASE x < emin
  <2>1. ~ IsLikeRNDZ("RNDF", neg)
    BY DEF IsLikeRNDZ
  <2>2. c = Underflow(p, "RNDF", neg, emin)
    BY <1>9, <1>11 DEF CheckRange
  <2>3. c.y = SetMin(neg, emin, p)
    BY <2>1, <2>2 DEF Underflow, Return
  <2>4. StandsFor(SetMin(neg, emin, p), p, sc, 2^(E - 1))
    BY <1>1, PowerRepresents DEF StandsFor, SetMin, Num
  <2>5. CorrectValue(X, p, "RNDA", neg, E, F) = 2^(E - 1)
    <3>1. f < E
      BY <1>11
    <3>2. CASE n < E
      <4>1. GoesUp(0, X, 2^(E - 1), "RNDA", neg)
        <5>1. 0 < X
          <6>1. 2^(e - 1) \in Nat /\ 2^(e - 1) > 0
            BY <1>1, PowNat
          <6> QED
            BY <6>1 DEF HasLength
        <5> QED
          BY <1>1, <5>1 DEF GoesUp
      <4> QED
        BY <1>7, <3>2, <4>1 DEF ValueFor
    <3>3. CASE n >= E
      <4>1. n = E /\ n = e + 1 /\ A = 2^e
        BY <1>1, <1>3, <1>4, <1>5, <3>1, <3>3
      <4>2. E - 1 = e
        BY <1>1, <4>1
      <4>3. A = 2^(E - 1)
        BY <4>1, <4>2
      <4>4. CorrectValue(X, p, "RNDA", neg, E, F) = A
        BY <1>1, <1>7, <4>1 DEF ValueFor
      <4> QED
        BY <4>3, <4>4
    <3> QED
      BY <1>1, <3>2, <3>3
  <2> QED
    BY <2>3, <2>4, <2>5
<1>12. CASE x > emax
  <2>1. ~ IsLikeRNDZ("RNDF", neg)
    BY DEF IsLikeRNDZ
  <2>2. c = Overflow(p, "RNDF", neg, emax)
    BY <1>9, <1>12 DEF CheckRange
  <2>3. c.y = Inf(neg, p)
    BY <2>1, <2>2 DEF Overflow, Return
  <2>4. StandsFor(Inf(neg, p), p, sc, Infinity)
    BY DEF StandsFor, Inf
  <2>5. n > F /\ E <= n
    BY <1>1, <1>4, <1>8, <1>12
  <2>6. ~ TowardZero("RNDA", neg)
    BY DEF TowardZero
  <2>7. CorrectValue(X, p, "RNDA", neg, E, F) = Infinity
    BY <1>7, <2>5, <2>6 DEF ValueFor
  <2> QED
    BY <2>3, <2>4, <2>7
<1> QED
  BY <1>10, <1>11, <1>12

-----------------------------------------------------------------------------
(***************************************************************************)
(* What can be known of the rounding of a number X from another one close  *)
(* to it.                                                                  *)
(*                                                                         *)
(* When it is already a rounding of X: the first rounding left             *)
(* Y = (q*u + r) * v, less than v away from X, and a ternary value which   *)
(* tells the sign of d = X - Y.  The second one keeps q and sees r.  Then  *)
(* q, or q - 1 when r = 0 and d < 0, is what X itself leaves, and r and    *)
(* the sign of d are enough to round X: the results the second rounding    *)
(* hesitates between (Candidates) are those of X.                          *)
(*                                                                         *)
(* When it is an approximation whose error stays between two consecutive   *)
(* numbers of the precision (Clear): X and the approximation round alike.  *)
(***************************************************************************)

-----------------------------------------------------------------------------
(* Rounding twice.  The first rounding leaves (q*u + r) * v, less than v    *)
(* away from X: d is the difference.  The second one keeps q and sees r.   *)

IsProduct(U, u, v) == U = u * v

Near(X, v, u, q, r, d) ==
  /\ v > 0 /\ -v < d /\ d < v
  /\ r < u
  /\ X = (q * u + r) * v + d

\* The quotient of a number that is less than v away from (q*u + r)*v.
LEMMA NearQuotient ==
  ASSUME NEW X \in Nat, NEW v \in Nat, NEW u \in Nat, NEW q \in Nat, NEW r \in Nat, NEW d \in Int,
         Near(X, v, u, q, r, d), NEW U \in Nat, IsProduct(U, u, v)
  PROVE  /\ ~ (r = 0 /\ d < 0) => r * v + d \in Nat /\ IsQuotient(X, U, q, r * v + d)
         /\ r = 0 /\ d < 0 => q - 1 \in Nat /\ U + d \in Nat /\ IsQuotient(X, U, q - 1, U + d)
<1>1. v > 0 /\ -v < d /\ d < v /\ r < u
  BY DEF Near
<1>0. U = u * v
  BY DEF IsProduct
<1>2. X = q * U + (r * v + d)
  <2>1. X = (q * u + r) * v + d
    BY DEF Near
  <2>2. (q * u + r) * v = q * (u * v) + r * v
    OBVIOUS
  <2> QED
    BY <1>0, <2>1, <2>2
<1>3. r * v \in Nat /\ u * v \in Nat
  OBVIOUS
<1>4. ASSUME ~ (r = 0 /\ d < 0)
      PROVE  r * v + d \in Nat /\ IsQuotient(X, U, q, r * v + d)
  <2>1. r * v + d >= 0
    <3>1. CASE r = 0
      BY <1>1, <1>4, <3>1
    <3>2. CASE r >= 1
      <4>1. 1 * v <= r * v
        BY <3>2, MulMono
      <4> QED
        BY <1>1, <1>3, <4>1
    <3> QED
      BY <3>1, <3>2
  <2>2. r * v + d < U
    <3>1. r + 1 <= u
      BY <1>1
    <3>2. (r + 1) * v <= u * v
      BY <3>1, MulMono
    <3>3. (r + 1) * v = r * v + v
      OBVIOUS
    <3> QED
      BY <1>0, <1>1, <1>3, <3>2, <3>3
  <2> DEFINE R == r * v + d
  <2>3. R \in Nat /\ R < U /\ X = q * U + R /\ U > 0
    BY <1>0, <1>1, <1>2, <1>3, <2>1, <2>2
  <2> HIDE DEF R
  <2>4. R \in Nat /\ IsQuotient(X, U, q, R)
    BY <2>3 DEF IsQuotient
  <2> QED
    BY <2>4 DEF R
<1>5. ASSUME r = 0, d < 0
      PROVE  q - 1 \in Nat /\ U + d \in Nat /\ IsQuotient(X, U, q - 1, U + d)
  <2>1. X = q * U + d
    BY <1>2, <1>5
  <2>2. 1 * v <= u * v
    <3>1. 1 <= u
      BY <1>1
    <3> QED
      BY <3>1, MulMono
  <2>3. U + d > 0
    BY <1>0, <1>1, <1>3, <2>2
  <2>4. q # 0
    <3>1. ASSUME q = 0 PROVE FALSE
      <4>1. X = d
        BY <2>1, <3>1
      <4> QED
        BY <1>5, <4>1
    <3> QED
      BY <3>1
  <2> DEFINE R == U + d
  <2>5. q - 1 \in Nat /\ R \in Nat /\ R < U /\ U > 0 /\ X = (q - 1) * U + R
    <3>1. (q - 1) * U = q * U - U
      OBVIOUS
    <3> QED
      BY <1>0, <1>3, <1>5, <2>1, <2>3, <2>4, <3>1
  <2> HIDE DEF R
  <2>6. R \in Nat /\ IsQuotient(X, U, q - 1, R)
    BY <2>5 DEF IsQuotient
  <2> QED
    BY <2>5, <2>6 DEF R
<1> QED
  BY <1>4, <1>5

ToOneSide == {"RNDZ", "RNDU", "RNDD", "RNDA"}

\* The multiple of U a direction gives, from what is seen of X: see the lemmas below.
SideSeen(g, neg, q, r, d, U) ==
  (IF g = "RNDA" \/ g = (IF neg THEN "RNDD" ELSE "RNDU")
   THEN IF r # 0 \/ d > 0 THEN q + 1 ELSE q
   ELSE IF r = 0 /\ d < 0 THEN q - 1 ELSE q) * U

EvenSeen(q, r, h, d, U) ==
  (IF r > h \/ (r = h /\ (d > 0 \/ (d = 0 /\ q % 2 = 1))) THEN q + 1 ELSE q) * U

AwaySeen(q, r, h, d, U) == (IF r > h \/ (r = h /\ d >= 0) THEN q + 1 ELSE q) * U

\* The two grids: multiples of U = u * v, seen through multiples of v.
Grids(X, v, u, U, q, r, d) == Near(X, v, u, q, r, d) /\ IsProduct(U, u, v)

EvenGrids(X, v, u, h, U, q, r, d) == Grids(X, v, u, U, q, r, d) /\ IsProduct(u, 2, h)

SideRounds(X, U, q, r, d) ==
  \A g \in ToOneSide, neg \in BOOLEAN : RoundToMultiple(X, U, g, neg) = SideSeen(g, neg, q, r, d, U)

NearestRounds(X, U, q, r, h, d) ==
  \A neg \in BOOLEAN :
    /\ RoundToMultiple(X, U, "RNDN", neg) = EvenSeen(q, r, h, d, U)
    /\ RoundToMultiple(X, U, "RNDNA", neg) = AwaySeen(q, r, h, d, U)

\* To a direction, whatever the first rounding.
LEMMA NearDirected ==
  ASSUME NEW X \in Nat, NEW v \in Nat, NEW u \in Nat, NEW U \in Nat, NEW q \in Nat, NEW r \in Nat,
         NEW d \in Int, Grids(X, v, u, U, q, r, d)
  PROVE  SideRounds(X, U, q, r, d)
<1> SUFFICES ASSUME NEW g \in ToOneSide, NEW neg \in BOOLEAN
             PROVE  RoundToMultiple(X, U, g, neg) = SideSeen(g, neg, q, r, d, U)
  BY DEF SideRounds
<1>9. Near(X, v, u, q, r, d) /\ IsProduct(U, u, v)
  BY DEF Grids
<1>1. v > 0 /\ -v < d /\ d < v
  BY <1>9 DEF Near
<1>0. U = u * v
  BY <1>9 DEF IsProduct
<1> DEFINE away == g = "RNDA" \/ g = (IF neg THEN "RNDD" ELSE "RNDU")
<1>2. ASSUME NEW k, NEW s PROVE GoesUp(k, s, U, g, neg) <=> s # 0 /\ away
  BY DEF GoesUp, ToOneSide
<1> HIDE DEF away
<1>3. CASE r = 0 /\ d < 0
  <2>1. q - 1 \in Nat /\ U + d \in Nat /\ IsQuotient(X, U, q - 1, U + d)
    BY <1>3, <1>9, NearQuotient
  <2>2. RoundToMultiple(X, U, g, neg) =
          (IF GoesUp(q - 1, U + d, U, g, neg) THEN (q - 1) + 1 ELSE q - 1) * U
    BY <2>1, QuotientRounds
  <2>3. U + d # 0
    <3>1. 1 * v <= u * v /\ u * v \in Nat
      <4>1. 1 <= u
        BY <1>9 DEF Near
      <4> QED
        BY <4>1, MulMono
    <3> QED
      BY <1>0, <1>1, <3>1
  <2>4. (q - 1) + 1 = q
    OBVIOUS
  <2>5. CASE away
    BY <1>2, <1>3, <2>2, <2>3, <2>4, <2>5 DEF away, SideSeen
  <2>6. CASE ~ away
    BY <1>2, <1>3, <2>2, <2>3, <2>4, <2>6 DEF away, SideSeen
  <2> QED
    BY <2>5, <2>6
<1>4. CASE ~ (r = 0 /\ d < 0)
  <2> DEFINE R == r * v + d
  <2>1. R \in Nat /\ IsQuotient(X, U, q, R)
    BY <1>4, <1>9, NearQuotient
  <2>2. R = 0 <=> r = 0 /\ d = 0
    <3>1. CASE r = 0
      BY <3>1
    <3>2. CASE r >= 1
      <4>1. 1 * v <= r * v /\ r * v \in Nat
        BY <3>2, MulMono
      <4> QED
        BY <1>1, <3>2, <4>1
    <3> QED
      BY <3>1, <3>2
  <2> HIDE DEF R
  <2>3. RoundToMultiple(X, U, g, neg) = (IF GoesUp(q, R, U, g, neg) THEN q + 1 ELSE q) * U
    BY <2>1, QuotientRounds
  <2>4. (r # 0 \/ d > 0) <=> R # 0
    BY <1>4, <2>2
  <2>5. CASE away
    BY <1>2, <1>4, <2>3, <2>4, <2>5 DEF away, SideSeen
  <2>6. CASE ~ away
    BY <1>2, <1>4, <2>3, <2>6 DEF away, SideSeen
  <2> QED
    BY <2>5, <2>6
<1> QED
  BY <1>3, <1>4

\* To nearest: u is even, so that the midpoints are on the first grid.
LEMMA NearNearest ==
  ASSUME NEW X \in Nat, NEW v \in Nat, NEW u \in Nat, NEW h \in Nat, NEW U \in Nat,
         NEW q \in Nat, NEW r \in Nat, NEW d \in Int, EvenGrids(X, v, u, h, U, q, r, d)
  PROVE  NearestRounds(X, U, q, r, h, d)
<1> SUFFICES ASSUME NEW neg \in BOOLEAN
             PROVE  /\ RoundToMultiple(X, U, "RNDN", neg) = EvenSeen(q, r, h, d, U)
                    /\ RoundToMultiple(X, U, "RNDNA", neg) = AwaySeen(q, r, h, d, U)
  BY DEF NearestRounds
<1>9. Near(X, v, u, q, r, d) /\ IsProduct(U, u, v) /\ IsProduct(u, 2, h)
  BY DEF EvenGrids, Grids
<1>1. v > 0 /\ -v < d /\ d < v /\ r < 2 * h /\ h > 0
  BY <1>9 DEF Near, IsProduct
<1>2. h * v \in Nat /\ r * v \in Nat /\ U = 2 * (h * v)
  BY <1>9 DEF IsProduct
<1>3. ASSUME NEW k, NEW s \in Nat
      PROVE  /\ GoesUp(k, s, U, "RNDN", neg) <=> s # 0 /\ (2 * s > U \/ (2 * s = U /\ k % 2 = 1))
             /\ GoesUp(k, s, U, "RNDNA", neg) <=> s # 0 /\ 2 * s >= U
  BY DEF GoesUp
<1>4. CASE r = 0 /\ d < 0
  <2>1. q - 1 \in Nat /\ U + d \in Nat /\ IsQuotient(X, U, q - 1, U + d)
    BY <1>1, <1>4, <1>9, NearQuotient
  <2>2. ASSUME NEW g
        PROVE  RoundToMultiple(X, U, g, neg) =
                 (IF GoesUp(q - 1, U + d, U, g, neg) THEN (q - 1) + 1 ELSE q - 1) * U
    <3> DEFINE k == q - 1
               R == U + d
    <3> HIDE DEF k, R
    <3>1. k \in Nat /\ R \in Nat /\ IsQuotient(X, U, k, R)
      BY <2>1 DEF k, R
    <3>2. RoundToMultiple(X, U, g, neg) = (IF GoesUp(k, R, U, g, neg) THEN k + 1 ELSE k) * U
      BY <3>1, QuotientRounds
    <3> QED
      BY <3>2 DEF k, R
  <2>3. U + d # 0 /\ 2 * (U + d) > U
    <3>1. 1 * v <= h * v
      <4>1. 1 <= h
        BY <1>1
      <4> QED
        BY <4>1, MulMono
    <3> QED
      BY <1>1, <1>2, <3>1
  <2>4. (q - 1) + 1 = q
    OBVIOUS
  <2>5. ASSUME NEW g \in {"RNDN", "RNDNA"} PROVE GoesUp(q - 1, U + d, U, g, neg)
    BY <1>3, <2>1, <2>3
  <2>6. ~ (r > h) /\ r # h
    BY <1>1, <1>4
  <2>7. ASSUME NEW g \in {"RNDN", "RNDNA"} PROVE RoundToMultiple(X, U, g, neg) = q * U
    BY <2>2, <2>4, <2>5
  <2> QED
    BY <2>6, <2>7 DEF EvenSeen, AwaySeen
<1>5. CASE ~ (r = 0 /\ d < 0)
  <2> DEFINE R == r * v + d
  <2>1. R \in Nat /\ IsQuotient(X, U, q, R)
    BY <1>1, <1>5, <1>9, NearQuotient
  <2>2. (2 * R > U <=> r > h \/ (r = h /\ d > 0)) /\ (2 * R = U <=> r = h /\ d = 0)
    <3>1. CASE r > h
      <4>1. h + 1 <= r /\ (h + 1) * v = h * v + v
        BY <3>1
      <4>2. (h + 1) * v <= r * v
        BY <4>1, MulMono
      <4> QED
        BY <1>1, <1>2, <3>1, <4>1, <4>2
    <3>2. CASE r = h
      <4>1. r * v = h * v
        BY <3>2
      <4> QED
        BY <1>1, <1>2, <3>2, <4>1
    <3>3. CASE r < h
      <4>1. r + 1 <= h /\ (r + 1) * v = r * v + v
        BY <3>3
      <4>2. (r + 1) * v <= h * v
        BY <4>1, MulMono
      <4> QED
        BY <1>1, <1>2, <3>3, <4>1, <4>2
    <3> QED
      BY <3>1, <3>2, <3>3
  <2> HIDE DEF R
  <2>3. R = 0 => ~ (2 * R > U) /\ 2 * R # U
    <3>1. h * v > 0
      BY <1>1
    <3> QED
      BY <1>2, <3>1
  <2>4. ASSUME NEW g
        PROVE  RoundToMultiple(X, U, g, neg) = (IF GoesUp(q, R, U, g, neg) THEN q + 1 ELSE q) * U
    BY <2>1, QuotientRounds
  <2>5. GoesUp(q, R, U, "RNDN", neg) <=> r > h \/ (r = h /\ (d > 0 \/ (d = 0 /\ q % 2 = 1)))
    BY <1>3, <2>1, <2>2, <2>3
  <2>6. GoesUp(q, R, U, "RNDNA", neg) <=> r > h \/ (r = h /\ d >= 0)
    <3>1. GoesUp(q, R, U, "RNDNA", neg) <=> R # 0 /\ (2 * R > U \/ 2 * R = U)
      BY <1>3, <2>1
    <3> QED
      BY <2>2, <2>3, <3>1
  <2> QED
    BY <2>4, <2>5, <2>6 DEF EvenSeen, AwaySeen
<1> QED
  BY <1>4, <1>5

\* The number left by a rounding of X to P bits: t units of v, or the power of two above.
LEMMA RoundedLong ==
  ASSUME NEW P \in Nat, P > 0, NEW e \in 1..MaxBits, P < e, NEW X, HasLength(X, e),
         NEW g, NEW neg \in BOOLEAN, NEW m, NEW f, NEW Y, Y = RoundTo(X, P, g, neg),
         Represents(m, P, f, Y)
  PROVE  \E t \in Nat, v \in Nat :
            /\ v = 2^(e - P) /\ v > 0
            /\ Y = t * v
            /\ -v < X - Y /\ X - Y < v
            /\ 2^(P - 1) <= t /\ t <= 2^P
            /\ t < 2^P => m = t /\ f = e
            /\ t = 2^P => m = 2^(P - 1) /\ f = e + 1 /\ X < Y
<1>1. e \in Nat /\ X \in Nat /\ 2^(e - 1) <= X /\ X < 2^e
  BY DEF HasLength
<1>2. PICK v \in Nat, q \in Nat, r \in Nat : Cut(X, e, P, v, q, r)
  BY <1>1, CutExists
<1>3. IsSignificand(X, e)
  BY <1>1 DEF IsSignificand
<1>4. IsSignificand(q, P) /\ 2^e = 2^P * v
  BY <1>1, <1>2, <1>3, CutIs
<1>5. RoundTo(X, P, g, neg) = (IF GoesUp(q, r, v, g, neg) THEN q + 1 ELSE q) * v
  BY <1>2, RoundToLong
<1>6. v = 2^(e - P) /\ v > 0 /\ r < v /\ X = q * v + r
  BY <1>2 DEF Cut
<1>7. 2^(P - 1) \in Nat /\ 2^P \in Nat /\ 2^(P - 1) <= q /\ q < 2^P
  BY <1>4, PowNat DEF IsSignificand
<1> DEFINE t == IF GoesUp(q, r, v, g, neg) THEN q + 1 ELSE q
<1>8. GoesUp(q, r, v, g, neg) => r # 0
  BY DEF GoesUp
<1>9. t \in Nat /\ 2^(P - 1) <= t /\ t <= 2^P /\ (t = q \/ (t = q + 1 /\ r # 0))
  BY <1>7, <1>8
<1>10. Y = t * v
  BY <1>5
<1> HIDE DEF t
<1>11. -v < X - Y /\ X - Y < v /\ (t = q + 1 => X < Y) /\ (t = q => Y <= X)
  <2>1. (q + 1) * v = q * v + v /\ q * v \in Nat
    OBVIOUS
  <2>2. CASE t = q
    <3>1. Y = q * v
      BY <1>10, <2>2
    <3> QED
      BY <1>6, <2>1, <2>2, <3>1
  <2>3. CASE t = q + 1 /\ r # 0
    <3>1. Y = q * v + v
      BY <1>10, <2>1, <2>3
    <3> QED
      BY <1>6, <2>1, <2>3, <3>1
  <2> QED
    BY <1>9, <2>2, <2>3
<1>12. ASSUME t < 2^P PROVE m = t /\ f = e
  <2>1. IsSignificand(t, P)
    BY <1>9, <1>12 DEF IsSignificand
  <2>2. Represents(t, P, e, t * 2^(e - P))
    BY <1>1, <1>9, <2>1, RepresentsMultiple
  <2>3. Represents(t, P, e, Y)
    BY <1>6, <1>10, <2>2
  <2> QED
    BY <2>3, RepresentsUnique
<1>13. ASSUME t = 2^P PROVE m = 2^(P - 1) /\ f = e + 1 /\ X < Y
  <2>1. e + 1 \in Nat /\ e + 1 > 0 /\ (e + 1) - 1 = e
    BY <1>1
  <2>2. Represents(2^(P - 1), P, e + 1, 2^((e + 1) - 1))
    BY <2>1, PowerRepresents
  <2>3. Y = 2^e
    BY <1>4, <1>10, <1>13
  <2>4. Represents(2^(P - 1), P, e + 1, Y)
    BY <2>1, <2>2, <2>3
  <2>5. m = 2^(P - 1) /\ f = e + 1
    BY <2>4, RepresentsUnique
  <2>6. t # q
    BY <1>7, <1>13
  <2> QED
    BY <1>9, <1>11, <2>5, <2>6
<1> QED
  BY <1>6, <1>9, <1>10, <1>11, <1>12, <1>13

\* What a rounding to p bits sees of X through its rounding to P bits: the bits (q2, r2)
\* of the significand m stand to u2 as R stands to u on the grid of X itself.
Twice(X, Y, e, f, p, q2, r2, u2, v, u, Q, R) ==
  /\ Near(X, v, u, Q, R, X - Y)
  /\ IsProduct(2^(e - p), u, v)
  /\ 2^(p - 1) <= Q /\ Q <= 2^p
  /\ r2 = 0 <=> R = 0
  /\ 2 * r2 > u2 <=> 2 * R > u
  /\ 2 * r2 = u2 <=> 2 * R = u
  /\ Q < 2^p => q2 = Q /\ f = e
  /\ Q = 2^p => q2 = 2^(p - 1) /\ f = e + 1 /\ R = 0 /\ X < Y
  /\ u = 1 => u2 = 1
  /\ u # 1 => \E h \in Nat : u = 2 * h

\* A first rounding that drops bits: the second one's quotient and remainder give the exact
\* result's.
LEMMA TwiceLong ==
  ASSUME NEW p \in Nat, p > 0, NEW P \in Nat, p <= P,
         NEW e \in 1..MaxBits, P < e, NEW X, HasLength(X, e),
         NEW g, NEW neg \in BOOLEAN, NEW m, NEW f, NEW Y, Y = RoundTo(X, P, g, neg),
         Represents(m, P, f, Y),
         NEW u2 \in Nat, NEW q2 \in Nat, NEW r2 \in Nat, Cut(m, P, p, u2, q2, r2)
  PROVE  \E v \in Nat, u \in Nat, Q \in Nat, R \in Nat :
            Twice(X, Y, e, f, p, q2, r2, u2, v, u, Q, R)
<1>1. PICK t \in Nat, v \in Nat :
            /\ v = 2^(e - P) /\ v > 0
            /\ Y = t * v
            /\ -v < X - Y /\ X - Y < v
            /\ 2^(P - 1) <= t /\ t <= 2^P
            /\ t < 2^P => m = t /\ f = e
            /\ t = 2^P => m = 2^(P - 1) /\ f = e + 1 /\ X < Y
  BY RoundedLong
<1>2. e \in Nat /\ X \in Nat /\ P - 1 \in Nat /\ p - 1 \in Nat /\ P - p \in Nat
  BY DEF HasLength
<1>3. m \in Nat /\ IsSignificand(m, P)
  BY DEF Represents, IsSignificand
<1>4. u2 = 2^(P - p) /\ u2 > 0 /\ r2 < u2 /\ m = q2 * u2 + r2
  BY DEF Cut
<1>5. IsSignificand(q2, p) /\ 2^P = 2^p * u2
  BY <1>3, CutIs
<1>6. 2^(e - p) = u2 * v
  <2>1. e - p = (P - p) + (e - P) /\ e - P \in Nat
    BY <1>2
  <2> QED
    BY <1>1, <1>2, <1>4, <2>1, PowAdd
<1>7. u2 # 1 => \E h \in Nat : u2 = 2 * h
  <2>1. P = p => u2 = 1
    <3>1. ASSUME P = p PROVE P - p = 0
      BY <3>1
    <3>2. ASSUME P = p PROVE u2 = 2^0
      BY <1>4, <3>1, <3>2, Zenon
    <3> QED
      BY <3>2, PowZero
  <2>2. ASSUME P # p PROVE \E h \in Nat : u2 = 2 * h
    <3>1. P - p # 0
      BY <2>2
    <3>2. (P - p) - 1 \in Nat /\ 2^(P - p) = 2 * 2^((P - p) - 1)
      BY <1>2, <3>1, PowHalf
    <3>3. 2^((P - p) - 1) \in Nat
      BY <3>2, PowNat
    <3> QED
      BY <1>4, <3>2, <3>3
  <2> QED
    BY <2>1, <2>2
<1>8. 2^(p - 1) \in Nat /\ 2^p \in Nat /\ 2^p = 2 * 2^(p - 1) /\ 2^(p - 1) > 0
      /\ 2^P = 2 * 2^(P - 1) /\ 2^(P - 1) \in Nat
  BY <1>2, PowNat, PowHalf
<1>9. CASE t < 2^P
  <2>1. m = t /\ f = e
    BY <1>1, <1>9
  <2>2. X = (q2 * u2 + r2) * v + (X - Y)
    <3>1. Y = (q2 * u2 + r2) * v
      BY <1>1, <1>4, <2>1
    <3> DEFINE Z == (q2 * u2 + r2) * v
    <3>2. Z \in Nat /\ Y = Z
      BY <3>1
    <3> HIDE DEF Z
    <3>3. X = Z + (X - Y)
      BY <1>2, <3>2
    <3> QED
      BY <3>3 DEF Z
  <2>3. Near(X, v, u2, q2, r2, X - Y)
    BY <1>1, <1>4, <2>2 DEF Near
  <2>4. 2^(p - 1) <= q2 /\ q2 < 2^p
    BY <1>5 DEF IsSignificand
  <2>5. Twice(X, Y, e, f, p, q2, r2, u2, v, u2, q2, r2)
    BY <1>6, <1>7, <1>8, <2>1, <2>3, <2>4 DEF Twice, IsProduct
  <2> QED
    BY <2>5
<1>10. CASE t = 2^P
  <2>1. m = 2^(P - 1) /\ f = e + 1 /\ X < Y
    BY <1>1, <1>10
  <2>2. q2 = 2^(p - 1) /\ r2 = 0
    <3>1. m = 2^(p - 1) * u2 + 0
      BY <1>3, <1>5, <1>8, <2>1
    <3>2. m \div u2 = 2^(p - 1) /\ m % u2 = 0
      BY <1>4, <1>8, <3>1, DivModUnique
    <3>3. m \div u2 = q2 /\ m % u2 = r2
      BY <1>4, DivModUnique
    <3> QED
      BY <3>2, <3>3
  <2>3. X = (2^p * u2 + 0) * v + (X - Y)
    <3>1. Y = (2^p * u2 + 0) * v
      BY <1>1, <1>5, <1>8, <1>10
    <3> DEFINE Z == (2^p * u2 + 0) * v
    <3>2. Z \in Int /\ Y = Z
      BY <1>8, <3>1
    <3> HIDE DEF Z
    <3>3. X = Z + (X - Y)
      BY <1>2, <3>2
    <3> QED
      BY <3>3 DEF Z
  <2>4. Near(X, v, u2, 2^p, 0, X - Y)
    BY <1>1, <1>4, <2>3 DEF Near
  <2>5. Twice(X, Y, e, f, p, q2, r2, u2, v, u2, 2^p, 0)
    BY <1>4, <1>6, <1>7, <1>8, <2>1, <2>2, <2>4 DEF Twice, IsProduct
  <2> QED
    BY <1>8, <2>5
<1> QED
  BY <1>1, <1>8, <1>9, <1>10

\* The same for a first rounding that is exact.
LEMMA TwiceShort ==
  ASSUME NEW p \in Nat, p > 0, NEW P \in Nat,
         NEW e \in 1..MaxBits, p < e, e <= P, NEW X, HasLength(X, e),
         NEW g, NEW neg \in BOOLEAN, NEW m, NEW f, NEW Y, Y = RoundTo(X, P, g, neg),
         Represents(m, P, f, Y),
         NEW u2 \in Nat, NEW q2 \in Nat, NEW r2 \in Nat, Cut(m, P, p, u2, q2, r2)
  PROVE  \E v \in Nat, u \in Nat, Q \in Nat, R \in Nat :
            Twice(X, Y, e, f, p, q2, r2, u2, v, u, Q, R)
<1>1. e \in Nat /\ X \in Nat /\ P > 0
  BY DEF HasLength
<1>2. Y = X
  BY <1>1, RoundToShort
<1>3. Represents(X * 2^(P - e), P, e, X)
  BY RepresentsShort
<1>4. m = X * 2^(P - e) /\ f = e
  BY <1>1, <1>2, <1>3, RepresentsUnique
<1>5. PICK u \in Nat, Q \in Nat, R \in Nat : Cut(X, e, p, u, Q, R)
  BY <1>1, CutExists
<1>6. u = 2^(e - p) /\ u > 0 /\ R < u /\ X = Q * u + R
  BY <1>5 DEF Cut
<1>7. IsSignificand(Q, p)
  <2>1. IsSignificand(X, e)
    BY DEF HasLength, IsSignificand
  <2> QED
    BY <1>1, <1>5, <2>1, CutIs
<1>8. u2 = 2^(P - p) /\ u2 > 0 /\ r2 < u2 /\ m = q2 * u2 + r2
  BY DEF Cut
<1> DEFINE k == 2^(P - e)
<1>9. k \in Nat /\ k > 0 /\ u2 = u * k
  <2>1. P - e \in Nat /\ e - p \in Nat /\ P - p = (e - p) + (P - e)
    BY <1>1
  <2> QED
    BY <1>6, <1>8, <2>1, PowNat, PowAdd
<1>10. m = X * k
  BY <1>4
<1> HIDE DEF k
<1>11. q2 = Q /\ r2 = R * k
  <2>1. m = Q * (u * k) + R * k
    BY <1>6, <1>9, <1>10
  <2>2. R * k < u * k /\ R * k \in Nat
    BY <1>6, <1>9
  <2>3. m = Q * u2 + R * k /\ R * k < u2
    BY <1>9, <2>1, <2>2
  <2>4. m \div u2 = Q /\ m % u2 = R * k
    BY <1>8, <2>2, <2>3, DivModUnique
  <2>5. m \div u2 = q2 /\ m % u2 = r2
    BY <1>8, DivModUnique
  <2> QED
    BY <2>4, <2>5
<1>12. /\ r2 = 0 <=> R = 0
       /\ 2 * r2 > u2 <=> 2 * R > u
       /\ 2 * r2 = u2 <=> 2 * R = u
  <2>1. 2 * r2 = (2 * R) * k /\ u2 = u * k /\ r2 = R * k /\ 0 * k = 0
    BY <1>9, <1>11
  <2> DEFINE a == 2 * R
  <2>2. a \in Int
    OBVIOUS
  <2>3. /\ u * k < a * k <=> u < a
        /\ a * k = u * k <=> a = u
        /\ R * k = 0 * k <=> R = 0
    <3> HIDE DEF a
    <3>1. /\ u * k < a * k => u < a
          /\ a * k = u * k => a = u
          /\ R * k = 0 * k => R = 0
      BY <1>9, <2>2, MulCancel
    <3>2. u < a => u * k < a * k
      BY <1>9, <2>2
    <3> QED
      BY <3>1, <3>2
  <2> HIDE DEF a
  <2>4. (2 * r2 > u2 <=> u < a) /\ (2 * r2 = u2 <=> a = u) /\ 2 * r2 \in Int
    BY <2>1, <2>3 DEF a
  <2> QED
    BY <2>1, <2>3, <2>4 DEF a
<1>13. \E h \in Nat : u = 2 * h
  <2>1. e - p \in Nat /\ e - p # 0
    BY <1>1
  <2>2. (e - p) - 1 \in Nat /\ 2^(e - p) = 2 * 2^((e - p) - 1)
    BY <2>1, PowHalf
  <2>3. 2^((e - p) - 1) \in Nat
    BY <2>2, PowNat
  <2> QED
    BY <1>6, <2>2, <2>3
<1>14. Near(X, 1, u, Q, R, X - Y)
  BY <1>1, <1>2, <1>6 DEF Near
<1>15. 2^(p - 1) <= Q /\ Q < 2^p /\ 2^p \in Nat
  BY <1>7, PowNat DEF IsSignificand
<1>16. 2^(e - p) = u * 1
  BY <1>6
<1>17. Twice(X, Y, e, f, p, q2, r2, u2, 1, u, Q, R)
  <2>1. u # 1
    BY <1>13
  <2> QED
    BY <1>4, <1>11, <1>12, <1>13, <1>14, <1>15, <1>16, <2>1 DEF Twice, IsProduct
<1> QED
  BY <1>17

\* Both: whatever the first precision, P >= p.
LEMMA TwiceExists ==
  ASSUME NEW p \in Nat, p > 0, NEW P \in Nat, p <= P,
         NEW e \in 1..MaxBits, p < e, NEW X, HasLength(X, e),
         NEW g, NEW neg \in BOOLEAN, NEW m, NEW f, NEW Y, Y = RoundTo(X, P, g, neg),
         Represents(m, P, f, Y),
         NEW u2 \in Nat, NEW q2 \in Nat, NEW r2 \in Nat, Cut(m, P, p, u2, q2, r2)
  PROVE  \E v \in Nat, u \in Nat, Q \in Nat, R \in Nat :
            Twice(X, Y, e, f, p, q2, r2, u2, v, u, Q, R)
<1>1. e <= P \/ P < e
  OBVIOUS
<1> QED
  BY <1>1, TwiceShort, TwiceLong

\* A number that is already short is kept by the cut.
LEMMA CutShort ==
  ASSUME NEW p \in Nat, p > 0, NEW P \in Nat, p <= P, NEW e, e <= p, NEW X, HasLength(X, e),
         NEW m, NEW f, Represents(m, P, f, X),
         NEW u2 \in Nat, NEW q2 \in Nat, NEW r2 \in Nat, Cut(m, P, p, u2, q2, r2)
  PROVE  f = e /\ r2 = 0 /\ Represents(q2, p, f, X)
<1>1. e \in Nat /\ X \in Nat /\ P > 0 /\ e <= P
  BY DEF HasLength
<1>2. Represents(X * 2^(P - e), P, e, X)
  BY <1>1, RepresentsShort
<1>3. m = X * 2^(P - e) /\ f = e
  BY <1>1, <1>2, RepresentsUnique
<1>4. Represents(X * 2^(p - e), p, e, X)
  BY RepresentsShort
<1>5. u2 = 2^(P - p) /\ u2 > 0 /\ r2 < u2 /\ m = q2 * u2 + r2
  BY DEF Cut
<1>6. P - e = (p - e) + (P - p) /\ p - e \in Nat /\ P - p \in Nat
  BY <1>1
<1>7. 2^(P - e) = 2^(p - e) * u2 /\ 2^(p - e) \in Nat
  BY <1>5, <1>6, PowAdd, PowNat
<1> DEFINE k == 2^(p - e)
<1>8. X * k \in Nat /\ m = (X * k) * u2 + 0
  BY <1>1, <1>3, <1>5, <1>7
<1> HIDE DEF k
<1>9. m \div u2 = X * k /\ m % u2 = 0
  BY <1>5, <1>8, DivModUnique
<1>10. m \div u2 = q2 /\ m % u2 = r2
  BY <1>5, DivModUnique
<1>11. q2 = X * k /\ r2 = 0
  BY <1>9, <1>10
<1> QED
  BY <1>3, <1>4, <1>11 DEF k

\* The numbers of p bits a second rounding hesitates between, from what it sees: the
\* significand q2 of exponent f, the bits r2 left of weight u2, and the side d of the first
\* rounding.  K is the number kept, Kp its successor, Km its predecessor.
Candidates(X, p, f, q2, r2, u2, d, neg, K, Kp, Km) ==
  /\ Represents(q2, p, f, K)
  /\ K < X <=> r2 # 0 \/ d > 0
  /\ K = X <=> r2 = 0 /\ d = 0
  /\ r2 # 0 \/ d > 0 =>
       /\ Kp > X
       /\ q2 + 1 < 2^p => Represents(q2 + 1, p, f, Kp)
       /\ q2 + 1 = 2^p => Represents(2^(p - 1), p, f + 1, Kp)
  /\ r2 = 0 /\ d < 0 =>
       /\ Km < X
       /\ q2 # 2^(p - 1) => Represents(q2 - 1, p, f, Km)
       /\ q2 = 2^(p - 1) => Represents(2^p - 1, p, f - 1, Km)
  /\ \A g \in ToOneSide :
       RoundTo(X, p, g, neg) =
         IF g = "RNDA" \/ g = (IF neg THEN "RNDD" ELSE "RNDU")
         THEN IF r2 # 0 \/ d > 0 THEN Kp ELSE K
         ELSE IF r2 = 0 /\ d < 0 THEN Km ELSE K
  /\ u2 # 1 =>
       /\ RoundTo(X, p, "RNDN", neg) =
            IF 2 * r2 > u2 \/ (2 * r2 = u2 /\ (d > 0 \/ (d = 0 /\ q2 % 2 = 1))) THEN Kp ELSE K
       /\ RoundTo(X, p, "RNDNA", neg) =
            IF 2 * r2 > u2 \/ (2 * r2 = u2 /\ d >= 0) THEN Kp ELSE K

\* The candidates of the second rounding of a number of at most p bits: it is one itself.
LEMMA CandidatesShort ==
  ASSUME NEW p \in Nat, p > 0, NEW P \in Nat, p <= P, NEW e \in 1..MaxBits, e <= p,
         NEW X, HasLength(X, e), NEW neg \in BOOLEAN, NEW m, NEW f, Represents(m, P, f, X),
         NEW u2 \in Nat, NEW q2 \in Nat, NEW r2 \in Nat, Cut(m, P, p, u2, q2, r2)
  PROVE  Candidates(X, p, f, q2, r2, u2, 0, neg, X, X, X)
<1>1. f = e /\ r2 = 0 /\ Represents(q2, p, f, X)
  BY CutShort
<1>2. ASSUME NEW g PROVE RoundTo(X, p, g, neg) = X
  BY RoundToShort
<1>3. u2 > 0
  BY DEF Cut
<1>4. X \in Nat
  BY DEF HasLength
<1> QED
  BY <1>1, <1>2, <1>3, <1>4 DEF Candidates

\* The three numbers on the grid of X.
LEMMA GridNumbers ==
  ASSUME NEW p \in Nat, p > 0, NEW e \in Nat, p < e,
         NEW Q \in Nat, 2^(p - 1) <= Q, Q <= 2^p, NEW q2 \in Nat, NEW f,
         Q < 2^p => q2 = Q /\ f = e,
         Q = 2^p => q2 = 2^(p - 1) /\ f = e + 1
  PROVE  LET U == 2^(e - p) IN
         /\ Represents(q2, p, f, Q * U)
         /\ Q < 2^p =>
              /\ q2 + 1 < 2^p => Represents(q2 + 1, p, f, (Q + 1) * U)
              /\ q2 + 1 = 2^p => Represents(2^(p - 1), p, f + 1, (Q + 1) * U)
         /\ Q > 2^(p - 1) =>
              /\ q2 # 2^(p - 1) => Represents(q2 - 1, p, f, (Q - 1) * U)
              /\ q2 = 2^(p - 1) => Represents(2^p - 1, p, f - 1, (Q - 1) * U)
<1> DEFINE U == 2^(e - p)
<1>1. 2^(p - 1) \in Nat /\ 2^(p - 1) > 0 /\ 2^p = 2 * 2^(p - 1) /\ 2^p \in Nat /\ e - p \in Nat
      /\ U \in Nat /\ 2^e = U * 2^p /\ p <= e
  BY PowNat, PowHalf, PowSplit
<1>2. ASSUME NEW k \in Nat, 2^(p - 1) <= k, k < 2^p PROVE Represents(k, p, e, k * U)
  BY <1>1, <1>2, RepresentsMultiple DEF IsSignificand
<1>3. Represents(2^(p - 1), p, e + 1, 2^p * U)
  <2>1. e + 1 \in Nat /\ e + 1 > 0 /\ (e + 1) - 1 = e
    OBVIOUS
  <2>2. Represents(2^(p - 1), p, e + 1, 2^((e + 1) - 1))
    BY <2>1, PowerRepresents
  <2>3. 2^e = 2^p * U
    BY <1>1
  <2> QED
    BY <2>1, <2>2, <2>3
<1> HIDE DEF U
<1>4. CASE Q < 2^p
  <2>1. q2 = Q /\ f = e
    BY <1>4
  <2>2. Represents(q2, p, f, Q * U)
    BY <1>2, <1>4, <2>1
  <2>3. q2 + 1 < 2^p => Represents(q2 + 1, p, f, (Q + 1) * U)
    BY <1>1, <1>2, <2>1
  <2>4. q2 + 1 = 2^p => Represents(2^(p - 1), p, f + 1, (Q + 1) * U)
    BY <1>3, <2>1
  <2>5. Q > 2^(p - 1) => Represents(q2 - 1, p, f, (Q - 1) * U) /\ q2 # 2^(p - 1)
    <3>1. ASSUME Q > 2^(p - 1) PROVE Q - 1 \in Nat /\ 2^(p - 1) <= Q - 1 /\ Q - 1 < 2^p
      BY <1>1, <1>4, <3>1
    <3>2. ASSUME Q > 2^(p - 1) PROVE Represents(Q - 1, p, e, (Q - 1) * U)
      BY <1>2, <3>1, <3>2
    <3> QED
      BY <1>1, <2>1, <3>2
  <2> QED
    BY <1>1, <2>2, <2>3, <2>4, <2>5 DEF U
<1>5. CASE Q = 2^p
  <2>1. q2 = 2^(p - 1) /\ f = e + 1
    BY <1>5
  <2>2. Represents(q2, p, f, Q * U)
    BY <1>3, <1>5, <2>1
  <2>3. Represents(2^p - 1, p, e, (2^p - 1) * U)
    <3>1. 2^p - 1 \in Nat /\ 2^(p - 1) <= 2^p - 1 /\ 2^p - 1 < 2^p
      BY <1>1
    <3> QED
      BY <1>2, <3>1
  <2>4. Represents(2^p - 1, p, f - 1, (Q - 1) * U)
    <3>1. f - 1 = e
      BY <2>1
    <3> QED
      BY <1>5, <2>3, <3>1
  <2> QED
    BY <1>1, <1>5, <2>1, <2>2, <2>4 DEF U
<1> QED
  BY <1>1, <1>4, <1>5

\* The rounding of a number longer than the precision is to multiples of 2^(e-p).
LEMMA UlpIs ==
  ASSUME NEW p \in Nat, NEW e \in 1..MaxBits, p < e, NEW X, HasLength(X, e), NEW g, NEW neg
  PROVE  RoundTo(X, p, g, neg) = RoundToMultiple(X, 2^(e - p), g, neg)
<1>1. BitLength(X) = e /\ e \in Nat
  BY BitLengthIs
<1>2. Ulp(X, p) = 2^(e - p)
  BY <1>1 DEF Ulp
<1> QED
  BY <1>2 DEF RoundTo

\* Where X is with respect to the number kept.
LEMMA NearSides ==
  ASSUME NEW X \in Nat, NEW v \in Nat, NEW u \in Nat, NEW Q \in Nat, NEW R \in Nat, NEW d \in Int,
         Near(X, v, u, Q, R, d), NEW U \in Nat, IsProduct(U, u, v)
  PROVE  /\ Q * U < X <=> R # 0 \/ d > 0
         /\ Q * U = X <=> R = 0 /\ d = 0
         /\ X < (Q + 1) * U
         /\ R = 0 /\ d < 0 => (Q - 1) * U < X
<1>1. v > 0 /\ -v < d /\ d < v /\ R < u
  BY DEF Near
<1>0. U = u * v
  BY DEF IsProduct
<1>2. X = Q * U + (R * v + d)
  <2>1. X = (Q * u + R) * v + d
    BY DEF Near
  <2>2. (Q * u + R) * v = Q * (u * v) + R * v
    OBVIOUS
  <2> QED
    BY <1>0, <2>1, <2>2
<1>3. R * v \in Nat /\ U \in Nat /\ Q * U \in Nat
      /\ (Q + 1) * U = Q * U + U /\ (Q - 1) * U = Q * U - U
  OBVIOUS
<1>4. R # 0 => R * v + d > 0
  <2>1. ASSUME R # 0 PROVE 1 * v <= R * v
    <3>1. 1 <= R
      BY <2>1
    <3> QED
      BY <3>1, MulMono
  <2> QED
    BY <1>1, <1>3, <2>1
<1>5. R * v + d < U
  <2>1. (R + 1) * v <= u * v /\ (R + 1) * v = R * v + v
    <3>1. R + 1 <= u
      BY <1>1
    <3> QED
      BY <3>1, MulMono
  <2> QED
    BY <1>0, <1>1, <1>3, <2>1
<1>6. R = 0 => R * v = 0
  OBVIOUS
<1>7. v <= U
  <2>1. 1 * v <= u * v
    <3>1. 1 <= u
      BY <1>1
    <3> QED
      BY <3>1, MulMono
  <2> QED
    BY <1>0, <2>1
<1> DEFINE a == Q * U
           b == R * v
           up == (Q + 1) * U
           down == (Q - 1) * U
<1>8. a \in Nat /\ b \in Nat /\ X = a + (b + d) /\ up = a + U /\ down = a - U
      /\ (R # 0 => b + d > 0) /\ b + d < U /\ (R = 0 => b = 0)
  BY <1>2, <1>3, <1>4, <1>5, <1>6
<1> HIDE DEF a, b, up, down
<1>9. /\ a < X <=> R # 0 \/ d > 0
      /\ a = X <=> R = 0 /\ d = 0
      /\ X < up
      /\ R = 0 /\ d < 0 => down < X
  BY <1>1, <1>7, <1>8
<1> QED
  BY <1>9 DEF a, up, down

\* The half of u need not be named.
LEMMA SeenNearest ==
  ASSUME NEW X \in Nat, NEW v \in Nat, NEW u \in Nat, NEW U \in Nat, NEW Q \in Nat, NEW R \in Nat,
         NEW d \in Int, Grids(X, v, u, U, Q, R, d), NEW h \in Nat, u = 2 * h
  PROVE  NearestRounds(X, U, Q, 2 * R, u, d)
<1>1. EvenSeen(Q, 2 * R, u, d, U) = EvenSeen(Q, R, h, d, U)
      /\ AwaySeen(Q, 2 * R, u, d, U) = AwaySeen(Q, R, h, d, U)
  <2>1. (2 * R > u <=> R > h) /\ (2 * R = u <=> R = h)
    OBVIOUS
  <2> QED
    BY <2>1 DEF EvenSeen, AwaySeen
<1>2. EvenGrids(X, v, u, h, U, Q, R, d)
  BY DEF EvenGrids, IsProduct
<1>3. NearestRounds(X, U, Q, R, h, d)
  BY <1>2, NearNearest
<1> QED
  BY <1>1, <1>3 DEF NearestRounds

\* What the second rounding sees is enough to tell the candidates: the number truncated,
\* its successor and its predecessor.
LEMMA CandidatesLong ==
  ASSUME NEW p \in Nat, p > 0, NEW P \in Nat, p <= P, NEW e \in 1..MaxBits, p < e,
         NEW X, HasLength(X, e), NEW g1, NEW neg \in BOOLEAN, NEW m, NEW f,
         NEW Y, Y = RoundTo(X, P, g1, neg), Represents(m, P, f, Y),
         NEW u2 \in Nat, NEW q2 \in Nat, NEW r2 \in Nat, Cut(m, P, p, u2, q2, r2)
  PROVE  \E K \in Int, Kp \in Int, Km \in Int :
            Candidates(X, p, f, q2, r2, u2, X - Y, neg, K, Kp, Km)
<1>1. PICK v \in Nat, u \in Nat, Q \in Nat, R \in Nat :
            Twice(X, Y, e, f, p, q2, r2, u2, v, u, Q, R)
  BY TwiceExists
<1> DEFINE U == 2^(e - p)
           d == X - Y
<1>0. v \in Nat /\ u \in Nat /\ Q \in Nat /\ R \in Nat
  BY <1>1
<1>2. /\ Near(X, v, u, Q, R, d)
      /\ 2^(p - 1) <= Q /\ Q <= 2^p
      /\ r2 = 0 <=> R = 0
      /\ 2 * r2 > u2 <=> 2 * R > u
      /\ 2 * r2 = u2 <=> 2 * R = u
      /\ Q < 2^p => q2 = Q /\ f = e
      /\ Q = 2^p => q2 = 2^(p - 1) /\ f = e + 1 /\ R = 0 /\ X < Y
      /\ u = 1 => u2 = 1
      /\ u # 1 => \E h \in Nat : u = 2 * h
  BY <1>1 DEF Twice
<1>3. IsProduct(U, u, v)
  BY <1>1 DEF Twice
<1>4. e \in Nat /\ X \in Nat /\ e - p \in Nat /\ U \in Nat
  BY PowNat DEF HasLength
<1>5. Y \in Nat /\ d \in Int
  BY <1>4 DEF Represents
<1>6. 2^p \in Nat /\ 2^(p - 1) \in Nat /\ 2^(p - 1) > 0 /\ 2^p = 2 * 2^(p - 1)
  BY PowNat, PowHalf
<1>7. /\ Represents(q2, p, f, Q * U)
      /\ Q < 2^p =>
              /\ q2 + 1 < 2^p => Represents(q2 + 1, p, f, (Q + 1) * U)
              /\ q2 + 1 = 2^p => Represents(2^(p - 1), p, f + 1, (Q + 1) * U)
      /\ Q > 2^(p - 1) =>
              /\ q2 # 2^(p - 1) => Represents(q2 - 1, p, f, (Q - 1) * U)
              /\ q2 = 2^(p - 1) => Represents(2^p - 1, p, f - 1, (Q - 1) * U)
  BY <1>2, <1>4, GridNumbers
<1>8. ASSUME NEW g PROVE RoundTo(X, p, g, neg) = RoundToMultiple(X, U, g, neg)
  BY UlpIs
<1> DEFINE K == Q * U
           Kp == (Q + 1) * U
           Km == (Q - 1) * U
<1>9. K \in Int /\ Kp \in Int /\ Km \in Int
  BY <1>4
<1> HIDE DEF U, d, K, Kp, Km
<1>10. (d > 0 => X > Y) /\ (d < 0 => X < Y)
  BY <1>4, <1>5 DEF d
<1>11. /\ K < X <=> R # 0 \/ d > 0
       /\ K = X <=> R = 0 /\ d = 0
       /\ X < Kp
       /\ R = 0 /\ d < 0 => Km < X
  BY <1>2, <1>3, <1>4, <1>5, NearSides DEF K, Kp, Km
<1>12. R # 0 \/ d > 0 => Q < 2^p
  BY <1>2, <1>4, <1>5, <1>6, <1>10
<1>13. R = 0 /\ d < 0 => Q > 2^(p - 1)
  <2>1. ASSUME R = 0, d < 0, Q = 2^(p - 1) PROVE FALSE
    <3>1. X < K /\ K \in Int
      BY <1>4, <1>9, <1>11, <2>1, <1>5
    <3>2. 2^(e - 1) <= X /\ e - 1 = (p - 1) + (e - p)
      BY <1>4 DEF HasLength
    <3>3. 2^(e - 1) = 2^(p - 1) * U
      BY <1>4, <3>2, PowAdd DEF U
    <3>4. K = 2^(e - 1)
      BY <2>1, <3>3 DEF K
    <3> QED
      BY <1>4, <3>1, <3>2, <3>4
  <2> QED
    BY <1>2, <1>6, <2>1
<1>3a. Grids(X, v, u, U, Q, R, d)
  BY <1>2, <1>3 DEF Grids
<1>14. ASSUME NEW g \in ToOneSide
       PROVE  RoundTo(X, p, g, neg) =
                IF g = "RNDA" \/ g = (IF neg THEN "RNDD" ELSE "RNDU")
                THEN IF R # 0 \/ d > 0 THEN Kp ELSE K
                ELSE IF R = 0 /\ d < 0 THEN Km ELSE K
  <2>1. SideRounds(X, U, Q, R, d)
    BY <1>0, <1>3a, <1>4, <1>5, NearDirected
  <2> QED
    BY <1>8, <2>1 DEF K, Kp, Km, SideSeen, SideRounds
<1>15. ASSUME u # 1
       PROVE  /\ RoundTo(X, p, "RNDN", neg) =
                   IF 2 * R > u \/ (2 * R = u /\ (d > 0 \/ (d = 0 /\ Q % 2 = 1))) THEN Kp ELSE K
              /\ RoundTo(X, p, "RNDNA", neg) =
                   IF 2 * R > u \/ (2 * R = u /\ d >= 0) THEN Kp ELSE K
  <2>0. PICK h \in Nat : u = 2 * h
    BY <1>2, <1>15
  <2>1. NearestRounds(X, U, Q, 2 * R, u, d)
    BY <1>0, <1>3a, <1>4, <1>5, <2>0, SeenNearest
  <2> QED
    BY <1>8, <2>1 DEF K, Kp, EvenSeen, AwaySeen, NearestRounds
<1>16. 2 * R = u => Q = q2
  BY <1>2, <1>6 DEF Near
<1>17. Candidates(X, p, f, q2, r2, u2, d, neg, K, Kp, Km)
  <2>1. Represents(q2, p, f, K)
    BY <1>7 DEF K
  <2>2. /\ K < X <=> r2 # 0 \/ d > 0
        /\ K = X <=> r2 = 0 /\ d = 0
    BY <1>2, <1>11
  <2>3. r2 # 0 \/ d > 0 =>
           /\ Kp > X
           /\ q2 + 1 < 2^p => Represents(q2 + 1, p, f, Kp)
           /\ q2 + 1 = 2^p => Represents(2^(p - 1), p, f + 1, Kp)
    BY <1>2, <1>4, <1>7, <1>9, <1>11, <1>12 DEF Kp
  <2>4. r2 = 0 /\ d < 0 =>
           /\ Km < X
           /\ q2 # 2^(p - 1) => Represents(q2 - 1, p, f, Km)
           /\ q2 = 2^(p - 1) => Represents(2^p - 1, p, f - 1, Km)
    BY <1>2, <1>4, <1>7, <1>9, <1>11, <1>13 DEF Km
  <2>5. \A g \in ToOneSide :
           RoundTo(X, p, g, neg) =
             IF g = "RNDA" \/ g = (IF neg THEN "RNDD" ELSE "RNDU")
             THEN IF r2 # 0 \/ d > 0 THEN Kp ELSE K
             ELSE IF r2 = 0 /\ d < 0 THEN Km ELSE K
    BY <1>2, <1>14
  <2>6. u2 # 1 =>
          /\ RoundTo(X, p, "RNDN", neg) =
               IF 2 * r2 > u2 \/ (2 * r2 = u2 /\ (d > 0 \/ (d = 0 /\ q2 % 2 = 1))) THEN Kp ELSE K
          /\ RoundTo(X, p, "RNDNA", neg) =
               IF 2 * r2 > u2 \/ (2 * r2 = u2 /\ d >= 0) THEN Kp ELSE K
    BY <1>2, <1>15, <1>16
  <2> QED
    BY <2>1, <2>2, <2>3, <2>4, <2>5, <2>6 DEF Candidates
<1> QED
  BY <1>9, <1>17 DEF d

\* Y is X rounded to P bits, one way or another.
ARounding(X, Y, P, neg) == \E g : Y = RoundTo(X, P, g, neg)

Hesitates(X, Y, p, f, q2, r2, u2, neg) ==
  \E K \in Int, Kp \in Int, Km \in Int : Candidates(X, p, f, q2, r2, u2, X - Y, neg, K, Kp, Km)

\* The numbers a second rounding of m, of P bits, to p bits hesitates between.
LEMMA Hesitation ==
  ASSUME NEW p \in Nat, p > 0, NEW P \in Nat, p <= P, NEW e \in 1..MaxBits,
         NEW X, HasLength(X, e), NEW neg \in BOOLEAN, NEW m, NEW f,
         NEW Y, ARounding(X, Y, P, neg), Represents(m, P, f, Y),
         NEW u2 \in Nat, NEW q2 \in Nat, NEW r2 \in Nat, Cut(m, P, p, u2, q2, r2)
  PROVE  Hesitates(X, Y, p, f, q2, r2, u2, neg)
<1>1. e \in Nat /\ X \in Nat
  BY DEF HasLength
<1>2. PICK g1 : Y = RoundTo(X, P, g1, neg)
  BY DEF ARounding
<1>4. CASE e <= p
  <2>1. e <= P
    BY <1>1, <1>4
  <2>2. RoundTo(X, P, g1, neg) = X
    BY <2>1, RoundToShort
  <2>3. Represents(m, P, f, X) /\ X - Y = 0
    BY <1>1, <1>2, <2>2
  <2>4. Candidates(X, p, f, q2, r2, u2, 0, neg, X, X, X)
    BY <1>4, <2>3, CandidatesShort
  <2>5. Candidates(X, p, f, q2, r2, u2, X - Y, neg, X, X, X)
    BY <2>3, <2>4
  <2>6. X \in Int
    BY <1>1
  <2> QED
    BY <2>5, <2>6, Zenon DEF Hesitates
<1>5. CASE p < e
  <2>1. \E K \in Int, Kp \in Int, Km \in Int :
           Candidates(X, p, f, q2, r2, u2, X - RoundTo(X, P, g1, neg), neg, K, Kp, Km)
    <3>1. Represents(m, P, f, RoundTo(X, P, g1, neg))
      BY <1>2
    <3> DEFINE Z == RoundTo(X, P, g1, neg)
    <3> HIDE DEF Z
    <3> QED
      BY <1>5, <3>1, CandidatesLong
  <2> QED
    BY <1>2, <2>1 DEF Hesitates
<1> QED
  BY <1>1, <1>4, <1>5

\* The significand rounded and the carry represent the number chosen.
LEMMA CandidateChosen ==
  ASSUME NEW p \in Nat, p > 0, NEW X, NEW f \in Nat, NEW q2 \in Nat, NEW r2 \in Nat, NEW u2 \in Nat,
         NEW d \in Int, NEW neg, NEW K, NEW Kp, NEW Km,
         Candidates(X, p, f, q2, r2, u2, d, neg, K, Kp, Km),
         NEW dec, dec.up \in BOOLEAN, dec.up => r2 # 0 \/ d > 0
  PROVE  LET s == Significand(q2, p, dec) IN
         /\ Represents(s.mant, p, f + s.carry, IF dec.up THEN Kp ELSE K)
         /\ s.carry \in {0, 1}
         /\ s.dir = dec.dir
<1> DEFINE s == Significand(q2, p, dec)
<1>1. Represents(q2, p, f, K) /\ IsSignificand(q2, p)
  BY DEF Candidates, Represents
<1>2. /\ IsSignificand(s.mant, p)
      /\ s.carry \in {0, 1}
      /\ s.dir = dec.dir
      /\ s.carry = 0 => s.mant = IF dec.up THEN q2 + 1 ELSE q2
      /\ s.carry = 1 => dec.up /\ q2 + 1 = 2^p /\ s.mant = 2^(p - 1)
  BY <1>1, SignificandIs
<1>3. dec.up => /\ q2 + 1 < 2^p => Represents(q2 + 1, p, f, Kp)
                /\ q2 + 1 = 2^p => Represents(2^(p - 1), p, f + 1, Kp)
  BY DEF Candidates
<1>4. 2^p \in Nat
  BY PowNat
<1> HIDE DEF s
<1>5. Represents(s.mant, p, f + s.carry, IF dec.up THEN Kp ELSE K)
  <2>1. CASE s.carry = 1
    <3>1. f + s.carry = f + 1 /\ dec.up /\ s.mant = 2^(p - 1)
      BY <1>2, <2>1
    <3> QED
      BY <1>2, <1>3, <2>1, <3>1
  <2>2. CASE s.carry = 0 /\ dec.up
    <3>1. f + s.carry = f /\ s.mant = q2 + 1 /\ q2 + 1 < 2^p
      BY <1>2, <1>4, <2>2 DEF IsSignificand
    <3> QED
      BY <1>3, <2>2, <3>1
  <2>3. CASE s.carry = 0 /\ ~ dec.up
    <3>1. f + s.carry = f /\ s.mant = q2
      BY <1>2, <2>3
    <3> QED
      BY <1>1, <2>3, <3>1
  <2> QED
    BY <1>2, <2>1, <2>2, <2>3
<1> QED
  BY <1>2, <1>5 DEF s

-----------------------------------------------------------------------------
(* Results: their signs, their decisions, their place in the range         *)

\* Changing the sign twice.
LEMMA SignedTwice ==
  ASSUME NEW t \in Int, NEW neg \in BOOLEAN
  PROVE  /\ Signed(neg, t) \in Int
         /\ Signed(neg, Signed(neg, t)) = t
         /\ Signed(neg, t) = 0 <=> t = 0
BY DEF Signed

\* The ternary value of a result on the side of zero.
LEMMA SignedDown ==
  ASSUME NEW neg \in BOOLEAN
  PROVE  Signed(neg, -1) \in Int /\ Signed(neg, Signed(neg, -1)) < 0
<1>1. \A t \in Int : t < 0 => Signed(neg, t) \in Int /\ Signed(neg, Signed(neg, t)) < 0
  BY DEF Signed
<1>2. -1 \in Int /\ -1 < 0
  OBVIOUS
<1> QED
  BY <1>1, <1>2, Zenon

\* What a right ternary value tells.
LEMMA TernarySides ==
  ASSUME NEW X \in Int, NEW Y \in Int, NEW neg \in BOOLEAN, NEW t \in Int, SignOf(t) = Ternary(Y, X, neg)
  PROVE  /\ t = 0 <=> Y = X
         /\ Signed(neg, t) > 0 <=> Y > X
         /\ Signed(neg, t) < 0 <=> Y < X
         /\ Signed(neg, t) \in Int
<1>1. /\ SignOf(t) = 0 <=> t = 0
      /\ SignOf(t) = 1 <=> t > 0
      /\ SignOf(t) = -1 <=> t < 0
  BY SignOfIs
<1>2. /\ Y > X => Ternary(Y, X, neg) = Signed(neg, 1)
      /\ Y < X => Ternary(Y, X, neg) = Signed(neg, -1)
      /\ Y = X => Ternary(Y, X, neg) = 0
  BY TernaryIs
<1> QED
  BY <1>1, <1>2 DEF Signed

\* A right ternary value.
LEMMA RightSign ==
  ASSUME NEW X \in Int, NEW Y \in Int, NEW neg \in BOOLEAN, NEW t \in Int,
         Y > X => Signed(neg, t) > 0, Y < X => Signed(neg, t) < 0, Y = X => t = 0
  PROVE  SignOf(t) = Ternary(Y, X, neg)
<1>1. /\ SignOf(t) = 0 <=> t = 0
      /\ SignOf(t) = 1 <=> t > 0
      /\ SignOf(t) = -1 <=> t < 0
      /\ SignOf(t) \in {-1, 0, 1}
  BY SignOfIs
<1>2. /\ Y > X => Ternary(Y, X, neg) = Signed(neg, 1)
      /\ Y < X => Ternary(Y, X, neg) = Signed(neg, -1)
      /\ Y = X => Ternary(Y, X, neg) = 0
  BY TernaryIs
<1> QED
  BY <1>1, <1>2 DEF Signed

\* The number and its ternary value, when they are right.
LEMMA RightRounding ==
  ASSUME NEW p \in Nat, NEW X \in Nat, NEW g \in RoundingDirections \ {"RNDNA"}, NEW neg \in BOOLEAN, NEW k, NEW f,
         NEW t \in Int, NEW E, NEW Z, Z = RoundTo(X, p, g, neg), Represents(k, p, f, Z),
         Z > X => Signed(neg, t) > 0, Z < X => Signed(neg, t) < 0, Z = X => t = 0
  PROVE  IsOneRounding(k, p, f, t, X, g, neg, E)
<1>1. Z \in Int
  BY DEF Represents
<1>2. SignOf(t) = Ternary(Z, X, neg)
  BY <1>1, SignOfIs, TernaryIs DEF Signed
<1> QED
  BY <1>2 DEF IsOneRounding

\* The two decisions on a number that is not kept as it is.
LEMMA UpOrDown ==
  ASSUME NEW dec \in {AddOneUlp, Decision(FALSE, -1)}
  PROVE  dec.up \in BOOLEAN /\ dec.dir = (IF dec.up THEN 1 ELSE -1)
<1>1. AddOneUlp.up = TRUE /\ AddOneUlp.dir = 1
  BY DEF AddOneUlp, Decision
<1>2. Decision(FALSE, -1).up = FALSE /\ Decision(FALSE, -1).dir = -1
  BY DEF Decision
<1>3. CASE dec = AddOneUlp
  <2>1. dec.up = TRUE /\ dec.dir = 1
    BY <1>1, <1>3
  <2> QED
    BY <2>1
<1>4. CASE dec = Decision(FALSE, -1)
  <2>1. dec.up = FALSE /\ dec.dir = -1
    BY <1>2, <1>4
  <2> QED
    BY <2>1
<1> QED
  BY <1>3, <1>4

\* A truncation.
LEMMA TruncatedIs ==
  ASSUME NEW p \in Nat, NEW q, IsSignificand(q, p)
  PROVE  LET s == Significand(q, p, TruncDoit) IN s.mant = q /\ s.carry = 0 /\ s.dir = 0
<1>1. 2^p \in Nat /\ q \in Nat /\ q < 2^p
  BY PowNat DEF IsSignificand
<1>2. Significand(q, p, TruncDoit) = [mant |-> q, carry |-> 0, dir |-> 0]
  BY <1>1 DEF Significand, TruncDoit, Decision
<1> QED
  BY <1>2

\* Nothing is left: the number is kept.
LEMMA NothingLeft ==
  ASSUME NEW p \in Nat, p > 0, NEW P \in Nat, p <= P, NEW m \in Nat, IsSignificand(m, P),
         NEW u2 \in Nat, NEW q2 \in Nat, NEW r2 \in Nat, Cut(m, P, p, u2, q2, r2), r2 = 0,
         NEW rn \in Rnds, NEW neg \in BOOLEAN, NEW middle
  PROVE  LET s == RndRawGen(m, P, p, rn, neg, middle) IN
         s.mant = q2 /\ s.carry = 0 /\ s.dir = 0
<1>1. u2 = 2^(P - p) /\ u2 > 0 /\ m = q2 * u2
  BY DEF Cut
<1>2. CASE p < P
  <2>1. 2 * r2 # u2
    BY <1>1
  <2>2. /\ rn = "RNDF" => RndRawGen(m, P, p, rn, neg, middle) = Significand(q2, p, TruncDoit)
        /\ rn # "RNDF" => RndRawGen(m, P, p, rn, neg, middle)
                            = Significand(q2, p, Step(q2, r2, u2, rn, neg))
    BY <1>2, <2>1, RndRawGenIs
  <2>3. Step(q2, r2, u2, rn, neg) = TruncDoit
    BY DEF Step
  <2>4. RndRawGen(m, P, p, rn, neg, middle) = Significand(q2, p, TruncDoit)
    BY <2>2, <2>3
  <2>5. IsSignificand(q2, p)
    BY <1>2, CutIs
  <2>6. Significand(q2, p, TruncDoit).mant = q2 /\ Significand(q2, p, TruncDoit).carry = 0
        /\ Significand(q2, p, TruncDoit).dir = 0
    BY <2>5, TruncatedIs
  <2> QED
    BY <2>4, <2>6
<1>3. CASE p = P
  <2>1. P - p = 0 /\ p >= P /\ p - P = 0
    BY <1>3
  <2>2. RndRawGen(m, P, p, rn, neg, middle) = [mant |-> m * 2^(p - P), carry |-> 0, dir |-> 0]
    BY <2>1, Zenon DEF RndRawGen
  <2>3. u2 = 2^0 /\ 2^(p - P) = 2^0
    BY <1>1, <2>1, Zenon
  <2>4. u2 = 1 /\ 2^(p - P) = 1
    BY <2>3, PowZero
  <2> QED
    BY <1>1, <2>2, <2>4
<1> QED
  BY <1>2, <1>3

\* The direction away from zero.
Away(rn, neg) == rn = "RNDA" \/ rn = (IF neg THEN "RNDD" ELSE "RNDU")

\* A directed rounding of a significand with bits left.
Directed(m, P, p, q2, rn, neg) ==
  \E dec \in {AddOneUlp, Decision(FALSE, -1)} :
     /\ RndRaw(m, P, p, rn, neg) = Significand(q2, p, dec)
     /\ dec.up <=> Away(rn, neg)

\* mpfr_set in a directed mode, some bits being dropped.
LEMMA DirectedIs ==
  ASSUME NEW p \in Nat, p > 0, NEW P \in Nat, p < P, NEW m \in Nat, IsSignificand(m, P),
         NEW u2 \in Nat, NEW q2 \in Nat, NEW r2 \in Nat, Cut(m, P, p, u2, q2, r2), r2 # 0,
         NEW rn \in ToOneSide, NEW neg \in BOOLEAN
  PROVE  Directed(m, P, p, q2, rn, neg)
<1> DEFINE up == GoesUp(q2, r2, u2, rn, neg)
<1>1. rn \in Rnds /\ rn # "RNDF" /\ rn # "RNDN" /\ rn # "RNDNA"
  BY DEF Rnds, ToOneSide
<1>2. RndRaw(m, P, p, rn, neg) = Significand(q2, p, Step(q2, r2, u2, rn, neg))
  BY <1>1, RndRawGenIs DEF RndRaw
<1>3. up <=> Away(rn, neg)
  BY <1>1 DEF GoesUp, Away
<1>4. Step(q2, r2, u2, rn, neg) = IF up THEN AddOneUlp ELSE Decision(FALSE, -1)
  BY DEF Step
<1>5. AddOneUlp.up = TRUE /\ Decision(FALSE, -1).up = FALSE
  BY DEF AddOneUlp, Decision
<1> HIDE DEF up
<1>6. CASE up
  BY <1>2, <1>3, <1>4, <1>5, <1>6 DEF Directed
<1>7. CASE ~ up
  BY <1>2, <1>3, <1>4, <1>5, <1>7 DEF Directed
<1> QED
  BY <1>6, <1>7

\* mpfr_set4 of a number.
Set4Of(x, p, s, rn, neg, emax) ==
  IF s.carry = 1 /\ x + 1 > emax THEN Overflow(p, rn, neg, emax)
  ELSE Return(Num(neg, x + s.carry, s.mant, p), Signed(neg, s.dir), {})

\* mpfr_set of a number, on its fields.
LEMMA Set4Is ==
  ASSUME NEW x, NEW m, NEW P, NEW p, NEW rn, NEW neg, NEW bneg, NEW emax
  PROVE  Set4(Num(bneg, x, m, P), p, rn, neg, emax)
           = Set4Of(x, p, RndRaw(m, P, p, rn, neg), rn, neg, emax)
BY DEF Set4, Set4Of, SetRounded, IsSingular, Num

\* The pure FP number b represents Z.
IsNumber(b, neg, p, sc, Z) ==
  \E k \in Int, z \in Int : b = Num(neg, z, k, p) /\ Represents(k, p, z + sc, Z)

\* The successor and the predecessor of the number kept.
LEMMA NextIs ==
  ASSUME NEW p \in Nat, p > 0, NEW X, NEW q2 \in Nat, NEW r2 \in Nat, NEW u2 \in Nat,
         NEW d \in Int, NEW neg, NEW K, NEW Kp, NEW Km, NEW sc \in Nat, NEW x \in Int,
         Candidates(X, p, x + sc, q2, r2, u2, d, neg, K, Kp, Km),
         NEW emin \in Int, NEW emax \in Int
  PROVE  /\ r2 = 0 /\ d < 0 /\ x # emin =>
              IsNumber(NextToZero(Num(neg, x, q2, p), emin, emax), neg, p, sc, Km)
         /\ (r2 # 0 \/ d > 0) /\ x # emax =>
              IsNumber(NextToInf(Num(neg, x, q2, p), emin, emax), neg, p, sc, Kp)
<1> DEFINE y == Num(neg, x, q2, p)
           f == x + sc
<1>1. /\ y.kind = "num" /\ y.neg = neg /\ y.exp = x /\ y.mant = q2 /\ y.prec = p
  BY DEF Num
<1>2. IsSignificand(q2, p) /\ q2 < 2^p /\ 2^p \in Nat
  BY PowNat DEF Candidates, Represents, IsSignificand
<1>3. 2^(p - 1) \in Nat
  BY PowHalf, PowNat
<1> HIDE DEF y
<1>4. ASSUME r2 = 0, d < 0, x # emin
      PROVE  IsNumber(NextToZero(y, emin, emax), neg, p, sc, Km)
  <2>1. /\ q2 # 2^(p - 1) => Represents(q2 - 1, p, f, Km)
        /\ q2 = 2^(p - 1) => Represents(2^p - 1, p, f - 1, Km)
    BY <1>4 DEF Candidates
  <2>2. CASE q2 # 2^(p - 1)
    <3>1. ~ IsPowerof2Raw(y)
      BY <1>1, <2>2 DEF IsPowerof2Raw
    <3>2. NextToZero(y, emin, emax) = Num(neg, x, q2 - 1, p)
      BY <1>1, <3>1 DEF NextToZero
    <3> QED
      BY <2>1, <2>2, <3>2 DEF IsNumber
  <2>3. CASE q2 = 2^(p - 1)
    <3>1. IsPowerof2Raw(y)
      BY <1>1, <2>3 DEF IsPowerof2Raw
    <3>2. NextToZero(y, emin, emax) = SetMax(neg, x - 1, p)
      BY <1>1, <1>4, <3>1 DEF NextToZero
    <3>3. SetMax(neg, x - 1, p) = Num(neg, x - 1, 2^p - 1, p)
      BY DEF SetMax
    <3>4. (x - 1) + sc = f - 1 /\ 2^p - 1 \in Int /\ x - 1 \in Int
      BY <1>2
    <3>5. Represents(2^p - 1, p, (x - 1) + sc, Km)
      BY <2>1, <2>3, <3>4
    <3> QED
      BY <3>2, <3>3, <3>4, <3>5 DEF IsNumber
  <2> QED
    BY <2>2, <2>3
<1>5. ASSUME r2 # 0 \/ d > 0, x # emax
      PROVE  IsNumber(NextToInf(y, emin, emax), neg, p, sc, Kp)
  <2>1. /\ q2 + 1 < 2^p => Represents(q2 + 1, p, f, Kp)
        /\ q2 + 1 = 2^p => Represents(2^(p - 1), p, f + 1, Kp)
    BY <1>5 DEF Candidates
  <2>2. CASE q2 + 1 < 2^p
    <3>1. NextToInf(y, emin, emax) = Num(neg, x, q2 + 1, p)
      BY <1>1, <2>2 DEF NextToInf
    <3> QED
      BY <2>1, <2>2, <3>1 DEF IsNumber
  <2>3. CASE q2 + 1 = 2^p
    <3>2. NextToInf(y, emin, emax) = SetMin(neg, x + 1, p)
      BY <1>1, <1>2, <1>5, <2>3 DEF NextToInf
    <3>3. SetMin(neg, x + 1, p) = Num(neg, x + 1, 2^(p - 1), p)
      BY DEF SetMin
    <3>4. (x + 1) + sc = f + 1 /\ 2^(p - 1) \in Int /\ x + 1 \in Int
      BY <1>3
    <3>5. Represents(2^(p - 1), p, (x + 1) + sc, Kp)
      BY <2>1, <2>3, <3>4
    <3> QED
      BY <3>2, <3>3, <3>4, <3>5 DEF IsNumber
  <2> QED
    BY <1>2, <2>2, <2>3
<1> QED
  BY <1>4, <1>5 DEF y

\* A range check leaves a number in the range.
LEMMA CheckRangeKeeps ==
  ASSUME NEW x, NEW t, NEW rn, NEW emin \in Int, NEW emax \in Int, emin <= emax, x.exp \in Int
  PROVE  LET c == CheckRange(x, t, rn, emin, emax) IN
         c.y.kind = "num" => c.y.exp \in Int /\ emin <= c.y.exp /\ c.y.exp <= emax
<1> DEFINE c == CheckRange(x, t, rn, emin, emax)
           r1 == IF rn = "RNDN" /\ HalfwayToZero(x, t, emin) THEN "RNDZ" ELSE rn
<1>1. CASE x.kind = "num" /\ x.exp < emin
  <2>1. c = Underflow(x.prec, r1, x.neg, emin)
    BY <1>1 DEF CheckRange
  <2>2. c.y = Zero(x.neg, x.prec) \/ c.y = SetMin(x.neg, emin, x.prec)
    BY <2>1 DEF Underflow, Return
  <2> HIDE DEF c
  <2>3. c.y.kind = "num" => c.y.exp \in Int /\ emin <= c.y.exp /\ c.y.exp <= emax
    BY <2>2 DEF Zero, SetMin, Num
  <2> QED
    BY <2>3 DEF c
<1>2. CASE x.kind = "num" /\ x.exp > emax
  <2>1. c = Overflow(x.prec, rn, x.neg, emax)
    BY <1>2 DEF CheckRange
  <2>2. c.y = Inf(x.neg, x.prec) \/ c.y = SetMax(x.neg, emax, x.prec)
    BY <2>1 DEF Overflow, Return
  <2> HIDE DEF c
  <2>3. c.y.kind = "num" => c.y.exp \in Int /\ emin <= c.y.exp /\ c.y.exp <= emax
    BY <2>2 DEF Inf, SetMax, Num
  <2> QED
    BY <2>3 DEF c
<1>3. CASE x.kind # "num" \/ (emin <= x.exp /\ x.exp <= emax)
  <2>1. c.y = x
    BY <1>3 DEF CheckRange, Return
  <2> HIDE DEF c
  <2>2. c.y.kind = "num" => c.y.exp \in Int /\ emin <= c.y.exp /\ c.y.exp <= emax
    BY <1>3, <2>1
  <2> QED
    BY <2>2 DEF c
<1> QED
  BY <1>1, <1>2, <1>3

\* An inexact result stays flagged.
LEMMA CheckRangeInexact ==
  ASSUME NEW x, x.exp \in Int, NEW t \in Int, t # 0, NEW rn,
         NEW emin \in Int, NEW emax \in Int, emin <= emax
  PROVE  "inexact" \in CheckRange(x, t, rn, emin, emax).raised
<1>1. ASSUME NEW o, NEW y, NEW u \in Int, u # 0, NEW R, o = Return(y, u, R)
      PROVE  "inexact" \in o.raised
  BY <1>1 DEF Return
<1>2. \A neg : Signed(neg, 1) \in Int /\ Signed(neg, 1) # 0 /\ Signed(neg, -1) \in Int /\ Signed(neg, -1) # 0
  BY DEF Signed
<1>3. \A p, g, neg : /\ "inexact" \in Underflow(p, g, neg, emin).raised
                     /\ "inexact" \in Overflow(p, g, neg, emax).raised
  <2> TAKE p, g, neg
  <2>1. /\ Signed(neg, 1) \in Int /\ Signed(neg, 1) # 0
        /\ Signed(neg, -1) \in Int /\ Signed(neg, -1) # 0
    BY <1>2
  <2>2. "inexact" \in Underflow(p, g, neg, emin).raised
    <3>1. CASE IsLikeRNDZ(g, neg)
      <4>1. Underflow(p, g, neg, emin) = Return(Zero(neg, p), Signed(neg, -1), {"underflow"})
        BY <3>1 DEF Underflow
      <4> QED
        BY <1>1, <2>1, <4>1
    <3>2. CASE ~ IsLikeRNDZ(g, neg)
      <4>1. Underflow(p, g, neg, emin) = Return(SetMin(neg, emin, p), Signed(neg, 1), {"underflow"})
        BY <3>2 DEF Underflow
      <4> QED
        BY <1>1, <2>1, <4>1
    <3> QED
      BY <3>1, <3>2
  <2>3. "inexact" \in Overflow(p, g, neg, emax).raised
    <3>1. CASE IsLikeRNDZ(g, neg)
      <4>1. Overflow(p, g, neg, emax) = Return(SetMax(neg, emax, p), Signed(neg, -1), {"overflow"})
        BY <3>1 DEF Overflow
      <4> QED
        BY <1>1, <2>1, <4>1
    <3>2. CASE ~ IsLikeRNDZ(g, neg)
      <4>1. Overflow(p, g, neg, emax) = Return(Inf(neg, p), Signed(neg, 1), {"overflow"})
        BY <3>2 DEF Overflow
      <4> QED
        BY <1>1, <2>1, <4>1
    <3> QED
      BY <3>1, <3>2
  <2> QED
    BY <2>2, <2>3
<1> DEFINE c == CheckRange(x, t, rn, emin, emax)
           r1 == IF rn = "RNDN" /\ HalfwayToZero(x, t, emin) THEN "RNDZ" ELSE rn
<1>4. CASE x.kind = "num" /\ x.exp < emin
  <2>1. c = Underflow(x.prec, r1, x.neg, emin)
    BY <1>4 DEF CheckRange
  <2> HIDE DEF c, r1
  <2> QED
    BY <1>3, <2>1 DEF c
<1>5. CASE x.kind = "num" /\ x.exp > emax
  <2>1. c = Overflow(x.prec, rn, x.neg, emax)
    BY <1>5 DEF CheckRange
  <2> HIDE DEF c
  <2> QED
    BY <1>3, <2>1 DEF c
<1>6. CASE x.kind = "inf"
  <2>1. c = Return(x, t, {"overflow"})
    BY <1>6 DEF CheckRange
  <2> HIDE DEF c
  <2> QED
    BY <1>1, <2>1 DEF c
<1>7. CASE x.kind # "inf" /\ ~ (x.kind = "num" /\ x.exp < emin) /\ ~ (x.kind = "num" /\ x.exp > emax)
  <2>1. c = Return(x, t, {})
    BY <1>7 DEF CheckRange
  <2> HIDE DEF c
  <2> QED
    BY <1>1, <2>1 DEF c
<1> QED
  BY <1>4, <1>5, <1>6, <1>7

\* The flags of the definition, by the length of the rounded number.
LEMMA CorrectFlagsAre ==
  ASSUME NEW p, NEW X, NEW g, NEW neg, NEW n \in 1..MaxBits, HasLength(RoundTo(X, p, g, neg), n),
         NEW E \in Int, NEW F \in Int
  PROVE  CorrectFlags(X, p, g, neg, E, F) =
           (IF CorrectValue(X, p, g, neg, E, F) # X THEN {"inexact"} ELSE {})
             \cup (IF n < E THEN {"underflow"} ELSE {})
             \cup (IF n > F THEN {"overflow"} ELSE {})
<1>1. BitLength(RoundTo(X, p, g, neg)) = n
  BY BitLengthIs
<1> QED
  BY <1>1, Zenon DEF CorrectFlags

\* An overflow to infinity.
LEMMA InfinityDelivers ==
  ASSUME NEW p \in Nat, p > 0, NEW e \in 1..MaxBits, e < MaxBits, NEW X, HasLength(X, e),
         NEW g, NEW neg \in BOOLEAN, ~ TowardZero(g, neg),
         NEW n \in Nat, HasLength(RoundTo(X, p, g, neg), n),
         NEW E \in Nat, E > 0, NEW F \in Nat, E <= F, n > F,
         NEW c, c.y = Inf(neg, p), c.inex = Signed(neg, 1), c.raised = {"inexact", "overflow"},
         NEW sc
  PROVE  Delivers(c, p, sc, X, g, neg, E, F)
<1>1. n \in 1..MaxBits
  BY RoundedLengthIs
<1>2. CorrectValue(X, p, g, neg, E, F) = Infinity
  <2>1. ValueFor(X, p, g, neg, E, F, n, CorrectValue(X, p, g, neg, E, F))
    BY <1>1, CorrectValueIs
  <2> QED
    BY <2>1 DEF ValueFor
<1>3. X \in Nat /\ Infinity \in Nat /\ X < Infinity
  <2>1. e \in Nat /\ e <= MaxBits /\ X \in Nat /\ X < 2^e
    BY DEF HasLength
  <2>2. 2^e <= 2^MaxBits /\ 2^e \in Nat /\ 2^MaxBits \in Nat
    BY <2>1, RealRoundingAssumption, PowMonotone, PowNat
  <2> QED
    BY <2>1, <2>2 DEF Infinity
<1>4. CorrectFlags(X, p, g, neg, E, F) = {"inexact", "overflow"}
  <2>1. CorrectFlags(X, p, g, neg, E, F) =
           (IF CorrectValue(X, p, g, neg, E, F) # X THEN {"inexact"} ELSE {})
             \cup (IF n < E THEN {"underflow"} ELSE {})
             \cup (IF n > F THEN {"overflow"} ELSE {})
    BY <1>1, CorrectFlagsAre
  <2>2. CorrectValue(X, p, g, neg, E, F) # X /\ ~ (n < E)
    BY <1>2, <1>3
  <2> QED
    BY <2>1, <2>2
<1>5. SignOf(Signed(neg, 1)) = Ternary(Infinity, X, neg)
  <2>1. Signed(neg, 1) \in Int /\ Signed(neg, Signed(neg, 1)) > 0
    BY DEF Signed
  <2> QED
    BY <1>3, <2>1, RightSign
<1>6. StandsFor(Inf(neg, p), p, sc, Infinity) /\ Inf(neg, p).neg = neg
  BY DEF StandsFor, Inf
<1> QED
  BY <1>2, <1>4, <1>5, <1>6 DEF Delivers

\* An underflow to zero.
LEMMA ZeroDelivers ==
  ASSUME NEW p \in Nat, p > 0, NEW e \in 1..MaxBits, e < MaxBits, NEW X, HasLength(X, e),
         NEW g, NEW neg \in BOOLEAN,
         NEW n \in Nat, HasLength(RoundTo(X, p, g, neg), n),
         NEW E \in Nat, E > 0, NEW F \in Nat, E <= F, n < E, ~ GoesUp(0, X, 2^(E - 1), g, neg),
         NEW c, c.y = Zero(neg, p), c.inex = Signed(neg, -1), c.raised = {"inexact", "underflow"},
         NEW sc
  PROVE  Delivers(c, p, sc, X, g, neg, E, F)
<1>1. n \in 1..MaxBits
  BY RoundedLengthIs
<1>2. CorrectValue(X, p, g, neg, E, F) = 0
  <2>1. ValueFor(X, p, g, neg, E, F, n, CorrectValue(X, p, g, neg, E, F))
    BY <1>1, CorrectValueIs
  <2> QED
    BY <2>1 DEF ValueFor
<1>3. X \in Nat /\ X > 0
  <2>1. e - 1 \in Nat /\ X \in Nat /\ 2^(e - 1) <= X
    BY DEF HasLength
  <2>2. 2^(e - 1) \in Nat /\ 2^(e - 1) > 0
    BY <2>1, PowNat
  <2> QED
    BY <2>1, <2>2
<1>4. CorrectFlags(X, p, g, neg, E, F) = {"inexact", "underflow"}
  <2>1. CorrectFlags(X, p, g, neg, E, F) =
           (IF CorrectValue(X, p, g, neg, E, F) # X THEN {"inexact"} ELSE {})
             \cup (IF n < E THEN {"underflow"} ELSE {})
             \cup (IF n > F THEN {"overflow"} ELSE {})
    BY <1>1, CorrectFlagsAre
  <2>2. CorrectValue(X, p, g, neg, E, F) # X /\ ~ (n > F)
    BY <1>2, <1>3
  <2> QED
    BY <2>1, <2>2
<1>5. SignOf(Signed(neg, -1)) = Ternary(0, X, neg)
  <2>1. Signed(neg, -1) \in Int /\ Signed(neg, Signed(neg, -1)) < 0
    BY SignedDown
  <2> QED
    BY <1>3, <2>1, RightSign
<1>6. StandsFor(Zero(neg, p), p, sc, 0) /\ Zero(neg, p).neg = neg
  BY DEF StandsFor, Zero
<1> QED
  BY <1>2, <1>4, <1>5, <1>6 DEF Delivers

-----------------------------------------------------------------------------
(* What lies between two consecutive numbers of p bits, and what the bits  *)
(* that mpfr_round_p looks at say of it                                    *)

\* U is the ulp of the numbers of length N.
UlpOf(U, N, p) == U = 2^(N - p)

\* What lies between two consecutive numbers of p bits is cut at the lower one.
LEMMA BetweenCut ==
  ASSUME NEW p \in Nat, p > 0, NEW N \in 1..MaxBits, p < N, NEW q, IsSignificand(q, p),
         NEW U \in Nat, UlpOf(U, N, p), NEW X \in Nat, q * U <= X, X < (q + 1) * U,
         NEW d, d = X - q * U
  PROVE  /\ HasLength(X, N)
         /\ d \in Nat /\ Cut(X, N, p, U, q, d)
<1>1. q \in Nat /\ 2^(p - 1) <= q /\ q + 1 <= 2^p /\ 2^p \in Nat /\ 2^(p - 1) \in Nat
  <2>1. p - 1 \in Nat
    OBVIOUS
  <2> QED
    BY <2>1, PowNat DEF IsSignificand
<1>2. U = 2^(N - p) /\ U > 0
  <2>1. N - p \in Nat
    OBVIOUS
  <2> QED
    BY <2>1, PowNat DEF UlpOf
<1>3. 2^N = 2^p * U /\ 2^(N - 1) = 2^(p - 1) * U
  <2>1. N - p \in Nat /\ p + (N - p) = N /\ (p - 1) + (N - p) = N - 1 /\ p - 1 \in Nat
    OBVIOUS
  <2>2. 2^(p + (N - p)) = 2^p * 2^(N - p) /\ 2^((p - 1) + (N - p)) = 2^(p - 1) * 2^(N - p)
    BY <2>1, PowAdd
  <2> QED
    BY <1>2, <2>1, <2>2, Zenon
<1>4. (q + 1) * U <= 2^p * U /\ 2^(p - 1) * U <= q * U /\ (q + 1) * U = q * U + U /\ q * U \in Nat
  BY <1>1, MulMono
<1>5. HasLength(X, N)
  <2>1. 2^(N - 1) \in Nat /\ 2^N \in Nat
    BY PowNat
  <2>2. 2^(p - 1) * U <= X /\ X < 2^p * U
    BY <1>1, <1>4
  <2>3. 2^(N - 1) <= X /\ X < 2^N
    BY <1>3, <2>2, Zenon
  <2> QED
    BY <2>3 DEF HasLength
<1>6. d \in Nat /\ d < U /\ X = q * U + d
  BY <1>1, <1>4
<1> QED
  BY <1>2, <1>5, <1>6 DEF Cut

\* Toward zero it is rounded to the lower one.
LEMMA FloorBetween ==
  ASSUME NEW p \in Nat, p > 0, NEW N \in 1..MaxBits, p < N, NEW q, IsSignificand(q, p),
         NEW U \in Nat, UlpOf(U, N, p), NEW X \in Nat, q * U <= X, X < (q + 1) * U,
         NEW g, NEW neg \in BOOLEAN, TowardZero(g, neg)
  PROVE  RoundTo(X, p, g, neg) = q * U
<1> DEFINE d == X - q * U
<1>1. HasLength(X, N) /\ d \in Nat /\ Cut(X, N, p, U, q, d)
  BY BetweenCut
<1>2. q \in Nat
  BY DEF IsSignificand
<1> HIDE DEF d
<1>3. RoundTo(X, p, g, neg) = (IF GoesUp(q, d, U, g, neg) THEN q + 1 ELSE q) * U
  BY <1>1, <1>2, RoundToLong
<1>4. ~ GoesUp(q, d, U, g, neg)
  BY DEF GoesUp, TowardZero
<1> QED
  BY <1>3, <1>4

Power(x, k) == x = 2^k

\* Multiplying by a positive number keeps the strict order.
LEMMA LessTimes ==
  ASSUME NEW x \in Nat, NEW y \in Nat, NEW S \in Nat, S > 0
  PROVE  x * S < y * S <=> x < y
<1>1. x * S < y * S => x < y
  BY MulCancel
<1>2. x < y => (x + 1) * S <= y * S
  BY MulMono
<1>3. (x + 1) * S = x * S + S /\ x * S \in Nat /\ y * S \in Nat
  OBVIOUS
<1> QED
  BY <1>1, <1>2, <1>3

\* A division has one quotient and one remainder.
LEMMA SameDivision ==
  ASSUME NEW u \in Nat, NEW q1 \in Nat, NEW q2 \in Nat, NEW r1 \in Nat, NEW r2 \in Nat,
         r1 < u, r2 < u, q1 * u + r1 = q2 * u + r2
  PROVE  q1 = q2 /\ r1 = r2
<1>1. (q1 * u + r1) \div u = q1 /\ (q1 * u + r1) % u = r1
  BY DivModUnique
<1>2. (q2 * u + r2) \div u = q2 /\ (q2 * u + r2) % u = r2
  BY DivModUnique
<1> QED
  BY <1>1, <1>2

\* What is left of b in units 2^k times smaller.
LEMMA Scaled ==
  ASSUME NEW n \in Nat, NEW b, IsSignificand(b, n), NEW k \in Nat, NEW S \in Nat, Power(S, k), n > 0
  PROVE  IsSignificand(b * S, n + k)
<1>1. b \in Nat /\ 2^(n - 1) <= b /\ b < 2^n /\ 2^(n - 1) \in Nat /\ 2^n \in Nat /\ n - 1 \in Nat
  BY PowNat DEF IsSignificand
<1>2. S > 0 /\ 2^(n + k) = 2^n * S
  <2>1. 2^(n + k) = 2^n * 2^k /\ 2^k > 0
    BY PowAdd, PowNat
  <2> QED
    BY <2>1 DEF Power
<1>3. 2^((n + k) - 1) = 2^(n - 1) * S
  <2>1. (n - 1) + k = (n + k) - 1
    OBVIOUS
  <2>2. 2^((n - 1) + k) = 2^(n - 1) * 2^k
    BY <1>1, PowAdd
  <2> QED
    BY <2>1, <2>2, Zenon DEF Power
<1>4. 2^(n - 1) * S <= b * S
  BY <1>1, MulMono
<1>5. b * S < 2^n * S
  BY <1>1, <1>2, LessTimes
<1> QED
  BY <1>1, <1>2, <1>3, <1>4, <1>5 DEF IsSignificand

\* The error c stays within the bits dropped r, below u.
Clear(c, r, u) == c <= r /\ r + c < u

\* The answer of mpfr_can_round_raw: the precision is the one of b at most, and the error,
\* which may be less than the last bit of b, stays within the bits dropped.
Enough(p, n, cb, r, u) ==
  /\ p <= n
  /\ cb > n => r # 0
  /\ cb <= n => Clear(2^(n - cb), r, u)

\* The error stays within the bits dropped of the number in the smaller units if and only
\* if it does so for the bits of b that are dropped.
LEMMA InsideIs ==
  ASSUME NEW n \in Nat, n > 0, NEW b, IsSignificand(b, n), NEW k \in Nat, NEW S \in Nat, Power(S, k),
         NEW p \in Nat, p > 0, p < n + k, NEW cb \in Nat, cb > 0, cb <= n + k,
         NEW u \in Nat, NEW q \in Nat, NEW r \in Nat, p <= n => Cut(b, n, p, u, q, r),
         NEW U \in Nat, NEW Q \in Nat, NEW R \in Nat, Cut(b * S, n + k, p, U, Q, R),
         NEW E \in Nat, Power(E, (n + k) - cb)
  PROVE  Clear(E, R, U) <=> Enough(p, n, cb, r, u)
<1>1. b \in Nat /\ S > 0 /\ E > 0
  BY PowNat DEF IsSignificand, Power
<1>2. U > 0 /\ R < U /\ b * S = Q * U + R /\ Power(U, (n + k) - p)
  BY DEF Cut, Power
<1>3. CASE p > n
  <2>1. n + k - p \in Nat /\ p - n \in Nat /\ (p - n) + ((n + k) - p) = k
    BY <1>3
  <2>2. 2^((p - n) + ((n + k) - p)) = 2^(p - n) * 2^((n + k) - p)
    BY <2>1, PowAdd
  <2>3. PICK h \in Nat : h = 2^(p - n)
    BY <2>1, PowNat
  <2>4. S = h * U
    BY <1>2, <2>1, <2>2, <2>3, Zenon DEF Power
  <2>5. b * S = (b * h) * U + 0
    BY <1>1, <1>2, <2>4
  <2>6. b * h \in Nat
    BY <1>1
  <2>7. R = 0
    <3>1. (b * h) * U + 0 = Q * U + R
      BY <1>2, <2>5
    <3> QED
      BY <1>2, <2>6, <3>1, SameDivision
  <2> QED
    BY <1>1, <1>3, <2>7 DEF Clear, Enough
<1>4. CASE p <= n
  <2>1. u > 0 /\ r < u /\ b = q * u + r /\ Power(u, n - p)
    BY <1>4 DEF Cut, Power
  <2>2. U = u * S
    <3>1. n - p \in Nat /\ (n - p) + k = (n + k) - p
      BY <1>4
    <3>2. 2^((n - p) + k) = 2^(n - p) * 2^k
      BY <3>1, PowAdd
    <3> QED
      BY <1>2, <2>1, <3>1, <3>2, Zenon DEF Power
  <2>3. R = r * S
    <3>1. b * S = q * U + r * S
      BY <1>1, <2>1, <2>2
    <3>2. r * S \in Nat /\ r * S < U
      BY <1>1, <2>1, <2>2
    <3>3. PICK rs \in Nat : rs = r * S
      BY <3>2
    <3>4. q * U + rs = Q * U + R /\ rs < U
      BY <1>2, <3>1, <3>2, <3>3
    <3>5. q \in Nat
      OBVIOUS
    <3>6. rs = R
      BY <1>2, <3>4, <3>5, SameDivision
    <3> QED
      BY <3>3, <3>6
  <2>4. CASE cb <= n
    <3>1. n - cb \in Nat /\ (n - cb) + k = (n + k) - cb
      BY <2>4
    <3>2. 2^((n - cb) + k) = 2^(n - cb) * 2^k
      BY <3>1, PowAdd
    <3>3. PICK c \in Nat : c = 2^(n - cb)
      BY <3>1, PowNat
    <3>4. E = c * S
      BY <3>1, <3>2, <3>3, Zenon DEF Power
    <3>5. E <= R <=> c <= r
      BY <1>1, <2>3, <3>4, MulMono, MulCancel
    <3>6. R + E < U <=> r + c < u
      <4>1. R + E = (r + c) * S
        BY <2>3, <3>4
      <4>2. (r + c) * S < u * S <=> r + c < u
        BY <1>1, LessTimes
      <4> QED
        BY <2>2, <4>1, <4>2
    <3> QED
      BY <1>4, <2>4, <3>3, <3>5, <3>6 DEF Clear, Enough
  <2>5. CASE cb > n
    <3>1. (n + k) - cb \in Nat /\ (n + k) - cb < k
      BY <2>5
    <3>2. E < S
      BY <3>1, PowStrict DEF Power
    <3>3. E <= R <=> r # 0
      <4>1. r = 0 => R = 0
        BY <2>3
      <4>2. r # 0 => 1 * S <= r * S
        BY MulMono
      <4> QED
        BY <1>1, <2>3, <3>2, <4>1, <4>2
    <3>4. R + E < U
      <4>1. (r + 1) * S <= u * S
        BY <2>1, MulMono
      <4>2. (r + 1) * S = r * S + S
        OBVIOUS
      <4> QED
        BY <2>2, <2>3, <3>2, <4>1, <4>2
    <3> QED
      BY <1>4, <2>5, <3>3, <3>4 DEF Clear, Enough
  <2> QED
    BY <2>4, <2>5
<1> QED
  BY <1>3, <1>4

\* mpfr_round_p looks at the bits between prec and err0: when they are neither all zeros nor
\* all ones, the error cannot reach what is kept.
LEMMA RoundPEnough ==
  ASSUME NEW bn \in Nat, NEW n \in Nat, n = bn * W, n > 0, NEW b \in Nat, NEW cb \in Nat, cb > 0,
         NEW p \in Nat, p > 0, RoundP(b, bn, cb, p),
         NEW u \in Nat, NEW q \in Nat, NEW r \in Nat, p <= n => Cut(b, n, p, u, q, r)
  PROVE  p < n /\ p < cb /\ Enough(p, n, cb, r, u)
<1> DEFINE err == IF cb < n THEN cb ELSE n
           known == Bits(b, n - err, n - p)
<1>1. cb > p /\ p < n /\ known \notin {0, 2^(err - p) - 1}
  BY DEF RoundP
<1>2. err \in Nat /\ p < err /\ err <= n /\ err <= cb /\ (cb <= n => err = cb) /\ (cb > n => err = n)
  BY <1>1
<1> HIDE DEF err
<1>3. u = 2^(n - p) /\ u > 0 /\ r < u /\ b = q * u + r
  BY <1>1 DEF Cut
<1>4. PICK v \in Nat : Power(v, n - err) /\ v > 0
  <2>1. n - err \in Nat
    BY <1>2
  <2> QED
    BY <2>1, PowNat DEF Power
<1>5. PICK h \in Nat : Power(h, err - p) /\ h > 1
  <2>1. err - p \in Nat /\ 0 < err - p
    BY <1>2
  <2>2. 2^(err - p) \in Nat /\ 2 * 2^0 <= 2^(err - p)
    BY <2>1, PowNat, PowStrict
  <2> QED
    BY <2>2, PowZero DEF Power
<1>6. u = h * v
  <2>1. err - p \in Nat /\ n - err \in Nat /\ (err - p) + (n - err) = n - p
    BY <1>2
  <2>2. 2^((err - p) + (n - err)) = 2^(err - p) * 2^(n - err)
    BY <2>1, PowAdd
  <2> QED
    BY <1>3, <1>4, <1>5, <2>1, <2>2, Zenon DEF Power
<1>7. known = r \div v
  <2>1. b % u = r
    <3>1. ASSUME NEW z, z = q * u + r, u > 0, r < u PROVE z % u = r
      BY <3>1, DivModUnique
    <3> QED
      BY <1>3, <3>1, Zenon
  <2> QED
    BY <1>3, <1>4, <2>1, Zenon DEF Bits, Power
<1> HIDE DEF known
<1>8. r \div v \in Nat /\ r % v \in Nat /\ r % v < v /\ r = (r \div v) * v + (r % v)
  BY <1>4, DivModExists
<1>9. r \div v # 0 /\ r \div v # h - 1
  BY <1>1, <1>5, <1>7 DEF Power
<1>10. v <= r /\ r + v < u
  <2>1. 1 * v <= (r \div v) * v
    BY <1>8, <1>9, MulMono
  <2>2. r \div v < h
    <3>1. (r \div v) * v < h * v
      <4>1. (r \div v) * v <= r /\ (r \div v) * v \in Nat
        BY <1>8
      <4> QED
        BY <1>3, <1>6, <4>1
    <3> QED
      BY <1>8, <3>1, <1>4, LessTimes
  <2>3. (r \div v) + 2 <= h
    BY <1>5, <1>8, <1>9, <2>2
  <2>4. ((r \div v) + 2) * v <= h * v
    BY <1>8, <2>3, MulMono
  <2>5. ((r \div v) + 2) * v = (r \div v) * v + v + v /\ (r \div v) * v \in Nat
    BY <1>8
  <2> QED
    BY <1>6, <1>8, <2>1, <2>4, <2>5
<1>11. cb <= n => Clear(2^(n - cb), r, u)
  BY <1>2, <1>4, <1>10 DEF Clear, Power
<1> QED
  BY <1>1, <1>4, <1>10, <1>11 DEF Enough

Outward(g, neg) == g = "RNDA" \/ g = (IF neg THEN "RNDD" ELSE "RNDU")

Between(X, q, U) == q * U < X /\ X < (q + 1) * U

\* Between two consecutive numbers of p bits, the directed roundings are these numbers.
LEMMA BetweenDirected ==
  ASSUME NEW p \in Nat, p > 0, NEW N \in 1..MaxBits, p < N, NEW Q, IsSignificand(Q, p),
         NEW U \in Nat, UlpOf(U, N, p), NEW X \in Nat, Between(X, Q, U),
         NEW g, g \notin {"RNDN", "RNDNA"}, NEW neg \in BOOLEAN
  PROVE  RoundTo(X, p, g, neg) = (IF Outward(g, neg) THEN Q + 1 ELSE Q) * U
<1>1. Q \in Nat
  BY DEF IsSignificand
<1>2. PICK s \in Int : s = X - Q * U
  BY <1>1
<1>3. HasLength(X, N) /\ s \in Nat /\ Cut(X, N, p, U, Q, s) /\ s # 0
  <2>1. Q * U <= X /\ X < (Q + 1) * U /\ Q * U \in Nat /\ Q * U # X
    BY <1>1 DEF Between
  <2>2. HasLength(X, N) /\ s \in Nat /\ Cut(X, N, p, U, Q, s)
    BY <1>2, <2>1, BetweenCut
  <2> QED
    BY <1>2, <2>1, <2>2
<1>4. RoundTo(X, p, g, neg) = (IF GoesUp(Q, s, U, g, neg) THEN Q + 1 ELSE Q) * U
  BY <1>1, <1>3, RoundToLong
<1>5. GoesUp(Q, s, U, g, neg) <=> Outward(g, neg)
  BY <1>3 DEF GoesUp, Outward
<1> QED
  BY <1>4, <1>5, Zenon

HalfUp(Q, U) == ((Q \div 2) + (Q % 2)) * (2 * U)

\* To nearest, a number is rounded to the nearest end of the half of an ulp it is in.
LEMMA BetweenNearest ==
  ASSUME NEW p \in Nat, p > 0, NEW N \in 1..MaxBits, p + 1 < N, NEW Q, IsSignificand(Q, p + 1),
         NEW U \in Nat, UlpOf(U, N, p + 1), NEW X \in Nat, Between(X, Q, U), NEW neg \in BOOLEAN
  PROVE  RoundTo(X, p, "RNDN", neg) = HalfUp(Q, U)
<1>1. Q \in Nat /\ U > 0 /\ p < N /\ p + 1 \in Nat
  <2>1. N - (p + 1) \in Nat
    OBVIOUS
  <2> QED
    BY <2>1, PowNat DEF IsSignificand, UlpOf
<1>2. PICK s \in Nat : 0 < s /\ s < U /\ X = Q * U + s
  <2>1. (Q + 1) * U = Q * U + U /\ Q * U \in Nat
    BY <1>1
  <2>2. X - Q * U \in Nat /\ 0 < X - Q * U /\ X - Q * U < U /\ X = Q * U + (X - Q * U)
    BY <2>1 DEF Between
  <2> QED
    BY <2>2
<1>3. HasLength(X, N)
  <2>1. Q * U <= X /\ X < (Q + 1) * U /\ s = X - Q * U
    BY <1>1, <1>2 DEF Between
  <2> QED
    BY <1>1, <2>1, BetweenCut
<1>4. PICK h \in Nat, w \in {0, 1} : Q = 2 * h + w /\ h = Q \div 2 /\ w = Q % 2
  <2>1. Q \div 2 \in Nat /\ Q % 2 \in {0, 1} /\ Q = 2 * (Q \div 2) + (Q % 2)
    BY <1>1
  <2> QED
    BY <2>1
<1>5. PICK V \in Nat : V = 2 * U
  OBVIOUS
<1>6. UlpOf(V, N, p)
  <2>1. N - (p + 1) \in Nat /\ (N - (p + 1)) + 1 = N - p
    OBVIOUS
  <2>2. 2^((N - (p + 1)) + 1) = 2 * 2^(N - (p + 1))
    BY <2>1, PowSucc
  <2> QED
    BY <1>5, <2>1, <2>2, Zenon DEF UlpOf
<1>7. PICK e \in Nat : e = w * U + s
  OBVIOUS
<1>8. 0 < e /\ e < V /\ 2 * e # V /\ (2 * e > V <=> w = 1)
  <2>1. w = 0 \/ w = 1
    BY <1>4
  <2> QED
    BY <1>2, <1>5, <1>7, <2>1
<1>9. X = h * V + e
  BY <1>1, <1>2, <1>4, <1>5, <1>7
<1>10. Cut(X, N, p, V, h, e)
  BY <1>6, <1>8, <1>9 DEF Cut, UlpOf
<1>11. RoundTo(X, p, "RNDN", neg) = (IF GoesUp(h, e, V, "RNDN", neg) THEN h + 1 ELSE h) * V
  BY <1>1, <1>3, <1>10, RoundToLong
<1>12. GoesUp(h, e, V, "RNDN", neg) <=> w = 1
  BY <1>8 DEF GoesUp
<1>13. (IF GoesUp(h, e, V, "RNDN", neg) THEN h + 1 ELSE h) = h + w
  BY <1>4, <1>12
<1> QED
  BY <1>4, <1>5, <1>11, <1>13, Zenon DEF HalfUp

InsideOf(C, d, X) == X = C + d

\* What is inside the interval stays between the same numbers.
LEMMA InteriorBetween ==
  ASSUME NEW N \in Nat, NEW C \in Nat, NEW p,
         NEW U \in Nat, NEW Q \in Nat, NEW R \in Nat, Cut(C, N, p, U, Q, R),
         NEW E \in Nat, Clear(E, R, U), NEW d \in Int, -E < d, d < E, NEW X, InsideOf(C, d, X)
  PROVE  X \in Nat /\ Between(X, Q, U)
<1>1. U > 0 /\ C = Q * U + R
  BY DEF Cut
<1>2. PICK s \in Nat : s = R + d
  BY DEF Clear
<1>3. 0 < s /\ s < U
  BY <1>2 DEF Clear
<1>4. Q * U \in Nat /\ (Q + 1) * U = Q * U + U
  OBVIOUS
<1>5. X = Q * U + s
  BY <1>1, <1>2, <1>4 DEF InsideOf
<1> QED
  BY <1>3, <1>4, <1>5 DEF Between

\* Inside such an interval, the directed roundings are those of its numbers to one side.
LEMMA InteriorDirected ==
  ASSUME NEW p \in Nat, p > 0, NEW N \in 1..MaxBits, p < N, NEW C \in Nat, IsSignificand(C, N),
         NEW U \in Nat, NEW Q \in Nat, NEW R \in Nat, Cut(C, N, p, U, Q, R),
         NEW E \in Nat, Clear(E, R, U), NEW d \in Int, -E < d, d < E, NEW X, InsideOf(C, d, X),
         NEW g, g \notin {"RNDN", "RNDNA"}, NEW neg \in BOOLEAN
  PROVE  RoundTo(X, p, g, neg) = (IF Outward(g, neg) THEN Q + 1 ELSE Q) * U
<1>1. UlpOf(U, N, p) /\ IsSignificand(Q, p) /\ N \in Nat
  <2>1. N \in Nat /\ p <= N
    OBVIOUS
  <2> QED
    BY <2>1, CutIs DEF Cut, UlpOf
<1>2. X \in Nat /\ Between(X, Q, U)
  BY <1>1, InteriorBetween
<1> QED
  BY <1>1, <1>2, BetweenDirected

\* C is cut one bit after its p first ones.
CutAfter(C, N, p, U, Q, R) == p + 1 < N /\ Cut(C, N, p + 1, U, Q, R)

\* To nearest, an interval without a multiple of half an ulp rounds as its half does.
LEMMA InteriorNearest ==
  ASSUME NEW p \in Nat, p > 0, NEW N \in 1..MaxBits, NEW C \in Nat, IsSignificand(C, N),
         NEW U \in Nat, NEW Q \in Nat, NEW R \in Nat, CutAfter(C, N, p, U, Q, R),
         NEW E \in Nat, Clear(E, R, U), NEW d \in Int, -E < d, d < E, NEW X, InsideOf(C, d, X),
         NEW neg \in BOOLEAN
  PROVE  RoundTo(X, p, "RNDN", neg) = HalfUp(Q, U)
<1>1. PICK P \in Nat : P = p + 1
  OBVIOUS
<1>2. Cut(C, N, P, U, Q, R) /\ P < N /\ N \in Nat /\ P > 0 /\ P <= N
  BY <1>1 DEF CutAfter
<1>3. UlpOf(U, N, P) /\ IsSignificand(Q, P)
  BY <1>2, CutIs DEF Cut, UlpOf
<1>4. X \in Nat /\ Between(X, Q, U)
  BY <1>2, InteriorBetween
<1>5. p + 1 < N /\ UlpOf(U, N, p + 1) /\ IsSignificand(Q, p + 1)
  BY <1>1, <1>2, <1>3, Zenon
<1> QED
  BY <1>4, <1>5, BetweenNearest

==============================================================================
