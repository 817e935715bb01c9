----------------------------- MODULE AddSubGeneral -----------------------------
(***************************************************************************)
(* Addition and subtraction of magnitudes of any precisions: add1.c,       *)
(* sub1.c and the comparison cmp2.c, with the operands of mpfr_fmma whose  *)
(* exponent is out of the range (UBF); and mpfr_add and mpfr_sub (add.c,   *)
(* sub.c), which choose between all of them.                               *)
(*                                                                         *)
(* The limbs of b and c are read from the most significant one.  Both are  *)
(* aligned on the limbs of a: Aligned(x, s, n) is the array of x moved     *)
(* down by s bits, cut after n limbs.                                      *)
(***************************************************************************)
EXTENDS AddSub

IsUBF(x) == x.exp \notin emin .. emax
IsNeg(x) == x.neg

Aligned(x, s, n) == ShiftLeft(Mant(x), n * W - Size(x.prec) - s)

\* How many limbs x moved down by s bits reaches.
Reach(x, s) == NLimbs(Size(x.prec) + s)

LimbMax == 2^W - 1

-----------------------------------------------------------------------------
(* add1.c                                                                  *)
(*                                                                         *)
(* rb is the bit after the significand m; fb is 0 (1) while all the bits   *)
(* found after it are 0 (1), as what is left may still carry; both are -1  *)
(* while unknown. done is set by the gotos, over by an overflow.           *)

AddState(m, e, rb, fb) == [m |-> m, e |-> e, rb |-> rb, fb |-> fb, done |-> FALSE, over |-> FALSE]
Decided(s) == [s EXCEPT !.done = TRUE]

\* mpn_add_1 at the last bit of a, with its carry.
Carried(p, s) ==
  CASE s.m + 1 < 2^p -> [s EXCEPT !.m = @ + 1]
    [] s.m + 1 = 2^p /\ s.e = emax -> [s EXCEPT !.done = TRUE, !.over = TRUE]
    [] s.m + 1 = 2^p /\ s.e # emax -> [s EXCEPT !.m = 2^(p-1), !.e = @ + 1, !.rb = 0]

\* fb from the bits known to follow rb.
AllSame(low, n) == CASE low = 0 -> 0 [] low # 0 /\ low = 2^n - 1 -> 1 [] OTHER -> -1

\* The sum of the limbs of a, and what its low bits tell.
AddTop(p, sum, e) ==
  LET n == NLimbs(p)
      sh == MinusModulo(p)
      low == sum % 2^sh
      m == (sum \div 2^sh) % 2^p
  IN CASE sum >= 2^(n * W) /\ e = emax -> [AddState(m, e, 0, 0) EXCEPT !.done = TRUE, !.over = TRUE]
       [] sum >= 2^(n * W) /\ e # emax ->
            LET fb == IF sh = 0 THEN -1 ELSE AllSame(low, sh)
            IN [AddState((sum \div 2^(sh + 1)) % 2^p, e + 1, m % 2, fb)
                  EXCEPT !.done = sh > 0 /\ fb < 0]
       [] sum < 2^(n * W) /\ sh = 0 -> AddState(m, e, -1, -1)
       [] sum < 2^(n * W) /\ sh > 0 ->
            LET fb == IF sh = 1 THEN -1 ELSE AllSame(low % 2^(sh - 1), sh - 1)
            IN [AddState(m, e, Bit(low, sh - 1), fb) EXCEPT !.done = sh > 1 /\ fb < 0]

\* A limb of b that is above all those of c.
AddLimbAboveC(s, bb, rnd) ==
  LET ones == (IF s.rb < 0 THEN (bb % HighBit) + HighBit ELSE bb) = LimbMax
      t == [s EXCEPT !.rb = IF @ < 0 THEN bb \div HighBit ELSE @, !.fb = 1]
  IN IF ones /\ ~ (s.fb > 0 /\ rnd = "RNDF") THEN t ELSE Decided(t)

\* The first limbs after a, when the round bit or what follows is unknown.
AddFirstLimb(p, s, bb, cc, rnd) ==
  LET sum == bb + cc
      carry == sum > LimbMax
      t == IF carry /\ s.rb >= 0 THEN [s EXCEPT !.rb = 1 - @] ELSE s
      u == IF carry /\ t.rb <= 0 THEN Carried(p, t) ELSE t
      limb == sum % 2^W
      up == (2 * limb) % 2^W
      rest == IF u.rb < 0 THEN Sticky(up, up >= HighBit) ELSE limb
      v == [u EXCEPT !.rb = IF @ < 0 THEN limb \div HighBit ELSE @,
                     !.fb = IF rest = 0 THEN 0 ELSE 1]
  IN IF u.over THEN u
     ELSE IF rest \notin {0, LimbMax} \/ rnd = "RNDF" THEN Decided(v) ELSE v

\* The next ones: a carry turns the bits found to be 1 into 0.
AddNextLimb(p, s, bb, cc) ==
  LET sum == bb + cc
      carry == sum > LimbMax
      limb == sum % 2^W
      fb == IF carry THEN 1 - s.fb ELSE s.fb
      t == [s EXCEPT !.fb = fb, !.rb = IF carry /\ fb = 0 THEN 1 - @ ELSE @]
      u == IF carry /\ fb = 0 /\ t.rb = 0 THEN Carried(p, t) ELSE t
  IN CASE carry /\ fb = 1 -> Decided(t)
       [] ~ (carry /\ fb = 1) /\ u.over -> u
       [] ~ (carry /\ fb = 1) /\ ~ u.over ->
            IF fb = 0 THEN IF limb # 0 THEN Decided([u EXCEPT !.fb = 1]) ELSE u
            ELSE IF limb # LimbMax THEN Decided(u) ELSE u

\* The limbs of c that are left, null or not.
AddScanned(s, more) == IF s.done \/ s.fb = 1 THEN s ELSE [s EXCEPT !.fb = IF more THEN 1 ELSE @]

\* bn > an: limb i after those of a, of the k ones that b has left.
AddScan(p, s0, B, C, k, lead, rnd) ==
  LET scan[i \in 0 .. k] ==
        IF i = 0 THEN s0
        ELSE LET s == scan[i - 1]
                 bb == Limb(B.m, B.n - i)
                 cc == Limb(C.m, C.n - i)
             IN CASE s.done -> s
                  [] ~ s.done /\ i <= lead -> AddLimbAboveC(s, bb, rnd)
                  [] ~ s.done /\ i > lead /\ s.fb < 0 -> AddFirstLimb(p, s, bb, cc, rnd)
                  [] ~ s.done /\ i > lead /\ s.fb >= 0 ->
                       IF rnd = "RNDF" THEN Decided(s) ELSE AddNextLimb(p, s, bb, cc)
  IN AddScanned(scan[k], C.m % 2^((C.n - k) * W) # 0)

\* bn <= an, fb # 1: only c is left.
AddRestOfC(s, C, d, aq2, rnd) ==
  LET seen == IF rnd = "RNDF" THEN [m |-> Limb(C.m, C.n - 1), n |-> 1] ELSE C
      top == seen.m \div 2^(seen.n * W - 1)
      rest == IF s.rb < 0 THEN seen.m % 2^(seen.n * W - 1) ELSE seen.m
      Unless(rb) == IF s.rb < 0 THEN rb ELSE s.rb
  IN CASE C.m = 0 -> [s EXCEPT !.rb = Unless(0), !.fb = 0]
       [] C.m # 0 /\ d > aq2 -> [s EXCEPT !.rb = Unless(0), !.fb = 1]
       [] C.m # 0 /\ d <= aq2 -> [s EXCEPT !.rb = Unless(top), !.fb = IF rest = 0 THEN 0 ELSE 1]

\* The labels set_exponent and add_one_ulp. inexact is away from zero; the test
\* of underflow looks at inex, which is signed.
AddSetExponent(p, m, e, inexact, rnd, neg) ==
  LET inex == Signed(neg, inexact)
      r == IF /\ rnd = "RNDN"
              /\ e < emin - 1 \/ (inex >= 0 /\ m = 2^(p-1))
           THEN "RNDZ" ELSE rnd
  IN IF e < emin THEN Underflow(p, r, neg, emin) ELSE Return(Num(neg, e, m, p), inex, {})

AddOneUlp1(p, m, e, rnd, neg) ==
  CASE m + 1 < 2^p -> AddSetExponent(p, m + 1, e, 1, rnd, neg)
    [] m + 1 = 2^p /\ e = emax -> Overflow(p, rnd, neg, emax)
    [] m + 1 = 2^p /\ e # emax -> AddSetExponent(p, 2^(p-1), e + 1, 1, rnd, neg)

AddRounding(p, s, rnd, neg) ==
  LET inexact == s.rb > 0 \/ s.fb # 0
      up == IF rnd \in {"RNDN", "RNDF"} THEN s.rb # 0 /\ (s.fb # 0 \/ s.m % 2 = 1)
            ELSE inexact /\ ~ IsLikeRNDZ(rnd, neg)
  IN CASE s.over -> Overflow(p, rnd, neg, emax)
       [] ~ s.over /\ up -> AddOneUlp1(p, s.m, s.e, rnd, neg)
       [] ~ s.over /\ ~ up ->
            AddSetExponent(p, s.m, s.e, IF inexact THEN -1 ELSE 0, rnd, neg)

\* The limbs after those of a, B and C: they are looked at unless s tells enough.
AddBelow(p, s, B, C, left, d, rnd) ==
  LET lead == d \div W - NLimbs(p)
  IN CASE s.done -> s
       [] ~ s.done /\ left > 0 ->
            IF s.fb = 0 /\ lead >= 0 THEN [s EXCEPT !.fb = 1] ELSE AddScan(p, s, B, C, left, lead, rnd)
       [] ~ s.done /\ left = 0 -> IF s.fb = 1 THEN s ELSE AddRestOfC(s, C, d, Size(p), rnd)

\* B + C, whose first NLimbs(p) limbs are those of a, and the k others follow.
AddAll(p, B, C, k, left, b, d, rnd) ==
  LET rest == 2^(k * W)
      After(m) == [m |-> m % rest, n |-> k]
  IN AddRounding(p, AddBelow(p, AddTop(p, B \div rest + C \div rest, b.exp),
                             After(B), After(C), left, d, rnd), rnd, b.neg)

\* mpfr_add1: b of the larger exponent, c of the same sign.
Add1(p, b, c, rnd) ==
  LET d == b.exp - c.exp
      left == MaxOf(NLimbs(b.prec) - NLimbs(p), 0)
      total == MaxOf(NLimbs(p) + left, Reach(c, d))
  IN IF IsUBF(b) /\ b.exp > emax THEN Overflow(p, rnd, b.neg, emax)
     ELSE AddAll(p, Aligned(b, 0, total), Aligned(c, d, total), total - NLimbs(p), left, b, d, rnd)

-----------------------------------------------------------------------------
(* cmp2.c *)

\* mpfr_cmp2: which operand is the larger, and by how many bits their difference
\* is shorter.
CompareAligned(B, C, size) ==
  CASE B = C -> [sign |-> 0, cancel |-> 0]
    [] B > C -> [sign |-> 1, cancel |-> LeadingZeros(B - C, size)]
    [] B < C -> [sign |-> -1, cancel |-> LeadingZeros(C - B, size)]
Cmp2(b, c) ==
  LET total == MaxOf(NLimbs(b.prec), NLimbs(c.prec)) +
               MaxOf(b.exp - c.exp, c.exp - b.exp) \div W + 1
  IN CompareAligned(Aligned(b, MaxOf(c.exp - b.exp, 0), total),
                    Aligned(c, MaxOf(b.exp - c.exp, 0), total), total * W)

-----------------------------------------------------------------------------
(* sub1.c *)

\* The label end_of_sub: m has exponent e; inexact is away from zero.
SubEnd(p, m, e, inexact, rnd, neg) ==
  LET r == IF rnd = "RNDN" /\ (e < emin - 1 \/ (inexact >= 0 /\ m = 2^(p-1)))
           THEN "RNDZ" ELSE rnd
  IN CASE e > emax -> Overflow(p, rnd, neg, emax)
       [] e < emin -> Underflow(p, r, neg, emin)
       [] OTHER -> Return(Num(neg, e, m, p), Signed(neg, inexact), {})

\* c is too small to change the bits of b: b is rounded, then a step back is
\* made when b, or half an ulp above it, is the result.
SubSmall(p, b, rnd, neg) ==
  LET r == RndRawEven(b.mant, b.prec, p, rnd, neg)
      e == b.exp + r.carry
  IN CASE rnd = "RNDF" -> Set4(b, p, "RNDZ", neg, emax)
       [] rnd # "RNDF" /\ r.dir = 0 /\ ~ IsLikeRNDZ(rnd, neg) -> SubEnd(p, r.mant, e, 1, rnd, neg)
       [] rnd # "RNDF" /\ r.dir \notin {0, EvenInex} -> SubEnd(p, r.mant, e, r.dir, rnd, neg)
       [] OTHER -> IF r.mant > 2^(p-1) THEN SubEnd(p, r.mant - 1, e, -1, rnd, neg)
                   ELSE SubEnd(p, 2^p - 1, e - 1, -1, rnd, neg)

\* What is left of b and of c after the limbs of a.  low (cmp_low) compares the
\* limbs seen: 1 or 2 if b is the larger, -1 or -2 if c is, 2 and -2 when the bits
\* below half an ulp are what is compared; end is the label to go to.
SubState(low) == [low |-> low, end |-> "scan"]
Goto(s, label) == [s EXCEPT !.end = label]

\* To nearest without round bit in a, half an ulp is moved to the other side.
MoveHalf(low, bb, cc) ==
  CASE low < 0 -> IF cc >= HighBit THEN [b |-> bb, c |-> cc - HighBit]
                                   ELSE [b |-> bb + HighBit, c |-> cc]
    [] low >= 0 -> IF cc < HighBit THEN [b |-> bb, c |-> cc + HighBit]
                                   ELSE [b |-> bb - HighBit, c |-> cc]

SubLimb(s, first, bb, cc, sh, rnd) ==
  LET low == CASE s.low = 0 /\ bb < cc -> IF first THEN -2 ELSE -1
               [] s.low = 0 /\ bb > cc -> 1
               [] OTHER -> s.low
      halved == rnd = "RNDN" /\ sh = 0 /\ first
      v == IF halved THEN MoveHalf(low, bb, cc) ELSE [b |-> bb, c |-> cc]
      t == [s EXCEPT !.low = IF halved /\ low > 0 THEN 2 ELSE low]
  IN CASE t.low = 0 -> t
       [] t.low < 0 /\ rnd = "RNDZ" -> Goto(t, "sub_one_ulp")
       [] t.low < 0 /\ rnd \notin {"RNDZ", "RNDN"} -> Goto(t, "below")
       [] t.low < 0 /\ rnd = "RNDN" ->
            CASE v.b > v.c \/ sh > 0 \/ t.low = -1 -> Goto(t, "below")
              [] ~ (v.b > v.c \/ sh > 0 \/ t.low = -1) /\ v.b < v.c -> Goto(t, "sub_one_ulp")
              [] OTHER -> t
       [] t.low > 0 /\ rnd = "RNDZ" -> Goto(t, "above")
       [] t.low > 0 /\ rnd \notin {"RNDZ", "RNDN"} -> Goto(t, "add_one_ulp")
       [] t.low > 0 /\ rnd = "RNDN" ->
            CASE v.b > v.c /\ t.low = 2 -> Goto(t, "add_one_ulp")
              [] (v.b > v.c /\ t.low # 2) \/ v.b < v.c -> Goto(t, "above")
              [] v.b = v.c -> t

\* Mutant: the scan stops with the limbs of b.
SubScanShort(low, B, C, n, sh, odd, rnd) ==
  LET scan[i \in 0 .. n] ==
        IF i = 0 THEN SubState(low)
        ELSE LET s == scan[i - 1]
             IN IF s.end # "scan" THEN s
                ELSE SubLimb(s, i = 1, Limb(B, n - i), 0, sh, rnd)
  IN IF scan[n].end # "scan" THEN scan[n].end ELSE "exact"

\* The label once no limb is left.
SubScanned(t, odd, rnd) ==
  CASE t.end # "scan" -> t.end
    [] t.end = "scan" /\ (rnd # "RNDN" \/ t.low = 0) -> "exact"
    [] t.end = "scan" /\ rnd = "RNDN" /\ t.low # 0 ->
         IF odd THEN IF t.low < 0 THEN "sub_one_ulp" ELSE "add_one_ulp"
         ELSE IF t.low > 0 THEN "above" ELSE "below"

\* The label reached after the scan of n limbs; a is below ("above") the exact
\* result when it is above b's limbs, and so on.
SubScan(low, B, C, n, sh, odd, rnd) ==
  LET scan[i \in 0 .. n] ==
        IF i = 0 THEN SubState(low)
        ELSE LET s == scan[i - 1]
             IN IF s.end # "scan" THEN s
                ELSE SubLimb(s, i = 1, Limb(B, n - i), Limb(C, n - i), sh, rnd)
  IN SubScanned(scan[n], odd, rnd)

\* The label that the bits of the last limb of a that are not kept lead to.
SubLowBits(carry, sh, rnd) ==
  LET half == 2^(sh - 1)
  IN CASE rnd = "RNDF" -> "exact"
       [] rnd = "RNDN" /\ sh > 0 /\ carry > half -> "add_one_ulp"
       [] rnd = "RNDN" /\ sh > 0 /\ 0 < carry /\ carry < half -> "above"
       [] rnd = "RNDZ" /\ carry # 0 -> "above"
       [] rnd \notin {"RNDF", "RNDN", "RNDZ"} /\ carry # 0 -> "add_one_ulp"
       [] OTHER -> "scan"

\* How the last limb of a is left: from the difference of the limbs of a, m and the bits
\* carry that are not kept, and from the k limbs below.
SubLast(carry, m, lowB, lowC, k, sh, rnd) ==
  LET first == SubLowBits(carry, sh, rnd)
  IN IF first # "scan" THEN first
     ELSE SubScan(IF carry = 0 THEN 0 ELSE 2, lowB, lowC, k, sh, m % 2 = 1, rnd)

\* m is corrected by an ulp up or down, and when its first bit is lost it is a power of 2.
SubUlp(p, m, end, e, rnd, neg) ==
  LET a == CASE end = "add_one_ulp" -> m + 1 [] end = "sub_one_ulp" -> (m - 1) % 2^p [] OTHER -> m
      addExp == a = 2^p \/ (end # "sub_one_ulp" /\ a < 2^(p-1))
  IN SubEnd(p, IF addExp THEN 2^(p-1) ELSE a, e + (IF addExp THEN 1 ELSE 0),
            CASE end = "exact" -> 0
              [] end \in {"above", "sub_one_ulp"} -> -1
              [] end \in {"below", "add_one_ulp"} -> 1,
            rnd, neg)

\* B - C, of NLimbs(p) + k limbs.
SubAll(p, B, C, k, e, rnd, neg) ==
  LET sh == MinusModulo(p)
      rest == 2^(k * W)
      diff == (B \div rest - C \div rest) % 2^(Size(p))
  IN SubUlp(p, diff \div 2^sh,
            SubLast(diff % 2^sh, diff \div 2^sh, B % rest, C % rest, k, sh, rnd), e, rnd, neg)

\* c within reach of a: the limbs of a are subtracted without looking further.
SubLimbs(p, b, c, cancel, rnd, neg) ==
  LET d == b.exp - c.exp
      total == MaxOf(NLimbs(p), MaxOf(Reach(b, -cancel), Reach(c, d - cancel)))
      r == IF IsLikeRNDZ(rnd, neg) THEN "RNDZ" ELSE rnd
  IN IF cancel > 0 /\ b.exp < emin - 1
     THEN Underflow(p, IF r = "RNDN" THEN "RNDZ" ELSE r, neg, emin)
     ELSE SubAll(p, Aligned(b, -cancel, total), Aligned(c, d - cancel, total),
                 total - NLimbs(p), b.exp - cancel, r, neg)

\* x - y, where x is the larger.
SubLarger(p, x, y, cancel, rnd, neg) ==
  IF MaxOf(p, x.prec) + 2 <= x.exp - y.exp THEN SubSmall(p, x, rnd, neg)
  ELSE SubLimbs(p, x, y, cancel, rnd, neg)

SubCompared(p, b, c, cmp, rnd) ==
  LET x == IF cmp.sign < 0 THEN c ELSE b
      neg == (cmp.sign < 0) # b.neg
      ubf == IsUBF(b) \/ IsUBF(c)
  IN CASE cmp.sign = 0 -> Return(Zero(rnd = "RNDD", p), 0, {})
       [] cmp.sign # 0 /\ ubf /\ x.exp < emin - 1 ->
            Underflow(p, IF rnd = "RNDN" THEN "RNDZ" ELSE rnd, neg, emin)
       [] OTHER -> SubLarger(p, x, IF cmp.sign < 0 THEN b ELSE c, cmp.cancel,
                             IF ubf /\ rnd = "RNDF" THEN "RNDN" ELSE rnd, neg)

\* mpfr_sub1: |b| - |c|, with the sign of b.
Sub1(p, b, c, rnd) == SubCompared(p, b, c, Cmp2(b, c), rnd)

-----------------------------------------------------------------------------
(* add.c, sub.c *)

SamePrec(p, b, c) == p = b.prec /\ b.prec = c.prec

UbfExp == -1000  \* MPFR_EXP_UBF: below every exponent

\* mpfr_set and mpfr_neg copy the field of the exponent: that of a UBF is not its exponent.
SetField(p, b, rnd, neg) ==
  Set4(IF ~ IsSingular(b) /\ IsUBF(b) THEN [b EXCEPT !.exp = UbfExp] ELSE b, p, rnd, neg, emax)

\* |b| - |c| with the sign of b, or |b| + |c|.
Subtracted(p, b, c, rnd, generic) ==
  IF SamePrec(p, b, c) /\ ~ IsUBF(b) /\ ~ IsUBF(c) THEN Sub1sp(b, c, rnd, generic)
                                                   ELSE Sub1(p, b, c, rnd)
Added(p, b, c, rnd, generic) ==
  IF SamePrec(p, b, c) /\ ~ IsUBF(b) /\ ~ IsUBF(c) THEN Add1sp(b, c, rnd, generic)
                                                   ELSE Add1(p, b, c, rnd)

\* mpfr_add (sub = FALSE) and mpfr_sub, of numbers and zeros. To subtract numbers of opposite
\* signs they are added, with the sign of the larger exponent and that of c changed at the
\* end. generic is MPFR_GENERIC_ABI.
AddSub(p, b, c, sub, rnd, generic) ==
  LET neg == c.neg # sub  \* the sign of the second term
      swap == b.exp < c.exp
      r == IF swap /\ sub THEN InvertRnd(rnd) ELSE rnd
      Whole(sum) == IF swap /\ sub THEN ChangeSign(sum) ELSE sum
  IN CASE b.kind = "zero" /\ c.kind = "zero" ->
            Return(Zero(IF rnd = "RNDD" THEN b.neg \/ neg ELSE b.neg /\ neg, p), 0, {})
       [] b.kind = "zero" /\ c.kind # "zero" -> SetField(p, c, rnd, neg)
       [] b.kind # "zero" /\ c.kind = "zero" -> SetField(p, b, rnd, b.neg)
       [] ~ IsSingular(b) /\ ~ IsSingular(c) /\ b.neg # neg -> Subtracted(p, b, c, rnd, generic)
       [] ~ IsSingular(b) /\ ~ IsSingular(c) /\ b.neg = neg ->
            Whole(Added(p, IF swap THEN c ELSE b, IF swap THEN b ELSE c, r, generic))

Add(p, b, c, rnd, generic) == AddSub(p, b, c, FALSE, rnd, generic)
=============================================================================
