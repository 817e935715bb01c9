------------------------------ MODULE SquareRoot ------------------------------
(***************************************************************************)
(* sqrt.c: the square root of a positive number.                           *)
(*                                                                         *)
(* The two special codes start from a table-driven approximation of the    *)
(* integer square root and look at it more closely only when what follows  *)
(* the significand could change with its error.  Here the approximation is *)
(* any number within the error the code relies on; the error is in         *)
(* proportion to the limb (7, 26 and 4 for limbs of 64 bits).              *)
(***************************************************************************)
EXTENDS Limbs

CONSTANTS
  Root1Error,  \* __gmpfr_sqrt_limb_approx: root - Root1Error .. root
  Root2Below,  \* mpfr_sqrt2_approx: root - Root2Below .. root + Root2Above
  Root2Above

ASSUME RootAssumption == Root1Error \in Nat /\ Root2Below \in Nat /\ Root2Above \in Nat

\* floor(sqrt(n)), n < 2^(2*bits)
Isqrt(n, bits) ==
  LET WithBit(r, bit) == IF (r + bit) * (r + bit) <= n THEN r + bit ELSE r
      root[i \in 0 .. bits] == IF i = 0 THEN 0 ELSE WithBit(root[i - 1], 2^(bits - i))
  IN root[bits]

OddExp(u) == u.exp % 2

\* The end of mpfr_sqrt1, mpfr_sqrt1n and mpfr_sqrt2.
RootEnd(p, m, e, rb, sb, rnd) ==
  LET roundsUp == e = emin - 1 /\ IsLikeRNDA(rnd, FALSE) /\ m = 2^p - 1 /\ (rb \/ sb)
      r == IF rnd = "RNDN" /\ (e < emin - 1 \/ (m = 2^(p-1) /\ ~ sb)) THEN "RNDZ" ELSE rnd
  IN CASE e > emax -> Overflow(p, rnd, FALSE, emax)
       [] e < emin /\ ~ roundsUp -> Underflow(p, r, FALSE, emin)
       [] OTHER -> RoundBits(p, m, e, rb, sb, rnd, FALSE, OneUlpChecked(p, m, e, rnd, FALSE))

Sqrt1(u, off, rnd) ==
  LET sh == W - u.prec
      n == Mant(u) * 2^(W - OddExp(u))
      root == Isqrt(n, W)
      approx == root - off
      near == (approx + Root1Error) % 2^(sh - 1) <= Root1Error
      r == IF near THEN root ELSE approx
  IN RootEnd(u.prec, r \div 2^sh, (u.exp + OddExp(u)) \div 2, Bit(r, sh - 1) = 1,
             (near => root * root # n) \/ r % 2^(sh - 1) # 0, rnd)

Sqrt1n(u, rnd) ==
  LET n == u.mant * 2^(W - OddExp(u))
      root == Isqrt(n, W)
      rest == n - root * root
  IN RootEnd(u.prec, root, (u.exp + OddExp(u)) \div 2, rest > root, rest # 0, rnd)

\* Mutant: the test does not see an approximation that is too large.
Sqrt2OneSided(u, off, rnd) ==
  LET sh == 2 * W - u.prec
      n == Mant(u) * 2^(2 * W - OddExp(u))
      root == Isqrt(n, 2 * W)
      approx == root + off
      near == approx % 2^(sh - 1) = 0
      r == IF near THEN root ELSE approx
  IN RootEnd(u.prec, r \div 2^sh, (u.exp + OddExp(u)) \div 2, Bit(r, sh - 1) = 1,
             (near => root * root # n) \/ r % 2^(sh - 1) # 0, rnd)

Sqrt2(u, off, rnd) ==
  LET sh == 2 * W - u.prec
      n == Mant(u) * 2^(2 * W - OddExp(u))
      root == Isqrt(n, 2 * W)
      approx == root + off
      near == (approx + Root2Below) % 2^(sh - 1) <= Root2Below + Root2Above
      r == IF near THEN root ELSE approx
  IN RootEnd(u.prec, r \div 2^sh, (u.exp + OddExp(u)) \div 2, Bit(r, sh - 1) = 1,
             (near => root * root # n) \/ r % 2^(sh - 1) # 0, rnd)

\* mpn_sqrtrem of the 2*rsize high limbs of u, with a limb more to round to nearest a
\* significand that fills its limbs.
SqrtGeneral(p, u, rnd) ==
  LET oneMore == rnd = "RNDN" /\ MinusModulo(p) = 0
      sh == IF oneMore THEN W ELSE MinusModulo(p)
      rsize == IF oneMore THEN NLimbs(p) + 1 ELSE NLimbs(p)
      us == NLimbs(u.prec)
      left == MaxOf(us - 2 * rsize, 0)
      wide == Mant(u) * 2^(MaxOf(2 * rsize - us, 0) * W + 1 - OddExp(u))
      a == wide \div 2^(left * W + 1)
      root == Isqrt(a, rsize * W)
      rest == wide % 2^(left * W + 1) # 0 \/ root * root # a
      low == root % 2^sh
      m == root \div 2^sh
      e == (u.exp + OddExp(u)) \div 2
      exact == ~ rest /\ low = 0
      half == 2^(sh - 1)
      up == CASE rnd \in {"RNDZ", "RNDD"} \/ exact -> FALSE
              [] rnd = "RNDN" /\ ~ exact ->
                   low >= half /\ (low # half \/ rest \/ m % 2 = 1)
              [] OTHER -> TRUE
      s == IF up THEN OneUlpAdded(p, m, e, FALSE)
           ELSE Return(Num(FALSE, e, m, p), IF exact THEN 0 ELSE -1, {})
  IN CheckRange(s.y, s.inex, rnd, emin, emax)

\* How far from the root the approximation may be.
RootOffsets(p, u, generic) ==
  CASE ~ generic /\ p = u.prec /\ p < W -> -Root1Error .. 0
    [] ~ generic /\ p = u.prec /\ W < p /\ p < 2 * W -> -Root2Below .. Root2Above
    [] OTHER -> {0}

\* mpfr_sqrt, of a positive number.
Sqrt(p, u, off, rnd, generic) ==
  LET special == ~ generic /\ p = u.prec
  IN CASE special /\ p < W -> Sqrt1(u, -off, rnd)
       [] special /\ p = W -> Sqrt1n(u, rnd)
       [] special /\ W < p /\ p < 2 * W -> Sqrt2(u, off, rnd)
       [] ~ (special /\ p < 2 * W) -> SqrtGeneral(p, u, rnd)
=============================================================================
