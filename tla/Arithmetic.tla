------------------------------ MODULE Arithmetic ------------------------------
(***************************************************************************)
(* The basic operations on numbers and zeros: each call, with the          *)
(* algorithm its precisions select, returns what one rounding of the exact *)
(* result would (RealRounding).                                            *)
(*                                                                         *)
(* An execution gathers the operands of one operation and calls it.  The   *)
(* codes for two and three limbs need a limb of more bits than the general *)
(* ones can be explored with: Wide is the same code with limbs of          *)
(* WideBits bits.                                                          *)
(***************************************************************************)
EXTENDS Fused, SquareRoot, Sum, RealRounding

CONSTANTS
  Operations,  \* those that are called
  OperandsOf(_, _),  \* OperandsOf(op, i): what operand i of op may be
  PrecsOf(_),        \* the precisions of its result
  WideBits,
  LargeEmax,  \* __gmpfr_emax for the operations with integers
  FarEmax     \* and for the remainders

\* Those of IntegerArithmetic, by number of operands that are not integers.
OfIntegers == {"set_ui_2exp", "set_si_2exp", "set_z_2exp", "set_q"}
OfOneNumber ==
  {"mul_ui", "add_ui", "sub_ui", "ui_sub", "ui_div",
   "mul_z", "div_z", "add_z", "sub_z", "z_sub", "si_div", "mul_q", "div_q",
   "rint", "rint_then", "frac", "cmp_ui_2exp", "cmp_si_2exp", "cmp_z",
   "fits_ui", "fits_si", "get_ui", "get_si", "get_z"}
Remainders == {"fmod", "remainder", "fmodquo", "remquo"}
OfTwoNumbers == Remainders \cup {"min", "max", "dim", "cmp", "eq"}
OfSeveralNumbers == {"dot"}
LargeOperations == OfIntegers \cup OfOneNumber \cup OfTwoNumbers
EmaxOf(o) == IF o \in Remainders THEN FarEmax ELSE IF o \in LargeOperations THEN LargeEmax ELSE emax

Arity(o) ==
  CASE o \in OfIntegers -> 0
    [] o \in OfOneNumber -> 1
    [] o \in OfTwoNumbers -> 2
    [] o \in OfSeveralNumbers -> 6
    [] o \in {"sqr", "sqrt", "mul_2si", "div_2si", "div_ui", "wide_sqr", "wide_sqrt"} -> 1
    [] o \in {"add", "sub", "mul", "div", "wide_mul"} -> 2
    [] o \in {"fma", "fms", "sum"} -> 3
    [] o \in {"fmma", "fmms"} -> 4

Numbers == [kind : {"num", "zero"}, neg : BOOLEAN, exp : Int, mant : Nat, prec : Nat \ {0}]

ASSUME ArithmeticAssumption ==
  /\ WideBits \in Nat \ {0}
  /\ LargeEmax \in Int /\ emin <= LargeEmax /\ FarEmax \in Int /\ emin <= FarEmax
  /\ \A o \in Operations :
       /\ PrecsOf(o) \subseteq Nat \ {0}
       /\ \A i \in 1 .. Arity(o) : \A x \in OperandsOf(o, i) :
            x \in Numbers /\ WellFormed(x, emin, EmaxOf(o)) /\ (x.kind = "zero" => x.mant = 0)

Wide == INSTANCE MulDiv WITH W <- WideBits
WideRoot == INSTANCE SquareRoot WITH W <- WideBits

VARIABLES
  op,    \* the operation
  xs,    \* its operands so far
  call,  \* precision of the result, rounding mode, MPFR_GENERIC_ABI, integers
  r      \* what the call returned: [y, inex, raised]

vars == <<op, xs, call, r>>

NoCall == [p |-> 0, rnd |-> "RNDN", generic |-> FALSE, n |-> 0, d |-> 1, mode |-> "RNDN"]

Init ==
  /\ op \in Operations
  /\ xs = <<>> /\ call = NoCall /\ r = Return(Zero(FALSE, 1), 0, {})

NextOperand ==
  /\ call = NoCall /\ Len(xs) < Arity(op)
  /\ \E x \in OperandsOf(op, Len(xs) + 1) : xs' = Append(xs, x)
  /\ UNCHANGED <<op, call, r>>

Ready(ops) == op \in ops /\ call = NoCall /\ Len(xs) = Arity(op)
CalledAs(c, result) ==
  /\ call' = c
  /\ r' = result
  /\ UNCHANGED <<op, xs>>
Called(p, rnd, generic, n, result) ==
  CalledAs([NoCall EXCEPT !.p = p, !.rnd = rnd, !.generic = generic, !.n = n], result)

\* MPFR_GENERIC_ABI only excludes codes for one precision.
Abis(p) == IF \A i \in DOMAIN xs : xs[i].prec = p THEN BOOLEAN ELSE {FALSE}

\* Two operands may be the same variable.
Same == {FALSE, xs[1] = xs[2]}

CallAddSub ==
  Ready({"add", "sub"}) /\ \E p \in PrecsOf(op), rnd \in Rnds : \E generic \in Abis(p) :
    Called(p, rnd, generic, 0, AddSub(p, xs[1], xs[2], op = "sub", rnd, generic))

CallMul == Ready({"mul"}) /\ \E p \in PrecsOf(op), rnd \in Rnds, same \in Same : \E generic \in Abis(p) :
  Called(p, rnd, generic, 0, Mul(p, xs[1], xs[2], same, rnd, generic))

CallSqr == Ready({"sqr"}) /\ \E p \in PrecsOf(op), rnd \in Rnds : \E generic \in Abis(p) :
  Called(p, rnd, generic, 0, Sqr(p, xs[1], rnd, generic))

CallDiv == Ready({"div"}) /\ \E p \in PrecsOf(op), rnd \in Rnds : \E generic \in Abis(p) :
  Called(p, rnd, generic, 0, Div(p, xs[1], xs[2], rnd, generic))

CallSqrt == Ready({"sqrt"}) /\ \E p \in PrecsOf(op), rnd \in Rnds : \E generic \in Abis(p) :
  \E off \in RootOffsets(p, xs[1], generic) :
    Called(p, rnd, generic, off, Sqrt(p, xs[1], off, rnd, generic))

CallMul2si == Ready({"mul_2si"}) /\ \E p \in PrecsOf(op), rnd \in Rnds \ {"RNDF"}, n \in -W .. W :
  Called(p, rnd, FALSE, n, Mul2si(p, xs[1], n, rnd))

CallDiv2si == Ready({"div_2si"}) /\ \E p \in PrecsOf(op), rnd \in Rnds \ {"RNDF"}, n \in -W .. W :
  Called(p, rnd, FALSE, n, Div2si(p, xs[1], n, rnd))

CallDivUi == Ready({"div_ui"}) /\ \E p \in PrecsOf(op), rnd \in Rnds, n \in 2 .. 2^W - 1 :
  Called(p, rnd, FALSE, n, DivUi(p, xs[1], n, rnd))

CallFma ==
  Ready({"fma", "fms"}) /\ \E p \in PrecsOf(op), rnd \in Rnds, same \in Same : \E generic \in Abis(p) :
    Called(p, rnd, generic, 0, Fma(p, xs[1], xs[2], IF op = "fms" THEN Opposite(xs[3]) ELSE xs[3],
                                      same, rnd, generic))

CallFmma ==
  Ready({"fmma", "fmms"}) /\ \E p \in PrecsOf(op), rnd \in Rnds :
    Called(p, rnd, FALSE, 0, Fmma(p, xs[1], xs[2], xs[3], xs[4], op = "fmms", rnd, FALSE))

CallSum == Ready({"sum"}) /\ \E p \in PrecsOf(op), rnd \in Rnds :
  Called(p, rnd, FALSE, 0, SumOf(p, xs, rnd, FALSE))

CallDot == Ready({"dot"}) /\ DotAsserted(xs) /\ \E p \in PrecsOf(op), rnd \in Rnds :
  Called(p, rnd, FALSE, 0, Dot(p, xs, rnd))

CallWideMul == Ready({"wide_mul"}) /\ \E p \in PrecsOf(op), rnd \in Rnds :
  Called(p, rnd, FALSE, 0, Wide!Mul(p, xs[1], xs[2], FALSE, rnd, FALSE))

CallWideSqr == Ready({"wide_sqr"}) /\ \E p \in PrecsOf(op), rnd \in Rnds :
  Called(p, rnd, FALSE, 0, Wide!Sqr(p, xs[1], rnd, FALSE))

CallWideSqrt == Ready({"wide_sqrt"}) /\ \E p \in PrecsOf(op), rnd \in Rnds :
  \E off \in WideRoot!RootOffsets(p, xs[1], FALSE) :
    Called(p, rnd, FALSE, off, WideRoot!Sqrt(p, xs[1], off, rnd, FALSE))

Next ==
  \/ NextOperand
  \/ CallAddSub \/ CallMul \/ CallSqr \/ CallDiv \/ CallSqrt
  \/ CallMul2si \/ CallDiv2si \/ CallDivUi
  \/ CallFma \/ CallFmma \/ CallSum \/ CallDot
  \/ CallWideMul \/ CallWideSqr \/ CallWideSqrt

Spec == Init /\ [][Next]_vars

-----------------------------------------------------------------------------
(* The exact result: the sum of the terms, each m * 2^-lsb *)

Term(x) == [neg |-> x.neg, m |-> x.mant, lsb |-> x.prec - x.exp]
Times(x, y) == [neg |-> x.neg # y.neg, m |-> x.mant * y.mant,
                lsb |-> (x.prec - x.exp) + (y.prec - y.exp)]
Minus(t) == [t EXCEPT !.neg = ~ @]

\* q * 2^-lsb and the fact that more follows: a last bit set is enough for every rounding.
OddTerm(neg, q, inexact, lsb) == [neg |-> neg, m |-> Sticky(2 * q, inexact), lsb |-> lsb + 1]

\* Units so small that every rounding to p bits, in the range or not, is a multiple.
Fine(p) == MaxOf(p + 2 - emin, 0)

Quotient(p, n, d, neg, e) ==  \* n/d * 2^e
  LET lsb == MaxOf(Fine(p), p + W + 3 - e)
      k == lsb + e
  IN OddTerm(neg, ShiftLeft(n, MaxOf(k, 0)) \div d, ShiftLeft(n, MaxOf(k, 0)) % d # 0, lsb)

\* The exponent of the root of x, and the bits of it that tell every rounding to p bits.
RootExp(x) == (x.exp + 1) \div 2
RootLsb(p, x) == MaxOf(Fine(p), MaxOf(p, x.prec) + 2 - RootExp(x))
Root(p, x) ==
  LET lsb == RootLsb(p, x)
      n == x.mant * 2^(2 * lsb + x.exp - x.prec)
      root == Isqrt(n, lsb + RootExp(x))
  IN OddTerm(FALSE, root, root * root # n, lsb)

\* mpfr_sqrt treats the other operands apart; the rounded roots are below 2^MaxBits units.
ASSUME RootsAssumption ==
  \A o \in Operations \cap {"sqrt", "wide_sqrt"} : \A x \in OperandsOf(o, 1), p \in PrecsOf(o) :
    x.kind = "num" /\ ~ x.neg /\ RootExp(x) + RootLsb(p, x) + 1 < MaxBits

ScaledBy2(x, n) == [Term(x) EXCEPT !.lsb = @ - n]

Terms ==
  CASE op = "add" -> <<Term(xs[1]), Term(xs[2])>>
    [] op = "sub" -> <<Term(xs[1]), Minus(Term(xs[2]))>>
    [] op \in {"mul", "wide_mul"} -> <<Times(xs[1], xs[2])>>
    [] op \in {"sqr", "wide_sqr"} -> <<Times(xs[1], xs[1])>>
    [] op = "div" ->
         <<Quotient(call.p, xs[1].mant, xs[2].mant, xs[1].neg # xs[2].neg,
                    (xs[1].exp - xs[1].prec) - (xs[2].exp - xs[2].prec))>>
    [] op = "div_ui" ->
         <<Quotient(call.p, xs[1].mant, call.n, xs[1].neg, xs[1].exp - xs[1].prec)>>
    [] op \in {"sqrt", "wide_sqrt"} -> <<Root(call.p, xs[1])>>
    [] op = "mul_2si" -> <<ScaledBy2(xs[1], call.n)>>
    [] op = "div_2si" -> <<ScaledBy2(xs[1], -call.n)>>
    [] op = "fma" -> <<Times(xs[1], xs[2]), Term(xs[3])>>
    [] op = "fms" -> <<Times(xs[1], xs[2]), Minus(Term(xs[3]))>>
    [] op = "fmma" -> <<Times(xs[1], xs[2]), Times(xs[3], xs[4])>>
    [] op = "fmms" -> <<Times(xs[1], xs[2]), Minus(Times(xs[3], xs[4]))>>
    [] op = "sum" -> [i \in DOMAIN xs |-> Term(xs[i])]
    [] op = "dot" -> [i \in 1 .. Len(xs) \div 2 |-> Times(xs[2 * i - 1], xs[2 * i])]

\* The exact result times 2^scale, with the sign of a zero.
ExactSum(t) ==
  LET scale == MaxExp({t[i].lsb : i \in DOMAIN t} \cup {Fine(call.p)})
      sum[i \in 0 .. Len(t)] ==
        IF i = 0 THEN 0 ELSE sum[i-1] + Signed(t[i].neg, t[i].m * 2^(scale - t[i].lsb))
      x == sum[Len(t)]
      signs == {t[i].neg : i \in DOMAIN t}
  IN [x |-> IF x < 0 THEN -x ELSE x, scale |-> scale,
      neg |-> x < 0 \/ (x = 0 /\ IF signs = BOOLEAN THEN call.rnd = "RNDD" ELSE signs = {TRUE})]
ExactResult == ExactSum(Terms)

ValueAt(z, scale) ==
  CASE z.kind = "zero" -> 0
    [] z.kind = "inf" -> Infinity
    [] z.kind = "num" -> z.mant * 2^(z.exp + scale - z.prec)

\* y is the exact result X rounded once, and inex tells on which side; MPFR_RNDF may do
\* it either way and says nothing.
Correct(X, rnd) ==
  IF X.x = 0 THEN 0
  ELSE CorrectValue(X.x, call.p, rnd, X.neg, emin + X.scale, EmaxOf(op) + X.scale)
IsRounding(y, X) ==
  IF call.rnd = "RNDF" THEN \E rnd \in {"RNDZ", "RNDA"} : y = Correct(X, rnd)
  ELSE y = Correct(X, call.rnd) /\ SignOf(r.inex) = Ternary(y, X.x, X.neg)
RoundedTo(X) == r.y.neg = X.neg /\ IsRounding(ValueAt(r.y, X.scale), X)
RoundedAs(X) == WellFormed(r.y, emin, EmaxOf(op)) /\ r.y.prec = call.p /\ RoundedTo(X)
RoundedRight == RoundedAs(ExactResult)

FlagsOf(X) ==
  IF X.x = 0 THEN {}
  ELSE CorrectFlags(X.x, call.p, call.rnd, X.neg, emin + X.scale, EmaxOf(op) + X.scale)
FlagsDue == FlagsOf(ExactResult)

FlagsAs(X) == call.rnd # "RNDF" => r.raised = FlagsOf(X)
RightAs(X) == RoundedAs(X) /\ FlagsAs(X)
Right == RightAs(ExactResult)

Done(ops) == op \in ops /\ call # NoCall

-----------------------------------------------------------------------------
(* Where the code does not deliver it: see the run "calls_wrong" *)

\* div.c:1298: the exact quotient is the number of NLimbs(p) limbs just before a midpoint,
\* and the divisor has limbs that the estimated quotient did not see.
TieOfDiv ==
  LET q == Terms[1].m
      below == BitLength(q) - NLimbs(call.p) * W
      sh == MinusModulo(call.p)
  IN /\ call.rnd = "RNDN" /\ sh >= 2 /\ NLimbs(xs[2].prec) > NLimbs(call.p)
     /\ q % 2^below = 0 /\ (q \div 2^below) % 2^sh = 2^(sh - 1) - 1

\* add1.c:578: products are added as negative numbers, and their sum, rounded, is half of
\* the smallest number without being it.
HalfOfMinBy(X) ==
  LET half == 2^(emin - 2 + X.scale)
      swapped == op = "fmms" /\ UbfMul(xs[1], xs[2]).exp < UbfMul(xs[3], xs[4]).exp
      twice == (\A i \in DOMAIN xs : xs[i].prec = call.p) /\ 2 * NLimbs(call.p) = NLimbs(2 * call.p)
  IN /\ call.rnd = "RNDN" /\ X.neg # swapped /\ X.x # half
     /\ Terms[1].neg = Terms[2].neg /\ Terms[1].m # 0 /\ Terms[2].m # 0
     /\ RoundTo(X.x, IF twice THEN 2 * call.p ELSE call.p, "RNDN", X.neg) = half
HalfOfMin == HalfOfMinBy(ExactResult)

\* add.c:78 and 82: a zero product, and a product out of the range.
UbfAndZero ==
  LET Null(x, y) == IsSingular(x) \/ IsSingular(y)
  IN /\ Null(xs[1], xs[2]) # Null(xs[3], xs[4])
     /\ IsUBF(IF Null(xs[1], xs[2]) THEN UbfMul(xs[3], xs[4]) ELSE UbfMul(xs[1], xs[2]))

-----------------------------------------------------------------------------
(* Properties *)

\* mpfr_add and mpfr_sub: whatever the precisions and the overlap of the operands, the
\* cancellation and the carries, the result, its ternary value and its flags are right.
AddSubRight == Done({"add", "sub"}) => Right

\* mpfr_mul, mpfr_sqr and the multiplications by powers of 2: the short products are
\* only trusted when what they leave aside cannot matter.
MulRight ==
  Done({"mul", "sqr", "wide_mul", "wide_sqr", "mul_2si", "div_2si"}) => Right

\* mpfr_div and mpfr_div_ui: the estimated quotients are corrected whenever they have to
\* be, except for the exact quotients of TieOfDiv.
DivRight ==
  Done({"div", "div_ui"}) => Right \/ (op = "div" /\ TieOfDiv)

\* mpfr_sqrt: an approximate root within its error gives the right rounding.
SqrtRight == Done({"sqrt", "wide_sqrt"}) => Right

\* mpfr_fma, mpfr_fms, mpfr_fmma, mpfr_fmms: one rounding only, although the product may
\* leave the range and the sum may be rounded twice. Of the flags, the underflow
\* may be raised in excess.
FusedRight ==
  /\ Done({"fma", "fms"}) => RoundedRight
  /\ Done({"fmma", "fmms"}) => (RoundedRight <=> ~ HalfOfMin /\ ~ UbfAndZero)
  /\ Done({"fma", "fms", "fmma", "fmms"}) /\ RoundedRight /\ call.rnd # "RNDF" =>
       FlagsDue \subseteq r.raised /\ r.raised \subseteq FlagsDue \cup {"underflow"}

\* mpfr_sum and mpfr_dot: whatever the windows of the accumulator and the cancellations,
\* the sum is rounded once, as if computed exactly.
SumRight == Done({"sum", "dot"}) => Right
=============================================================================
