-------------------------- MODULE IntegerArithmetic --------------------------
(***************************************************************************)
(* The calls of Arithmetic and those that take or return integers,         *)
(* compared with the exact results.                                        *)
(*                                                                         *)
(* The latter have a range of their own, emin .. LargeEmax in ExtEmin ..   *)
(* LargeExtEmax: integers of several limbs fit in it.  That of the         *)
(* remainders, up to FarEmax, has operands so far apart that the powers of *)
(* 2 between them are reduced.                                             *)
(***************************************************************************)
EXTENDS Arithmetic

CONSTANTS
  IntegersOf(_),      \* the integers given to an operation
  DenominatorsOf(_),  \* for a rational, its denominators; for a scaled integer, its exponents
  LargeExtEmax, WantedBits

ASSUME IntegerAssumption == LargeEmax <= LargeExtEmax /\ WantedBits \in Nat \ {0}

Large == INSTANCE ToIntegers WITH emax <- LargeEmax, ExtEmax <- LargeExtEmax
Far == INSTANCE IntegerParts WITH emax <- FarEmax, ExtEmax <- FarEmax

NoNumber(ret) == Large!And(Return(Zero(FALSE, 1), 0, {}), ret)

Called2(p, rnd, n, d, result) == CalledAs([NoCall EXCEPT !.p = p, !.rnd = rnd, !.n = n, !.d = d], result)

WithInteger == {"mul_ui", "add_ui", "sub_ui", "ui_sub", "ui_div", "mul_z", "div_z", "add_z",
                "sub_z", "z_sub", "si_div"}
WithRational == {"mul_q", "div_q", "set_q"}
Assignments2exp == {"set_ui_2exp", "set_si_2exp", "set_z_2exp"}

-----------------------------------------------------------------------------
(* Calls that round *)

Directions == Rnds \ {"RNDF"}

WithIntegerResult(p, x, z, rnd) ==
  CASE op = "mul_ui" -> Large!MulUi(p, x, z, rnd)
    [] op \in {"add_ui", "sub_ui"} -> Large!AddSubUi(p, x, z, op = "sub_ui", rnd)
    [] op = "ui_sub" -> Large!UiSub(p, z, x, rnd)
    [] op = "ui_div" -> Large!UiDiv(p, z, x, rnd)
    [] op = "si_div" -> Large!SiDiv(p, z, x, rnd)
    [] op = "mul_z" -> Large!MulZ(p, x, z, rnd)
    [] op = "div_z" -> Large!DivZ(p, x, z, rnd)
    [] op \in {"add_z", "sub_z"} -> Large!AddSubZ(p, x, z, op = "sub_z", rnd)
    [] op = "z_sub" -> Large!ZSub(p, z, x, rnd)

CallWithInteger == Ready(WithInteger) /\
  \E p \in PrecsOf(op), rnd \in Directions, z \in IntegersOf(op) :
    /\ ~ (op = "div_z" /\ z = 0)
    /\ Called(p, rnd, FALSE, z, WithIntegerResult(p, xs[1], z, rnd))

CallWithRational == Ready(WithRational) /\
  \E p \in PrecsOf(op), rnd \in Directions, n \in IntegersOf(op), d \in DenominatorsOf(op) :
    /\ ~ (op = "div_q" /\ n = 0)
    /\ Called2(p, rnd, n, d, CASE op = "mul_q" -> Large!MulQ(p, xs[1], n, d, rnd)
                               [] op = "div_q" -> Large!DivQ(p, xs[1], n, d, rnd)
                               [] op = "set_q" -> Large!SetQ(p, n, d, rnd))

CallSet2exp == Ready(Assignments2exp) /\
  \E p \in PrecsOf(op), rnd \in Directions, z \in IntegersOf(op), e \in DenominatorsOf(op) :
    Called2(p, rnd, z, e, CASE op = "set_ui_2exp" -> Large!SetUi2exp(p, z, e, rnd)
                            [] op = "set_si_2exp" -> Large!SetSi2exp(p, z, e, rnd)
                            [] op = "set_z_2exp" -> Large!SetZ2exp(p, z, e, rnd))

CallRint == Ready({"rint"}) /\ \E p \in PrecsOf(op), rnd \in Directions \cup {"RNDNA"} :
  Called(p, rnd, FALSE, 0, Large!Rint(p, xs[1], rnd))
CallRintThen ==
  Ready({"rint_then"}) /\ \E p \in PrecsOf(op), rnd \in Directions, mode \in Large!RintModes :
    CalledAs([NoCall EXCEPT !.p = p, !.rnd = rnd, !.mode = mode], Large!RintThen(p, xs[1], mode, rnd))
CallFrac == Ready({"frac"}) /\ \E p \in PrecsOf(op), rnd \in Directions :
  Called(p, rnd, FALSE, 0, Large!Frac(p, xs[1], rnd))

CallRem == Ready(Remainders) /\ \E p \in PrecsOf(op), rnd \in Directions :
  Called(p, rnd, FALSE, 0, Far!Rem1(p, xs[1], xs[2], op \in {"remainder", "remquo"},
                                    op \in {"fmodquo", "remquo"}, rnd))

-----------------------------------------------------------------------------
(* Comparisons and conversions *)

CallCmp == Ready({"cmp"}) /\ Called(1, "RNDN", FALSE, 0, NoNumber(Large!Cmp(xs[1], xs[2])))
CallEq == Ready({"eq"}) /\ \E n \in IntegersOf(op) : \E same \in Large!Eq(xs[1], xs[2], n) :
  Called(1, "RNDN", FALSE, n, NoNumber(same))
CallCmp2exp == Ready({"cmp_ui_2exp", "cmp_si_2exp"}) /\
  \E z \in IntegersOf(op), e \in DenominatorsOf(op) :
    Called2(1, "RNDN", z, e, NoNumber(IF op = "cmp_ui_2exp" THEN Large!CmpUi2exp(xs[1], z, e)
                                      ELSE Large!CmpSi2exp(xs[1], z, e)))
CallCmpZ == Ready({"cmp_z"}) /\ \E z \in IntegersOf(op) :
  Called(1, "RNDN", FALSE, z, NoNumber(Large!CmpZ(xs[1], z)))

CallOrder == Ready({"min", "max"}) /\ \E p \in PrecsOf(op), rnd \in Directions :
  Called(p, rnd, FALSE, 0, Large!MinMax(p, xs[1], xs[2], op = "max", rnd))
CallDim == Ready({"dim"}) /\ \E p \in PrecsOf(op), rnd \in Directions :
  Called(p, rnd, FALSE, 0, Large!Dim(p, xs[1], xs[2], rnd, FALSE))

\* B bits of the type of integers.
CallFits == Ready({"fits_ui", "fits_si"}) /\ \E rnd \in Directions, B \in {W - 1, W} :
  Called(1, rnd, FALSE, B, NoNumber(IF op = "fits_ui" THEN Large!FitsU(xs[1], B, rnd)
                                    ELSE Large!FitsS(xs[1], B, rnd)))

GotBy(g) == [NoNumber(g.n) EXCEPT !.raised = g.raised]
CallGet == Ready({"get_ui", "get_si", "get_z"}) /\ \E rnd \in Directions :
  Called(1, rnd, FALSE, W, GotBy(CASE op = "get_ui" -> Large!GetUi(xs[1], rnd)
                                   [] op = "get_si" -> Large!GetSi(xs[1], rnd)
                                   [] op = "get_z" -> Large!GetZ(xs[1], rnd)))

NextWithIntegers ==
  \/ Next
  \/ CallWithInteger \/ CallWithRational \/ CallSet2exp
  \/ CallRint \/ CallRintThen \/ CallFrac \/ CallRem
  \/ CallCmp \/ CallEq \/ CallCmp2exp \/ CallCmpZ
  \/ CallOrder \/ CallDim \/ CallFits \/ CallGet

SpecWithIntegers == Init /\ [][NextWithIntegers]_vars

-----------------------------------------------------------------------------
(* Exact results *)

Abs(z) == IF z < 0 THEN -z ELSE z
TermOf(z) == [neg |-> z < 0, m |-> Abs(z), lsb |-> 0]
Lsb1(x) == x.prec - x.exp  \* of a number: x is +-mant * 2^-Lsb1

\* |x| and |y| in the same unit, 2^-lsb.
InUnits(x, lsb) == IF IsSingular(x) THEN 0 ELSE ShiftLeft(x.mant, lsb - Lsb1(x))
CommonLsb(x, y) == MaxOf(Lsb1(x), Lsb1(y))
SignedUnits(x, lsb) == Signed(x.neg, InUnits(x, lsb))
Order(x, y) ==
  LET lsb == MaxOf(CommonLsb(x, y), 0)
  IN SignOf(SignedUnits(x, lsb) - SignedUnits(y, lsb))

Below(x, y) == Order(x, y) < 0 \/ (Order(x, y) = 0 /\ x.neg)

\* Of |x| = m * 2^-lsb, lsb >= 0, the integer in direction rnd; the fractional part times 2^lsb.
IntegerNear(x, rnd) ==
  LET lsb == MaxOf(Lsb1(x), 0)
  IN RoundToMultiple(InUnits(x, lsb), 2^lsb, rnd, x.neg) \div 2^lsb
SignedNear(x, rnd) == Signed(x.neg, IntegerNear(x, rnd))

\* |x| - q * |y| for the quotient q of direction rnd, in units of CommonLsb.
Quotient1(x, y, rnd) ==
  LET X == InUnits(x, CommonLsb(x, y))
      Y == InUnits(y, CommonLsb(x, y))
  IN RoundToMultiple(X, Y, rnd, FALSE) \div Y
Remainder(x, y, rnd) ==
  LET m == InUnits(x, CommonLsb(x, y)) - Quotient1(x, y, rnd) * InUnits(y, CommonLsb(x, y))
  IN [neg |-> (m < 0) # x.neg, m |-> Abs(m), lsb |-> CommonLsb(x, y)]
QuotientMode == IF op \in {"remainder", "remquo"} THEN "RNDN" ELSE "RNDZ"

QuotientRight ==
  r.ret = Signed(xs[1].neg # xs[2].neg, Quotient1(xs[1], xs[2], QuotientMode) % 2^WantedBits)

\* n/d; x * n/d
RatioTerm(n, d) == Quotient(call.p, Abs(n), Abs(d), (n < 0) # (d < 0), 0)
TimesRatio(x, n, d) ==
  Quotient(call.p, x.mant * Abs(n), Abs(d), x.neg # ((n < 0) # (d < 0)), -Lsb1(x))

\* An integer 0 has no sign: it does not change the sign of a zero that it is added to.
WithTerm(t, z) == IF z = 0 THEN <<t>> ELSE <<t, TermOf(z)>>

ExactTerms ==
  CASE op \in {"mul_ui", "mul_z"} ->
         <<[neg |-> xs[1].neg # (call.n < 0), m |-> xs[1].mant * Abs(call.n), lsb |-> Lsb1(xs[1])]>>
    [] op \in {"add_ui", "add_z"} -> WithTerm(Term(xs[1]), call.n)
    [] op \in {"sub_ui", "sub_z"} -> WithTerm(Term(xs[1]), -call.n)
    [] op \in {"ui_sub", "z_sub"} -> WithTerm(Minus(Term(xs[1])), call.n)
    [] op \in {"ui_div", "si_div"} ->
         <<Quotient(call.p, Abs(call.n), xs[1].mant, xs[1].neg # (call.n < 0), Lsb1(xs[1]))>>
    [] op = "div_z" -> <<TimesRatio(xs[1], 1, call.n)>>
    [] op = "mul_q" -> <<TimesRatio(xs[1], call.n, call.d)>>
    [] op = "div_q" -> <<TimesRatio(xs[1], call.d, call.n)>>
    [] op = "set_q" -> <<RatioTerm(call.n, call.d)>>
    [] op \in Assignments2exp -> <<[TermOf(call.n) EXCEPT !.lsb = -call.d]>>
    [] op = "rint_then" -> <<[TermOf(IntegerNear(xs[1], call.mode)) EXCEPT !.neg = xs[1].neg]>>
    [] op = "frac" ->
         <<[Term(xs[1]) EXCEPT !.m = IF Lsb1(xs[1]) <= 0 THEN 0 ELSE @ % 2^Lsb1(xs[1])]>>
    [] op \in Remainders -> <<Remainder(xs[1], xs[2], QuotientMode)>>
    [] op \in {"min", "max"} ->
         IF Below(xs[1], xs[2]) = (op = "min") THEN <<Term(xs[1])>> ELSE <<Term(xs[2])>>
    [] op = "dim" ->
         IF Order(xs[1], xs[2]) > 0 THEN <<Term(xs[1]), Minus(Term(xs[2]))>> ELSE <<TermOf(0)>>

OrderWith(x, t) ==
  LET lsb == MaxOf(MaxOf(Lsb1(x), t.lsb), 0)
  IN SignOf(SignedUnits(x, lsb) - Signed(t.neg, t.m * 2^(lsb - t.lsb)))

SameFirstBits(x, y, n) ==
  IF IsSingular(x) \/ IsSingular(y) THEN IsSingular(x) /\ IsSingular(y)
  ELSE x.neg = y.neg /\ x.exp = y.exp /\ Large!FirstBits(x, n) = Large!FirstBits(y, n)

EqRight == r.ret = SameFirstBits(xs[1], xs[2], call.n)

\* The range of the type that x is converted to.
TypeMin == IF op \in {"fits_si", "get_si"} THEN -2^(call.n - 1) ELSE 0
TypeMax == IF op \in {"fits_si", "get_si"} THEN 2^(call.n - 1) - 1 ELSE 2^call.n - 1
Fits(x) == op = "get_z" \/ (TypeMin <= SignedNear(x, call.rnd) /\ SignedNear(x, call.rnd) <= TypeMax)
IsInteger(x) == InUnits(x, MaxOf(Lsb1(x), 0)) % 2^MaxOf(Lsb1(x), 0) = 0

Exact == ExactSum(ExactTerms)
RightCalls(ops) == Done(ops) => RightAs(Exact)

\* u to the nearest integer of p bits at most, in units of 2^-lsb.
RintTo(x, rnd) ==
  LET lsb == MaxOf(Lsb1(x), call.p)
      X == InUnits(x, lsb)
      V == RoundToMultiple(X, 2^MaxOf(lsb, BitLength(X) - call.p), rnd, x.neg)
  IN [x |-> X, lsb |-> lsb,
      value |-> IF BitLength(V) > LargeEmax + lsb THEN Infinity ELSE V]
RintTernary(x, y, X, integer) ==
  IF integer THEN Ternary(y, X, x.neg) ELSE 2 * Ternary(y, X, x.neg)

-----------------------------------------------------------------------------
(* Where the code does not deliver what is documented: see the run "calls_wrong" *)

\* si_op.c:84: for u < 0, the zero that mpfr_add_ui returned has its sign changed.
OppositeOfZero ==
  /\ op = "z_sub" /\ call.n < 0 /\ Large!FitsLong(call.n)
  /\ Exact.x = 0 /\ call.rnd \in {"RNDN", "RNDZ", "RNDA"}

\* gmp_op.c:251: the underflow of the division in the largest range is dropped, and what
\* it gave is in the range: 0.
UnderflowDropped ==
  /\ op \in {"mul_q", "div_q"} /\ Exact.x # 0
  /\ CorrectValue(Exact.x, call.p, call.rnd, Exact.neg, ExtEmin + Exact.scale,
                       LargeExtEmax + Exact.scale) = 0

\* rem1.c:232: the low bits of the quotient are all ones, and incremented.
QuotientWraps ==
  op = "remquo" /\ Quotient1(xs[1], xs[2], "RNDN") % 2^WantedBits = 0
    /\ Quotient1(xs[1], xs[2], "RNDN") # Quotient1(xs[1], xs[2], "RNDZ")

\* eq.c:95 and 139: no bit is left to be compared in a limb that is not null, or n = 0.
NoBitLeft ==
  \/ call.n = 0
  \/ \E i \in 1 .. 2 : /\ call.n % W = 0 /\ call.n > Large!Size(xs[i].prec)
                       /\ call.n < Large!Size(xs[3 - i].prec)

-----------------------------------------------------------------------------
(* Properties *)

\* Operations with integers and rationals: whatever the size of the integer, and although
\* it may be out of the range, the result, its ternary value and its flags are those of
\* one rounding of the exact result.
IntegersRight ==
  /\ Done(WithInteger) => (RoundedAs(Exact) <=> ~ OppositeOfZero)
  /\ RightCalls(Assignments2exp)
  /\ Done(WithInteger) => FlagsAs(Exact)
  /\ Done(WithRational) => RoundedAs(Exact)
  /\ Done(WithRational) =>
       r.raised = FlagsOf(Exact) \ (IF UnderflowDropped THEN {"underflow"} ELSE {})

\* mpfr_rint and the functions made from it: the nearest integer that the destination can
\* hold, from one rounding, with the ternary value 2 for a number that is not an integer;
\* the functions that round twice do so with the flags of the second rounding only.
IntegerPartsRight ==
  /\ RightCalls({"rint_then", "frac"})
  /\ Done({"rint"}) =>
       LET t == RintTo(xs[1], call.rnd)
           integer == t.x % 2^t.lsb = 0
       IN /\ WellFormed(r.y, emin, LargeEmax) /\ r.y.neg = xs[1].neg
          /\ ValueAt(r.y, t.lsb) = t.value
          /\ r.inex = RintTernary(xs[1], t.value, t.x, integer)
          /\ r.raised = (IF r.inex = 0 THEN {} ELSE {"inexact"})
                           \cup (IF t.value = Infinity THEN {"overflow"} ELSE {})

\* mpfr_fmod, mpfr_remainder and those that store the quotient: the remainder of the exact
\* quotient, however far apart the operands are, and its low bits with its sign.
RemainderRight ==
  /\ RightCalls(Remainders)
  /\ Done({"fmodquo", "remquo"}) => (QuotientRight <=> ~ QuotientWraps)

\* Comparisons, with an integer that may be out of the range too, and conversions: a
\* number fits in a type if and only if the integer that it is rounded to does, and the
\* conversion then returns this integer, and raises the inexact flag if it has to.
ToIntegersRight ==
  /\ RightCalls({"min", "max", "dim"})
  /\ Done({"cmp"}) => r.ret = Order(xs[1], xs[2])
  /\ Done({"cmp_ui_2exp", "cmp_si_2exp", "cmp_z"}) =>
       r.ret = OrderWith(xs[1], [TermOf(call.n) EXCEPT !.lsb = IF op = "cmp_z" THEN 0 ELSE -call.d])
  /\ Done({"eq"}) => EqRight \/ NoBitLeft
  /\ Done({"fits_ui", "fits_si"}) => r.ret = Fits(xs[1])
  /\ Done({"get_ui", "get_si", "get_z"}) =>
       IF Fits(xs[1]) THEN /\ r.ret = SignedNear(xs[1], call.rnd)
                           /\ ("inexact" \in r.raised) = ~ IsInteger(xs[1])
       ELSE r.ret = (IF xs[1].neg THEN TypeMin ELSE TypeMax) /\ r.raised = {"erange"}

=============================================================================
