------------------------------ MODULE Integrals ------------------------------
(***************************************************************************)
(* Bodies of the error functions, the exponential integral, zeta, the      *)
(* dilogarithm, the Airy and Bessel functions, the polynomials of Legendre *)
(* and the arithmetic-geometric mean.                                      *)
(***************************************************************************)
EXTENDS Bodies

NonPositive(x) == IsZero(x) \/ x.neg
EvenOrder(n) == n % 2 = 0
EvenInteger(x) == IsInteger(x) /\ ~ IsOdd(x)

-----------------------------------------------------------------------------
(* Exponential integral and error functions *)

EintAux == Nothing \cup With({"eps", "erru", "errs"}, Compute)
EintAsympt == With({"t", "invx", "err"}, Compute)

\* The underflow is asked in the caller's rounding mode: to nearest it is away from zero.
Eint(x) ==
  LET names == {"tmp", "ump"}
      Out(exception) == If(IsHuge(x), Dealloc(names) ** Free ** exception)
      NearItsZero == If(IsTiny(x) /\ IsPos(x), With({"y'"}, Compute))
  IN CASE IsNan(x) -> RetNan
       [] IsInf(x) -> IF IsPos(x) THEN RetInf(FALSE) ELSE RetZero(TRUE)
       [] IsZero(x) -> Pole(TRUE)
       [] IsNum(x) ->
            Mark ** Alloc(names) ** (IF IsPos(x) \/ Exponent(x) >= 1 THEN Compute ELSE Nothing)
              ** (Out(IF IsPos(x) THEN Over(FALSE) ELSE UnderAsAsked(TRUE))
                  \cup ((Nothing \cup NearItsZero)
                        ** Loop((EintAux \cup If(Exponent(x) > 0, EintAsympt)) ** Compute)
                        ** Round ** Dealloc(names) ** FreeAndCheck))

\* The series, with the error bound in a variable of its own in each turn of the loop.
Erf0 == With({"group"}, Loop(With({"tauk"}, Compute)) ** Round)
Erf(x) ==
  LET NearOne == Write(Classes)  \* 1, or the number below
  IN CASE IsNan(x) -> RetNan
       [] IsInf(x) -> Exact
       [] IsZero(x) -> RetZero(x.neg)
       [] IsNum(x) ->
            LET Tiny == Alloc({"l", "h"}) ** Compute
            IN Mark ** (If(Exponent(x) < 0, Tiny ** Round ** Dealloc({"l", "h"}) ** FreeAndCheck)
                        \cup ((Nothing \cup If(Exponent(x) < 0, Tiny ** Dealloc({"l", "h"})))
                              ** Compute ** (Erf0 \cup If(Exponent(x) > 0, NearOne)) ** FreeAndCheck))

ErfcAsympt == With({"t", "xx", "err"}, Compute)
Erfc(x) ==
  LET Two == Write(Classes)
      SeemsTwo == With({"t", "u"}, Compute)
      Series == Alloc({"tmp"}) ** Loop(Compute \cup If(IsPos(x) /\ Exponent(x) > 1, ErfcAsympt))
  IN CASE IsNan(x) -> RetNan
       [] IsInf(x) -> IF IsPos(x) THEN RetZero(FALSE) ELSE Exact
       [] IsZero(x) -> Exact
       [] IsNum(x) ->
            If(IsHuge(x) /\ IsPos(x), Under(FALSE))
            \cup (Mark
                  ** (If(IsNeg(x) /\ Exponent(x) >= 2, Two ** FreeAndCheck)
                      \cup If(IsNeg(x) /\ Exponent(x) >= 3, SeemsTwo ** Two ** FreeAndCheck)
                      \cup If(Exponent(x) < 0, Read ** Round ** FreeAndCheck)
                      \cup ((Nothing \cup If(IsNeg(x) /\ Exponent(x) >= 3, SeemsTwo))
                            ** Series ** Round ** Dealloc({"tmp"}) ** FreeAndCheck)
                      \cup If(IsHuge(x) /\ IsPos(x), Series ** Dealloc({"tmp"}) ** Free ** Under(FALSE))))

-----------------------------------------------------------------------------
(* Zeta, the dilogarithm, the factorial *)

ZetaPartA == With({"group a"}, Compute)
ZetaPartB == Nothing \cup With({"group b"}, Compute)
ZetaC == Nothing \cup With({"d"}, Intermediate)

\* For s >= 1/2; what is written is the result or a temporary.
ZetaPos(s, write) ==
  If(Exponent(s) > 3, Read ** write)
  \cup (Alloc({"s1", "group'"})
        ** Loop(Compute \cup (Alloc({"tc"}) ** ZetaC ** ZetaPartA ** ZetaPartB ** Compute ** Dealloc({"tc"})))
        ** write ** Dealloc({"group'", "s1"}))

ReflectionOverflow == With({"sint"}, Compute)
\* gamma(1 - s) overflows, though zeta(s) may not: between two bounds. z_up is not cleared on
\* the way from a z_up that overflows to the next precision.
ZetaBetweenBounds(found) ==
  ReflectionOverflow ** Alloc({"z_up"}) ** ReflectionOverflow
    ** (IF found THEN With({"z_down"}, Intermediate) ** Dealloc({"z_up"})
        ELSE Nothing \cup (With({"z_down"}, Intermediate) ** Dealloc({"z_up"})))

\* frac(s / 4) > -1/2: the sign of zeta(s) for s < 0.
ZetaNegative(s) == s.v % 8 < 4
FarLeft(s) == IsNeg(s) /\ Exponent(s) > 3
ZetaReflection(s) ==
  Alloc({"group"})
    ** (Nothing \cup Loop(Compute \cup If(FarLeft(s), ZetaBetweenBounds(FALSE))))
    ** (((Compute \cup If(FarLeft(s), ZetaBetweenBounds(TRUE))) ** Round)
        \cup If(FarLeft(s), ReflectionOverflow ** Over(ZetaNegative(s)) ** Update({"over"})))
    ** Dealloc({"group"})

Zeta(s) ==
  CASE IsNan(s) -> RetNan
    [] IsInf(s) -> IF IsPos(s) THEN Exact ELSE RetNan
    [] IsZero(s) -> Exact
    [] IsNum(s) ->
         If(IsTiny(s), Mark ** Write(Classes) ** FreeAndCheck)
         \cup CASE IsNeg(s) /\ EvenInteger(s) -> RetZero(FALSE)
                [] IsPos(s) /\ s.v = 2 -> Pole(FALSE)
                [] IsPos(s) /\ s.v # 2 /\ Exponent(s) >= 0 -> Mark ** ZetaPos(s, Round) ** FreeAndCheck
                [] (IsNeg(s) /\ ~ EvenInteger(s)) \/ Exponent(s) < 0 ->
                     Mark ** ZetaReflection(s) ** FreeAndCheck

ZetaUi(m) ==
  LET NearOne == Write(Classes)
  IN CASE m = 0 -> Exact
       [] m = 1 -> Pole(FALSE)
       [] m > 1 ->
            Mark ** (NearOne
                     \cup (Alloc({"y'"}) ** Intermediate ** Dealloc({"y'"}) ** NearOne)
                     \cup (Alloc({"y'"})
                           ** Maybe(Intermediate) ** With({"d", "t", "q", "s"}, Loop(Compute))
                           ** Round ** Dealloc({"y'"})))
                 ** FreeAndCheck

FacUi(x) ==
  IF x <= 1 THEN Exact
  ELSE Mark ** Alloc({"t"}) ** Loop(Compute) ** AnyRound ** Dealloc({"t"}) ** FreeAndCheck

Li2Series == With({"s'", "u'", "v'", "w'"}, Loop(Compute))
\* The asymptotic expansions may fail to round: then nothing is written.
Li2Asympt(ends) == With({"g", "h"}, Compute ** IF ends THEN Round ELSE Nothing)
Li2(x) ==
  LET By(names) == Alloc(names) ** Loop(Compute ** Maybe(Li2Series ** Compute)) ** Round ** Dealloc(names)
      Far(names) == Li2Asympt(TRUE) \cup (Li2Asympt(FALSE) ** By(names))
      v == Value(x)
  IN CASE IsNan(x) -> RetNan
       [] IsInf(x) -> RetInf(TRUE)
       [] IsZero(x) -> RetZero(x.neg)
       [] IsNum(x) ->
            If(Exponent(x) <= 0, FastSmallInput)
            \cup (Mark
                  ** (CASE v > 0 /\ 2 * v <= At(1) -> By({"u", "s"})
                       [] v = At(1) -> By({"u"})
                       [] v >= At(2) -> IF v >= At(38) THEN Far({"u", "s", "xx"}) ELSE By({"u", "s", "xx"})
                       [] (v > At(1) /\ v < At(2)) \/ (2 * v > At(1) /\ v < At(1)) -> By({"s", "u", "v", "xx"})
                       [] v < 0 /\ v >= At(-1) -> By({"s", "u", "xx"})
                       [] v < At(-1) ->
                            LET names == {"s", "u", "v", "w", "xx"}
                            IN IF v <= At(-7) THEN Far(names) ELSE By(names))
                  ** FreeAndCheck)

-----------------------------------------------------------------------------
(* Airy: by summation of the series, or by its parts (Smith's method)      *)

\* gamma(1/3) and gamma(2/3)
BrownsConst == With({"uk"}, Intermediate)
GammaOneThird == With({"tmp", "tmp2", "tmp3"}, Intermediate ** BrownsConst ** Intermediate)
GammaOneAndTwoThird == With({"temp"}, GammaOneThird ** Intermediate)

Bounds(x) == Alloc({"tmp_sp", "tmp2_sp"}) ** Compute
               ** (Nothing \cup If(Exponent(x) > 0, Block ** Maybe(Block)))
Ai1(x) ==
  LET names == {"ti", "tip1", "temp1", "temp2'", "x3", "s"}
  IN Mark ** IF IsZero(x)
             THEN Alloc({"y1", "y2"}) ** Loop(GammaOneAndTwoThird ** Compute)
                    ** Round ** Free ** Dealloc({"y1", "y2"}) ** Check("y")
             ELSE Bounds(x) ** Alloc(names) ** Loop(Compute ** GammaOneAndTwoThird ** Compute) ** Round
                    ** Dealloc(names \cup {"tmp_sp", "tmp2_sp"}) ** FreeAndCheck
Ai2(x) ==
  LET names == {"s", "u0", "u1", "result", "temp1", "temp2'"}
      Pass == Compute ** GammaOneAndTwoThird ** Compute
  IN Mark ** Bounds(x) ** Alloc({"z"}) ** Alloc(names)
       ** (Nothing \cup Loop(Pass ** Dealloc({"z"}) ** Alloc({"z"}))) ** Pass
       ** Round ** Dealloc(names \cup {"z", "tmp_sp", "tmp2_sp"}) ** FreeAndCheck
Ai(x) ==
  CASE IsNan(x) -> RetNan
    [] IsInf(x) -> RetZero(FALSE)
    [] IsNum(x) \/ IsZero(x) ->
         Mark ** Alloc({"temp1"}) ** Alloc({"temp2"}) ** Compute ** Dealloc({"temp2"}) ** Dealloc({"temp1"})
           ** Free ** (Ai1(x) \cup If(IsNum(x), Ai2(x)))

-----------------------------------------------------------------------------
(* Bessel functions                                                        *)

\* The asymptotic expansion, when z is large: written, or given up.
JynAsympt(written) ==
  LET names == {"s", "P", "Q", "t", "iz", "err_t", "err_s", "err_u"}
      Pass == With(names, Compute)
  IN IF written THEN Alloc({"c"}) ** Compute ** Loop(Pass) ** Read ** Round ** Dealloc({"c"})
     ELSE Alloc({"c"}) ** Compute ** Maybe(Loop(Pass)) ** Dealloc({"c"})
Large(z) == IsNum(z) /\ Exponent(z) > 1

OddNegative(n, z) == ~ EvenOrder(n) /\ (IF n > 0 THEN z.neg ELSE ~ z.neg)
JnK0 == With({"t'", "u'"}, Compute)
Jn(n, z) ==
  LET Tiny == CASE n = 0 -> Read ** Round ** FreeAndCheck
                [] n \in {1, -1} -> Read ** Round ** Round ** UpdateAll ** FreeAndCheck
                [] n \notin {0, 1, -1} -> {}
      Vanishes == Compute ** Dealloc({"g"}) ** Free ** Under(OddNegative(n, z))
      Series == JnK0 ** Loop(Block) ** Round ** Dealloc({"g"}) ** FreeAndCheck
  IN CASE IsNan(z) -> RetNan
       [] IsInf(z) -> RetZero(FALSE)
       [] IsZero(z) -> IF n = 0 THEN Exact ELSE RetZero(OddNegative(n, z))
       [] IsNum(z) ->
            Mark ** (IF n \in {1, -1} THEN ClearFlags ELSE Nothing)
              ** (If(Exponent(z) < 0, Tiny)
                  \cup If(Large(z), JynAsympt(TRUE) ** FreeAndCheck)
                  \cup ((Nothing \cup If(Large(z), JynAsympt(FALSE))) ** Alloc({"g"})
                        ** ((IF n = 0 THEN Nothing ELSE Compute) ** Series
                            \cup If(n # 0 /\ IsTiny(z), Vanishes))))

\* The finite sum and the series of psi
YnS1 == With({"f"}, Compute)
YnS3 == With({"p", "q", "t", "u"}, Compute)
Yn(n, z) ==
  LET names == {"y'", "s1", "s2", "s3"}
      Logs == With({"l", "h", "t", "logz"}, Compute)
      Tiny0 == Alloc({"l", "h", "t", "logz"}) ** Compute ** Round ** Dealloc({"l", "h", "t", "logz"}) ** FreeAndCheck
      Pole1 == Alloc({"y'"}) ** Compute ** Block
      Tiny1 == Pole1 ** ((Round ** Dealloc({"y'"}) ** FreeAndCheck)
                         \cup (Dealloc({"y'"}) ** Free ** Over(TRUE)))
      Failed == (IF n = 0 /\ IsTiny(z) THEN Maybe(Logs) ELSE Nothing)
                  ** (IF n = 1 /\ IsTiny(z) THEN Maybe(Pole1 ** Dealloc({"y'"})) ELSE Nothing)
                  ** (IF Large(z) THEN Maybe(JynAsympt(FALSE)) ELSE Nothing)
  IN CASE IsNan(z) -> RetNan
       [] IsInf(z) -> IF IsPos(z) THEN RetZero(FALSE) ELSE RetNan
       [] IsZero(z) -> Pole(n >= 0 \/ EvenOrder(n))
       [] IsNum(z) /\ IsNeg(z) -> RetNan
       [] IsNum(z) /\ IsPos(z) ->
            Mark ** (If(n = 0 /\ IsTiny(z), Tiny0)
                     \cup If(n = 1 /\ IsTiny(z), Tiny1)
                     \cup If(Large(z), JynAsympt(TRUE) ** FreeAndCheck)
                     \cup (Failed ** Alloc(names) ** Loop(Compute ** Maybe(YnS1) ** YnS3 ** Compute)
                           ** Round ** Dealloc(names) ** FreeAndCheck))

-----------------------------------------------------------------------------
(* Polynomials of Legendre, arithmetic-geometric mean                      *)

AsymptoticSmallX(written) == With({"small_x"}, Loop(Compute) ** IF written THEN AnyRound ELSE Nothing)
Legendre(n, x) ==
  LET SmallX == If(Exponent(x) < 0, Mark ** AsymptoticSmallX(TRUE) ** FreeAndCheck)
      Tried == If(Exponent(x) < 0, Mark ** AsymptoticSmallX(FALSE) ** Free)
      Recurrence == Alloc({"group"}) ** Mark ** Loop(Compute) ** AnyRound ** Dealloc({"group"}) ** FreeAndCheck
  IN CASE IsNan(x) \/ (~ IsNan(x) /\ (Value(x) > At(1) \/ Value(x) < At(-1))) -> RetNan
       [] IsZero(x) ->
            IF n = 0 THEN Exact
            ELSE IF n = 1 \/ ~ EvenOrder(n) THEN RetZero(IF n = 1 THEN x.neg ELSE n % 4 = 3)
            ELSE Recurrence
       [] IsNum(x) /\ Value(x) <= At(1) /\ Value(x) >= At(-1) ->
            IF n = 0 \/ x.v = 2 THEN Exact
            ELSE IF n = 1 THEN Read ** AnyRound
            ELSE SmallX \cup ((Nothing \cup Tried) ** Recurrence)

Agm(a, b) ==
  LET StrictlyPositive(x) == ~ IsZero(x) /\ IsPos(x)
      Pass == Block ** Maybe(Block) ** ClearFlags ** Compute
                ** Maybe(With({"w"}, Block) \cup (Block ** Maybe(Block)))
  IN CASE IsNan(a) \/ IsNan(b) -> RetNan
       [] ~ (IsNan(a) \/ IsNan(b)) /\ (IsInf(a) \/ IsInf(b)) ->
            IF StrictlyPositive(a) /\ StrictlyPositive(b) THEN RetInf(FALSE) ELSE RetNan
       [] ~ (IsNan(a) \/ IsNan(b) \/ IsInf(a) \/ IsInf(b)) /\ (IsZero(a) \/ IsZero(b)) -> RetZero(FALSE)
       [] IsNum(a) /\ IsNum(b) ->
            IF a.neg \/ b.neg THEN RetNan
            ELSE IF a = b THEN Read ** Exact
            ELSE Mark ** Alloc({"marker"}) ** Loop(Pass) ** Round ** Dealloc({"marker"}) ** FreeAndCheck

IntegralNames == {"eint", "erf", "erfc", "zeta", "li2", "ai"}
IntegralBody(f, x) ==
  CASE f = "eint" -> Eint(x) [] f = "erf" -> Erf(x) [] f = "erfc" -> Erfc(x)
    [] f = "zeta" -> Zeta(x) [] f = "li2" -> Li2(x) [] f = "ai" -> Ai(x)
BesselNames == {"jn", "yn"}
=============================================================================
