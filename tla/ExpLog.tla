-------------------------------- MODULE ExpLog --------------------------------
(***************************************************************************)
(* Bodies of the exponentials and the logarithms.                          *)
(***************************************************************************)
EXTENDS Bodies

\* The bounds for overflow and underflow are kept from call to call (thread-local
\* variables) and computed again when the range has changed.
ExpBound == Maybe(Mark ** Intermediate ** Free)

\* A mutant: the result is not checked against the caller's range.
ExpNearOneUnchecked == Read ** LocalRange ** Write({"inexact"}) ** RangeBack

\* |x| < 2^-PREC(y): the numbers around 1 are made in the range 0..2.
ExpNearOne ==
  Read ** LocalRange ** Write({"inexact"}) ** RangeBack ** Check("y")

ExpAux == Alloc({"t", "rr"}) ** Read ** Dealloc({"t", "rr"})
ExpAux2 == Alloc({"tmp", "R", "rr", "t"}) ** Read ** Dealloc({"R", "rr", "t", "tmp"})

\* A mutant: the flags of the intermediate computations are left before the rounding.
Exp_2KeepingFlags ==
  LET names == {"group", "ss"}
  IN Compute ** Alloc(names) ** Loop(Compute ** (ExpAux \cup ExpAux2) ** Maybe(Compute))
       ** Round ** Dealloc(names)

\* mpfr_exp_2: its caller has saved the flags.
Exp_2 ==
  LET names == {"group", "ss"}
  IN Compute ** Alloc(names) ** Loop(Compute ** (ExpAux \cup ExpAux2) ** Maybe(Compute))
       ** ClearFlags ** Round ** Dealloc(names)

\* P and mult are of one pass of the loop.
ExpRational == Alloc({"P", "mult"}) ** Compute ** Dealloc({"P", "mult"})

\* mpfr_exp_3: when the last squarings overflow, underflow, or underflow
\* until they are scaled by 4.
Exp_3(x) ==
  LET names == {"x_copy", "t", "tmp", "uk"}
      Squarings == If(Exponent(x) > 0, Block) \cup If(Exponent(x) <= 0, Nothing)
      Scaled == Round ** (Nothing \cup (Under(FALSE) ** Update({"under"})))
  IN Mark ** Alloc(names) ** Loop(ExpRational ** Squarings)
       ** (Round
           \cup If(IsHuge(x) /\ IsPos(x), Over(FALSE) ** Update({"over"}))
           \cup If(IsHuge(x) /\ IsNeg(x), Compute ** Under(FALSE) ** Update({"under"}))
           \cup If(IsHuge(x) /\ IsNeg(x), Compute ** Scaled))
       ** Dealloc(names) ** Free

Exp(x) ==
  CASE IsNan(x) -> RetNan
    [] IsInf(x) -> IF IsPos(x) THEN RetInf(FALSE) ELSE RetZero(FALSE)
    [] IsZero(x) -> Exact
    [] IsNum(x) ->
         ExpBound
         ** (If(IsHuge(x) /\ IsPos(x), Over(FALSE))
             \cup (ExpBound
                   ** (If(IsHuge(x) /\ IsNeg(x), Under(FALSE))
                       \cup If(Exponent(x) < 0, ExpNearOne)
                       \cup (Exp_3(x) ** Check("y"))
                       \cup (Mark ** Exp_2 ** UpdateAll ** FreeAndCheck))))

\* At the end the exponent of 2^frac(x) is changed in place: 2^(emin-2) may only have come
\* from a larger number.
Exp2(x) ==
  LET Power == Alloc({"xfrac"}) ** Read
               ** (Write({"exact"} \cup Classes) \cup (Alloc({"t"}) ** Loop(Compute) ** Round ** Dealloc({"t"})))
               ** Dealloc({"xfrac"})
  IN CASE IsNan(x) -> RetNan
       [] IsInf(x) -> IF IsPos(x) THEN RetInf(FALSE) ELSE RetZero(FALSE)
       [] IsZero(x) -> Exact
       [] IsNum(x) ->
            If(IsHuge(x) /\ IsNeg(x), Under(FALSE))
            \cup If(IsHuge(x) /\ IsPos(x), Over(FALSE))
            \cup (Mark ** (If(IsTiny(x), SmallAfterMark(Nothing))
                           \cup (NotSmall ** Power ** Maybe(Write({"under"}) ** Update({"under"}))
                                 ** FreeAndCheck)))

Expm1(x) ==
  LET Approximated ==
        Alloc({"t"}) ** Loop(Block)
          ** (Round \cup If(IsPos(x), Over(FALSE) ** Update({"over"})))
          ** Dealloc({"t"}) ** FreeAndCheck
  IN CASE IsNan(x) -> RetNan
       [] IsInf(x) -> IF IsPos(x) THEN RetInf(FALSE) ELSE Exact
       [] IsZero(x) -> RetZero(x.neg)
       [] IsNum(x) ->
            If(Exponent(x) < 0, FastSmallInput)
            \cup (Mark ** (If(IsNeg(x) /\ Exponent(x) > 5, Compute ** SmallAfterMark(Nothing))
                           \cup (If(IsNeg(x) /\ Exponent(x) > 5, Compute) \cup Nothing) ** NotSmall ** Approximated))

\* exp2m1.c and exp10m1.c: x log(b) when b^x rounds to 1, which may underflow.
ExpBm1Small == Block
ExpBm1(x) ==
  LET End == FreeAndCheck
      NearMinusOne == Update({"inexact"}) ** Read ** Write({"inexact", "over"}) ** End
  IN IF ~ IsNum(x) THEN Expm1(x)
     ELSE Mark
          ** (If(IsNeg(x) /\ Exponent(x) > 1, NearMinusOne)
              \cup (Alloc({"t"}) ** Loop(Block)
                    ** (If(IsPos(x), Over(FALSE) ** Update({"over"}) ** Dealloc({"t"}) ** End)
                        \cup (AnyRound ** Dealloc({"t"}) ** End)
                        \cup If(Exponent(x) < -2,
                               ExpBm1Small ** (Round ** Dealloc({"t"}) ** End
                                               \cup Dealloc({"t"}) ** Free ** Under(FALSE))))))
Exp2m1(x) == ExpBm1(x)
Exp10m1(x) == ExpBm1(x)

-----------------------------------------------------------------------------
(* Logarithms *)

\* What the logarithms share: the operands that have no logarithm, and 1.
LogSpecial(x) ==
  CASE IsNan(x) -> RetNan
    [] IsInf(x) -> IF IsNeg(x) THEN RetNan ELSE RetInf(FALSE)
    [] IsZero(x) -> Pole(TRUE)
    [] IsNum(x) /\ IsNeg(x) -> RetNan
    [] IsNum(x) /\ IsPos(x) -> RetZero(FALSE)
IsLogSpecial(x) == ~ IsNum(x) \/ IsNeg(x) \/ Value(x) = At(1)

Log(x) == IF IsLogSpecial(x) THEN LogSpecial(x) ELSE Standard({"group"})

\* A power of 2 has an exact logarithm.
Log2(x) ==
  IF IsLogSpecial(x) THEN LogSpecial(x)
  ELSE If(x.v \in {1, 4, Huge}, Read ** AnyRound) \cup If(x.v \notin {1, 4}, Standard({"t", "tt"}))

\* A power of 10 is only looked for after a rounding has failed.
Log10(x) ==
  IF IsLogSpecial(x) THEN LogSpecial(x)
  ELSE Mark ** Alloc({"t", "tt"}) ** Loop(Compute ** Maybe(Compute)) ** AnyRound
         ** Dealloc({"t", "tt"}) ** FreeAndCheck

Log1pSmall == Alloc({"t'", "u"}) ** Compute ** Dealloc({"t'", "u"})
AtMostMinusOne(x) == IF Value(x) = At(-1) THEN Pole(TRUE) ELSE RetNan

Log1p(x) ==
  CASE IsNan(x) -> RetNan
    [] IsInf(x) -> IF IsPos(x) THEN RetInf(FALSE) ELSE RetNan
    [] IsZero(x) -> RetZero(x.neg)
    [] IsNum(x) /\ Value(x) <= At(-1) -> AtMostMinusOne(x)
    [] IsNum(x) /\ Value(x) > At(-1) ->
         If(Exponent(x) < 0, FastSmallInput)
         \cup (Mark ** Alloc({"t"}) ** Loop(Compute ** If(Exponent(x) < 0, Log1pSmall) \cup Compute)
               ** AnyRound ** Dealloc({"t"}) ** FreeAndCheck)

\* log2(1+x) for x = 2^k, k > 0, slightly above k; log2(1+x) when 1+x is a power of 2.
Log2p1Special == Alloc({"t'"}) ** Intermediate ** Round ** Dealloc({"t'"})
Log2p1IsExact == Alloc({"t'"}) ** Compute ** Dealloc({"t'"})
Log2p1(x) ==
  IF ~ IsNum(x) THEN Log1p(x)
  ELSE IF Value(x) <= At(-1) THEN AtMostMinusOne(x)
  ELSE Mark ** Alloc({"t", "lg2"}) ** Compute
         ** (Round
             \cup (Log2p1IsExact
                   ** (If(x.v \in {1, 2, 6}, AnyRound)
                       \cup (Read ** (If(x.v \in {4, Huge}, Log2p1Special) \cup (Loop(Compute) ** Round))))))
         ** Dealloc({"t", "lg2"}) ** FreeAndCheck

\* x/log(10) when x is tiny: y is set to 0 for an underflow. What can be rounded is not a
\* number of the precision of y: inex is not 0, and the loop ends.
Log10p1Small(result) == Alloc({"t'"}) ** Compute ** result ** Dealloc({"t'"})
Log10p1Exact(x) ==
  If(IsPos(x) /\ Exponent(x) > 3, Alloc({"t'"}) ** Compute ** Maybe(Alloc({"z", "y'"}) ** Dealloc({"y'", "z"})) ** Dealloc({"t'"}))
Log10p1(x) ==
  IF ~ IsNum(x) THEN Log1p(x)
  ELSE IF Value(x) <= At(-1) THEN AtMostMinusOne(x)
  ELSE LET End == Dealloc({"t", "lg10"}) ** Free
       IN Mark ** Alloc({"t", "lg10"}) ** Compute
          ** (Round ** End ** Check("y")
              \cup Maybe(Log10p1Exact(x)) ** (If(IsPos(x) /\ Exponent(x) > 3, Exact ** End ** Check("y"))
                   \cup If(IsTiny(x), Log10p1Small(Round) ** End ** Check("y"))
                   \cup If(IsTiny(x), Log10p1Small(ZeroTo("y", FALSE)) ** End ** Under(FALSE))
                   \cup (Maybe(Log10p1Small(Nothing)) ** Loop(Compute) ** Round ** End ** Check("y"))))

\* log(n) of an unsigned long: binary splitting over arrays of mpz_t.
LogUiSum == Alloc({"P", "B", "T"}) ** Intermediate ** Dealloc({"P", "B", "T"})
LogUi(n) ==
  CASE n = 0 -> Pole(TRUE)
    [] n = 1 -> RetZero(FALSE)
    [] n = 2 -> Round
    [] n > 2 ->
         Alloc({"three_n"}) ** Dealloc({"three_n"}) ** Alloc({"tmp_marker", "group"}) ** Mark
         ** Loop(Alloc({"tmp"}) ** Intermediate ** Dealloc({"tmp"}) ** LogUiSum) ** Round
         ** Dealloc({"group", "tmp_marker"}) ** FreeAndCheck

ExpLogNames == {"exp", "exp2", "expm1", "exp2m1", "exp10m1", "log", "log2", "log10", "log1p",
                "log2p1", "log10p1", "log_ui"}
ExpLogBody(f, x) ==
  CASE f = "exp" -> Exp(x) [] f = "exp2" -> Exp2(x) [] f = "expm1" -> Expm1(x)
    [] f = "exp2m1" -> Exp2m1(x) [] f = "exp10m1" -> Exp10m1(x)
    [] f = "log" -> Log(x) [] f = "log2" -> Log2(x) [] f = "log10" -> Log10(x)
    [] f = "log1p" -> Log1p(x) [] f = "log2p1" -> Log2p1(x) [] f = "log10p1" -> Log10p1(x)
    [] f = "log_ui" -> LogUi(x)
=============================================================================
