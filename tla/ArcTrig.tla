-------------------------------- MODULE ArcTrig --------------------------------
(***************************************************************************)
(* Bodies of the inverse trigonometric functions.                          *)
(***************************************************************************)
EXTENDS Trig

One == At(1)
Magnitude(x) == Value(Absolute(x))
MultipleOfPi == Mark ** Round ** FreeAndCheck

Asin(x) ==
  CASE NanOrInf(x) -> RetNan
    [] IsZero(x) -> RetZero(x.neg)
    [] IsNum(x) ->
         If(Exponent(x) < 0, FastSmallInput)
         \cup (Alloc({"xp"}) ** Read ** Mark
               ** CASE Magnitude(x) > One -> Dealloc({"xp"}) ** Free ** RetNan
                    [] Magnitude(x) = One -> Dealloc({"xp"}) ** Read ** Round ** FreeAndCheck
                    [] Magnitude(x) < One -> Loop(Compute) ** Round ** Dealloc({"xp"}) ** FreeAndCheck)

Acos(x) ==
  CASE NanOrInf(x) -> RetNan
    [] IsZero(x) -> MultipleOfPi
    [] IsNum(x) ->
         Alloc({"xp"}) ** Read
         ** CASE Magnitude(x) > One -> Dealloc({"xp"}) ** RetNan
              [] Magnitude(x) = One -> Dealloc({"xp"}) ** IF x.neg THEN Round ELSE RetZero(FALSE)
              [] Magnitude(x) < One -> Mark ** Dealloc({"xp"}) ** ZivRound({"tmp", "arcc"}) ** FreeAndCheck

\* A multiple of u with the given sign, rounded.
MultipleOf(u, neg) == IF u = 0 THEN RetZero(neg) ELSE AnyRound

\* The result is smaller than the extended range holds: it is given the sign +.
QuotientByPi(x) ==
  LET names == {"tmp", "pi"}
  IN Mark ** Alloc(names) ** Loop(Compute)
     ** (If(IsTiny(x), Dealloc(names) ** Free ** Under(FALSE))
         \cup (Round ** Dealloc(names) ** FreeAndCheck))

Asinu(x, u) ==
  CASE NanOrInf(x) -> RetNan
    [] IsZero(x) -> RetZero(x.neg)
    [] IsNum(x) /\ Magnitude(x) > One -> RetNan
    [] IsNum(x) /\ Magnitude(x) <= One ->
         IF u = 0 THEN RetZero(FALSE)
         ELSE IF Magnitude(x) = One \/ (x.v = 1 /\ u % 3 = 0) THEN Read ** AnyRound
         ELSE QuotientByPi(x)

Acosu(x, u) ==
  CASE NanOrInf(x) -> RetNan
    [] IsZero(x) -> MultipleOf(u, FALSE)
    [] IsNum(x) /\ Magnitude(x) > One -> RetNan
    [] IsNum(x) /\ Magnitude(x) <= One ->
         IF u = 0 THEN RetZero(FALSE)
         ELSE IF Magnitude(x) = One THEN Read ** IF x.neg THEN AnyRound ELSE RetZero(FALSE)
         ELSE IF x.v = 1 /\ u % 3 = 0 THEN Read ** AnyRound
         ELSE Mark ** (If(IsTiny(x), Alloc({"tmp"}) ** Compute ** Round ** Dealloc({"tmp"}) ** FreeAndCheck)
                       \cup (ZivRound({"tmp", "pi"}) ** FreeAndCheck))

\* mpfr_atan_aux: the series of one step, from a table when the precision is small.
AtanAux == Nothing \cup Intermediate
Atan(x) ==
  LET Table == {"tabz"}
  IN CASE IsNan(x) -> RetNan
       [] IsInf(x) -> Read ** MultipleOfPi
       [] IsZero(x) -> RetZero(x.neg)
       [] IsNum(x) ->
            If(Exponent(x) < 0, FastSmallInput)
            \cup (Mark
                  ** IF Magnitude(x) = One THEN Read ** Round ** FreeAndCheck
                     ELSE Alloc({"ukz", "group"} \cup Table) ** Loop(Compute ** Loop(AtanAux)) ** Read ** Round
                          ** Dealloc({"ukz", "group"} \cup Table) ** FreeAndCheck)

\* When the argument is large, the temporary is computed in the user's range.
Atanu(x, u) ==
  LET AtInfinity == Alloc({"tmp"}) ** Compute ** Round ** Dealloc({"tmp"})
  IN CASE IsNan(x) -> RetNan
       [] IsInf(x) -> MultipleOf(u, x.neg)
       [] IsZero(x) -> RetZero(x.neg)
       [] IsNum(x) ->
            IF u = 0 THEN RetZero(x.neg)
            ELSE IF Magnitude(x) = One THEN Read ** AnyRound
            ELSE If(IsHuge(x), AtInfinity) \cup QuotientByPi(x)

-----------------------------------------------------------------------------
(* Two operands                                                            *)

PiDiv2ui == Read ** MultipleOfPi
Atan2OfInfs == Mark ** Alloc({"tmp2"}) ** Loop(Intermediate) ** Read ** Round ** Dealloc({"tmp2"}) ** FreeAndCheck
Atan2Special(y, x) ==
  CASE IsNan(x) \/ IsNan(y) -> RetNan
    [] ~ IsNan(x) /\ IsZero(y) -> IF x.neg THEN Read ** Round ELSE RetZero(y.neg)
    [] ~ (IsNan(x) \/ IsNan(y) \/ IsZero(y)) /\ IsZero(x) -> PiDiv2ui
    [] IsInf(y) /\ ~ (IsNan(x) \/ IsZero(x)) -> IF IsInf(x) /\ x.neg THEN Atan2OfInfs ELSE PiDiv2ui
    [] IsNum(y) /\ IsInf(x) -> IF x.neg THEN Read ** Round ELSE RetZero(y.neg)

\* A power of 2 divides exactly, unless the division leaves the user's range: the flags are
\* then those of before.
Atan2(y, x) ==
  LET PositiveX ==
        Mark ** Alloc({"tmp"}) ** Loop(Block)
          ** (Round ** Dealloc({"tmp"}) ** FreeAndCheck
              \cup If(IsTiny(y), Dealloc({"tmp"}) ** Free ** Under(y.neg)))
      NegativeX == Mark ** Alloc({"tmp"}) ** Alloc({"pi"}) ** Loop(Compute) ** Round ** Dealloc({"pi"})
                     ** Dealloc({"tmp"}) ** FreeAndCheck
      ByPower == Alloc({"yoverx"})
                 ** (Read ** Round ** Dealloc({"yoverx"})
                     \cup (SaveFlags ** Compute ** Dealloc({"yoverx"}) ** RestoreFlags ** PositiveX))
  IN IF ~ (IsNum(x) /\ IsNum(y)) THEN Atan2Special(y, x)
     ELSE IF x.neg THEN NegativeX
     ELSE If(x.v \in {0, 1, 2, 4, Huge}, ByPower) \cup If(x.v \notin {1, 2, 4}, PositiveX)

Atan2uAux1(u, neg) == Read ** MultipleOf(u, neg)
Atan2uAux2(u, neg) ==
  Mark ** Alloc({"t"}) ** (IF u = 0 THEN ZeroTo("y", neg) ELSE AnyRound) ** Dealloc({"t"}) ** FreeAndCheck
\* The user's range holds the exponents of x and y, whose difference leaves the extended one:
\* u/2 and u/4 are in it.
Atan2uAux3 == Alloc({"t"}) ** Round ** Dealloc({"t"})
Atan2uAux4 == Alloc({"t"}) ** Read ** Round ** Dealloc({"t"})
Atan2uUnderflow(y, x) == IF x.neg THEN Atan2uAux3 ELSE Under(y.neg)
Atan2uOverflow == Atan2uAux4

Atan2uSpecial(y, x, u) ==
  CASE IsNan(x) \/ IsNan(y) -> RetNan
    [] IsInf(x) /\ IsInf(y) -> IF x.neg THEN Atan2uAux2(u, y.neg) ELSE Atan2uAux1(u, y.neg)
    [] ~ (IsNan(y) \/ IsInf(y)) /\ IsInf(x) -> IF x.neg THEN Atan2uAux1(u, y.neg) ELSE RetZero(y.neg)
    [] IsInf(y) /\ ~ NanOrInf(x) -> Atan2uAux1(u, y.neg)
    [] IsZero(y) /\ ~ NanOrInf(x) -> IF x.neg THEN Atan2uAux1(u, y.neg) ELSE RetZero(y.neg)
    [] IsNum(y) /\ IsZero(x) -> Atan2uAux1(u, y.neg)

Atan2u(y, x, u) ==
  LET End == Dealloc({"tmp"}) ** Free
  IN IF ~ (IsNum(x) /\ IsNum(y)) THEN Atan2uSpecial(y, x, u)
     ELSE IF y.v = x.v THEN IF x.neg THEN Atan2uAux2(u, y.neg) ELSE Atan2uAux1(u, y.neg)
     ELSE IF u = 0 THEN IF x.neg THEN Read ** Exact ELSE RetZero(y.neg)
     ELSE Mark ** Alloc({"tmp"}) ** Loop(Compute)
          ** (If(IsTiny(y) /\ IsHuge(x), End ** Atan2uUnderflow(y, x))
              \cup If(IsHuge(y) /\ IsTiny(x), End ** Atan2uOverflow)
              \cup (Round ** End ** Check("y")))

ArcNames == {"asin", "acos", "atan"}
ArcUNames == {"asinu", "acosu", "atanu"}
ArcBody(f, x) == CASE f = "asin" -> Asin(x) [] f = "acos" -> Acos(x) [] f = "atan" -> Atan(x)
ArcUBody(f, x, u) ==
  CASE f = "asinu" -> Asinu(x, u) [] f = "acosu" -> Acosu(x, u) [] f = "atanu" -> Atanu(x, u)
=============================================================================
