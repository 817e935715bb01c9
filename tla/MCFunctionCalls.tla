---------------------------- MODULE MCFunctionCalls ----------------------------
EXTENDS FunctionCalls

Singular == {Operand("nan", FALSE, 0)} \cup {Operand(k, s, 0) : k \in {"inf", "zero"}, s \in BOOLEAN}
NumbersOf(vs) == {Operand("num", s, v) : s \in BOOLEAN, v \in vs}
Wide == Singular \cup NumbersOf({0, 1, 2, 3, 4, 6, 18, Huge})
Few == Singular \cup NumbersOf({0, 2, 3, Huge})
Units == {0, 1, 3, 8}

MCNames == ExpLogNames \cup TrigNames \cup TrigUNames \cup ArcNames \cup ArcUNames \cup HyperbolicNames \cup {"atan2", "atan2u"}
  \cup IntegralNames \cup GammaNames \cup BesselNames \cup {"zeta_ui", "fac_ui", "legendre", "agm", "beta", "gamma_inc"}
  \cup PowerNames \cup IntPowerNames \cup RealPowerNames \cup {"ui_pow", "ui_pow_ui"}
MCExponents(f) ==
  CASE f \in {"pow_z", "pow_si", "compound_si"} -> -3 .. 3
    [] f = "pow_ui" -> 0 .. 4
    [] f = "rootn_ui" -> {0, 1, 2, 3, 101}
    [] f = "rootn_si" -> {-4, -3, -2, -1, 2}
MCOperandsOf(f) ==
  CASE f \in {"log_ui", "zeta_ui", "fac_ui"} -> {<<n>> : n \in 0 .. 3}
    [] f \in TrigUNames \cup ArcUNames -> {<<x, u>> : x \in Wide, u \in Units}
    [] f = "atan2" -> {<<y, x>> : y \in Few, x \in Few}
    [] f = "atan2u" -> {<<y, x, u>> : y \in Few, x \in Few, u \in {0, 3}}
    [] f \in BesselNames -> {<<n, x>> : n \in -2 .. 3, x \in Wide}
    [] f = "legendre" -> {<<n, x>> : n \in 0 .. 3, x \in Wide}
    [] f \in {"agm", "gamma_inc"} -> {<<a, b>> : a \in Wide, b \in Few}
    [] f = "beta" -> {<<z, w>> \in Wide \X Wide : ~ (IsTiny(z) /\ IsTiny(w))}
    [] f \in {"pow", "powr", "compound"} -> {<<x, y>> : x \in Wide, y \in Wide}
    [] f = "hypot" -> {<<x, y>> : x \in Wide, y \in Few}
    [] f \in IntPowerNames -> {<<x, n>> : x \in Wide, n \in MCExponents(f)}
    [] f = "ui_pow" -> {<<n, x>> : n \in 0 .. 3, x \in Wide}
    [] f = "ui_pow_ui" -> {<<k, n>> : k \in 0 .. 3, n \in 0 .. 3}
    [] OTHER -> {<<x>> : x \in Wide}
=============================================================================
