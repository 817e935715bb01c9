---------------------------- MODULE MCArithmetic ----------------------------
EXTENDS IntegerArithmetic

MCEmin == -4
MCExtEmin == -5

\* Significands with runs of zeros and ones: they are the ones that matter for roundings
\* and carries.
Patterns(p) ==
  LET all == 2^(p-1) .. 2^p - 1
  IN IF p <= 3 THEN all
     ELSE {m \in all : /\ m % 8 \in {0, 1, 4, 7}
                       /\ (m \div 8) % 8 \in {0, 1, 2, 3, 7}
                       /\ (m \div 64) % 8 \in {0, 1, 3, 4, 7}
                       /\ m \div 512 \in {0, 1, 2, 7, 8, 15, 31, 32}}

Nums(precs, exps, signs) ==
  UNION {{Num(s, e, m, p) : s \in signs, e \in exps, m \in Patterns(p)} : p \in precs}
Pos == {FALSE}
Neg == {TRUE}
Corners(p) == {2^(p-1), 2^(p-1) + 1, 2^p - 1, 2^(p+1) \div 3}
Zeros == {Zero(FALSE, 1), Zero(TRUE, 1)}

MCOperations == {"add", "sub", "mul", "sqr", "div", "sqrt", "mul_2si", "div_2si", "div_ui", "fma",
                 "fms", "fmma", "fmms", "sum", "dot", "wide_mul", "wide_sqr", "wide_sqrt"}
                \cup LargeOperations

Few == Nums({1, 2}, {-4, 0}, BOOLEAN) \cup Nums({1}, {2}, BOOLEAN)

\* A number of each shape near the integers, whatever the limbs: with fractional
\* parts around a half, and up to the largest exponent.
Near == Nums({1, 3, 7}, {-1, 0, 1, 2, 4}, BOOLEAN) \cup Nums({5}, {3, 4}, Pos)
Divisors == Nums({1, 3}, {-4, -2, 1}, BOOLEAN)

\* The same numbers as an operand of every operation that has as many.
MCOperandsOf(o, i) ==
  CASE o = "add" -> IF i = 1 THEN Nums({2, 3, 7}, {-4, 2}, BOOLEAN)
                             ELSE Nums({2, 3, 6}, {-4, -1}, Pos) \cup Zeros
    [] o = "sub" -> IF i = 1 THEN Nums({2, 3, 7}, {-2, 2}, Pos)
                             ELSE Nums({2, 3, 6}, {-4, -2, 1}, Pos) \cup Nums({3}, {-2}, Neg) \cup Zeros
    [] o = "mul" -> IF i = 1 THEN Nums({2, 3, 5, 6, 7}, {-2, 0}, Pos)
                             ELSE Nums({2, 3, 6}, {-3}, Pos) \cup Nums({2, 3, 5}, {1}, Neg)
    [] o = "div" -> IF i = 1 THEN Nums({2, 5, 8}, {-2, 1}, Pos)
                             ELSE Nums({2, 3, 5, 7}, {-1}, Neg) \cup Nums({2, 5, 7}, {2}, Pos)
    [] o = "sqr" -> Nums(1 .. 7, {-2, -1, 0, 1}, BOOLEAN)
    [] o = "sqrt" -> Nums(1 .. 7, {-4, -1, 0, 1, 2}, Pos)
    [] o \in {"mul_2si", "div_2si"} -> Nums({3, 4}, {-4, 0, 2}, BOOLEAN)
    [] o = "div_ui" -> Nums({2, 5, 7}, {-4, -3, 2}, BOOLEAN)
    [] o = "fma" -> (IF i = 2 THEN {x \in Few : ~ x.neg} ELSE Few) \cup Zeros
    [] o = "fms" -> IF i = 3 THEN Few ELSE Nums({2}, {-4, 2}, BOOLEAN)
    [] o \in {"fmma", "fmms"} ->
         (CASE i = 1 -> Nums({2}, {-4, 2}, Pos) \cup Zeros
            [] i = 2 -> Nums({2}, {-3, 1}, Pos)
            [] i = 3 -> Few
            [] i = 4 -> Nums({2}, {-4, 1}, Pos))
    [] o = "sum" ->
         (CASE i = 1 -> Nums({2}, {-4, 2}, BOOLEAN)
            [] i = 2 -> Nums({4}, {-3, 1}, BOOLEAN)
            [] i = 3 -> Nums({1, 4}, {-4, 1}, BOOLEAN) \cup Zeros)
    [] o \in {"wide_mul", "wide_sqr"} ->
         IF i = 1 THEN Nums({7, 13}, {0}, Pos)
         ELSE UNION {{Num(FALSE, 0, m, p) : m \in Corners(p)} : p \in {7, 9, 13}}
    [] o = "wide_sqrt" -> Nums({3, 5, 7, 8}, {0, 1}, Pos)
    [] o = "dot" -> IF i < 5 THEN Nums({2}, {-1, 1}, {i = 3}) ELSE Nums({1}, {-1, 1}, Pos) \cup {Zero(TRUE, 1)}
    [] o \in {"add_ui", "sub_ui", "ui_sub", "add_z", "sub_z", "z_sub"} ->
         Nums({1, 5}, {-4, 0, 1, 4}, BOOLEAN) \cup Zeros
    [] o \in {"mul_ui", "ui_div", "mul_z", "div_z", "si_div"} -> Nums({1, 5}, {-4, 0, 4}, BOOLEAN)
    [] o \in {"mul_q", "div_q"} -> Nums({1, 5}, {-4, 3}, BOOLEAN)
    [] o \in {"rint", "rint_then", "frac", "cmp_ui_2exp", "cmp_si_2exp", "cmp_z",
              "fits_ui", "fits_si", "get_ui", "get_si", "get_z"} -> Near \cup Zeros
    [] o \in Remainders ->
         IF i = 1 THEN Nums({1, 5}, {-4, 0, 3, 8, 12}, BOOLEAN) \cup Zeros ELSE Divisors
    [] o \in {"min", "max"} ->
         IF i = 1 THEN Nums({4}, {0}, BOOLEAN) \cup Zeros ELSE Nums({3}, {0, 1}, BOOLEAN) \cup Zeros
    [] o \in {"dim", "cmp", "eq"} ->
         IF i = 1 THEN Nums({1, 7}, {0}, BOOLEAN) \cup Nums({3}, {1}, Neg) \cup Zeros
         ELSE Nums({3, 8}, {0}, BOOLEAN) \cup Nums({8}, {-4}, Neg) \cup Zeros

MCPrecsOf(o) ==
  CASE o \in {"add", "sub", "mul", "div"} -> {1, 2, 3, 5}
    [] o \in {"sqr", "sqrt"} -> 1 .. 6
    [] o \in {"fma", "fms", "fmma", "fmms"} -> {1, 2}
    [] o = "sum" -> {1, 2, 4}
    [] o = "dot" -> {1, 3}
    [] o \in {"mul_q", "div_q", "set_q"} -> {1, 4}
    [] o \in {"wide_mul", "wide_sqr"} -> {7, 9, 13}
    [] o = "wide_sqrt" -> {3, 5, 7, 8}
    [] OTHER -> {1, 3, 4}

\* Integers of one limb; of a long; and larger, up to two limbs.
MCIntegersOf(o) ==
  CASE o \in {"mul_ui", "add_ui", "sub_ui", "ui_sub", "ui_div", "set_ui_2exp", "cmp_ui_2exp"} -> 0 .. 7
    [] o \in {"si_div", "set_si_2exp", "cmp_si_2exp"} -> -4 .. 3
    [] o \in {"mul_q", "div_q", "set_q"} -> {-9, -3, 0, 1, 5, 16}
    [] o = "eq" -> 0 .. 9
    [] OTHER -> -5 .. 4 \cup {-24, 9, 16, 31}

MCDenominatorsOf(o) == IF o \in {"mul_q", "div_q", "set_q"} THEN {1, 3, 5, 16, 29} ELSE -8 .. 5
=============================================================================
