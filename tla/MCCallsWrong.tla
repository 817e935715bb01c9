---------------------------- MODULE MCCallsWrong ----------------------------
(***************************************************************************)
(* A program of calls, some of the basic operations, then some of the      *)
(* mathematical functions, each with the fault that it may commit.         *)
(*                                                                         *)
(* The steps of a function are those of FunctionCalls.  A call is followed *)
(* along the executions that commit its fault, so that the trace shows one *)
(* of them for each call.                                                  *)
(***************************************************************************)
EXTENDS MCFunctionCalls

CONSTANTS W, WideBits, emin, emax, ExtEmin, ExtEmax, MulThreshold, DivThreshold, MulhighK,
          Root1Error, Root2Below, Root2Above, SumLoops, LargeEmax, LargeExtEmax, FarEmax, WantedBits, MaxBits

VARIABLE done  \* the calls made, each with its fault

MCEmin == -4
MCExtEmin == -5

-----------------------------------------------------------------------------
(* The basic operations, to nearest, for a result of 1 bit *)

NoOperands(o, i) == {}
None(o) == {}
Of(c, outcome) == INSTANCE IntegerArithmetic WITH
  Operations <- {}, OperandsOf <- NoOperands, PrecsOf <- None, IntegersOf <- None,
  DenominatorsOf <- None, op <- c.f, xs <- c.xs, r <- outcome,
  call <- [p |-> 1, rnd |-> "RNDN", generic |-> FALSE, n |-> c.n, d |-> c.d, mode |-> "RNDN"]
Number == INSTANCE Exceptions

PowerOf2Number(e, neg) == Number!Num(neg, e, 1, 1)
Operation(f, operands, n, d) == [f |-> f, xs |-> operands, n |-> n, d |-> d]
Operations ==
  <<Operation("div", <<Number!Num(FALSE, 1, 195, 8), Number!Num(TRUE, 1, 78, 7)>>, 0, 1),
    Operation("fmma", <<PowerOf2Number(-1, TRUE), PowerOf2Number(-3, FALSE),
                        PowerOf2Number(-4, TRUE), PowerOf2Number(-3, FALSE)>>, 0, 1),
    Operation("fmma", <<PowerOf2Number(2, FALSE), PowerOf2Number(2, FALSE),
                        Number!Zero(FALSE, 1), PowerOf2Number(2, FALSE)>>, 0, 1),
    Operation("z_sub", <<PowerOf2Number(1, TRUE)>>, -1, 1),
    Operation("mul_q", <<PowerOf2Number(-4, FALSE)>>, 1, 29),
    Operation("remquo", <<Number!Num(FALSE, 2, 15, 4), PowerOf2Number(1, FALSE)>>, 0, 1),
    Operation("eq", <<Number!Num(FALSE, 1, 257, 9), Number!Num(FALSE, 1, 4, 3)>>, 6, 1),
    Operation("eq", <<PowerOf2Number(2, FALSE), Number!Num(FALSE, 2, 3, 2)>>, 0, 1)>>

NotYet == [x \in {0} |-> 0]
Outcomes(c) ==
  CASE c.f = "div" -> {Of(c, NotYet)!Div(1, c.xs[1], c.xs[2], "RNDN", FALSE)}
    [] c.f = "fmma" ->
         {Of(c, NotYet)!Fmma(1, c.xs[1], c.xs[2], c.xs[3], c.xs[4], FALSE, "RNDN", FALSE)}
    [] c.f = "z_sub" -> {Of(c, NotYet)!Large!ZSub(1, c.n, c.xs[1], "RNDN")}
    [] c.f = "mul_q" -> {Of(c, NotYet)!Large!MulQ(1, c.xs[1], c.n, c.d, "RNDN")}
    [] c.f = "remquo" -> {Of(c, NotYet)!Far!Rem1(1, c.xs[1], c.xs[2], TRUE, TRUE, "RNDN")}
    [] c.f = "eq" ->
         {Of(c, NotYet)!NoNumber(same) : same \in Of(c, NotYet)!Large!Eq(c.xs[1], c.xs[2], c.n)}

IsRight(c, s) ==
  CASE c.f \in {"div", "fmma"} -> Of(c, s)!RoundedRight
    [] c.f = "z_sub" -> Of(c, s)!RoundedAs(Of(c, s)!Exact)
    [] c.f = "mul_q" -> Of(c, s)!FlagsAs(Of(c, s)!Exact)
    [] c.f = "remquo" -> Of(c, s)!QuotientRight
    [] c.f = "eq" -> Of(c, s)!EqRight

-----------------------------------------------------------------------------
(* The functions *)

Of1(f, x, fault) == [f |-> f, xs |-> <<x>>, same |-> "y", fault |-> fault]
Of2(f, x, y, fault) == [f |-> f, xs |-> <<x, y>>, same |-> "y", fault |-> fault]

NegTiny == Operand("num", TRUE, 0)
Tiny == Operand("num", FALSE, 0)
NumberHuge == Operand("num", FALSE, Huge)
Half(k) == Operand("num", k < 0, IF k < 0 THEN -k ELSE k)  \* k/2; 18 stands for a large odd number

Calls ==
  <<Of1("exp2m1", NegTiny, "value"), Of1("exp10m1", NegTiny, "value"), Of1("log10p1", NegTiny, "value"),
    Of2("asinu", NegTiny, 3, "value"), Of2("atanu", NegTiny, 3, "value"), Of2("asinu", Half(-1), 0, "value"),
    Of2("sinu", Tiny, 3, "result out of range"), Of2("tanu", Tiny, 3, "result out of range"),
    Of1("sin_cos", Half(3), "narrow"), Of2("atanu", NumberHuge, 1, "narrow"),
    [f |-> "atan2u", xs |-> <<Half(2), Half(-4), 0>>, same |-> "y", fault |-> "value"],
    [f |-> "sinh_cosh", xs |-> <<Opposed(NumberHuge)>>, same |-> "z", fault |-> "stale"],
    Of1("trigamma", NegTiny, "value"),
    Of1("eint", Opposed(NumberHuge), "result out of range"),
    Of2("beta", NumberHuge, NumberHuge, "result out of range"),
    Of2("beta", Operand("inf", FALSE, 0), Half(-1), "value"),
    Of2("beta", Half(2), Half(-4), "narrow"), Of2("beta", Half(2), Half(-2), "value"),
    Of1("zeta", Half(-18), "leak"),
    Of2("powr", Half(2), Operand("nan", FALSE, 0), "value")>>

Faults ==
  wrong \cup (IF live = {} THEN {} ELSE {"leak"})
    \cup {"result out of range" : o \in {o \in DOMAIN result : result[o].state # "done"}}
    \cup {"value" : o \in {o \in DOMAIN result : ~ RightOf(o)}}

-----------------------------------------------------------------------------
(* The program *)

NumberOfCalls == Len(Operations) + Len(Calls)
CallOf(n) == Calls[n - Len(Operations)]
Starts(c) ==
  /\ call = c
  /\ todo = Whole(BodyOf(c.f, c.xs, c.same))
  /\ ranges = <<>> /\ flags = Entry /\ live = {} /\ wrong = {} /\ result = <<>>

StartsNext(c) ==
  /\ call' = c
  /\ todo' = Whole(BodyOf(c.f, c.xs, c.same))
  /\ ranges' = <<>> /\ flags' = Entry /\ live' = {} /\ wrong' = {} /\ result' = <<>>

WrongInit == Starts(Calls[1]) /\ done = <<>>

MakeOperation ==
  /\ Len(done) < Len(Operations)
  /\ LET c == Operations[Len(done) + 1]
     IN /\ \E s \in Outcomes(c) : ~ IsRight(c, s)
        /\ done' = Append(done, [call |-> c, fault |-> "value"])
  /\ UNCHANGED vars

StepOfFunction == Len(done) \in Len(Operations) .. NumberOfCalls - 1 /\ Next /\ UNCHANGED done

EndOfFunction ==
  /\ Len(done) \in Len(Operations) .. NumberOfCalls - 1 /\ Returned
  /\ call.fault \in Faults
  /\ done' = Append(done, [call |-> call, fault |-> call.fault])
  /\ IF Len(done) + 1 < NumberOfCalls THEN StartsNext(CallOf(Len(done) + 2)) ELSE UNCHANGED vars

WrongNext == MakeOperation \/ StepOfFunction \/ EndOfFunction

\* "The value stored in the destination variable is correctly rounded", "If the ternary value
\* is zero, it means that the value stored in the destination variable is the exact result",
\* and "MPFR extends the exponent range internally when need be" (doc/mpfr.texi:989, 1006,
\* 3871): no call of the program commits a fault.
EveryCallRight == Len(done) = NumberOfCalls => \A i \in DOMAIN done : done[i].fault = "none"
=============================================================================
