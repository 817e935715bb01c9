----------------------------- MODULE FunctionCalls -----------------------------
(***************************************************************************)
(* A call of a mathematical function, event by event: what it leaves to    *)
(* its caller.                                                             *)
(*                                                                         *)
(* A computation on temporary variables may raise any flag, and, once a    *)
(* result is written, an operand that is the same variable is lost.        *)
(***************************************************************************)
EXTENDS SpecialValues, ExpLog, ArcTrig, Hyperbolic, TLC

CONSTANTS
  Names,        \* the functions that are called
  OperandsOf(_) \* OperandsOf(f): the sequences of operands of f

\* same: the destination that is the same variable as the operands.
BodyOf(f, xs, same) ==
  CASE f \in ExpLogNames -> ExpLogBody(f, xs[1])
    [] f \in TrigNames -> TrigBody(f, xs[1], same)
    [] f \in TrigUNames -> TrigUBody(f, xs[1], xs[2])
    [] f \in ArcNames -> ArcBody(f, xs[1])
    [] f \in ArcUNames -> ArcUBody(f, xs[1], xs[2])
    [] f \in HyperbolicNames -> HyperbolicBody(f, xs[1])
    [] f = "atan2" -> Atan2(xs[1], xs[2])
    [] f = "atan2u" -> Atan2u(xs[1], xs[2], xs[3])
    [] f \in IntegralNames -> IntegralBody(f, xs[1])
    [] f \in GammaNames -> GammaBody(f, xs[1])
    [] f = "zeta_ui" -> ZetaUi(xs[1])
    [] f = "fac_ui" -> FacUi(xs[1])
    [] f = "jn" -> Jn(xs[1], xs[2])
    [] f = "yn" -> Yn(xs[1], xs[2])
    [] f = "legendre" -> Legendre(xs[1], xs[2])
    [] f = "agm" -> Agm(xs[1], xs[2])
    [] f = "beta" -> Beta(xs[1], xs[2])
    [] f = "gamma_inc" -> GammaInc(xs[1], xs[2])
    [] f \in PowerNames -> PowerBody(f, xs[1])
    [] f \in IntPowerNames -> IntPowerBody(f, xs[1], xs[2])
    [] f \in RealPowerNames -> RealPowerBody(f, xs[1], xs[2])
    [] f = "ui_pow" -> UiPow(xs[1], xs[2])
    [] f = "ui_pow_ui" -> UiPowUi(xs[1], xs[2])

VARIABLES
  call,   \* the function, its operands, and the destination that is one of them
  todo,   \* what is left of its body
  ranges, \* the ranges to come back to with the flags to restore, the last one first
  flags,  \* __gmpfr_flags
  live,   \* the temporaries that are initialised
  result, \* what each destination holds
  wrong   \* what happened that must not: "memory", "stale", "range", "narrow"

vars == <<call, todo, ranges, flags, live, result, wrong>>

Entry == {"erange"}  \* the flags at the call: nothing clears or raises this one
Junk == {"inexact", "over", "under"}  \* what an intermediate computation may raise

Init ==
  \E f \in Names : \E xs \in OperandsOf(f), same \in DestinationsOf(f) :
    /\ call = [f |-> f, xs |-> xs, same |-> same]
    /\ todo = Whole(BodyOf(f, xs, same))
    /\ ranges = <<>> /\ flags = Entry /\ live = {} /\ wrong = {}
    /\ result = <<>>

Event(tag) == todo # <<>> /\ Head(todo)[1] = tag
Argument == Head(todo)[2]
Goes(rest) == todo' = rest /\ UNCHANGED call
Then == Goes(Tail(todo))
UserRange == ranges = <<>>

-----------------------------------------------------------------------------
(* Control *)

Choose ==
  /\ Event("either")
  /\ \E b \in Argument : Goes(b \o Tail(todo))
  /\ UNCHANGED <<ranges, flags, live, result, wrong>>

Pass ==
  /\ Event("loop")
  /\ \/ Goes(Whole(Argument) \o todo)
     \/ Goes(Whole(Argument) \o Tail(todo))
  /\ UNCHANGED <<ranges, flags, live, result, wrong>>

-----------------------------------------------------------------------------
(* Memory and operands *)

Alive ==
  /\ Event("alloc") /\ Then
  /\ live' = live \cup Argument
  /\ wrong' = IF Argument \cap live = {} THEN wrong ELSE wrong \cup {"memory"}
  /\ UNCHANGED <<ranges, flags, result>>

Dead ==
  /\ Event("dealloc") /\ Then
  /\ live' = live \ Argument
  /\ wrong' = IF Argument \subseteq live THEN wrong ELSE wrong \cup {"memory"}
  /\ UNCHANGED <<ranges, flags, result>>

Stale == IF call.same \in DOMAIN result THEN {"stale"} ELSE {}

ReadOperand ==
  /\ Event("read") /\ Then
  /\ wrong' = wrong \cup Stale
  /\ UNCHANGED <<ranges, flags, live, result>>

\* From the operands if the argument is TRUE.
ComputeTemporary ==
  /\ Event("compute") /\ Then
  /\ wrong' = wrong \cup (IF Argument THEN Stale ELSE {}) \cup (IF UserRange THEN {"narrow"} ELSE {})
  /\ flags' \in {flags, flags \cup Junk}
  /\ UNCHANGED <<ranges, live, result>>

-----------------------------------------------------------------------------
(* The range and the flags *)

MarkExpo ==
  /\ Event("mark") /\ Then
  /\ ranges' = <<[kind |-> Argument, saved |-> flags]>> \o ranges
  /\ UNCHANGED <<flags, live, result, wrong>>

FreeExpo ==
  /\ Event("free") /\ Then
  /\ IF ranges # <<>> /\ Head(ranges).kind = Argument
     THEN ranges' = Tail(ranges) /\ UNCHANGED wrong
     ELSE wrong' = wrong \cup {"range"} /\ UNCHANGED ranges
  /\ flags' = IF ranges = <<>> \/ Argument = "local" THEN flags ELSE Head(ranges).saved
  /\ UNCHANGED <<live, result>>

UpdateFlags ==
  /\ Event("update") \/ Event("update_all")
  /\ Then
  /\ ranges' = IF UserRange THEN ranges
                ELSE [ranges EXCEPT ![1].saved = @ \cup (IF Event("update") THEN Argument ELSE flags)]
  /\ UNCHANGED <<flags, live, result, wrong>>

Clear ==
  /\ Event("clear_flags") /\ Then
  /\ flags' = {}
  /\ UNCHANGED <<ranges, live, result, wrong>>

DivideByZero ==
  /\ Event("divby0") /\ Then
  /\ flags' = flags \cup {"divby0"}
  /\ UNCHANGED <<ranges, live, result, wrong>>

-----------------------------------------------------------------------------
(* Results: their kind, their sign when the code chooses it, and whether   *)
(* their exponent has still to be checked against the user's range; an     *)
(* underflow in a larger range may have left a zero, whose exponent tells  *)
(* nothing.                                                                *)

FlagsOf(kind) ==
  CASE kind \in {"exact", "inf", "zero"} -> {}
    [] kind = "nan" -> {"nan"}
    [] kind = "inexact" -> {"inexact"}
    [] kind \in {"over", "under"} -> {kind, "inexact"}

Store(o, kind, sign, state) ==
  result' = (o :> [kind |-> kind, sign |-> sign, state |-> state]) @@ result

RoundResult ==
  /\ Event("round") /\ Then
  /\ \E c \in Head(todo)[3] :
       /\ Store(Argument, c, IF Len(Head(todo)) = 4 THEN Sign(Head(todo)[4]) ELSE "any",
                IF UserRange THEN "done" ELSE "pending")
       /\ flags' = flags \cup IF UserRange THEN FlagsOf(c) ELSE FlagsOf(c) \ {"over", "under"}
  /\ UNCHANGED <<ranges, live, wrong>>

WriteResult ==
  /\ Event("write") /\ Then
  /\ \E c \in Head(todo)[3] : Store(Argument, c, "any", "pending")
  /\ UNCHANGED <<ranges, flags, live, wrong>>

ChosenSign == Sign(Head(todo)[3])

\* mpfr_overflow, mpfr_underflow
OutOfRange ==
  /\ Event("over") \/ Event("under")
  /\ Then
  /\ LET kind == Head(todo)[1]
     IN /\ Store(Argument, kind, ChosenSign,
                 CASE UserRange -> IF Len(Head(todo)) = 4 THEN Head(todo)[4] ELSE "done"
                   [] ~ UserRange /\ kind = "over" -> "pending"
                   [] ~ UserRange /\ kind = "under" -> "flushed")
        /\ flags' = flags \cup FlagsOf(kind)
  /\ UNCHANGED <<ranges, live, wrong>>

Special ==
  /\ Event("nan") \/ Event("inf") \/ Event("zero")
  /\ Then
  /\ Store(Argument, Head(todo)[1], ChosenSign, "done")
  /\ flags' = flags \cup FlagsOf(Head(todo)[1])
  /\ UNCHANGED <<ranges, live, wrong>>

\* MPFR_CHANGE_SIGN
Opposite(sign) == CASE sign = "+" -> "-" [] sign = "-" -> "+" [] sign = "any" -> "any"
OppositeOf ==
  /\ Event("opposite") /\ Then
  /\ result' = [result EXCEPT ![Argument].sign = Opposite(@)]
  /\ UNCHANGED <<ranges, flags, live, wrong>>

\* mpfr_check_range
CheckRangeOf ==
  /\ Event("check") /\ Then
  /\ LET o == result[Argument]
         due == FlagsOf(o.kind)
     IN IF UserRange
        THEN /\ flags' = flags \cup IF o.state = "flushed" THEN due \ {"under"} ELSE due
             /\ result' = [result EXCEPT ![Argument].state = "done"]
        ELSE /\ flags' = flags \cup (due \ {"over", "under"})
             /\ UNCHANGED result
  /\ UNCHANGED <<ranges, live, wrong>>

Next ==
  \/ Choose \/ Pass
  \/ Alive \/ Dead \/ ReadOperand \/ ComputeTemporary
  \/ MarkExpo \/ FreeExpo
  \/ UpdateFlags \/ Clear \/ DivideByZero
  \/ RoundResult \/ WriteResult \/ OutOfRange \/ Special \/ OppositeOf \/ CheckRangeOf

Spec == Init /\ [][Next]_vars

-----------------------------------------------------------------------------
(* Properties, for the caller *)

Returned == todo = <<>>
Results == {result[o] : o \in DOMAIN result}

\* sin_cos.c:129, atanu.c:110 and beta.c:195 compute temporaries in the caller's range: see the
\* run "calls_wrong".
ComputedInUserRange == "narrow" \in wrong /\ call.f \in {"sin_cos", "atanu", "beta"}

\* "MPFR extends the exponent range internally when need be" (doc/mpfr.texi:3871): temporaries
\* are computed in the extended range, and on every path the caller gets its own back.
RangeRestored ==
  /\ "range" \notin wrong /\ ("narrow" \in wrong => ComputedInUserRange)
  /\ Returned => ranges = <<>>

\* Every temporary is initialised once and freed once, on every path.
\* zeta.c:612 goes to the next precision without clearing z_up: see the run "calls_wrong".
LeftByZeta == IF call.f = "zeta" THEN {"z_up"} ELSE {}
NothingLeaked ==
  /\ "memory" \in wrong => LeftByZeta # {}
  /\ Returned => live \subseteq LeftByZeta

\* The flags are those of the results: no flag of an intermediate computation is left, none
\* that is due is missing, and none that was set before the call is cleared.
FlagsExactlyDue ==
  Returned /\ ~ ComputedInUserRange =>
    flags \ {"divby0"} = Entry \cup UNION {FlagsOf(x.kind) : x \in Results}

\* sinu.c:131 and tanu.c:130 underflow in the extended range and do not check the result
\* against the user's; eint.c:308 and beta.c:244 ask for the caller's rounding mode, away from
\* zero when it is to nearest: see the run "calls_wrong".
Unchecked(x) ==
  \/ call.f \in {"sinu", "tanu", "sinpi", "tanpi"} /\ x.state = "flushed"
  \/ call.f \in {"eint", "gamma_inc", "beta"} /\ x.state = "away"

\* Every destination is given a number of the user's range.
ResultInRange ==
  Returned =>
    DOMAIN result = DestinationsOf(call.f) /\ \A x \in Results : x.state = "done" \/ Unchecked(x)

\* A destination may be one of the operands: they are not read once it is written.
\* sinh_cosh.c:111 reads op again once the cosine is +Inf: see the run "calls_wrong".
OperandNotStale == "stale" \in wrong => call.f = "sinh_cosh" /\ call.same = "z"

Outcome(x) ==
  CASE x.kind = "nan" -> "nan"
    [] x.kind = "zero" -> x.sign \o "0"
    [] x.kind = "inf" -> x.sign \o IF "divby0" \in flags THEN "pole" ELSE "inf"
    [] OTHER -> x.sign

\* exp2m1.c:164, exp10m1.c:158, log10p1.c:204, asinu.c:133 and atanu.c:158 give an underflow
\* the sign +; atan2u.c:278 gives 1 or -1 for u = 0: see the run "calls_wrong".
SignLost ==
  /\ call.f \in {"exp2m1", "exp10m1", "log10p1", "asinu", "atanu"}
  /\ IsTiny(call.xs[1]) /\ call.xs[1].neg
\* powr.c:32 leaves 1 and NaN to mpfr_pow, which gives 1.
OneForNan == call.f = "powr" /\ IsNum(call.xs[1]) /\ IsOne(call.xs[1]) /\ IsNan(call.xs[2])
OneForZero == call.f = "atan2u" /\ call.xs[3] = 0 /\ call.xs[2].neg
\* asinu.c:71 gives +0 for u = 0, whatever the sign of x; only x = -0 keeps its sign.
ZeroSignLost == call.f = "asinu" /\ call.xs[2] = 0 /\ IsNum(call.xs[1]) /\ call.xs[1].neg

\* beta.c:101 chooses the sign of an infinity the other way, beta.c:193 forgets the sign of
\* (-1)^z / z, trigamma.c:584 overflows with the sign of x.
SignInverted ==
  \/ /\ call.f = "beta"
     /\ \E i \in {1, 2} :
          LET z == call.xs[i] w == call.xs[3 - i]
          IN w.neg /\ ((z = Operand("inf", FALSE, 0) /\ IsNum(w)) \/ (z = Opposed(w) /\ IsOdd(w)))
  \/ call.f = "trigamma" /\ IsTiny(call.xs[1]) /\ call.xs[1].neg
\* beta gives NaN when what it would need is out of reach (doc/mpfr.texi).
GivenUp(x) == call.f = "beta" /\ (\A i \in {1, 2} : IsNum(call.xs[i])) /\ x.kind = "nan"

SpecialKinds == {"nan", "zero", "inf"}
RightOf(o) ==
  LET right == SpecialValue(call.f, call.xs, o)
      x == result[o]
  IN IF x.kind \in SpecialKinds THEN Outcome(x) = right \/ GivenUp(x)
     ELSE right \in {"+", "-", "any"} /\ (x.sign = "any" \/ right = "any" \/ x.sign = right)

\* NaN, infinities, zeros, divisions by zero, and the signs of overflows and underflows are
\* those of the mathematical function.
ResultRight ==
  Returned /\ ~ (SignLost \/ OneForZero \/ ZeroSignLost \/ OneForNan \/ SignInverted) =>
    \A o \in DOMAIN result : RightOf(o)
=============================================================================
