----------------------------- MODULE ConstService -----------------------------
(***************************************************************************)
(* What the shared constant caches promise to the threads of a program:    *)
(* mpfr_const_pi and the like deliver the right digits, whatever the other *)
(* threads ask for or free meanwhile (doc/mpfr.texi: "At any time, the     *)
(* user can free various caches").                                         *)
(***************************************************************************)
CONSTANT Threads

VARIABLES
  doing,   \* what each thread is doing: nothing, a constant, or freeing
  answer   \* what it has got: none, right or wrong digits

Init ==
  /\ doing = [t \in Threads |-> "nothing"]
  /\ answer = [t \in Threads |-> "none"]

\* A thread asks for a constant.
Ask(t) ==
  /\ doing[t] = "nothing"
  /\ doing' = [doing EXCEPT ![t] = "constant"]
  /\ UNCHANGED answer

\* The constant is delivered.
Answer(t) ==
  /\ doing[t] = "constant"
  /\ answer[t] = "none"
  /\ answer' = [answer EXCEPT ![t] = "right"]
  /\ UNCHANGED doing

\* A thread frees the caches: to the others it is as if nothing happened.
Free(t) ==
  /\ doing[t] = "nothing"
  /\ doing' = [doing EXCEPT ![t] = "free"]
  /\ UNCHANGED answer

\* A call returns, that of a constant only with its value.
Return(t) ==
  /\ doing[t] # "nothing"
  /\ doing[t] = "constant" => answer[t] = "right"
  /\ doing' = [doing EXCEPT ![t] = "nothing"]
  /\ answer' = [answer EXCEPT ![t] = "none"]

Next == \E t \in Threads : Ask(t) \/ Answer(t) \/ Free(t) \/ Return(t)

vars == <<doing, answer>>

Safety == Init /\ [][Next]_vars

Spec == Safety /\ \A t \in Threads : WF_vars(Answer(t) \/ Return(t))
=============================================================================
