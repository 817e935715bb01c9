----------------------------- MODULE MCConstCache -----------------------------
(* Two threads, one constant that is computed alone and one that reads it.   *)
(* From 20 bits a request of 21 grows the cache to 22, by the 10% rule, and  *)
(* Catalan's request of pi at 31 bits grows pi's cache to 31.                *)
EXTENDS ConstCache

CONSTANTS pi, catalan

MCCaches == {pi, catalan}
MCDeps == [c \in MCCaches |-> IF c = catalan THEN {pi} ELSE {}]
MCFreeOrder == <<pi, catalan>>
MCNoFree == <<>>
=============================================================================
