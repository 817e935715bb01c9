------------------------------ MODULE ConstCache ------------------------------
(***************************************************************************)
(* The caches of the constants pi, log(2), Euler and Catalan when they are *)
(* shared by all threads (MPFR_WANT_SHARED_CACHE): mpfr_cache and          *)
(* mpfr_clear_cache of src/cache.c, mpfr_free_const_caches of              *)
(* src/free_cache.c, over the lock macros of src/mpfr-thread.h.            *)
(*                                                                         *)
(* A cache holds one significand, its precision and the ternary value of   *)
(* its computation.  A call that needs more bits than the cache holds      *)
(* recomputes the value under the write lock, and the computation of one   *)
(* constant may read other caches (Catalan and Euler call mpfr_log, which  *)
(* reads pi and log(2)).  So a thread has two frames: the call the user    *)
(* made, and the call that cache->func makes while the first holds its     *)
(* write lock.                                                             *)
(*                                                                         *)
(* Data is abstracted to what the locking can spoil: a significand is the  *)
(* precision for which it is right, 0 when it is being written, freed or   *)
(* wrong.  The rounding itself is the subject of module Rounding.          *)
(***************************************************************************)
EXTENDS Naturals, Sequences, FiniteSets

CONSTANTS
  Threads,    \* the threads of the program
  Caches,     \* the cached constants
  Deps,       \* Deps[c]: the caches that cache c's func reads
  FreeOrder,  \* the order in which mpfr_free_const_caches clears the caches
  Precs,      \* the precisions users ask for
  WorkPrecs,  \* the working precisions of a func
  RWLock,     \* TRUE: POSIX rwlock; FALSE: ISO C11 mutex
  MaxCalls,   \* bound: calls made by one thread
  NoFrame     \* no frame holds the write lock

ASSUME ConstCacheAssumption ==
  /\ Caches # {}
  /\ Deps \in [Caches -> SUBSET Caches]
  /\ \A c \in Caches : \A d \in Deps[c] : Deps[d] = {}
  /\ FreeOrder \in Seq(Caches)
  /\ Precs \subseteq Nat \ {0}
  /\ WorkPrecs \subseteq Nat \ {0}
  /\ RWLock \in BOOLEAN
  /\ MaxCalls \in Nat
  /\ NoFrame \notin Threads \X {1, 2}

VARIABLES
  prec,     \* MPFR_PREC (cache->x), 0 when the cache holds no value
  mant,     \* the precision for which the significand of cache->x is right
  readers,  \* the frames that hold the lock for reading
  writer,   \* the frame that holds it for writing (any hold, with a mutex)
  pc,       \* where each frame is
  onto,     \* the cache each frame works on
  dprec,    \* MPFR_PREC (dest) of each frame
  cprec,    \* the local variable cprec of mpfr_cache
  reply,    \* what the last calls of each frame delivered
  freed,    \* how many caches mpfr_free_const_caches has gone through
  calls     \* calls left to each thread

vars == <<prec, mant, readers, writer, pc, onto, dprec, cprec, reply, freed, calls>>
cacheVars == <<prec, mant>>
lockVars == <<readers, writer>>
callVars == <<onto, dprec, calls>>

Frames == Threads \X {1, 2}
Outer(t) == <<t, 1>>
Inner(t) == <<t, 2>>

\* A frame that is not in a call works on no particular cache.
NoCache == CHOOSE c \in Caches : TRUE

Labels == {"idle", "lock", "test", "r2w", "wlock", "retest", "compute",
           "w2r", "relock", "copy", "unlock",
           "ftest", "flock", "fretest", "funlock"}

Init ==
  /\ prec = [c \in Caches |-> 0]
  /\ mant = [c \in Caches |-> 0]
  /\ readers = [c \in Caches |-> {}]
  /\ writer = [c \in Caches |-> NoFrame]
  /\ pc = [f \in Frames |-> "idle"]
  /\ onto = [f \in Frames |-> NoCache]
  /\ dprec = [f \in Frames |-> 0]
  /\ cprec = [f \in Frames |-> 0]
  /\ reply = [f \in Frames |-> "none"]
  /\ freed = [t \in Threads |-> 0]
  /\ calls = [t \in Threads |-> MaxCalls]

-----------------------------------------------------------------------------
(* The locks.  With a mutex, reading and writing are the same hold, and    *)
(* MPFR_LOCK_READ2WRITE and MPFR_LOCK_WRITE2READ do nothing.               *)

Goto(f, l) == pc' = [pc EXCEPT ![f] = l]

AcquireRead(f, c) ==
  /\ writer[c] = NoFrame
  /\ IF RWLock
     THEN readers' = [readers EXCEPT ![c] = @ \cup {f}] /\ UNCHANGED writer
     ELSE writer' = [writer EXCEPT ![c] = f] /\ UNCHANGED readers

\* Mutant: a writer does not wait for the readers.
AcquireWriteEarly(f, c) ==
  /\ writer[c] = NoFrame
  /\ writer' = [writer EXCEPT ![c] = f]
  /\ UNCHANGED readers

AcquireWrite(f, c) ==
  /\ writer[c] = NoFrame
  /\ readers[c] = {}
  /\ writer' = [writer EXCEPT ![c] = f]
  /\ UNCHANGED readers

Release(f, c) ==
  /\ readers' = [readers EXCEPT ![c] = @ \ {f}]
  /\ writer' = [writer EXCEPT ![c] = IF @ = f THEN NoFrame ELSE @]

-----------------------------------------------------------------------------
(* mpfr_cache *)

\* A user calls mpfr_const_pi, mpfr_const_log2, ... in thread t.
Call(t, c, p) ==
  /\ pc[Outer(t)] = "idle"
  /\ calls[t] > 0
  /\ calls' = [calls EXCEPT ![t] = @ - 1]
  /\ onto' = [onto EXCEPT ![Outer(t)] = c]
  /\ dprec' = [dprec EXCEPT ![Outer(t)] = p]
  /\ Goto(Outer(t), "lock")
  /\ UNCHANGED <<cacheVars, lockVars, cprec, reply, freed>>

LockRead(f) ==
  /\ pc[f] = "lock"
  /\ AcquireRead(f, onto[f])
  /\ Goto(f, "test")
  /\ UNCHANGED <<cacheVars, callVars, cprec, reply, freed>>

TestPrec(f) ==
  /\ pc[f] = "test"
  /\ cprec' = [cprec EXCEPT ![f] = prec[onto[f]]]
  /\ Goto(f, IF dprec[f] > prec[onto[f]] THEN "r2w" ELSE "copy")
  /\ UNCHANGED <<cacheVars, lockVars, callVars, reply, freed>>

\* Mutant: the read lock is kept while waiting for the write lock.
ReadToWriteInPlace(f) ==
  /\ pc[f] = "r2w"
  /\ Goto(f, IF RWLock THEN "wlock" ELSE "retest")
  /\ UNCHANGED <<cacheVars, lockVars, callVars, cprec, reply, freed>>

\* The first half of MPFR_LOCK_READ2WRITE: the POSIX lock is not upgraded in
\* place, it is released and taken again.
ReadToWrite(f) ==
  /\ pc[f] = "r2w"
  /\ IF RWLock
     THEN Release(f, onto[f]) /\ Goto(f, "wlock")
     ELSE Goto(f, "retest") /\ UNCHANGED lockVars
  /\ UNCHANGED <<cacheVars, callVars, cprec, reply, freed>>

LockWrite(f) ==
  /\ pc[f] = "wlock"
  /\ AcquireWrite(f, onto[f])
  /\ Goto(f, "retest")
  /\ UNCHANGED <<cacheVars, callVars, cprec, reply, freed>>

\* Mutant: 10% more, even when that is not enough.
GrownPrecOnlyTenth(cp, dp) == IF cp = 0 THEN dp ELSE cp + cp \div 10

\* The precision a cache of precision cp grows to when dp bits are asked for.
GrownPrec(cp, dp) ==
  IF cp = 0 \/ cp + cp \div 10 < dp THEN dp ELSE cp + cp \div 10

\* Mutant: the precision is not read again under the write lock.
RetestStale(f) ==
  LET c == onto[f]
      grown == GrownPrec(cprec[f], dprec[f])
  IN
  /\ pc[f] = "retest"
  /\ cprec' = [cprec EXCEPT ![f] = grown]
  /\ prec' = [prec EXCEPT ![c] = grown]
  /\ mant' = [mant EXCEPT ![c] = 0]
  /\ Goto(f, "compute")
  /\ UNCHANGED <<lockVars, callVars, reply, freed>>

\* Mutant: mpfr_set_prec is forgotten.
RetestNoResize(f) ==
  LET c == onto[f]
      grown == GrownPrec(prec[c], dprec[f])
  IN
  /\ pc[f] = "retest"
  /\ IF dprec[f] > prec[c]
     THEN /\ cprec' = [cprec EXCEPT ![f] = grown]
          /\ prec' = IF prec[c] = 0 THEN [prec EXCEPT ![c] = grown] ELSE prec
          /\ mant' = [mant EXCEPT ![c] = 0]
          /\ Goto(f, "compute")
     ELSE /\ cprec' = [cprec EXCEPT ![f] = prec[c]]
          /\ Goto(f, "w2r")
          /\ UNCHANGED cacheVars
  /\ UNCHANGED <<lockVars, callVars, reply, freed>>

\* cprec is read again under the write lock; if it is still too small, cache->x
\* is allocated or resized (mpfr_init2, mpfr_set_prec: its value is lost).
Retest(f) ==
  LET c == onto[f]
      grown == GrownPrec(prec[c], dprec[f])
  IN
  /\ pc[f] = "retest"
  /\ IF dprec[f] > prec[c]
     THEN /\ cprec' = [cprec EXCEPT ![f] = grown]
          /\ prec' = [prec EXCEPT ![c] = grown]
          /\ mant' = [mant EXCEPT ![c] = 0]
          /\ Goto(f, "compute")
     ELSE /\ cprec' = [cprec EXCEPT ![f] = prec[c]]
          /\ Goto(f, "w2r")
          /\ UNCHANGED cacheVars
  /\ UNCHANGED <<lockVars, callVars, reply, freed>>

\* cache->func calls mpfr_cache on another constant, at a precision above its own.
CallInner(t, d, p) ==
  /\ pc[Outer(t)] = "compute"
  /\ pc[Inner(t)] = "idle"
  /\ d \in Deps[onto[Outer(t)]]
  /\ p > cprec[Outer(t)]
  /\ onto' = [onto EXCEPT ![Inner(t)] = d]
  /\ dprec' = [dprec EXCEPT ![Inner(t)] = p]
  /\ Goto(Inner(t), "lock")
  /\ UNCHANGED <<cacheVars, lockVars, cprec, reply, freed, calls>>

\* cache->func returns: the value is right unless a constant it read was wrong.
ComputeDone(f) ==
  LET poisoned == f[2] = 1 /\ reply[Inner(f[1])] = "wrong" IN
  /\ pc[f] = "compute"
  /\ f[2] = 1 => pc[Inner(f[1])] = "idle"
  /\ mant' = [mant EXCEPT ![onto[f]] = IF poisoned THEN 0 ELSE cprec[f]]
  /\ reply' = IF f[2] = 1 THEN [reply EXCEPT ![Inner(f[1])] = "none"] ELSE reply
  /\ Goto(f, "w2r")
  /\ UNCHANGED <<prec, lockVars, callVars, cprec, freed>>

\* Mutant: the mutex too is released and taken again.
WriteToReadReleasing(f) ==
  /\ pc[f] = "w2r"
  /\ Release(f, onto[f])
  /\ Goto(f, "relock")
  /\ UNCHANGED <<cacheVars, callVars, cprec, reply, freed>>

\* The first half of MPFR_LOCK_WRITE2READ.
WriteToRead(f) ==
  /\ pc[f] = "w2r"
  /\ IF RWLock
     THEN Release(f, onto[f]) /\ Goto(f, "relock")
     ELSE Goto(f, "copy") /\ UNCHANGED lockVars
  /\ UNCHANGED <<cacheVars, callVars, cprec, reply, freed>>

RelockRead(f) ==
  /\ pc[f] = "relock"
  /\ AcquireRead(f, onto[f])
  /\ Goto(f, "copy")
  /\ UNCHANGED <<cacheVars, callVars, cprec, reply, freed>>

\* MPFR_RNDRAW_GEN rounds the significand of cache->x, taken to be cprec bits
\* long, to dprec bits: the result is right when these bits are there.
Copy(f) ==
  LET right == mant[onto[f]] = cprec[f] /\ cprec[f] >= dprec[f] IN
  /\ pc[f] = "copy"
  /\ reply' = [reply EXCEPT ![f] =
                 IF right /\ @ # "wrong" THEN "right" ELSE "wrong"]
  /\ Goto(f, "unlock")
  /\ UNCHANGED <<cacheVars, lockVars, callVars, cprec, freed>>

\* The call returns and its local variables are gone.  What an inner call
\* delivered stays with the func that made it.
UnlockRead(f) ==
  /\ pc[f] = "unlock"
  /\ Release(f, onto[f])
  /\ Goto(f, "idle")
  /\ onto' = [onto EXCEPT ![f] = NoCache]
  /\ dprec' = [dprec EXCEPT ![f] = 0]
  /\ cprec' = [cprec EXCEPT ![f] = 0]
  /\ reply' = IF f[2] = 1 THEN [reply EXCEPT ![f] = "none"] ELSE reply
  /\ UNCHANGED <<cacheVars, freed, calls>>

-----------------------------------------------------------------------------
(* mpfr_free_const_caches: mpfr_clear_cache on each cache in turn *)

FreeCaches(t) ==
  /\ pc[Outer(t)] = "idle"
  /\ calls[t] > 0
  /\ FreeOrder # <<>>
  /\ calls' = [calls EXCEPT ![t] = @ - 1]
  /\ onto' = [onto EXCEPT ![Outer(t)] = FreeOrder[1]]
  /\ Goto(Outer(t), "ftest")
  /\ UNCHANGED <<cacheVars, lockVars, dprec, cprec, reply, freed>>

\* Mutant: after the last cache the count is not reset.
GoOnFreeingNoReset(t) ==
  /\ freed' = [freed EXCEPT ![t] = @ + 1]
  /\ IF freed[t] + 1 < Len(FreeOrder)
     THEN /\ onto' = [onto EXCEPT ![Outer(t)] = FreeOrder[freed[t] + 2]]
          /\ Goto(Outer(t), "ftest")
     ELSE /\ onto' = [onto EXCEPT ![Outer(t)] = NoCache]
          /\ Goto(Outer(t), "idle")

\* mpfr_clear_cache is through with one cache: the next one, or the end.
GoOnFreeing(t) ==
  IF freed[t] + 1 < Len(FreeOrder)
  THEN /\ freed' = [freed EXCEPT ![t] = @ + 1]
       /\ onto' = [onto EXCEPT ![Outer(t)] = FreeOrder[freed[t] + 2]]
       /\ Goto(Outer(t), "ftest")
  ELSE /\ freed' = [freed EXCEPT ![t] = 0]
       /\ onto' = [onto EXCEPT ![Outer(t)] = NoCache]
       /\ Goto(Outer(t), "idle")

\* The first test of the precision is made without the lock.
ClearTest(t) ==
  /\ pc[Outer(t)] = "ftest"
  /\ IF prec[onto[Outer(t)]] # 0
     THEN Goto(Outer(t), "flock") /\ UNCHANGED <<freed, onto>>
     ELSE GoOnFreeing(t)
  /\ UNCHANGED <<cacheVars, lockVars, dprec, calls, cprec, reply>>

ClearLock(t) ==
  /\ pc[Outer(t)] = "flock"
  /\ AcquireWrite(Outer(t), onto[Outer(t)])
  /\ Goto(Outer(t), "fretest")
  /\ UNCHANGED <<cacheVars, callVars, cprec, reply, freed>>

ClearRetest(t) ==
  /\ pc[Outer(t)] = "fretest"
  /\ IF prec[onto[Outer(t)]] # 0
     THEN /\ prec' = [prec EXCEPT ![onto[Outer(t)]] = 0]
          /\ mant' = [mant EXCEPT ![onto[Outer(t)]] = 0]
     ELSE UNCHANGED cacheVars
  /\ Goto(Outer(t), "funlock")
  /\ UNCHANGED <<lockVars, callVars, cprec, reply, freed>>

ClearUnlock(t) ==
  /\ pc[Outer(t)] = "funlock"
  /\ Release(Outer(t), onto[Outer(t)])
  /\ GoOnFreeing(t)
  /\ UNCHANGED <<cacheVars, dprec, calls, cprec, reply>>

-----------------------------------------------------------------------------
(* The system *)

MpfrCache(f) ==
  \/ LockRead(f) \/ TestPrec(f) \/ ReadToWrite(f) \/ LockWrite(f) \/ Retest(f)
  \/ WriteToRead(f) \/ RelockRead(f) \/ Copy(f) \/ UnlockRead(f)

MpfrFreeConstCaches(t) ==
  ClearTest(t) \/ ClearLock(t) \/ ClearRetest(t) \/ ClearUnlock(t)

\* Every thread has made its calls and they are over.
Finished ==
  /\ \A t \in Threads : pc[Outer(t)] = "idle" /\ calls[t] = 0
  /\ UNCHANGED vars

Next ==
  \/ \E t \in Threads :
       \/ \E c \in Caches, p \in Precs : Call(t, c, p)
       \/ \E d \in Caches, p \in WorkPrecs : CallInner(t, d, p)
       \/ FreeCaches(t)
       \/ MpfrFreeConstCaches(t)
  \/ \E f \in Frames : MpfrCache(f) \/ ComputeDone(f)
  \/ Finished

\* No user has to call.  Every other step is taken once it is possible for good;
\* a func may call mpfr_cache as often as its Ziv loop turns, but the loop ends.
Fairness ==
  /\ \A f \in Frames : WF_vars(MpfrCache(f)) /\ SF_vars(ComputeDone(f))
  /\ \A t \in Threads : WF_vars(MpfrFreeConstCaches(t))

Spec == Init /\ [][Next]_vars /\ Fairness

-----------------------------------------------------------------------------
(* Properties *)

\* Types: a frame is at a place of the code, it works on one cache, and a thread
\* that frees the caches is at one of them.
TypeOK ==
  /\ prec \in [Caches -> Nat]
  /\ mant \in [Caches -> Nat]
  /\ readers \in [Caches -> SUBSET Frames]
  /\ writer \in [Caches -> Frames \cup {NoFrame}]
  /\ pc \in [Frames -> Labels]
  /\ onto \in [Frames -> Caches]
  /\ dprec \in [Frames -> Nat]
  /\ cprec \in [Frames -> Nat]
  /\ reply \in [Frames -> {"none", "right", "wrong"}]
  /\ freed \in [Threads -> 0..Len(FreeOrder)]
  /\ calls \in [Threads -> 0..MaxCalls]

ReadLabels == {"test", "r2w", "copy", "unlock"}
WriteLabels == {"retest", "compute", "w2r", "fretest", "funlock"}

\* No frame reads or changes a cache that another frame is changing: the
\* significand is never read while mpfr_set_prec, func or mpfr_clear work on it
\* (cache.c: everything between MPFR_LOCK_WRITE and the unlock).
NoTornRead ==
  \A f, g \in Frames :
    (f # g /\ onto[f] = onto[g] /\ pc[f] \in WriteLabels)
      => pc[g] \notin ReadLabels \cup WriteLabels

\* A call never shrinks a cache: only mpfr_clear_cache does.  Two threads that
\* race to enlarge the same cache must not undo each other's work (cache.c:
\* "Retest the precision once we get the lock").
ShrinksOnlyWhenCleared ==
  [][\A c \in Caches :
       prec'[c] < prec[c] => \E t \in Threads : pc[Outer(t)] = "fretest" /\ onto[Outer(t)] = c
    ]_vars

\* When nobody holds the write lock, a cache whose func reads no other cache
\* holds a value that is right to the last bit of its precision, or none.
LeafCoherent ==
  \A c \in Caches :
    (Deps[c] = {} /\ ~ \E f \in Frames : onto[f] = c /\ pc[f] = "compute")
      => mant[c] = prec[c]

\* The same for every cache: nothing wrong is ever left in a cache, where every
\* later call of every thread would find it.
CacheCoherent ==
  \A c \in Caches :
    (~ \E f \in Frames : onto[f] = c /\ pc[f] = "compute") => mant[c] = prec[c]

\* cache.c: "now cprec >= dprec is the precision of cache->x", asserted by
\* MPFR_ASSERTD: what was learnt of the cache before the locks were exchanged
\* still holds when its significand is rounded.
CprecIsCurrent ==
  \A f \in Frames :
    pc[f] = "copy" => cprec[f] >= dprec[f] /\ prec[onto[f]] = cprec[f]

\* Every call of a constant or of mpfr_free_cache returns: no two threads wait
\* for each other, and none waits for itself.
CallsReturn ==
  \A t \in Threads : pc[Outer(t)] # "idle" ~> pc[Outer(t)] = "idle"

\* Why exclusion holds: a frame at a label between a lock and its unlock is a
\* holder of that lock, and a writer holds it alone.
LockInv ==
  /\ \A f \in Frames : pc[f] \in WriteLabels => writer[onto[f]] = f
  /\ \A f \in Frames : pc[f] \in ReadLabels =>
       IF RWLock THEN f \in readers[onto[f]] ELSE writer[onto[f]] = f
  /\ \A c \in Caches : writer[c] # NoFrame \/ ~ RWLock => readers[c] = {}

\* With a mutex cprec, once read, is the precision of the cache until the end of
\* the call, so that every cache and every reply stays right.
MutexInv ==
  /\ \A f \in Frames : pc[f] \notin {"wlock", "relock"}
  /\ \A f \in Frames : pc[f] \in {"compute", "w2r", "copy"} =>
       cprec[f] = prec[onto[f]] /\ cprec[f] >= dprec[f]
  /\ CacheCoherent
  /\ \A f \in Frames : reply[f] # "wrong"
  /\ \A t \in Threads :
       reply[Outer(t)] = IF pc[Outer(t)] = "unlock" THEN "right" ELSE "none"

FreeLabels == {"ftest", "flock", "fretest", "funlock"}

\* To a user the caches are not there: a constant is asked for, and after some
\* time the right digits come back.
Service == INSTANCE ConstService WITH
  doing <- [t \in Threads |->
              IF pc[Outer(t)] = "idle" THEN "nothing"
              ELSE IF pc[Outer(t)] \in FreeLabels THEN "free" ELSE "constant"],
  answer <- [t \in Threads |-> reply[Outer(t)]]

ServiceSpec == Service!Spec
=============================================================================
