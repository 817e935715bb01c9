--------------------------- MODULE ConstCacheProofs ---------------------------
(***************************************************************************)
(* Proofs about ConstCache, for every set of threads and caches and every  *)
(* precision: type correctness, exclusion, and no wrong value left in the  *)
(* caches that depend on no other, with either lock; and, with the mutex,  *)
(* that what is rounded is what was tested, that no cache is ever left     *)
(* wrong, and that every step is a step of ConstService.                   *)
(***************************************************************************)
EXTENDS ConstCache, TLAPS

\* The steps of one frame and of one thread, without the quantifiers of Next.
LEMMA NextSteps ==
  ASSUME Next
  PROVE  \/ \E t \in Threads, c \in Caches, p \in Precs : Call(t, c, p)
         \/ \E t \in Threads, d \in Caches, p \in WorkPrecs : CallInner(t, d, p)
         \/ \E t \in Threads : FreeCaches(t) \/ MpfrFreeConstCaches(t)
         \/ \E f \in Frames : MpfrCache(f) \/ ComputeDone(f)
         \/ UNCHANGED vars
BY DEF Next, Finished

LEMMA FrameFacts ==
  /\ \A t \in Threads : Outer(t) \in Frames /\ Inner(t) \in Frames /\ Outer(t) # Inner(t)
  /\ \A f \in Frames : f # NoFrame
  /\ \A f \in Frames : f[2] = 1 => f = Outer(f[1]) /\ f[1] \in Threads
BY ConstCacheAssumption DEF Frames, Outer, Inner

LEMMA GrownPrecNat ==
  ASSUME NEW cp \in Nat, NEW dp \in Nat
  PROVE  GrownPrec(cp, dp) \in Nat /\ GrownPrec(cp, dp) >= dp
<1>1. cp \div 10 \in Nat
  OBVIOUS
<1>2. QED
  BY <1>1 DEF GrownPrec

-----------------------------------------------------------------------------
(* Type correctness *)

LEMMA NoCacheType == NoCache \in Caches
BY ConstCacheAssumption DEF NoCache

LEMMA GotoType ==
  ASSUME TypeOK, NEW f \in Frames, NEW l \in Labels, Goto(f, l)
  PROVE  pc' \in [Frames -> Labels]
BY DEF TypeOK, Goto

LEMMA LockTypes ==
  ASSUME TypeOK, NEW f \in Frames, NEW c \in Caches,
         AcquireRead(f, c) \/ AcquireWrite(f, c) \/ Release(f, c)
  PROVE  /\ readers' \in [Caches -> SUBSET Frames]
         /\ writer' \in [Caches -> Frames \cup {NoFrame}]
<1> USE DEF TypeOK
<1>1. CASE AcquireRead(f, c) /\ RWLock
  <2>1. writer' = writer /\ readers' = [readers EXCEPT ![c] = readers[c] \cup {f}]
    BY <1>1 DEF AcquireRead
  <2>2. readers[c] \cup {f} \in SUBSET Frames
    OBVIOUS
  <2>3. QED
    BY <2>1, <2>2
<1>2. CASE AcquireRead(f, c) /\ ~ RWLock
  BY <1>2 DEF AcquireRead
<1>3. CASE AcquireWrite(f, c)
  BY <1>3 DEF AcquireWrite
<1>4. CASE Release(f, c)
  <2>1. readers' \in [Caches -> SUBSET Frames]
    BY <1>4 DEF Release
  <2>2. writer' = [writer EXCEPT ![c] = IF @ = f THEN NoFrame ELSE @]
    BY <1>4 DEF Release
  <2>3. (IF writer[c] = f THEN NoFrame ELSE writer[c]) \in Frames \cup {NoFrame}
    OBVIOUS
  <2>4. QED
    BY <2>1, <2>2, <2>3
<1>5. QED
  BY <1>1, <1>2, <1>3, <1>4

\* mpfr_cache and mpfr_clear_cache keep every variable in its type, whatever the
\* threads, caches and precisions.
THEOREM TypeCorrect == Spec => []TypeOK
<1>1. Init => TypeOK
  BY NoCacheType, ConstCacheAssumption DEF Init, TypeOK, Labels
<1>2. TypeOK /\ [Next]_vars => TypeOK'
  <2> SUFFICES ASSUME TypeOK, [Next]_vars
               PROVE  TypeOK'
    OBVIOUS
  <2>1. ASSUME NEW t \in Threads, NEW c \in Caches, NEW p \in Precs, Call(t, c, p)
        PROVE  TypeOK'
    <3>1. Outer(t) \in Frames /\ p \in Nat /\ MaxCalls \in Nat
      BY FrameFacts, ConstCacheAssumption
    <3>2. calls' \in [Threads -> 0..MaxCalls]
      BY <2>1, <3>1 DEF Call, TypeOK
    <3>3. onto' \in [Frames -> Caches] /\ dprec' \in [Frames -> Nat]
      BY <2>1, <3>1 DEF Call, TypeOK
    <3>4. pc' \in [Frames -> Labels]
      BY <2>1, <3>1, GotoType DEF Call, Labels
    <3>5. QED
      BY <2>1, <3>2, <3>3, <3>4 DEF Call, TypeOK, cacheVars, lockVars
  <2>2. ASSUME NEW t \in Threads, NEW d \in Caches, NEW p \in WorkPrecs, CallInner(t, d, p)
        PROVE  TypeOK'
    <3>1. Inner(t) \in Frames /\ p \in Nat
      BY FrameFacts, ConstCacheAssumption
    <3>2. pc' \in [Frames -> Labels]
      BY <2>2, <3>1, GotoType DEF CallInner, Labels
    <3>3. QED
      BY <2>2, <3>1, <3>2 DEF CallInner, TypeOK, cacheVars, lockVars
  <2>3. ASSUME NEW t \in Threads, FreeCaches(t)
        PROVE  TypeOK'
    <3>1. Outer(t) \in Frames /\ FreeOrder \in Seq(Caches) /\ MaxCalls \in Nat
      BY FrameFacts, ConstCacheAssumption
    <3>2. calls' \in [Threads -> 0..MaxCalls]
      BY SMTT(60), <2>3, <3>1 DEF FreeCaches, TypeOK
    <3>3. FreeOrder[1] \in Caches
      BY <2>3, <3>1 DEF FreeCaches
    <3>4. pc' \in [Frames -> Labels]
      BY <2>3, <3>1, GotoType DEF FreeCaches, Labels
    <3>5. QED
      BY <2>3, <3>1, <3>2, <3>3, <3>4 DEF FreeCaches, TypeOK, cacheVars, lockVars
  <2>4. ASSUME NEW t \in Threads, MpfrFreeConstCaches(t)
        PROVE  TypeOK'
    <3>0. Outer(t) \in Frames /\ onto[Outer(t)] \in Caches
      BY FrameFacts DEF TypeOK
    <3>1. ASSUME GoOnFreeing(t)
          PROVE  /\ onto' \in [Frames -> Caches]
                 /\ freed' \in [Threads -> 0..Len(FreeOrder)]
                 /\ pc' \in [Frames -> Labels]
      <4>1. FreeOrder \in Seq(Caches) /\ Len(FreeOrder) \in Nat /\ freed[t] \in Nat
        BY ConstCacheAssumption DEF TypeOK
      <4>2. CASE freed[t] + 1 < Len(FreeOrder)
        <5>1. FreeOrder[freed[t] + 2] \in Caches
          BY <4>1, <4>2
        <5>2. freed' \in [Threads -> 0..Len(FreeOrder)]
          <6>1. freed' = [freed EXCEPT ![t] = freed[t] + 1]
            BY <3>1, <4>2 DEF GoOnFreeing
          <6>2. freed[t] + 1 \in 0..Len(FreeOrder)
            BY <4>1, <4>2
          <6>3. QED
            BY <6>1, <6>2 DEF TypeOK
        <5>3. QED
          BY <3>0, <3>1, <4>2, <5>1, <5>2, GotoType DEF GoOnFreeing, TypeOK, Labels
      <4>3. CASE ~ (freed[t] + 1 < Len(FreeOrder))
        <5>1. freed' \in [Threads -> 0..Len(FreeOrder)]
          <6>1. freed' = [freed EXCEPT ![t] = 0] /\ 0 \in 0..Len(FreeOrder)
            BY <3>1, <4>1, <4>3 DEF GoOnFreeing
          <6>2. QED
            BY <6>1 DEF TypeOK
        <5>2. QED
          BY <3>0, <3>1, <4>3, <5>1, NoCacheType, GotoType DEF GoOnFreeing, TypeOK, Labels
      <4>4. QED
        BY <4>2, <4>3
    <3>2. CASE ClearTest(t)
      <4>1. pc' \in [Frames -> Labels]
        BY <3>0, <3>1, <3>2, GotoType DEF ClearTest, Labels
      <4>2. QED
        BY <3>1, <3>2, <4>1 DEF ClearTest, TypeOK, cacheVars, lockVars
    <3>3. CASE ClearLock(t)
      <4>1. pc' \in [Frames -> Labels]
        BY <3>0, <3>3, GotoType DEF ClearLock, Labels
      <4>2. QED
        BY <3>0, <3>3, <4>1, LockTypes DEF ClearLock, TypeOK, cacheVars, callVars
    <3>4. CASE ClearRetest(t)
      <4>1. pc' \in [Frames -> Labels]
        BY <3>0, <3>4, GotoType DEF ClearRetest, Labels
      <4>2. prec' \in [Caches -> Nat] /\ mant' \in [Caches -> Nat]
        <5>1. CASE prec' = prec /\ mant' = mant
          BY <5>1 DEF TypeOK
        <5>2. CASE /\ prec' = [prec EXCEPT ![onto[Outer(t)]] = 0]
                   /\ mant' = [mant EXCEPT ![onto[Outer(t)]] = 0]
          BY <5>2 DEF TypeOK
        <5>3. QED
          BY <3>4, <5>1, <5>2 DEF ClearRetest, cacheVars
      <4>3. QED
        BY <3>0, <3>4, <4>1, <4>2 DEF ClearRetest, TypeOK, lockVars, callVars
    <3>5. CASE ClearUnlock(t)
      BY <3>0, <3>1, <3>5, LockTypes DEF ClearUnlock, TypeOK, cacheVars
    <3>6. QED
      BY <2>4, <3>2, <3>3, <3>4, <3>5 DEF MpfrFreeConstCaches
  <2>5. ASSUME NEW f \in Frames, MpfrCache(f)
        PROVE  TypeOK'
    <3>0. onto[f] \in Caches
      BY DEF TypeOK
    <3>1. pc' \in [Frames -> Labels]
      BY <2>5, GotoType DEF MpfrCache, LockRead, TestPrec, ReadToWrite, LockWrite, Retest,
           WriteToRead, RelockRead, Copy, UnlockRead, Labels
    <3>2. /\ readers' \in [Caches -> SUBSET Frames]
          /\ writer' \in [Caches -> Frames \cup {NoFrame}]
      <4>1. \/ UNCHANGED lockVars
            \/ AcquireRead(f, onto[f]) \/ AcquireWrite(f, onto[f]) \/ Release(f, onto[f])
        BY <2>5 DEF MpfrCache, LockRead, TestPrec, ReadToWrite, LockWrite, Retest,
             WriteToRead, RelockRead, Copy, UnlockRead
      <4>2. QED
        BY <3>0, <4>1, LockTypes DEF TypeOK, lockVars
    <3>3. CASE LockRead(f)
      BY <3>1, <3>2, <3>3 DEF LockRead, TypeOK, cacheVars, callVars
    <3>4. CASE TestPrec(f)
      BY <3>1, <3>2, <3>4 DEF TestPrec, TypeOK, cacheVars, callVars
    <3>5. CASE ReadToWrite(f)
      BY <3>1, <3>2, <3>5 DEF ReadToWrite, TypeOK, cacheVars, callVars
    <3>6. CASE LockWrite(f)
      BY <3>1, <3>2, <3>6 DEF LockWrite, TypeOK, cacheVars, callVars
    <3>7. CASE Retest(f)
      <4>1. GrownPrec(prec[onto[f]], dprec[f]) \in Nat
        BY <3>0, GrownPrecNat DEF TypeOK
      <4>2. CASE dprec[f] > prec[onto[f]]
        <5> DEFINE grown == GrownPrec(prec[onto[f]], dprec[f])
        <5>1. /\ cprec' = [cprec EXCEPT ![f] = grown]
              /\ prec' = [prec EXCEPT ![onto[f]] = grown]
              /\ mant' = [mant EXCEPT ![onto[f]] = 0]
              /\ UNCHANGED <<callVars, reply, freed>>
          BY <3>7, <4>2 DEF Retest
        <5>2. grown \in Nat
          BY <4>1
        <5> HIDE DEF grown
        <5>3. QED
          BY <3>1, <3>2, <5>1, <5>2 DEF TypeOK, callVars
      <4>3. CASE ~ (dprec[f] > prec[onto[f]])
        BY <3>0, <3>1, <3>2, <3>7, <4>3 DEF Retest, TypeOK, cacheVars, callVars
      <4>4. QED
        BY <4>2, <4>3
    <3>8. CASE WriteToRead(f)
      BY <3>1, <3>2, <3>8 DEF WriteToRead, TypeOK, cacheVars, callVars
    <3>9. CASE RelockRead(f)
      BY <3>1, <3>2, <3>9 DEF RelockRead, TypeOK, cacheVars, callVars
    <3>10. CASE Copy(f)
      BY <3>1, <3>2, <3>10 DEF Copy, TypeOK, cacheVars, callVars
    <3>11. CASE UnlockRead(f)
      BY <3>1, <3>2, <3>11, NoCacheType DEF UnlockRead, TypeOK, cacheVars
    <3>12. QED
      BY <2>5, <3>3, <3>4, <3>5, <3>6, <3>7, <3>8, <3>9, <3>10, <3>11 DEF MpfrCache
  <2>6. ASSUME NEW f \in Frames, ComputeDone(f)
        PROVE  TypeOK'
    <3>1. pc' \in [Frames -> Labels]
      BY <2>6, GotoType DEF ComputeDone, Labels
    <3>2. reply' \in [Frames -> {"none", "right", "wrong"}]
      BY <2>6, FrameFacts DEF ComputeDone, TypeOK
    <3>3. QED
      BY <2>6, <3>1, <3>2 DEF ComputeDone, TypeOK, lockVars, callVars
  <2>7. CASE UNCHANGED vars
    BY <2>7 DEF vars, TypeOK
  <2>8. QED
    BY <2>1, <2>2, <2>3, <2>4, <2>5, <2>6, <2>7, NextSteps
<1>3. QED
  BY <1>1, <1>2, PTL DEF Spec

-----------------------------------------------------------------------------
(* Exclusion *)

\* A frame that takes a lock, keeps it or gives it back keeps LockInv, if the
\* label it goes to is one at which it holds what it then has.
LEMMA LockKept ==
  ASSUME TypeOK, LockInv, NEW f \in Frames, NEW l \in Labels,
         NEW c \in Caches, c = onto[f],
         pc' = [pc EXCEPT ![f] = l],
         NEW d \in Caches, onto' = [onto EXCEPT ![f] = d],
         \/ /\ UNCHANGED lockVars
            /\ d = c
            /\ l \in WriteLabels => pc[f] \in WriteLabels \/ (~ RWLock /\ pc[f] \in ReadLabels)
            /\ l \in ReadLabels => pc[f] \in ReadLabels \/ (~ RWLock /\ pc[f] \in WriteLabels)
         \/ UNCHANGED lockVars /\ l \notin ReadLabels \cup WriteLabels
         \/ AcquireRead(f, c) /\ d = c /\ l \in ReadLabels
         \/ AcquireWrite(f, c) /\ d = c /\ l \in WriteLabels
         \/ Release(f, c) /\ l \notin ReadLabels \cup WriteLabels
  PROVE  LockInv'
<1>1. /\ pc'[f] = l /\ onto'[f] = d
      /\ \A g \in Frames \ {f} : pc'[g] = pc[g] /\ onto'[g] = onto[g]
      /\ \A g \in Frames : onto[g] \in Caches /\ g # NoFrame
  BY FrameFacts DEF TypeOK
<1>2. CASE /\ UNCHANGED lockVars
          /\ \/ l \notin ReadLabels \cup WriteLabels
             \/ /\ d = c
                /\ l \in WriteLabels => pc[f] \in WriteLabels \/ (~ RWLock /\ pc[f] \in ReadLabels)
                /\ l \in ReadLabels => pc[f] \in ReadLabels \/ (~ RWLock /\ pc[f] \in WriteLabels)
  <2>1. /\ \A g \in Frames \ {f} : pc'[g] = pc[g] /\ onto'[g] = onto[g]
        /\ readers' = readers /\ writer' = writer
    BY <1>1, <1>2 DEF lockVars
  <2>2. CASE l \notin ReadLabels \cup WriteLabels
    BY <1>1, <2>1, <2>2 DEF LockInv
  <2>3. CASE l \in ReadLabels \cup WriteLabels
    BY <1>1, <1>2, <2>1, <2>3 DEF LockInv
  <2>4. QED
    BY <2>2, <2>3
<1>3. CASE AcquireRead(f, c) /\ d = c /\ l \in ReadLabels
  <2>1. l \notin WriteLabels /\ writer[c] = NoFrame
    BY <1>3 DEF AcquireRead, ReadLabels, WriteLabels
  <2>2. CASE RWLock
    <3>0. writer' = writer /\ readers' = [readers EXCEPT ![c] = @ \cup {f}]
      BY <1>3, <2>2 DEF AcquireRead
    <3>1. /\ writer' = writer
          /\ f \in readers'[c]
          /\ \A e \in Caches, g \in Frames : g \in readers[e] => g \in readers'[e]
          /\ \A e \in Caches \ {c} : readers'[e] = readers[e]
      BY <3>0 DEF TypeOK
    <3>2. QED
      BY <1>1, <1>3, <2>1, <2>2, <3>1 DEF LockInv
  <2>3. CASE ~ RWLock
    <3>1. /\ readers' = readers
          /\ writer'[c] = f
          /\ \A e \in Caches \ {c} : writer'[e] = writer[e]
      BY <1>3, <2>3 DEF AcquireRead, TypeOK
    <3>2. \A g \in Frames \ {f} :
            pc[g] \in ReadLabels \cup WriteLabels => onto[g] # c
      BY <1>1, <2>1, <2>3 DEF LockInv
    <3>4. QED
      BY <1>1, <1>3, <2>1, <2>3, <3>1, <3>2 DEF LockInv
  <2>4. QED
    BY <2>2, <2>3
<1>4. CASE AcquireWrite(f, c) /\ d = c /\ l \in WriteLabels
  <2>1. l \notin ReadLabels /\ writer[c] = NoFrame /\ readers[c] = {}
    BY <1>4 DEF AcquireWrite, ReadLabels, WriteLabels
  <2>2. /\ readers' = readers
        /\ writer'[c] = f
        /\ \A e \in Caches \ {c} : writer'[e] = writer[e]
    BY <1>4 DEF AcquireWrite, TypeOK
  <2>3. QED
    BY <1>1, <1>4, <2>1, <2>2 DEF LockInv
<1>5. CASE Release(f, c) /\ l \notin ReadLabels \cup WriteLabels
  <2>1. \A g \in Frames \ {f}, e \in Caches :
          /\ writer[e] = g => writer'[e] = g
          /\ g \in readers[e] => g \in readers'[e]
    BY <1>1, <1>5 DEF Release, TypeOK
  <2>2. \A e \in Caches : writer'[e] # NoFrame \/ ~ RWLock => readers'[e] = {}
    BY <1>5 DEF Release, LockInv, TypeOK
  <2>3. QED
    BY <1>1, <1>5, <2>1, <2>2 DEF LockInv
<1>6. QED
  BY <1>2, <1>3, <1>4, <1>5

\* The holders of a lock are the frames between its acquisition and its release,
\* and a writer is alone.
LEMMA LockInvariant == Spec => []LockInv
<1>1. Init => LockInv
  BY DEF Init, LockInv, ReadLabels, WriteLabels
<1>2. TypeOK /\ LockInv /\ [Next]_vars => LockInv'
  <2> SUFFICES ASSUME TypeOK, LockInv, Next
               PROVE  LockInv'
    BY DEF vars, LockInv
  <2> USE DEF Labels, ReadLabels, WriteLabels
  <2>1. ASSUME NEW t \in Threads, NEW c \in Caches, NEW p \in Precs, Call(t, c, p)
        PROVE  LockInv'
    <3>1. /\ pc' = [pc EXCEPT ![Outer(t)] = "lock"]
          /\ onto' = [onto EXCEPT ![Outer(t)] = c]
          /\ UNCHANGED lockVars
      BY <2>1 DEF Call, Goto
    <3>2. Outer(t) \in Frames /\ onto[Outer(t)] \in Caches
      BY FrameFacts DEF TypeOK
    <3>3. QED
      BY <3>1, <3>2, LockKept
  <2>2. ASSUME NEW t \in Threads, NEW d \in Caches, NEW p \in WorkPrecs, CallInner(t, d, p)
        PROVE  LockInv'
    <3>1. /\ pc' = [pc EXCEPT ![Inner(t)] = "lock"]
          /\ onto' = [onto EXCEPT ![Inner(t)] = d]
          /\ UNCHANGED lockVars
      BY <2>2 DEF CallInner, Goto
    <3>2. Inner(t) \in Frames /\ onto[Inner(t)] \in Caches
      BY FrameFacts DEF TypeOK
    <3>3. QED
      BY <3>1, <3>2, LockKept
  <2>3. ASSUME NEW t \in Threads, FreeCaches(t) \/ MpfrFreeConstCaches(t)
        PROVE  LockInv'
    <3> DEFINE f == Outer(t)
    <3>1. f \in Frames /\ onto[f] \in Caches /\ NoCache \in Caches /\ freed[t] \in Nat
      BY FrameFacts, NoCacheType DEF TypeOK
    <3>2. ASSUME GoOnFreeing(t)
          PROVE  \E l \in {"ftest", "idle"}, d \in Caches :
                   pc' = [pc EXCEPT ![f] = l] /\ onto' = [onto EXCEPT ![f] = d]
      <4>1. CASE freed[t] + 1 < Len(FreeOrder)
        <5>1. FreeOrder[freed[t] + 2] \in Caches
          BY <3>1, <4>1, ConstCacheAssumption
        <5>2. QED
          BY <3>2, <4>1, <5>1 DEF GoOnFreeing, Goto
      <4>2. CASE ~ (freed[t] + 1 < Len(FreeOrder))
        BY <3>1, <3>2, <4>2 DEF GoOnFreeing, Goto
      <4>3. QED
        BY <4>1, <4>2
    <3>3. CASE FreeCaches(t)
      <4>1. FreeOrder[1] \in Caches
        BY <3>3, ConstCacheAssumption DEF FreeCaches
      <4>2. /\ pc' = [pc EXCEPT ![f] = "ftest"]
            /\ onto' = [onto EXCEPT ![f] = FreeOrder[1]]
            /\ UNCHANGED lockVars
        BY <3>3 DEF FreeCaches, Goto
      <4> HIDE DEF f
      <4>3. QED
        BY <3>1, <4>1, <4>2, LockKept
    <3>4. CASE ClearTest(t)
      <4>1. CASE GoOnFreeing(t)
        <5>1. UNCHANGED lockVars
          BY <3>4 DEF ClearTest
        <5>2. QED
          BY <3>1, <3>2, <4>1, <5>1, LockKept
      <4>2. CASE Goto(f, "flock") /\ UNCHANGED <<freed, onto>>
        <5>1. /\ pc' = [pc EXCEPT ![f] = "flock"]
              /\ onto' = [onto EXCEPT ![f] = onto[f]]
              /\ UNCHANGED lockVars
          BY <3>4, <4>2 DEF ClearTest, Goto, TypeOK
        <5>2. QED
          BY <3>1, <5>1, LockKept
      <4>3. QED
        BY <3>4, <4>1, <4>2 DEF ClearTest
    <3>5. CASE ClearLock(t)
      <4>1. /\ pc' = [pc EXCEPT ![f] = "fretest"]
            /\ onto' = [onto EXCEPT ![f] = onto[f]]
            /\ AcquireWrite(f, onto[f])
        BY <3>5 DEF ClearLock, Goto, TypeOK, callVars
      <4>2. QED
        BY <3>1, <4>1, LockKept
    <3>6. CASE ClearRetest(t)
      <4>1. /\ pc[f] = "fretest"
            /\ pc' = [pc EXCEPT ![f] = "funlock"]
            /\ onto' = [onto EXCEPT ![f] = onto[f]]
            /\ UNCHANGED lockVars
        BY <3>6 DEF ClearRetest, Goto, TypeOK, callVars
      <4>2. QED
        BY <3>1, <4>1, LockKept
    <3>7. CASE ClearUnlock(t)
      <4>1. Release(f, onto[f]) /\ GoOnFreeing(t)
        BY <3>7 DEF ClearUnlock
      <4>2. QED
        BY <3>1, <3>2, <4>1, LockKept
    <3>8. QED
      BY <2>3, <3>3, <3>4, <3>5, <3>6, <3>7 DEF MpfrFreeConstCaches
  <2>4. ASSUME NEW f \in Frames, MpfrCache(f) \/ ComputeDone(f)
        PROVE  LockInv'
    <3> DEFINE Stays(l) == pc' = [pc EXCEPT ![f] = l] /\ onto' = [onto EXCEPT ![f] = onto[f]]
    <3>0. onto[f] \in Caches /\ NoCache \in Caches
      BY NoCacheType DEF TypeOK
    <3> USE <3>0, LockKept
    <3>1. CASE LockRead(f)
      <4>1. Stays("test") /\ AcquireRead(f, onto[f])
        BY <3>1 DEF LockRead, Goto, TypeOK, callVars
      <4>2. QED
        BY <4>1
    <3>2. CASE TestPrec(f)
      <4>1. pc[f] = "test" /\ (Stays("r2w") \/ Stays("copy")) /\ UNCHANGED lockVars
        BY <3>2 DEF TestPrec, Goto, TypeOK, callVars
      <4>2. QED
        BY <4>1
    <3>3. CASE ReadToWrite(f)
      <4>1. \/ Stays("wlock") /\ Release(f, onto[f])
            \/ pc[f] = "r2w" /\ ~ RWLock /\ Stays("retest") /\ UNCHANGED lockVars
        BY <3>3 DEF ReadToWrite, Goto, TypeOK, callVars
      <4>2. QED
        BY <4>1
    <3>4. CASE LockWrite(f)
      <4>1. Stays("retest") /\ AcquireWrite(f, onto[f])
        BY <3>4 DEF LockWrite, Goto, TypeOK, callVars
      <4>2. QED
        BY <4>1
    <3>5. CASE Retest(f)
      <4>1. pc[f] = "retest" /\ (Stays("compute") \/ Stays("w2r")) /\ UNCHANGED lockVars
        BY <3>5 DEF Retest, Goto, TypeOK, callVars
      <4>2. QED
        BY <4>1
    <3>6. CASE ComputeDone(f)
      <4>1. pc[f] = "compute" /\ Stays("w2r") /\ UNCHANGED lockVars
        BY <3>6 DEF ComputeDone, Goto, TypeOK, callVars
      <4>2. QED
        BY <4>1
    <3>7. CASE WriteToRead(f)
      <4>1. \/ Stays("relock") /\ Release(f, onto[f])
            \/ pc[f] = "w2r" /\ ~ RWLock /\ Stays("copy") /\ UNCHANGED lockVars
        BY <3>7 DEF WriteToRead, Goto, TypeOK, callVars
      <4>2. QED
        BY <4>1
    <3>8. CASE RelockRead(f)
      <4>1. Stays("copy") /\ AcquireRead(f, onto[f])
        BY <3>8 DEF RelockRead, Goto, TypeOK, callVars
      <4>2. QED
        BY <4>1
    <3>9. CASE Copy(f)
      <4>1. pc[f] = "copy" /\ Stays("unlock") /\ UNCHANGED lockVars
        BY <3>9 DEF Copy, Goto, TypeOK, callVars
      <4>2. QED
        BY <4>1
    <3>10. CASE UnlockRead(f)
      <4>1. /\ pc' = [pc EXCEPT ![f] = "idle"]
            /\ onto' = [onto EXCEPT ![f] = NoCache]
            /\ Release(f, onto[f])
        BY <3>10 DEF UnlockRead, Goto
      <4>2. QED
        BY <4>1
    <3>11. QED
      BY <2>4, <3>1, <3>2, <3>3, <3>4, <3>5, <3>6, <3>7, <3>8, <3>9, <3>10 DEF MpfrCache
  <2>5. CASE UNCHANGED vars
    BY <2>5 DEF vars, LockInv
  <2>6. QED
    BY <2>1, <2>2, <2>3, <2>4, <2>5, NextSteps
<1>3. QED
  BY <1>1, <1>2, TypeCorrect, PTL DEF Spec

LEMMA LockInvExcludes ==
  ASSUME TypeOK, LockInv
  PROVE  NoTornRead
<1>1. ASSUME NEW f \in Frames, NEW g \in Frames,
             f # g, onto[f] = onto[g], pc[f] \in WriteLabels,
             pc[g] \in ReadLabels \cup WriteLabels
      PROVE  FALSE
  <2>1. onto[f] \in Caches /\ f # NoFrame
    BY <1>1, FrameFacts DEF TypeOK
  <2>2. writer[onto[f]] = f /\ readers[onto[f]] = {}
    BY <1>1, <2>1 DEF LockInv
  <2>3. QED
    BY <1>1, <2>1, <2>2 DEF LockInv
<1>2. QED
  BY <1>1 DEF NoTornRead

\* Nobody reads or changes a cache that another call is changing, for any number
\* of threads and with either lock.
THEOREM Exclusion == Spec => []NoTornRead
BY LockInvExcludes, TypeCorrect, LockInvariant, PTL

-----------------------------------------------------------------------------
(* With the mutex, what is rounded is what was tested *)

\* A step that changes no cache, no cprec and no reply keeps MutexInv, if it does
\* not enter or leave a computation.
LEMMA QuietStep ==
  ASSUME TypeOK, MutexInv, NEW f \in Frames, NEW l \in Labels, NEW d \in Caches,
         pc' = [pc EXCEPT ![f] = l],
         onto' = [onto EXCEPT ![f] = d],
         UNCHANGED <<prec, mant, cprec, reply>>,
         \A g \in Frames \ {f} : dprec'[g] = dprec[g],
         pc[f] \notin {"compute", "unlock"},
         l \notin {"compute", "unlock", "wlock", "relock"},
         l \in {"w2r", "copy"} =>
           pc[f] \in {"w2r", "copy"} /\ d = onto[f] /\ dprec'[f] = dprec[f]
  PROVE  MutexInv'
<1>1. /\ pc'[f] = l /\ onto'[f] = d
      /\ \A g \in Frames \ {f} : pc'[g] = pc[g] /\ onto'[g] = onto[g]
  BY DEF TypeOK
<1>2. \A g \in Frames : pc'[g] \notin {"wlock", "relock"}
  BY <1>1 DEF MutexInv
<1>3. \A g \in Frames : pc'[g] \in {"compute", "w2r", "copy"} =>
        cprec'[g] = prec'[onto'[g]] /\ cprec'[g] >= dprec'[g]
  BY <1>1 DEF MutexInv
<1>4. CacheCoherent'
  <2>1. \A g \in Frames : pc[g] = "compute" => pc'[g] = "compute" /\ onto'[g] = onto[g]
    BY <1>1
  <2>2. QED
    BY <2>1 DEF MutexInv, CacheCoherent
<1>5. \A g \in Frames : reply'[g] # "wrong"
  BY DEF MutexInv
<1>6. \A t \in Threads : reply'[Outer(t)] = IF pc'[Outer(t)] = "unlock" THEN "right" ELSE "none"
  BY <1>1, FrameFacts DEF MutexInv
<1>7. QED
  BY <1>2, <1>3, <1>4, <1>5, <1>6 DEF MutexInv

\* With the mutex nothing changes between the test of the precision and the
\* rounding, so that MutexInv is inductive.
LEMMA MutexInvariant ==
  ASSUME ~ RWLock
  PROVE  Spec => []MutexInv
<1>1. Init => MutexInv
  BY FrameFacts DEF Init, MutexInv, CacheCoherent
<1>2. TypeOK /\ LockInv /\ MutexInv /\ [Next]_vars => MutexInv'
  <2> SUFFICES ASSUME TypeOK, LockInv, MutexInv, [Next]_vars
               PROVE  MutexInv'
    OBVIOUS
  <2>0. NoTornRead
    BY LockInvExcludes
  <2>1. ASSUME NEW t \in Threads, NEW c \in Caches, NEW p \in Precs, Call(t, c, p)
        PROVE  MutexInv'
    <3>1. /\ pc' = [pc EXCEPT ![Outer(t)] = "lock"]
          /\ onto' = [onto EXCEPT ![Outer(t)] = c]
          /\ UNCHANGED <<prec, mant, cprec, reply>>
          /\ \A g \in Frames \ {Outer(t)} : dprec'[g] = dprec[g]
          /\ pc[Outer(t)] = "idle"
      BY <2>1 DEF Call, Goto, cacheVars, TypeOK
    <3>2. Outer(t) \in Frames
      BY FrameFacts
    <3>3. QED
      BY <3>1, <3>2, QuietStep DEF Labels
  <2>2. ASSUME NEW t \in Threads, NEW d \in Caches, NEW p \in WorkPrecs, CallInner(t, d, p)
        PROVE  MutexInv'
    <3>1. /\ pc' = [pc EXCEPT ![Inner(t)] = "lock"]
          /\ onto' = [onto EXCEPT ![Inner(t)] = d]
          /\ UNCHANGED <<prec, mant, cprec, reply>>
          /\ \A g \in Frames \ {Inner(t)} : dprec'[g] = dprec[g]
          /\ pc[Inner(t)] = "idle"
      BY <2>2 DEF CallInner, Goto, cacheVars, TypeOK
    <3>2. Inner(t) \in Frames
      BY FrameFacts
    <3>3. QED
      BY <3>1, <3>2, QuietStep DEF Labels
  <2>3. ASSUME NEW t \in Threads, FreeCaches(t) \/ MpfrFreeConstCaches(t)
        PROVE  MutexInv'
    <3> DEFINE f == Outer(t)
    <3>1. f \in Frames /\ onto[f] \in Caches /\ NoCache \in Caches /\ freed[t] \in Nat
      BY FrameFacts, NoCacheType DEF TypeOK
    <3>2. ASSUME GoOnFreeing(t)
          PROVE  \E l \in {"ftest", "idle"}, d \in Caches :
                   pc' = [pc EXCEPT ![f] = l] /\ onto' = [onto EXCEPT ![f] = d]
      <4>1. CASE freed[t] + 1 < Len(FreeOrder)
        <5>1. FreeOrder[freed[t] + 2] \in Caches
          BY <3>1, <4>1, ConstCacheAssumption
        <5>2. QED
          BY <3>2, <4>1, <5>1 DEF GoOnFreeing, Goto
      <4>2. CASE ~ (freed[t] + 1 < Len(FreeOrder))
        BY <3>1, <3>2, <4>2 DEF GoOnFreeing, Goto
      <4>3. QED
        BY <4>1, <4>2
    <3>3. CASE ~ ClearRetest(t)
      <4>1. /\ UNCHANGED <<prec, mant, cprec, reply, dprec>>
            /\ pc[f] \notin {"compute", "unlock"}
        <5>1. CASE FreeCaches(t)
          BY <5>1 DEF FreeCaches, cacheVars
        <5>2. CASE ClearTest(t)
          BY <5>2 DEF ClearTest, cacheVars
        <5>3. CASE ClearLock(t)
          BY <5>3 DEF ClearLock, cacheVars, callVars
        <5>4. CASE ClearUnlock(t)
          BY <5>4 DEF ClearUnlock, cacheVars
        <5>5. QED
          BY <2>3, <3>3, <5>1, <5>2, <5>3, <5>4 DEF MpfrFreeConstCaches
      <4>2. \E l \in {"ftest", "idle", "flock", "fretest"}, d \in Caches :
              pc' = [pc EXCEPT ![f] = l] /\ onto' = [onto EXCEPT ![f] = d]
        <5>1. CASE FreeCaches(t)
          <6>1. FreeOrder[1] \in Caches
            BY <5>1, ConstCacheAssumption DEF FreeCaches
          <6>2. QED
            BY <5>1, <6>1 DEF FreeCaches, Goto
        <5>2. CASE GoOnFreeing(t)
          BY <3>2, <5>2
        <5>3. CASE (Goto(f, "flock") \/ Goto(f, "fretest")) /\ UNCHANGED onto
          <6>1. onto' = [onto EXCEPT ![f] = onto[f]]
            BY <5>3 DEF TypeOK
          <6>2. QED
            BY <3>1, <5>3, <6>1 DEF Goto
        <5>4. QED
          BY <2>3, <3>3, <5>1, <5>2, <5>3
            DEF MpfrFreeConstCaches, ClearTest, ClearLock, ClearUnlock, callVars
      <4>3. QED
        BY <3>1, <4>1, <4>2, QuietStep DEF Labels
    <3>4. CASE ClearRetest(t)
      <4>1. /\ pc[f] = "fretest" /\ pc'[f] = "funlock"
            /\ \A g \in Frames \ {f} : pc'[g] = pc[g]
            /\ UNCHANGED <<onto, dprec, cprec, reply>>
            /\ prec'[onto[f]] = 0
            /\ mant'[onto[f]] = 0 \/ (mant'[onto[f]] = mant[onto[f]] /\ prec[onto[f]] = 0)
            /\ \A c \in Caches \ {onto[f]} : prec'[c] = prec[c] /\ mant'[c] = mant[c]
        BY <3>1, <3>4 DEF ClearRetest, Goto, cacheVars, callVars, TypeOK
      <4>2. \A g \in Frames \ {f} : onto[g] = onto[f] => pc[g] \notin {"compute", "w2r", "copy"}
        BY <2>0, <3>1, <4>1 DEF NoTornRead, WriteLabels, ReadLabels
      <4>3. \A g \in Frames : onto[g] \in Caches
        BY DEF TypeOK
      <4>4. \A g \in Frames : pc'[g] \in {"compute", "w2r", "copy"} =>
              cprec'[g] = prec'[onto'[g]] /\ cprec'[g] >= dprec'[g]
        BY <4>1, <4>2, <4>3 DEF MutexInv
      <4>5. CacheCoherent'
        BY <4>1, <4>2 DEF MutexInv, CacheCoherent
      <4>6. QED
        BY <4>1, <4>4, <4>5, FrameFacts DEF MutexInv
    <3>5. QED
      BY <3>3, <3>4
  <2>4. ASSUME NEW f \in Frames, MpfrCache(f) \/ ComputeDone(f)
        PROVE  MutexInv'
    <3> DEFINE Stays(l) == pc' = [pc EXCEPT ![f] = l] /\ onto' = [onto EXCEPT ![f] = onto[f]]
               Quiet == UNCHANGED <<prec, mant, cprec, reply, dprec>>
               c == onto[f]
    <3>0. /\ c \in Caches /\ NoCache \in Caches
          /\ \A g \in Frames : onto[g] \in Caches
          /\ pc[f] \notin {"wlock", "relock"}
      BY NoCacheType DEF TypeOK, MutexInv
    <3>1. CASE LockRead(f)
      <4>1. pc[f] = "lock" /\ Stays("test") /\ Quiet
        BY <3>1 DEF LockRead, Goto, TypeOK, callVars, cacheVars
      <4>2. QED
        BY <3>0, <4>1, QuietStep DEF Labels
    <3>2. CASE TestPrec(f)
      <4>1. /\ pc[f] = "test" /\ pc'[f] \in {"r2w", "copy"}
            /\ pc'[f] = "copy" => prec[c] >= dprec[f]
            /\ cprec'[f] = prec[c]
            /\ \A g \in Frames \ {f} : pc'[g] = pc[g] /\ cprec'[g] = cprec[g]
            /\ UNCHANGED <<prec, mant, reply, onto, dprec>>
        BY <3>0, <3>2 DEF TestPrec, Goto, TypeOK, callVars, cacheVars
      <4>2. CacheCoherent'
        BY <4>1 DEF MutexInv, CacheCoherent
      <4>3. QED
        BY <4>1, <4>2, FrameFacts DEF MutexInv
    <3>3. CASE ReadToWrite(f)
      <4>1. pc[f] = "r2w" /\ Stays("retest") /\ Quiet
        BY <3>3 DEF ReadToWrite, Goto, TypeOK, callVars, cacheVars
      <4>2. QED
        BY <3>0, <4>1, QuietStep DEF Labels
    <3>4. CASE LockWrite(f) \/ RelockRead(f)
      BY <3>0, <3>4 DEF LockWrite, RelockRead
    <3>5. CASE Retest(f)
      <4>1. /\ pc[f] = "retest"
            /\ \A g \in Frames \ {f} : pc'[g] = pc[g] /\ cprec'[g] = cprec[g]
            /\ UNCHANGED <<reply, onto, dprec>>
        BY <3>5 DEF Retest, Goto, TypeOK, callVars
      <4>2. \A g \in Frames \ {f} : onto[g] = c => pc[g] \notin {"compute", "w2r", "copy"}
        BY <2>0, <4>1 DEF NoTornRead, WriteLabels, ReadLabels
      <4>3. CASE dprec[f] > prec[c]
        <5> DEFINE grown == GrownPrec(prec[c], dprec[f])
        <5>1. /\ cprec' = [cprec EXCEPT ![f] = grown]
              /\ prec' = [prec EXCEPT ![c] = grown]
              /\ mant' = [mant EXCEPT ![c] = 0]
              /\ pc' = [pc EXCEPT ![f] = "compute"]
          BY <3>5, <4>3 DEF Retest, Goto
        <5>2. grown \in Nat /\ grown >= dprec[f]
          BY <3>0, GrownPrecNat DEF TypeOK
        <5> HIDE DEF grown
        <5>3. /\ cprec'[f] = grown /\ prec'[c] = grown /\ pc'[f] = "compute"
              /\ \A d \in Caches \ {c} : prec'[d] = prec[d] /\ mant'[d] = mant[d]
          BY <3>0, <5>1 DEF TypeOK
        <5>4. CacheCoherent'
          BY <3>0, <4>1, <5>3 DEF MutexInv, CacheCoherent
        <5>5. QED
          BY <3>0, <4>1, <4>2, <5>2, <5>3, <5>4, FrameFacts DEF MutexInv
      <4>4. CASE ~ (dprec[f] > prec[c])
        <5>1. /\ cprec'[f] = prec[c] /\ pc'[f] = "w2r"
              /\ UNCHANGED <<prec, mant>>
              /\ prec[c] >= dprec[f]
          BY <3>0, <3>5, <4>4 DEF Retest, Goto, cacheVars, TypeOK
        <5>2. CacheCoherent'
          BY <4>1, <5>1 DEF MutexInv, CacheCoherent
        <5>3. QED
          BY <4>1, <5>1, <5>2, FrameFacts DEF MutexInv
      <4>5. QED
        BY <4>3, <4>4
    <3>6. CASE ComputeDone(f)
      <4>1. /\ pc[f] = "compute" /\ pc'[f] = "w2r"
            /\ \A g \in Frames \ {f} : pc'[g] = pc[g]
            /\ UNCHANGED <<prec, onto, dprec, cprec>>
            /\ \A d \in Caches \ {c} : mant'[d] = mant[d]
        BY <3>0, <3>6 DEF ComputeDone, Goto, TypeOK, callVars
      <4>2. mant'[c] = prec[c]
        <5>1. ~ (f[2] = 1 /\ reply[Inner(f[1])] = "wrong")
          BY FrameFacts DEF MutexInv
        <5>2. mant' = [mant EXCEPT ![c] = cprec[f]]
          BY <3>6, <5>1 DEF ComputeDone
        <5>3. QED
          BY <3>0, <4>1, <5>2 DEF MutexInv, TypeOK
      <4>3. /\ \A g \in Frames : reply'[g] # "wrong"
            /\ \A t \in Threads : reply'[Outer(t)] = reply[Outer(t)]
        BY <3>6, FrameFacts DEF ComputeDone, MutexInv, TypeOK, Outer, Inner
      <4>4. CacheCoherent'
        BY <3>0, <4>1, <4>2 DEF MutexInv, CacheCoherent
      <4>5. QED
        BY <4>1, <4>3, <4>4, FrameFacts DEF MutexInv
    <3>7. CASE WriteToRead(f)
      <4>1. pc[f] = "w2r" /\ Stays("copy") /\ Quiet
        BY <3>7 DEF WriteToRead, Goto, TypeOK, callVars, cacheVars
      <4>2. QED
        BY <3>0, <4>1, QuietStep DEF Labels
    <3>8. CASE Copy(f)
      <4>1. /\ pc[f] = "copy" /\ pc'[f] = "unlock"
            /\ \A g \in Frames \ {f} : pc'[g] = pc[g] /\ reply'[g] = reply[g]
            /\ UNCHANGED <<prec, mant, onto, dprec, cprec>>
        BY <3>8 DEF Copy, Goto, TypeOK, callVars, cacheVars
      <4>2. mant[c] = cprec[f] /\ cprec[f] >= dprec[f] /\ reply[f] # "wrong"
        BY <2>0, <3>0, <4>1 DEF NoTornRead, WriteLabels, ReadLabels, MutexInv, CacheCoherent
      <4>3. reply'[f] = "right"
        BY <3>8, <4>2 DEF Copy, TypeOK
      <4>4. CacheCoherent'
        BY <4>1 DEF MutexInv, CacheCoherent
      <4>5. QED
        BY <4>1, <4>3, <4>4, FrameFacts DEF MutexInv
    <3>9. CASE UnlockRead(f)
      <4>1. /\ pc[f] = "unlock" /\ pc'[f] = "idle"
            /\ \A g \in Frames \ {f} : /\ pc'[g] = pc[g] /\ onto'[g] = onto[g]
                                       /\ dprec'[g] = dprec[g] /\ cprec'[g] = cprec[g]
                                       /\ reply'[g] = reply[g]
            /\ UNCHANGED <<prec, mant>>
            /\ reply'[f] = IF f[2] = 1 THEN "none" ELSE reply[f]
        BY <3>9 DEF UnlockRead, Goto, TypeOK, cacheVars
      <4>2. CacheCoherent'
        BY <4>1 DEF MutexInv, CacheCoherent
      <4>3. \A t \in Threads : Outer(t)[2] = 1
        BY DEF Outer
      <4>4. QED
        BY <4>1, <4>2, <4>3, FrameFacts DEF MutexInv
    <3>10. QED
      BY <2>4, <3>1, <3>2, <3>3, <3>4, <3>5, <3>6, <3>7, <3>8, <3>9 DEF MpfrCache
  <2>5. CASE UNCHANGED vars
    BY <2>5 DEF vars, MutexInv, CacheCoherent
  <2>6. QED
    BY <2>1, <2>2, <2>3, <2>4, <2>5, NextSteps
<1>3. QED
  BY <1>1, <1>2, TypeCorrect, LockInvariant, PTL DEF Spec

\* With the ISO C11 mutex cprec is, when the significand is rounded, the precision
\* of cache->x and at least that of dest, as cache.c asserts: for any number of
\* threads, any constants and any precisions.
THEOREM MutexCprec ==
  ASSUME ~ RWLock
  PROVE  Spec => []CprecIsCurrent
<1>1. MutexInv => CprecIsCurrent
  BY DEF MutexInv, CprecIsCurrent
<1>2. QED
  BY <1>1, MutexInvariant, PTL

\* With the mutex no cache is ever left with digits that are wrong.
THEOREM MutexCoherent ==
  ASSUME ~ RWLock
  PROVE  Spec => []CacheCoherent
<1>1. MutexInv => CacheCoherent
  BY DEF MutexInv
<1>2. QED
  BY <1>1, MutexInvariant, PTL

-----------------------------------------------------------------------------
(* With the mutex every step is a step of ConstService, or none *)

Doing(t) == IF pc[Outer(t)] = "idle" THEN "nothing"
            ELSE IF pc[Outer(t)] \in FreeLabels THEN "free" ELSE "constant"

\* A step that leaves the label class and the reply of each outer frame is
\* invisible to the users.
LEMMA InvisibleStep ==
  ASSUME \A t \in Threads : Doing(t)' = Doing(t) /\ reply'[Outer(t)] = reply[Outer(t)]
  PROVE  UNCHANGED Service!vars
BY DEF Service!vars, Doing

\* A step that changes the label class of one outer frame only.
LEMMA OneUserMoves ==
  ASSUME TypeOK, NEW t \in Threads, NEW l \in Labels,
         pc' = [pc EXCEPT ![Outer(t)] = l],
         \/ Doing(t) = "nothing" /\ Doing(t)' \in {"constant", "free"} /\ UNCHANGED reply
         \/ /\ Doing(t) = "constant" /\ Doing(t)' = "constant"
            /\ reply[Outer(t)] = "none"
            /\ reply' = [reply EXCEPT ![Outer(t)] = "right"]
         \/ /\ Doing(t) = "constant" /\ reply[Outer(t)] = "right"
            /\ Doing(t)' = "nothing"
            /\ reply' = [reply EXCEPT ![Outer(t)] = "none"]
         \/ /\ Doing(t) = "free" /\ Doing(t)' = "nothing"
            /\ reply[Outer(t)] = "none" /\ UNCHANGED reply
  PROVE  Service!Next
<1> DEFINE doing == [s \in Threads |-> Doing(s)]
           answer == [s \in Threads |-> reply[Outer(s)]]
<1>1. \A s \in Threads \ {t} : Outer(s) # Outer(t) /\ Outer(s) \in Frames
  BY DEF Outer, Frames
<1>2. \A s \in Threads \ {t} : Doing(s)' = Doing(s)
  BY <1>1 DEF Doing, TypeOK
<1>3. doing' = [doing EXCEPT ![t] = Doing(t)']
  BY <1>2
<1>4. answer' = [answer EXCEPT ![t] = reply'[Outer(t)]]
  <2>1. \A s \in Threads \ {t} : reply'[Outer(s)] = reply[Outer(s)]
    BY <1>1 DEF TypeOK
  <2>2. QED
    BY <2>1
<1>5. Outer(t) \in Frames
  BY FrameFacts
<1>6. /\ doing = [s \in Threads |->
                    IF pc[Outer(s)] = "idle" THEN "nothing"
                    ELSE IF pc[Outer(s)] \in FreeLabels THEN "free" ELSE "constant"]
      /\ doing' = [s \in Threads |->
                    IF pc'[Outer(s)] = "idle" THEN "nothing"
                    ELSE IF pc'[Outer(s)] \in FreeLabels THEN "free" ELSE "constant"]
  BY DEF Doing
<1>7. doing[t] = Doing(t) /\ answer[t] = reply[Outer(t)]
  OBVIOUS
<1>8. CASE Doing(t) = "nothing" /\ Doing(t)' = "constant" /\ UNCHANGED reply
  <2>1. Service!Ask(t)
    BY <1>3, <1>6, <1>7, <1>8 DEF Service!Ask
  <2>2. QED
    BY <2>1 DEF Service!Next
<1>9. CASE Doing(t) = "nothing" /\ Doing(t)' = "free" /\ UNCHANGED reply
  <2>1. Service!Free(t)
    BY <1>3, <1>6, <1>7, <1>9 DEF Service!Free
  <2>2. QED
    BY <2>1 DEF Service!Next
<1>10. CASE /\ Doing(t) = "constant" /\ Doing(t)' = "constant"
            /\ reply[Outer(t)] = "none"
            /\ reply' = [reply EXCEPT ![Outer(t)] = "right"]
  <2>1. reply'[Outer(t)] = "right" /\ doing' = doing
    BY <1>2, <1>5, <1>10 DEF TypeOK
  <2>2. Service!Answer(t)
    BY <1>4, <1>6, <1>7, <1>10, <2>1 DEF Service!Answer
  <2>3. QED
    BY <2>2 DEF Service!Next
<1>11. CASE /\ Doing(t) # "nothing" /\ Doing(t)' = "nothing"
            /\ Doing(t) = "constant" => reply[Outer(t)] = "right"
            /\ reply'[Outer(t)] = "none"
  <2>1. Service!Return(t)
    BY <1>3, <1>4, <1>6, <1>7, <1>11 DEF Service!Return
  <2>2. QED
    BY <2>1 DEF Service!Next
<1>12. QED
  BY <1>5, <1>8, <1>9, <1>10, <1>11 DEF TypeOK

\* With the mutex the caches cannot be seen: every step of every thread is, to the
\* users, the delivery of right digits, a return, or nothing.
THEOREM MutexImplementsService ==
  ASSUME ~ RWLock
  PROVE  Spec => Service!Safety
<1>1. Init => Service!Init
  BY FrameFacts DEF Init, Service!Init
<1>2. TypeOK /\ LockInv /\ MutexInv /\ [Next]_vars => [Service!Next]_(Service!vars)
  <2> SUFFICES ASSUME TypeOK, LockInv, MutexInv, [Next]_vars
               PROVE  Service!Next \/ UNCHANGED Service!vars
    OBVIOUS
  <2>0. NoTornRead
    BY LockInvExcludes
  <2>1. ASSUME NEW t \in Threads, NEW c \in Caches, NEW p \in Precs, Call(t, c, p)
        PROVE  Service!Next
    <3>1. /\ pc' = [pc EXCEPT ![Outer(t)] = "lock"] /\ pc[Outer(t)] = "idle"
          /\ UNCHANGED reply
      BY <2>1 DEF Call, Goto
    <3>2. Doing(t) = "nothing" /\ Doing(t)' = "constant"
      BY <3>1, FrameFacts DEF Doing, TypeOK, FreeLabels
    <3>3. QED
      BY <3>1, <3>2, OneUserMoves DEF Labels
  <2>2. ASSUME NEW t \in Threads, NEW d \in Caches, NEW p \in WorkPrecs, CallInner(t, d, p)
        PROVE  UNCHANGED Service!vars
    <3>1. /\ pc' = [pc EXCEPT ![Inner(t)] = "lock"]
          /\ UNCHANGED reply
      BY <2>2 DEF CallInner, Goto
    <3>2. \A s \in Threads : Outer(s) # Inner(t) /\ Outer(s) \in Frames
      BY DEF Outer, Inner, Frames
    <3>3. QED
      BY <3>1, <3>2, InvisibleStep DEF Doing, TypeOK
  <2>3. ASSUME NEW t \in Threads, FreeCaches(t)
        PROVE  Service!Next
    <3>1. /\ pc' = [pc EXCEPT ![Outer(t)] = "ftest"] /\ pc[Outer(t)] = "idle"
          /\ UNCHANGED reply
      BY <2>3 DEF FreeCaches, Goto
    <3>2. Doing(t) = "nothing" /\ Doing(t)' = "free"
      BY <3>1, FrameFacts DEF Doing, TypeOK, FreeLabels
    <3>3. QED
      BY <3>1, <3>2, OneUserMoves DEF Labels
  <2>4. ASSUME NEW t \in Threads, MpfrFreeConstCaches(t)
        PROVE  Service!Next \/ UNCHANGED Service!vars
    <3>1. /\ pc[Outer(t)] \in FreeLabels
          /\ \/ \E l \in FreeLabels : pc' = [pc EXCEPT ![Outer(t)] = l]
             \/ pc' = [pc EXCEPT ![Outer(t)] = "idle"]
          /\ UNCHANGED reply
      BY <2>4 DEF MpfrFreeConstCaches, ClearTest, ClearLock, ClearRetest, ClearUnlock,
           GoOnFreeing, Goto, FreeLabels
    <3>2. Doing(t) = "free" /\ reply[Outer(t)] = "none"
      BY <3>1 DEF Doing, FreeLabels, MutexInv
    <3>3. CASE \E l \in FreeLabels : pc' = [pc EXCEPT ![Outer(t)] = l]
      <4>1. \A s \in Threads : Doing(s)' = Doing(s)
        BY <3>1, <3>3, FrameFacts DEF Doing, TypeOK, FreeLabels
      <4>2. QED
        BY <3>1, <4>1, InvisibleStep
    <3>4. CASE pc' = [pc EXCEPT ![Outer(t)] = "idle"]
      <4>1. Doing(t)' = "nothing"
        BY <3>4, FrameFacts DEF Doing, TypeOK
      <4>2. QED
        BY <3>1, <3>2, <3>4, <4>1, OneUserMoves DEF Labels
    <3>5. QED
      BY <3>1, <3>3, <3>4
  <2>5. ASSUME NEW f \in Frames, MpfrCache(f) \/ ComputeDone(f)
        PROVE  Service!Next \/ UNCHANGED Service!vars
    <3>1. ASSUME NEW l \in Labels \ (FreeLabels \cup {"idle"}),
                 pc[f] \notin FreeLabels \cup {"idle"},
                 pc' = [pc EXCEPT ![f] = l],
                 \A t \in Threads : reply'[Outer(t)] = reply[Outer(t)]
          PROVE  UNCHANGED Service!vars
      <4>1. \A t \in Threads : Doing(t)' = Doing(t)
        BY <3>1, FrameFacts DEF Doing, TypeOK
      <4>2. QED
        BY <3>1, <4>1, InvisibleStep
    <3>2. CASE ComputeDone(f)
      <4>1. /\ pc[f] = "compute" /\ pc' = [pc EXCEPT ![f] = "w2r"]
            /\ \A t \in Threads : reply'[Outer(t)] = reply[Outer(t)]
        BY <3>2, FrameFacts DEF ComputeDone, Goto, TypeOK, Outer, Inner
      <4>2. QED
        BY <3>1, <4>1 DEF Labels, FreeLabels
    <3>3. CASE Copy(f)
      <4>1. /\ pc[f] = "copy" /\ pc' = [pc EXCEPT ![f] = "unlock"]
        BY <3>3 DEF Copy, Goto
      <4>2. mant[onto[f]] = cprec[f] /\ cprec[f] >= dprec[f] /\ reply[f] # "wrong"
        BY <2>0, <4>1 DEF NoTornRead, WriteLabels, ReadLabels, MutexInv, CacheCoherent, TypeOK
      <4>3. reply' = [reply EXCEPT ![f] = "right"]
        BY <3>3, <4>2 DEF Copy
      <4>4. CASE f[2] = 1
        <5>1. PICK t \in Threads : f = Outer(t)
          BY <4>4, FrameFacts
        <5>2. Doing(t) = "constant" /\ Doing(t)' = "constant" /\ reply[Outer(t)] = "none"
          BY <4>1, <5>1 DEF Doing, FreeLabels, TypeOK, MutexInv
        <5>3. QED
          BY <4>1, <4>3, <5>1, <5>2, OneUserMoves DEF Labels
      <4>5. CASE f[2] # 1
        <5>1. \A t \in Threads : Outer(t) # f /\ Outer(t) \in Frames
          BY <4>5 DEF Outer, Frames
        <5>2. \A t \in Threads : reply'[Outer(t)] = reply[Outer(t)]
          BY <4>3, <5>1 DEF TypeOK
        <5>3. QED
          BY <3>1, <4>1, <5>2 DEF Labels, FreeLabels
      <4>6. QED
        BY <4>4, <4>5
    <3>4. CASE UnlockRead(f)
      <4>1. /\ pc[f] = "unlock" /\ pc' = [pc EXCEPT ![f] = "idle"]
            /\ reply' = IF f[2] = 1 THEN [reply EXCEPT ![f] = "none"] ELSE reply
        BY <3>4 DEF UnlockRead, Goto
      <4>2. CASE f[2] = 1
        <5>1. PICK t \in Threads : f = Outer(t)
          BY <4>2, FrameFacts
        <5>2. Doing(t) = "constant" /\ Doing(t)' = "nothing" /\ reply[Outer(t)] = "right"
          BY <4>1, <5>1 DEF Doing, FreeLabels, TypeOK, MutexInv
        <5>3. QED
          BY <4>1, <4>2, <5>1, <5>2, OneUserMoves DEF Labels
      <4>3. CASE f[2] # 1
        <5>1. \A t \in Threads : Outer(t) # f /\ Outer(t) \in Frames
          BY <4>3 DEF Outer, Frames
        <5>2. \A t \in Threads : reply'[Outer(t)] = reply[Outer(t)] /\ Doing(t)' = Doing(t)
          BY <4>1, <4>3, <5>1 DEF TypeOK, Doing
        <5>3. QED
          BY <5>2, InvisibleStep
      <4>4. QED
        BY <4>2, <4>3
    <3>5. CASE LockRead(f) \/ TestPrec(f) \/ ReadToWrite(f) \/ LockWrite(f)
               \/ Retest(f) \/ WriteToRead(f) \/ RelockRead(f)
      <4>1. /\ pc[f] \in Labels \ (FreeLabels \cup {"idle"})
            /\ \E l \in Labels \ (FreeLabels \cup {"idle"}) : pc' = [pc EXCEPT ![f] = l]
            /\ UNCHANGED reply
        BY <3>5 DEF LockRead, TestPrec, ReadToWrite, LockWrite, Retest, WriteToRead, RelockRead,
             Goto, Labels, FreeLabels
      <4>2. QED
        BY <3>1, <4>1
    <3>6. QED
      BY <2>5, <3>2, <3>3, <3>4, <3>5 DEF MpfrCache
  <2>6. CASE UNCHANGED vars
    BY <2>6, InvisibleStep DEF vars, Doing
  <2>7. QED
    BY <2>1, <2>2, <2>3, <2>4, <2>5, <2>6, NextSteps
<1>3. QED
  BY <1>1, <1>2, TypeCorrect, LockInvariant, MutexInvariant, PTL DEF Spec, Service!Safety

-----------------------------------------------------------------------------
(* With either lock, a cache whose func reads no other cache is right      *)

\* Why LeafCoherent holds: while a cache is computed cprec is its precision, and
\* what a func of no dependencies finds of an inner call is nothing.
LeafInv ==
  /\ LeafCoherent
  /\ \A f \in Frames : pc[f] = "compute" => cprec[f] = prec[onto[f]]
  /\ \A t \in Threads :
       (pc[Outer(t)] # "compute" \/ Deps[onto[Outer(t)]] = {}) =>
         pc[Inner(t)] = "idle" /\ reply[Inner(t)] = "none"

\* A frame that neither enters nor leaves a computation, and is not the inner frame
\* of a thread that computes a leaf, keeps LeafInv.
LEMMA LeafQuietStep ==
  ASSUME TypeOK, LeafInv, NEW f \in Frames, NEW l \in Labels, NEW d \in Caches,
         pc' = [pc EXCEPT ![f] = l],
         onto' = [onto EXCEPT ![f] = d],
         UNCHANGED <<prec, mant>>,
         \A g \in Frames \ {f} : cprec'[g] = cprec[g] /\ reply'[g] = reply[g],
         pc[f] # "compute", l # "compute",
         \A t \in Threads :
           f = Inner(t) => pc[Outer(t)] = "compute" /\ Deps[onto[Outer(t)]] # {}
  PROVE  LeafInv'
<1>1. /\ pc'[f] = l /\ onto'[f] = d
      /\ \A g \in Frames \ {f} : pc'[g] = pc[g] /\ onto'[g] = onto[g]
  BY DEF TypeOK
<1>2. LeafCoherent'
  <2>1. \A g \in Frames : pc[g] = "compute" => pc'[g] = "compute" /\ onto'[g] = onto[g]
    BY <1>1
  <2>2. QED
    BY <2>1 DEF LeafInv, LeafCoherent
<1>3. \A g \in Frames : pc'[g] = "compute" => cprec'[g] = prec'[onto'[g]]
  BY <1>1 DEF LeafInv
<1>4. ASSUME NEW t \in Threads,
             pc'[Outer(t)] # "compute" \/ Deps[onto'[Outer(t)]] = {}
      PROVE  pc'[Inner(t)] = "idle" /\ reply'[Inner(t)] = "none"
  <2>1. Outer(t) \in Frames /\ Inner(t) \in Frames /\ Outer(t) # Inner(t)
    BY FrameFacts
  <2>2. f # Inner(t)
    BY <1>1, <1>4, <2>1
  <2>3. pc[Outer(t)] # "compute" \/ Deps[onto[Outer(t)]] = {}
    BY <1>1, <1>4, <2>1
  <2>4. QED
    BY <1>1, <2>1, <2>2, <2>3 DEF LeafInv
<1>5. QED
  BY <1>2, <1>3, <1>4 DEF LeafInv

\* A frame that works on a cache under the write lock keeps LeafInv, if it leaves the
\* cache coherent or goes on computing it.
LEMMA LeafWriteStep ==
  ASSUME TypeOK, LockInv, LeafInv, NEW f \in Frames, NEW c \in Caches, c = onto[f],
         NEW l \in Labels,
         pc[f] \in WriteLabels,
         pc' = [pc EXCEPT ![f] = l],
         onto' = onto,
         \A e \in Caches \ {c} : prec'[e] = prec[e] /\ mant'[e] = mant[e],
         \A g \in Frames \ {f} : cprec'[g] = cprec[g],
         \A t \in Threads : reply'[Inner(t)] \in {reply[Inner(t)], "none"},
         l = "compute" => cprec'[f] = prec'[c] /\ pc[f] # "compute",
         l # "compute" /\ Deps[c] = {} => mant'[c] = prec'[c],
         \A t \in Threads : f = Outer(t) /\ pc[f] = "compute" =>
            pc[Inner(t)] = "idle" /\ reply'[Inner(t)] = "none",
         \A t \in Threads :
           f = Inner(t) => pc[Outer(t)] = "compute" /\ Deps[onto[Outer(t)]] # {}
  PROVE  LeafInv'
<1>1. pc'[f] = l /\ \A g \in Frames \ {f} : pc'[g] = pc[g]
  BY DEF TypeOK
<1>2. \A g \in Frames \ {f} : pc[g] = "compute" => onto[g] # c
  <2>1. NoTornRead
    BY LockInvExcludes
  <2>2. QED
    BY <2>1 DEF NoTornRead, WriteLabels
<1>3. ASSUME NEW e \in Caches, Deps[e] = {},
             ~ \E g \in Frames : onto'[g] = e /\ pc'[g] = "compute"
      PROVE  mant'[e] = prec'[e]
  <2>1. CASE e = c
    BY <1>1, <1>3, <2>1
  <2>2. CASE e # c
    <3>1. ~ \E g \in Frames : onto[g] = e /\ pc[g] = "compute"
      BY <1>1, <1>3, <2>2
    <3>2. QED
      BY <1>3, <2>2, <3>1 DEF LeafInv, LeafCoherent
  <2>3. QED
    BY <2>1, <2>2
<1>4. ASSUME NEW g \in Frames, pc'[g] = "compute"
      PROVE  cprec'[g] = prec'[onto'[g]]
  <2>1. CASE g = f
    BY <1>1, <1>4, <2>1
  <2>2. CASE g # f
    <3>1. onto[g] \in Caches \ {c} /\ pc[g] = "compute"
      BY <1>1, <1>2, <1>4, <2>2 DEF TypeOK
    <3>2. QED
      BY <2>2, <3>1 DEF LeafInv
  <2>3. QED
    BY <2>1, <2>2
<1>5. ASSUME NEW t \in Threads,
             pc'[Outer(t)] # "compute" \/ Deps[onto'[Outer(t)]] = {}
      PROVE  pc'[Inner(t)] = "idle" /\ reply'[Inner(t)] = "none"
  <2>1. Outer(t) \in Frames /\ Inner(t) \in Frames /\ Outer(t) # Inner(t)
    BY FrameFacts
  <2>2. f # Inner(t)
    BY <1>1, <1>5, <2>1
  <2>3. CASE f = Outer(t) /\ pc[f] = "compute"
    BY <1>1, <2>1, <2>3
  <2>4. CASE ~ (f = Outer(t) /\ pc[f] = "compute")
    <3>1. pc[Outer(t)] # "compute" \/ Deps[onto[Outer(t)]] = {}
      BY <1>1, <1>5, <2>1, <2>4
    <3>2. pc[Inner(t)] = "idle" /\ reply[Inner(t)] = "none"
      BY <3>1 DEF LeafInv
    <3>3. QED
      BY <1>1, <2>1, <2>2, <3>2
  <2>5. QED
    BY <2>3, <2>4
<1>6. QED
  BY <1>3, <1>4, <1>5 DEF LeafInv, LeafCoherent

\* POSIX locks are released and taken again in the middle of a call, and a composite
\* constant may come out wrong; a cache that is computed from nothing else never does.
THEOREM LeavesStayRight == Spec => []LeafCoherent
<1>1. Init => LeafInv
  BY FrameFacts DEF Init, LeafInv, LeafCoherent
<1>2. TypeOK /\ TypeOK' /\ LockInv /\ LeafInv /\ [Next]_vars => LeafInv'
  <2> SUFFICES ASSUME TypeOK, TypeOK', LockInv, LeafInv, [Next]_vars
               PROVE  LeafInv'
    OBVIOUS
  <2>0. /\ \A g \in Frames : onto[g] \in Caches /\ onto'[g] \in Caches
        /\ \A g \in Frames, e \in Caches : [onto EXCEPT ![g] = onto[g]] = onto
        /\ \A t \in Threads, g \in Frames : g = Inner(t) /\ pc[g] # "idle" =>
             pc[Outer(t)] = "compute" /\ Deps[onto[Outer(t)]] # {}
    BY DEF TypeOK, LeafInv
  <2>1. ASSUME NEW t \in Threads, NEW c \in Caches, NEW p \in Precs, Call(t, c, p)
        PROVE  LeafInv'
    <3>1. /\ pc' = [pc EXCEPT ![Outer(t)] = "lock"]
          /\ onto' = [onto EXCEPT ![Outer(t)] = c]
          /\ UNCHANGED <<prec, mant, cprec, reply>>
          /\ pc[Outer(t)] = "idle"
      BY <2>1 DEF Call, Goto, cacheVars
    <3>2. Outer(t) \in Frames /\ \A u \in Threads : Outer(t) # Inner(u)
      BY FrameFacts DEF Outer, Inner
    <3>3. QED
      BY <3>1, <3>2, LeafQuietStep DEF Labels
  <2>2. ASSUME NEW t \in Threads, NEW d \in Caches, NEW p \in WorkPrecs, CallInner(t, d, p)
        PROVE  LeafInv'
    <3>1. /\ pc' = [pc EXCEPT ![Inner(t)] = "lock"]
          /\ onto' = [onto EXCEPT ![Inner(t)] = d]
          /\ UNCHANGED <<prec, mant, cprec, reply>>
          /\ pc[Outer(t)] = "compute" /\ Deps[onto[Outer(t)]] # {}
          /\ pc[Inner(t)] = "idle"
      BY <2>2 DEF CallInner, Goto, cacheVars
    <3>2. Inner(t) \in Frames /\ \A u \in Threads : Inner(t) = Inner(u) => t = u
      BY FrameFacts DEF Inner
    <3>3. QED
      BY <3>1, <3>2, LeafQuietStep DEF Labels
  <2>3. ASSUME NEW t \in Threads, FreeCaches(t) \/ MpfrFreeConstCaches(t)
        PROVE  LeafInv'
    <3>1. /\ Outer(t) \in Frames /\ pc[Outer(t)] # "compute"
          /\ \A u \in Threads : Outer(t) # Inner(u)
      BY <2>3, FrameFacts DEF Outer, Inner, FreeCaches, MpfrFreeConstCaches,
           ClearTest, ClearLock, ClearRetest, ClearUnlock
    <3>2. CASE ClearRetest(t)
      <4>1. /\ pc[Outer(t)] = "fretest"
            /\ pc' = [pc EXCEPT ![Outer(t)] = "funlock"]
            /\ onto' = onto /\ cprec' = cprec /\ reply' = reply
            /\ \/ /\ prec' = [prec EXCEPT ![onto[Outer(t)]] = 0]
                  /\ mant' = [mant EXCEPT ![onto[Outer(t)]] = 0]
               \/ prec' = prec /\ mant' = mant
        BY <3>2 DEF ClearRetest, Goto, cacheVars, callVars
      <4>2. \A e \in Caches \ {onto[Outer(t)]} : prec'[e] = prec[e] /\ mant'[e] = mant[e]
        BY <4>1 DEF TypeOK
      <4>3. Deps[onto[Outer(t)]] = {} => mant'[onto[Outer(t)]] = prec'[onto[Outer(t)]]
        <5>1. onto[Outer(t)] \in Caches
          BY <3>1 DEF TypeOK
        <5>2. \A g \in Frames : pc[g] = "compute" => onto[g] # onto[Outer(t)]
          <6>1. NoTornRead
            BY <2>0, LockInvExcludes
          <6>2. QED
            BY <3>1, <4>1, <6>1 DEF NoTornRead, WriteLabels
        <5>3. Deps[onto[Outer(t)]] = {} => mant[onto[Outer(t)]] = prec[onto[Outer(t)]]
          BY <2>0, <5>1, <5>2 DEF LeafInv, LeafCoherent
        <5>4. QED
          BY <4>1, <5>1, <5>3 DEF TypeOK
      <4>4. QED
        BY <2>0, <3>1, <4>1, <4>2, <4>3, LeafWriteStep DEF Labels, WriteLabels
    <3>3. CASE ~ ClearRetest(t)
      <4>1. UNCHANGED <<prec, mant, cprec, reply>>
        BY <2>3, <3>3 DEF FreeCaches, MpfrFreeConstCaches, ClearTest, ClearLock, ClearUnlock,
             cacheVars
      <4>2. \E l \in {"ftest", "flock", "fretest", "idle"}, d \in Caches :
              pc' = [pc EXCEPT ![Outer(t)] = l] /\ onto' = [onto EXCEPT ![Outer(t)] = d]
        <5>1. GoOnFreeing(t) \/ FreeCaches(t) =>
                \E l \in {"ftest", "idle"} : \E d : pc' = [pc EXCEPT ![Outer(t)] = l]
                                                /\ onto' = [onto EXCEPT ![Outer(t)] = d]
          BY DEF GoOnFreeing, FreeCaches, Goto
        <5>2. ASSUME ~ (GoOnFreeing(t) \/ FreeCaches(t))
              PROVE  /\ \E l \in {"flock", "fretest"} : pc' = [pc EXCEPT ![Outer(t)] = l]
                     /\ onto' = onto
          BY <2>3, <3>3, <5>2 DEF MpfrFreeConstCaches, ClearTest, ClearLock, ClearUnlock, Goto,
               callVars
        <5>3. onto' = onto => onto' = [onto EXCEPT ![Outer(t)] = onto'[Outer(t)]]
          BY <2>0, <3>1
        <5>4. \A d : onto' = [onto EXCEPT ![Outer(t)] = d] => d \in Caches
          <6> SUFFICES ASSUME NEW d, onto' = [onto EXCEPT ![Outer(t)] = d]
                       PROVE  d \in Caches
            OBVIOUS
          <6>1. onto'[Outer(t)] = d
            BY <3>1 DEF TypeOK
          <6>2. QED
            BY <2>0, <3>1, <6>1
        <5>5. QED
          BY <2>0, <3>1, <5>1, <5>2, <5>3, <5>4
      <4>3. QED
        BY <3>1, <4>1, <4>2, LeafQuietStep DEF Labels
    <3>4. QED
      BY <3>2, <3>3
  <2>4. ASSUME NEW f \in Frames, MpfrCache(f), ~ Retest(f)
        PROVE  LeafInv'
    <3>1. /\ pc[f] \notin {"compute", "idle"}
          /\ UNCHANGED <<prec, mant>>
          /\ \A g \in Frames \ {f} : cprec'[g] = cprec[g] /\ reply'[g] = reply[g]
      BY <2>4 DEF MpfrCache, LockRead, TestPrec, ReadToWrite, LockWrite, WriteToRead,
           RelockRead, Copy, UnlockRead, cacheVars, TypeOK
    <3>2. \E l \in Labels \ {"compute"} : pc' = [pc EXCEPT ![f] = l]
      BY <2>4 DEF MpfrCache, LockRead, TestPrec, ReadToWrite, LockWrite, WriteToRead,
           RelockRead, Copy, UnlockRead, Goto, Labels
    <3>3. \E d \in Caches : onto' = [onto EXCEPT ![f] = d]
      BY <2>0, <2>4, NoCacheType DEF MpfrCache, LockRead, TestPrec, ReadToWrite, LockWrite,
           WriteToRead, RelockRead, Copy, UnlockRead, callVars
    <3>4. PICK l \in Labels \ {"compute"}, d \in Caches :
            pc' = [pc EXCEPT ![f] = l] /\ onto' = [onto EXCEPT ![f] = d]
      BY <3>2, <3>3
    <3>5. \A t \in Threads :
            f = Inner(t) => pc[Outer(t)] = "compute" /\ Deps[onto[Outer(t)]] # {}
      BY <2>0, <3>1
    <3>6. QED
      BY <3>1, <3>4, <3>5, LeafQuietStep
  <2>5. ASSUME NEW f \in Frames, Retest(f)
        PROVE  LeafInv'
    <3>1. pc[f] = "retest" /\ UNCHANGED <<onto, reply>>
      BY <2>5 DEF Retest, callVars
    <3>2. CASE dprec[f] > prec[onto[f]]
      <4> DEFINE grown == GrownPrec(prec[onto[f]], dprec[f])
      <4>1. /\ cprec' = [cprec EXCEPT ![f] = grown]
            /\ prec' = [prec EXCEPT ![onto[f]] = grown]
            /\ mant' = [mant EXCEPT ![onto[f]] = 0]
            /\ pc' = [pc EXCEPT ![f] = "compute"]
        BY <2>5, <3>2 DEF Retest, Goto
      <4> HIDE DEF grown
      <4>2. /\ \A e \in Caches \ {onto[f]} : prec'[e] = prec[e] /\ mant'[e] = mant[e]
            /\ \A g \in Frames \ {f} : cprec'[g] = cprec[g]
            /\ cprec'[f] = prec'[onto[f]]
        BY <2>0, <4>1 DEF TypeOK
      <4>3. QED
        BY <2>0, <3>1, <4>1, <4>2, LeafWriteStep DEF Labels, WriteLabels
    <3>3. CASE ~ (dprec[f] > prec[onto[f]])
      <4>1. /\ cprec' = [cprec EXCEPT ![f] = prec[onto[f]]]
            /\ pc' = [pc EXCEPT ![f] = "w2r"]
            /\ UNCHANGED <<prec, mant>>
        BY <2>5, <3>3 DEF Retest, Goto, cacheVars
      <4>2. \A g \in Frames \ {f} : cprec'[g] = cprec[g] /\ reply'[g] = reply[g]
        BY <3>1, <4>1 DEF TypeOK
      <4>3. onto' = [onto EXCEPT ![f] = onto[f]] /\ onto[f] \in Caches
        BY <2>0, <3>1
      <4>4. \A t \in Threads :
              f = Inner(t) => pc[Outer(t)] = "compute" /\ Deps[onto[Outer(t)]] # {}
        BY <2>0, <3>1
      <4>5. QED
        BY <3>1, <4>1, <4>2, <4>3, <4>4, LeafQuietStep DEF Labels
    <3>4. QED
      BY <3>2, <3>3
  <2>6. ASSUME NEW f \in Frames, ComputeDone(f)
        PROVE  LeafInv'
    <3> DEFINE poisoned == f[2] = 1 /\ reply[Inner(f[1])] = "wrong"
    <3>1. /\ pc[f] = "compute"
          /\ f[2] = 1 => pc[Inner(f[1])] = "idle"
          /\ mant' = [mant EXCEPT ![onto[f]] = IF poisoned THEN 0 ELSE cprec[f]]
          /\ reply' = IF f[2] = 1 THEN [reply EXCEPT ![Inner(f[1])] = "none"] ELSE reply
          /\ pc' = [pc EXCEPT ![f] = "w2r"]
          /\ UNCHANGED <<prec, onto, cprec>>
      BY <2>6 DEF ComputeDone, Goto, callVars
    <3>2. \A t \in Threads : f = Outer(t) => f[2] = 1 /\ f[1] = t
      BY DEF Outer
    <3>3. \A e \in Caches \ {onto[f]} : prec'[e] = prec[e] /\ mant'[e] = mant[e]
      BY <3>1 DEF TypeOK
    <3>4. /\ \A t \in Threads : reply'[Inner(t)] \in {reply[Inner(t)], "none"}
          /\ \A t \in Threads : f = Outer(t) =>
               pc[Inner(t)] = "idle" /\ reply'[Inner(t)] = "none"
      <4>1. \A t \in Threads : Inner(t) \in Frames
        BY FrameFacts
      <4>2. \A t \in Threads : reply'[Inner(t)] \in {reply[Inner(t)], "none"}
        BY <3>1, <4>1 DEF TypeOK
      <4>3. ASSUME NEW t \in Threads, f = Outer(t)
            PROVE  pc[Inner(t)] = "idle" /\ reply'[Inner(t)] = "none"
        <5>1. f[2] = 1 /\ f[1] = t
          BY <3>2, <4>3
        <5>2. QED
          BY <3>1, <4>1, <5>1 DEF TypeOK
      <4>4. QED
        BY <4>2, <4>3
    <3>5. Deps[onto[f]] = {} => mant'[onto[f]] = prec'[onto[f]]
      <4>1. Deps[onto[f]] = {} => ~ poisoned
        BY <3>1, FrameFacts DEF LeafInv
      <4>2. cprec[f] = prec[onto[f]]
        BY <3>1 DEF LeafInv
      <4> HIDE DEF poisoned
      <4>3. QED
        BY <2>0, <3>1, <4>1, <4>2 DEF TypeOK
    <3>6. \A t \in Threads :
            f = Inner(t) => pc[Outer(t)] = "compute" /\ Deps[onto[Outer(t)]] # {}
      BY <2>0, <3>1
    <3>7. onto[f] \in Caches /\ onto' = onto /\ cprec' = cprec
      BY <2>0, <3>1
    <3>8. QED
      BY <3>1, <3>3, <3>4, <3>5, <3>6, <3>7, LeafWriteStep DEF Labels, WriteLabels
  <2>7. CASE UNCHANGED vars
    BY <2>7 DEF vars, LeafInv, LeafCoherent
  <2>8. QED
    BY <2>1, <2>2, <2>3, <2>4, <2>5, <2>6, <2>7, NextSteps
<1>3. LeafInv => LeafCoherent
  BY DEF LeafInv
<1>4. QED
  BY <1>1, <1>2, <1>3, TypeCorrect, LockInvariant, PTL DEF Spec

-----------------------------------------------------------------------------
(* Growth *)

\* Whoever asks, with either lock, a cache loses precision only when it is cleared:
\* threads that race to enlarge it do not undo each other's work.
THEOREM CachesOnlyGrow == Spec => ShrinksOnlyWhenCleared
<1>1. ASSUME TypeOK, [Next]_vars, NEW c \in Caches, prec'[c] < prec[c]
      PROVE  \E t \in Threads : pc[Outer(t)] = "fretest" /\ onto[Outer(t)] = c
  <2>1. prec[c] \in Nat
    BY <1>1 DEF TypeOK
  <2>2. prec' # prec
    <3>1. ASSUME prec' = prec
          PROVE  prec[c] < prec[c]
      BY <1>1, <3>1
    <3>2. QED
      BY <2>1, <3>1
  <2>3. CASE \E f \in Frames : Retest(f)
    <3>1. PICK f \in Frames : Retest(f)
      BY <2>3
    <3>2. prec[onto[f]] \in Nat /\ dprec[f] \in Nat
      BY <1>1 DEF TypeOK
    <3>3. dprec[f] > prec[onto[f]]
      <4>1. ~ (dprec[f] > prec[onto[f]]) => UNCHANGED cacheVars
        BY <3>1 DEF Retest
      <4>2. QED
        BY <2>2, <4>1 DEF cacheVars
    <3> DEFINE grown == GrownPrec(prec[onto[f]], dprec[f])
    <3>4. prec' = [prec EXCEPT ![onto[f]] = grown]
      BY <3>1, <3>3 DEF Retest
    <3>5. grown \in Nat /\ grown >= dprec[f]
      BY <3>2, GrownPrecNat
    <3> HIDE DEF grown
    <3>6. prec'[c] >= prec[c]
      BY <1>1, <2>1, <3>2, <3>3, <3>4, <3>5 DEF TypeOK
    <3>7. QED
      BY <1>1, <2>1, <3>6, <3>4, <3>5 DEF TypeOK
  <2>4. CASE \E t \in Threads : ClearRetest(t)
    <3>1. PICK t \in Threads : ClearRetest(t)
      BY <2>4
    <3>2. onto[Outer(t)] = c
      BY <1>1, <2>1, <3>1 DEF ClearRetest, cacheVars, TypeOK
    <3>3. QED
      BY <3>1, <3>2 DEF ClearRetest
  <2>5. QED
    <3>1. ~ UNCHANGED vars
      BY <2>2 DEF vars
    <3>2. \A t \in Threads : ~ FreeCaches(t)
      BY <2>2 DEF FreeCaches, cacheVars
    <3>3. \A t \in Threads : MpfrFreeConstCaches(t) => ClearRetest(t)
      BY <2>2 DEF MpfrFreeConstCaches, ClearTest, ClearLock, ClearUnlock, cacheVars
    <3>4. \A f \in Frames : MpfrCache(f) \/ ComputeDone(f) => Retest(f)
      BY <2>2 DEF MpfrCache, ComputeDone, LockRead, TestPrec, ReadToWrite, LockWrite,
           WriteToRead, RelockRead, Copy, UnlockRead, cacheVars
    <3>5. /\ \A t \in Threads, d \in Caches, p \in Precs : ~ Call(t, d, p)
          /\ \A t \in Threads, d \in Caches, p \in WorkPrecs : ~ CallInner(t, d, p)
      BY <2>2 DEF Call, CallInner, cacheVars
    <3>6. QED
      BY <1>1, <2>3, <2>4, <3>1, <3>2, <3>3, <3>4, <3>5, NextSteps
<1>2. TypeOK /\ [Next]_vars =>
        [\A c \in Caches :
           prec'[c] < prec[c] =>
             \E t \in Threads : pc[Outer(t)] = "fretest" /\ onto[Outer(t)] = c]_vars
  BY <1>1
<1>3. QED
  BY <1>2, TypeCorrect, PTL DEF Spec, ShrinksOnlyWhenCleared
=============================================================================
