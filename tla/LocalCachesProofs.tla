-------------------------- MODULE LocalCachesProofs --------------------------
(***************************************************************************)
(* Proofs about LocalCaches, for any number of threads, blocks, temporaries *)
(* and entries of the pool: the memory of the local caches has one owner    *)
(* and the right allocator, and is all freed when the application asks.     *)
(***************************************************************************)
EXTENDS LocalCaches, TLAPS

-----------------------------------------------------------------------------
(* Ownership in the abstract: U the places in use, f the mpz_t in each, L   *)
(* the sizes of the blocks                                                  *)

Owned(U, f, L) ==
  /\ \A p, q \in U : f[p] = f[q] /\ f[p] # Lazy => p = q
  /\ \A b \in Blocks : L[b] > 0 <=> \E p \in U : f[p] = b

SameOn(U, f, g) == \A p \in U : f[p] = g[p]

\* An mpz_t is copied from a place to another one, which it is then in.
LEMMA OwnedMove ==
  ASSUME NEW U, NEW f, NEW g, NEW L, NEW p \in U, NEW q, q \notin U,
         Owned(U, f, L), SameOn(U \ {p}, f, g), g[q] = f[p]
  PROVE  Owned((U \ {p}) \cup {q}, g, L)
BY DEF Owned, SameOn

\* An mpz_t without limbs comes to a place.
LEMMA OwnedLazy ==
  ASSUME NEW U, NEW f, NEW g, NEW L, NEW q, q \notin U,
         Owned(U, f, L), SameOn(U, f, g), g[q] = Lazy
  PROVE  Owned(U \cup {q}, g, L)
BY NamesAssumption DEF Owned, SameOn

\* The mpz_t of a place is cleared, and its limbs freed.
LEMMA OwnedFree ==
  ASSUME NEW U, NEW f, NEW g, NEW L \in [Blocks -> Nat], NEW p \in U,
         Owned(U, f, L), SameOn(U \ {p}, f, g)
  PROVE  Owned(U \ {p}, g, [c \in Blocks |-> IF c = f[p] THEN 0 ELSE L[c]])
BY NamesAssumption DEF Owned, SameOn

\* The mpz_t of a place gets limbs, or more, in b.
LEMMA OwnedGrow ==
  ASSUME NEW U, NEW f, NEW g, NEW L \in [Blocks -> Nat], NEW p \in U,
         NEW b \in Blocks, NEW size \in Nat \ {0},
         Owned(U, f, L), SameOn(U \ {p}, f, g), g[p] = b,
         b = f[p] \/ L[b] = 0
  PROVE  Owned(U, g, [c \in Blocks |->
                        IF c = b THEN size ELSE IF c = f[p] THEN 0 ELSE L[c]])
<1> DEFINE M == [c \in Blocks |-> IF c = b THEN size ELSE IF c = f[p] THEN 0 ELSE L[c]]
<1>1. ASSUME NEW q \in U, q # p
      PROVE  g[q] # b
  BY <1>1, NamesAssumption DEF Owned, SameOn
<1>2. ASSUME NEW q \in U, NEW r \in U, g[q] = g[r], g[q] # Lazy
      PROVE  q = r
  BY <1>1, <1>2 DEF Owned, SameOn
<1>3. ASSUME NEW c \in Blocks
      PROVE  M[c] > 0 <=> \E q \in U : g[q] = c
  <2>1. CASE c = b
    BY <2>1
  <2>2. CASE c # b /\ c = f[p]
    BY <2>2, NamesAssumption DEF Owned, SameOn
  <2>3. CASE c # b /\ c # f[p]
    BY <2>3 DEF Owned, SameOn
  <2> QED BY <2>1, <2>2, <2>3
<1> QED BY <1>2, <1>3 DEF Owned

\* An mpz_t whose limbs are in a new block comes to a place.
LEMMA OwnedNew ==
  ASSUME NEW U, NEW f, NEW g, NEW L \in [Blocks -> Nat], NEW q, q \notin U,
         NEW b \in Blocks, NEW size \in Nat \ {0}, L[b] = 0,
         Owned(U, f, L), SameOn(U, f, g), g[q] = b
  PROVE  Owned(U \cup {q}, g, [c \in Blocks |->
                                 IF c = b THEN size ELSE IF c = Lazy THEN 0 ELSE L[c]])
<1> DEFINE M == [c \in Blocks |-> IF c = b THEN size ELSE IF c = Lazy THEN 0 ELSE L[c]]
<1>1. \A r \in U : g[r] # b
  BY DEF Owned, SameOn
<1>2. ASSUME NEW c \in Blocks
      PROVE  M[c] > 0 <=> \E r \in U \cup {q} : g[r] = c
  <2>1. CASE c = b
    BY <2>1
  <2>2. CASE c # b
    BY <2>2, NamesAssumption DEF Owned, SameOn
  <2> QED BY <2>1, <2>2
<1> QED BY <1>1, <1>2 DEF Owned, SameOn

\* An mpz_t moves to another place, and its limbs to b.
LEMMA OwnedMoveGrow ==
  ASSUME NEW U, NEW f, NEW g, NEW L \in [Blocks -> Nat], NEW p \in U, NEW q, q \notin U,
         NEW b \in Blocks, NEW size \in Nat \ {0}, b = f[p] \/ L[b] = 0,
         Owned(U, f, L), SameOn(U \ {p}, f, g), g[q] = b
  PROVE  Owned((U \ {p}) \cup {q}, g, [c \in Blocks |->
                                 IF c = b THEN size ELSE IF c = f[p] THEN 0 ELSE L[c]])
<1> DEFINE M == [c \in Blocks |-> IF c = b THEN size ELSE IF c = f[p] THEN 0 ELSE L[c]]
           V == (U \ {p}) \cup {q}
<1>1. \A r \in U \ {p} : g[r] # b
  BY NamesAssumption DEF Owned, SameOn
<1>2. ASSUME NEW c \in Blocks
      PROVE  M[c] > 0 <=> \E r \in V : g[r] = c
  <2>1. CASE c = b
    BY <2>1
  <2>2. CASE c # b /\ c = f[p]
    BY <2>2, NamesAssumption DEF Owned, SameOn
  <2>3. CASE c # b /\ c # f[p]
    BY <2>3 DEF Owned, SameOn
  <2> QED BY <2>1, <2>2, <2>3
<1> QED BY <1>1, <1>2 DEF Owned, SameOn

-----------------------------------------------------------------------------
(* The inductive invariant *)

\* What each label says of the loops, of the table and of the temporaries.
Control(t) ==
  /\ bernoulli_alloc[t] = 0 \/ bernoulli_alloc[t] >= MinAlloc
  /\ bernoulli_size[t] <= bernoulli_alloc[t]
  /\ pc[t] \notin Inside => \A z \in Temps : temp[t][z] = Dead
  /\ pc[t] \in {"fresh", "free_local_pool"} =>
       bernoulli_size[t] = 0 /\ bernoulli_alloc[t] = 0
  /\ pc[t] = "fresh" => n_alloc[t] = 0
  /\ pc[t] = "free_bernoulli" => i[t] <= bernoulli_size[t]
  /\ pc[t] \in {"free_pool", "free_local_pool"} => i[t] <= n_alloc[t]
  /\ pc[t] = "extending" =>
       /\ bernoulli_size[t] <= i[t] /\ i[t] <= n[t] + 1
       /\ bernoulli_size[t] <= n[t] /\ n[t] < bernoulli_alloc[t]

Controls == \A t \in Threads : Control(t)

Contents == [p \in AllPlaces |-> At(p)]

Ownership == Owned(PlacesInUse, Contents, limbs)

USE SizesAssumption

LEMMA PlaceKinds ==
  /\ \A t \in Threads, k \in Slots : <<"pool", t, k>> \in AllPlaces
  /\ \A t \in Threads, k \in Indexes : <<"table", t, k>> \in AllPlaces
  /\ \A t \in Threads, k \in Temps : <<"temp", t, k>> \in AllPlaces
  /\ \A p \in AllPlaces : \E t \in Threads :
       \/ \E k \in Slots : p = <<"pool", t, k>>
       \/ \E k \in Indexes : p = <<"table", t, k>>
       \/ \E k \in Temps : p = <<"temp", t, k>>
BY DEF AllPlaces

LEMMA InUseFacts ==
  /\ \A t \in Threads, k \in Slots : <<"pool", t, k>> \in PlacesInUse <=> SlotInUse(t, k)
  /\ \A t \in Threads, k \in Indexes : <<"table", t, k>> \in PlacesInUse <=> EntryInUse(t, k)
  /\ \A t \in Threads, k \in Temps : <<"temp", t, k>> \in PlacesInUse <=> TempInUse(t, k)
  /\ PlacesInUse \subseteq AllPlaces
BY PlaceKinds DEF PlacesInUse

LEMMA InUseFactsPrime ==
  /\ \A t \in Threads, k \in Slots : <<"pool", t, k>> \in PlacesInUse' <=> SlotInUse(t, k)'
  /\ \A t \in Threads, k \in Indexes : <<"table", t, k>> \in PlacesInUse' <=> EntryInUse(t, k)'
  /\ \A t \in Threads, k \in Temps : <<"temp", t, k>> \in PlacesInUse' <=> TempInUse(t, k)'
  /\ PlacesInUse' \subseteq AllPlaces
BY PlaceKinds DEF PlacesInUse

LEMMA ContentsFacts ==
  /\ \A t \in Threads, k \in Slots : Contents[<<"pool", t, k>>] = mpz_tab[t][k]
  /\ \A t \in Threads, k \in Indexes : Contents[<<"table", t, k>>] = bernoulli_table[t][k]
  /\ \A t \in Threads, k \in Temps : Contents[<<"temp", t, k>>] = temp[t][k]
BY PlaceKinds DEF Contents, At

LEMMA ContentsFactsPrime ==
  /\ \A t \in Threads, k \in Slots : Contents'[<<"pool", t, k>>] = mpz_tab'[t][k]
  /\ \A t \in Threads, k \in Indexes : Contents'[<<"table", t, k>>] = bernoulli_table'[t][k]
  /\ \A t \in Threads, k \in Temps : Contents'[<<"temp", t, k>>] = temp'[t][k]
BY PlaceKinds DEF Contents, At

LEMMA NextSteps ==
  ASSUME Next
  PROVE  \/ \E t \in Threads :
              \/ Enter(t) \/ Leave(t) \/ BernoulliExtended(t) \/ FreeLocalCache(t)
              \/ FreeBernoulliEntry(t) \/ FreeBernoulliTable(t)
              \/ FreePool(t) \/ FreePoolEntry(t) \/ PoolFreed(t)
              \/ \E z \in Temps : InitTemp(t, z) \/ ClearTemp(t, z)
              \/ \E m \in Indexes : BernoulliCache(t, m)
              \/ \E size \in Sizes, b \in Blocks :
                   \/ BernoulliInternal(t, size, b)
                   \/ \E z \in Temps : Init2Temp(t, z, size, b) \/ GrowTemp(t, z, size, b)
         \/ \E a \in Allocators : SetMemoryFunctions(a)
BY DEF Next, Step

-----------------------------------------------------------------------------
(* Type correctness *)

LEMMA LargerType == \A m \in Indexes : Larger(m) \in Nat
BY GrowthAssumption DEF Larger, Indexes

HeapType == limbs \in [Blocks -> Nat] /\ by \in [Blocks -> Allocators \cup {Nobody}]
PoolType == n_alloc \in [Threads -> 0 .. NEntries] /\ mpz_tab \in [Threads -> [Slots -> Mpz]]

LEMMA InitType == Init => TypeOK
BY DEF Init, TypeOK, Pcs, Mpz, Indexes

LEMMA GmpClearType == ASSUME HeapType, NEW z, GmpClear(z) PROVE HeapType'
BY DEF HeapType, GmpClear

LEMMA SetLimbsType ==
  ASSUME HeapType, allocator \in Allocators, NEW z, NEW size \in Sizes, NEW b, SetLimbs(z, size, b)
  PROVE  HeapType'
BY DEF HeapType, SetLimbs, Sizes

LEMMA MpzInitType ==
  ASSUME PoolType, NEW t \in Threads, NEW z \in Mpz, MpzInit(t, z)
  PROVE  PoolType'
BY DEF PoolType, MpzInit, Pop, pool

LEMMA PopType ==
  ASSUME PoolType, NEW t \in Threads, n_alloc[t] > 0, Pop(t)
  PROVE  PoolType' /\ Top(t) \in Mpz
BY DEF PoolType, Pop, Top, Slots

LEMMA MpzClearType ==
  ASSUME HeapType, PoolType, NEW t \in Threads, NEW z \in Mpz, MpzClear(t, z)
  PROVE  HeapType' /\ PoolType'
<1>1. CASE n_alloc[t] < NEntries /\ ALLOC(z) <= MaxSize
  <2>1. mpz_tab' = [mpz_tab EXCEPT ![t] = [mpz_tab[t] EXCEPT ![n_alloc[t]] = z]]
    BY <1>1 DEF MpzClear
  <2>2. [mpz_tab[t] EXCEPT ![n_alloc[t]] = z] \in [Slots -> Mpz]
    BY DEF PoolType
  <2>3. mpz_tab' \in [Threads -> [Slots -> Mpz]]
    BY <2>1, <2>2 DEF PoolType
  <2>4. n_alloc' \in [Threads -> 0 .. NEntries]
    BY <1>1 DEF MpzClear, PoolType
  <2> QED BY <1>1, <2>3, <2>4 DEF MpzClear, PoolType, HeapType, heap
<1>2. CASE ~ (n_alloc[t] < NEntries /\ ALLOC(z) <= MaxSize)
  BY <1>2, GmpClearType DEF MpzClear, PoolType, pool
<1> QED BY <1>1, <1>2

LEMMA TempType ==
  ASSUME TypeOK, NEW t \in Threads, NEW z \in Temps, NEW m \in Mpz \cup {Dead},
         temp' = [temp EXCEPT ![t][z] = m]
  PROVE  temp' \in [Threads -> [Temps -> Mpz \cup {Dead}]]
<1>1. [temp[t] EXCEPT ![z] = m] \in [Temps -> Mpz \cup {Dead}]
  BY DEF TypeOK
<1>2. temp' = [temp EXCEPT ![t] = [temp[t] EXCEPT ![z] = m]]
  OBVIOUS
<1> QED BY <1>1, <1>2 DEF TypeOK

LEMMA TypeStep ==
  ASSUME TypeOK, [Next]_vars
  PROVE  TypeOK'
<1> HeapType /\ PoolType
  BY DEF TypeOK, HeapType, PoolType
<1>1. ASSUME NEW t \in Threads,
             \/ Enter(t) \/ Leave(t) \/ BernoulliExtended(t) \/ FreeLocalCache(t)
             \/ FreeBernoulliTable(t) \/ FreePool(t) \/ PoolFreed(t)
      PROVE  TypeOK'
  <2> USE DEF TypeOK, Pcs, heap, pool, bernoulli
  <2>1. CASE Enter(t) BY <2>1 DEF Enter
  <2>2. CASE Leave(t) BY <2>2 DEF Leave
  <2>3. CASE BernoulliExtended(t) BY <2>3 DEF BernoulliExtended, Indexes
  <2>4. CASE FreeLocalCache(t) BY <2>4 DEF FreeLocalCache
  <2>5. CASE FreeBernoulliTable(t) BY <2>5 DEF FreeBernoulliTable, Mpz
  <2>6. CASE FreePool(t) BY <2>6 DEF FreePool
  <2>7. CASE PoolFreed(t) BY <2>7 DEF PoolFreed
  <2> QED BY <1>1, <2>1, <2>2, <2>3, <2>4, <2>5, <2>6, <2>7
<1>2. ASSUME NEW t \in Threads, FreeBernoulliEntry(t)
      PROVE  TypeOK'
  <2>1. bernoulli_table[t][i[t]] \in Mpz
    BY <1>2 DEF FreeBernoulliEntry, TypeOK, Indexes
  <2>2. HeapType' /\ PoolType'
    BY <1>2, <2>1, MpzClearType DEF FreeBernoulliEntry
  <2>3. i' \in [Threads -> Nat]
    BY <1>2 DEF FreeBernoulliEntry, TypeOK
  <2>4. UNCHANGED <<allocator, pc, temp, bernoulli_table, bernoulli_size, bernoulli_alloc,
                    table_by, n>>
    BY <1>2 DEF FreeBernoulliEntry, bernoulli
  <2> QED BY <2>2, <2>3, <2>4 DEF TypeOK, HeapType, PoolType
<1>3. ASSUME NEW t \in Threads, FreePoolEntry(t)
      PROVE  TypeOK'
  <2>1. HeapType'
    BY <1>3, GmpClearType DEF FreePoolEntry
  <2> QED BY <1>3, <2>1 DEF FreePoolEntry, TypeOK, HeapType, pool, bernoulli
<1>4. ASSUME NEW t \in Threads, NEW z \in Temps, InitTemp(t, z)
      PROVE  TypeOK'
  <2>1. PICK m \in Mpz : MpzInit(t, m) /\ temp' = [temp EXCEPT ![t][z] = m]
    BY <1>4 DEF InitTemp
  <2>2. PoolType'
    BY <2>1, MpzInitType
  <2> QED BY <1>4, <2>1, <2>2, TempType DEF InitTemp, TypeOK, PoolType, heap, bernoulli
<1>5. ASSUME NEW t \in Threads, NEW z \in Temps, ClearTemp(t, z)
      PROVE  TypeOK'
  <2>1. temp[t][z] \in Mpz
    BY <1>5 DEF ClearTemp, TypeOK
  <2>2. HeapType' /\ PoolType'
    BY <1>5, <2>1, MpzClearType DEF ClearTemp
  <2> QED BY <1>5, <2>2, TempType DEF ClearTemp, TypeOK, HeapType, PoolType, bernoulli
<1>6. ASSUME NEW t \in Threads, NEW m \in Indexes, BernoulliCache(t, m)
      PROVE  TypeOK'
  <2>1. bernoulli_alloc' \in [Threads -> Nat]
    BY <1>6, LargerType, GrowthAssumption DEF BernoulliCache, TypeOK
  <2>2. bernoulli_size' \in [Threads -> 0 .. MaxIndex + 1]
    <3>1. bernoulli_size \in [Threads -> 0 .. MaxIndex + 1] /\ 0 \in 0 .. MaxIndex + 1
      BY SizesAssumption DEF TypeOK
    <3>2. \/ bernoulli_size' = [bernoulli_size EXCEPT ![t] = 0]
          \/ bernoulli_size' = bernoulli_size
      BY <1>6 DEF BernoulliCache
    <3> QED BY <3>1, <3>2
  <2>3. table_by' \in [Threads -> Allocators \cup {Nobody}]
    BY <1>6 DEF BernoulliCache, TypeOK
  <2>4. /\ n' \in [Threads -> Indexes] /\ i' \in [Threads -> Nat] /\ pc' \in [Threads -> Pcs]
        /\ UNCHANGED <<allocator, limbs, by, temp, n_alloc, mpz_tab, bernoulli_table>>
    BY <1>6 DEF BernoulliCache, TypeOK, Pcs, heap, pool
  <2> QED BY <2>1, <2>2, <2>3, <2>4 DEF TypeOK
<1>7. ASSUME NEW t \in Threads, NEW size \in Sizes, NEW b \in Blocks,
             BernoulliInternal(t, size, b)
      PROVE  TypeOK'
  <2>1. PICK m \in Mpz : MpzInit(t, m) /\ SetLimbs(m, size, b)
    BY <1>7 DEF BernoulliInternal
  <2>2. HeapType' /\ PoolType'
    BY <2>1, MpzInitType, SetLimbsType DEF TypeOK
  <2>3. [bernoulli_table[t] EXCEPT ![i[t]] = b] \in [Indexes -> Mpz]
    BY DEF TypeOK, Mpz
  <2>4. bernoulli_table' = [bernoulli_table EXCEPT ![t] = [bernoulli_table[t] EXCEPT ![i[t]] = b]]
    BY <1>7 DEF BernoulliInternal
  <2>5. bernoulli_table' \in [Threads -> [Indexes -> Mpz]]
    BY <2>3, <2>4 DEF TypeOK
  <2> QED BY <1>7, <2>2, <2>5 DEF BernoulliInternal, TypeOK, HeapType, PoolType
<1>8. ASSUME NEW t \in Threads, NEW size \in Sizes, NEW b \in Blocks, NEW z \in Temps,
             Init2Temp(t, z, size, b)
      PROVE  TypeOK'
  <2>1. CASE n_alloc[t] > 0 /\ size <= MaxSize
    <3>1. PoolType' /\ Top(t) \in Mpz
      BY <1>8, <2>1, PopType DEF Init2Temp
    <3> QED BY <1>8, <2>1, <3>1, TempType DEF Init2Temp, TypeOK, PoolType, heap, bernoulli
  <2>2. CASE ~ (n_alloc[t] > 0 /\ size <= MaxSize)
    <3>1. HeapType'
      BY <1>8, <2>2, SetLimbsType DEF Init2Temp, TypeOK
    <3>2. b \in Mpz
      BY DEF Mpz
    <3> QED BY <1>8, <2>2, <3>1, <3>2, TempType DEF Init2Temp, TypeOK, HeapType, pool, bernoulli
  <2> QED BY <2>1, <2>2
<1>9. ASSUME NEW t \in Threads, NEW size \in Sizes, NEW b \in Blocks, NEW z \in Temps,
             GrowTemp(t, z, size, b)
      PROVE  TypeOK'
  <2>1. HeapType'
    BY <1>9, SetLimbsType DEF GrowTemp, TypeOK
  <2>2. b \in Mpz
    BY DEF Mpz
  <2> QED BY <1>9, <2>1, <2>2, TempType DEF GrowTemp, TypeOK, HeapType, pool, bernoulli
<1>10. ASSUME NEW a \in Allocators, SetMemoryFunctions(a)
       PROVE  TypeOK'
  BY <1>10 DEF SetMemoryFunctions, TypeOK, heap, pool, bernoulli
<1>11. CASE UNCHANGED vars
  BY <1>11 DEF vars, TypeOK, heap, pool, bernoulli
<1> QED
  BY <1>1, <1>2, <1>3, <1>4, <1>5, <1>6, <1>7, <1>8, <1>9, <1>10, <1>11, NextSteps

\* Every variable keeps its type: in particular the stack never holds more mpz_t's
\* than MPFR_POOL_NENTRIES nor fewer than none (the assertions of pool.c).
THEOREM TypeCorrect == Spec => []TypeOK
BY InitType, TypeStep, PTL DEF Spec

-----------------------------------------------------------------------------
(* Control *)

LEMMA LargerMakesRoom == \A m \in Indexes : m >= MinAlloc => m < Larger(m)
BY GrowthAssumption DEF Larger, Indexes

LEMMA InitControl == Init => Controls
<1> SUFFICES ASSUME Init, NEW t \in Threads PROVE Control(t)
  BY DEF Controls
<1>1. /\ pc[t] = "fresh" /\ temp[t] = [z \in Temps |-> Dead]
      /\ n_alloc[t] = 0 /\ bernoulli_size[t] = 0 /\ bernoulli_alloc[t] = 0
  BY DEF Init
<1> QED BY <1>1 DEF Control

LEMMA ControlStep ==
  ASSUME TypeOK, Controls, [Next]_vars
  PROVE  Controls'
<1> SUFFICES ASSUME NEW u \in Threads PROVE Control(u)'
  BY DEF Controls
<1> Control(u)
  BY DEF Controls
<1>1. ASSUME NEW t \in Threads,
             \/ Enter(t) \/ Leave(t) \/ BernoulliExtended(t) \/ FreeLocalCache(t)
             \/ FreeBernoulliTable(t) \/ FreePool(t) \/ PoolFreed(t)
      PROVE  Control(u)'
  <2> USE DEF TypeOK, Control, Inside, Outside, heap, pool, bernoulli
  <2>1. CASE Enter(t) BY <2>1 DEF Enter
  <2>2. CASE Leave(t) BY <2>2 DEF Leave
  <2>3. CASE BernoulliExtended(t) BY <2>3 DEF BernoulliExtended, Indexes
  <2>4. CASE FreeLocalCache(t) BY <2>4 DEF FreeLocalCache
  <2>5. CASE FreeBernoulliTable(t) BY <2>5 DEF FreeBernoulliTable
  <2>6. CASE FreePool(t) BY <2>6 DEF FreePool
  <2>7. CASE PoolFreed(t) BY <2>7 DEF PoolFreed
  <2> QED BY <1>1, <2>1, <2>2, <2>3, <2>4, <2>5, <2>6, <2>7
<1>2. ASSUME NEW t \in Threads, FreeBernoulliEntry(t)
      PROVE  Control(u)'
  BY <1>2 DEF FreeBernoulliEntry, MpzClear, TypeOK, Control, Inside, pool, bernoulli
<1>3. ASSUME NEW t \in Threads, FreePoolEntry(t)
      PROVE  Control(u)'
  BY <1>3 DEF FreePoolEntry, TypeOK, Control, Inside, pool, bernoulli
<1>4. ASSUME NEW t \in Threads, NEW z \in Temps, InitTemp(t, z)
      PROVE  Control(u)'
  BY <1>4 DEF InitTemp, MpzInit, Pop, TypeOK, Control, Inside, pool, bernoulli
<1>5. ASSUME NEW t \in Threads, NEW z \in Temps, ClearTemp(t, z)
      PROVE  Control(u)'
  BY <1>5 DEF ClearTemp, MpzClear, TypeOK, Control, Inside, pool, bernoulli
<1>6. ASSUME NEW t \in Threads, NEW m \in Indexes, BernoulliCache(t, m)
      PROVE  Control(u)'
  <2>1. /\ m \in Nat /\ Larger(m) \in Nat /\ MinAlloc \in Nat /\ MinAlloc > 0
        /\ m < Larger(m) \/ m < MinAlloc
        /\ bernoulli_size \in [Threads -> Nat] /\ bernoulli_alloc \in [Threads -> Nat]
    <3>1. bernoulli_size \in [Threads -> Nat] /\ bernoulli_alloc \in [Threads -> Nat]
      BY DEF TypeOK
    <3>2. m \in Nat /\ MinAlloc \in Nat /\ MinAlloc > 0
      BY GrowthAssumption DEF Indexes
    <3>3. Larger(m) \in Nat /\ (m < Larger(m) \/ m < MinAlloc)
      BY <3>2, LargerType, LargerMakesRoom
    <3> QED BY <3>1, <3>2, <3>3
  <2>2. CASE u = t
    <3>1. /\ m < bernoulli_alloc'[t] /\ bernoulli_alloc'[t] \in Nat
          /\ bernoulli_alloc'[t] >= MinAlloc
      <4>1. CASE bernoulli_alloc[t] = 0
        <5>1. bernoulli_alloc'[t] = IF Larger(m) > MinAlloc THEN Larger(m) ELSE MinAlloc
          BY <1>6, <2>1, <4>1 DEF BernoulliCache
        <5> QED BY <2>1, <5>1
      <4>2. CASE bernoulli_alloc[t] # 0 /\ m >= bernoulli_alloc[t]
        <5>1. bernoulli_alloc'[t] = Larger(m)
          BY <1>6, <2>1, <4>2 DEF BernoulliCache
        <5> QED BY <2>1, <4>2, <5>1 DEF Control, Controls
      <4>3. CASE bernoulli_alloc[t] # 0 /\ m < bernoulli_alloc[t]
        <5>1. bernoulli_alloc'[t] = bernoulli_alloc[t]
          BY <1>6, <2>1, <4>3 DEF BernoulliCache
        <5> QED BY <2>1, <4>3, <5>1 DEF Control, Controls
      <4> QED BY <2>1, <4>1, <4>2, <4>3
    <3>2. bernoulli_size'[t] = bernoulli_size[t] \/ bernoulli_size'[t] = 0
      <4>1. bernoulli_size' = [bernoulli_size EXCEPT ![t] = 0] \/ bernoulli_size' = bernoulli_size
        BY <1>6 DEF BernoulliCache
      <4> QED BY <2>1, <4>1
    <3>3. bernoulli_size[t] <= m /\ i'[t] = bernoulli_size[t] /\ n'[t] = m /\ pc'[t] = "extending"
      BY <1>6 DEF BernoulliCache, TypeOK
    <3> QED BY <2>1, <2>2, <3>1, <3>2, <3>3 DEF Control, Inside
  <2>3. CASE u # t
    <3>1. /\ bernoulli_size'[u] = bernoulli_size[u] /\ bernoulli_alloc'[u] = bernoulli_alloc[u]
          /\ pc'[u] = pc[u] /\ i'[u] = i[u] /\ n'[u] = n[u]
          /\ temp'[u] = temp[u] /\ n_alloc'[u] = n_alloc[u]
      BY <1>6, <2>3 DEF BernoulliCache, TypeOK, pool
    <3> QED BY <3>1 DEF Control
  <2> QED BY <2>2, <2>3
<1>7. ASSUME NEW t \in Threads, NEW size \in Sizes, NEW b \in Blocks,
             BernoulliInternal(t, size, b)
      PROVE  Control(u)'
  <2>1. /\ UNCHANGED <<pc, temp, bernoulli_size, bernoulli_alloc, n>>
        /\ pc[t] = "extending" /\ i[t] <= n[t]
        /\ i' = [i EXCEPT ![t] = @ + 1]
    BY <1>7 DEF BernoulliInternal
  <2>2. u # t => n_alloc'[u] = n_alloc[u]
    BY <1>7 DEF BernoulliInternal, MpzInit, Pop, pool, TypeOK
  <2> QED BY SMTT(60), <2>1, <2>2 DEF TypeOK, Control, Inside, Indexes
<1>8. ASSUME NEW t \in Threads, NEW size \in Sizes, NEW b \in Blocks, NEW z \in Temps,
             Init2Temp(t, z, size, b)
      PROVE  Control(u)'
  BY <1>8 DEF Init2Temp, Pop, TypeOK, Control, Inside, pool, bernoulli
<1>9. ASSUME NEW t \in Threads, NEW size \in Sizes, NEW b \in Blocks, NEW z \in Temps,
             GrowTemp(t, z, size, b)
      PROVE  Control(u)'
  BY <1>9 DEF GrowTemp, TypeOK, Control, Inside, pool, bernoulli
<1>10. ASSUME NEW a \in Allocators, SetMemoryFunctions(a)
       PROVE  Control(u)'
  BY <1>10 DEF SetMemoryFunctions, Control, Inside, pool, bernoulli
<1>11. CASE UNCHANGED vars
  BY <1>11 DEF vars, Control, Inside, pool, bernoulli
<1> QED
  BY <1>1, <1>2, <1>3, <1>4, <1>5, <1>6, <1>7, <1>8, <1>9, <1>10, <1>11, NextSteps

-----------------------------------------------------------------------------
(* Ownership *)

\* The places in use after a step, from what the step does to each kind of place.
LEMMA SamePlaces ==
  ASSUME \A u \in Threads, k \in Slots : SlotInUse(u, k)' <=> SlotInUse(u, k),
         \A u \in Threads, k \in Indexes : EntryInUse(u, k)' <=> EntryInUse(u, k),
         \A u \in Threads, k \in Temps : TempInUse(u, k)' <=> TempInUse(u, k)
  PROVE  PlacesInUse' = PlacesInUse
BY PlaceKinds, InUseFacts, InUseFactsPrime

LEMMA SameContents ==
  ASSUME \A u \in Threads, k \in Slots : SlotInUse(u, k) => mpz_tab'[u][k] = mpz_tab[u][k],
         \A u \in Threads, k \in Indexes :
           EntryInUse(u, k) => bernoulli_table'[u][k] = bernoulli_table[u][k],
         \A u \in Threads, k \in Temps : TempInUse(u, k) => temp'[u][k] = temp[u][k]
  PROVE  SameOn(PlacesInUse, Contents, Contents')
BY PlaceKinds, InUseFacts, ContentsFacts, ContentsFactsPrime DEF SameOn

LEMMA OwnershipKept ==
  ASSUME Ownership, PlacesInUse' = PlacesInUse, SameOn(PlacesInUse, Contents, Contents'),
         UNCHANGED limbs
  PROVE  Ownership'
BY DEF Ownership, Owned, SameOn

LEMMA InitOwnership == Init => Ownership
<1> SUFFICES ASSUME Init PROVE Ownership
  OBVIOUS
<1>1. /\ \A t \in Threads, k \in Slots : ~ SlotInUse(t, k)
      /\ \A t \in Threads, k \in Indexes : ~ EntryInUse(t, k)
      /\ \A t \in Threads, k \in Temps : ~ TempInUse(t, k)
  BY DEF Init, SlotInUse, EntryInUse, TempInUse, Slots, Indexes
<1>2. PlacesInUse = {}
  BY <1>1, PlaceKinds, InUseFacts
<1>3. \A b \in Blocks : limbs[b] = 0
  BY DEF Init
<1> QED BY <1>2, <1>3 DEF Ownership, Owned

\* The steps that only move the control do not touch the stack.
LEMMA ControlStepSlots ==
  ASSUME TypeOK, Controls, NEW t \in Threads,
         \/ Enter(t) \/ Leave(t) \/ BernoulliExtended(t) \/ FreeLocalCache(t)
         \/ FreeBernoulliTable(t) \/ FreePool(t) \/ PoolFreed(t)
         \/ \E m \in Indexes : BernoulliCache(t, m)
  PROVE  \A u \in Threads, k \in Slots : SlotInUse(u, k)' <=> SlotInUse(u, k)
<1> Control(t)
  BY DEF Controls
<1> USE DEF TypeOK, SlotInUse, Slots, pool, Control
<1>1. CASE Enter(t) BY <1>1 DEF Enter, Outside
<1>2. CASE Leave(t) BY <1>2 DEF Leave
<1>3. CASE BernoulliExtended(t) BY <1>3 DEF BernoulliExtended
<1>4. CASE FreeLocalCache(t) BY <1>4 DEF FreeLocalCache, Outside
<1>5. CASE FreeBernoulliTable(t) BY <1>5 DEF FreeBernoulliTable
<1>6. CASE FreePool(t) BY <1>6 DEF FreePool, Outside
<1>7. CASE PoolFreed(t) BY <1>7 DEF PoolFreed
<1>8. CASE \E m \in Indexes : BernoulliCache(t, m) BY <1>8 DEF BernoulliCache
<1> QED BY <1>1, <1>2, <1>3, <1>4, <1>5, <1>6, <1>7, <1>8

\* The steps that only move the control.
LEMMA ControlStepOwnership ==
  ASSUME TypeOK, Controls, Ownership, NEW t \in Threads,
         \/ Enter(t) \/ Leave(t) \/ BernoulliExtended(t) \/ FreeLocalCache(t)
         \/ FreeBernoulliTable(t) \/ FreePool(t) \/ PoolFreed(t)
         \/ \E m \in Indexes : BernoulliCache(t, m)
  PROVE  Ownership'
<1> Control(t)
  BY DEF Controls
<1>1. UNCHANGED <<limbs, mpz_tab, temp>>
  BY DEF Enter, Leave, BernoulliExtended, FreeLocalCache, FreeBernoulliTable, FreePool,
     PoolFreed, BernoulliCache, heap, pool
<1>2. \A u \in Threads, k \in Slots : SlotInUse(u, k)' <=> SlotInUse(u, k)
  BY ControlStepSlots
<1>3. \A u \in Threads, k \in Indexes : EntryInUse(u, k)' <=> EntryInUse(u, k)
  <2> USE DEF TypeOK, EntryInUse, Indexes, bernoulli, Control
  <2>1. CASE Enter(t) BY <2>1 DEF Enter, Outside
  <2>2. CASE Leave(t) BY <2>2 DEF Leave
  <2>3. CASE BernoulliExtended(t) BY <2>3 DEF BernoulliExtended
  <2>4. CASE FreeLocalCache(t) BY <2>4 DEF FreeLocalCache, Outside
  <2>5. CASE FreeBernoulliTable(t) BY <2>5 DEF FreeBernoulliTable
  <2>6. CASE FreePool(t) BY <2>6 DEF FreePool, Outside
  <2>7. CASE PoolFreed(t) BY <2>7 DEF PoolFreed
  <2>8. CASE \E m \in Indexes : BernoulliCache(t, m) BY <2>8 DEF BernoulliCache
  <2> QED BY <2>1, <2>2, <2>3, <2>4, <2>5, <2>6, <2>7, <2>8
<1>4. \A u \in Threads, k \in Indexes :
        EntryInUse(u, k) => bernoulli_table'[u][k] = bernoulli_table[u][k]
  <2>1. CASE FreeBernoulliTable(t)
    BY <2>1 DEF FreeBernoulliTable, TypeOK, EntryInUse, Indexes
  <2>2. CASE ~ FreeBernoulliTable(t)
    <3>1. UNCHANGED bernoulli_table
      BY <2>2 DEF Enter, Leave, BernoulliExtended, FreeLocalCache, FreePool, PoolFreed,
         BernoulliCache, bernoulli
    <3> QED BY <3>1
  <2> QED BY <2>1, <2>2
<1>5. \A u \in Threads, k \in Temps : TempInUse(u, k)' <=> TempInUse(u, k)
  BY <1>1 DEF TempInUse
<1> QED
  BY <1>1, <1>2, <1>3, <1>4, <1>5, SamePlaces, SameContents, OwnershipKept

\* The top of the stack leaves its slot; what is below stays.
LEMMA PopSlots ==
  ASSUME TypeOK, NEW t \in Threads, n_alloc[t] > 0, Pop(t), UNCHANGED pc, pc[t] \in Inside,
         \A u \in Threads : u # t => i'[u] = i[u]
  PROVE  /\ n_alloc[t] - 1 \in Slots /\ SlotInUse(t, n_alloc[t] - 1)
         /\ \A u \in Threads, k \in Slots :
              SlotInUse(u, k)' <=> SlotInUse(u, k) /\ ~ (u = t /\ k = n_alloc[t] - 1)
<1>1. /\ n_alloc[t] \in 0 .. NEntries /\ n_alloc'[t] = n_alloc[t] - 1
      /\ \A u \in Threads : u # t => n_alloc'[u] = n_alloc[u]
  BY DEF TypeOK, Pop
<1>2. pc[t] \notin {"free_pool", "free_local_pool"}
  BY DEF Inside
<1>3. ASSUME NEW u \in Threads, NEW k \in Slots
      PROVE  SlotInUse(u, k)' <=> SlotInUse(u, k) /\ ~ (u = t /\ k = n_alloc[t] - 1)
  <2>1. CASE u = t
    BY <1>1, <1>2, <2>1 DEF SlotInUse, Slots
  <2>2. CASE u # t
    BY <1>1, <2>2 DEF SlotInUse
  <2> QED BY <2>1, <2>2
<1> QED BY <1>1, <1>2, <1>3 DEF SlotInUse, Slots

\* An mpz_t comes to the slot above the others.
LEMMA PushSlots ==
  ASSUME TypeOK, NEW t \in Threads, n_alloc[t] < NEntries, NEW z \in Mpz,
         mpz_tab' = [mpz_tab EXCEPT ![t][n_alloc[t]] = z],
         n_alloc' = [n_alloc EXCEPT ![t] = @ + 1],
         UNCHANGED pc, pc[t] \notin {"free_pool", "free_local_pool"},
         \A u \in Threads : u # t => i'[u] = i[u]
  PROVE  /\ n_alloc[t] \in Slots /\ ~ SlotInUse(t, n_alloc[t]) /\ mpz_tab'[t][n_alloc[t]] = z
         /\ \A u \in Threads, k \in Slots :
              SlotInUse(u, k)' <=> SlotInUse(u, k) \/ (u = t /\ k = n_alloc[t])
         /\ \A u \in Threads, k \in Slots : SlotInUse(u, k) => mpz_tab'[u][k] = mpz_tab[u][k]
<1>1. n_alloc[t] \in Slots
  BY DEF TypeOK, Slots
<1>2. /\ mpz_tab'[t][n_alloc[t]] = z
      /\ \A u \in Threads, k \in Slots : ~ (u = t /\ k = n_alloc[t]) => mpz_tab'[u][k] = mpz_tab[u][k]
  BY <1>1 DEF TypeOK
<1>3. ASSUME NEW u \in Threads, NEW k \in Slots
      PROVE  SlotInUse(u, k)' <=> SlotInUse(u, k) \/ (u = t /\ k = n_alloc[t])
  <2>1. n_alloc[t] \in Nat /\ k \in Nat
    BY DEF TypeOK, Slots
  <2>2. CASE u = t
    <3>1. n_alloc'[u] = n_alloc[t] + 1
      BY <2>2 DEF TypeOK
    <3> QED
      BY <2>1, <2>2, <3>1 DEF SlotInUse
  <2>3. CASE u # t
    <3>1. n_alloc'[u] = n_alloc[u] /\ i'[u] = i[u]
      BY <2>3 DEF TypeOK
    <3> QED
      BY <2>3, <3>1 DEF SlotInUse
  <2> QED BY <2>2, <2>3
<1> QED BY <1>1, <1>2, <1>3 DEF SlotInUse, TypeOK

\* Another mpz_t in a temporary, or none.
LEMMA TempPlaces ==
  ASSUME TypeOK, NEW t \in Threads, NEW z \in Temps, NEW m,
         temp' = [temp EXCEPT ![t][z] = m]
  PROVE  /\ temp'[t][z] = m
         /\ \A u \in Threads, k \in Temps : ~ (u = t /\ k = z) =>
              temp'[u][k] = temp[u][k] /\ (TempInUse(u, k)' <=> TempInUse(u, k))
<1>1. temp'[t][z] = m /\ \A u \in Threads, k \in Temps : ~ (u = t /\ k = z) => temp'[u][k] = temp[u][k]
  BY DEF TypeOK
<1> QED BY <1>1 DEF TempInUse

LEMMA SameEntries ==
  ASSUME UNCHANGED <<pc, i, bernoulli>>
  PROVE  \A u \in Threads, k \in Indexes :
           /\ EntryInUse(u, k)' <=> EntryInUse(u, k)
           /\ bernoulli_table'[u][k] = bernoulli_table[u][k]
BY DEF EntryInUse, bernoulli

LEMMA SameSlots ==
  ASSUME UNCHANGED <<pc, i, pool>>
  PROVE  \A u \in Threads, k \in Slots :
           /\ SlotInUse(u, k)' <=> SlotInUse(u, k)
           /\ mpz_tab'[u][k] = mpz_tab[u][k]
BY DEF SlotInUse, pool

\* A temporary that is initialised from the pool.
LEMMA PopTempOwnership ==
  ASSUME TypeOK, Ownership, NEW t \in Threads, NEW z \in Temps, pc[t] \in Inside,
         n_alloc[t] > 0, Pop(t), temp[t][z] = Dead, temp' = [temp EXCEPT ![t][z] = Top(t)],
         UNCHANGED <<pc, i, bernoulli, limbs>>
  PROVE  Ownership'
<1> DEFINE p == <<"pool", t, n_alloc[t] - 1>>
           q == <<"temp", t, z>>
<1>1. /\ n_alloc[t] - 1 \in Slots /\ SlotInUse(t, n_alloc[t] - 1)
      /\ \A u \in Threads, k \in Slots :
           SlotInUse(u, k)' <=> SlotInUse(u, k) /\ ~ (u = t /\ k = n_alloc[t] - 1)
  BY PopSlots
<1>0. /\ temp'[t][z] = Top(t)
      /\ \A u \in Threads, k \in Temps : ~ (u = t /\ k = z) =>
           temp'[u][k] = temp[u][k] /\ (TempInUse(u, k)' <=> TempInUse(u, k))
  BY TempPlaces
<1>2. Top(t) # Dead
  BY <1>1, NamesAssumption DEF Top, TypeOK, Mpz, Lazy, Dead
<1>3. p \in PlacesInUse /\ q \notin PlacesInUse
  BY <1>1, InUseFacts DEF TempInUse
<1>4. PlacesInUse' = (PlacesInUse \ {p}) \cup {q}
  BY <1>1, <1>2, <1>3, <1>0, SameEntries, PlaceKinds, InUseFacts, InUseFactsPrime DEF TempInUse
<1>5. SameOn(PlacesInUse \ {p}, Contents, Contents')
  <2>1. UNCHANGED mpz_tab
    BY DEF Pop
  <2> QED
    BY <1>3, <2>1, <1>0, SameEntries, PlaceKinds, InUseFacts, ContentsFacts, ContentsFactsPrime
    DEF SameOn
<1>6. Contents'[q] = Contents[p]
  BY <1>0, <1>1, ContentsFacts, ContentsFactsPrime DEF Top
<1> QED
  BY <1>3, <1>4, <1>5, <1>6, OwnedMove DEF Ownership

\* A temporary that is initialised without limbs.
LEMMA LazyTempOwnership ==
  ASSUME TypeOK, Ownership, NEW t \in Threads, NEW z \in Temps,
         temp[t][z] = Dead, temp' = [temp EXCEPT ![t][z] = Lazy],
         UNCHANGED <<pc, i, pool, bernoulli, limbs>>
  PROVE  Ownership'
<1> DEFINE q == <<"temp", t, z>>
<1>1. /\ temp'[t][z] = Lazy
      /\ \A u \in Threads, k \in Temps : ~ (u = t /\ k = z) =>
           temp'[u][k] = temp[u][k] /\ (TempInUse(u, k)' <=> TempInUse(u, k))
  BY TempPlaces
<1>2. q \notin PlacesInUse
  BY InUseFacts DEF TempInUse
<1>3. PlacesInUse' = PlacesInUse \cup {q}
  <2>1. TempInUse(t, z)'
    BY <1>1 DEF TempInUse, Lazy, Dead
  <2> QED BY <1>1, <2>1, SameSlots, SameEntries, PlaceKinds, InUseFacts, InUseFactsPrime
<1>4. SameOn(PlacesInUse, Contents, Contents')
  BY <1>1, <1>2, SameSlots, SameEntries, PlaceKinds, InUseFacts, ContentsFacts, ContentsFactsPrime
  DEF SameOn
<1>5. Contents'[q] = Lazy
  BY <1>1, ContentsFactsPrime
<1> QED
  BY <1>2, <1>3, <1>4, <1>5, OwnedLazy DEF Ownership

\* A temporary that is initialised with limbs of its own.
LEMMA NewTempOwnership ==
  ASSUME TypeOK, Ownership, NEW t \in Threads, NEW z \in Temps,
         NEW size \in Sizes, NEW b \in Blocks, limbs[b] = 0, SetLimbs(Lazy, size, b),
         temp[t][z] = Dead, temp' = [temp EXCEPT ![t][z] = b],
         UNCHANGED <<pc, i, pool, bernoulli>>
  PROVE  Ownership'
<1> DEFINE q == <<"temp", t, z>>
<1>1. /\ temp'[t][z] = b
      /\ \A u \in Threads, k \in Temps : ~ (u = t /\ k = z) =>
           temp'[u][k] = temp[u][k] /\ (TempInUse(u, k)' <=> TempInUse(u, k))
  BY TempPlaces
<1>2. q \notin PlacesInUse
  BY InUseFacts DEF TempInUse
<1>3. PlacesInUse' = PlacesInUse \cup {q}
  <2>1. TempInUse(t, z)'
    BY <1>1, NamesAssumption DEF TempInUse
  <2> QED BY <1>1, <2>1, SameSlots, SameEntries, PlaceKinds, InUseFacts, InUseFactsPrime
<1>4. SameOn(PlacesInUse, Contents, Contents')
  BY <1>1, <1>2, SameSlots, SameEntries, PlaceKinds, InUseFacts, ContentsFacts, ContentsFactsPrime
  DEF SameOn
<1>5. Contents'[q] = b
  BY <1>1, ContentsFactsPrime
<1>6. limbs \in [Blocks -> Nat] /\ size \in Nat \ {0}
  BY DEF TypeOK, Sizes
<1> QED
  BY SMTT(60), <1>2, <1>3, <1>4, <1>5, <1>6, OwnedNew DEF Ownership, SetLimbs

LEMMA GrowTempOwnership ==
  ASSUME TypeOK, Ownership, NEW t \in Threads, NEW z \in Temps,
         NEW size \in Sizes, NEW b \in Blocks, GrowTemp(t, z, size, b)
  PROVE  Ownership'
<1> DEFINE q == <<"temp", t, z>>
<1>1. /\ temp'[t][z] = b
      /\ \A u \in Threads, k \in Temps : ~ (u = t /\ k = z) =>
           temp'[u][k] = temp[u][k] /\ (TempInUse(u, k)' <=> TempInUse(u, k))
  <2>1. temp' = [temp EXCEPT ![t][z] = b]
    BY DEF GrowTemp
  <2> QED BY <2>1, TempPlaces
<1>2. q \in PlacesInUse /\ Contents[q] = temp[t][z]
  BY InUseFacts, ContentsFacts DEF TempInUse, GrowTemp
<1>u. UNCHANGED <<pc, i, pool, bernoulli>>
  BY DEF GrowTemp
<1>3. PlacesInUse' = PlacesInUse
  <2>1. TempInUse(t, z)' /\ TempInUse(t, z)
    BY <1>1, NamesAssumption DEF TempInUse, GrowTemp
  <2> QED BY <1>1, <1>u, <2>1, SameSlots, SameEntries, SamePlaces
<1>4. SameOn(PlacesInUse \ {q}, Contents, Contents')
  BY <1>1, <1>u, SameSlots, SameEntries, PlaceKinds, InUseFacts, ContentsFacts, ContentsFactsPrime
  DEF SameOn
<1>5. Contents'[q] = b
  BY <1>1, ContentsFactsPrime
<1>6. limbs \in [Blocks -> Nat] /\ size \in Nat \ {0} /\ (b = Contents[q] \/ limbs[b] = 0)
  BY <1>2 DEF TypeOK, Sizes, GrowTemp, SetLimbs
<1>7. limbs' = [c \in Blocks |-> IF c = b THEN size ELSE IF c = Contents[q] THEN 0 ELSE limbs[c]]
  BY <1>2 DEF GrowTemp, SetLimbs
<1> QED
  BY <1>2, <1>3, <1>4, <1>5, <1>6, <1>7, OwnedGrow DEF Ownership

LEMMA ClearTempOwnership ==
  ASSUME TypeOK, Ownership, NEW t \in Threads, NEW z \in Temps, ClearTemp(t, z)
  PROVE  Ownership'
<1> DEFINE p == <<"temp", t, z>>
           q == <<"pool", t, n_alloc[t]>>
           m == temp[t][z]
<1>1. /\ temp'[t][z] = Dead
      /\ \A u \in Threads, k \in Temps : ~ (u = t /\ k = z) =>
           temp'[u][k] = temp[u][k] /\ (TempInUse(u, k)' <=> TempInUse(u, k))
  <2>1. temp' = [temp EXCEPT ![t][z] = Dead]
    BY DEF ClearTemp
  <2> QED BY <2>1, TempPlaces
<1>2. p \in PlacesInUse /\ Contents[p] = m /\ m \in Mpz
  BY InUseFacts, ContentsFacts DEF TempInUse, ClearTemp, TypeOK
<1>3. ~ TempInUse(t, z)'
  BY <1>1 DEF TempInUse
<1>u. UNCHANGED <<pc, i, bernoulli>> /\ pc[t] \notin {"free_pool", "free_local_pool"}
  BY DEF ClearTemp, Inside
<1>4. CASE n_alloc[t] < NEntries /\ ALLOC(m) <= MaxSize
  <2>1. /\ n_alloc[t] \in Slots /\ ~ SlotInUse(t, n_alloc[t]) /\ mpz_tab'[t][n_alloc[t]] = m
        /\ \A u \in Threads, k \in Slots :
             SlotInUse(u, k)' <=> SlotInUse(u, k) \/ (u = t /\ k = n_alloc[t])
        /\ \A u \in Threads, k \in Slots : SlotInUse(u, k) => mpz_tab'[u][k] = mpz_tab[u][k]
    BY <1>2, <1>4, <1>u, PushSlots DEF ClearTemp, MpzClear
  <2>2. q \notin PlacesInUse
    BY <2>1, InUseFacts
  <2>3. PlacesInUse' = (PlacesInUse \ {p}) \cup {q}
    BY <1>1, <1>3, <1>u, <2>1, SameEntries, PlaceKinds, InUseFacts, InUseFactsPrime
  <2>4. SameOn(PlacesInUse \ {p}, Contents, Contents')
    BY <1>1, <1>u, <2>1, SameEntries, PlaceKinds, InUseFacts, ContentsFacts, ContentsFactsPrime
    DEF SameOn
  <2>5. Contents'[q] = Contents[p]
    BY <1>2, <2>1, ContentsFactsPrime
  <2>6. UNCHANGED limbs
    BY <1>4 DEF ClearTemp, MpzClear, heap
  <2> QED BY <1>2, <2>2, <2>3, <2>4, <2>5, <2>6, OwnedMove DEF Ownership
<1>5. CASE ~ (n_alloc[t] < NEntries /\ ALLOC(m) <= MaxSize)
  <2>1. UNCHANGED pool /\ limbs' = [c \in Blocks |-> IF c = Contents[p] THEN 0 ELSE limbs[c]]
    BY <1>2, <1>5 DEF ClearTemp, MpzClear, GmpClear
  <2>2. PlacesInUse' = PlacesInUse \ {p}
    BY <1>1, <1>3, <1>u, <2>1, SameSlots, SameEntries, PlaceKinds, InUseFacts, InUseFactsPrime
  <2>3. SameOn(PlacesInUse \ {p}, Contents, Contents')
    BY <1>1, <1>u, <2>1, SameSlots, SameEntries, PlaceKinds, InUseFacts, ContentsFacts,
       ContentsFactsPrime
    DEF SameOn
  <2>4. limbs \in [Blocks -> Nat]
    BY DEF TypeOK
  <2> QED BY <1>2, <2>1, <2>2, <2>3, <2>4, OwnedFree DEF Ownership
<1> QED BY <1>4, <1>5

\* An entry of the table is cleared, to the pool or not.
LEMMA FreeEntryOwnership ==
  ASSUME TypeOK, Ownership, NEW t \in Threads, FreeBernoulliEntry(t)
  PROVE  Ownership'
<1> DEFINE k0 == i[t]
           p == <<"table", t, k0>>
           q == <<"pool", t, n_alloc[t]>>
           m == bernoulli_table[t][k0]
<1>1. k0 \in Indexes /\ m \in Mpz /\ EntryInUse(t, k0)
  BY DEF FreeBernoulliEntry, TypeOK, EntryInUse, Indexes
<1>2. p \in PlacesInUse /\ Contents[p] = m
  BY <1>1, InUseFacts, ContentsFacts
<1>u. /\ UNCHANGED <<pc, temp, bernoulli>> /\ pc[t] = "free_bernoulli"
      /\ i'[t] = k0 + 1 /\ \A u \in Threads : u # t => i'[u] = i[u]
  BY DEF FreeBernoulliEntry, TypeOK
<1>3. /\ \A u \in Threads, k \in Indexes : EntryInUse(u, k)' <=> EntryInUse(u, k) /\ ~ (u = t /\ k = k0)
      /\ \A u \in Threads, k \in Indexes : bernoulli_table'[u][k] = bernoulli_table[u][k]
  BY SMTT(60), <1>u DEF EntryInUse, bernoulli, TypeOK, Indexes
<1>4. \A u \in Threads, k \in Temps :
        temp'[u][k] = temp[u][k] /\ (TempInUse(u, k)' <=> TempInUse(u, k))
  BY <1>u DEF TempInUse
<1>5. CASE n_alloc[t] < NEntries /\ ALLOC(m) <= MaxSize
  <2>1. /\ n_alloc[t] \in Slots /\ ~ SlotInUse(t, n_alloc[t]) /\ mpz_tab'[t][n_alloc[t]] = m
        /\ \A u \in Threads, k \in Slots :
             SlotInUse(u, k)' <=> SlotInUse(u, k) \/ (u = t /\ k = n_alloc[t])
        /\ \A u \in Threads, k \in Slots : SlotInUse(u, k) => mpz_tab'[u][k] = mpz_tab[u][k]
    BY <1>1, <1>5, <1>u, PushSlots DEF FreeBernoulliEntry, MpzClear
  <2>2. q \notin PlacesInUse
    BY <2>1, InUseFacts
  <2>3. PlacesInUse' = (PlacesInUse \ {p}) \cup {q}
    BY <1>1, <1>3, <1>4, <2>1, PlaceKinds, InUseFacts, InUseFactsPrime
  <2>4. SameOn(PlacesInUse \ {p}, Contents, Contents')
    BY <1>3, <1>4, <2>1, PlaceKinds, InUseFacts, ContentsFacts, ContentsFactsPrime
    DEF SameOn
  <2>5. Contents'[q] = Contents[p]
    BY <1>2, <2>1, ContentsFactsPrime
  <2>6. UNCHANGED limbs
    BY <1>5 DEF FreeBernoulliEntry, MpzClear, heap
  <2> QED BY <1>2, <2>2, <2>3, <2>4, <2>5, <2>6, OwnedMove DEF Ownership
<1>6. CASE ~ (n_alloc[t] < NEntries /\ ALLOC(m) <= MaxSize)
  <2>1. UNCHANGED pool /\ limbs' = [c \in Blocks |-> IF c = Contents[p] THEN 0 ELSE limbs[c]]
    BY <1>2, <1>6 DEF FreeBernoulliEntry, MpzClear, GmpClear
  <2>2. \A u \in Threads, k \in Slots :
          mpz_tab'[u][k] = mpz_tab[u][k] /\ (SlotInUse(u, k)' <=> SlotInUse(u, k))
    BY <1>u, <2>1 DEF SlotInUse, pool
  <2>3. PlacesInUse' = PlacesInUse \ {p}
    BY <1>1, <1>3, <1>4, <2>2, PlaceKinds, InUseFacts, InUseFactsPrime
  <2>4. SameOn(PlacesInUse \ {p}, Contents, Contents')
    BY <1>3, <1>4, <2>2, PlaceKinds, InUseFacts, ContentsFacts, ContentsFactsPrime
    DEF SameOn
  <2>5. limbs \in [Blocks -> Nat]
    BY DEF TypeOK
  <2> QED BY <1>2, <2>1, <2>3, <2>4, <2>5, OwnedFree DEF Ownership
<1> QED BY <1>5, <1>6

LEMMA FreeSlotOwnership ==
  ASSUME TypeOK, Ownership, NEW t \in Threads, FreePoolEntry(t)
  PROVE  Ownership'
<1> DEFINE k0 == i[t]
           p == <<"pool", t, k0>>
<1>1. k0 \in Slots /\ SlotInUse(t, k0)
  BY DEF FreePoolEntry, TypeOK, SlotInUse, Slots
<1>2. p \in PlacesInUse /\ Contents[p] = mpz_tab[t][k0]
  BY <1>1, InUseFacts, ContentsFacts
<1>u. /\ UNCHANGED <<pc, temp, pool, bernoulli>> /\ pc[t] \in {"free_pool", "free_local_pool"}
      /\ i'[t] = k0 + 1 /\ \A u \in Threads : u # t => i'[u] = i[u]
  BY DEF FreePoolEntry, TypeOK
<1>3. /\ \A u \in Threads, k \in Slots : SlotInUse(u, k)' <=> SlotInUse(u, k) /\ ~ (u = t /\ k = k0)
      /\ \A u \in Threads, k \in Slots : mpz_tab'[u][k] = mpz_tab[u][k]
  BY <1>u DEF SlotInUse, pool, TypeOK, Slots
<1>4. \A u \in Threads, k \in Indexes :
        /\ bernoulli_table'[u][k] = bernoulli_table[u][k]
        /\ EntryInUse(u, k)' <=> EntryInUse(u, k)
  BY <1>u DEF EntryInUse, bernoulli
<1>5. \A u \in Threads, k \in Temps :
        temp'[u][k] = temp[u][k] /\ (TempInUse(u, k)' <=> TempInUse(u, k))
  BY <1>u DEF TempInUse
<1>6. PlacesInUse' = PlacesInUse \ {p}
  BY <1>1, <1>3, <1>4, <1>5, PlaceKinds, InUseFacts, InUseFactsPrime
<1>7. SameOn(PlacesInUse \ {p}, Contents, Contents')
  BY <1>3, <1>4, <1>5, PlaceKinds, InUseFacts, ContentsFacts, ContentsFactsPrime
  DEF SameOn
<1>8. limbs \in [Blocks -> Nat] /\ limbs' = [c \in Blocks |-> IF c = Contents[p] THEN 0 ELSE limbs[c]]
  BY <1>2 DEF TypeOK, FreePoolEntry, GmpClear
<1> QED BY <1>2, <1>6, <1>7, <1>8, OwnedFree DEF Ownership

\* An entry is made, with an mpz_t of the pool or a new one.
LEMMA NewEntryOwnership ==
  ASSUME TypeOK, Controls, Ownership, NEW t \in Threads, NEW size \in Sizes, NEW b \in Blocks,
         BernoulliInternal(t, size, b)
  PROVE  Ownership'
<1> DEFINE k0 == i[t]
           p == <<"pool", t, n_alloc[t] - 1>>
           q == <<"table", t, k0>>
<1>1. PICK m \in Mpz : MpzInit(t, m) /\ SetLimbs(m, size, b)
  BY DEF BernoulliInternal
<1>2. k0 \in Indexes /\ ~ EntryInUse(t, k0)
  BY DEF BernoulliInternal, TypeOK, EntryInUse, Indexes
<1>u. /\ UNCHANGED <<pc, temp, bernoulli_size>> /\ pc[t] = "extending"
      /\ i'[t] = k0 + 1 /\ \A u \in Threads : u # t => i'[u] = i[u]
  BY DEF BernoulliInternal, TypeOK
<1>3. bernoulli_table'[t][k0] = b /\ \A u \in Threads, k \in Indexes :
        ~ (u = t /\ k = k0) => bernoulli_table'[u][k] = bernoulli_table[u][k]
  BY <1>2 DEF BernoulliInternal, TypeOK
<1>4. \A u \in Threads, k \in Indexes : EntryInUse(u, k)' <=> EntryInUse(u, k) \/ (u = t /\ k = k0)
  BY SMTT(60), <1>u, <1>2 DEF EntryInUse, TypeOK, Indexes
<1>5. \A u \in Threads, k \in Temps :
        temp'[u][k] = temp[u][k] /\ (TempInUse(u, k)' <=> TempInUse(u, k))
  BY <1>u DEF TempInUse
<1>6. q \notin PlacesInUse
  BY <1>2, InUseFacts
<1>7. Contents'[q] = b
  BY <1>2, <1>3, ContentsFactsPrime
<1>8. /\ limbs \in [Blocks -> Nat] /\ size \in Nat \ {0} /\ (b = m \/ limbs[b] = 0)
      /\ limbs' = [c \in Blocks |-> IF c = b THEN size ELSE IF c = m THEN 0 ELSE limbs[c]]
  BY <1>1 DEF TypeOK, Sizes, SetLimbs
<1>9. CASE n_alloc[t] > 0
  <2>1. m = Top(t) /\ Pop(t)
    BY <1>1, <1>9 DEF MpzInit
  <2>2. /\ n_alloc[t] - 1 \in Slots /\ SlotInUse(t, n_alloc[t] - 1)
        /\ \A u \in Threads, k \in Slots :
             SlotInUse(u, k)' <=> SlotInUse(u, k) /\ ~ (u = t /\ k = n_alloc[t] - 1)
    BY <1>u, <1>9, <2>1, PopSlots DEF Inside
  <2>3. p \in PlacesInUse /\ Contents[p] = m
    BY <2>1, <2>2, InUseFacts, ContentsFacts DEF Top
  <2>4. PlacesInUse' = (PlacesInUse \ {p}) \cup {q}
    BY <1>2, <1>4, <1>5, <2>2, PlaceKinds, InUseFacts, InUseFactsPrime
  <2>5. SameOn(PlacesInUse \ {p}, Contents, Contents')
    <3>1. UNCHANGED mpz_tab
      BY <2>1 DEF Pop
    <3> QED
      BY <1>2, <1>3, <1>5, <3>1, PlaceKinds, InUseFacts, ContentsFacts, ContentsFactsPrime
      DEF SameOn
  <2> QED BY SMTT(60), <1>6, <1>7, <1>8, <2>3, <2>4, <2>5, OwnedMoveGrow DEF Ownership
<1>10. CASE ~ n_alloc[t] > 0
  <2>1. m = Lazy /\ UNCHANGED pool
    BY <1>1, <1>10 DEF MpzInit
  <2>2. \A u \in Threads, k \in Slots :
          mpz_tab'[u][k] = mpz_tab[u][k] /\ (SlotInUse(u, k)' <=> SlotInUse(u, k))
    BY <1>u, <2>1 DEF SlotInUse, pool
  <2>3. PlacesInUse' = PlacesInUse \cup {q}
    BY <1>2, <1>4, <1>5, <2>2, PlaceKinds, InUseFacts, InUseFactsPrime
  <2>4. SameOn(PlacesInUse, Contents, Contents')
    BY <1>2, <1>3, <1>5, <2>2, PlaceKinds, InUseFacts, ContentsFacts, ContentsFactsPrime
    DEF SameOn
  <2>5. limbs[b] = 0 /\ limbs' = [c \in Blocks |-> IF c = b THEN size ELSE IF c = Lazy THEN 0 ELSE limbs[c]]
    BY <1>8, <2>1, NamesAssumption
  <2> QED BY <1>6, <1>7, <1>8, <2>3, <2>4, <2>5, OwnedNew DEF Ownership
<1> QED BY <1>9, <1>10

LEMMA OwnershipStep ==
  ASSUME TypeOK, Controls, Ownership, [Next]_vars
  PROVE  Ownership'
<1>1. ASSUME NEW t \in Threads,
             \/ Enter(t) \/ Leave(t) \/ BernoulliExtended(t) \/ FreeLocalCache(t)
             \/ FreeBernoulliTable(t) \/ FreePool(t) \/ PoolFreed(t)
             \/ \E m \in Indexes : BernoulliCache(t, m)
      PROVE  Ownership'
  BY <1>1, ControlStepOwnership
<1>2. ASSUME NEW t \in Threads, FreeBernoulliEntry(t) \/ FreePoolEntry(t)
      PROVE  Ownership'
  BY <1>2, FreeEntryOwnership, FreeSlotOwnership
<1>3. ASSUME NEW t \in Threads, NEW z \in Temps, InitTemp(t, z)
      PROVE  Ownership'
  BY <1>3, PopTempOwnership, LazyTempOwnership DEF InitTemp, MpzInit, heap
<1>4. ASSUME NEW t \in Threads, NEW z \in Temps, ClearTemp(t, z)
      PROVE  Ownership'
  BY <1>4, ClearTempOwnership
<1>5. ASSUME NEW t \in Threads, NEW size \in Sizes, NEW b \in Blocks,
             BernoulliInternal(t, size, b)
      PROVE  Ownership'
  BY <1>5, NewEntryOwnership
<1>6. ASSUME NEW t \in Threads, NEW size \in Sizes, NEW b \in Blocks, NEW z \in Temps,
             Init2Temp(t, z, size, b)
      PROVE  Ownership'
  BY <1>6, PopTempOwnership, NewTempOwnership DEF Init2Temp, heap
<1>7. ASSUME NEW t \in Threads, NEW size \in Sizes, NEW b \in Blocks, NEW z \in Temps,
             GrowTemp(t, z, size, b)
      PROVE  Ownership'
  BY <1>7, GrowTempOwnership
<1>8. CASE UNCHANGED vars \/ \E a \in Allocators : SetMemoryFunctions(a)
  <2>1. UNCHANGED <<limbs, pc, i, temp, pool, bernoulli>>
    BY <1>8 DEF vars, SetMemoryFunctions, heap
  <2>2. \A u \in Threads, k \in Temps :
          temp'[u][k] = temp[u][k] /\ (TempInUse(u, k)' <=> TempInUse(u, k))
    BY <2>1 DEF TempInUse
  <2> QED
    BY <2>1, <2>2, SameSlots, SameEntries, SamePlaces, SameContents, OwnershipKept
<1> QED
  BY <1>1, <1>2, <1>3, <1>4, <1>5, <1>6, <1>7, <1>8, NextSteps

\* An allocated block is the limbs of exactly one mpz_t in use, and an mpz_t in use
\* has no freed limbs: pool.c's copies of structures never share limbs, and nothing
\* leaks, whatever the threads compute and free.
THEOREM OneOwnerEach == Spec => []OneOwner
<1>1. Init => TypeOK /\ Controls /\ Ownership
  BY InitType, InitControl, InitOwnership
<1>2. TypeOK /\ Controls /\ Ownership /\ [Next]_vars => (TypeOK /\ Controls /\ Ownership)'
  BY TypeStep, ControlStep, OwnershipStep
<1>3. Ownership => OneOwner
  <2>1. \A p \in PlacesInUse : Contents[p] = At(p)
    BY DEF Contents, PlacesInUse
  <2> QED BY <2>1 DEF Ownership, Owned, OneOwner
<1> QED BY <1>1, <1>2, <1>3, PTL DEF Spec

\* The table has room for the index that is asked for: MPFR_ASSERTD
\* (bernoulli_alloc > n), which rests on bernoulli_alloc being at least MinAlloc
\* whenever the table is reallocated.
THEOREM TableHasRoom == Spec => []TableRoom
<1>1. Init => TypeOK /\ Controls
  BY InitType, InitControl
<1>2. TypeOK /\ Controls /\ [Next]_vars => (TypeOK /\ Controls)'
  BY TypeStep, ControlStep
<1>3. Controls => TableRoom
  BY DEF Controls, Control, TableRoom
<1> QED BY <1>1, <1>2, <1>3, PTL DEF Spec

-----------------------------------------------------------------------------
(* What is left after the cleanup, and the allocators *)

LEMMA CleanedUp ==
  ASSUME TypeOK, Controls, Ownership, \A t \in Threads : pc[t] = "fresh"
  PROVE  (\A b \in Blocks : limbs[b] = 0) /\ (\A t \in Threads : bernoulli_alloc[t] = 0)
<1>1. ASSUME NEW t \in Threads
      PROVE  /\ n_alloc[t] = 0 /\ bernoulli_size[t] = 0 /\ bernoulli_alloc[t] = 0
             /\ \A z \in Temps : temp[t][z] = Dead
  BY <1>1 DEF Controls, Control, Inside
<1>2. /\ \A t \in Threads, k \in Slots : ~ SlotInUse(t, k)
      /\ \A t \in Threads, k \in Indexes : ~ EntryInUse(t, k)
      /\ \A t \in Threads, k \in Temps : ~ TempInUse(t, k)
  BY <1>1 DEF SlotInUse, EntryInUse, TempInUse, Slots, Indexes
<1>3. PlacesInUse = {}
  BY <1>2, PlaceKinds, InUseFacts
<1>4. \A b \in Blocks : ~ limbs[b] > 0 /\ limbs[b] \in Nat
  BY <1>3 DEF Ownership, Owned, TypeOK
<1> QED BY <1>1, <1>4

\* After mpfr_free_cache in every thread, no limb of MPFR is left: the entries that
\* mpfr_bernoulli_freecache pushes to the pool are freed by mpfr_free_pool.
THEOREM AllFreed == Spec => []NothingLeft
<1>1. Init => TypeOK /\ Controls /\ Ownership
  BY InitType, InitControl, InitOwnership
<1>2. TypeOK /\ Controls /\ Ownership /\ [Next]_vars => (TypeOK /\ Controls /\ Ownership)'
  BY TypeStep, ControlStep, OwnershipStep
<1>3. TypeOK /\ Controls /\ Ownership => NothingLeft
  BY CleanedUp DEF NothingLeft
<1> QED BY <1>1, <1>2, <1>3, PTL DEF Spec

BlocksBy == \A b \in Blocks : limbs[b] > 0 => by[b] = allocator
TablesBy == \A t \in Threads : bernoulli_alloc[t] > 0 => table_by[t] = allocator

LEMMA SetLimbsBy ==
  ASSUME TypeOK, BlocksBy, NEW z, NEW size, NEW b \in Blocks, SetLimbs(z, size, b),
         UNCHANGED allocator
  PROVE  BlocksBy'
BY DEF TypeOK, BlocksBy, SetLimbs

LEMMA MpzClearBy ==
  ASSUME TypeOK, BlocksBy, NEW t \in Threads, NEW z, MpzClear(t, z), UNCHANGED allocator
  PROVE  BlocksBy'
<1>1. UNCHANGED <<limbs, by>> \/ GmpClear(z)
  BY DEF MpzClear, heap
<1>2. CASE UNCHANGED <<limbs, by>>
  BY <1>2 DEF BlocksBy
<1>3. CASE GmpClear(z)
  BY <1>3 DEF GmpClear, TypeOK, BlocksBy
<1> QED BY <1>1, <1>2, <1>3

LEMMA AllocatorStep ==
  ASSUME TypeOK, Controls, Ownership, BlocksBy, TablesBy, [Next]_vars
  PROVE  BlocksBy' /\ TablesBy'
<1>1. ASSUME NEW t \in Threads,
             \/ Enter(t) \/ Leave(t) \/ BernoulliExtended(t) \/ FreeLocalCache(t)
             \/ FreePool(t) \/ PoolFreed(t)
      PROVE  BlocksBy' /\ TablesBy'
  <2>1. UNCHANGED <<allocator, limbs, by, bernoulli_alloc, table_by>>
    BY <1>1 DEF Enter, Leave, BernoulliExtended, FreeLocalCache, FreePool, PoolFreed, heap, bernoulli
  <2> QED BY <2>1 DEF BlocksBy, TablesBy
<1>2. ASSUME NEW t \in Threads, FreeBernoulliTable(t) \/ \E m \in Indexes : BernoulliCache(t, m)
      PROVE  BlocksBy' /\ TablesBy'
  <2>1. UNCHANGED <<allocator, limbs, by>>
    BY <1>2 DEF FreeBernoulliTable, BernoulliCache, heap
  <2>2. \A u \in Threads : bernoulli_alloc'[u] > 0 =>
          table_by'[u] = allocator \/ (bernoulli_alloc[u] > 0 /\ table_by'[u] = table_by[u])
    BY <1>2 DEF FreeBernoulliTable, BernoulliCache, TypeOK
  <2> QED BY <2>1, <2>2 DEF BlocksBy, TablesBy
<1>3. ASSUME NEW t \in Threads, FreeBernoulliEntry(t) \/ \E z \in Temps : ClearTemp(t, z)
      PROVE  BlocksBy' /\ TablesBy'
  <2>1. UNCHANGED <<allocator, bernoulli_alloc, table_by>>
    BY <1>3 DEF FreeBernoulliEntry, ClearTemp, bernoulli
  <2>2. BlocksBy'
    BY <1>3, MpzClearBy DEF FreeBernoulliEntry, ClearTemp
  <2> QED BY <2>1, <2>2 DEF TablesBy
<1>4. ASSUME NEW t \in Threads, FreePoolEntry(t)
      PROVE  BlocksBy' /\ TablesBy'
  BY <1>4 DEF FreePoolEntry, GmpClear, BlocksBy, TablesBy, bernoulli, TypeOK
<1>5. ASSUME NEW t \in Threads, NEW z \in Temps, InitTemp(t, z)
      PROVE  BlocksBy' /\ TablesBy'
  BY <1>5 DEF InitTemp, BlocksBy, TablesBy, heap, bernoulli
<1>6. ASSUME NEW t \in Threads, NEW size \in Sizes, NEW b \in Blocks,
             \/ BernoulliInternal(t, size, b)
             \/ \E z \in Temps : Init2Temp(t, z, size, b) \/ GrowTemp(t, z, size, b)
      PROVE  BlocksBy' /\ TablesBy'
  <2>1. UNCHANGED <<allocator, bernoulli_alloc, table_by>>
    BY <1>6 DEF BernoulliInternal, Init2Temp, GrowTemp, bernoulli
  <2>2. UNCHANGED <<limbs, by>> \/ \E z \in Mpz \cup {Dead} : SetLimbs(z, size, b)
    BY <1>6 DEF BernoulliInternal, Init2Temp, GrowTemp, heap, TypeOK, Mpz
  <2>3. BlocksBy'
    BY <2>1, <2>2, SetLimbsBy DEF BlocksBy
  <2> QED BY <2>1, <2>3 DEF TablesBy
<1>7. ASSUME NEW a \in Allocators, SetMemoryFunctions(a)
      PROVE  BlocksBy' /\ TablesBy'
  <2>1. (\A b \in Blocks : limbs[b] = 0) /\ (\A t \in Threads : bernoulli_alloc[t] = 0)
    BY <1>7, CleanedUp DEF SetMemoryFunctions
  <2> QED BY <1>7, <2>1 DEF SetMemoryFunctions, BlocksBy, TablesBy, heap, bernoulli
<1>8. CASE UNCHANGED vars
  BY <1>8 DEF vars, BlocksBy, TablesBy, heap, bernoulli
<1> QED
  BY <1>1, <1>2, <1>3, <1>4, <1>5, <1>6, <1>7, <1>8, NextSteps

\* What is freed or reallocated always comes from GMP's current allocator, provided
\* mpfr_mp_memory_cleanup is called in every thread before it is changed.
THEOREM AllocatorMatches == Spec => []OwnAllocator
<1> DEFINE I == TypeOK /\ Controls /\ Ownership /\ BlocksBy /\ TablesBy
<1>1. Init => I
  <2>1. Init => BlocksBy /\ TablesBy
    BY DEF Init, BlocksBy, TablesBy
  <2> QED BY <2>1, InitType, InitControl, InitOwnership
<1>2. I /\ [Next]_vars => I'
  BY TypeStep, ControlStep, OwnershipStep, AllocatorStep
<1>3. I => OwnAllocator
  BY DEF OwnAllocator, BlocksBy, TablesBy
<1> QED BY <1>1, <1>2, <1>3, PTL DEF Spec

-----------------------------------------------------------------------------
(* The pool keeps small integers only *)

\* A step after which the mpz_t's on the stack are among those that were there, and
\* their limbs are the same or freed.
LEMMA PoolNotGrown ==
  ASSUME PoolBounded,
         \A u \in Threads, k \in Slots : SlotInUse(u, k)' =>
           /\ SlotInUse(u, k) /\ mpz_tab'[u][k] = mpz_tab[u][k]
           /\ mpz_tab[u][k] # Lazy => limbs'[mpz_tab[u][k]] \in {0, limbs[mpz_tab[u][k]]}
  PROVE  PoolBounded'
BY DEF PoolBounded, ALLOC

LEMMA PoolPushed ==
  ASSUME TypeOK, PoolBounded, NEW t \in Threads, NEW z \in Mpz,
         n_alloc[t] < NEntries, ALLOC(z) <= MaxSize,
         mpz_tab' = [mpz_tab EXCEPT ![t][n_alloc[t]] = z],
         n_alloc' = [n_alloc EXCEPT ![t] = @ + 1],
         UNCHANGED <<pc, limbs>>, pc[t] \notin {"free_pool", "free_local_pool"},
         \A u \in Threads : u # t => i'[u] = i[u]
  PROVE  PoolBounded'
<1>1. /\ n_alloc[t] \in Slots /\ ~ SlotInUse(t, n_alloc[t]) /\ mpz_tab'[t][n_alloc[t]] = z
      /\ \A u \in Threads, k \in Slots :
           SlotInUse(u, k)' <=> SlotInUse(u, k) \/ (u = t /\ k = n_alloc[t])
      /\ \A u \in Threads, k \in Slots : SlotInUse(u, k) => mpz_tab'[u][k] = mpz_tab[u][k]
  BY PushSlots
<1> QED BY <1>1 DEF PoolBounded, ALLOC

\* The limbs of an mpz_t that is not on the stack (any more) are enlarged.
LEMMA PoolApart ==
  ASSUME TypeOK, Ownership, PoolBounded, NEW p \in PlacesInUse, NEW size \in Sizes,
         NEW b \in Blocks, SetLimbs(Contents[p], size, b),
         \A u \in Threads, k \in Slots : SlotInUse(u, k)' =>
           SlotInUse(u, k) /\ <<"pool", u, k>> # p /\ mpz_tab'[u][k] = mpz_tab[u][k]
  PROVE  PoolBounded'
<1>1. ASSUME NEW u \in Threads, NEW k \in Slots, SlotInUse(u, k)', mpz_tab[u][k] # Lazy
      PROVE  limbs'[mpz_tab[u][k]] = limbs[mpz_tab[u][k]]
  <2>1. <<"pool", u, k>> \in PlacesInUse /\ Contents[<<"pool", u, k>>] = mpz_tab[u][k]
    BY <1>1, InUseFacts, ContentsFacts
  <2>2. mpz_tab[u][k] \in Blocks
    BY <1>1 DEF TypeOK, Mpz
  <2>3. mpz_tab[u][k] # Contents[p] /\ limbs[mpz_tab[u][k]] > 0
    BY <1>1, <2>1, <2>2 DEF Ownership, Owned
  <2>4. mpz_tab[u][k] # b
    BY <2>3, <2>2 DEF SetLimbs, TypeOK
  <2> QED BY <2>2, <2>3, <2>4 DEF SetLimbs
<1> QED BY <1>1, PoolNotGrown

\* A new block is used.
LEMMA PoolApartNew ==
  ASSUME TypeOK, Ownership, PoolBounded, NEW size \in Sizes,
         NEW b \in Blocks, SetLimbs(Lazy, size, b),
         \A u \in Threads, k \in Slots : SlotInUse(u, k)' =>
           SlotInUse(u, k) /\ mpz_tab'[u][k] = mpz_tab[u][k]
  PROVE  PoolBounded'
<1>1. ASSUME NEW u \in Threads, NEW k \in Slots, SlotInUse(u, k)', mpz_tab[u][k] # Lazy
      PROVE  limbs'[mpz_tab[u][k]] = limbs[mpz_tab[u][k]]
  <2>1. <<"pool", u, k>> \in PlacesInUse /\ Contents[<<"pool", u, k>>] = mpz_tab[u][k]
    BY <1>1, InUseFacts, ContentsFacts
  <2>2. mpz_tab[u][k] \in Blocks
    BY <1>1 DEF TypeOK, Mpz
  <2>3. limbs[mpz_tab[u][k]] > 0
    BY <1>1, <2>1, <2>2 DEF Ownership, Owned
  <2>4. mpz_tab[u][k] # b
    BY <2>3, <2>2, NamesAssumption DEF SetLimbs, TypeOK
  <2> QED BY <1>1, <2>2, <2>3, <2>4 DEF SetLimbs
<1> QED BY <1>1, PoolNotGrown

\* An mpz_t is cleared, to the stack if it is small.
LEMMA PoolCleared ==
  ASSUME TypeOK, PoolBounded, NEW t \in Threads, NEW z \in Mpz, MpzClear(t, z),
         UNCHANGED pc, pc[t] \notin {"free_pool", "free_local_pool"},
         \A u \in Threads : u # t => i'[u] = i[u]
  PROVE  PoolBounded'
<1>1. CASE n_alloc[t] < NEntries /\ ALLOC(z) <= MaxSize
  BY <1>1, PoolPushed DEF MpzClear, heap
<1>2. CASE ~ (n_alloc[t] < NEntries /\ ALLOC(z) <= MaxSize)
  <2>1. GmpClear(z) /\ UNCHANGED pool
    BY <1>2 DEF MpzClear
  <2>2. \A u \in Threads, k \in Slots : SlotInUse(u, k)' => SlotInUse(u, k)
    BY <2>1 DEF SlotInUse, pool
  <2>3. \A u \in Threads, k \in Slots : mpz_tab[u][k] \in Mpz
    BY DEF TypeOK
  <2> QED BY <2>1, <2>2, <2>3, PoolNotGrown DEF GmpClear, pool, Mpz
<1> QED BY <1>1, <1>2

LEMMA PoolStep ==
  ASSUME TypeOK, Controls, Ownership, PoolBounded, [Next]_vars
  PROVE  PoolBounded'
<1> limbs \in [Blocks -> Nat]
  BY DEF TypeOK
<1>1. ASSUME NEW t \in Threads,
             \/ Enter(t) \/ Leave(t) \/ BernoulliExtended(t) \/ FreeLocalCache(t)
             \/ FreeBernoulliTable(t) \/ FreePool(t) \/ PoolFreed(t)
             \/ \E m \in Indexes : BernoulliCache(t, m)
      PROVE  PoolBounded'
  <2>1. UNCHANGED <<limbs, mpz_tab>>
    BY <1>1 DEF Enter, Leave, BernoulliExtended, FreeLocalCache, FreeBernoulliTable, FreePool,
       PoolFreed, BernoulliCache, heap, pool
  <2>2. \A u \in Threads, k \in Slots : SlotInUse(u, k)' => SlotInUse(u, k)
    BY <1>1, ControlStepSlots
  <2> QED BY <2>1, <2>2, PoolNotGrown
<1>2. ASSUME NEW t \in Threads, FreeBernoulliEntry(t)
      PROVE  PoolBounded'
  <2> DEFINE m == bernoulli_table[t][i[t]]
  <2>1. /\ m \in Mpz /\ MpzClear(t, m) /\ UNCHANGED pc /\ pc[t] = "free_bernoulli"
        /\ \A u \in Threads : u # t => i'[u] = i[u]
    BY <1>2 DEF FreeBernoulliEntry, TypeOK, Indexes
  <2> QED BY <2>1, PoolCleared
<1>3. ASSUME NEW t \in Threads, FreePoolEntry(t)
      PROVE  PoolBounded'
  <2>1. \A u \in Threads, k \in Slots : SlotInUse(u, k)' => SlotInUse(u, k)
    BY <1>3 DEF FreePoolEntry, SlotInUse, Slots, pool, TypeOK
  <2> QED BY <1>3, <2>1, PoolNotGrown DEF FreePoolEntry, GmpClear, pool, TypeOK, Mpz
<1>4. ASSUME NEW t \in Threads, NEW z \in Temps, InitTemp(t, z)
      PROVE  PoolBounded'
  <2>1. PICK m \in Mpz : MpzInit(t, m)
    BY <1>4 DEF InitTemp
  <2>2. UNCHANGED <<limbs, pc, i>> /\ pc[t] \in Inside
    BY <1>4 DEF InitTemp, heap
  <2>3. UNCHANGED pool \/ (n_alloc[t] > 0 /\ Pop(t))
    BY <2>1 DEF MpzInit
  <2> QED BY <2>2, <2>3, PopSlots, SameSlots, PoolNotGrown DEF Pop
<1>5. ASSUME NEW t \in Threads, NEW z \in Temps, ClearTemp(t, z)
      PROVE  PoolBounded'
  <2>1. /\ temp[t][z] \in Mpz /\ MpzClear(t, temp[t][z]) /\ UNCHANGED <<pc, i>>
        /\ pc[t] \notin {"free_pool", "free_local_pool"}
    BY <1>5 DEF ClearTemp, TypeOK, Inside
  <2> QED BY <2>1, PoolCleared
<1>6. ASSUME NEW t \in Threads, NEW size \in Sizes, NEW b \in Blocks,
             BernoulliInternal(t, size, b)
      PROVE  PoolBounded'
  <2>1. PICK m \in Mpz : MpzInit(t, m) /\ SetLimbs(m, size, b)
    BY <1>6 DEF BernoulliInternal
  <2>2. UNCHANGED pc /\ pc[t] = "extending" /\ \A u \in Threads : u # t => i'[u] = i[u]
    BY <1>6 DEF BernoulliInternal, TypeOK
  <2>3. CASE n_alloc[t] > 0
    <3>1. m = Top(t) /\ Pop(t)
      BY <2>1, <2>3 DEF MpzInit
    <3>2. /\ n_alloc[t] - 1 \in Slots /\ SlotInUse(t, n_alloc[t] - 1)
          /\ \A u \in Threads, k \in Slots :
               SlotInUse(u, k)' <=> SlotInUse(u, k) /\ ~ (u = t /\ k = n_alloc[t] - 1)
      BY <2>2, <2>3, <3>1, PopSlots DEF Inside
    <3>3. <<"pool", t, n_alloc[t] - 1>> \in PlacesInUse /\ Contents[<<"pool", t, n_alloc[t] - 1>>] = m
      BY <3>1, <3>2, InUseFacts, ContentsFacts DEF Top
    <3> QED BY <2>1, <3>1, <3>2, <3>3, PoolApart DEF Pop
  <2>4. CASE ~ n_alloc[t] > 0
    <3>1. m = Lazy /\ UNCHANGED pool
      BY <2>1, <2>4 DEF MpzInit
    <3>2. \A u \in Threads, k \in Slots : SlotInUse(u, k)' => SlotInUse(u, k)
      BY <2>2, <3>1 DEF SlotInUse, pool
    <3> QED BY <2>1, <3>1, <3>2, PoolApartNew DEF pool
  <2> QED BY <2>3, <2>4
<1>7. ASSUME NEW t \in Threads, NEW size \in Sizes, NEW b \in Blocks, NEW z \in Temps,
             Init2Temp(t, z, size, b)
      PROVE  PoolBounded'
  <2>1. CASE n_alloc[t] > 0 /\ size <= MaxSize
    BY <1>7, <2>1, PopSlots, PoolNotGrown DEF Init2Temp, Pop, heap
  <2>2. CASE ~ (n_alloc[t] > 0 /\ size <= MaxSize)
    <3>1. SetLimbs(Lazy, size, b) /\ UNCHANGED <<pc, i, pool>>
      BY <1>7, <2>2 DEF Init2Temp
    <3> QED BY <3>1, SameSlots, PoolApartNew DEF pool
  <2> QED BY <2>1, <2>2
<1>8. ASSUME NEW t \in Threads, NEW size \in Sizes, NEW b \in Blocks, NEW z \in Temps,
             GrowTemp(t, z, size, b)
      PROVE  PoolBounded'
  <2>1. /\ SetLimbs(temp[t][z], size, b) /\ UNCHANGED <<pc, i, pool>>
        /\ <<"temp", t, z>> \in PlacesInUse /\ Contents[<<"temp", t, z>>] = temp[t][z]
    BY <1>8, InUseFacts, ContentsFacts DEF GrowTemp, TempInUse
  <2> QED BY <2>1, SameSlots, PoolApart DEF pool
<1>9. CASE UNCHANGED vars \/ \E a \in Allocators : SetMemoryFunctions(a)
  <2>1. UNCHANGED <<limbs, pc, i, pool>>
    BY <1>9 DEF vars, SetMemoryFunctions, heap
  <2> QED BY <2>1, SameSlots, PoolNotGrown
<1> QED
  BY <1>1, <1>2, <1>3, <1>4, <1>5, <1>6, <1>7, <1>8, <1>9, NextSteps

\* No integer of more than MPFR_POOL_MAX_SIZE limbs is kept in a pool: what is on the
\* stack is never enlarged there, its limbs having no other owner.
THEOREM PoolKeepsSmall == Spec => []PoolBounded
<1>1. Init => TypeOK /\ Controls /\ Ownership /\ PoolBounded
  <2>1. Init => PoolBounded
    BY DEF Init, PoolBounded, SlotInUse, Slots
  <2> QED BY <2>1, InitType, InitControl, InitOwnership
<1>2. TypeOK /\ Controls /\ Ownership /\ PoolBounded /\ [Next]_vars =>
        (TypeOK /\ Controls /\ Ownership /\ PoolBounded)'
  BY TypeStep, ControlStep, OwnershipStep, PoolStep
<1> QED BY <1>1, <1>2, PTL DEF Spec

=============================================================================
