----------------------------- MODULE LocalCaches -----------------------------
(***************************************************************************)
(* The caches of multiprecision integers that every thread keeps: the pool *)
(* of mpz_t's (pool.c, which mpz_init and mpz_clear go through inside      *)
(* MPFR), the table of Bernoulli numbers (bernoulli.c) and the functions   *)
(* that free them (free_cache.c), over the memory that they own.           *)
(*                                                                         *)
(* An mpz_t is the block its limbs are in, or Lazy when it has none yet    *)
(* (_mp_alloc is 0); its value is left out. A block has a number of limbs, *)
(* 0 when it is not allocated, and the allocator that it comes from, the   *)
(* one that mp_set_memory_functions had set. The array of the pool keeps   *)
(* what was last written, also in the cells that are no longer in use.     *)
(***************************************************************************)
EXTENDS Integers

CONSTANTS
  Threads, Allocators,
  Blocks,       \* where limbs can be
  NTemps,       \* the temporary mpz_t's a function has at once
  NEntries,     \* MPFR_POOL_NENTRIES
  MaxSize,      \* MPFR_POOL_MAX_SIZE
  MinAlloc,     \* the first size of the table of Bernoulli numbers: 16
  Growth,       \* the table is made larger than needed by one part in Growth: 4
  MaxLimbs,     \* bound on the size of an integer
  MaxIndex      \* bound on the index of a Bernoulli number

ASSUME SizesAssumption ==
  /\ NTemps \in Nat /\ NEntries \in Nat /\ MaxSize \in Nat
  /\ MaxLimbs \in Nat \ {0} /\ MaxIndex \in Nat

\* With a smaller first size, n + n/4 could be n, and the table would have no
\* room for n once it is reallocated.
ASSUME GrowthAssumption ==
  /\ MinAlloc \in Nat \ {0} /\ Growth \in Nat \ {0}
  /\ \A m \in 0 .. MaxIndex : m \div Growth \in Nat /\ (m >= MinAlloc => m \div Growth >= 1)

Lazy == "lazy"
Dead == "dead"
Nobody == "nobody"

ASSUME NamesAssumption ==
  Lazy \notin Blocks /\ Dead \notin Blocks /\ Nobody \notin Allocators

Mpz == Blocks \cup {Lazy}
Slots == 0 .. NEntries - 1
Indexes == 0 .. MaxIndex
Temps == 0 .. NTemps - 1
Sizes == 1 .. MaxLimbs

VARIABLES
  allocator,        \* GMP's current allocator
  limbs, by,        \* of each block: its size and its allocator
  pc, i,            \* where each thread is, and the index of its loop
  temp,             \* the temporaries of the function it runs
  n_alloc, mpz_tab, \* the pool
  bernoulli_table, bernoulli_size, bernoulli_alloc,
  table_by,         \* the allocator of the table itself
  n                 \* the argument of mpfr_bernoulli_cache

pool == <<n_alloc, mpz_tab>>
bernoulli == <<bernoulli_table, bernoulli_size, bernoulli_alloc, table_by, n>>
heap == <<limbs, by>>
vars == <<allocator, heap, pc, i, temp, pool, bernoulli>>

\* "app": outside MPFR; "fresh": outside too, the local caches have been freed
\* and nothing has been called since, or nothing ever.
Pcs == {"app", "fresh", "function", "extending", "free_bernoulli",
        "free_local_pool", "free_pool"}
Outside == {"app", "fresh"}
Inside == {"function", "extending"}

Init ==
  /\ allocator \in Allocators
  /\ limbs = [b \in Blocks |-> 0]
  /\ by = [b \in Blocks |-> Nobody]
  /\ pc = [t \in Threads |-> "fresh"]
  /\ i = [t \in Threads |-> 0]
  /\ temp = [t \in Threads |-> [z \in Temps |-> Dead]]
  /\ n_alloc = [t \in Threads |-> 0]
  /\ mpz_tab = [t \in Threads |-> [k \in Slots |-> Lazy]]
  /\ bernoulli_table = [t \in Threads |-> [k \in Indexes |-> Lazy]]
  /\ bernoulli_size = [t \in Threads |-> 0]
  /\ bernoulli_alloc = [t \in Threads |-> 0]
  /\ table_by = [t \in Threads |-> Nobody]
  /\ n = [t \in Threads |-> 0]

-----------------------------------------------------------------------------
(* GMP's own functions *)

ALLOC(z) == IF z = Lazy THEN 0 ELSE limbs[z]

\* The limbs of z, now size of them, are in b: the block z had, or another one
\* that mpz_realloc moved them to, or its first.
SetLimbs(z, size, b) ==
  /\ size >= ALLOC(z)
  /\ b = z \/ limbs[b] = 0
  /\ limbs' = [c \in Blocks |-> IF c = b THEN size ELSE IF c = z THEN 0 ELSE limbs[c]]
  /\ by' = [c \in Blocks |-> IF c = b THEN allocator ELSE IF c = z THEN Nobody ELSE by[c]]

\* mpz_clear, outside the pool.
GmpClear(z) ==
  /\ limbs' = [c \in Blocks |-> IF c = z THEN 0 ELSE limbs[c]]
  /\ by' = [c \in Blocks |-> IF c = z THEN Nobody ELSE by[c]]

-----------------------------------------------------------------------------
(* The pool *)

\* mpfr_mpz_init and mpfr_mpz_init2 take the mpz_t on the top of the stack.
Top(t) == mpz_tab[t][n_alloc[t] - 1]
Pop(t) == n_alloc' = [n_alloc EXCEPT ![t] = @ - 1] /\ UNCHANGED mpz_tab

\* mpfr_mpz_init: the mpz_t that the caller gets.
MpzInit(t, z) ==
  \/ n_alloc[t] > 0 /\ z = Top(t) /\ Pop(t)
  \/ n_alloc[t] = 0 /\ z = Lazy /\ UNCHANGED pool

\* Mutant: whatever the number of entries.
MpzClearAlways(t, z) ==
  \/ /\ ALLOC(z) <= MaxSize
     /\ mpz_tab' = [mpz_tab EXCEPT ![t][n_alloc[t]] = z]
     /\ n_alloc' = [n_alloc EXCEPT ![t] = @ + 1]
     /\ UNCHANGED heap
  \/ /\ ~ (ALLOC(z) <= MaxSize)
     /\ GmpClear(z)
     /\ UNCHANGED pool

\* mpfr_mpz_clear
MpzClear(t, z) ==
  \/ /\ n_alloc[t] < NEntries /\ ALLOC(z) <= MaxSize
     /\ mpz_tab' = [mpz_tab EXCEPT ![t][n_alloc[t]] = z]
     /\ n_alloc' = [n_alloc EXCEPT ![t] = @ + 1]
     /\ UNCHANGED heap
  \/ /\ ~ (n_alloc[t] < NEntries /\ ALLOC(z) <= MaxSize)
     /\ GmpClear(z)
     /\ UNCHANGED pool

-----------------------------------------------------------------------------
(* A function of MPFR and its temporaries *)

Enter(t) ==
  /\ pc[t] \in Outside
  /\ pc' = [pc EXCEPT ![t] = "function"]
  /\ UNCHANGED <<allocator, heap, i, temp, pool, bernoulli>>

\* Every function clears its temporaries before it returns.
Leave(t) ==
  /\ pc[t] = "function"
  /\ \A z \in Temps : temp[t][z] = Dead
  /\ pc' = [pc EXCEPT ![t] = "app"]
  /\ UNCHANGED <<allocator, heap, i, temp, pool, bernoulli>>

InitTemp(t, z) ==
  /\ pc[t] \in Inside /\ temp[t][z] = Dead
  /\ \E m \in Mpz : MpzInit(t, m) /\ temp' = [temp EXCEPT ![t][z] = m]
  /\ UNCHANGED <<allocator, heap, pc, i, bernoulli>>

\* mpfr_mpz_init2, with size limbs asked for.
Init2Temp(t, z, size, b) ==
  /\ pc[t] \in Inside /\ temp[t][z] = Dead
  /\ \/ /\ n_alloc[t] > 0 /\ size <= MaxSize
        /\ temp' = [temp EXCEPT ![t][z] = Top(t)]
        /\ Pop(t)
        /\ UNCHANGED heap
     \/ /\ ~ (n_alloc[t] > 0 /\ size <= MaxSize)
        /\ limbs[b] = 0
        /\ SetLimbs(Lazy, size, b)
        /\ temp' = [temp EXCEPT ![t][z] = b]
        /\ UNCHANGED pool
  /\ UNCHANGED <<allocator, pc, i, bernoulli>>

\* A computation whose result needs more limbs than the temporary has.
GrowTemp(t, z, size, b) ==
  /\ pc[t] \in Inside /\ temp[t][z] # Dead
  /\ SetLimbs(temp[t][z], size, b)
  /\ temp' = [temp EXCEPT ![t][z] = b]
  /\ UNCHANGED <<allocator, pc, i, pool, bernoulli>>

ClearTemp(t, z) ==
  /\ pc[t] \in Inside /\ temp[t][z] # Dead
  /\ MpzClear(t, temp[t][z])
  /\ temp' = [temp EXCEPT ![t][z] = Dead]
  /\ UNCHANGED <<allocator, pc, i, bernoulli>>

-----------------------------------------------------------------------------
(* mpfr_bernoulli_cache (m): its call when m is not in the table yet *)

\* Mutant: a smaller margin, which can be nothing.
LargerByHalfOfIt(m) == m + m \div (2 * Growth)

Larger(m) == m + m \div Growth

BernoulliCache(t, m) ==
  /\ pc[t] = "function" /\ m >= bernoulli_size[t]
  /\ \/ /\ bernoulli_alloc[t] = 0
        /\ bernoulli_alloc' = [bernoulli_alloc EXCEPT
             ![t] = IF Larger(m) > MinAlloc THEN Larger(m) ELSE MinAlloc]
        /\ bernoulli_size' = [bernoulli_size EXCEPT ![t] = 0]
        /\ table_by' = [table_by EXCEPT ![t] = allocator]
     \/ /\ bernoulli_alloc[t] # 0 /\ m >= bernoulli_alloc[t]
        /\ bernoulli_alloc' = [bernoulli_alloc EXCEPT ![t] = Larger(m)]
        /\ table_by' = [table_by EXCEPT ![t] = allocator]
        /\ UNCHANGED bernoulli_size
     \/ /\ bernoulli_alloc[t] # 0 /\ m < bernoulli_alloc[t]
        /\ UNCHANGED <<bernoulli_alloc, bernoulli_size, table_by>>
  /\ n' = [n EXCEPT ![t] = m]
  /\ i' = [i EXCEPT ![t] = bernoulli_size[t]]
  /\ pc' = [pc EXCEPT ![t] = "extending"]
  /\ UNCHANGED <<allocator, heap, temp, pool, bernoulli_table>>

\* mpfr_bernoulli_internal: mpz_init (b[n]), then its value. Its own temporaries
\* are the ones of "extending".
BernoulliInternal(t, size, b) ==
  /\ pc[t] = "extending" /\ i[t] <= n[t]
  /\ \E m \in Mpz : MpzInit(t, m) /\ SetLimbs(m, size, b)
  /\ bernoulli_table' = [bernoulli_table EXCEPT ![t][i[t]] = b]
  /\ i' = [i EXCEPT ![t] = @ + 1]
  /\ UNCHANGED <<allocator, pc, temp, bernoulli_size, bernoulli_alloc, table_by, n>>

BernoulliExtended(t) ==
  /\ pc[t] = "extending" /\ i[t] > n[t]
  /\ bernoulli_size' = [bernoulli_size EXCEPT ![t] = n[t] + 1]
  /\ n' = [n EXCEPT ![t] = 0]
  /\ i' = [i EXCEPT ![t] = 0]
  /\ pc' = [pc EXCEPT ![t] = "function"]
  /\ UNCHANGED <<allocator, heap, temp, pool, bernoulli_table, bernoulli_alloc, table_by>>

-----------------------------------------------------------------------------
(* mpfr_free_local_cache: mpfr_bernoulli_freecache, then mpfr_free_pool *)

FreeLocalCache(t) ==
  /\ pc[t] \in Outside
  /\ pc' = [pc EXCEPT ![t] = IF bernoulli_alloc[t] # 0 THEN "free_bernoulli"
                             ELSE "free_local_pool"]
  /\ i' = [i EXCEPT ![t] = 0]
  /\ UNCHANGED <<allocator, heap, temp, pool, bernoulli>>

FreeBernoulliEntry(t) ==
  /\ pc[t] = "free_bernoulli" /\ i[t] < bernoulli_size[t]
  /\ MpzClear(t, bernoulli_table[t][i[t]])
  /\ i' = [i EXCEPT ![t] = @ + 1]
  /\ UNCHANGED <<allocator, pc, temp, bernoulli>>

\* Mutant: the pool is not freed after the table, whose entries it has just received.
FreeBernoulliTableOnly(t) ==
  /\ pc[t] = "free_bernoulli" /\ i[t] >= bernoulli_size[t]
  /\ bernoulli_alloc' = [bernoulli_alloc EXCEPT ![t] = 0]
  /\ bernoulli_size' = [bernoulli_size EXCEPT ![t] = 0]
  /\ bernoulli_table' = [bernoulli_table EXCEPT ![t] = [k \in Indexes |-> Lazy]]
  /\ table_by' = [table_by EXCEPT ![t] = Nobody]
  /\ i' = [i EXCEPT ![t] = 0]
  /\ pc' = [pc EXCEPT ![t] = "fresh"]
  /\ UNCHANGED <<allocator, heap, temp, pool, n>>

FreeBernoulliTable(t) ==
  /\ pc[t] = "free_bernoulli" /\ i[t] >= bernoulli_size[t]
  /\ bernoulli_alloc' = [bernoulli_alloc EXCEPT ![t] = 0]
  /\ bernoulli_size' = [bernoulli_size EXCEPT ![t] = 0]
  /\ bernoulli_table' = [bernoulli_table EXCEPT ![t] = [k \in Indexes |-> Lazy]]
  /\ table_by' = [table_by EXCEPT ![t] = Nobody]
  /\ i' = [i EXCEPT ![t] = 0]
  /\ pc' = [pc EXCEPT ![t] = "free_local_pool"]
  /\ UNCHANGED <<allocator, heap, temp, pool, n>>

\* mpfr_free_pool, called by the application.
FreePool(t) ==
  /\ pc[t] \in Outside
  /\ pc' = [pc EXCEPT ![t] = "free_pool"]
  /\ i' = [i EXCEPT ![t] = 0]
  /\ UNCHANGED <<allocator, heap, temp, pool, bernoulli>>

FreePoolEntry(t) ==
  /\ pc[t] \in {"free_pool", "free_local_pool"} /\ i[t] < n_alloc[t]
  /\ GmpClear(mpz_tab[t][i[t]])
  /\ i' = [i EXCEPT ![t] = @ + 1]
  /\ UNCHANGED <<allocator, pc, temp, pool, bernoulli>>

\* Mutant: n_alloc keeps its value.
PoolFreedNoReset(t) ==
  /\ pc[t] \in {"free_pool", "free_local_pool"} /\ i[t] >= n_alloc[t]
  /\ i' = [i EXCEPT ![t] = 0]
  /\ pc' = [pc EXCEPT ![t] = IF @ = "free_local_pool" THEN "fresh" ELSE "app"]
  /\ UNCHANGED <<allocator, heap, temp, pool, bernoulli>>

PoolFreed(t) ==
  /\ pc[t] \in {"free_pool", "free_local_pool"} /\ i[t] >= n_alloc[t]
  /\ n_alloc' = [n_alloc EXCEPT ![t] = 0]
  /\ i' = [i EXCEPT ![t] = 0]
  /\ pc' = [pc EXCEPT ![t] = IF @ = "free_local_pool" THEN "fresh" ELSE "app"]
  /\ UNCHANGED <<allocator, heap, temp, mpz_tab, bernoulli>>

-----------------------------------------------------------------------------
\* mp_set_memory_functions, under the rule of the manual: mpfr_mp_memory_cleanup
\* has been called in all the threads and MPFR not used since.
SetMemoryFunctions(a) ==
  /\ \A t \in Threads : pc[t] = "fresh"
  /\ allocator' = a
  /\ UNCHANGED <<heap, pc, i, temp, pool, bernoulli>>

Step(t) ==
  \/ Enter(t) \/ Leave(t)
  \/ \E z \in Temps :
       \/ InitTemp(t, z) \/ ClearTemp(t, z)
       \/ \E size \in Sizes, b \in Blocks : Init2Temp(t, z, size, b) \/ GrowTemp(t, z, size, b)
  \/ \E m \in Indexes : BernoulliCache(t, m)
  \/ \E size \in Sizes, b \in Blocks : BernoulliInternal(t, size, b)
  \/ BernoulliExtended(t)
  \/ FreeLocalCache(t) \/ FreeBernoulliEntry(t) \/ FreeBernoulliTable(t)
  \/ FreePool(t) \/ FreePoolEntry(t) \/ PoolFreed(t)

Next == (\E t \in Threads : Step(t)) \/ (\E a \in Allocators : SetMemoryFunctions(a))

Spec == Init /\ [][Next]_vars

-----------------------------------------------------------------------------
(* Properties *)

\* The mpz_t's there are: in the slots of a pool below n_alloc that are not freed
\* yet, in the entries of a table that are made and not freed yet, in temporaries.
SlotInUse(t, k) ==
  /\ k < n_alloc[t]
  /\ pc[t] \in {"free_pool", "free_local_pool"} => k >= i[t]

EntryInUse(t, k) ==
  /\ k < IF pc[t] = "extending" THEN i[t] ELSE bernoulli_size[t]
  /\ pc[t] = "free_bernoulli" => k >= i[t]

TempInUse(t, z) == temp[t][z] # Dead

AllPlaces ==
  ({"pool"} \X Threads \X Slots) \cup ({"table"} \X Threads \X Indexes)
    \cup ({"temp"} \X Threads \X Temps)

PlacesInUse ==
  {p \in AllPlaces : \/ p[1] = "pool" /\ SlotInUse(p[2], p[3])
                     \/ p[1] = "table" /\ EntryInUse(p[2], p[3])
                     \/ p[1] = "temp" /\ TempInUse(p[2], p[3])}

At(p) ==
  IF p[1] = "pool" THEN mpz_tab[p[2]][p[3]]
  ELSE IF p[1] = "table" THEN bernoulli_table[p[2]][p[3]]
  ELSE temp[p[2]][p[3]]

\* Types, and the bounds that the assertions of the three files state: the stack
\* within its array, the table with room for the index that is being written.
TypeOK ==
  /\ allocator \in Allocators
  /\ limbs \in [Blocks -> Nat] /\ by \in [Blocks -> Allocators \cup {Nobody}]
  /\ pc \in [Threads -> Pcs] /\ i \in [Threads -> Nat]
  /\ temp \in [Threads -> [Temps -> Mpz \cup {Dead}]]
  /\ n_alloc \in [Threads -> 0 .. NEntries]
  /\ mpz_tab \in [Threads -> [Slots -> Mpz]]
  /\ bernoulli_table \in [Threads -> [Indexes -> Mpz]]
  /\ bernoulli_size \in [Threads -> 0 .. MaxIndex + 1] /\ bernoulli_alloc \in [Threads -> Nat]
  /\ table_by \in [Threads -> Allocators \cup {Nobody}] /\ n \in [Threads -> Indexes]

\* An allocated block is the limbs of exactly one mpz_t, and no mpz_t in use has
\* limbs that were freed: the copies of pool.c (memcpy of the structure, in both
\* directions) never make two owners, and nothing leaks.
OneOwner ==
  /\ \A p, q \in PlacesInUse : At(p) = At(q) /\ At(p) # Lazy => p = q
  /\ \A b \in Blocks : limbs[b] > 0 <=> \E p \in PlacesInUse : At(p) = b

\* What GMP frees or reallocates comes from the allocator in force: this is what
\* mpfr_mp_memory_cleanup is for ("This function should be called before calling
\* mp_set_memory_functions").
OwnAllocator ==
  /\ \A b \in Blocks : limbs[b] > 0 => by[b] = allocator
  /\ \A t \in Threads : bernoulli_alloc[t] > 0 => table_by[t] = allocator

\* "We only put objects with at most MPFR_POOL_MAX_SIZE in the mpz_t pool".
PoolBounded ==
  \A t \in Threads, k \in Slots : SlotInUse(t, k) => ALLOC(mpz_tab[t][k]) <= MaxSize

\* MPFR_ASSERTD (bernoulli_alloc > n) and MPFR_ASSERTD (bernoulli_size > n): no
\* entry is written or read past the table.
TableRoom ==
  \A t \in Threads :
    /\ bernoulli_size[t] <= bernoulli_alloc[t]
    /\ pc[t] = "extending" => bernoulli_size[t] <= n[t] /\ n[t] < bernoulli_alloc[t]

\* After mpfr_free_cache in every thread, no limb of MPFR is left.
NothingLeft ==
  (\A t \in Threads : pc[t] = "fresh") =>
    \A b \in Blocks : limbs[b] = 0

=============================================================================
