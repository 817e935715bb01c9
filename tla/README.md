# TLA+ models of MPFR

This directory holds specifications of the parts of MPFR whose correctness is
hard to establish by tests: the caches shared by threads, the memory each thread
keeps for itself, the basic operations on limbs, the roundings of
numbers that were already rounded, the tests that decide whether an
approximation can be rounded, the scheme by which the functions compute, and what each
function does to the range, the flags, the memory and the operands of its caller.
TLC checks them on small instances. TLAPS proves what matters most of the
caches, shared and local, for any number of threads, and of the roundings and the scheme
that ends every function, for every precision, exponent range, direction and exact result. Paths below are relative
to the root of the repository (`src/cache.c` and so on).

## 1. The system

MPFR is a library. It has no process of its own, its state is what follows.

| component | state | operations | with whom it interacts |
|---|---|---|---|
| Numbers | precision, sign, exponent, significand (limbs); singular kinds in the exponent | `mpfr_set4`, `next*`, `setmin`, `setmax`, all functions | every operation reads the exponent range and raises flags |
| Exponent range and flags (`exceptions.c`, `SAVE_EXPO` macros) | `__gmpfr_emin`, `__gmpfr_emax`, `__gmpfr_flags`, per thread; a saved copy in each running function | `MARK`, `FREE`, `UPDATE_FLAGS`, `mpfr_check_range`, `mpfr_underflow`, `mpfr_overflow` | functions extend the range, call other functions, restore it |
| Rounding (`MPFR_RNDRAW_GEN`, `round_raw_generic.c`) | none | significand, direction -> significand, carry, ternary value | the last step of every operation |
| Tests of an approximation (`round_p.c`, `round_prec.c`) | none | `mpfr_round_p`, `mpfr_can_round` | decide when Ziv's loop ends |
| Double roundings (`cache.c`, `set.c`, `subnormal.c`, `rndna.c`) | the number of the first rounding, its ternary value, and for `rndna.c` the hidden context | `mpfr_cache`, `mpfr_set_1_2`, `mpfr_subnormalize`, `mpfr_round_nearest_away` | the user, or fma and fmma, hand over a rounded number |
| Ziv's scheme (`mpfr-impl.h`, e.g. `log.c`) | working precision, its increment, the approximation | `ZIV_INIT`, `ZIV_NEXT`, `CAN_ROUND`, small-input shortcuts | all transcendental functions |
| Caches of constants (`cache.c`, `free_cache.c`, `mpfr-thread.h`) | per constant: value, precision, ternary value, lock | `mpfr_cache`, `mpfr_clear_cache`, `mpfr_free_cache` | shared by all threads; the computation of Catalan and Euler reads the caches of pi and log 2 |
| Pool and Bernoulli numbers (`pool.c`, `bernoulli.c`) | a stack of `mpz_t`, a table, per thread | init, clear, free, change of allocator | nearly all functions that use integers |
| Basic arithmetic (`add1.c`, `sub1.c`, `mul.c`, `div.c`, `sqrt.c`, one-precision variants) | none | exact or truncated limbs, then rounding | aliasing of operands and results |
| Functions (`exp.c`, `sin.c`, `pow.c`, `gamma.c`... about 80 files) | temporaries; results, one of which may be an operand | one call: special operands, shortcuts, early overflow and underflow, Ziv's loop, exact cases, end | call each other, with the range extended and the flags cleared, merged and restored at each level |
| Integers, rationals, comparisons (`set_z_2exp.c`, `si_op.c`, `gmp_op.c`, `rint.c`, `rem1.c`, `cmp.c`, `get_si.c`, `eq.c`...) | none | operations with C integers, `mpz_t` and `mpq_t`; nearest integers, remainders; order; conversions | take the basic arithmetic in a larger range, and bring the result back |
| Sums (`sum.c`, `dot.c`, `ubf.c`) | accumulation window | accumulate, cancel, restart, resolve ties | |
| Conversions and I/O (`strtofr.c`, `get_str.c`, `fpif.c`, `vasprintf.c`, native types) | buffers, streams | read, print | partial reads, exponent overflow |
| Random numbers | a deviate whose bits are produced when needed | | GMP's generator |

The behaviours that are hard: the interleavings of the lock operations of
several threads, one of which holds a lock while it asks for others; results
that are rounded twice and must look rounded once, where a single ternary
value is all that tells the sides of a tie apart; values, ternary values and
flags at both ends of the exponent range, some of which are lost and
reconstructed; limb boundaries in every bit scan; and loops that end only
because the precision grows.

What makes each component correct, in short: a call returns the exact result
correctly rounded in the precision and exponent range of the user, with its
ternary value and exactly the flags it calls for (numbers, rounding, double
roundings, Ziv's scheme); a test says yes only where all candidates round
alike (tests); threads see the constants as if there were no cache (caches);
nothing that is freed is used, nothing is lost, and memory goes back to the
allocator it came from (pool); the other components compute what exact
arithmetic followed by one rounding gives.

## 2. Modules

Reference definitions, with no trace of the algorithms:

* `RealRounding`: what correctly rounded means for a real number, counted in
  units so small that it is an integer: rounding to a multiple, to a
  precision, to an exponent range; ternary value; flags (from the definitions
  of `doc/mpfr.texi`, "Rounding" and "Exceptions").
* `CorrectFunction`: the abstract specification of a function: one step that
  delivers the right result and raises the right flags.
* `ConstService`: the abstract specification of the shared constants: a thread
  asks, the right digits come, a thread frees the caches and nobody notices.

Models of the code:

* `Rounding`: pure operators: `MPFR_RNDRAW_GEN` with its middle handler as an
  operator argument, its two instances, `mpfr_round_raw` and
  `mpfr_round_raw_2`, `mpfr_round_p`, `mpfr_can_round_raw`. A significand is
  an integer; the limb size `W` (`GMP_NUMB_BITS`) stays wherever a limb boundary
  changes what is read or decided.
* `Exceptions` (extends `Rounding`): numbers as records, `next.c`,
  `setmin.c`, `setmax.c`, `mpfr_underflow`, `mpfr_overflow`,
  `mpfr_check_range`, `mpfr_set4`. An operation returns the number, the
  ternary value and the flags it raises.
* `CanRound` (extends `Rounding` and `RealRounding`): a caller asks one of the two
  tests one question; the answer is compared with the interval.
* `DoubleRounding` (extends `Exceptions` and `RealRounding`): an exact result
  is rounded by a function (`FirstRounding`), then one of the four double
  roundings takes place: `CacheRound`, `SetOneTwo`, `Subnormalize`,
  `NearestAwayEnd` (which `Subnormalize` may follow, as `doc/mpfr.texi` allows).
* `Ziv` (extends the same): one call of a function. `FastSmallInput` is the
  shortcut before the range is extended; `Begin` is `MPFR_SAVE_EXPO_MARK`;
  `SmallInputAfterSave` the shortcut after it; then `ZivInit`, `Approximate`,
  `ZivNext`, `RoundApproximation`, `RestoreRange`. `log.c` is the instance
  that the map points to. `Approximate` chooses any number of the working precision
  within the error bound, singular when it is out of the extended range, and
  raises flags of its own. `ZivProofs` has the theorem.
* `ConstCache`: the threads. A thread has two frames: the call the user made
  and the one that `cache->func` makes. `pc` says where each is; a significand
  is abstracted to the precision for which it is right (0: being written,
  freed, wrong). One action per lock operation, test, recomputation and copy;
  `RWLock` chooses the POSIX locks or the ISO C11 mutex of `mpfr-thread.h`.
  `ConstCacheProofs` has the theorems, `MCConstCache` the instance.

* `LocalCaches`: what each thread keeps: the pool of `mpz_t`'s (`pool.c`), the
  table of Bernoulli numbers (`bernoulli.c`), and their end (`free_cache.c`). An `mpz_t`
  is the block of its limbs, or `Lazy` when it has none (`mpz_init` of GMP 6.2
  allocates nothing); a block has a size and the allocator it came from. `InitTemp`,
  `Init2Temp` and `ClearTemp` are the `mpz_init`, `mpz_init2` and `mpz_clear` of any
  function of MPFR; `BernoulliCache`, `BernoulliInternal` and
  `BernoulliExtended` are a request for a Bernoulli number: the `realloc`, one new
  entry of the table (the temporaries it uses in between are those of the previous actions), the
  end of the loop. `FreeLocalCache`, `FreeBernoulliEntry`,
  `FreeBernoulliTable`, `FreePool`, `FreePoolEntry` and `PoolFreed` are the loops of
  `mpfr_free_cache`, one entry at a time; the Bernoulli numbers go through the
  pool, which is why it is freed after them. `SetMemoryFunctions` is the user's change of
  GMP's allocator, allowed when all threads have freed their caches and have no
  temporaries, which is the rule of `doc/mpfr.texi` (`mpfr_mp_memory_cleanup`).
  The array of the pool keeps stale copies above `n_alloc`, as in the code: they
  are what a wrong index would find. `LocalCachesProofs` has the theorems,
  `MCLocalCaches` the instance.

The basic operations, over limbs of `W` bits:

* `Limbs` (extends `Exceptions`): significands as integers made of limbs, and the
  common ends of an operation (round bit, sticky bit, underflow, overflow).
* `AddSub`: `add1sp.c` and `sub1sp.c`, one operator for each algorithm: less than
  one limb, one limb exactly, two, two exactly, three, and any number of limbs, by the distance
  of the exponents. `AddSubGeneral`: `add1.c`, `sub1.c`, `cmp2.c`, limb by limb
  (`AddScan`, `SubScan`: the loops that stop as soon as the rounding is known), and
  `mpfr_add` and `mpfr_sub`, which choose. `OperationsProofs` has the theorem on `mpfr_add1sp`.
* `MulDiv`: `mul.c`, `sqr.c`, `div.c`, `mulders.c`. The short product
  (`Mulhigh`) leaves the low limbs aside, and `MulHigh` takes it only if its error
  cannot reach the rounding; `DivHigh` does that for the quotient, `DivCorrect` is the comparison
  of the remainders that decides the last unit. `div_ui`, `mul_2si` and `div_2si` too.
* `SquareRoot`: `sqrt.c`, also proved right in `OperationsProofs` and `ArithmeticProofs`. `Sum`: the accumulator of `sum.c`, its windows
  (`SumStep`), and the second accumulator (`SecondSign`) for the Table Maker's Dilemma; `mpfr_dot`
  is the sum of exact products (`Dot`).
* `Fused`: `fma`, `fms`, `fmma`, `fmms`, with products whose exponent is out of
  every range (`ubf.c`).
* `Arithmetic` composes them: an execution gathers the operands of an operation, calls it,
  and the result is compared with `RealRounding`.
* `WithIntegers`: the assignments of `u * 2^e` and `z * 2^e`, and the four operations of a number and
  of an `unsigned long`, a `long` or an `mpz_t`, each of which becomes the next one
  or a number that may be out of the range. `WithRationals`: `mul_q`, `div_q`, `set_q`, made of two
  operations in the largest range.
* `IntegerParts`: `mpfr_rint` with its five modes, the functions that round again after it,
  `frac`, and the remainders with the low bits of their quotient (`Rem1`): the division of an operand that
  is not above the other in exponent (`DividedBelow`, with the shortcut for a tiny one), and the reduction of the other
  modulo a multiple of the divisor (`DividedAbove`), in which a large power of 2 is reduced first (`PowerFor`).
  `ToIntegers`: comparisons, `mpfr_eq`, `min`, `max`, `dim`, the conversions to a C integer or an `mpz_t`, and
  the tests that the number fits.
* `IntegerArithmetic` extends `Arithmetic` with these operations; `MCArithmetic` gives the operands of all.

The functions, without their approximations:

* `Bodies`: the vocabulary. The body of a function for given operands is a set of
  alternatives, each a sequence of events: extend or restore the range (`Mark`, `Free`),
  `Check` (`mpfr_check_range`), merge or clear flags, `Alloc` and `Dealloc`, `Compute` a
  temporary, `Read` an operand, `Round` or `Write` a result, overflow, underflow, NaN,
  infinity, zero. An operand is NaN, an infinity, a zero, or a number in halves, with two
  representatives for numbers that are tiny or huge: its class, its parity and its
  order are what the branches of the code look at. A branch on an approximation or a
  precision is taken both ways.
* `ExpLog`, `Trig`, `ArcTrig`, `Hyperbolic`, `Integrals`, `Gammas`, `Powers`: one
  operator per function or static function of the library, 76 functions in all (exponentials and
  logarithms; circular functions, also of a part of a turn; their inverses; hyperbolic
  functions; eint, erf, zeta, li2, ai, Bessel, Legendre, agm; gamma and its relatives,
  beta; powers, roots, hypot, compound).
* `SpecialValues`: the reference: for each function, and each operand where it is special, NaN, an
  infinity, a pole (an infinity with the divide-by-zero flag), a signed zero, or the sign of the
  result; from the mathematics and from the decisions of `doc/mpfr.texi` and of the comments of the code.
* `FunctionCalls`: the machine that executes a body, one action per kind of event. A computation may
  raise any flag; a result made in a larger range has still to be checked; an operand that is also
  a destination is lost when the destination is written. `MCFunctionCalls` gives the operands.
* `MCCallsWrong` runs a program of calls of both kinds, for the findings.

`MC*` modules only give values to constants. Definitions named as mutants
(their comments begin with "Mutant:") are plausible bugs; each property of a passing run
is violated by one of them.

## 3. Runs

| run | module, cfg | what it shows |
|---|---|---|
| `posix` | `MCConstCachePosix.cfg` | exclusion (`NoTornRead`, `LockInv`), `ShrinksOnlyWhenCleared`, `LeafCoherent`, and `CallsReturn`: no deadlock and no lost wake-up among two threads with two calls each |
| `posix_stale` | `MCConstCachePosixStale.cfg` | a violation: `CprecIsCurrent`, see findings |
| `c11` | `MCConstCacheC11.cfg` | with mutexes the assertions of `mpfr_cache` hold, `CacheCoherent`, and `ServiceSpec`: the caches implement `ConstService`, liveness included |
| `can_round` | `CanRound.cfg` | `mpfr_can_round` never says yes wrongly but in three named cases, is exact toward zero for an error of unknown sign; `MPFR_CAN_ROUND` is sound, and agrees with the debug check of `round_p.c` (`ZivTestSound`) |
| `can_round_unsound` | `CanRoundUnsound.cfg` | a violation: the three cases |
| `double_rounding` | `DoubleRounding.cfg` | value and ternary value of the four double roundings are those of one rounding; flags of constants and of nearest-away |
| `double_rounding_fma` | `DoubleRoundingFma.cfg` | a violation: flags of fma and fmma |
| `local_caches` | `MCLocalCaches.cfg` | one owner for each allocated block (nothing used after it is freed, nothing freed twice, nothing lost), the right allocator, room in the table, nothing left after cleanup |
| `arithmetic` | `MCArithmetic.cfg` | every operation of `Arithmetic` and `IntegerArithmetic` returns the number, the ternary value and the flags of one rounding of the exact result, whatever the algorithm (`AddSubRight` to `SumRight`, `IntegersRight`); `rint` and its relatives round once or twice as documented, to an integer the result can hold (`IntegerPartsRight`); remainders and quotients are those of the exact division, whichever of the reductions the exponents select (`RemainderRight`); comparisons give the exact order, and a number fits in a type if and only if the integer it is rounded to does, which is the one returned (`ToIntegersRight`). For fma and fmma the underflow flag may be in excess (finding 3), and findings 4 to 6 and 21 to 25 are excepted by name |
| `functions` | `MCFunctionCalls.cfg` | on every path of 76 functions: temporaries are computed in the extended range and the caller gets its range back (`RangeRestored`), what is initialised is cleared once (`NothingLeaked`), the flags are the caller's plus those of the results (`FlagsExactlyDue`), results are in the caller's range (`ResultInRange`), no operand is read after it is overwritten (`OperandNotStale`), special values and signs are right (`ResultRight`) |
| `calls_wrong` | `MCCallsWrong.cfg` | a violation: twenty-eight calls, each with the fault of finding 4 or later |
| `ziv` | `Ziv.cfg` | `PromiseKept`: the scheme implements `CorrectFunction` (value, ternary value, flags, range); `Returns`: it comes back |

### Bounds, and why they are enough

* `ConstCache`: two threads, two calls each, two caches (`pi`, and `catalan`
  whose func reads `pi`), precisions 20 and 21 (21 is within 10% of 20, 22 not;
  the inner call asks for 31). The conflicts are between pairs of
  frames, and a thread's second call meets the other's first. What
  does not depend on the bound is proved (section 5).
* `CanRound`: limbs of two bits, up to three limbs, correct bits and precision
  up to two bits beyond. Three limbs is the least number where a limb
  is neither the first nor the last, and all significands, signs and
  directions are enumerated.
* `DoubleRounding`: limbs of three bits, precisions 1 to 4, so that
  `mpfr_set_1_2` takes both of its paths (below one limb, and above, where
  precision 4 makes 2p fill its limbs) ; exact results
  of 8 bits, so up to 4 bits after the rounding bit of the first rounding; an
  exponent range of four values inside an extended one, with exact results on both sides
  of both. The inputs of `mpfr_set_1_2` are the sums of products that
  `mpfr_fma` and `mpfr_fmma` really hand over, since an arbitrary real number
  is not in its domain.
* `Ziv`: limbs of three bits, so that the first increment of the precision is
  small and the loop turns several times; exact results of 5 bits next to breakpoints;
  four user ranges, one of which is the extended range; error bounds of 4 units
  in the last place; approximations of at most `Scale + e` bits, e their exponent, so that they are whole numbers of units (the
  loop ends before).
* `LocalCaches`: two threads, two blocks of up to two limbs (two threads
  compete for them, or one holds both), a pool of two entries that takes integers of one limb, so that it is full,
  empty and refuses an integer in turn; Bernoulli numbers 0 and 1, so that the
  table is allocated and then extended; two allocators. The first size of
  the table and the growth, 16 and one quarter in `bernoulli.c`, are 1 and 1: all that
  matters of them is `GrowthAssumption`, which 16 and 4 also satisfy. The threads
  do not share anything but GMP's allocator and the blocks it gives. Deadlock
  is not checked because the number of blocks is finite: an exhausted memory
  aborts the program.
* `Arithmetic`: limbs of three bits (two limbs are six bits, three are nine), and of six
  bits for the codes of two and three limbs of products and roots, which need more bits than
  the tables of the general code allow to explore; up to three limbs for operands and
  results; exponents -4 to 2, extended to -5 to 3 for fma, so that products and sums
  leave both ranges at both ends. Thresholds (`MulThreshold`, `DivThreshold`, `MulhighK`) are as
  low as they can be, so that short products and quotients occur with so few limbs. Significands longer
  than one limb are those with runs of equal bits at limb boundaries (`Patterns`): roundings,
  carries and cancellations depend on them. All rounding modes.
* `IntegerArithmetic`: the same, with an `unsigned long` and a `long` of one limb; integers
  -24 to 31, of one limb, of a `long` or too large for one and up to two limbs, several of which are out of
  the range of exponents; exponents from below emin to above emax for the assignments; rationals of such
  integers with denominators up to 29, so that quotients underflow both ranges; two low bits of the
  quotients (`WantedBits`), so that they wrap; up to nine bits compared by `mpfr_eq`, three limbs. The operands
  of the remainders have exponents up to `FarEmax`, 12, so that 2^(ex-ey) exceeds the cube of every modulus, the threshold of
  `mpz_powm_ui`; smaller ones are tiny before the divisor, near it, or half of it.
* `FunctionCalls`: operands NaN, both infinities and zeros, tiny, 1/2, 1, 3/2, 2, 3, 9 and
  a huge even integer, of both signs, in pairs for functions of two operands; integers -3 to
  4 for exponents and orders, 101 for the root by exp and log; units 0, 1, 3 and 8 of a turn. Every
  test of the code on an operand separates two of them. `Loop` may turn any number of times.
* `MaxBits`, a constant of `RealRounding`, is the length of the largest real: 30 for TLC's 32-bit integers,
  any number in the proofs.

### Fairness

Users never have to call. `ConstCache!Fairness` is weak fairness of every
step of `mpfr_cache` and `mpfr_clear_cache` (a thread that can go on does; a
lock that stays free is taken), and strong fairness of the end of a
computation: the func may call other constants as often as Ziv's loop
turns, and each such call makes `ComputeDone` wait, but the loop ends, which
is what `Ziv!Returns` shows. `Ziv!Spec` has weak fairness of the function.
A lock acquisition needs no strong fairness in these runs because the number
of calls is bounded; for unbounded calls it would be a property of the
thread library.

### Preconditions

`mpfr_round_nearest_away_begin` asserts `emin > MPFR_EMIN_MIN`;
`mpfr_subnormalize` needs `emax >= emin + prec - 1` (otherwise it calls
`mpfr_setmin` beyond `emax`, or the range has no normal number) and the assumptions of `DoubleRounding` say so. The exact result of
`Ziv` is not representable, since functions treat their exact cases apart;
that of `DoubleRounding` may be.

## 4. Findings

1. `posix_stale`. `mpfr-thread.h` implements `MPFR_LOCK_WRITE2READ` by an unlock
   and a lock. In between another thread may enlarge the cache, and
   `mpfr_cache` then rounds `cache->x` with the precision it remembers, against
   its own comment and assertion ("now cprec >= dprec is the precision of
   cache->x"). As `MPFR_RNDRAW_GEN` locates the limbs from `cprec`, the digits
   are wrong. If the other thread frees the caches, the significand is not
   even allocated.
2. `can_round_unsound`. `mpfr_can_round` says yes where it should not: for
   `MPFR_RNDF` after a directed rounding when `b` is representable, whatever
   the error; in precision 1 when the interval crosses a power of two; above
   one limb when the carry of `b + c` reaches the top limb. `mpfr_can_round (1, -10, MPFR_RNDZ, MPFR_RNDF, 53)`,
   and 1.03125 with 4 correct bits and `MPFR_RNDU` twice to precision 1, show
   the first two. It also says no in a few cases where it could say yes (not an
   error: the test is then only repeated with more bits). The functions
   of the library use `mpfr_round_p`, which is sound (`ZivTestSound`).
3. `double_rounding_fma`. The rounding to twice the precision inside
   `mpfr_fma` and `mpfr_fmma` may raise the underflow flag for a result that
   does not underflow.

The others are in one run, `calls_wrong`; `Arithmetic` and `FunctionCalls` except each of them by a named
definition (`TieOfDiv`, `HalfOfMin`, `UbfAndZero`; `OppositeOfZero`, `UnderflowDropped`, `QuotientWraps`,
`NoBitLeft`; `ComputedInUserRange`, `LeftByZeta`,
`Unchecked`, `OperandNotStale`, `SignLost`, `OneForZero`, `ZeroSignLost`, `OneForNan`, `SignInverted`), so that any other case is
still an error. All but 19 were also seen on the compiled library.

4. `div.c:1298`: a quotient just below a midpoint, with a divisor longer than it: ternary value 0 for
   an inexact result.
5. `add1.c:578`: fmma, two negative products whose sum rounds to 2^(emin-2): -0 instead of
   the least number.
6. `add.c:82`: fmma, a product that is 0 and one out of the range: no overflow is detected.
7. `exp2m1.c:164`, `exp10m1.c:158`, `log10p1.c:204`: an underflow is always positive.
8. `asinu.c:133`, `atanu.c:158`: likewise.
9. `sinu.c:131`, `tanu.c:130`: an underflow is made in the extended range and not checked.
10. `sin_cos.c:129`: the caller's range is restored before `mpfr_sincos_fast`, which may then not end.
11. `atanu.c:110`: a temporary in the caller's range.
12. `atan2u.c:278`: 1 or -1 for u = 0, where the documentation says 0.
13. `sinh_cosh.c:109`: the operand is read after it is overwritten.
14. `trigamma.c:584`: a negative overflow for a function that is positive there.
15. `beta.c:244`, `eint.c:308`: to nearest, an underflow gives the least number.
16. `beta.c:98`: the signs of beta(+Inf, w) are inverted.
17. `beta.c:195`: temporaries in the caller's range, with assertions that they are exact.
18. `beta.c:193`: the sign of beta(z, -z) for odd z.
19. `zeta.c:612`: a temporary is not cleared (by reading the code: no operand that takes this path was found).
20. `powr.c:32`: powr(1, NaN) is 1.
21. `rem1.c:232`: the low bits of the quotient are all ones and are incremented: the `long` overflows.
22. `gmp_op.c:251`: mul_q and div_q lose the underflow flag of their division when `emin` is the least one.
23. `si_op.c:84`, which mpfr_z_sub reaches through mpfr_si_sub: si_sub(-1, -1) is -0.
24. `eq.c:95`: a shift by the size of a limb, undefined, and a wrong answer where the limb is kept.
25. `eq.c:139`: mpfr_eq for 0 bits compares a limb.
26. `asinu.c:71`: asinu(x, 0) is +0 for x < 0, where the comments (lines 52 and 68) want the sign of x.

## 5. Proofs

`ConstCacheProofs` proves, for every set of threads and caches, every
dependency between the caches that `ConstCacheAssumption` allows (a cache read
by a func depends on no other: true of pi and log 2), every set of
precisions and any bound on calls:

* for both kinds of locks: `TypeCorrect`, `LockInvariant`, `Exclusion`,
  `LeavesStayRight`, `CachesOnlyGrow`;
* for mutexes: `MutexCprec`, `MutexCoherent` and `MutexImplementsService`
  (every step is a step of `ConstService` or a stutter).

The argument. Exclusion is not inductive: that no two frames are in conflicting
parts of the code follows from who holds the locks. `LockInv` says that a frame
at a label between a lock and its unlock is a holder and that a writer is alone;
with `TypeOK` it is inductive, and exclusion is an instance. For mutexes,
`CprecIsCurrent` and the correctness of the copies need more: `MutexInv` says that
`cprec` is the precision of the cache from the moment the lock is taken, that
what is not being computed is coherent, and that no inner call ever
delivered a wrong value (which is why the recomputed one is right). It is inductive with `TypeOK`
and `LockInv` (`MutexInvariant`). With POSIX locks that is false (finding 1), but `LeafCoherent` is not:
the caches whose func reads no other one are only left wrong between the two ends of a
recomputation, by a frame that holds the lock, and nothing wrong can enter it. `posix` and `c11` check these invariants with TLC. The
refinement maps `pc` to what the thread is doing and the reply of the outer
frame to the answer; only `Call`, `Copy`, `UnlockRead`, `FreeCaches` and the
last step of `GoOnFreeing` are visible.

`LocalCachesProofs` proves all the properties of the run `local_caches`, and `PoolBounded`
(the pool only holds small integers), which the run leaves to the proof, for any
threads, blocks, allocators, sizes and number of entries of the pool, numbers of temporaries, and any
first size and growth of the table within `GrowthAssumption`: `TypeCorrect`,
`OneOwnerEach`, `TableHasRoom`, `AllFreed`, `AllocatorMatches`, `PoolKeepsSmall`.
`OneOwner` needs to know which cells of the arrays are in use in the middle of the
loops that free them, and that is what `Control` says of `pc`, `i`, `n_alloc` and
`bernoulli_size`. Seen as a function from the places in use to the integers
they hold (`Owned`), the heap changes in few ways: a copy of a structure from one
place to another, a new block, a freed one; each has a lemma, used by all actions
that do it. `PoolBounded` follows because an integer that grows is in a place
apart from the pool. `TableRoom` needs that a table that exists has at least
`MinAlloc` entries: with a smaller one, `n + n / 4` could be `n`. `NothingLeft` is
`OneOwner` where no place is in use.

Four modules prove that the roundings of MPFR are right for every number, precision,
exponent range, sign and direction, not only for the small ones that TLC enumerates: limbs, precisions,
ranges and the length `MaxBits` of the exact results are constants, within the assumptions of
`Rounding`, `RealRounding`, `DoubleRounding`, `CanRound` and `Ziv`.

`RoundingProofs` is about one rounding. The provers know nothing of `2^n` for a variable n, nor of
induction. Both are drawn from theorems of the library: `WFMin` (a nonempty set has a
minimal element) gives an induction principle on the naturals, and `FS_SUBSET` (a set of n
elements has `2^n` subsets) gives the laws of powers (`PowSucc`, `PowAdd`, `PowMonotone`...).
On these rest the euclidean division (`DivModUnique`), the cut of a significand in what is kept, q, and what is
dropped, r (`Cut`), what the rounding bit and the sticky bit of `MPFR_RNDRAW` say of r
(`RoundBitIs`, `StickyIs`), and two theorems: `RndRawRight` (the significand, the carry
and the ternary value of `MPFR_RNDRAW` are those of the definition) and
`CheckRangeRight` (`mpfr_check_range` brings a number rounded in a larger range to the user's range:
number, ternary value, flags; below `emin` to nearest it decides between 0 and the least
number by the ternary value alone, when the number is `2^(emin-2)`).

Its second part says what a second rounding can know: the first one left `Y = (q*u + r) * v`, nearer to X than
v, and a ternary value, which is the sign of `d = X - Y`. The second one sees q, r and this sign. Its lemmas show
that this is enough to choose between the same candidates as a rounding of X itself
(`Candidates`), ties and powers of two included. It also holds what is known of the rounding of X from an
approximation C of it, when the error E stays between two consecutive numbers of the
precision: with U the distance between them and R what C leaves above the lower one,
`E <= R /\ R + E < U` (`Clear`).

`DoubleRoundingProofs` applies it. A lemma, `Stages`, says what each step of the run
has returned, as an operator of the exact result; it shows nothing by itself, but each invariant is then a fact about
operators: `NearestAwayIsRight`, `FlagsAreRight`, `SubnormalIsRight` and `AtomicIsRight` are the
invariants `NearestAwayRight`, `FlagsRight`, `SubnormalRight` and `AtomicRounding` of the run `double_rounding`.
`AtomicIsRight` takes most of the work: `mpfr_set_1_2` has two paths, by the number of limbs, and a
correction when the first rounding fell on a midpoint, and the sums that `mpfr_fma` and `mpfr_fmma` hand over may
be out of the range at either end. The only assumptions are those of section 3 (Preconditions), and on the unit in
which reals are counted: the exact results and all numbers of 2p bits of the exponent range are whole numbers of units, the least number
of the extended range is at least two of them, and the greatest is less than `2^MaxBits`; the unit is not in the code and may be as small as one likes.

`CanRoundProofs` proves the invariants `ExactTowardZero` and `ZivTestSound` of the run `can_round`. Both tests, and the
real interval they decide about, are reduced to `Clear`. For `mpfr_can_round` toward zero: the three cases of the code
(`CanRoundRaw`: precision larger than the significand, error less than its last bit, comparison
of b + c and b - c limb by limb) amount to `Enough` (`NearTowardZero`), in particular the bit
of rank prec is the same in `low + c` and `low - c`, modulo the limbs that are looked at, exactly when
nothing crosses a multiple of the ulp (`BoundsBits`), and then no carry is lost; `SameFloor`
says when two ends have the same truncation, also when the lower one is in the binade below. `mpfr_round_p` looks at the bits between prec
and the error, all zeros or all ones or not (`RoundPEnough`); then the interior of the interval rounds
alike (`InteriorDirected`; to nearest, from the test with one more bit, `InteriorNearest`).

`ZivProofs` proves that a function keeps the promise of `CorrectFunction`, the property `PromiseKept` of the
run `ziv`: `FunctionKeepsPromise` shows that every step of the model is the one step of the abstract specification
or one that the user does not see, for all ranges, precisions, working precisions and error bounds of `ZivAssumption`, and any
approximation that may come. The refinement maps the user's range and flags to what `MPFR_SAVE_EXPO_MARK` saved while
the function runs. The inductive invariant `Inv` says what is saved and which range is in force at each `pc`, that the working
precision is positive, that `t` is within the error bound, and (`InRange`) that what was rounded is the correct
rounding in the extended range. The argument has three parts.

* `TestedApproximation`: `mpfr_round_p` says yes when the approximation C and its error lie between two consecutive
  numbers of prec bits (prec + 1 to nearest). The exact result has more bits than those, so it is strictly between the same
  two, and a number so placed rounds the way C does, with the same carry and ternary value (`TestSettles`, `Settled`).
* `NearXOutcome`: in `mpfr_round_near_x`, v is closer to the result than half of its own last bit. Either v has more bits than prec
  and the previous argument applies, ties excluded by the side of the result (`CloseSettles`), or v is a number of the
  precision, and the result is v or its neighbour on that side (`NearXBelow`, `NearXAbove`), with the underflow or
  overflow when that neighbour is out of the range.
* `BackExact`, `BackFaithful`: what the extended range was left with, a number, an inexact infinity or an inexact zero, is all
  that `mpfr_check_range` needs, and the flags that `MPFR_SAVE_EXPO_UPDATE_FLAGS` kept are among those
  it raises again, or those that a lost infinity or zero calls for.

`ZivAssumption` says that the exact result has at least two bits more than the precision, the form here of "not representable, nor
a midpoint"; that the approximations and errors are whole numbers of the unit (which may be as small as one likes, as
the unit and the bits of the result are constants); and that each user range is inside the extended one.

The proofs on double roundings also showed that two guards of the model of `mpfr_cache`'s middle case overlapped (with the same
result where they did); they are now exclusive.

The last two modules prove two operations of `Arithmetic`, as the code computes them, limb by limb, for limbs of
any size `W` of at least three bits (`LimbAssumption`), operands of any precision, any range and mode.

`OperationsProofs` is about operators. Its theorem `AddSpRight` says that `mpfr_add1sp` returns the exact sum of two
numbers of one precision, rounded once, with its ternary value and flags, whichever of the six
algorithms is chosen, and also by the generic code when `MPFR_GENERIC_ABI` leaves out the special ones. The argument:

* an addition ends with a significand m, a round bit and a sticky bit, and so do most operations. `RoundsFrom`
  says what these are of an exact result; then the codes that end an operation (`RoundUnder`, `RoundOver`,
  `Settled`, `AddOneUlp` and `mpfr_check_range`) return what `RealRounding` defines (`EndsRight`, `SettledRight`, from the lemmas of `RoundingProofs`);
* the smaller operand is shifted to the right, and the code looks at the bits lost in several ways: masks
  of one limb, the low part of the limbs, a search for a nonzero limb. `LostIs` and `StickyAlike` say that all of them tell
  the same as the bits themselves, and `SumRounds` that the sum of what is kept rounds as the exact sum does, whether or not
  there is a carry;
* `AddMaskedRight` (a limb with unused bits: one, two or three limbs), `AddFullRight` (limbs exactly
  filled, where the carry leaves the word and the round bit is the one that goes), and `AddAnyRight`, by the distance of the
  exponents: apart (`AddFarRight`), overlapping (`AddNearRight`), equal (`AddAlignedRight`).

Its second part is about the square root, for limbs of any size w: `SqrtWithRight` is the lemma for the four
codes of `sqrt.c`, of which `SqrtIs` says that they are those of `SquareRoot`.

* `IsqrtIs`: `Isqrt` is the integer part of the root. It is the only proof by induction on what a recursive function
  computes. The library's induction theorems are out of reach, but the set of the n for which the
  statement is false is a set, and `WFMin` gives its least element;
* the root has no last bit, and no number may be compared with it. It is seen through its integer part in a unit as small as one likes
  (a power of 4 for the radicand) and one more bit that says that the root goes on; `SeenRoot`, `SeenCut` and `SeenRounds` say
  that m, the round bit and the sticky bit taken anywhere above are those of every finer view, so the rounding does not
  depend on the unit. `NoMidpointIs`: the root of a number of p bits is no midpoint of p bits;
* `ApproxIs`: the codes of one and two limbs start from an approximation of the root. When its low bits are far enough from
  the bits that decide, the approximation rounds like the root, for every approximation within the error; otherwise
  the code corrects it, and has the integer part (`ApproxRight`). This is the part that no enumeration of 64-bit limbs can
  reach;
* `GeneralSqrtRight`: the general code takes as many limbs of the radicand as the root needs, and all
  that it left aside counts in the sticky bit (`GeneralSeen`).

`ArithmeticProofs` is about the state machine. `SqrtIsRight` proves the invariant `SqrtRight` of the run `arithmetic`: whatever
the operands, every call that returned delivers a number that is `Right`. `SqrtRight` does not say how the result was obtained, so
the inductive invariant `RootInv` does: when a root was called, the operand, the precision, the mode and the approximate root are among
those allowed, and the result is what `SqrtWith` returns. `CalledRight` then goes from this to `Right`: the
property takes the exact root to its own number of bits (`RootLsb`), and `RootOfOperand` says that these are enough to
be a view of the root in the sense above. The roots over wide limbs go through an instance of `SquareRoot`
(`WideRoot`), and `WideSqrtIs` brings its operators back to those of the module. `SqrtAmongOthers` is the same theorem when other
operations are called as well (`OtherCall`), as in `IntegerArithmetic`, whose actions leave the roots alone.

Besides `LimbAssumption` these proofs use `RootAssumption` (the errors of the approximations), `ArithmeticAssumption`
(the operands are normalized numbers, within the range) and `RootsAssumption`: the length `MaxBits` of the reals, which the code does not have, is large enough
for the roots. TLC evaluates them all.

Only model-checked:

* the liveness properties (`CallsReturn`, the liveness of `ServiceSpec`, `Returns`): fairness and ENABLED are out of the prover's reach;
* `CanRoundSoundElsewhere`: the soundness of `mpfr_can_round` for the 36 pairs of directions, with its
  three exceptions. Each pair is a case of its own in the code, and where the carry is lost the answer
  is right or wrong by the values of few bits, which enumeration covers; the directions proved are those of
  `ExactTowardZero`;
* `AddSubRight`, `MulRight`, `DivRight`, `FusedRight` and `SumRight` of `Arithmetic` and the four properties of `IntegerArithmetic`. Of the
  first, `AddSpRight` proves the additions of numbers of one precision; subtractions (their cancellations) and the scans of
  `AddSubGeneral`, which stop after a number of limbs that depends on the data, are only checked. The others are
  unit-by-unit error analyses (short products and quotients) or loops over the limbs, each with its own argument;
* `FunctionCalls`: about seventy concrete programs, which TLC enumerates for all
  their branches; there is no parameter for a theorem to range over but the operands, whose
  classes are all in the run.

## 6. Abstractions and what is not modelled

* The read of the precision without the lock in `mpfr_clear_cache` is a data
  race for the C standard; the model gives it an old or a new value.
* The locks of the caches exist from the start: `MPFR_ONCE_CALL` is a service of the C
  library. Failing lock operations abort the program and are left out.
* NaN is left out of `Exceptions`: it follows none of the paths modelled.
* `LocalCaches` leaves out the values of the integers (the Bernoulli numbers
  are the mathematics of `bernoulli.c`), the compile-time variant without the
  pool, and the constants' caches that `mpfr_free_cache` also frees, which are
  `ConstCache`'s.
* The significand of a constant is a precision, not digits; its rounding is
  `DoubleRounding!CacheRound`.
* The mathematics of the functions (series, AGM, error analyses) is the
  environment's choice in `Ziv` and in `FunctionCalls`: that an approximation is within the bound the
  code claims is not checked.
* Overflow of the exponent of a temporary in the extended range is one more outcome of
  `Compute` (it may raise any flag); which operands cause it is not told apart.
  `trigamma.c:588` (an exact 1/x whose square overflows the extended range) is such a case.
* In `MulDiv` and `SquareRoot`, the approximate inverses and roots of 64-bit limbs
  (`invert_limb.h`, `invsqrt_limb.h`) are any value within the error the code assumes; `Divhigh` is the
  schoolbook algorithm, not its recursion; the exponents of unbounded floats are
  integers, without the `mpz_t` that holds them.
* `mpfr_dot` asserts that its products are exact, which fails when one of them leaves the range:
  those calls, which stop the program, are left out (`DotAsserted`).
* Of the operations with integers and rationals: `add_q` and `sub_q` (a loop on the precision of the rational),
  `cmp_q`, `cmp_f`, `cmp_d`, `modf`, `cmpabs`, and the `intmax_t` variants are not modelled; the operands of the
  modules of arithmetic are numbers and zeros (an infinity only stands for an integer out of the range, in `CmpZ`): what
  the operations do for NaN and infinities is a table without state.
* Components without a module:
  conversions to and from strings, native floating-point types and streams, random numbers (section 7); logging,
  printing of raw numbers and version strings (pure output); mini-gmp (the limb
  primitives are taken by what they do).

## 7. Plan

In this order:

1. `ConstCache`, `Rounding`, `Exceptions`, `CanRound`, `DoubleRounding`, `Ziv`,
   and the proofs on `ConstCache` (done).
2. `LocalCaches` and its proofs (done).
3. `Limbs`, `AddSub`, `AddSubGeneral`, `MulDiv`, `SquareRoot`, `Sum`, `Fused`,
   `Arithmetic` (done).
4. `Bodies`, the seven modules of functions, `SpecialValues`, `FunctionCalls` (done).
5. `mpfr_dot`, `WithIntegers`, `WithRationals`, `IntegerParts`, `ToIntegers`, `IntegerArithmetic` (done).
6. The recursion of the short quotient; `add_q` and `sub_q`. `Conversions`: exponent arithmetic and midpoints of `strtofr`, `get_str`, and the partial reads of
   `fpif`; the random deviate.
7. Proofs on the roundings: `RoundingProofs`, `DoubleRoundingProofs`, `CanRoundProofs`, and on the functions: `ZivProofs` (done). On operations:
   `OperationsProofs` (addition, square root) and `ArithmeticProofs` (done). Next, `mpfr_sub1sp`, and the operations of one limb in `MulDiv`.
