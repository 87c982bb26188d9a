# A verification of HElib

HElib is a C++ library of homomorphic encryption: BGV ciphertexts over
cyclotomic rings, in residue number systems, with key switching, modulus
switching and automorphisms. This directory holds TLA+ models of its core, the
TLC runs that check them on small instances, and TLAPS proofs of what holds for
every instance. Paths below are those of the repository (`src/`, `include/`,
`tests/`); `PROJECT.json` gives the lines every definition was translated from.

One fact about the code decides what there is to model: `include/helib/PAlgebra.h:30`
defines `BIGINT_P` for every build. Everything under `#ifndef BIGINT_P` is not
compiled: CKKS, slots (`EncryptedArray`, `Ptxt`), linear algebra, permutations,
recryption, binary arithmetic. A plaintext space may be as large as a big integer
instead. What is left, and is modelled here, is the core of keys and ciphertexts.

## 1. Inventory

| Part | Files | State | Operations | What is hard |
|---|---|---|---|---|
| IndexSet | `IndexSet.cpp` | bit vector, cached `_first`, `_last`, `_card` | insert, remove, retain of an index or a set; iteration; comparison; binary form | loops walk over a set they change; caches may go stale |
| Key switching | `keys.cpp`, `keySwitching.cpp` | list of matrices, one map row per key | ImportSecKey, GenKeySWmatrix, addAllMatrices, setKeySwitchMap, lookups | the map is a snapshot of the list; breadth-first search whose queue grows while it runs |
| Keys, encryption | `keys.cpp` | secret keys, the public encryption key, the contents of the matrices | GenSecKey, GenKeySWmatrix, Encrypt, skEncrypt, Decrypt | half of a matrix is a seed, from which the same random numbers must come again; multiples of a key computed in place, digit by digit |
| Ciphertext | `Ctxt.cpp` | parts with handles, each over a set of primes; `primeSet` | encrypt, add, multiply, reLinearize, keySwitchPart, modUp/modDown, automorph, smartAutomorph | an operation goes part by part, and an exception leaves what was done so far; sequences of calls with matrices and maps of any age |
| Noise and factors | `Ctxt.cpp` | `ptxtSpace`, `intFactor`, `noiseBound` | sums with harmonization, products, constants, modulus switching, change of plaintext space, decryption | four fields have to follow every change of the parts |
| GaloisKey2k | `GaloisKey2k.cpp` | its own matrices, by element | generate, generate_step, rotate | changes parts in place before it looks for the matrix |
| Binary form | `binio.*` and writeTo/readFrom of each class | the stream | write, read | no types or lengths in the stream: reader and writer must agree byte by byte; a stream that breaks off |
| Context, prime chain | `Context.cpp`, `primeChain.cpp`, `PrimeGenerator.h` | primes, digits, table of prime-set sizes | built once; `getSet4Size` | generators that pass from one form of a prime to the next; sizes and resolutions; empty result |
| DoubleCRT | `DoubleCRT.cpp`, `IndexMap.h`, `CModulus.cpp` | a row of values per prime | arithmetic, adding and dropping primes, scaling, digits, CRT | operands over different primes; lifts to the interval around 0; the order of the digits; parallel ranges |
| Transforms | `bluestein.cpp`, `PGFFT.cpp` | tables | FFT | numerics |
| Algebra | `PAlgebra.cpp`, `NumbTh.cpp`, `hypercube.*`, `PolyMod*`, `zzX.*` | tables of Zm*, generators, cube of the slots | built once; lookups, rotations and slices of a cube | classes merged by pivots of pivots; loops in place |
| Sampling, norms | `sample.cpp`, `norms.cpp` | random state | samples and bounds | floating point |
| Timers, statistics | `timing.*`, `fhe_stats.*` | a global list of counters | register, start/stop, print, reset | threads; printing without the lock |
| Algorithms | `polyEval.cpp`, `extractDigits.cpp`, `binaryCompare.cpp`, products in `Ctxt.cpp` | none | on vectors of ciphertexts | recursion with preconditions on degrees and levels, aliasing of arguments, vectors written in place |
| Queries | `query.h`, `partialMatch.h`, `Matrix.h` | expression trees, shared matrices | read, translate, look up | negations and clauses multiplied out; clauses that contradict themselves |
| Matching | `matching.*` | a bipartite graph | partition of the edges into matchings | augmenting paths that take flow back |
| C interface | `c_*.cpp` | none | wrappers | exceptions become return codes |

How they interact. A `SecKey` is a `PubKey` with secret parts. A `Ctxt` holds a
reference to its `PubKey` and to the `Context`. It asks the key's map and list
for a matrix at each step of a relinearization or automorphism (`keySwitchPart`,
`smartAutomorph`). It asks the table of the context for the set of primes to
switch to. Each part is a `DoubleCRT` over an `IndexSet`. Nothing sends messages,
and keys and ciphertexts have no locks: `ImportSecKey` says "not thread-safe", and
calls on one object come one after the other. What makes the code hard is
therefore sequences of legal calls, state read at one time and used at another,
and calls that fail half way. Threads occur inside `DoubleCRT`, in products of
vectors, and in the timers.

What makes each part correct:

- IndexSet is a set; its caches are right at every moment a loop can look at them.
- The map leads every node it has an entry for back to 1, over matrices of its own
  key, and a lookup finds a matrix when there is one, unless the row it asks is missing.
- The parts of a ciphertext are over its prime set, whatever calls were made, and a
  canonical ciphertext is made of the parts 1 and s; no assertion fails.
- A matrix encrypts the multiples of a key that the digits of a part are multiplied with.
- A ciphertext decrypts to what the operations compute, times the factor it keeps, as
  long as the noise bound it reports is below half the modulus.
- The rows of a DoubleCRT compute in the ring of integer polynomials modulo Phi_m and
  the product of its primes, and its digits are small and recombine.
- A rotation applies the automorphism it names, once.
- What is read back is what was written, or an exception.
- A prime chain has the sizes it was asked for, and a set is found for every interval
  the resolution promises.
- A polynomial, a product, a digit, a comparison of encrypted values, a matching, a query
  and the structure of Zm* is what it is by definition.

## 2. Modules

| Module | Models | How |
|---|---|---|
| `AbstractSet` | what IndexSet promises | a set with atomic insert, remove and retain, which return |
| `IndexSet` | `IndexSet.cpp` | `rep`, `first`, `last`, `card`; an action per method, a step per iteration of its loops; the observers and the binary form as operators |
| `IndexSetProofs` | | the proofs about it |
| `KeySwitching` | `keys.cpp`, `keySwitching.cpp` | `keySwitching`, `keySwitchMap`; an action per call, a step per pass of the search and of `addAllMatrices` |
| `KeySwitchingProofs` | | the proofs about it |
| `Ciphertext` | parts and primes of `Ctxt.cpp` | INSTANCEs `KeySwitching` for the public key, whose calls interleave with those on ciphertexts; a step per part or matrix |
| `CiphertextProofs` | | the proofs about it, on top of an INSTANCE of `KeySwitchingProofs` |
| `GaloisKey2k` | `GaloisKey2k.cpp` | a step per part; next to each handle the element the part is really relative to |
| `GaloisKey2kProofs` | | the proofs about it |
| `BGVCtxt` | the numbers of `Ctxt.cpp` | the parts abstracted to their inner product with the secret key, as an integer |
| `ArithmeticProofs` | | divisibility, residues, inverses, powers of a prime, finite sums and products, and functions defined by recursion, for three of the others |
| `BGVCtxtProofs` | | what a ciphertext decrypts to, the noise, and that harmonization is optimal |
| `Serialization` | `binio.*`, `writeTo`, `readFrom` | a byte stream; an object is a list of fields, a reader a list of field types |
| `SerializationProofs` | | the proofs about it |
| `PolynomialRing` | Z[X]/Phi_m, Zm* | operators on coefficient functions, shared by the next four |
| `RingElements` | what DoubleCRT promises | a set of primes and a polynomial modulo their product; a call is a ring operation or an exception |
| `DoubleCRTRows` | the methods of `DoubleCRT.cpp`, `CModulus.cpp` | operators from rows to rows: evaluation at the roots of unity, back, CRT, arithmetic, primes added, dropped and scaled, digits |
| `DoubleCRT` | objects of the class | an action per method, with arguments from small sets; refines `RingElements` |
| `DoubleCRTProofs` | | that it does, that its digits are right, and that the matrices of `KeyMatrices` are |
| `KeyMatrices` | secret keys and key-switching matrices | EXTENDS `DoubleCRTRows`: keys and matrices are rows; GenSecKey with ImportSecKey, and GenKeySWmatrix, are its actions |
| `SecKey` | encryption, decryption, and what `Ctxt.cpp` does to the polynomials | EXTENDS `KeyMatrices`: parts are rows; an action per call, `MakeKeys` is the making of keys and matrices with the public encryption key |
| `CtxtValues` | `Ctxt.cpp`, as the algorithms use it | a ciphertext as its plaintext, plaintext space, emptiness and depth of products; a failed precondition is a value that is not `ok` |
| `PolyEval` | `polyEval.cpp`, `polyEval.h`, products of `Ctxt.cpp` | EXTENDS `CtxtValues`; an operator per function |
| `ExtractDigits` | `extractDigits.cpp`, interpolation in `NumbTh.cpp` | EXTENDS `PolyEval` |
| `BinaryCompare` | `binaryCompare.cpp` | EXTENDS `PolyEval`; vectors written in place are returned |
| `PrimeGenerator` | `PrimeGenerator.h` | the state of a generator is a record that `NextPrime` takes and returns |
| `PrimeChain` | `buildModChain` in `Context.cpp`, `primeChain.cpp` | a prime is its length and its place among those of that length; logarithms are integers |
| `Matching` | `matching.cpp` | a flow is a function on pairs of nodes |
| `Query` | `query.h`, lookups in `partialMatch.h` | expressions as trees, reverse Polish notation as sequences of words |
| `ZmStar` | `NumbTh.cpp`, `PAlgebra.cpp` | an operator per function, with the order of its loops |
| `Hypercube` | `hypercube.h`, `hypercube.cpp` | cubes as functions on indices, slices as records of dimension and offset |
| `Algorithms` | | the eight modules above: an action per algorithm, one call per behaviour; the references |
| `MC...` | | values for the constants that a configuration file cannot hold |

State of the code and of the model have the same names where there is one.
Differences in representation: a matrix index in `KeySwitching` is one more than in the
code, so that 0 stands for -1; a set of bits is the set of the indices that are set.
An exception is an action that leaves the state as the code does, with the call
ended; a failed assertion is one.

What is left out where: `Ciphertext` has no polynomials and no noise, and where the
code picks a prime set by noise, any set it may pick is possible. `SecKey` has them, and
has one plaintext space and no sums; matrices that are missing or in a map are
in the other modules. `BGVCtxt` has one
coefficient and no key switching. `DoubleCRT` takes a transform as the values it
computes and a parallel range as atomic. `GaloisKey2k` has no prime sets. Each of these
looks at one of the invariants that a ciphertext must keep, and takes the whole
handler as far as that invariant is concerned. The modules under `Algorithms` take a
ciphertext to have the levels that are needed and a parallel range to be atomic;
`PrimeChain` takes logarithms as integers (thousandths of a bit, in a table of what each
prime falls short of a power of two), and `CtxtValues` the numbers modulo the
plaintext space.

## 3. Runs

| Run | What it shows |
|---|---|
| `index_set` | Indices 0..3, every state, every argument, in the middle of loops: caches, cursors, observers, the binary form; refinement of `AbstractSet`; every loop ends |
| `key_switching` | Two keys over Z_9*, matrices within and between keys in any order: `MapLeadsHome` also for stale rows and during the search, `MapRight` for finished rows, which have an entry for every node that can be led home, by the shortest walk; `LookupCorrect`, which says for every lookup what it returns and when it throws; `NoDuplicates`; every call returns |
| `ciphertext` | One key over Z_5*, any matrices and a map of any age: the part of 1 comes first, and no two parts have the same handle; walks along the map never meet the dummy, which `Ctxt::automorph` would refuse, or an exception, apply the automorphism that was asked for, and end |
| `ciphertext_primes` | Two keys and a chain of a small, two ciphertext and a special prime: parts stay over the prime set, no assertion fails, prime sets stay among those the code relies on, relinearized ciphertexts are canonical |
| `algorithms` | Calls of every algorithm on inputs around each of its case distinctions, compared with a reference that does not know the algorithm; and, in other behaviours, a GaloisKey2k for m = 16 with steps in both directions, zero and too large: rotations add up, handles are true |
| `bgv` | Plaintext spaces 4 (and 2, after reduction) and 5, moduli 3, 7 and 21: ciphertexts decrypt to what they should within the noise bound, the bound bounds the noise, factors stay invertible, sums are harmonized at the least noise |
| `serialization` | Objects of ten types in a stream that may break off at any byte: forms without eye catchers are framed (`OpenFormsFramed`). Those with eye catchers are all misread in this build (`context_read_back`), and the misreading never passes: alone, with a neighbour, torn, or taken for another type they make the reader throw, unless memory it did not write decides (`NothingTornReturned`). When it does, a reader may well have taken its neighbour's bytes |
| `sec_key` | X^2+1, ciphertext primes 13, 17 and 29 in two digits, a special prime 37, two keys, matrices for s^2, X^3 and from key to key: `MatricesRight` is the equation of `keySwitching.h`; a ciphertext decrypts to its plaintext after any four products, key switchings, automorphisms and changes of its primes that leave it correct, and its noise bound bounds the noise |
| `double_crt` | Phi_5, ciphertext primes 11 and 31, a special prime 41: after any calls, every method does to the polynomial what the ring does or throws just when the primes do not fit; scaling down takes off a delta the plaintext space divides and that is as short as it can be; `DigitsRight`: digits are small and recombine |

The properties of `algorithms`:

| Property | Says |
|---|---|
| `EvaluationRight` | the value is that of the polynomial, for every degree and number of baby steps whose preconditions hold, within log(deg) + 1 products in a row; the products of vectors, powers and cubes are right too, and those of three objects that are multiplied in place, which may be one or two objects and of any levels |
| `DigitsRight` | every digit of every number modulo p^r, balanced for odd p, each with the plaintext space that is left of it |
| `ComparisonRight` | maximum and minimum, for numbers of equal and unequal length, none included, signed ones of equal length, and empty bits; the two result bits, where the first number is not the longer one |
| `ChainRight` | a generator gives every prime of its interval once; a chain has the bits it should, special primes that are new and large enough, and digits that share the ciphertext primes evenly |
| `SizesReached` | every interval of the table of sizes that is as wide as the resolution is hit, with the exceptions below; of the sets that fit one is taken, and the set the search starts from is kept if it does; else one on the side that is asked for, the nearest or a cheaper one within a bit of it |
| `MatchingsRight` | the colours are matchings, and each is a maximum one of the edges that were left |
| `QueriesAnswered` | a query, by weights or by a string, finds the records for which it holds, but for those whose true members of a clause are a multiple of p, and is refused just for a clause with a column and its negation; read in infix notation it means what its brackets and the precedence of AND say |
| `SlotsRight` | the generators and p generate Zm*, each element once; the cyclotomic polynomials of the divisors of m multiply to X^m - 1; index arithmetic, rotations, slices and columns of a cube are those of coordinates, and so are shifts by half a dimension or more; what smaller ones do is said exactly |
| `HandlesTrue`, `RotationsAddUp` | the GaloisKey2k |

The type invariant of a module is a conjunct of one of its invariants (`PrimeSetValid`,
`RotationsAddUp`, `EncryptsPtxt`, `OpenFormsFramed`, `DigitsRight` of `DoubleCRT`,
`DecryptsRight` of `SecKey`), with which it is checked in the same run.

Three runs end in a counterexample. Each states what the repository says of the
program and what the code does not do:

| Run | Finding |
|---|---|
| `galois_retry` | `rotate` moves parts before it finds that there is no matrix; after generating it, a second `rotate` moves them again and sets the handle as if they had moved once (`GaloisKey2k.cpp:137`) |
| `bgv_scalar` | `addConstant(ZZ)` of a negative residue lowers the noise bound (`Ctxt.cpp:2309`) |
| `context_read_back` | the binary reader of a context reads other fields than the writer wrote (`Context.cpp:408`); so does that of a ciphertext or matrix. PubKey and SecKey begin with a context |

The passing runs of the same modules exclude what these show by a named device:
`Careful = TRUE` (`GaloisKey2k`); `Scalars = {1}` (`BGVCtxt`);
`KeySwitching` has no reading of a key, which cannot happen.

More disagreements between the code and what it says of itself are in the models without
a run of their own; the properties except them by a named condition.

- `keys.h:111` promises of `getKeySWmatrix` "either this one or the dummy". When the map was
  computed for a later key only, the row of key 0 is empty, and a lookup in it throws
  out_of_range (`keys.cpp:178`), also for a matrix that is in the list. `LookupCorrect` says
  that this is exactly when it throws.
- `compareTwoNumbers` swaps its arguments when the first is longer and not the two result
  bits: `mu` then tells of the second number whether it is larger, though
  `binaryCompare.h:28` says of the first. `ComparisonRight` says nothing of the bits there.
  An empty first number counts as smaller than an equal one, though
  `binaryCompare.h:36` has both bits 0 for equal numbers; the property has it as the code does. And
  signed numbers of different lengths come out wrong, since the shorter one is not extended by its
  sign; the header does not ask for equal lengths, and the property does.
- `polyEval.h:28` calls the number of baby steps optional; an explicit one of more than half
  the degree may break the recursion, which then throws. `EvaluationRight` then asks only that a value that is
  returned is right.
- `shift1D` works in place in the order of the indices, and for a shift by less
  than half the dimension reads places it has overwritten (`hypercube.cpp:83`): it repeats the
  first places instead of moving the rest. A shift by the whole dimension does nothing.
- `tidyClause` calls `remove_if` and forgets `erase` (`query.h:738`): a clause with a
  column and its negation keeps elements of the old vector, in which some column is
  twice, and `buildWeights` fails on it, though `query.h:608` says that both are deleted and the query
  stays equivalent. `QueriesAnswered` says that exactly these queries are refused.
- A record whose true members of a clause are a multiple of p has the score 0, like one
  for which the query does not hold (`partialMatch.h:176`). `QueriesAnswered` says that exactly
  these are missed.
- `convertToPostFix` accepts words that are no query, such as two columns in a row.
- `findGenerators` with a list of candidates may find none that is good enough (index -1,
  m = 15, p = 11 and the candidate 4, for one) and reads before its vector;
  `NumbTh.cpp:299` calls a generator always guaranteed, and the checks of given generators in
  `PAlgebra.cpp:717` are commented out. `SlotsRight` lets the library choose.
- `Context.cpp:792` has the small primes "express everything to given resolution". Between four
  ciphertext primes and all of them this is so for those of 54 bits and every resolution, and for those
  of 45 bits and resolutions up to 6, and 10; for 7, 8 and 9 bits intervals of up to 13 bits may be
  needed (11 in the run). Below four ciphertext primes larger gaps are normal; `SizesReached` asks for 13 bits
  from two on. The run has ciphertext primes of 45 and 54 bits, all resolutions, and intervals that begin at a
  whole bit.
- `getSet4Size` returns the empty set, when it searches above all sets, where `primeChain.cpp:176`
  says the singleton of the smallest prime; `SizesReached` asks for nothing there. And without a set that fits it
  may return one up to a bit further off than the nearest, which `primeChain.h:39` promises.
- `Context.cpp:878` makes the product of the ciphertext primes "at least" 2^nBits; the code is content with half a bit
  less, and so is `ChainRight`. That a generator runs out of primes while the chain is built, which throws,
  is modelled in `PrimeGenerator` and not in `PrimeChain`.

Two are about keys and ciphertexts. `addAllMatrices(sKey, 1)`
ends with "re-compute the key-switching map" and recomputes the row of key 0 only
(`keySwitching.cpp:319`); the automorphisms of key 1 stay unreachable by the map, and
`KeySwitching` does the same. And `reLinearize` that
finds no matrix throws with some parts scaled in place and some not (`Ctxt.cpp:773`),
though `Ctxt.h:384` says that all parts are over the same primes. In `Ciphertext` such a
ciphertext is `abandoned` until it is assigned to, and `PartsOverPrimeSet` excepts it.

### Bounds and why they are enough

- `IndexSet`, `MaxIndex = 3`: the end cases are an empty set, one element, first
  or last removed with and without a gap, and the vector growing; four indices give
  all of them at once. The proofs cover every bound.
- `KeySwitching`, M = 9: the units are cyclic of order 6, so that walks of several
  matrices, inverses and elements that are no units all occur. Two keys, three
  matrices and more (`MaxMatrices` bounds a call's start, and an import or
  `addAllMatrices` goes beyond it). The proofs cover every M and number of keys.
- `Ciphertext`: Z_5* gives walks of three steps; products stop at s^2
  (`MaxS`), the only power the library makes matrices for by default; the operand
  is only encrypted and read, as the const argument of the binary operations.
- `SecKey`: two secret keys, an encryption of one plaintext with one choice of the small
  samples, and random streams that differ from seed to seed: what varies is the sequence
  of calls, `MaxCalls = 4` on a ciphertext and any number on the keys until there is one
  matrix more than those for s^2 (`MaxMatrices`). `Seeds` is a bound in the guards of
  the calls that make matrices, one seed each; in the run it is never met. A digit of two primes and one of one
  are met whole, in part and not at all. The norm is the sum of the absolute values of
  the coefficients, and the plaintext counts with its largest norm. A ciphertext
  whose noise bound is too large is not used any more.
- `BGVCtxt`: moduli up to 21 are enough for all wrap-arounds, roundings of
  both signs, even and odd plaintext spaces, a space with zero divisors (4) and the
  Euclidean harmonization with factors the prime divides. `ErrorBound = 0`: sums and
  roundings already give every phase within the bound. `SecondParts` are values
  of the part under s that modulus switching rounds. `MaxNoise` stops a ciphertext
  when its bound exceeds it, above the largest half modulus for x.
- `Algorithms`: polynomials of degrees 0 to 13 and 0 to 5 baby steps, and of degrees around 32, for
  which the library chooses 4, meet up to three levels of the recursion, and degrees on both sides of its case
  distinctions, but not the corrections of 16 baby steps and more; vectors of up to 13 factors; digits for
  p = 2, 3, 5 and 7 with all numbers; numbers of up to four bits, with and without
  empty ciphertexts; every window of primes of 5 to 9 bits; chains of up to seven
  digits with three tables of losses; graphs on 2 and 3 nodes a side with
  multiplicities; queries of three columns with two levels of operators, in plaintext spaces 2, 3 and 5; all groups up
  to m = 21; cubes of one to three dimensions with shifts beyond every end. A GaloisKey2k of
  m = 16 has a row of four slots, and the proofs cover the others.
- `Serialization`: a byte has four values and a long four bytes, so that a
  big integer of two or three bytes, or two of them, shift the following fields by less than, exactly,
  and more than a number. Two objects of up to 60 bytes together (`MaxBytes`): the smallest
  ciphertext takes 45, and has a neighbour of up to 15. After a reader took
  bytes of another object nothing more is written. An eye
  catcher is one byte that no number contains.

- `DoubleCRT`: two primes of the ciphertext in a digit each, and a special prime, are
  the least with which digits, drops of a digit's primes, and scaling by more than one
  prime occur; three plaintext spaces, 1, an odd and an even one. `MaxCalls = 2`: a call
  on what another made; the first elements and the arguments have coefficients of
  both signs beyond the products of the primes, so that every lift wraps around.

No run uses symmetry or a state constraint: every bound is a guard or a constant.

### Fairness

`IndexSet`, `KeySwitching` and `Ciphertext` have liveness properties: a call that
was begun returns. They assume weak fairness of the steps of the running loop
(`WF_vars(Steps)`), and nothing of the calls. A call is executed by one thread that
waits for nothing, so that it takes its next step; no step waits for another
process. Nothing obliges an application to make a call. Deadlock is checked in every
run but `algorithms`, which makes one call, those of `BGVCtxt`, in which the bound on the noise leaves ciphertexts that no
operation applies to, and of `DoubleCRT`, which stops at `MaxCalls`
(`CHECK_DEADLOCK FALSE`).

## 4. Proofs

The modules whose names end in `Proofs`, for
every value of the constants under the assumptions the modules name (`MaxIndex` natural;
M > 2, at least one key; small, ctxt and special primes disjoint intervals of indices, the
last two not empty; for GaloisKey2k, M a power of two from 4 to 64; for BGVCtxt, p a prime
that divides none of finitely many primes of the chain, and a product of a set of primes
that is what its name says; for DoubleCRT, M > 2, a monic polynomial that vanishes at the
primitive roots of unity, distinct primes that are 1 modulo M, disjoint digits, arguments
that the calls allow, and random streams that are long enough; for Serialization, bytes of at
least two values, numbers of at least one
byte, and objects that are what `writeTo()` writes, with numbers that fit their widths).

Induction on a number, which the library offers only with an operator as a parameter, is
done on sets everywhere: a set of naturals with 0 and with the successor of each element is
Nat, or else there is a least number that is not in it. The same way a recursive function
is shown to exist before anything is said of it.

IndexSet. The inductive invariant is the type invariant with `CachesCorrect`
(`first` and `last` are the ends of the set, `card` its size) and
`CursorOnElement` with `LoopInv`: the cursor of a loop is on an element of the set it
walks, or past its end, and the part behind the cursor is done. The last two are needed because
`retain` walks over the set it removes from, so that next() must be
right about a set in the middle of a loop. From it:

- `TypeCorrect`, `CachesAlwaysCorrect`, `LoopsAlwaysRight`: the invariants.
- `Refinement`: the loops implement atomic union, set minus and
  intersection of `AbstractSet`, whose result the last step makes visible. The
  fairness part of the refinement is left to TLC.
- `EqualCorrect`: `operator==`, which compares cached members and one range of bits, is
  equality of the sets.
- `ObserversAlwaysCorrect`: `contains()` of a set, disjointness and `isInterval()` too; and
  what `writeTo()` writes `readFrom()` makes an equal set of, whose caches agree. The walk of
  `writeTo()` along next() is a recursive function from the elements on; it is built from
  the last element down, where its values are known. Reading back inserts one element
  after another into an empty set.

KeySwitching. The inductive invariant `IInv` adds to the invariants
of the run that every matrix is between existing keys and for a unit
(`MatricesExist`), what the loops know (`LoopsInv`: `addAllMatrices` that got
to its end found or made the matrix of -1, hence key 0 exists), and that
the nodes in the queue of a search already lead home (`SearchInv`). The last is what
makes `MapLeadsHome` hold in the middle of a search: a new node is entered with an
edge to a node of the queue. `StepBack` is the arithmetic below it. From it:

- `TypeCorrect`, `MapAlwaysLeadsHome`, `NeverDuplicates`: the invariants.
- `LookupAlwaysCorrect`: what every lookup returns, through a row of any age or by the linear
  search, and that one throws exactly if it asks the row of a key that was skipped. For the
  latter an invariant (`EmptyRowsInv`) has to say what an empty row tells: a search makes its row
  as long as the ring in the step that begins it, so a row without entries is one that a search for a
  later key was begun before.
- `MapAlwaysRight`: the search is breadth-first. A finished row has an entry for exactly the
  nodes the matrices of its time lead back to 1, and its walks are the shortest. This takes
  a second invariant, `MapInv`, on top of the first: finished rows are complete
  (`RowsInv`), and in the middle of a search (`QueueRight`) the nodes met so far have
  a depth, those in the queue are in the order of their depths, no node is more than one
  deeper than one in the queue, and every node an edge leads to from one that left the queue
  has been met, at most one deeper. Node 1 is the exception throughout: it is where
  the search begins and has no entry, but an edge may lead back to it. That the sets of
  products (`ProductsOf`) need only be looked at up to M, as the property does, holds since
  a shortest walk meets no node twice.

Ciphertext. Its proofs use those of `KeySwitching` through an INSTANCE: a step that
builds keys is a step there (`SameNext`), and every other step leaves the key alone. The
inductive invariant `IInv` is that of the key, with

- `CtxtsInv`: every ciphertext is *good* (a list of parts with the one for 1 in front and
  no handle twice, over valid primes), and over its prime set unless its parts are
  being scaled or it was abandoned;
- `LocalsInv` and `ControlInv`: the copies and results a call works on are lists of that
  kind, and which calls come after which;
- `AddInv`, `TensorInv`, `PartsInv`: what a loop over parts knows. In `PartsInv` the parts
  still to come are over a prefix of the ctxt primes, and those of the result over
  it and the special primes: the assertions of `keySwitchPart` hold because of it;
- `WalkInv`: what `smartAutomorph()` has done and has left to do multiply to what it was
  asked for, the row of the map has an entry for what is left, and after an automorphism
  all parts are for 1 or for a handle that the key has a matrix for (`Switchable`).

The last is where the two modules meet. `MapLeadsHome` of the key says that an entry is a
matrix and what it leads to, `LookupResult` that the lookup of `reLinearize()` finds it or
another for the same handle, so that no step of a walk gives up on it, and none steps over
the dummy, whose power -1 `Ctxt::automorph` would refuse. From `IInv`:

- `TypeCorrect`, `OneAlwaysComesFirst`, `PartsAlwaysOverPrimeSet`, `PrimeSetsAlwaysValid`,
  `AssertionsNeverFail`: the invariants of the two runs.
- `RelinearizationIsCanonical` and `AutomorphismApplied`: their action properties.

GaloisKey2k. `get_elt_from_step` multiplies the generator up in a loop, which the model
writes as a recursive function. That there is such a function is proved first
(`PowerIsDefined`), from finite beginnings of it and the least number for which something
fails, because the library's induction theorems are out of reach; then that powers
add up (`PowerOfSum`) and that the generator has the order of a row (`PowerOfRow`). From
these and a few lines of modular arithmetic:

- `RotationsAlwaysAddUp`: the automorphism a ciphertext went through is that of the sum of
  its steps, forward and back, whichever calls failed on the way; with the type invariant.
- `HandlesAlwaysTrue`, for `Careful = TRUE`. The inductive invariant (`HandlesInv`) says
  that a ciphertext between two calls has only parts *at rest*, at X^1: rotate() sets the
  power of X and does not multiply it, which is right for those only. `galois_retry` is
  what happens when a part is not at rest.

BGVCtxt. The inductive invariant `IInv` says that no assertion failed and that every
ciphertext is well formed (its factor is a unit modulo its plaintext space, a power of p,
and its primes are those of the chain), decrypts to its factor times the product of its
primes times its plaintext modulo that space, and has a noise bound of at most
`MaxNoise`. Modulo p^r what is not divisible by p is a unit: so the product of the primes
and all factors are, and dividing them out, which is what Decrypt does, is right.
What an action does to the residue is arithmetic; what needed an argument is modulus switching
(`Delta` is divisible by the primes to be dropped, a multiple of the plaintext space, and at
most half their product times it, for even and odd spaces and for both signs), and the
Euclidean algorithm of an addition, whose steps keep r = t * ratio modulo the
space and which passes at least one pair that p divides neither number of. From it:

- `EncryptsAlways`, `NothingEverFails`.
- `NoiseStaysBounded` and `CorrectCtxtsDecrypt`, under the hypothesis `SmallScalars`: the
  scalars that are added are at most half of each plaintext space. Without it they are false, and
  `bgv_scalar` is the counterexample: the code takes the balanced residue for the size of the scalar,
  sign and all. The factor and the noise of the other invariants do not need it.
- `HarmonyAlwaysBest`, under the same hypothesis, because noise bounds must not be negative: no
  factors that harmonize have less noise than those `addCtxt()` takes, though it tries at
  most one pair for each step of Euclid's algorithm. The pairs (r, t) with
  r = t * ratio modulo n form a lattice, and any two successive convergents of the
  algorithm are a basis of it: |r1 t2| + |r2 t1| = n is kept by a step. A
  pair whose |t| is between those of two successive convergents is a whole combination
  of the two, and costs at least as much as the cheaper (`CostsGrow`), or as the cheaper end
  of the line on which a quotient larger than 1 moves (`CostsBetween`). A convergent
  that p divides is skipped by the code; a pair that p does not divide is then a combination in
  which a neighbour that is not skipped occurs (`PairBetween`, `PairCovered`).
  The invariant of the run is `IsRun` with `Passed`: every harmonizing pair is still to come or costs
  at least as much as the best so far.

DoubleCRT. `Refinement` is the theorem that the rows implement `RingElements`, for every ring,
chain of primes, argument and number of calls. A set of rows *represents* a
polynomial if each row has its values at the primitive roots modulo its prime (`Represents`).
The proof goes up from sums:

- Folds over finite sets take their elements in any order, so that sums can be split, swapped and
  renamed (`SumUnion`, `SumSwap`, `SumRenamed`).
- Values: X^k modulo Phi_m has that power of the root as its value
  (`XPowerValue`), because the model's recursion for it takes off a multiple of Phi_m, which
  vanishes there. So reduction modulo Phi_m keeps values, and those of a sum, product or f(X^k)
  are the sums, the products, and the values at another root (`TimesValue`, `AtPowerValue`).
- The inverse: the powers of a root of unity add up to M or to 0 (`RatioSum`), and so a column of
  the inverse transform is 1 at its root and 0 at the others (`IFFTColumnValue`). That values
  determine a polynomial modulo a prime (`ValuesDetermine`) is then a matter of counting, and
  needs nothing about roots of polynomials over a field: the transform maps the rows, of which
  there are finitely many, onto themselves, and so no two to one.
- Chinese remainders: each prime contributes a number that is 0 modulo the others
  (`ChineseTerm`), and what is congruent modulo every prime is so modulo the product
  (`CongProduct`). toPoly() is *the* small polynomial with the values in the rows (`ToPolyIs`).
- For each method, what its result represents (`OpRepresents`, `ExpRepresents`, `MovedRepresents`,
  `AddedRepresents`, `ScaledDownFacts`, ...), and from it that the call is that of the ring
  (`CombineStep`, ..., `ScaleDownStep`), with its exceptions. For modulus switching this is that
  delta is what is dropped, a multiple of the plaintext space, and short, for odd
  and even spaces. For `randomize` it is that every row is filled with reduced numbers; this
  takes a stream that has enough of them (`Suffices`).

`AlwaysElements` (entries are reduced) is the invariant of the refinement. The inductive invariant
of `DigitsAlwaysRight`, `DigitsInv`, adds that the digits are what breakIntoDigits makes of
an element that was legal to break. Their loop has an invariant of its own: after i rounds, the
first i parts are digits, small and over all the primes, the others are over their own
primes (`IsBroken`), and in the primes of those the sum of the first i digits plus the product of
their primes times what is left is the element (`IsLeft`, kept by `LeftStep`: the part less the digit
is divided by the product, and the next digit counts that much more). In the primes of the i-th digit the sum is right
from round i on (`DoneFirst`, `DoneStep`), since all later digits count a multiple of them. In
the end every prime is one of some digit. A digit stays small modulo all the primes of the
chain, because it is the same polynomial.

KeyMatrices. `MatricesAlwaysRight` says that every matrix satisfies the equation of `keySwitching.h`,
with a short error, modulo all the primes: for every ring, chain and partition into digits, any number
of keys, whatever is sampled, and in whatever order keys and matrices are made. It is a theorem of
`KeySpec`; a step of `SecKey`, whose run checks the property too, is one of `KeyNext` (in `MakeKeys`)
or leaves keys and matrices alone (all the others). The assumption is `SamplesAssumption`, which TLC
evaluates in that run: samples are within their bounds, random streams are long enough for the
columns of a matrix, and the plaintext space times the bound of an error is less than half the product
of the primes. Then:

- every operation keeps the primes and reduced residues of its operand (`OpOver`, `KeyOfOver`, ...),
  and columns drawn one after the other from one stream are elements too (`ColumnsOver`: after i of
  them no more of the stream is used than i rows of every prime take);
- the multiple computed in place from digit to digit is the product of the special primes and of
  those of all digits before (`DigitScaleIs`);
- what RLWE1 and GenKeySWmatrix add, the equation takes off again, residue by residue
  (`ColumnDifference`), and what is left is a small multiple of the plaintext space, which
  toPoly() gives back as it is (`NoiseIs`).

The inductive invariant `KeysInv` says of every matrix that it is made of some short errors, the key it
switches to and a power of the one it switches from (`IsMatrix`); new keys are appended, so that this
stays true of the old matrices (`MatrixStays`). The equation alone is not
inductive: it does not say that `fromKey` and `toKeyID` are keys that exist already, and could change with a new one.

Serialization. `ObjectsAssumption` (which TLC evaluates in the run) says what the fields of an
object without eye catchers are. The proof goes up with the readers: a number is its digits in base
`Base`, and reading them gives it back if it fits (`NumberIsReadBack`, by n mod ba = n mod a + (n / a mod b) a);
a list of numbers is found in a stream that begins with its bytes (`NumbersAreRead`); then a
length and what it counts, a set (whose elements come out in their order), a row, any number of rows
(`RowsAreRead`), an element and a part. Each lemma has the form of the framing itself: from a stream that
begins with the bytes of some fields, the reader takes the values of those fields and leaves the
rest (`Done`). Below them are lemmas about the flattening of sequences, proved by
showing that the recursive functions in its definition exist.

- `OpenFormsAlwaysFramed`: the forms without eye catchers are read back from a stream that is in frame,
  and leave it in frame, for every width of a number, size of a row and value. Whether it is in frame
  before is recorded with the read (`last.framed`), since a reader with eye catchers that memory let return
  leaves it out of frame.
- `OpenFormsAloneAlwaysFramed`: without objects of those types the stream is in frame until it breaks off, and
  no reader throws.

Only model-checked:

- all liveness (fairness and ENABLED are beyond the prover; that a walk of
  `smartAutomorph()` ends, by `CallsReturn`);
- `DecryptsRight` of `SecKey`: it adds up the noise of products and automorphisms, and that the norm of
  a product is at most the product of the norms, as in the canonical embedding, holds for the sum of the
  absolute values modulo the X^2+1 of the run, not modulo every Phi_m;
- `NothingTornReturned` of `Serialization`, which is no theorem for all objects: a reader that is
  tried on the form of another type may meet, after as many bytes as it happens
  to read, what it takes for its eye catcher;
- the properties of `Algorithms` other than those of `GaloisKey2k`: they compare recursive
  algorithms with references, for inputs that are data.

## 5. Not modelled

`PROJECT.json` lists each part with the reason. In short:

- What is not compiled under `BIGINT_P`: slots, linear algebra, permutations, recryption, binary
  arithmetic, CKKS. These are most of the lines under `src/src`. The `HyperCube` class and
  the bipartite matching are compiled and modelled, though only such code uses them.
- Numerical kernels (FFT), sampling, norms and floating-point estimates, which have no
  state between calls: the models take the values and the bounds they give.
- The arithmetic of `zzX`, `PolyMod` and `PolyModRing`, wrappers of NTL polynomials.
- Timers and statistics: counters of several threads that nothing else reads.
  `printAllTimers` and `resetAllTimers` walk over the list without the lock under which
  `registerTimer` appends to it (`timing.cpp:77`).
- Wrappers (the C interface), command lines, text I/O, and the JSON form: it has named
  fields and no framing to get wrong; that of a context cannot be read back either, since
  its reader asks for fields that are not compiled into the writer (`Context.cpp:474`).
- Of modelled parts: the use of a ciphertext after `Ctxt::read` threw half way
  (`Ctxt.cpp:2648`), with members of the old value and the new; `DummyEncrypt` for a
  product of primes that is not 1 modulo the plaintext space (`Ctxt.cpp:177`), which ends in
  NTL's division by zero; `multiplyBy`, which relinearizes to key 0 whatever the key of
  its factors (`Ctxt.cpp:1792`), is modelled as it is and fails for a product under key 1.

## 6. Plan

1. Done: every component of the inventory that is compiled and keeps state or decides
   anything by more than arithmetic, with the proofs of `IndexSet`, `KeySwitching`,
   `Ciphertext` on top of it, `GaloisKey2k`, `BGVCtxt`, `Serialization`, `DoubleCRT`, and the
   matrices of `KeyMatrices`.
2. Proofs: that the ciphertexts of `SecKey` keep their type (`CtxtsTypeOK`), and `DecryptsRight`
   for the rings in which the norm of a product is at most the product of the norms.
3. `Timers`: registration, counting, printing and resetting by several threads.
