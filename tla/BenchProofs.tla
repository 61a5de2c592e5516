---------------------------- MODULE BenchProofs ----------------------------
(***************************************************************************)
(* The three machines of the benchmark, for any sizes, numbers of cases,    *)
(* trials and lengths.                                                     *)
(***************************************************************************)
EXTENDS Bench, NatLemmas

-----------------------------------------------------------------------------
(* Places around a circle, and numbers in ascending order *)

\* Shifted around a circle, the places are all visited.
LEMMA ShiftOnto ==
    ASSUME NEW N \in Nat \ {0}, NEW m \in Nat, NEW c \in 0..(N - 1)
    PROVE  \E p \in 0..(N - 1) : (p + m) % N = c
<1> DEFINE q == m \div N
           r == m % N
<1>1. q \in Nat /\ r \in 0..(N - 1) /\ m = N * q + r
    BY DivMod
<1> HIDE DEF q, r
<1>2. CASE c >= r
    <2>1. (c - r) \in 0..(N - 1) /\ (c - r) + m = (q * N) + c
        BY <1>1, <1>2
    <2>2. ((q * N) + c) % N = c
        BY <1>1, DivModUnique
    <2> QED BY <2>1, <2>2
<1>3. CASE c < r
    <2>1. (c + N - r) \in 0..(N - 1)
        BY <1>1, <1>3
    <2>2. q + 1 \in Nat /\ (q + 1) * N = (q * N) + N /\ N * q = q * N
        BY <1>1
    <2>3. (c + N - r) + m = ((q + 1) * N) + c
        BY <1>1, <2>2
    <2>4. (((q + 1) * N) + c) % N = c
        BY <2>2, DivModUnique
    <2> QED BY <2>1, <2>3, <2>4
<1> QED BY <1>1, <1>2, <1>3

-----------------------------------------------------------------------------
(* The bytes of a bag of blocks *)

Blocks(b) == IsABag(b) /\ IsFiniteSet(DOMAIN b) /\ DOMAIN b \subseteq Nat

Weights(b) == [s \in DOMAIN b |-> s * b[s]]

LEMMA LiveBytesIsTotal ==
    ASSUME NEW b, Blocks(b)
    PROVE  /\ LiveBytes(b) = Total(Weights(b), DOMAIN b)
           /\ \A s \in DOMAIN b : Weights(b)[s] = s * b[s] /\ s * b[s] \in Nat
           /\ LiveBytes(b) \in Nat
<1> DEFINE P(it) == it = [s \in SUBSET (DOMAIN b) |->
             IF s = {} THEN 0
             ELSE (CHOOSE x \in s : TRUE) * b[CHOOSE x \in s : TRUE]
                      + it[s \ {CHOOSE x \in s : TRUE}]]
<1>1. LiveBytes(b) = (CHOOSE it : P(it))[DOMAIN b]
    BY DEF LiveBytes, MapThenSumSet, MapThenFoldSet
<1>2. \A it : P(it) <=> Sums(it, Weights(b), DOMAIN b)
    BY DEF Sums, Weights
<1> HIDE DEF P
<1>3. \A s \in DOMAIN b : Weights(b)[s] = s * b[s] /\ s * b[s] \in Nat
    BY DEF Blocks, IsABag, Weights
<1>4. /\ IsFiniteSet(DOMAIN b)
      /\ \A s \in DOMAIN b : Weights(b)[s] \in Nat
    BY <1>3 DEF Blocks
<1>5. \E it : P(it)
    BY <1>2, <1>4, SumExists
<1>6. P(CHOOSE it : P(it))
    BY <1>5
<1>7. LiveBytes(b) = Total(Weights(b), DOMAIN b)
    BY <1>1, <1>2, <1>4, <1>6, TotalIs
<1>8. LiveBytes(b) \in Nat
    BY <1>4, <1>7, TotalSplits
<1> QED
    BY <1>3, <1>7, <1>8

LEMMA NoBlocks == Blocks(EmptyBag) /\ LiveBytes(EmptyBag) = 0
<1>1. DOMAIN EmptyBag = {} /\ IsABag(EmptyBag)
    BY DEF EmptyBag, SetToBag, IsABag
<1>2. Blocks(EmptyBag)
    BY <1>1, FS_EmptySet DEF Blocks
<1> QED
    BY <1>1, <1>2, LiveBytesIsTotal, TotalEmpty

\* A block more is its bytes more.
LEMMA BlockAdded ==
    ASSUME NEW b, Blocks(b), NEW n \in Nat
    PROVE  /\ Blocks(b (+) SetToBag({n}))
           /\ LiveBytes(b (+) SetToBag({n})) = LiveBytes(b) + n
<1> DEFINE c == b (+) SetToBag({n})
           D == DOMAIN b
<1>1. /\ c = [e \in D \cup {n} |->
                 (IF e \in D THEN b[e] ELSE 0) + (IF e = n THEN 1 ELSE 0)]
      /\ DOMAIN c = D \cup {n}
    BY DEF (+), SetToBag
<1>2. \A e \in D : b[e] \in Nat /\ b[e] > 0 /\ e \in Nat
    BY DEF Blocks, IsABag
<1> HIDE DEF c
<1>3. Blocks(c)
    <2>1. IsFiniteSet(D \cup {n})
        BY FS_AddElement DEF Blocks
    <2>2. IsABag(c)
        BY <1>1, <1>2 DEF IsABag
    <2> QED
        BY <1>1, <2>1, <2>2 DEF Blocks
<1>4. /\ \A s \in D : s # n => Weights(c)[s] = Weights(b)[s]
      /\ Weights(c)[n] = n * c[n]
    BY <1>1, <1>2 DEF Weights
<1>5. /\ \A s \in D : Weights(b)[s] \in Nat
      /\ \A s \in D \cup {n} : Weights(c)[s] \in Nat
    BY <1>1, <1>3, LiveBytesIsTotal
<1>6. CASE n \in D
    <2>1. Total(Weights(c), D) + Weights(b)[n]
              = Total(Weights(b), D) + Weights(c)[n]
        BY <1>4, <1>5, <1>6, TotalChanges DEF Blocks
    <2>2. Weights(b)[n] = n * b[n] /\ Weights(c)[n] = n * b[n] + n
        <3>1. c[n] = b[n] + 1
            BY <1>1, <1>2, <1>6
        <3> QED
            BY <1>2, <1>4, <1>6, <3>1 DEF Weights
    <2>3. D \cup {n} = D
        BY <1>6
    <2>4. /\ LiveBytes(c) = Total(Weights(c), D) /\ LiveBytes(c) \in Nat
          /\ LiveBytes(b) = Total(Weights(b), D) /\ LiveBytes(b) \in Nat
        BY <1>1, <1>3, <2>3, LiveBytesIsTotal
    <2>5. n * b[n] \in Nat
        BY <1>2, <1>6
    <2> QED
        BY <1>3, <2>1, <2>2, <2>4, <2>5 DEF c
<1>7. CASE n \notin D
    <2>1. c[n] = 1 /\ Weights(c)[n] = n
        BY <1>1, <1>4, <1>7
    <2>2. IsFiniteSet(D \cup {n}) /\ (D \cup {n}) \ {n} = D
        BY <1>1, <1>3, <1>7 DEF Blocks
    <2>3. Total(Weights(c), D \cup {n}) = n + Total(Weights(c), D)
        BY <1>5, <2>1, <2>2, TotalSplits
    <2>4. Total(Weights(c), D) = Total(Weights(b), D)
        BY <1>4, <1>5, <1>7, TotalAgrees DEF Blocks
    <2>5. /\ LiveBytes(c) = Total(Weights(c), D \cup {n})
          /\ LiveBytes(b) = Total(Weights(b), D) /\ LiveBytes(b) \in Nat
        BY <1>1, <1>3, LiveBytesIsTotal
    <2> QED
        BY <1>3, <2>3, <2>4, <2>5 DEF c
<1> QED
    BY <1>6, <1>7

\* A block less is its bytes less.
LEMMA BlockTaken ==
    ASSUME NEW b, Blocks(b), NEW n \in DOMAIN b
    PROVE  /\ Blocks(b (-) SetToBag({n}))
           /\ n \in Nat
           /\ LiveBytes(b) = LiveBytes(b (-) SetToBag({n})) + n
<1> DEFINE c == b (-) SetToBag({n})
           D == DOMAIN b
           Left(e) == IF e = n THEN b[e] - 1 ELSE b[e]
<1>0. \A e \in D : b[e] \in Nat /\ b[e] > 0 /\ e \in Nat
    BY DEF Blocks, IsABag
<1>1. /\ c = [e \in {d \in D : Left(d) > 0} |-> Left(e)]
      /\ DOMAIN c = {d \in D : Left(d) > 0}
    BY DEF (-), SetToBag
<1> HIDE DEF c
<1>3. Blocks(c)
    <2>1. IsFiniteSet(DOMAIN c)
        BY <1>1, FS_Subset DEF Blocks
    <2>2. IsABag(c)
        BY <1>0, <1>1 DEF IsABag
    <2> QED
        BY <1>0, <1>1, <2>1, <2>2 DEF Blocks
<1>4. \A s \in DOMAIN c : s # n => Weights(c)[s] = Weights(b)[s]
    BY <1>0, <1>1 DEF Weights
<1>5. /\ \A s \in D : Weights(b)[s] \in Nat
      /\ \A s \in DOMAIN c : Weights(c)[s] \in Nat
    BY <1>3, LiveBytesIsTotal
<1>6. /\ LiveBytes(c) = Total(Weights(c), DOMAIN c) /\ LiveBytes(c) \in Nat
      /\ LiveBytes(b) = Total(Weights(b), D) /\ LiveBytes(b) \in Nat
    BY <1>3, LiveBytesIsTotal
<1>7. CASE b[n] > 1
    <2>1. DOMAIN c = D
        BY <1>0, <1>1, <1>7
    <2>2. Total(Weights(c), D) + Weights(b)[n]
              = Total(Weights(b), D) + Weights(c)[n]
        BY <1>4, <1>5, <2>1, TotalChanges DEF Blocks
    <2>3. Weights(c)[n] + n = n * b[n] /\ Weights(b)[n] = n * b[n]
        <3>1. c[n] = b[n] - 1
            BY <1>1, <2>1
        <3> QED
            BY <1>0, <2>1, <3>1 DEF Weights
    <2>4. n * b[n] \in Nat /\ n \in Nat /\ Weights(c)[n] \in Nat
        BY <1>0, <1>5, <2>1
    <2>5. /\ LiveBytes(c) = Total(Weights(c), D) /\ LiveBytes(c) \in Nat
          /\ LiveBytes(b) = Total(Weights(b), D) /\ LiveBytes(b) \in Nat
        BY <1>6, <2>1
    <2>6. LiveBytes(b) = LiveBytes(c) + n
        BY <2>2, <2>3, <2>4, <2>5
    <2> QED
        BY <1>3, <2>4, <2>6 DEF c
<1>8. CASE b[n] = 1
    <2>1. DOMAIN c = D \ {n}
        BY <1>0, <1>1, <1>8
    <2>2. Total(Weights(b), D) = n + Total(Weights(b), D \ {n})
        <3>1. Weights(b)[n] = n
            BY <1>0, <1>8 DEF Weights
        <3> QED
            BY <1>5, <3>1, TotalSplits DEF Blocks
    <2>3. Total(Weights(c), DOMAIN c) = Total(Weights(b), DOMAIN c)
        BY <1>3, <1>4, <1>5, <2>1, TotalAgrees DEF Blocks
    <2> QED
        BY <1>0, <1>3, <1>6, <2>1, <2>2, <2>3 DEF c
<1>9. b[n] > 1 \/ b[n] = 1
    BY <1>0
<1> QED
    BY <1>7, <1>8, <1>9, Zenon

-----------------------------------------------------------------------------
(* measure over the tracking allocator *)

MeasureTypes ==
    /\ MeasureTypeOK
    /\ Blocks(live)
    /\ iterations \in Nat
    /\ i \in Nat
    /\ allocation_error \in BOOLEAN
    /\ leaked \in BOOLEAN

\* Where measure is with its runs, and what each point knows of them: behind
\* a run of the hash function bytes that were left behind are counted, and
\* only a run without them leads on.
RunsSoFar ==
    /\ measure_pc \in {"hash", "check", "done"} =>
           iterations # 0 /\ i <= iterations
    /\ measure_pc = "check" => i < iterations
    /\ measure_pc \in {"hash", "done"} => ~leaked
    /\ measure_pc = "check" /\ leaked => LiveBytes(live) > 0
    /\ measure_pc = "done" \/ (measure_pc = "hash" /\ i = iterations) =>
           ~allocation_error /\ LiveBytes(live) = 0
MeasureInv ==
    /\ MeasureTypes
    /\ AccountingExact
    /\ RunsSoFar
    /\ NothingLiveAtReset
    /\ ProfileIsClean

LEMMA MeasureStarts == ASSUME BenchAssumption, MeasureInit PROVE MeasureInv
<1> USE DEF BenchAssumption, MeasureAssumption, MeasureInit
<1>1. Blocks(live) /\ LiveBytes(live) = 0
    BY NoBlocks
<1>2. MeasureTypes
    <2>1. /\ allocation_current \in 0..SizeMax
          /\ allocation_peak \in allocation_current..SizeMax
          /\ allocation_calls \in 0..MaxCalls
          /\ iterations \in Nat /\ i \in 0..iterations
        OBVIOUS
    <2>2. allocation_error \in BOOLEAN /\ leaked \in BOOLEAN
        OBVIOUS
    <2> QED
        BY <1>1, <2>1, <2>2 DEF MeasureTypes, MeasureTypeOK, Blocks
<1>3. AccountingExact
    BY <1>1 DEF AccountingExact
<1>4. RunsSoFar /\ NothingLiveAtReset /\ ProfileIsClean
    BY <1>1 DEF RunsSoFar, NothingLiveAtReset, ProfileIsClean
<1> QED
    BY <1>2, <1>3, <1>4 DEF MeasureInv

\* A request, granted or not, keeps the accounts.
LEMMA MallocAccounts ==
    ASSUME BenchAssumption, MeasureInv, NEW size \in Nat, NEW memory,
           memory \in BOOLEAN, Malloc(size, memory)
    PROVE  /\ Blocks(live')
           /\ AccountingExact'
           /\ allocation_current' \in 0..SizeMax
           /\ allocation_peak' \in allocation_current'..SizeMax
           /\ allocation_calls' = allocation_calls + 1
           /\ allocation_error' \in BOOLEAN
<1> USE DEF BenchAssumption, MeasureAssumption
<1>1. /\ Blocks(live)
      /\ allocation_current = LiveBytes(live)
      /\ allocation_peak = highest
      /\ allocation_current \in 0..SizeMax
      /\ allocation_peak \in allocation_current..SizeMax
      /\ allocation_error \in BOOLEAN
    BY DEF MeasureInv, MeasureTypes, MeasureTypeOK, AccountingExact
<1>2. CASE UNCHANGED <<allocation_current, allocation_peak, live, highest>>
    BY <1>1, <1>2 DEF Malloc, AccountingExact
<1>3. CASE ~UNCHANGED <<allocation_current, allocation_peak, live, highest>>
    <2>1. /\ ~(allocation_current > SizeMax - size)
          /\ allocation_calls' = allocation_calls + 1
          /\ allocation_current' = allocation_current + size
          /\ allocation_peak' = MaxOf(allocation_peak, allocation_current')
          /\ live' = live (+) SetToBag({size})
          /\ highest' = MaxOf(highest, LiveBytes(live'))
          /\ allocation_error' = allocation_error
        BY <1>3 DEF Malloc
    <2>2. Blocks(live') /\ LiveBytes(live') = LiveBytes(live) + size
        BY <1>1, <2>1, BlockAdded
    <2>3. allocation_current' = LiveBytes(live') /\ allocation_peak' = highest'
        BY <1>1, <2>1, <2>2
    <2> QED
        BY <1>1, <2>1, <2>2, <2>3 DEF MaxOf, AccountingExact
<1> QED
    BY <1>2, <1>3

LEMMA AllocateKeeps ==
    ASSUME BenchAssumption, MeasureInv, HashAllocates PROVE MeasureInv'
<1> USE DEF BenchAssumption, MeasureAssumption
<1> DEFINE Kept == /\ Blocks(live')
                   /\ AccountingExact'
                   /\ allocation_current' \in 0..SizeMax
                   /\ allocation_peak' \in allocation_current'..SizeMax
                   /\ allocation_calls' = allocation_calls + 1
                   /\ allocation_error' \in BOOLEAN
<1>1. Kept
    <2>1. PICK size \in Sizes, memory \in BOOLEAN :
              \/ Malloc(size, memory)
              \/ \E count \in Counts : Calloc(count, size, memory)
        BY DEF HashAllocates
    <2>2. size \in Nat /\ \A count \in Counts : count \in Nat
        OBVIOUS
    <2>3. CASE Malloc(size, memory)
        BY <2>2, <2>3, MallocAccounts
    <2>4. ASSUME NEW count \in Counts, Calloc(count, size, memory)
          PROVE  Kept
        <3>1. count * size \in Nat
            BY <2>2
        <3>2. CASE Malloc(count * size, memory)
            BY <3>1, <3>2, MallocAccounts
        <3>3. CASE ~Malloc(count * size, memory)
            BY <2>4, <3>3
               DEF Calloc, MeasureInv, MeasureTypes, MeasureTypeOK, AccountingExact
        <3> QED BY <3>2, <3>3
    <2> QED BY <2>1, <2>3, <2>4
<1>2. /\ measure_pc = "hash" /\ i < iterations
      /\ allocation_calls < MaxCalls
      /\ UNCHANGED <<measure_pc, iterations, i, result, measures, leaked>>
    BY DEF HashAllocates, Hashing
<1>3. MeasureTypes'
    BY <1>1, <1>2 DEF MeasureInv, MeasureTypes, MeasureTypeOK, Blocks
<1>4. RunsSoFar'
    BY <1>1, <1>2 DEF MeasureInv, MeasureTypes, MeasureTypeOK, RunsSoFar
<1> QED
    BY <1>1, <1>2, <1>3, <1>4 DEF MeasureInv, NothingLiveAtReset, ProfileIsClean

LEMMA FreeKeeps == ASSUME BenchAssumption, MeasureInv, HashFrees PROVE MeasureInv'
<1> USE DEF BenchAssumption, MeasureAssumption
<1>1. PICK size \in DOMAIN live : Free(size)
    BY DEF HashFrees
<1>2. /\ Blocks(live') /\ size \in Nat
      /\ LiveBytes(live) = LiveBytes(live') + size
    BY <1>1, BlockTaken DEF Free, MeasureInv, MeasureTypes
<1>3. /\ measure_pc = "hash" /\ i < iterations
      /\ UNCHANGED <<measure_pc, iterations, i, result, measures, leaked>>
      /\ UNCHANGED <<allocation_peak, allocation_calls, highest>>
    BY <1>1 DEF HashFrees, Hashing, Free
<1>4. LiveBytes(live') \in Nat
    BY <1>2, LiveBytesIsTotal
<1>5. /\ allocation_current = allocation_current' + size
      /\ allocation_current' = LiveBytes(live')
      /\ allocation_error' = allocation_error
    BY <1>1, <1>2, <1>4
       DEF Free, MeasureInv, AccountingExact, MeasureTypes, MeasureTypeOK
<1>6. AccountingExact'
    BY <1>3, <1>5 DEF MeasureInv, AccountingExact
<1>7. MeasureTypes'
    BY <1>2, <1>3, <1>4, <1>5
       DEF MeasureInv, MeasureTypes, MeasureTypeOK, Blocks
<1>8. RunsSoFar' /\ NothingLiveAtReset' /\ ProfileIsClean'
    <2>1. i # iterations
        BY <1>3 DEF MeasureInv, MeasureTypes
    <2> QED
        BY <1>3, <2>1 DEF MeasureInv, RunsSoFar, NothingLiveAtReset, ProfileIsClean
<1> QED
    BY <1>6, <1>7, <1>8 DEF MeasureInv

\* A step that leaves the blocks alone.
LEMMA BlocksStay ==
    ASSUME MeasureInv, UNCHANGED live
    PROVE  /\ Blocks(live')
           /\ LiveBytes(live') = LiveBytes(live)
           /\ LiveBytes(live) \in Nat
BY LiveBytesIsTotal DEF MeasureInv, MeasureTypes

LEMMA ReturnKeeps ==
    ASSUME BenchAssumption, MeasureInv, NEW success \in BOOLEAN,
           HashReturns(success)
    PROVE  MeasureInv'
<1> USE DEF BenchAssumption, MeasureAssumption
<1>1. /\ measure_pc = "hash" /\ i < iterations
      /\ measure_pc' \in {"check", "failed"}
      /\ leaked' = (leaked \/ LiveBytes(live) > 0)
      /\ UNCHANGED <<tracker, iterations, i, result, measures>>
    BY DEF HashReturns, Hashing
<1>2. /\ Blocks(live')
      /\ LiveBytes(live') = LiveBytes(live)
      /\ LiveBytes(live) \in Nat
    BY <1>1, BlocksStay DEF tracker
<1>3. MeasureTypes'
    BY <1>1, <1>2 DEF MeasureInv, MeasureTypes, MeasureTypeOK, tracker, Blocks
<1>4. AccountingExact'
    BY <1>1, <1>2 DEF MeasureInv, AccountingExact, tracker
<1>5. RunsSoFar' /\ NothingLiveAtReset' /\ ProfileIsClean'
    <2>1. /\ iterations # 0 /\ i <= iterations
          /\ measure_pc' \notin {"hash", "done", "called"}
          /\ iterations' # 0 /\ i' < iterations' /\ i' <= iterations'
        BY <1>1 DEF MeasureInv, RunsSoFar
    <2>2. leaked' => LiveBytes(live') > 0
        <3>1. ~leaked
            BY <1>1 DEF MeasureInv, RunsSoFar
        <3> QED BY <1>1, <1>2, <3>1
    <2> QED
        BY <1>1, <2>1, <2>2 DEF RunsSoFar, NothingLiveAtReset, ProfileIsClean
<1> QED
    BY <1>3, <1>4, <1>5 DEF MeasureInv

LEMMA StartKeeps ==
    ASSUME BenchAssumption, MeasureInv, NEW clock \in BOOLEAN, Start(clock)
    PROVE  MeasureInv'
<1> USE DEF BenchAssumption, MeasureAssumption
<1>1. /\ measure_pc = "called" /\ LiveBytes(live) = 0
      /\ measure_pc' \in {"hash", "failed"} /\ i' = 0
      /\ measure_pc' = "hash" => iterations # 0 /\ leaked' = FALSE /\ ~allocation_error'
      /\ UNCHANGED <<live, iterations, result, measures>>
    BY DEF Start, AllocationReset, MeasureInv, NothingLiveAtReset, tracker
<1>2. /\ Blocks(live')
      /\ LiveBytes(live') = LiveBytes(live)
      /\ LiveBytes(live) \in Nat
    BY <1>1, BlocksStay
<1>3. CASE UNCHANGED <<tracker, leaked>>
    <2>1. MeasureTypes'
        BY <1>1, <1>2, <1>3 DEF MeasureInv, MeasureTypes, MeasureTypeOK, tracker, Blocks
    <2>2. AccountingExact'
        BY <1>3, <1>2 DEF MeasureInv, AccountingExact, tracker
    <2> QED
        BY <1>1, <1>2, <2>1, <2>2
           DEF MeasureInv, MeasureTypes, RunsSoFar, NothingLiveAtReset, ProfileIsClean
<1>4. CASE AllocationReset /\ leaked' = FALSE
    <2>1. MeasureTypes'
        <3>1. /\ allocation_current' = 0 /\ allocation_peak' = 0
              /\ allocation_calls' = 0
            BY <1>4 DEF AllocationReset
        <3>2. allocation_error' \in BOOLEAN /\ leaked' \in BOOLEAN
            BY <1>4 DEF AllocationReset
        <3>3. iterations' \in Nat /\ i' \in 0..iterations'
            BY <1>1 DEF MeasureInv, MeasureTypes
        <3> QED
            BY <1>2, <3>1, <3>2, <3>3 DEF MeasureTypes, MeasureTypeOK, Blocks
    <2>2. AccountingExact'
        BY <1>1, <1>2, <1>4 DEF MeasureInv, AccountingExact, AllocationReset
    <2> QED
        BY <1>1, <1>2, <1>4, <2>1, <2>2
           DEF MeasureInv, MeasureTypes, RunsSoFar, NothingLiveAtReset,
               ProfileIsClean, AllocationReset
<1> QED
    BY <1>3, <1>4 DEF Start

LEMMA CheckKeeps ==
    ASSUME BenchAssumption, MeasureInv, CheckIteration
    PROVE  MeasureInv'
<1> USE DEF BenchAssumption, MeasureAssumption
<1>1. /\ measure_pc = "check" /\ i < iterations
      /\ \/ measure_pc' = "failed" /\ i' = i
         \/ /\ measure_pc' = "hash" /\ i' = i + 1
            /\ ~allocation_error /\ allocation_current = 0
      /\ UNCHANGED <<tracker, iterations, result, measures, leaked>>
    BY DEF CheckIteration, MeasureInv, RunsSoFar
<1>2. /\ Blocks(live')
      /\ LiveBytes(live') = LiveBytes(live)
      /\ LiveBytes(live) \in Nat
    BY <1>1, BlocksStay DEF tracker
<1>3. MeasureTypes'
    BY <1>1, <1>2 DEF MeasureInv, MeasureTypes, MeasureTypeOK, tracker, Blocks
<1>4. AccountingExact'
    BY <1>1, <1>2 DEF MeasureInv, AccountingExact, tracker
<1>5. RunsSoFar' /\ NothingLiveAtReset' /\ ProfileIsClean'
    BY <1>1, <1>2
       DEF MeasureInv, MeasureTypes, AccountingExact, RunsSoFar,
           NothingLiveAtReset, ProfileIsClean, tracker
<1> QED
    BY <1>3, <1>4, <1>5 DEF MeasureInv

LEMMA FinishKeeps ==
    ASSUME BenchAssumption, MeasureInv, NEW clock \in BOOLEAN, Finish(clock)
    PROVE  MeasureInv'
<1> USE DEF BenchAssumption, MeasureAssumption
<1>1. /\ measure_pc = "hash" /\ i = iterations /\ iterations # 0
      /\ \/ measure_pc' = "failed"
         \/ /\ measure_pc' = "done"
            /\ allocation_calls % iterations = 0
            /\ result' = [peak_heap |-> allocation_peak,
                          allocations_per_hash |-> allocation_calls \div iterations]
      /\ UNCHANGED <<tracker, iterations, i, leaked>>
    BY DEF Finish, MeasureInv, RunsSoFar
<1>2. /\ Blocks(live')
      /\ LiveBytes(live') = LiveBytes(live)
      /\ LiveBytes(live) \in Nat
    BY <1>1, BlocksStay DEF tracker
<1>3. MeasureTypes'
    BY <1>1, <1>2 DEF MeasureInv, MeasureTypes, MeasureTypeOK, tracker, Blocks
<1>4. AccountingExact'
    BY <1>1, <1>2 DEF MeasureInv, AccountingExact, tracker
<1>5. RunsSoFar' /\ NothingLiveAtReset'
    BY <1>1, <1>2
       DEF MeasureInv, MeasureTypes, RunsSoFar, NothingLiveAtReset, tracker
<1>6. ProfileIsClean'
    <2>1. SUFFICES ASSUME measure_pc' = "done" PROVE ProfileIsClean'
        BY DEF ProfileIsClean
    <2>2. allocation_calls \in Nat /\ iterations \in Nat \ {0}
        BY <1>1 DEF MeasureInv, MeasureTypes, MeasureTypeOK
    <2>3. (allocation_calls \div iterations) * iterations = allocation_calls
        <3> DEFINE q == allocation_calls \div iterations
        <3>1. /\ q \in Nat
              /\ allocation_calls = (iterations * q) + (allocation_calls % iterations)
            BY <2>2, DivMod
        <3>2. allocation_calls % iterations = 0
            BY <1>1, <2>1
        <3> HIDE DEF q
        <3>3. q * iterations = allocation_calls
            BY <2>2, <3>1, <3>2
        <3> QED BY <3>3 DEF q
    <2> QED
        BY <1>1, <2>1, <2>3
           DEF MeasureInv, RunsSoFar, AccountingExact, ProfileIsClean, tracker
<1> QED
    BY <1>3, <1>4, <1>5, <1>6 DEF MeasureInv

LEMMA LeaveKeeps ==
    ASSUME BenchAssumption, MeasureInv, MeasureAgain \/ Stop
    PROVE  MeasureInv'
<1> USE DEF BenchAssumption, MeasureAssumption
<1>1. /\ \/ measure_pc = "done" /\ measure_pc' = "called" /\ iterations' \in Nat
         \/ measure_pc' = "stopped" /\ iterations' = iterations /\ measure_pc # "called"
      /\ UNCHANGED <<tracker, i, result, measures, leaked>>
    BY DEF MeasureAgain, Stop
<1>2. /\ Blocks(live')
      /\ LiveBytes(live') = LiveBytes(live)
      /\ LiveBytes(live) \in Nat
    BY <1>1, BlocksStay DEF tracker
<1>3. MeasureTypes'
    BY <1>1, <1>2 DEF MeasureInv, MeasureTypes, MeasureTypeOK, tracker, Blocks
<1>4. AccountingExact'
    BY <1>1, <1>2 DEF MeasureInv, AccountingExact, tracker
<1>5. RunsSoFar' /\ NothingLiveAtReset' /\ ProfileIsClean'
    BY <1>1, <1>2
       DEF MeasureInv, MeasureTypes, RunsSoFar, NothingLiveAtReset, ProfileIsClean
<1> QED
    BY <1>3, <1>4, <1>5 DEF MeasureInv

LEMMA MeasureKeeps == ASSUME BenchAssumption, MeasureInv, MeasureNext PROVE MeasureInv'
BY AllocateKeeps, FreeKeeps, ReturnKeeps, StartKeeps, CheckKeeps, FinishKeeps,
   LeaveKeeps DEF MeasureNext

-----------------------------------------------------------------------------
(* A hash function that feeds a context in chunks *)

StreamTypes ==
    /\ length \in Nat
    /\ chunk_size \in Nat
    /\ offset \in 0..length
    /\ ok \in BOOLEAN
    /\ absorbed \in Nat
    /\ message = "input"
    /\ stream_pc \in {"called", "loop", "free", "returned"}

\* As long as no call failed the context has what lies before the offset.
ContextKeepsUp ==
    /\ stream_pc = "called" =>
           offset = 0 /\ phase = "open" /\ absorbed = 0 /\ last.call = "init"
    /\ stream_pc = "loop" /\ ok => phase = "open" /\ absorbed = offset
    /\ stream_pc \in {"loop", "free"} => chunk_size # 0

\* Any failure has a cause, from the moment it happens.
CauseKnown ==
    stream_pc \in {"loop", "free", "returned"} /\ ~ok =>
        chunk_size = 0 \/ length > Limit \/ offset <= chunk_size

StreamInv ==
    /\ StreamTypes
    /\ ContextKeepsUp
    /\ CauseKnown
    /\ WholeInputHashed
    /\ ContextFreed

LEMMA StreamStarts == ASSUME BenchAssumption, StreamInit PROVE StreamInv
<1> USE DEF BenchAssumption, BenchStreamAssumption, StreamInit, Context!Init,
            Context!Call
<1>1. StreamTypes
    <2>1. /\ length \in Nat /\ chunk_size \in Nat
          /\ offset = 0 /\ absorbed = 0 /\ message = "input"
        OBVIOUS
    <2>2. ok \in BOOLEAN /\ stream_pc = "called"
        OBVIOUS
    <2> QED
        BY <2>1, <2>2 DEF StreamTypes
<1>2. ContextKeepsUp
    BY DEF ContextKeepsUp
<1> QED
    BY <1>1, <1>2 DEF StreamInv, CauseKnown, WholeInputHashed, ContextFreed,
                      StreamTypes

LEMMA ChunkKeeps ==
    ASSUME BenchAssumption, StreamInv, NEW memory \in BOOLEAN,
           UpdateChunk(memory)
    PROVE  StreamInv'
<1> USE DEF BenchAssumption, BenchStreamAssumption
<1>1. /\ stream_pc = "loop" /\ stream_pc' = "loop" /\ ok /\ offset < length
      /\ phase = "open" /\ absorbed = offset /\ chunk_size # 0
      /\ length \in Nat /\ chunk_size \in Nat /\ offset \in Nat
      /\ Context!Update(Count, TRUE, memory)
      /\ ok' = last'.ok
      /\ offset' = offset + Count
      /\ length' = length /\ chunk_size' = chunk_size
    BY DEF UpdateChunk, StreamInv, StreamTypes, ContextKeepsUp
<1>2. /\ Count \in Nat /\ Count > 0 /\ Count <= chunk_size
      /\ offset + Count <= length
    BY <1>1 DEF Count
<1> DEFINE A == Context!Accepts(Count, TRUE, memory)
<1>3. /\ last'.ok = A
      /\ A => absorbed' = absorbed + Count /\ phase' = phase
      /\ ~A => absorbed' = absorbed
      /\ message' = message
    BY <1>1 DEF Context!Update, Context!Call
<1>4. A \in BOOLEAN
    BY DEF Context!Accepts
<1>5. ~A => absorbed + Count > Limit \/ absorbed = 0
    BY <1>1, <1>2 DEF Context!Accepts
<1> HIDE DEF A
<1>6. StreamTypes'
    <2>1. absorbed' \in Nat
        BY <1>1, <1>2, <1>3
    <2>2. ok' \in BOOLEAN /\ message' = "input"
        BY <1>1, <1>3, <1>4 DEF StreamInv, StreamTypes
    <2> QED
        BY <1>1, <1>2, <2>1, <2>2 DEF StreamTypes
<1>7. ContextKeepsUp'
    <2>1. ok' => A
        BY <1>1, <1>3
    <2> QED
        BY <1>1, <1>3, <2>1 DEF ContextKeepsUp
<1>8. CauseKnown'
    <2>1. ~ok' => ~A
        BY <1>1, <1>3
    <2>2. ~A => length > Limit \/ offset' <= chunk_size
        BY <1>1, <1>2, <1>5
    <2> QED
        BY <1>1, <2>1, <2>2 DEF CauseKnown
<1> QED
    BY <1>1, <1>2, <1>6, <1>7, <1>8 DEF StreamInv, WholeInputHashed, ContextFreed

LEMMA DigestKeeps ==
    ASSUME BenchAssumption, StreamInv, NEW memory \in BOOLEAN,
           FinishDigest(memory)
    PROVE  StreamInv'
<1> USE DEF BenchAssumption, BenchStreamAssumption
<1>1. /\ stream_pc = "loop" /\ stream_pc' = "free" /\ ok /\ offset = length
      /\ phase = "open" /\ absorbed = offset /\ chunk_size # 0
      /\ Context!Final(TRUE, memory)
      /\ ok' = last'.ok
      /\ offset' = offset /\ length' = length /\ chunk_size' = chunk_size
    <2>1. /\ stream_pc = "loop" /\ stream_pc' = "free" /\ ok
          /\ offset >= length
          /\ Context!Final(TRUE, memory)
          /\ ok' = last'.ok
          /\ offset' = offset /\ length' = length /\ chunk_size' = chunk_size
        BY DEF FinishDigest
    <2>2. offset = length
        BY <2>1 DEF StreamInv, StreamTypes
    <2>3. phase = "open" /\ absorbed = offset /\ chunk_size # 0
        BY <2>1 DEF StreamInv, ContextKeepsUp
    <2> QED
        BY <2>1, <2>2, <2>3
<1> DEFINE A == absorbed = 0 => memory
<1>2. /\ last'.ok = A
      /\ A => last'.out = Context!Written(DigestOf(variant, message, absorbed))
      /\ UNCHANGED <<variant, message, absorbed>>
    BY <1>1 DEF Context!Final, Context!Call
<1>3. StreamTypes'
    BY <1>1, <1>2 DEF StreamInv, StreamTypes
<1>4. ContextKeepsUp'
    BY <1>1 DEF ContextKeepsUp
<1>5. CauseKnown'
    <2>1. ~ok' => absorbed = 0
        BY <1>1, <1>2
    <2> QED
        BY <1>1, <2>1 DEF CauseKnown, StreamInv, StreamTypes
<1>6. WholeInputHashed'
    <2>1. ok' => last'.out = Context!Written(DigestOf(variant, message, length))'
        BY <1>1, <1>2 DEF Context!Written, DigestOf
    <2> QED
        BY <1>1, <2>1 DEF StreamInv, WholeInputHashed
<1> QED
    BY <1>1, <1>3, <1>4, <1>5, <1>6 DEF StreamInv, ContextFreed

LEMMA StreamKeeps == ASSUME BenchAssumption, StreamInv, StreamStep PROVE StreamInv'
<1> USE DEF BenchAssumption, BenchStreamAssumption
<1>1. CASE RefuseChunk
    BY <1>1
       DEF RefuseChunk, contextVars, StreamInv, StreamTypes, ContextKeepsUp,
           CauseKnown, WholeInputHashed, ContextFreed
<1>2. CASE InitContext
    BY <1>2
       DEF InitContext, Context!Reset, Context!Call, StreamInv, StreamTypes,
           ContextKeepsUp, CauseKnown, WholeInputHashed, ContextFreed
<1>3. CASE LeaveLoop
    BY <1>3
       DEF LeaveLoop, contextVars, StreamInv, StreamTypes, ContextKeepsUp,
           CauseKnown, WholeInputHashed, ContextFreed
<1>4. CASE FreeContext
    BY <1>4
       DEF FreeContext, Context!Reset, Context!Call, StreamInv, StreamTypes,
           ContextKeepsUp, CauseKnown, WholeInputHashed, ContextFreed
<1> QED
    BY <1>1, <1>2, <1>3, <1>4, ChunkKeeps, DigestKeeps DEF StreamStep

LEMMA StreamGivesBack == StreamInv => WholeInputHashed /\ ContextFreed /\ FailsOnlyForCause
BY DEF StreamInv, CauseKnown, FailsOnlyForCause

-----------------------------------------------------------------------------
(* The program: what a table cell holds, and the medians *)

\* What qsort leaves: the same times, in ascending order.
LEMMA InOrderSorts ==
    ASSUME NEW n \in Nat, NEW s \in [1..n -> Nat], Len(s) = n
    PROVE  \E p \in Bijection(1..n, 1..n) :
               /\ InOrder(s) = [a \in 1..n |-> s[p[a]]]
               /\ \A a, b \in 1..n : a < b => s[p[a]] <= s[p[b]]
<1> DEFINE order == CHOOSE p \in Bijection(1..n, 1..n) :
                        \A a, b \in 1..n : a < b => s[p[a]] <= s[p[b]]
           Below == {e \in Nat \X Nat : e[1] <= e[2]}
<1>0. Compares(Below, Nat)
    BY DEF Compares
<1> HIDE DEF Below
<1>1. PICK p : Orders(p, s, n, Below)
    BY <1>0, OrderExists
<1>2. p \in Bijection(1..n, 1..n)
    <2>1. IsFiniteSet(1..n)
        BY FS_Interval
    <2> QED BY <1>1, <2>1, FS_Surjection DEF Orders, Bijection
<1>3. /\ order \in Bijection(1..n, 1..n)
      /\ \A a, b \in 1..n : a < b => s[order[a]] <= s[order[b]]
    <2>1. \A a, b \in 1..n : a < b => s[p[a]] <= s[p[b]]
        BY <1>1 DEF Orders, Below
    <2> QED BY <1>2, <2>1
<1>4. InOrder(s) = [a \in 1..n |-> s[order[a]]]
    BY DEF InOrder
<1> HIDE DEF order
<1> QED BY <1>3, <1>4

\* As many places as the sorted times, from one place to another.
LEMMA PlacesCount ==
    ASSUME NEW n \in Nat, NEW p \in Bijection(1..n, 1..n),
           NEW S \in SUBSET (1..n), NEW U \in SUBSET (0..(n - 1)),
           \A a \in S : p[a] - 1 \in U
    PROVE  Cardinality(S) <= Cardinality(U)
<1> DEFINE f == [a \in S |-> p[a] - 1]
           V == {p[a] - 1 : a \in S}
<1>0. /\ IsFiniteSet(1..n) /\ IsFiniteSet(0..(n - 1))
    BY FS_Interval
<1>1. IsFiniteSet(S) /\ IsFiniteSet(U)
    BY <1>0, FS_Subset
<1>2. p \in [1..n -> 1..n] /\ \A a, b \in 1..n : p[a] = p[b] => a = b
    BY DEF Bijection, Injection, IsInjective
<1>3. f \in Bijection(S, V)
    <2>1. f \in [S -> V]
        OBVIOUS
    <2>2. \A a, b \in S : f[a] = f[b] => a = b
        <3> SUFFICES ASSUME NEW a \in S, NEW b \in S, f[a] = f[b] PROVE a = b
            OBVIOUS
        <3>1. p[a] \in 1..n /\ p[b] \in 1..n
            BY <1>2
        <3>2. p[a] = p[b]
            BY <3>1
        <3> QED BY <1>2, <3>2
    <2>3. \A v \in V : \E a \in S : f[a] = v
        OBVIOUS
    <2> QED
        BY <2>1, <2>2, <2>3 DEF Bijection, Injection, Surjection, IsInjective
<1>4. Cardinality(V) = Cardinality(S) /\ V \in SUBSET U
    BY <1>1, <1>3, FS_Bijection DEF ExistsBijection
<1> QED BY <1>1, <1>4, FS_Subset

Filled(cell, values) == \E v \in values : cell = {v}

LEMMA TheOne == \A v : The({v}) = v
BY DEF The

LEMMA FilledCell ==
    ASSUME NEW values, NEW cell, Filled(cell, values)
    PROVE  The(cell) \in values /\ cell = {The(cell)} /\ cell # Unwritten
BY TheOne DEF Filled, Unwritten

InCases == {"warmup", "trials", "report", "cases"}
InTiming == {"timing warmup", "timing", "judge"}
Profiling == {"warmup", "trials", "report"}

ProgramTypes ==
    /\ mode \in Modes
    /\ pc \in {"main", "exited"} \cup InCases \cup InTiming
    /\ trial \in Nat /\ position \in Nat /\ target \in Nat
    /\ stream_peak \in Nat
    /\ rows \in Seq([case : Nat, seconds : Nat, profile : Profiles])

\* The loops a mode has.
Loops ==
    /\ pc \in Profiling => mode \in {"baseline", "peers"}
    /\ pc = "cases" => mode \in {"full", "quick"}
    /\ pc \in InTiming => mode = "timing"

\* Where in its loops the program can be.
Places ==
    /\ pc \in InCases => position < CaseCount
    /\ pc \in {"timing warmup", "timing"} => position < Patterns
    /\ pc \in InTiming => target < TimingTargets

Turns ==
    /\ pc = "trials" => trial < Trials
    /\ pc = "timing" => trial < TimingTrials
    /\ pc \in {"warmup", "report", "cases", "timing warmup", "judge"} =>
           trial = 0
    /\ pc = "judge" => position = 0

\* Nothing has happened before main allocates.
Fresh ==
    pc = "main" => /\ position = 0 /\ trial = 0 /\ target = 0
                   /\ stream_peak = 0 /\ rows = << >> /\ seen = {}
                   /\ verdict = [equal |-> TRUE, ok |-> TRUE]
                   /\ buffer = FALSE

\* The profiles the warmup set.
ExpectedSoFar ==
    /\ pc \in InCases \cup InTiming =>
           expected \in [0..(CaseCount - 1) -> SUBSET Profiles]
    /\ pc = "warmup" =>
           \A c \in 0..(CaseCount - 1) :
               c < position => Filled(expected[c], Profiles)
    /\ pc \in {"trials", "report"} =>
           \A c \in 0..(CaseCount - 1) : Filled(expected[c], Profiles)

\* The samples the trials took, those of this trial where the rotation was.
SamplesSoFar ==
    /\ pc \in Profiling =>
           samples \in [0..(CaseCount - 1) -> [0..(Trials - 1) -> SUBSET Times]]
    /\ pc = "trials" =>
           /\ \A c \in 0..(CaseCount - 1), t \in 0..(Trials - 1) :
                  t < trial => Filled(samples[c][t], Times)
           /\ \A p \in 0..(CaseCount - 1) :
                  p < position =>
                      Filled(samples[Rotation(p, trial)][trial], Times)
    /\ pc = "report" =>
           \A c \in 0..(CaseCount - 1), t \in 0..(Trials - 1) :
               Filled(samples[c][t], Times)

PatternsSoFar ==
    /\ pc \in InTiming =>
           samples \in [0..(Patterns - 1) ->
                           [0..(TimingTrials - 1) -> SUBSET Times]]
    /\ pc = "timing" =>
           /\ \A c \in 0..(Patterns - 1), t \in 0..(TimingTrials - 1) :
                  t < trial => Filled(samples[c][t], Times)
           /\ \A p \in 0..(Patterns - 1) :
                  p < position =>
                      Filled(samples[PatternOf(p, trial)][trial], Times)
    /\ pc = "judge" =>
           \A c \in 0..(Patterns - 1), t \in 0..(TimingTrials - 1) :
               Filled(samples[c][t], Times)

\* A row is that of the case of its number, and has what validate_scaling
\* asked for.
RowIsValid(n) ==
    /\ rows[n].case = n - 1
    /\ KindOf(n - 1) = "one-shot" =>
           rows[n].profile = [peak_heap |-> StateBytes,
                              allocations_per_hash |-> 1]
    /\ KindOf(n - 1) = "stream" =>
           /\ rows[n].profile.allocations_per_hash = 1
           /\ rows[n].profile.peak_heap = stream_peak
           /\ stream_peak # 0

RowsSoFar ==
    /\ pc \in {"cases", "report"} => Len(rows) = position
    /\ pc \in {"warmup", "trials"} \cup InTiming =>
           rows = << >> /\ stream_peak = 0
    /\ pc = "exited" /\ exit_code = 0
           /\ mode \in {"full", "quick", "baseline", "peers"} =>
           Len(rows) = CaseCount
    /\ \A n \in 1..Len(rows) : RowIsValid(n)

\* What was seen is what the rows say, and what the warmup set.
SeenSoFar ==
    /\ \A n \in 1..Len(rows) : \A s \in seen :
           s[1] = n - 1 => s[2] = rows[n].profile
    /\ pc \in {"trials", "report"} =>
           \A s \in seen : /\ s[1] \in 0..(CaseCount - 1)
                           /\ expected[s[1]] = {s[2]}
    /\ pc = "warmup" => seen = {}
    /\ pc = "cases" => \A s \in seen : s[1] \in 0..(position - 1)

SeenOf(t) == {s \in seen : s[1] = t}
OneProfile(t) == \E p : SeenOf(t) = {<<t, p>>}

\* The targets behind passed with one profile each, and this one has one as
\* long as its profiles were equal.
TargetsSoFar ==
    /\ pc \in InTiming =>
           /\ \A s \in seen : s[1] \in Nat /\ s[1] <= target
           /\ verdict \in [equal : BOOLEAN, ok : BOOLEAN]
           /\ verdict.ok => \A t \in 0..(target - 1) : OneProfile(t)
    /\ pc = "timing warmup" => \A s \in seen : s[1] < target
    /\ pc = "timing" =>
           IF trial = 0 /\ position = 0
           THEN verdict.equal /\ \A s \in seen : s[1] < target
           ELSE \E q \in Profiles :
                    /\ expected[0] = {q}
                    /\ verdict.equal => SeenOf(target) = {<<target, q>>}
    /\ pc = "judge" /\ verdict.equal => OneProfile(target)
    /\ pc = "exited" /\ exit_code = 0 /\ mode = "timing" =>
           \A t \in 0..(TimingTargets - 1) : OneProfile(t)

\* Only the report prints rows in these modes, and it leaves the samples.
MediansSoFar ==
    /\ mode \in {"baseline", "peers"} /\ rows # << >> => pc \in {"report", "exited"}
    /\ RowsAreMedians

ProgramInv ==
    /\ ProgramTypes
    /\ Loops
    /\ Places
    /\ Turns
    /\ Fresh
    /\ ExpectedSoFar
    /\ SamplesSoFar
    /\ PatternsSoFar
    /\ RowsSoFar
    /\ SeenSoFar
    /\ TargetsSoFar
    /\ MediansSoFar
    /\ BufferFreed

LEMMA ProgramConstants ==
    ASSUME BenchAssumption
    PROVE  /\ BaselineTargets \in Nat \ {0} /\ Len(Kinds) \in Nat \ {0}
           /\ FullLengths \in Nat \ {0} /\ QuickLengths \in Nat \ {0}
           /\ Trials \in Nat \ {0} /\ Stride \in Nat \ {0}
           /\ TimingTargets \in Nat \ {0} /\ Patterns \in Nat \ {0}
           /\ TimingTrials \in Nat \ {0} /\ StateBytes \in Nat \ {0}
           /\ Times \subseteq Nat
           /\ Profiles \subseteq [peak_heap : Nat, allocations_per_hash : Nat]
           /\ CaseCount \in Nat \ {0}
<1>1. /\ BaselineTargets \in Nat \ {0} /\ Len(Kinds) \in Nat \ {0}
      /\ FullLengths \in Nat \ {0} /\ QuickLengths \in Nat \ {0}
      /\ Trials \in Nat \ {0} /\ Stride \in Nat \ {0}
      /\ TimingTargets \in Nat \ {0} /\ Patterns \in Nat \ {0}
      /\ TimingTrials \in Nat \ {0} /\ StateBytes \in Nat \ {0}
      /\ Times \subseteq Nat
      /\ Profiles \subseteq [peak_heap : Nat, allocations_per_hash : Nat]
    BY DEF BenchAssumption, BenchmarkAssumption
<1>2. LengthCount \in Nat \ {0} /\ TargetCount \in Nat \ {0}
    BY <1>1 DEF LengthCount, TargetCount
<1>3. CaseCount \in Nat \ {0}
    BY <1>2 DEF CaseCount
<1> QED BY <1>1, <1>3

\* The numbers of cases, and the kind of each, stay.
LEMMA CasesStay ==
    ASSUME mode' = mode
    PROVE  /\ CaseCount' = CaseCount
           /\ \A c : KindOf(c)' = KindOf(c)
           /\ \A p, t : Rotation(p, t)' = Rotation(p, t)
BY DEF CaseCount, TargetCount, LengthCount, KindOf, Rotation

LEMMA ProgramStarts == ASSUME BenchAssumption, ProgramInit PROVE ProgramInv
<1> USE DEF ProgramInit
<1>1. ProgramTypes
    BY DEF ProgramTypes
<1>2. Loops /\ Places /\ Turns /\ Fresh
    BY DEF Loops, Places, Turns, Fresh, Profiling, InCases, InTiming
<1>3. ExpectedSoFar /\ SamplesSoFar /\ PatternsSoFar /\ SeenSoFar
    BY DEF ExpectedSoFar, SamplesSoFar, PatternsSoFar, SeenSoFar, Profiling,
           InCases, InTiming
<1>4. RowsSoFar /\ TargetsSoFar
    BY DEF RowsSoFar, TargetsSoFar, InTiming
<1>5. MediansSoFar /\ BufferFreed
    BY DEF MediansSoFar, RowsAreMedians, BufferFreed
<1> QED BY <1>1, <1>2, <1>3, <1>4, <1>5 DEF ProgramInv

\* The program exits with a failure; nothing but the buffer matters any more.
LEMMA FailureKeeps ==
    ASSUME BenchAssumption, ProgramInv, Exit(1), buffer' = FALSE,
           UNCHANGED <<mode, stream_peak, rows>>,
           trial' \in Nat, position' \in Nat, target' \in Nat,
           \/ UNCHANGED <<samples, seen>>
           \/ rows = << >>
           \/ /\ mode \notin {"baseline", "peers"}
              /\ \E s : seen' = seen \cup {s} /\ s[1] = Len(rows)
    PROVE  ProgramInv'
<1>1. mode' = mode /\ rows' = rows /\ pc' = "exited" /\ exit_code' = 1 /\ buffer' = FALSE
    BY DEF Exit
<1>2. ProgramTypes'
    BY <1>1 DEF ProgramInv, ProgramTypes
<1>3. /\ Loops' /\ Places' /\ Turns' /\ Fresh' /\ ExpectedSoFar' /\ SamplesSoFar' /\ PatternsSoFar'
      /\ TargetsSoFar' /\ BufferFreed'
    BY <1>1
       DEF Loops, Places, Turns, Fresh, ExpectedSoFar, SamplesSoFar, PatternsSoFar,
           TargetsSoFar, BufferFreed, Profiling, InCases, InTiming
<1>4. Len(rows) \in Nat /\ (rows = << >> => Len(rows) = 0)
    BY DEF ProgramInv, ProgramTypes
<1>5. RowsSoFar'
    <2>1. pc' \notin {"cases", "report"} /\ pc' \notin {"warmup", "trials"} \cup InTiming
        BY <1>1 DEF InTiming
    <2>2. \A n \in 1..Len(rows') : RowIsValid(n)'
        BY <1>1, CasesStay DEF ProgramInv, RowsSoFar, RowIsValid
    <2> QED BY <1>1, <2>1, <2>2 DEF RowsSoFar
<1>6. SeenSoFar'
    <2>1. \A n \in 1..Len(rows) : \A s \in seen' :
              s[1] = n - 1 => s[2] = rows[n].profile
        BY <1>4 DEF ProgramInv, SeenSoFar
    <2> QED BY <1>1, <2>1 DEF SeenSoFar
<1>7. MediansSoFar'
    <2>1. CASE mode \notin {"baseline", "peers"}
        BY <1>1, <2>1 DEF MediansSoFar, RowsAreMedians
    <2>2. CASE rows = << >>
        BY <1>1, <1>4, <2>2 DEF MediansSoFar, RowsAreMedians
    <2>3. CASE samples' = samples
        BY <1>1, <2>3 DEF ProgramInv, MediansSoFar, RowsAreMedians
    <2> QED BY <2>1, <2>2, <2>3
<1> QED BY <1>2, <1>3, <1>5, <1>6, <1>7 DEF ProgramInv

LEMMA MeasureFailsKeeps ==
    ASSUME BenchAssumption, ProgramInv, MeasureFails \/ PeersDiffer
    PROVE  ProgramInv'
<1>1. /\ Exit(1) /\ buffer' = FALSE
      /\ UNCHANGED <<mode, trial, position, target, expected, samples,
                     stream_peak, verdict, rows, seen, odd>>
    BY DEF MeasureFails, ProfileFails, RejectCase, TimingWarmupFails,
           TimingFails, PeersDiffer, ReturnProfile, FreeBuffer, ProgramInv, Fresh
<1>2. trial' \in Nat /\ position' \in Nat /\ target' \in Nat
    BY <1>1 DEF ProgramInv, ProgramTypes
<1> QED BY <1>1, <1>2, FailureKeeps

\* What Unsampled leaves is a table of empty cells.
LEMMA UnsampledTable ==
    ASSUME NEW lines \in Nat, NEW count \in Nat
    PROVE  Unsampled(lines, count) \in
               [0..(lines - 1) -> [0..(count - 1) -> SUBSET Times]]
BY DEF Unsampled, Unwritten

LEMMA MainKeeps ==
    ASSUME BenchAssumption, ProgramInv, NEW memory \in BOOLEAN, Main(memory)
    PROVE  ProgramInv'
<1>0. /\ pc = "main" /\ position = 0 /\ trial = 0 /\ target = 0
      /\ stream_peak = 0 /\ rows = << >> /\ seen = {}
      /\ verdict = [equal |-> TRUE, ok |-> TRUE] /\ buffer = FALSE
      /\ mode \in Modes
      /\ UNCHANGED <<mode, trial, position, target, stream_peak, verdict, rows,
                     seen, odd>>
    BY DEF Main, ProgramInv, Fresh, ProgramTypes
<1>1. /\ CaseCount \in Nat \ {0} /\ Patterns \in Nat \ {0}
      /\ TimingTrials \in Nat \ {0} /\ Trials \in Nat \ {0}
      /\ TimingTargets \in Nat \ {0}
    BY ProgramConstants
<1>2. CaseCount' = CaseCount
    BY <1>0, CasesStay
<1>3. CASE mode \in {"usage", "peer-version"}
    <2>1. pc' = "exited" /\ buffer' = FALSE
        BY <1>0, <1>3 DEF Main, Exit
    <2>2. ProgramTypes' /\ Loops' /\ Places' /\ Turns' /\ Fresh'
        BY <1>0, <2>1 DEF ProgramTypes, Loops, Places, Turns, Fresh, InCases, InTiming, Profiling
    <2>3. ExpectedSoFar' /\ SamplesSoFar' /\ PatternsSoFar'
        BY <1>0, <2>1
           DEF ExpectedSoFar, SamplesSoFar, PatternsSoFar, InCases, InTiming,
               Profiling
    <2>4. RowsSoFar' /\ SeenSoFar' /\ TargetsSoFar'
        BY <1>0, <1>3, <2>1 DEF RowsSoFar, SeenSoFar, TargetsSoFar, InTiming
    <2>5. MediansSoFar' /\ BufferFreed'
        BY <1>0, <2>1 DEF MediansSoFar, RowsAreMedians, BufferFreed
    <2> QED BY <2>2, <2>3, <2>4, <2>5 DEF ProgramInv
<1>4. CASE mode \notin {"usage", "peer-version"} /\ ~memory
    <2>1. Exit(1) /\ UNCHANGED <<buffer, expected, samples>>
        BY <1>4, Zenon DEF Main
    <2>2. buffer' = FALSE /\ trial' \in Nat /\ position' \in Nat /\ target' \in Nat
        BY <1>0, <2>1
    <2> QED BY <1>0, <2>1, <2>2, FailureKeeps
<1>5. CASE mode \notin {"usage", "peer-version"} /\ memory
    <2>1. /\ expected' = [c \in 0..(CaseCount - 1) |-> Unwritten]
          /\ CASE mode = "timing" ->
                       /\ pc' = "timing warmup"
                       /\ samples' = Unsampled(Patterns, TimingTrials)
                [] mode \in {"baseline", "peers"} ->
                       /\ pc' = "warmup"
                       /\ samples' = Unsampled(CaseCount, Trials)
                [] OTHER -> pc' = "cases" /\ UNCHANGED samples
        BY <1>5 DEF Main
    <2>2. \/ /\ mode = "timing" /\ pc' = "timing warmup"
             /\ samples' = Unsampled(Patterns, TimingTrials)
          \/ /\ mode \in {"baseline", "peers"} /\ pc' = "warmup"
             /\ samples' = Unsampled(CaseCount, Trials)
          \/ /\ mode \in {"full", "quick"} /\ pc' = "cases"
        BY <1>0, <1>5, <2>1 DEF BenchAssumption, BenchmarkAssumption
    <2>3. /\ mode' = mode /\ position' = 0 /\ trial' = 0 /\ target' = 0
          /\ stream_peak' = 0 /\ rows' = << >> /\ seen' = {}
          /\ verdict' = [equal |-> TRUE, ok |-> TRUE]
          /\ pc' \in {"timing warmup", "warmup", "cases"}
          /\ pc' = "timing warmup" => mode = "timing"
          /\ pc' = "warmup" => mode \in {"baseline", "peers"}
          /\ pc' = "cases" => mode \in {"full", "quick"}
        BY <1>0, <2>2
    <2>4. ProgramTypes'
        <3>1. pc' \in {"main", "exited"} \cup InCases \cup InTiming
            BY <2>3 DEF InCases, InTiming
        <3> QED BY <1>0, <2>3, <3>1 DEF ProgramInv, ProgramTypes
    <2>5. Loops' /\ Places' /\ Turns' /\ Fresh'
        <3>1. Loops' /\ Fresh'
            BY <2>3 DEF Loops, Fresh, InTiming, Profiling
        <3>2. Places'
            <4>1. 0 < CaseCount' /\ 0 < Patterns /\ 0 < TimingTargets
                BY <1>1, <1>2
            <4> QED BY <2>3, <4>1 DEF Places
        <3>3. Turns'
            BY <2>3 DEF Turns
        <3> QED BY <3>1, <3>2, <3>3
    <2>6. ExpectedSoFar'
        <3>1. expected' \in [0..(CaseCount - 1) -> SUBSET Profiles]
            BY <2>1 DEF Unwritten
        <3>2. \A c \in 0..(CaseCount - 1) : ~(c < 0)
            OBVIOUS
        <3> QED BY <1>2, <2>3, <3>1, <3>2 DEF ExpectedSoFar
    <2>7. SamplesSoFar'
        BY <1>1, <1>2, <2>2, <2>3, UnsampledTable
           DEF SamplesSoFar, Profiling
    <2>8. PatternsSoFar'
        BY <1>1, <2>2, <2>3, UnsampledTable DEF PatternsSoFar, InTiming
    <2>9. RowsSoFar' /\ SeenSoFar'
        <3>1. Len(rows') = 0
            BY <2>3
        <3>2. 1..0 = {}
            OBVIOUS
        <3> QED BY <2>3, <3>1, <3>2 DEF RowsSoFar, SeenSoFar
    <2>10. TargetsSoFar'
        <3>1. 0..(0 - 1) = {}
            OBVIOUS
        <3> QED BY <2>3, <3>1 DEF TargetsSoFar, InTiming
    <2>11. MediansSoFar' /\ BufferFreed'
        <3>1. Len(rows') = 0
            BY <2>3
        <3>2. 1..0 = {}
            OBVIOUS
        <3> QED BY <2>3, <3>1, <3>2 DEF MediansSoFar, RowsAreMedians, BufferFreed
    <2> QED
        BY <2>4, <2>5, <2>6, <2>7, <2>8, <2>9, <2>10, <2>11 DEF ProgramInv
<1> QED BY <1>3, <1>4, <1>5

LEMMA MeasuredProfile ==
    ASSUME NEW usual, NEW m \in Measured(usual)
    PROVE  m.seconds \in Times /\ m.profile \in Profiles
BY DEF Measured

LEMMA WarmupKeeps ==
    ASSUME BenchAssumption, ProgramInv, Warmup
    PROVE  ProgramInv'
<1>0. /\ pc = "warmup" /\ trial = 0 /\ position \in Nat /\ position < CaseCount
      /\ rows = << >> /\ seen = {} /\ stream_peak = 0
      /\ mode \in {"baseline", "peers"}
      /\ expected \in [0..(CaseCount - 1) -> SUBSET Profiles]
      /\ \A c \in 0..(CaseCount - 1) :
               c < position => Filled(expected[c], Profiles)
      /\ samples \in [0..(CaseCount - 1) -> [0..(Trials - 1) -> SUBSET Times]]
    BY DEF Warmup, ProgramInv, Loops, Places, Turns, ProgramTypes, RowsSoFar, SeenSoFar,
           ExpectedSoFar, SamplesSoFar, InCases, Profiling
<1>1. CaseCount \in Nat \ {0} /\ Trials \in Nat \ {0}
    BY ProgramConstants
<1>2. PICK m \in Measured(Nominal(KindOf(position))) :
          expected' = [expected EXCEPT ![position] = {m.profile}]
    BY DEF Warmup
<1>3. /\ \/ position + 1 < CaseCount /\ position' = position + 1 /\ pc' = "warmup"
         \/ position + 1 = CaseCount /\ position' = 0 /\ pc' = "trials"
      /\ UNCHANGED <<mode, buffer, trial, target, samples, stream_peak,
                     verdict, rows, exit_code, seen>>
    BY <1>0, <1>1 DEF Warmup
<1>4. CaseCount' = CaseCount /\ \A c : KindOf(c)' = KindOf(c)
    BY <1>3, CasesStay
<1>5. m.profile \in Profiles
    BY MeasuredProfile
<1>6. /\ position' \in Nat /\ position' < CaseCount
      /\ mode' = mode /\ trial' = 0 /\ rows' = << >> /\ seen' = {}
      /\ stream_peak' = 0 /\ samples' = samples
      /\ pc' \in {"warmup", "trials"}
      /\ pc' = "trials" => position' = 0
    BY <1>0, <1>1, <1>3
<1>11. ProgramTypes' /\ Loops' /\ Places' /\ Turns' /\ Fresh'
    <2>1. ProgramTypes'
        BY <1>3, <1>6 DEF ProgramInv, ProgramTypes, InCases, InTiming
    <2>2. Places'
        BY <1>4, <1>6 DEF Places, InCases, InTiming
    <2>3. Loops' /\ Fresh'
        BY <1>0, <1>6 DEF Loops, Fresh, InTiming, Profiling
    <2>4. Turns'
        BY <1>1, <1>6 DEF Turns
    <2> QED BY <2>1, <2>2, <2>3, <2>4
<1>7. ExpectedSoFar'
    <2>1. expected' \in [0..(CaseCount - 1) -> SUBSET Profiles]
        BY <1>0, <1>2, <1>5
    <2>2. \A c \in 0..(CaseCount - 1) :
              c < position + 1 => Filled(expected'[c], Profiles)
        <3> SUFFICES ASSUME NEW c \in 0..(CaseCount - 1), c < position + 1
                     PROVE  Filled(expected'[c], Profiles)
            OBVIOUS
        <3>1. CASE c = position
            BY <1>0, <1>2, <1>5, <3>1 DEF Filled
        <3>2. CASE c # position
            <4>1. c < position /\ expected'[c] = expected[c]
                BY <1>0, <1>2, <3>2
            <4> QED BY <1>0, <4>1
        <3> QED BY <3>1, <3>2
    <2>3. position + 1 = CaseCount =>
              \A c \in 0..(CaseCount - 1) : c < position + 1
        BY <1>0, <1>1
    <2> QED BY <1>3, <1>4, <2>1, <2>2, <2>3 DEF ExpectedSoFar
<1>8. SamplesSoFar' /\ PatternsSoFar'
    <2>1. samples' \in [0..(CaseCount - 1) -> [0..(Trials - 1) -> SUBSET Times]]
        BY <1>0, <1>6
    <2>2. /\ \A t \in 0..(Trials - 1) : ~(t < 0)
          /\ \A p \in 0..(CaseCount - 1) : ~(p < 0)
        OBVIOUS
    <2>3. SamplesSoFar'
        BY <1>4, <1>6, <2>1, <2>2 DEF SamplesSoFar, Profiling
    <2> QED BY <1>6, <2>3 DEF PatternsSoFar, InTiming
<1>9. RowsSoFar' /\ SeenSoFar' /\ TargetsSoFar'
    <2>1. Len(rows') = 0 /\ 1..0 = {}
        BY <1>6
    <2> QED BY <1>6, <2>1 DEF RowsSoFar, SeenSoFar, TargetsSoFar, InTiming
<1>10. MediansSoFar' /\ BufferFreed'
    <2>1. Len(rows') = 0 /\ 1..0 = {}
        BY <1>6
    <2> QED BY <1>6, <2>1 DEF MediansSoFar, RowsAreMedians, BufferFreed
<1> QED BY <1>7, <1>8, <1>9, <1>10, <1>11 DEF ProgramInv

\* Another case in each turn of the rotation.
LEMMA RotationTurns ==
    ASSUME BenchAssumption, NEW t \in Nat
    PROVE  /\ \A p \in Nat : Rotation(p, t) \in 0..(CaseCount - 1)
           /\ \A c \in 0..(CaseCount - 1) :
                  \E p \in 0..(CaseCount - 1) : Rotation(p, t) = c
<1>1. CaseCount \in Nat \ {0} /\ t * Stride \in Nat
    BY ProgramConstants
<1>2. ASSUME NEW p \in Nat PROVE Rotation(p, t) \in 0..(CaseCount - 1)
    <2>1. p + t * Stride \in Nat
        BY <1>1
    <2> QED BY <1>1, <2>1, DivMod DEF Rotation
<1>3. \A c \in 0..(CaseCount - 1) :
          \E p \in 0..(CaseCount - 1) : Rotation(p, t) = c
    BY <1>1, ShiftOnto DEF Rotation
<1> QED BY <1>2, <1>3

\* A trial that repeats the profile of its case.
LEMMA TrialKeeps ==
    ASSUME BenchAssumption, ProgramInv, Trial
    PROVE  ProgramInv'
<1> DEFINE case == Rotation(position, trial)
           Table == [0..(CaseCount - 1) -> [0..(Trials - 1) -> SUBSET Times]]
<1>0. /\ pc = "trials" /\ trial \in Nat /\ trial < Trials
      /\ position \in Nat /\ position < CaseCount
      /\ rows = << >> /\ stream_peak = 0 /\ target \in Nat
      /\ mode \in {"baseline", "peers"}
      /\ expected \in [0..(CaseCount - 1) -> SUBSET Profiles]
      /\ \A c \in 0..(CaseCount - 1) : Filled(expected[c], Profiles)
      /\ samples \in Table
      /\ \A c \in 0..(CaseCount - 1), t \in 0..(Trials - 1) :
             t < trial => Filled(samples[c][t], Times)
      /\ \A p \in 0..(CaseCount - 1) :
             p < position => Filled(samples[Rotation(p, trial)][trial], Times)
    BY DEF Trial, ProgramInv, Loops, Places, Turns, ProgramTypes, RowsSoFar,
           ExpectedSoFar, SamplesSoFar, InCases, Profiling
<1>1. CaseCount \in Nat \ {0} /\ Trials \in Nat \ {0}
    BY ProgramConstants
<1>2. case \in 0..(CaseCount - 1)
    BY <1>0, RotationTurns
<1>3. PICK m \in Measured(The(expected[case])) :
          /\ seen' = seen \cup {<<case, m.profile>>}
          /\ IF m.profile \notin expected[case]
             THEN ReturnProfile(1) /\ UNCHANGED <<samples, position, trial>>
             ELSE /\ samples' = [samples EXCEPT ![case][trial] = {m.seconds}]
                  /\ UNCHANGED <<buffer, exit_code>>
                  /\ IF position + 1 < CaseCount
                     THEN position' = position + 1 /\ UNCHANGED <<pc, trial>>
                     ELSE /\ position' = 0
                          /\ IF trial + 1 < Trials
                             THEN trial' = trial + 1 /\ UNCHANGED pc
                             ELSE trial' = 0 /\ pc' = "report"
    BY DEF Trial
<1>4. UNCHANGED <<mode, target, expected, stream_peak, verdict, rows>>
    BY DEF Trial
<1>5. m.seconds \in Times /\ m.profile \in Profiles
    BY MeasuredProfile
<1>6. CASE m.profile \notin expected[case]
    <2>1. Exit(1) /\ buffer' = FALSE /\ UNCHANGED <<samples, position, trial>>
        BY <1>3, <1>6 DEF ReturnProfile, FreeBuffer
    <2> QED BY <1>0, <1>4, <2>1, FailureKeeps
<1>7. CASE m.profile \in expected[case]
    <2>1. samples' = [samples EXCEPT ![case][trial] = {m.seconds}]
        BY <1>3, <1>7
    <2>2. \/ /\ position + 1 < CaseCount
             /\ position' = position + 1 /\ pc' = "trials" /\ trial' = trial
          \/ /\ position + 1 = CaseCount /\ trial + 1 < Trials
             /\ position' = 0 /\ pc' = "trials" /\ trial' = trial + 1
          \/ /\ position + 1 = CaseCount /\ trial + 1 = Trials
             /\ position' = 0 /\ pc' = "report" /\ trial' = 0
        BY <1>0, <1>1, <1>3, <1>7
    <2>3. /\ CaseCount' = CaseCount
          /\ \A p, t : Rotation(p, t)' = Rotation(p, t)
        BY <1>4, CasesStay
    <2>4. /\ samples' \in Table
          /\ Filled(samples'[case][trial], Times)
          /\ \A c \in 0..(CaseCount - 1), t \in 0..(Trials - 1) :
                 Filled(samples[c][t], Times) => Filled(samples'[c][t], Times)
        <3>1. trial \in 0..(Trials - 1)
            BY <1>0, <1>1
        <3> DEFINE L == 0..(CaseCount - 1)
                   C == 0..(Trials - 1)
        <3>2. /\ samples \in [L -> [C -> SUBSET Times]]
              /\ case \in L /\ trial \in C
            BY <1>0, <1>2, <3>1
        <3> HIDE DEF case, L, C
        <3>3. /\ samples' \in [L -> [C -> SUBSET Times]]
              /\ Filled(samples'[case][trial], Times)
              /\ \A c \in L, t \in C :
                     Filled(samples[c][t], Times) => Filled(samples'[c][t], Times)
            <4>1. m.seconds \in Times
                BY <1>5
            <4>2. samples' \in [L -> [C -> SUBSET Times]]
                BY <2>1, <3>2, <4>1
            <4>3. \A c \in L, t \in C :
                      samples'[c][t] = IF c = case /\ t = trial
                                       THEN {m.seconds} ELSE samples[c][t]
                BY <2>1, <3>2
            <4>4. Filled(samples'[case][trial], Times)
                BY <3>2, <4>1, <4>3 DEF Filled
            <4> QED BY <4>2, <4>3, <4>4
        <3> QED BY <3>3 DEF L, C
    <2> HIDE DEF case, Table
    <2>5. /\ mode' = mode /\ rows' = << >> /\ stream_peak' = 0
          /\ target' = target /\ expected' = expected
          /\ position' \in Nat /\ position' < CaseCount /\ trial' \in Nat
          /\ pc' \in {"trials", "report"}
          /\ pc' = "trials" => trial' < Trials
          /\ pc' = "report" => trial' = 0 /\ position' = 0
        BY <1>0, <1>1, <1>4, <2>2
    <2>6. ProgramTypes'
        <3>1. pc' \in {"main", "exited"} \cup InCases \cup InTiming
            BY <2>5 DEF InCases
        <3> QED BY <1>4, <2>5, <3>1 DEF ProgramInv, ProgramTypes
    <2>7. Loops' /\ Fresh'
        BY <1>0, <2>5 DEF Loops, Fresh, Profiling, InTiming
    <2>8. Places'
        BY <2>3, <2>5 DEF Places, InCases, InTiming
    <2>9. Turns'
        BY <2>5 DEF Turns
    <2>10. ExpectedSoFar'
        BY <1>0, <2>3, <2>5 DEF ExpectedSoFar
    <2>11. \A p \in 0..(CaseCount - 1) :
               p < position + 1 =>
                   Filled(samples'[Rotation(p, trial)][trial], Times)
        <3> SUFFICES ASSUME NEW p \in 0..(CaseCount - 1), p < position + 1
                     PROVE  Filled(samples'[Rotation(p, trial)][trial], Times)
            OBVIOUS
        <3>1. CASE p = position
            BY <2>4, <3>1 DEF case
        <3>2. CASE p # position
            <4>1. p < position /\ trial \in 0..(Trials - 1)
                BY <1>0, <1>1, <3>2
            <4>2. Rotation(p, trial) \in 0..(CaseCount - 1)
                <5>1. p \in Nat
                    BY <1>1
                <5> QED BY <1>0, <5>1, RotationTurns
            <4> QED BY <1>0, <2>4, <4>1, <4>2
        <3> QED BY <3>1, <3>2
    <2>12. \A c \in 0..(CaseCount - 1), t \in 0..(Trials - 1) :
               t < trial => Filled(samples'[c][t], Times)
        BY <1>0, <2>4
    <2>13. ASSUME position + 1 = CaseCount,
                  NEW c \in 0..(CaseCount - 1), NEW t \in 0..(Trials - 1),
                  t < trial + 1
           PROVE  Filled(samples'[c][t], Times)
        <3>1. CASE t = trial
            <4>1. PICK p \in 0..(CaseCount - 1) : Rotation(p, trial) = c
                BY <1>0, RotationTurns
            <4>2. p < position + 1
                BY <1>1, <2>13
            <4> QED BY <2>11, <3>1, <4>1, <4>2
        <3>2. CASE t # trial
            <4>1. t < trial
                BY <1>0, <1>1, <2>13, <3>2
            <4> QED BY <2>12, <4>1
        <3> QED BY <3>1, <3>2
    <2>14. SamplesSoFar'
        <3>1. (pc \in Profiling => samples \in Table)'
            BY <2>3, <2>4 DEF Table
        <3>2. ASSUME pc' = "trials"
              PROVE  /\ \A c \in 0..(CaseCount - 1), t \in 0..(Trials - 1) :
                            t < trial' => Filled(samples'[c][t], Times)
                     /\ \A p \in 0..(CaseCount - 1) :
                            p < position' =>
                                Filled(samples'[Rotation(p, trial')][trial'], Times)
            <4>1. CASE position' = position + 1 /\ trial' = trial
                BY <2>11, <2>12, <4>1
            <4>2. CASE position + 1 = CaseCount /\ position' = 0 /\ trial' = trial + 1
                <5>1. \A p \in 0..(CaseCount - 1) : ~(p < position')
                    BY <4>2
                <5> QED BY <2>13, <4>2, <5>1
            <4> QED BY <2>2, <3>2, <4>1, <4>2
        <3>3. ASSUME pc' = "report", NEW c \in 0..(CaseCount - 1),
                     NEW t \in 0..(Trials - 1)
              PROVE  Filled(samples'[c][t], Times)
            <4>1. position + 1 = CaseCount /\ trial + 1 = Trials
                BY <2>2, <3>3
            <4>2. t < trial + 1
                BY <1>0, <1>1, <4>1
            <4> QED BY <2>13, <4>1, <4>2
        <3>4. \A p : Rotation(p, trial)' = Rotation(p, trial')
            BY <2>3, <1>4 DEF Rotation
        <3> QED BY <2>3, <3>1, <3>2, <3>3, <3>4 DEF SamplesSoFar, Table
    <2>15. PatternsSoFar'
        BY <2>5 DEF PatternsSoFar, InTiming
    <2>16. Len(rows') = 0 /\ 1..0 = {}
        BY <2>5
    <2>17. RowsSoFar'
        BY <2>5, <2>16 DEF RowsSoFar
    <2>18. SeenSoFar'
        <3>1. \A s \in seen : /\ s[1] \in 0..(CaseCount - 1)
                              /\ expected[s[1]] = {s[2]}
            BY <1>0 DEF ProgramInv, SeenSoFar
        <3>2. expected[case] = {m.profile}
            BY <1>0, <1>2, <1>7, FilledCell
        <3>3. \A s \in seen' : /\ s[1] \in 0..(CaseCount - 1)
                               /\ expected[s[1]] = {s[2]}
            BY <1>2, <1>3, <3>1, <3>2
        <3> QED BY <2>3, <2>5, <2>16, <3>3 DEF SeenSoFar
    <2>19. TargetsSoFar'
        BY <2>5 DEF TargetsSoFar, InTiming
    <2>20. MediansSoFar' /\ BufferFreed'
        BY <2>5, <2>16 DEF MediansSoFar, RowsAreMedians, BufferFreed
    <2> QED
        BY <2>6, <2>7, <2>8, <2>9, <2>10, <2>14, <2>15, <2>17, <2>18, <2>19,
           <2>20 DEF ProgramInv
<1> QED BY <1>6, <1>7

\* One row more, of the case the program is at.
LEMMA RowAdded ==
    ASSUME BenchAssumption, ProgramInv, pc \in {"report", "cases"},
           NEW seconds \in Nat, NEW profile \in Profiles,
           ScalingValid(KindOf(position), profile),
           mode' = mode,
           stream_peak' = IF KindOf(position) = "stream" /\ stream_peak = 0
                          THEN profile.peak_heap ELSE stream_peak,
           rows' = Append(rows, [case |-> position, seconds |-> seconds,
                                 profile |-> profile])
    PROVE  /\ Len(rows) = position /\ Len(rows') = position + 1
           /\ position \in Nat
           /\ rows' \in Seq([case : Nat, seconds : Nat, profile : Profiles])
           /\ stream_peak' \in Nat
           /\ \A n \in 1..position : rows'[n] = rows[n]
           /\ rows'[position + 1] =
                  [case |-> position, seconds |-> seconds, profile |-> profile]
           /\ \A n \in 1..Len(rows') : RowIsValid(n)'
<1> DEFINE row == [case |-> position, seconds |-> seconds, profile |-> profile]
           Row == [case : Nat, seconds : Nat, profile : Profiles]
<1>1. /\ Len(rows) = position /\ position \in Nat /\ stream_peak \in Nat
      /\ rows \in Seq(Row)
      /\ \A n \in 1..Len(rows) : RowIsValid(n)
    BY DEF ProgramInv, ProgramTypes, RowsSoFar
<1>2. row \in Row
    BY <1>1
<1>0. /\ row.case = position /\ row.profile = profile
    OBVIOUS
<1> HIDE DEF row, Row
<1>3. /\ rows' \in Seq(Row) /\ Len(rows') = position + 1
      /\ \A n \in 1..position : rows'[n] = rows[n]
      /\ rows'[position + 1] = row
    <2>1. rows' = Append(rows, row)
        BY DEF row
    <2> QED BY <1>1, <1>2, <2>1
<1>4. profile.peak_heap \in Nat
    BY ProgramConstants
<1>5. stream_peak' \in Nat
    BY <1>1, <1>4
<1>6. \A c : KindOf(c)' = KindOf(c)
    BY CasesStay
<1>7. ASSUME NEW n \in 1..Len(rows') PROVE RowIsValid(n)'
    <2>1. CASE n = position + 1
        <3>1. rows'[n] = row /\ n - 1 = position
            BY <1>1, <1>3, <2>1
        <3>2. KindOf(position) = "one-shot" =>
                  profile = [peak_heap |-> StateBytes,
                             allocations_per_hash |-> 1]
            BY DEF ScalingValid
        <3>3. KindOf(position) = "stream" =>
                  /\ profile.allocations_per_hash = 1
                  /\ profile.peak_heap = stream_peak' /\ stream_peak' # 0
            BY DEF ScalingValid
        <3> QED BY <1>0, <1>6, <3>1, <3>2, <3>3 DEF RowIsValid
    <2>2. CASE n # position + 1
        <3>1. n \in 1..position /\ n \in 1..Len(rows)
            BY <1>1, <1>3, <2>2
        <3>2. RowIsValid(n) /\ rows'[n] = rows[n]
            BY <1>1, <1>3, <3>1
        <3>3. KindOf(n - 1) = "stream" => stream_peak' = stream_peak
            BY <3>2 DEF RowIsValid
        <3> QED BY <1>6, <3>2, <3>3 DEF RowIsValid
    <2> QED BY <2>1, <2>2
<1> QED BY <1>1, <1>3, <1>5, <1>7 DEF row, Row

\* A case that passed: one row more, and on to the next case or out.
LEMMA ConcludeKeeps ==
    ASSUME BenchAssumption, ProgramInv, pc \in {"report", "cases"},
           NEW seconds \in Nat, NEW profile \in Profiles,
           ScalingValid(KindOf(position), profile),
           PrintRow(seconds, profile),
           \/ NextCase
           \/ AfterLastCase /\ Exit(0) /\ FreeBuffer,
           UNCHANGED <<mode, trial, target, expected, samples, verdict>>,
           \A s \in seen' : \/ s \in seen
                            \/ pc = "cases" /\ s[1] = position /\ s[2] = profile,
           \A s \in seen : s[1] = position => s[2] = profile,
           mode \in {"baseline", "peers"} => seconds > 0 /\ RowsAreMedians'
    PROVE  ProgramInv'
<1>1. /\ mode' = mode
      /\ stream_peak' = IF KindOf(position) = "stream" /\ stream_peak = 0
                        THEN profile.peak_heap ELSE stream_peak
      /\ rows' = Append(rows, [case |-> position, seconds |-> seconds,
                               profile |-> profile])
    BY DEF PrintRow
<1>2. /\ Len(rows) = position /\ Len(rows') = position + 1
      /\ position \in Nat
      /\ rows' \in Seq([case : Nat, seconds : Nat, profile : Profiles])
      /\ stream_peak' \in Nat
      /\ \A n \in 1..position : rows'[n] = rows[n]
      /\ rows'[position + 1] =
             [case |-> position, seconds |-> seconds, profile |-> profile]
      /\ \A n \in 1..Len(rows') : RowIsValid(n)'
    BY <1>1, RowAdded
<1>3. CaseCount \in Nat \ {0} /\ CaseCount' = CaseCount
    BY <1>1, ProgramConstants, CasesStay
<1>4. position < CaseCount /\ trial = 0 /\ target \in Nat
    BY DEF ProgramInv, Places, Turns, InCases, ProgramTypes
<1>5. /\ pc' \in {pc, "exited"}
      /\ pc' = pc => position' = position + 1 /\ position' < CaseCount
      /\ pc' = "exited" => /\ position' = position /\ position + 1 = CaseCount
                           /\ buffer' = FALSE
    BY <1>2, <1>3, <1>4 DEF NextCase, AfterLastCase, FreeBuffer, Exit
<1>6. ProgramTypes'
    <2>1. pc' \in {"main", "exited"} \cup InCases \cup InTiming
        BY <1>5 DEF InCases
    <2>2. position' \in Nat
        BY <1>2, <1>5
    <2> QED BY <1>2, <1>4, <2>1, <2>2 DEF ProgramInv, ProgramTypes
<1>7. Loops' /\ Fresh'
    BY <1>5 DEF ProgramInv, Loops, Fresh, Profiling, InTiming
<1>8. Places' /\ Turns'
    <2>1. Places'
        BY <1>3, <1>5 DEF Places, InCases, InTiming
    <2>2. Turns'
        BY <1>4, <1>5 DEF Turns
    <2> QED BY <2>1, <2>2
<1>9. ExpectedSoFar'
    BY <1>3, <1>5 DEF ProgramInv, ExpectedSoFar, InCases, InTiming
<1>10. SamplesSoFar' /\ PatternsSoFar'
    BY <1>3, <1>5
       DEF ProgramInv, SamplesSoFar, PatternsSoFar, InTiming, Profiling
<1>11. RowsSoFar'
    BY <1>2, <1>3, <1>5 DEF RowsSoFar, InTiming
<1>12. SeenSoFar'
    <2>1. ASSUME NEW n \in 1..Len(rows'), NEW s \in seen', s[1] = n - 1
          PROVE  s[2] = rows'[n].profile
        <3>1. CASE n = position + 1
            <4>1. s[1] = position
                BY <1>2, <2>1, <3>1
            <4> QED BY <1>2, <3>1, <4>1
        <3>2. CASE n # position + 1
            <4>1. n \in 1..position /\ s[1] # position
                BY <1>2, <2>1, <3>2
            <4>2. s \in seen
                BY <4>1
            <4> QED BY <1>2, <2>1, <4>1, <4>2 DEF ProgramInv, SeenSoFar
        <3> QED BY <3>1, <3>2
    <2>2. ASSUME pc' = "report", NEW s \in seen'
          PROVE  /\ s[1] \in 0..(CaseCount - 1)
                 /\ expected'[s[1]] = {s[2]}
        <3>1. pc = "report" /\ s \in seen
            BY <1>5, <2>2
        <3> QED BY <3>1 DEF ProgramInv, SeenSoFar
    <2>3. ASSUME pc' = "cases", NEW s \in seen'
          PROVE  s[1] \in 0..(position' - 1)
        <3>1. pc = "cases" /\ position' = position + 1
            BY <1>5, <2>3
        <3>2. CASE s \in seen
            <4>1. s[1] \in 0..(position - 1)
                BY <3>1, <3>2 DEF ProgramInv, SeenSoFar
            <4> QED BY <1>2, <3>1, <4>1
        <3>3. CASE s[1] = position
            BY <1>2, <3>1, <3>3
        <3> QED BY <3>2, <3>3
    <2>4. pc' \notin {"trials", "warmup"}
        BY <1>5
    <2> QED BY <1>3, <2>1, <2>2, <2>3, <2>4 DEF SeenSoFar
<1>13. TargetsSoFar'
    <2>1. mode # "timing"
        BY DEF ProgramInv, Loops, Profiling
    <2> QED BY <1>1, <1>5, <2>1 DEF TargetsSoFar, InTiming
<1>14. MediansSoFar'
    <2>1. mode \in {"baseline", "peers"} => pc' \in {"report", "exited"}
        BY <1>5 DEF ProgramInv, Loops
    <2>2. mode \notin {"baseline", "peers"} => RowsAreMedians'
        BY <1>1 DEF RowsAreMedians
    <2> QED BY <1>1, <2>1, <2>2 DEF MediansSoFar
<1>15. BufferFreed'
    BY <1>5 DEF BufferFreed
<1> QED
    BY <1>6, <1>7, <1>8, <1>9, <1>10, <1>11, <1>12, <1>13, <1>14, <1>15
       DEF ProgramInv

\* A case that did not pass ends the program.
LEMMA GiveUpKeeps ==
    ASSUME BenchAssumption, ProgramInv, Exit(1), FreeBuffer, NoRow,
           UNCHANGED <<mode, trial, target, samples>>,
           \/ UNCHANGED seen
           \/ /\ mode \notin {"baseline", "peers"}
              /\ \E s : seen' = seen \cup {s} /\ s[1] = Len(rows)
    PROVE  ProgramInv'
BY FailureKeeps DEF FreeBuffer, NoRow, ProgramInv, ProgramTypes

\* Half of the trials, rounded up, took no longer than their median, and as
\* many took no less.
LEMMA MedianSplits ==
    ASSUME BenchAssumption, NEW c, NEW seconds,
           seconds = Median(TimesOf(c, Trials)),
           \A t \in 0..(Trials - 1) : Filled(samples[c][t], Times)
    PROVE  /\ seconds \in Nat
           /\ Cardinality({t \in 0..(Trials - 1) :
                  The(samples[c][t]) <= seconds}) >= (Trials + 1) \div 2
           /\ Cardinality({t \in 0..(Trials - 1) :
                  The(samples[c][t]) >= seconds}) >= (Trials + 1) \div 2
<1> DEFINE N == Trials
           s == TimesOf(c, Trials)
           m == (N \div 2) + 1
           Below == {t \in 0..(N - 1) : The(samples[c][t]) <= seconds}
           Above == {t \in 0..(N - 1) : The(samples[c][t]) >= seconds}
<1>1. N \in Nat \ {0} /\ Times \subseteq Nat
    BY ProgramConstants
<1>2. \A t \in 0..(N - 1) : The(samples[c][t]) \in Nat
    BY <1>1, FilledCell
<1>3. s = [t \in 1..N |-> The(samples[c][t - 1])]
    BY DEF TimesOf
<1>4. /\ s \in [1..N -> Nat] /\ Len(s) = N
      /\ \A t \in 0..(N - 1) : s[t + 1] = The(samples[c][t])
    <2>1. \A t \in 1..N : The(samples[c][t - 1]) \in Nat
        BY <1>1, <1>2
    <2>2. s \in [1..N -> Nat]
        BY <1>3, <2>1
    <2>3. Len(s) = N
        BY <1>1, <1>3
    <2>4. \A t \in 0..(N - 1) : t + 1 \in 1..N /\ (t + 1) - 1 = t
        BY <1>1
    <2> HIDE DEF s, N
    <2>5. \A t \in 0..(N - 1) : s[t + 1] = The(samples[c][t])
        BY <1>3, <2>4
    <2> QED BY <2>2, <2>3, <2>5
<1>5. seconds = InOrder(s)[m]
    BY <1>4 DEF Median
<1> HIDE DEF s, N
<1>6. /\ m \in 1..N
      /\ m >= (N + 1) \div 2
      /\ N - m + 1 >= (N + 1) \div 2
      /\ (N + 1) \div 2 \in Nat
    BY <1>1
<1> HIDE DEF m
<1>7. PICK p \in Bijection(1..N, 1..N) :
          /\ InOrder(s) = [a \in 1..N |-> s[p[a]]]
          /\ \A a, b \in 1..N : a < b => s[p[a]] <= s[p[b]]
    BY <1>1, <1>4, InOrderSorts
<1>8. p \in [1..N -> 1..N]
    BY DEF Bijection, Injection
<1>9. seconds = s[p[m]] /\ seconds \in Nat
    BY <1>4, <1>5, <1>6, <1>7, <1>8
<1>10. \A a \in 1..N : /\ p[a] - 1 \in 0..(N - 1)
                       /\ The(samples[c][p[a] - 1]) = s[p[a]]
    <2> SUFFICES ASSUME NEW a \in 1..N
                 PROVE  /\ p[a] - 1 \in 0..(N - 1)
                        /\ The(samples[c][p[a] - 1]) = s[p[a]]
        OBVIOUS
    <2>1. p[a] \in 1..N
        BY <1>8
    <2>2. p[a] - 1 \in 0..(N - 1) /\ (p[a] - 1) + 1 = p[a]
        BY <1>1, <2>1
    <2> QED BY <1>4, <2>2
<1>11. \A a, b \in 1..N : a <= b => s[p[a]] <= s[p[b]]
    <2>1. \A a \in 1..N : s[p[a]] \in Nat
        BY <1>4, <1>8
    <2>2. \A a, b \in 1..N : a <= b => a < b \/ a = b
        BY <1>1
    <2> QED BY <1>7, <2>1, <2>2
<1>12. Cardinality(Below) \in Nat /\ Cardinality(Above) \in Nat
    <2>1. IsFiniteSet(0..(N - 1))
        <3>1. 0 \in Int /\ N - 1 \in Int
            BY <1>1
        <3> QED BY <3>1, FS_Interval
    <2>2. Below \in SUBSET (0..(N - 1)) /\ Above \in SUBSET (0..(N - 1))
        OBVIOUS
    <2> HIDE DEF Below, Above
    <2> QED BY <2>1, <2>2, FS_Subset, FS_CardinalityType
<1>13. Cardinality(Below) >= m
    <2>1. 1..m \in SUBSET (1..N) /\ Below \in SUBSET (0..(N - 1))
        BY <1>1, <1>6
    <2>2. ASSUME NEW a \in 1..m PROVE p[a] - 1 \in Below
        <3>1. a \in 1..N /\ a <= m
            BY <1>1, <1>6
        <3>2. s[p[a]] <= seconds
            BY <1>6, <1>9, <1>11, <3>1
        <3> QED BY <1>10, <3>1, <3>2
    <2>3. Cardinality(1..m) <= Cardinality(Below)
        <3> HIDE DEF Below
        <3> QED BY <1>1, <2>1, <2>2, PlacesCount
    <2>4. Cardinality(1..m) = m
        BY <1>6, FS_Interval
    <2> QED BY <1>6, <1>12, <2>3, <2>4
<1>14. Cardinality(Above) >= N - m + 1
    <2>1. m..N \in SUBSET (1..N) /\ Above \in SUBSET (0..(N - 1))
        BY <1>1, <1>6
    <2>2. ASSUME NEW a \in m..N PROVE p[a] - 1 \in Above
        <3>1. a \in 1..N /\ m <= a
            BY <1>1, <1>6
        <3>2. seconds <= s[p[a]] /\ s[p[a]] \in Nat
            BY <1>4, <1>6, <1>8, <1>9, <1>11, <3>1
        <3> QED BY <1>9, <1>10, <3>1, <3>2
    <2>3. Cardinality(m..N) <= Cardinality(Above)
        <3> HIDE DEF Above
        <3> QED BY <1>1, <2>1, <2>2, PlacesCount
    <2>4. Cardinality(m..N) = N - m + 1
        BY <1>1, <1>6, FS_Interval
    <2> QED BY <1>1, <1>6, <1>12, <2>3, <2>4
<1> HIDE DEF Below, Above
<1>15. Cardinality(Below) >= (N + 1) \div 2 /\ Cardinality(Above) >= (N + 1) \div 2
    BY <1>1, <1>6, <1>12, <1>13, <1>14
<1> QED BY <1>9, <1>15 DEF Below, Above, N

LEMMA ReportKeeps == ASSUME BenchAssumption, ProgramInv, Report PROVE ProgramInv'
<1> DEFINE seconds == Median(TimesOf(position, Trials))
           profile == The(expected[position])
           good == seconds > 0 /\ ScalingValid(KindOf(position), profile)
<1>0. /\ pc = "report" /\ position \in 0..(CaseCount - 1)
      /\ Filled(expected[position], Profiles)
      /\ \A t \in 0..(Trials - 1) : Filled(samples[position][t], Times)
    <2>1. pc = "report" /\ position \in Nat /\ position < CaseCount
        BY DEF Report, ProgramInv, ProgramTypes, Places, InCases
    <2>2. position \in 0..(CaseCount - 1)
        BY <2>1, ProgramConstants
    <2> QED
        BY <2>1, <2>2 DEF ProgramInv, ExpectedSoFar, SamplesSoFar
<1>1. /\ IF good
         THEN /\ PrintRow(seconds, profile)
              /\ NextCase \/ (AfterLastCase /\ ReturnProfile(0))
         ELSE ReturnProfile(1) /\ NoRow
      /\ UNCHANGED <<mode, trial, target, expected, samples, verdict, seen, odd>>
    BY DEF Report
<1>2. profile \in Profiles /\ expected[position] = {profile}
    BY <1>0, FilledCell
<1>3. /\ seconds \in Nat
      /\ Cardinality({t \in 0..(Trials - 1) :
             The(samples[position][t]) <= seconds}) >= (Trials + 1) \div 2
      /\ Cardinality({t \in 0..(Trials - 1) :
             The(samples[position][t]) >= seconds}) >= (Trials + 1) \div 2
    BY <1>0, MedianSplits
<1> HIDE DEF seconds, profile
<1>4. CASE ~good
    <2>1. Exit(1) /\ FreeBuffer /\ NoRow
        BY <1>1, <1>4 DEF ReturnProfile
    <2> QED BY <1>1, <2>1, GiveUpKeeps
<1>5. CASE good
    <2>1. /\ PrintRow(seconds, profile)
          /\ NextCase \/ (AfterLastCase /\ Exit(0) /\ FreeBuffer)
        BY <1>1, <1>5 DEF ReturnProfile
    <2>2. ASSUME NEW s \in seen, s[1] = position PROVE s[2] = profile
        <3>1. expected[s[1]] = {s[2]}
            BY <1>0 DEF ProgramInv, SeenSoFar
        <3> QED BY <1>2, <2>2, <3>1
    <2>3. mode \in {"baseline", "peers"} => seconds > 0 /\ RowsAreMedians'
        <3>1. rows' = Append(rows, [case |-> position, seconds |-> seconds,
                                    profile |-> profile])
            BY <2>1 DEF PrintRow
        <3>2. /\ Len(rows) = position /\ position \in Nat
              /\ \A n \in 1..position : rows'[n] = rows[n]
              /\ Len(rows') = position + 1
              /\ rows'[position + 1] = [case |-> position, seconds |-> seconds,
                                        profile |-> profile]
            <4>1. stream_peak' = IF KindOf(position) = "stream" /\ stream_peak = 0
                                 THEN profile.peak_heap ELSE stream_peak
                BY <2>1 DEF PrintRow
            <4> QED BY <1>0, <1>1, <1>2, <1>3, <1>5, <3>1, <4>1, RowAdded
        <3> DEFINE Good(row) ==
                /\ row.seconds > 0
                /\ Cardinality({t \in 0..(Trials - 1) :
                       The(samples[row.case][t]) <= row.seconds}) >= (Trials + 1) \div 2
                /\ Cardinality({t \in 0..(Trials - 1) :
                       The(samples[row.case][t]) >= row.seconds}) >= (Trials + 1) \div 2
        <3>3. ASSUME mode \in {"baseline", "peers"}, NEW n \in 1..Len(rows')
              PROVE  Good(rows'[n])
            <4>1. CASE n = position + 1
                <5>1. /\ rows'[n].seconds = seconds /\ rows'[n].case = position
                    BY <3>2, <4>1
                <5> QED BY <1>3, <1>5, <5>1
            <4>2. CASE n # position + 1
                <5>1. n \in 1..Len(rows) /\ rows'[n] = rows[n]
                    BY <3>2, <4>2
                <5>2. Good(rows[n])
                    BY <3>3, <5>1 DEF ProgramInv, MediansSoFar, RowsAreMedians
                <5> QED BY <5>1, <5>2
            <4> QED BY <4>1, <4>2
        <3>4. samples' = samples /\ mode' = mode
            BY <1>1
        <3> QED BY <1>5, <3>3, <3>4 DEF RowsAreMedians
    <2>4. \A s \in seen' : s \in seen
        BY <1>1
    <2> QED
        BY <1>0, <1>1, <1>2, <1>3, <1>5, <2>1, <2>2, <2>3, <2>4, ConcludeKeeps
<1> QED BY <1>4, <1>5

LEMMA CaseKeeps == ASSUME BenchAssumption, ProgramInv, Case PROVE ProgramInv'
<1>1. PICK m \in Measured(Nominal(KindOf(position))) :
          /\ seen' = seen \cup {<<position, m.profile>>}
          /\ IF ScalingValid(KindOf(position), m.profile)
             THEN /\ PrintRow(m.seconds, m.profile)
                  /\ NextCase \/ MainReturns
             ELSE RejectCase /\ NoRow
    BY DEF Case
<1>2. /\ pc = "cases" /\ mode \in {"full", "quick"} /\ Len(rows) = position
      /\ UNCHANGED <<mode, trial, target, expected, samples, verdict>>
    BY DEF Case, ProgramInv, Loops, RowsSoFar
<1>3. m.seconds \in Nat /\ m.profile \in Profiles
    BY MeasuredProfile, ProgramConstants
<1>4. CASE ~ScalingValid(KindOf(position), m.profile)
    <2>1. Exit(1) /\ FreeBuffer /\ NoRow
        BY <1>1, <1>4 DEF RejectCase
    <2>2. <<position, m.profile>>[1] = Len(rows)
        BY <1>2
    <2> QED BY <1>1, <1>2, <2>1, <2>2, GiveUpKeeps
<1>5. CASE ScalingValid(KindOf(position), m.profile)
    <2>1. /\ PrintRow(m.seconds, m.profile)
          /\ NextCase \/ (AfterLastCase /\ Exit(0) /\ FreeBuffer)
        BY <1>1, <1>5 DEF MainReturns
    <2>2. \A s \in seen : s[1] = position => s[2] = m.profile
        <3>1. \A s \in seen : s[1] \in 0..(position - 1) /\ position \in Nat
            BY <1>2 DEF ProgramInv, SeenSoFar, ProgramTypes
        <3> QED BY <3>1
    <2>3. \A s \in seen' : \/ s \in seen
                           \/ pc = "cases" /\ s[1] = position /\ s[2] = m.profile
        BY <1>1, <1>2
    <2> QED BY <1>2, <1>3, <1>5, <2>1, <2>2, <2>3, ConcludeKeeps
<1> QED BY <1>4, <1>5

\* What the steps of the timing check leave alone.
LEMMA TimingFrame ==
    ASSUME BenchAssumption, ProgramInv, pc \in InTiming, pc' \in InTiming,
           UNCHANGED <<mode, rows, stream_peak>>
    PROVE  /\ mode = "timing" /\ CaseCount' = CaseCount
           /\ CaseCount \in Nat \ {0}
           /\ Loops' /\ Fresh' /\ SamplesSoFar' /\ RowsSoFar' /\ SeenSoFar'
           /\ MediansSoFar' /\ BufferFreed'
<1>1. /\ mode = "timing" /\ mode' = "timing"
      /\ rows' = << >> /\ stream_peak' = 0
    BY DEF ProgramInv, Loops, RowsSoFar
<1>2. CaseCount' = CaseCount /\ CaseCount \in Nat \ {0}
    BY <1>1, CasesStay, ProgramConstants
<1>3. pc' \notin Profiling /\ pc' # "cases" /\ pc' # "main" /\ pc' # "exited"
    BY DEF InTiming, Profiling
<1>4. Loops' /\ Fresh' /\ SamplesSoFar'
    BY <1>1, <1>3 DEF Loops, Fresh, SamplesSoFar, Profiling
<1>5. Len(rows') = 0 /\ 1..0 = {}
    BY <1>1
<1>6. RowsSoFar' /\ SeenSoFar'
    BY <1>1, <1>3, <1>5 DEF RowsSoFar, SeenSoFar, Profiling
<1>7. MediansSoFar' /\ BufferFreed'
    BY <1>1, <1>3, <1>5 DEF MediansSoFar, RowsAreMedians, BufferFreed
<1> QED BY <1>1, <1>2, <1>4, <1>6, <1>7

LEMMA TimingWarmupKeeps ==
    ASSUME BenchAssumption, ProgramInv, TimingWarmup
    PROVE  ProgramInv'
<1>0. /\ pc = "timing warmup" /\ trial = 0 /\ position \in Nat
      /\ position < Patterns /\ target \in Nat /\ target < TimingTargets
      /\ expected \in [0..(CaseCount - 1) -> SUBSET Profiles]
      /\ \A s \in seen : s[1] \in Nat /\ s[1] < target
      /\ verdict \in [equal : BOOLEAN, ok : BOOLEAN]
      /\ verdict.ok => \A t \in 0..(target - 1) : OneProfile(t)
      /\ samples \in [0..(Patterns - 1) -> [0..(TimingTrials - 1) -> SUBSET Times]]
    BY DEF TimingWarmup, ProgramInv, ProgramTypes, Places, Turns, ExpectedSoFar,
           PatternsSoFar, TargetsSoFar, InTiming
<1>1. /\ Patterns \in Nat \ {0} /\ TimingTrials \in Nat \ {0}
    BY ProgramConstants
<1>2. /\ UNCHANGED <<mode, buffer, trial, target, samples, stream_peak, rows,
                     exit_code, seen, odd>>
      /\ \/ /\ position' = position + 1 /\ position' < Patterns
            /\ pc' = "timing warmup" /\ UNCHANGED <<verdict, expected>>
         \/ /\ position' = 0 /\ pc' = "timing"
            /\ verdict' = [verdict EXCEPT !.equal = TRUE]
            /\ expected' = [expected EXCEPT ![0] = Unwritten]
    BY <1>0 DEF TimingWarmup
<1>3. /\ pc \in InTiming /\ pc' \in InTiming
      /\ pc' \in {"timing warmup", "timing"}
      /\ position' \in Nat /\ position' < Patterns /\ trial' = 0
      /\ target' = target /\ seen' = seen
      /\ pc' = "timing" => position' = 0
    <2>1. pc \in InTiming
        BY <1>0 DEF InTiming
    <2>2. /\ pc' \in {"timing warmup", "timing"}
          /\ pc' = "timing" => position' = 0
        BY <1>2
    <2>3. pc' \in InTiming
        BY <2>2 DEF InTiming
    <2>4. position' \in Nat /\ position' < Patterns
        <3>1. position \in Nat
            BY <1>0
        <3>2. \/ position' = position + 1 /\ position' < Patterns
              \/ position' = 0
            BY <1>2
        <3> QED BY <1>1, <3>1, <3>2
    <2>5. trial' = 0 /\ target' = target /\ seen' = seen
        BY <1>0, <1>2
    <2> QED BY <2>1, <2>2, <2>3, <2>4, <2>5
<1>4. /\ mode = "timing" /\ CaseCount' = CaseCount
      /\ CaseCount \in Nat \ {0}
      /\ Loops' /\ Fresh' /\ SamplesSoFar' /\ RowsSoFar' /\ SeenSoFar'
      /\ MediansSoFar' /\ BufferFreed'
    BY <1>2, <1>3, TimingFrame
<1>5. ProgramTypes'
    BY <1>0, <1>2, <1>3 DEF ProgramInv, ProgramTypes
<1>6. Places'
    BY <1>0, <1>3 DEF Places, InCases
<1>7. Turns'
    <2>1. 0 < TimingTrials
        BY <1>1
    <2> QED BY <1>3, <2>1 DEF Turns
<1>8. ExpectedSoFar'
    <2>1. expected' \in [0..(CaseCount - 1) -> SUBSET Profiles]
        BY <1>0, <1>2 DEF Unwritten
    <2> QED BY <1>3, <1>4, <2>1 DEF ExpectedSoFar
<1>9. PatternsSoFar'
    <2>1. samples' = samples
        BY <1>2
    <2>2. /\ \A t \in 0..(TimingTrials - 1) : ~(t < 0)
          /\ \A p \in 0..(Patterns - 1) : ~(p < 0)
        OBVIOUS
    <2> QED BY <1>0, <1>3, <2>1, <2>2 DEF PatternsSoFar
<1>10. TargetsSoFar'
    <2>1. /\ verdict' \in [equal : BOOLEAN, ok : BOOLEAN]
          /\ verdict'.ok = verdict.ok
          /\ pc' = "timing" => verdict'.equal
        BY <1>0, <1>2
    <2>2. \A t : OneProfile(t)' = OneProfile(t)
        BY <1>3 DEF OneProfile, SeenOf
    <2>3. \A s \in seen : s[1] \in Nat /\ s[1] <= target /\ s[1] < target
        <3> SUFFICES ASSUME NEW s \in seen
                     PROVE  s[1] \in Nat /\ s[1] <= target /\ s[1] < target
            OBVIOUS
        <3>1. s[1] \in Nat /\ s[1] < target /\ target \in Nat
            BY <1>0
        <3> QED BY <3>1
    <2> QED BY <1>0, <1>3, <2>1, <2>2, <2>3 DEF TargetsSoFar
<1> QED BY <1>4, <1>5, <1>6, <1>7, <1>8, <1>9, <1>10 DEF ProgramInv

LEMMA PatternTurns ==
    ASSUME BenchAssumption, NEW t \in Nat
    PROVE  /\ \A p \in Nat : PatternOf(p, t) \in 0..(Patterns - 1)
           /\ \A c \in 0..(Patterns - 1) :
                  \E p \in 0..(Patterns - 1) : PatternOf(p, t) = c
<1>1. Patterns \in Nat \ {0}
    BY ProgramConstants
<1>2. ASSUME NEW p \in Nat PROVE PatternOf(p, t) \in 0..(Patterns - 1)
    <2>1. p + t \in Nat
        OBVIOUS
    <2> QED BY <1>1, <2>1, DivMod DEF PatternOf
<1>3. \A c \in 0..(Patterns - 1) :
          \E p \in 0..(Patterns - 1) : PatternOf(p, t) = c
    BY <1>1, ShiftOnto DEF PatternOf
<1> QED BY <1>2, <1>3

LEMMA TimingMeasureKeeps ==
    ASSUME BenchAssumption, ProgramInv, TimingMeasure
    PROVE  ProgramInv'
<1> DEFINE pattern == PatternOf(position, trial)
           first == trial = 0 /\ position = 0
           usual == IF first THEN Nominal("one-shot") ELSE The(expected[0])
           L == 0..(Patterns - 1)
           C == 0..(TimingTrials - 1)
<1>1. /\ Patterns \in Nat \ {0} /\ TimingTrials \in Nat \ {0}
    BY ProgramConstants
<1>2. /\ pc = "timing" /\ pc \in InTiming /\ trial \in C /\ position \in L
      /\ target \in Nat /\ target < TimingTargets
      /\ trial \in Nat /\ position \in Nat
    BY <1>1
       DEF TimingMeasure, ProgramInv, ProgramTypes, Places, Turns, InTiming
<1>3. /\ samples \in [L -> [C -> SUBSET Times]]
      /\ \A c \in L, t \in C : t < trial => Filled(samples[c][t], Times)
      /\ \A p \in L :
             p < position => Filled(samples[PatternOf(p, trial)][trial], Times)
    BY <1>2 DEF ProgramInv, PatternsSoFar
<1>4. PICK m \in Measured(usual) :
          /\ seen' = seen \cup {<<target, m.profile>>}
          /\ samples' = [samples EXCEPT ![pattern][trial] = {m.seconds}]
          /\ IF first
             THEN /\ expected' = [expected EXCEPT ![0] = {m.profile}]
                  /\ UNCHANGED verdict
             ELSE /\ verdict' = [verdict EXCEPT !.equal =
                                    EqualSoFar(m.profile)]
                  /\ UNCHANGED expected
    BY DEF TimingMeasure
<1>5. UNCHANGED <<mode, buffer, target, stream_peak, rows, exit_code>>
    BY DEF TimingMeasure
<1>6. m.seconds \in Times /\ m.profile \in Profiles
    BY MeasuredProfile
<1>7. \/ /\ position + 1 < Patterns
         /\ position' = position + 1 /\ pc' = "timing" /\ trial' = trial
      \/ /\ position + 1 = Patterns /\ trial + 1 < TimingTrials
         /\ position' = 0 /\ pc' = "timing" /\ trial' = trial + 1
      \/ /\ position + 1 = Patterns /\ trial + 1 = TimingTrials
         /\ position' = 0 /\ pc' = "judge" /\ trial' = 0
    <2>1. IF position + 1 < Patterns
          THEN position' = position + 1 /\ UNCHANGED <<pc, trial>>
          ELSE /\ position' = 0
               /\ IF trial + 1 < TimingTrials
                  THEN trial' = trial + 1 /\ UNCHANGED pc
                  ELSE trial' = 0 /\ pc' = "judge"
        BY DEF TimingMeasure
    <2> QED BY <1>1, <1>2, <2>1
<1>8. pattern \in L
    BY <1>2, PatternTurns
<1> HIDE DEF pattern, usual
<1>9. /\ samples' \in [L -> [C -> SUBSET Times]]
      /\ Filled(samples'[pattern][trial], Times)
      /\ \A c \in L, t \in C :
             Filled(samples[c][t], Times) => Filled(samples'[c][t], Times)
    <2> HIDE DEF L, C
    <2>1. samples' = [samples EXCEPT ![pattern][trial] = {m.seconds}]
        BY <1>4
    <2>2. samples' \in [L -> [C -> SUBSET Times]]
        BY <1>2, <1>3, <1>6, <1>8, <2>1
    <2>3. \A c \in L, t \in C :
              samples'[c][t] = IF c = pattern /\ t = trial
                               THEN {m.seconds} ELSE samples[c][t]
        BY <1>2, <1>3, <1>8, <2>1
    <2>4. Filled(samples'[pattern][trial], Times)
        BY <1>2, <1>6, <1>8, <2>3 DEF Filled
    <2> QED BY <2>2, <2>3, <2>4
<1> HIDE DEF L, C
<1>10. /\ pc' \in InTiming /\ pc' \in {"timing", "judge"}
       /\ position' \in Nat /\ position' < Patterns /\ trial' \in Nat
       /\ pc' = "timing" => trial' < TimingTrials
       /\ pc' = "timing" => ~(trial' = 0 /\ position' = 0)
       /\ pc' = "judge" => trial' = 0 /\ position' = 0
    <2>1. pc' \in {"timing", "judge"}
        BY <1>7
    <2>2. pc' \in InTiming
        BY <2>1 DEF InTiming
    <2>3. position' \in Nat /\ position' < Patterns /\ trial' \in Nat
        BY <1>1, <1>2, <1>7
    <2>4. pc' = "timing" => trial' < TimingTrials
        BY <1>1, <1>2, <1>7 DEF C
    <2>5. pc' = "timing" => ~(trial' = 0 /\ position' = 0)
        BY <1>2, <1>7
    <2>6. pc' = "judge" => trial' = 0 /\ position' = 0
        BY <1>7
    <2> QED BY <2>1, <2>2, <2>3, <2>4, <2>5, <2>6
<1>11. /\ mode = "timing" /\ CaseCount' = CaseCount
       /\ CaseCount \in Nat \ {0}
       /\ Loops' /\ Fresh' /\ SamplesSoFar' /\ RowsSoFar' /\ SeenSoFar'
       /\ MediansSoFar' /\ BufferFreed'
    BY <1>2, <1>5, <1>10, TimingFrame
<1>12. ProgramTypes'
    BY <1>2, <1>5, <1>10 DEF ProgramInv, ProgramTypes
<1>13. Places'
    BY <1>2, <1>5, <1>10 DEF Places, InCases
<1>14. Turns'
    BY <1>10 DEF Turns
<1>15. 0 \in 0..(CaseCount - 1) /\ expected \in [0..(CaseCount - 1) -> SUBSET Profiles]
    BY <1>2, <1>11 DEF ProgramInv, ExpectedSoFar
<1>16. /\ expected' \in [0..(CaseCount - 1) -> SUBSET Profiles]
       /\ first => expected'[0] = {m.profile} /\ verdict' = verdict
       /\ ~first => /\ expected' = expected
                    /\ verdict' = [verdict EXCEPT !.equal = EqualSoFar(m.profile)]
    BY <1>4, <1>6, <1>15
<1>17. ExpectedSoFar'
    BY <1>10, <1>11, <1>16 DEF ExpectedSoFar
<1>18. \A p \in L :
           p < position + 1 =>
               Filled(samples'[PatternOf(p, trial)][trial], Times)
    <2> SUFFICES ASSUME NEW p \in L, p < position + 1
                 PROVE  Filled(samples'[PatternOf(p, trial)][trial], Times)
        OBVIOUS
    <2>0. p \in Nat
        BY <1>1 DEF L
    <2>1. CASE p = position
        BY <1>9, <2>1 DEF pattern
    <2>2. CASE p # position
        <3>1. p < position
            BY <1>2, <2>0, <2>2
        <3>2. PatternOf(p, trial) \in L
            BY <1>2, <2>0, PatternTurns DEF L
        <3> QED BY <1>2, <1>3, <1>9, <3>1, <3>2
    <2> QED BY <2>1, <2>2
<1>19. \A c \in L, t \in C : t < trial => Filled(samples'[c][t], Times)
    BY <1>3, <1>9
<1>20. ASSUME position + 1 = Patterns, NEW c \in L, NEW t \in C, t < trial + 1
       PROVE  Filled(samples'[c][t], Times)
    <2>1. CASE t = trial
        <3>1. PICK p \in L : PatternOf(p, trial) = c
            BY <1>2, PatternTurns DEF L
        <3>2. p < position + 1
            BY <1>1, <1>20 DEF L
        <3> QED BY <1>18, <2>1, <3>1, <3>2
    <2>2. CASE t # trial
        <3>1. t < trial
            BY <1>1, <1>2, <1>20, <2>2 DEF C
        <3> QED BY <1>19, <3>1
    <2> QED BY <2>1, <2>2
<1>21. PatternsSoFar'
    <2>1. ASSUME pc' = "timing"
          PROVE  /\ \A c \in L, t \in C :
                        t < trial' => Filled(samples'[c][t], Times)
                 /\ \A p \in L :
                        p < position' =>
                            Filled(samples'[PatternOf(p, trial')][trial'], Times)
        <3>1. CASE position' = position + 1 /\ trial' = trial
            BY <1>18, <1>19, <3>1
        <3>2. CASE position + 1 = Patterns /\ position' = 0 /\ trial' = trial + 1
            <4>1. \A p \in L : ~(p < position')
                BY <1>1, <3>2 DEF L
            <4> QED BY <1>20, <3>2, <4>1
        <3> QED BY <1>7, <2>1, <3>1, <3>2
    <2>2. ASSUME pc' = "judge", NEW c \in L, NEW t \in C
          PROVE  Filled(samples'[c][t], Times)
        <3>1. position + 1 = Patterns /\ trial + 1 = TimingTrials
            BY <1>7, <2>2
        <3>2. t < trial + 1
            BY <1>1, <1>2, <3>1 DEF C
        <3> QED BY <1>20, <3>1, <3>2
    <2>3. \A p : PatternOf(p, trial)' = PatternOf(p, trial')
        BY DEF PatternOf
    <2> QED BY <1>9, <2>1, <2>2, <2>3 DEF PatternsSoFar, L, C
<1>22. /\ \A s \in seen : s[1] \in Nat /\ s[1] <= target
       /\ verdict \in [equal : BOOLEAN, ok : BOOLEAN]
       /\ verdict.ok => \A t \in 0..(target - 1) : OneProfile(t)
       /\ first => verdict.equal /\ \A s \in seen : s[1] < target
       /\ ~first => \E q \in Profiles :
                        /\ expected[0] = {q}
                        /\ verdict.equal => SeenOf(target) = {<<target, q>>}
    BY <1>2 DEF ProgramInv, TargetsSoFar
<1>23. /\ verdict' \in [equal : BOOLEAN, ok : BOOLEAN]
       /\ verdict'.ok = verdict.ok
       /\ ~first => (verdict'.equal = EqualSoFar(m.profile))
    <2>1. EqualSoFar(m.profile) \in BOOLEAN
        BY DEF EqualSoFar
    <2> QED BY <1>16, <1>22, <2>1
<1>24. ASSUME NEW t \in 0..(target - 1), OneProfile(t) PROVE OneProfile(t)'
    <2>1. t # target
        BY <1>2
    <2>2. SeenOf(t)' = SeenOf(t)
        BY <1>4, <2>1 DEF SeenOf
    <2> QED BY <1>24, <2>2 DEF OneProfile
<1>25. SeenOf(target)' = SeenOf(target) \cup {<<target, m.profile>>}
    BY <1>4, <1>5 DEF SeenOf
<1>26. \E q \in Profiles :
           /\ expected'[0] = {q}
           /\ verdict'.equal => SeenOf(target)' = {<<target, q>>}
    <2>1. CASE first
        <3>1. \A s \in seen : s[1] # target
            BY <1>2, <1>22, <2>1
        <3>2. SeenOf(target) = {}
            BY <3>1 DEF SeenOf
        <3> QED BY <1>6, <1>16, <1>25, <2>1, <3>2
    <2>2. CASE ~first
        <3>1. PICK q \in Profiles :
                  /\ expected[0] = {q}
                  /\ verdict.equal => SeenOf(target) = {<<target, q>>}
            BY <1>22, <2>2
        <3>2. ASSUME verdict'.equal PROVE SeenOf(target)' = {<<target, q>>}
            <4>1. verdict.equal /\ m.profile = q
                BY <1>23, <2>2, <3>1, <3>2 DEF EqualSoFar
            <4> QED BY <1>25, <3>1, <4>1
        <3> QED BY <1>16, <2>2, <3>1, <3>2
    <2> QED BY <2>1, <2>2
<1>27. TargetsSoFar'
    <2>1. target' = target
        BY <1>5
    <2>2. \A s \in seen' : s[1] \in Nat /\ s[1] <= target'
        BY <1>2, <1>4, <1>22, <2>1
    <2>3. verdict'.ok => \A t \in 0..(target - 1) : OneProfile(t)'
        BY <1>22, <1>23, <1>24
    <2>4. verdict'.equal => OneProfile(target)'
        BY <1>26, <2>1 DEF OneProfile
    <2>5. pc' # "exited" /\ pc' # "timing warmup"
        BY <1>10
    <2> QED
        BY <1>10, <1>23, <1>26, <2>1, <2>2, <2>3, <2>4, <2>5
           DEF TargetsSoFar
<1> QED
    BY <1>11, <1>12, <1>13, <1>14, <1>17, <1>21, <1>27 DEF ProgramInv

LEMMA JudgeKeeps == ASSUME BenchAssumption, ProgramInv, Judge PROVE ProgramInv'
<1>1. /\ Patterns \in Nat \ {0} /\ TimingTrials \in Nat \ {0}
      /\ TimingTargets \in Nat \ {0}
    BY ProgramConstants
<1>2. /\ pc = "judge" /\ pc \in InTiming /\ mode = "timing"
      /\ trial = 0 /\ position = 0 /\ target \in Nat /\ target < TimingTargets
      /\ rows = << >>
    BY DEF Judge, ProgramInv, ProgramTypes, Loops, Places, Turns, RowsSoFar,
           InTiming
<1>3. /\ verdict' = [verdict EXCEPT !.ok = verdict.ok /\ TargetOk]
      /\ UNCHANGED <<mode, trial, position, expected, stream_peak, rows, seen,
                     odd>>
      /\ IF target + 1 < TimingTargets
         THEN /\ target' = target + 1
              /\ pc' = "timing warmup"
              /\ samples' = Unsampled(Patterns, TimingTrials)
              /\ UNCHANGED <<buffer, exit_code>>
         ELSE /\ Exit(IF verdict'.ok THEN 0 ELSE 1)
              /\ FreeBuffer
              /\ UNCHANGED <<target, samples>>
    BY DEF Judge
<1>4. /\ \A s \in seen : s[1] \in Nat /\ s[1] <= target
      /\ verdict \in [equal : BOOLEAN, ok : BOOLEAN]
      /\ verdict.ok => \A t \in 0..(target - 1) : OneProfile(t)
      /\ verdict.equal => OneProfile(target)
    BY <1>2 DEF ProgramInv, TargetsSoFar
<1>5. \A t : OneProfile(t)' = OneProfile(t)
    BY <1>3 DEF OneProfile, SeenOf
<1>6. /\ verdict' \in [equal : BOOLEAN, ok : BOOLEAN]
      /\ verdict'.ok => verdict.ok /\ verdict.equal
    <2>1. (verdict.ok /\ TargetOk) \in BOOLEAN
        OBVIOUS
    <2>2. TargetOk => verdict.equal
        BY DEF TargetOk
    <2>3. verdict'.ok = (verdict.ok /\ TargetOk)
        BY <1>3, <1>4
    <2>4. verdict' \in [equal : BOOLEAN, ok : BOOLEAN]
        BY <1>3, <1>4, <2>1
    <2> QED BY <2>2, <2>3, <2>4
<1>7. verdict'.ok => \A t \in 0..target : OneProfile(t)'
    <2> SUFFICES ASSUME verdict'.ok, NEW t \in 0..target PROVE OneProfile(t)'
        OBVIOUS
    <2>1. t = target \/ t \in 0..(target - 1)
        BY <1>2
    <2> QED BY <1>4, <1>5, <1>6, <2>1
<1>8. CASE target + 1 < TimingTargets
    <2>0. target' = target + 1 /\ target \in Nat /\ target' \in Nat
        <3>1. target' = target + 1
            BY <1>3, <1>8
        <3>2. target \in Nat
            BY <1>2
        <3> QED BY <3>1, <3>2
    <2>1. /\ target' = target + 1 /\ pc' = "timing warmup"
          /\ samples' = Unsampled(Patterns, TimingTrials)
          /\ position' = 0 /\ trial' = 0 /\ expected' = expected
          /\ mode' = mode
        BY <1>2, <1>3, <1>8
    <2>2. pc' \in InTiming
        BY <2>1 DEF InTiming
    <2>3. /\ mode = "timing" /\ CaseCount' = CaseCount
          /\ CaseCount \in Nat \ {0}
          /\ Loops' /\ Fresh' /\ SamplesSoFar' /\ RowsSoFar' /\ SeenSoFar'
          /\ MediansSoFar' /\ BufferFreed'
        BY <1>2, <1>3, <2>2, TimingFrame
    <2>4. ProgramTypes'
        <3>1. target' \in Nat /\ position' \in Nat /\ trial' \in Nat
            BY <2>0, <2>1
        <3> QED BY <1>3, <2>2, <3>1 DEF ProgramInv, ProgramTypes
    <2>5. Places'
        <3>1. 0 < Patterns /\ target' < TimingTargets
            BY <1>1, <1>8, <2>0
        <3> QED BY <2>1, <3>1 DEF Places, InCases
    <2>6. Turns'
        BY <2>1 DEF Turns
    <2>7. ExpectedSoFar'
        <3>1. expected \in [0..(CaseCount - 1) -> SUBSET Profiles]
            BY <1>2 DEF ProgramInv, ExpectedSoFar
        <3> QED BY <2>1, <2>3, <3>1 DEF ExpectedSoFar
    <2>8. PatternsSoFar'
        <3>1. samples' \in [0..(Patterns - 1) -> [0..(TimingTrials - 1) -> SUBSET Times]]
            BY <1>1, <2>1, UnsampledTable
        <3> QED BY <2>1, <3>1 DEF PatternsSoFar
    <2>9. TargetsSoFar'
        <3>1. ASSUME NEW s \in seen'
              PROVE  s[1] \in Nat /\ s[1] <= target' /\ s[1] < target'
            <4>1. s[1] \in Nat /\ s[1] <= target /\ target' = target + 1
                BY <1>3, <1>4, <2>1
            <4> QED BY <1>2, <4>1
        <3>2. verdict'.ok => \A t \in 0..(target' - 1) : OneProfile(t)'
            <4>1. target' - 1 = target
                BY <2>0
            <4> QED BY <1>7, <4>1
        <3> QED BY <1>6, <2>1, <3>1, <3>2 DEF TargetsSoFar
    <2> QED
        BY <2>3, <2>4, <2>5, <2>6, <2>7, <2>8, <2>9 DEF ProgramInv
<1>9. CASE ~(target + 1 < TimingTargets)
    <2>1. /\ pc' = "exited" /\ buffer' = FALSE
          /\ exit_code' = 0 => verdict'.ok
          /\ target' = target /\ mode' = mode /\ rows' = << >>
        BY <1>2, <1>3, <1>9 DEF Exit, FreeBuffer
    <2>2. ProgramTypes'
        BY <1>2, <1>3, <2>1 DEF ProgramInv, ProgramTypes
    <2>3. Loops' /\ Places' /\ Turns' /\ Fresh'
        BY <2>1 DEF Loops, Places, Turns, Fresh, InCases, InTiming, Profiling
    <2>4. ExpectedSoFar' /\ SamplesSoFar' /\ PatternsSoFar'
        BY <2>1
           DEF ExpectedSoFar, SamplesSoFar, PatternsSoFar, InCases, InTiming,
               Profiling
    <2>5. Len(rows') = 0 /\ 1..0 = {}
        BY <2>1
    <2>6. RowsSoFar' /\ SeenSoFar'
        BY <1>2, <2>1, <2>5 DEF RowsSoFar, SeenSoFar, InTiming
    <2>7. TargetsSoFar'
        <3>1. verdict'.ok => \A t \in 0..(TimingTargets - 1) : OneProfile(t)'
            <4>1. TimingTargets - 1 = target
                BY <1>1, <1>2, <1>9
            <4> QED BY <1>7, <4>1
        <3>2. pc' \notin InTiming
            BY <2>1 DEF InTiming
        <3> QED BY <2>1, <3>1, <3>2 DEF TargetsSoFar
    <2>8. MediansSoFar' /\ BufferFreed'
        BY <2>1, <2>5 DEF MediansSoFar, RowsAreMedians, BufferFreed
    <2> QED
        BY <2>2, <2>3, <2>4, <2>6, <2>7, <2>8 DEF ProgramInv
<1> QED BY <1>8, <1>9

LEMMA ProgramKeeps ==
    ASSUME BenchAssumption, ProgramInv, ProgramStep PROVE ProgramInv'
BY MainKeeps, MeasureFailsKeeps, WarmupKeeps, TrialKeeps, ReportKeeps,
   CaseKeeps, TimingWarmupKeeps, TimingMeasureKeeps, JudgeKeeps
   DEF ProgramStep

LEMMA ProgramStutters == ASSUME ProgramInv, UNCHANGED programVars PROVE ProgramInv'
<1> USE DEF programVars, ProgramInv
<1>1. /\ CaseCount' = CaseCount
      /\ \A c : KindOf(c)' = KindOf(c)
      /\ \A p, t : Rotation(p, t)' = Rotation(p, t)
    BY CasesStay
<1>2. ProgramTypes' /\ Loops' /\ Places' /\ Turns' /\ Fresh'
    BY <1>1 DEF ProgramTypes, Loops, Places, Turns, Fresh
<1>3. ExpectedSoFar'
    BY <1>1 DEF ExpectedSoFar
<1>4. SamplesSoFar' /\ PatternsSoFar'
    BY <1>1 DEF SamplesSoFar, PatternsSoFar, Rotation, PatternOf
<1>5. RowsSoFar'
    BY <1>1 DEF RowsSoFar, RowIsValid
<1>6. SeenSoFar'
    BY <1>1 DEF SeenSoFar, SeenOf
<1>7. TargetsSoFar'
    <2>1. \A t : OneProfile(t)' <=> OneProfile(t)
        BY DEF OneProfile, SeenOf
    <2>2. \A t : SeenOf(t)' = SeenOf(t)
        BY DEF SeenOf
    <2>3. TargetsSoFar
        OBVIOUS
    <2> QED BY <2>1, <2>2, <2>3 DEF TargetsSoFar
<1>8. MediansSoFar' /\ BufferFreed'
    BY DEF MediansSoFar, RowsAreMedians, BufferFreed
<1> QED BY <1>2, <1>3, <1>4, <1>5, <1>6, <1>7, <1>8

LEMMA ProgramTells ==
    ASSUME BenchAssumption, ProgramInv
    PROVE  /\ ReadsOnlyWritten
           /\ RowsAreMedians
           /\ ExitZeroMeansScaling
           /\ TimingPassIsUniform
<1>1. ReadsOnlyWritten
    <2>1. ASSUME pc = "trials" PROVE expected[Rotation(position, trial)] # Unwritten
        <3>1. Rotation(position, trial) \in 0..(CaseCount - 1)
            BY RotationTurns DEF ProgramInv, ProgramTypes
        <3> QED BY <2>1, <3>1, FilledCell DEF ProgramInv, ExpectedSoFar
    <2>2. ASSUME pc = "report"
          PROVE  /\ expected[position] # Unwritten
                 /\ \A t \in 0..(Trials - 1) : samples[position][t] # Unwritten
        <3>1. position \in 0..(CaseCount - 1)
            <4>1. position \in Nat /\ position < CaseCount
                BY <2>2 DEF ProgramInv, ProgramTypes, Places, InCases
            <4> QED BY <4>1, ProgramConstants
        <3> QED
            BY <2>2, <3>1, FilledCell
               DEF ProgramInv, ExpectedSoFar, SamplesSoFar
    <2>3. ASSUME pc = "judge", NEW p \in 0..(Patterns - 1),
                 NEW t \in 0..(TimingTrials - 1)
          PROVE  samples[p][t] # Unwritten
        BY <2>3, FilledCell DEF ProgramInv, PatternsSoFar
    <2> QED BY <2>1, <2>2, <2>3 DEF ReadsOnlyWritten
<1>2. RowsAreMedians
    BY DEF ProgramInv, MediansSoFar
<1>3. ExitZeroMeansScaling
    <2> SUFFICES ASSUME pc = "exited", exit_code = 0,
                        mode \in {"full", "quick", "baseline", "peers"}
                 PROVE  ExitZeroMeansScaling
        BY DEF ExitZeroMeansScaling
    <2>1. /\ Len(rows) = CaseCount
          /\ \A n \in 1..Len(rows) : RowIsValid(n)
          /\ \A n \in 1..Len(rows) : \A s \in seen :
                 s[1] = n - 1 => s[2] = rows[n].profile
        BY DEF ProgramInv, RowsSoFar, SeenSoFar
    <2>2. ASSUME NEW n \in 1..Len(rows), NEW m \in 1..Len(rows),
                 KindOf(n - 1) = "stream", KindOf(m - 1) = "stream"
          PROVE  /\ rows[n].profile = rows[m].profile
                 /\ rows[n].profile.allocations_per_hash = 1
        <3>1. rows[n].profile \in Profiles /\ rows[m].profile \in Profiles
            <4> DEFINE Row == [case : Nat, seconds : Nat, profile : Profiles]
            <4>1. rows \in Seq(Row)
                BY DEF ProgramInv, ProgramTypes
            <4> HIDE DEF Row
            <4>2. rows[n] \in Row /\ rows[m] \in Row
                BY <4>1
            <4> QED BY <4>2 DEF Row
        <3>2. /\ rows[n].profile \in [peak_heap : Nat, allocations_per_hash : Nat]
              /\ rows[m].profile \in [peak_heap : Nat, allocations_per_hash : Nat]
            BY <3>1, ProgramConstants
        <3>3. /\ rows[n].profile.allocations_per_hash = 1
              /\ rows[m].profile.allocations_per_hash = 1
              /\ rows[n].profile.peak_heap = rows[m].profile.peak_heap
            BY <2>1, <2>2 DEF RowIsValid
        <3> QED BY <3>2, <3>3
    <2> QED BY <2>1, <2>2 DEF ExitZeroMeansScaling, RowIsValid
<1>4. TimingPassIsUniform
    <2> SUFFICES ASSUME pc = "exited", exit_code = 0, mode = "timing",
                        NEW t \in 0..(TimingTargets - 1)
                 PROVE  Cardinality({s \in seen : s[1] = t}) = 1
        BY DEF TimingPassIsUniform
    <2>1. PICK p : SeenOf(t) = {<<t, p>>}
        BY DEF ProgramInv, TargetsSoFar, OneProfile
    <2> QED BY <2>1, FS_Singleton DEF SeenOf
<1> QED BY <1>1, <1>2, <1>3, <1>4

-----------------------------------------------------------------------------
(* The machines side by side *)

IInv ==
    /\ part \in {"measure", "stream", "program"}
    /\ part = "measure" => MeasureInv
    /\ part = "stream"  => StreamInv
    /\ part = "program" => ProgramInv

LEMMA InitIInv == Init => IInv
<1> SUFFICES ASSUME Init PROVE IInv
    OBVIOUS
<1> USE BenchAssumption
<1>1. CASE part = "measure" /\ MeasureInit
    BY <1>1, MeasureStarts DEF IInv
<1>2. CASE part = "stream" /\ StreamInit
    BY <1>2, StreamStarts DEF IInv
<1>3. CASE part = "program" /\ ProgramInit
    BY <1>3, ProgramStarts DEF IInv
<1> QED
    BY <1>1, <1>2, <1>3 DEF Init

LEMMA StepIInv == IInv /\ [Next]_vars => IInv'
<1> SUFFICES ASSUME IInv, [Next]_vars PROVE IInv'
    OBVIOUS
<1> USE BenchAssumption
<1>1. CASE Measure
    <2>1. part = "measure" /\ part' = part /\ MeasureNext /\ MeasureInv
        BY <1>1 DEF Measure, IInv
    <2> QED BY <2>1, MeasureKeeps DEF IInv
<1>2. CASE Stream
    <2>1. part = "stream" /\ part' = part /\ StreamStep /\ StreamInv
        BY <1>2 DEF Stream, IInv
    <2> QED BY <2>1, StreamKeeps DEF IInv
<1>3. CASE Program
    <2>1. part = "program" /\ part' = part /\ ProgramStep /\ ProgramInv
        BY <1>3 DEF Program, IInv
    <2> QED BY <2>1, ProgramKeeps DEF IInv
<1>4. CASE UNCHANGED vars
    <2>1. part' = part
        BY <1>4 DEF vars
    <2>2. MeasureInv => MeasureInv'
        <3> SUFFICES ASSUME MeasureInv PROVE MeasureInv'
            OBVIOUS
        <3>1. UNCHANGED measureVars
            BY <1>4 DEF vars
        <3> QED
            BY <3>1
               DEF measureVars, MeasureInv, MeasureTypes, MeasureTypeOK, Blocks,
                   AccountingExact, RunsSoFar, NothingLiveAtReset, ProfileIsClean
    <2>3. StreamInv => StreamInv'
        <3>1. UNCHANGED streamVars
            BY <1>4 DEF vars
        <3> QED
            BY <3>1
               DEF streamVars, StreamInv, StreamTypes, ContextKeepsUp, CauseKnown,
                   WholeInputHashed, ContextFreed
    <2>4. ProgramInv => ProgramInv'
        BY <1>4, ProgramStutters DEF vars
    <2> QED BY <2>1, <2>2, <2>3, <2>4 DEF IInv
<1> QED
    BY <1>1, <1>2, <1>3, <1>4 DEF Next, Ended

\* The inductive invariant of the three machines.
THEOREM BenchInvariant == Spec => []IInv
BY InitIInv, StepIInv, PTL DEF Spec

\* The tracking allocator counts exactly, for any sizes and requests.
THEOREM BenchCounters == Spec => []CountersTell
<1>1. IInv => CountersTell
    BY DEF IInv, MeasureInv, MeasureTypes, CountersTell
<1> QED BY BenchInvariant, <1>1, PTL

\* No profile is reported of a hash function that left bytes behind.
THEOREM BenchProfiles == Spec => []ReportIsClean
<1>1. IInv => ReportIsClean
    BY DEF IInv, MeasureInv, ReportIsClean
<1> QED BY BenchInvariant, <1>1, PTL

\* Nothing is compared or sorted before it was written, and the rows and the
\* exit code mean what they say, for any numbers of cases and trials.
THEOREM BenchRows == Spec => []RowsTell
<1>1. IInv => RowsTell
    BY BenchAssumption, ProgramTells DEF IInv, RowsTell
<1> QED BY BenchInvariant, <1>1, PTL

\* Every context and the buffer are given back, and a stream hash function
\* hashes its whole input or fails for a cause.
THEOREM BenchGivesBack == Spec => []AllGivenBack
<1>1. IInv => AllGivenBack
    BY StreamGivesBack DEF IInv, ProgramInv, AllGivenBack
<1> QED BY BenchInvariant, <1>1, PTL
=============================================================================
