---------------------------- MODULE BenchMeasure ----------------------------
(***************************************************************************)
(* The benchmark's tracking allocator and measure (src/bench/bench_hash.c): *)
(* a number of runs of one hash function, between which nothing may stay   *)
(* allocated, and the resource profile they add up to.  The hash function  *)
(* is any client of the allocator: it allocates, frees, succeeds or fails  *)
(* as it likes, within MaxCalls allocations.                               *)
(***************************************************************************)
EXTENDS Naturals, Bags, FiniteSetsExt

CONSTANTS
    SizeMax,        \* SIZE_MAX
    HeaderBytes,    \* sizeof(fch_bench_allocation_header_t), 16 in the code
    Sizes,          \* the sizes the hash function asks for
    Counts,         \* the element counts it passes to calloc
    MaxCalls,       \* bound on its allocations in one measurement
    Iterations,     \* the iteration counts measure is called with
    MaxMeasures     \* bound on the measurements of one program run

MeasureAssumption ==
    /\ SizeMax \in Nat
    /\ HeaderBytes \in 1..SizeMax
    /\ Sizes \subseteq 0..SizeMax
    /\ Counts \subseteq 0..SizeMax
    /\ MaxCalls \in Nat
    /\ Iterations \subseteq Nat
    /\ MaxMeasures \in Nat

VARIABLES
    \* the tracking allocator
    allocation_current, allocation_peak, allocation_calls, allocation_error,
    live,         \* the header sizes of the blocks not yet freed: a bag
    \* measure
    measure_pc,   \* "called", "hash", "check", "stopped", "failed", "done"
    iterations,
    i,            \* completed runs of the hash function
    result,       \* what measure reports
    measures,     \* measurements made so far
    \* what really happened since the last reset
    highest,      \* the most bytes that were live at once
    leaked        \* some run of the hash function left bytes behind

tracker == <<allocation_current, allocation_peak, allocation_calls,
             allocation_error, live, highest>>
measureVars == <<allocation_current, allocation_peak, allocation_calls,
                 allocation_error, live, measure_pc, iterations, i, result,
                 measures, highest, leaked>>

LiveBytes(blocks) == MapThenSumSet(LAMBDA s : s * blocks[s], DOMAIN blocks)

MaxOf(a, b) == IF a < b THEN b ELSE a

NoResult == [peak_heap |-> 0, allocations_per_hash |-> 0]

MeasureInit ==
    /\ allocation_current = 0 /\ allocation_peak = 0
    /\ allocation_calls = 0 /\ allocation_error = FALSE
    /\ live = EmptyBag
    /\ measure_pc = "called"
    /\ iterations \in Iterations
    /\ i = 0
    /\ result = NoResult
    /\ measures = 0
    /\ highest = 0
    /\ leaked = FALSE

-----------------------------------------------------------------------------

\* fch_bench_malloc: the header must fit, the system must have memory, and
\* the total must stay countable.  Only a granted request is counted in.
Malloc(size, memory) ==
    LET tooLarge == size > SizeMax - HeaderBytes
        uncountable == allocation_current > SizeMax - size
    IN
    /\ allocation_calls' = allocation_calls + 1
    /\ IF tooLarge \/ ~memory \/ uncountable
       THEN /\ allocation_error' =
                   (allocation_error \/ tooLarge \/ (memory /\ uncountable))
            /\ UNCHANGED <<allocation_current, allocation_peak, live, highest>>
       ELSE /\ allocation_current' = allocation_current + size
            /\ allocation_peak' = MaxOf(allocation_peak, allocation_current')
            /\ live' = live (+) SetToBag({size})
            /\ highest' = MaxOf(highest, LiveBytes(live'))
            /\ UNCHANGED allocation_error

\* fch_bench_calloc: a product that wraps is refused, any other is a malloc.
Calloc(count, size, memory) ==
    IF count # 0 /\ size > SizeMax \div count
    THEN /\ allocation_calls' = allocation_calls + 1
         /\ allocation_error' = TRUE
         /\ UNCHANGED <<allocation_current, allocation_peak, live, highest>>
    ELSE Malloc(count * size, memory)

\* fch_bench_free of a block whose header says size; NULL is ignored.
Free(size) ==
    /\ BagIn(size, live)
    /\ allocation_error' = (allocation_error \/ size > allocation_current)
    /\ allocation_current' = IF size > allocation_current THEN 0
                             ELSE allocation_current - size
    /\ live' = live (-) SetToBag({size})
    /\ UNCHANGED <<allocation_peak, allocation_calls, highest>>

Hashing == measure_pc = "hash" /\ i < iterations

HashAllocates ==
    /\ Hashing
    /\ allocation_calls < MaxCalls
    /\ \E size \in Sizes, memory \in BOOLEAN :
           \/ Malloc(size, memory)
           \/ \E count \in Counts : Calloc(count, size, memory)
    /\ UNCHANGED <<measure_pc, iterations, i, result, measures, leaked>>

HashFrees ==
    /\ Hashing
    /\ \E size \in DOMAIN live : Free(size)
    /\ UNCHANGED <<measure_pc, iterations, i, result, measures, leaked>>

\* The hash function returns 1, or 0 and measure with it.
HashReturns(success) ==
    /\ Hashing
    /\ measure_pc' = IF success THEN "check" ELSE "failed"
    /\ leaked' = (leaked \/ LiveBytes(live) > 0)
    /\ UNCHANGED <<tracker, iterations, i, result, measures>>

-----------------------------------------------------------------------------

\* Mutant: the peak of the last measurement stays.
ResetKeepsPeak ==
    /\ allocation_current' = 0
    /\ allocation_calls' = 0
    /\ allocation_error' = FALSE
    /\ highest' = LiveBytes(live)
    /\ UNCHANGED <<allocation_peak, live>>

AllocationReset ==
    /\ allocation_current' = 0
    /\ allocation_peak' = 0
    /\ allocation_calls' = 0
    /\ allocation_error' = FALSE
    /\ highest' = LiveBytes(live)
    /\ UNCHANGED live

\* measure, up to its loop: it refuses no iterations at all, and starts the
\* clock behind the reset.
Start(clock) ==
    /\ measure_pc = "called"
    /\ IF iterations = 0
       THEN measure_pc' = "failed" /\ UNCHANGED <<tracker, leaked>>
       ELSE /\ AllocationReset
            /\ leaked' = FALSE
            /\ measure_pc' = IF clock THEN "hash" ELSE "failed"
    /\ i' = 0
    /\ UNCHANGED <<iterations, result, measures>>

\* After each run nothing may be live and no request may have overflowed.
CheckIteration ==
    /\ measure_pc = "check"
    /\ IF allocation_error \/ allocation_current # 0
       THEN measure_pc' = "failed" /\ UNCHANGED i
       ELSE measure_pc' = "hash" /\ i' = i + 1
    /\ UNCHANGED <<tracker, iterations, result, measures, leaked>>

\* Mutant: the calls are not required to divide evenly.
FinishUneven(clock) ==
    /\ measure_pc = "hash"
    /\ i = iterations
    /\ IF ~clock
       THEN measure_pc' = "failed" /\ UNCHANGED <<result, measures>>
       ELSE /\ result' = [peak_heap |-> allocation_peak,
                          allocations_per_hash |->
                              allocation_calls \div iterations]
            /\ measures' = measures + 1
            /\ measure_pc' = "done"
    /\ UNCHANGED <<tracker, iterations, i, leaked>>

\* Behind the loop: the clock must not have failed or run backwards, and the
\* runs must have made the same number of calls on average.
Finish(clock) ==
    /\ measure_pc = "hash"
    /\ i = iterations
    /\ IF ~clock \/ allocation_calls % iterations # 0
       THEN measure_pc' = "failed" /\ UNCHANGED <<result, measures>>
       ELSE /\ result' = [peak_heap |-> allocation_peak,
                          allocations_per_hash |->
                              allocation_calls \div iterations]
            /\ measures' = measures + 1
            /\ measure_pc' = "done"
    /\ UNCHANGED <<tracker, iterations, i, leaked>>

\* Its callers measure again after a success, and give up after a failure.
MeasureAgain ==
    /\ measure_pc = "done"
    /\ measures < MaxMeasures
    /\ iterations' \in Iterations
    /\ measure_pc' = "called"
    /\ UNCHANGED <<tracker, i, result, measures, leaked>>

Stop ==
    /\ measure_pc \in {"failed", "done", "stopped"}
    /\ measure_pc' = "stopped"
    /\ UNCHANGED <<tracker, iterations, i, result, measures, leaked>>

MeasureNext ==
    \/ \E clock \in BOOLEAN : Start(clock) \/ Finish(clock)
    \/ HashAllocates \/ HashFrees
    \/ \E success \in BOOLEAN : HashReturns(success)
    \/ CheckIteration \/ MeasureAgain \/ Stop

-----------------------------------------------------------------------------

MeasureTypeOK ==
    /\ allocation_current \in 0..SizeMax
    /\ allocation_peak \in allocation_current..SizeMax
    /\ allocation_calls \in 0..MaxCalls
    /\ allocation_error \in BOOLEAN
    /\ IsABag(live)
    /\ i \in 0..iterations \/ measure_pc = "called"

\* The counters tell the truth whatever requests were refused: the bytes
\* counted are the bytes of the live blocks, so that the branch of free for an
\* underflow is never taken, and the peak is the most that was live since the
\* reset of this measurement.
AccountingExact ==
    /\ allocation_current = LiveBytes(live)
    /\ allocation_peak = highest

\* A measurement is reported only when every run of the hash function gave
\* everything back, and its profile accounts for every allocation call.
ProfileIsClean ==
    measure_pc = "done" =>
        /\ ~leaked
        /\ ~allocation_error
        /\ result.peak_heap = highest
        /\ result.allocations_per_hash * iterations = allocation_calls

\* The counters are never reset while a block is live, which a later free
\* would take for an underflow.
NothingLiveAtReset == measure_pc = "called" => LiveBytes(live) = 0
=============================================================================
