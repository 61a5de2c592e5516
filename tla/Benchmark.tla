----------------------------- MODULE Benchmark -----------------------------
(***************************************************************************)
(* The benchmark program (src/bench/bench_hash.c): main with its modes, the *)
(* baseline profile with its interleaved trials, and the timing check over *)
(* input patterns.  A measurement is what BenchMeasure lets measure report: *)
(* nothing, or a time and a resource profile; the drivers turn them into   *)
(* rows, verdicts and an exit code.                                        *)
(***************************************************************************)
EXTENDS Naturals, Sequences, FiniteSets, FiniteSetsExt, SequencesExt

CONSTANTS
    Modes,           \* the command lines; "peers" is there with OpenSSL only
    Kinds,           \* the kind of every target, peers last
    BaselineTargets, \* BASELINE_TARGET_COUNT, 8 in the code
    FullLengths,     \* the number of lengths, BASELINE_LENGTH_COUNT, 6
    QuickLengths,    \* and with --quick, 4
    Trials,          \* BASELINE_TRIALS, 5
    Stride,          \* the cases the rotation moves on in a trial, 13
    TimingTargets,   \* the targets of the timing check, 4
    Patterns,        \* TIMING_PATTERN_COUNT, 4
    TimingTrials,    \* TIMING_TRIALS, 7
    StateBytes,      \* the 64 bytes of a root state
    Times,           \* the times a measurement may take
    Profiles,        \* the resource profiles it may have
    MaxOdd           \* bound on the measurements that are not as usual

BenchmarkAssumption ==
    /\ Modes \subseteq {"full", "quick", "baseline", "peers", "peer-version",
                        "timing", "usage"}
    /\ Kinds \in Seq({"one-shot", "stream", "peer"})
    /\ BaselineTargets \in 1..Len(Kinds)
    /\ {FullLengths, QuickLengths, Trials, Stride, TimingTargets, Patterns,
        TimingTrials, StateBytes} \subseteq Nat \ {0}
    /\ 0 \in Times
    /\ Times \subseteq Nat
    /\ Profiles \subseteq [peak_heap : Nat, allocations_per_hash : Nat]
    /\ MaxOdd \in Nat

VARIABLES
    mode,
    pc,          \* the loop the program is in, or "main", "judge", "exited"
    buffer,      \* the input buffer, or the patterns, are allocated
    trial,       \* the loop counters, from 0
    position,    \* a case, a slot or a pattern
    target,      \* used in the timing check
    expected,    \* profiles by case: [peak_heap, allocations_per_hash]
    samples,     \* times by case or pattern, and trial
    stream_peak,
    verdict,     \* profiles_equal of this target, ok of the timing check
    rows,        \* printed rows: [case, seconds, profile]
    exit_code,
    seen,        \* the profiles the trials measured, by case or target
    odd          \* measurements that were not as usual

programVars == <<mode, pc, buffer, trial, position, target, expected, samples,
                 stream_peak, verdict, rows, exit_code, seen, odd>>

-----------------------------------------------------------------------------

TargetCount == IF mode = "peers" THEN Len(Kinds) ELSE BaselineTargets
LengthCount == IF mode = "quick" THEN QuickLengths ELSE FullLengths
CaseCount == TargetCount * LengthCount

\* Cases are numbered by target, then length.
KindOf(case) == Kinds[(case \div LengthCount) + 1]

\* The arrays are not initialised: a cell is the set of what was written.
Unwritten == {}
The(cell) == CHOOSE value \in cell : TRUE

\* What measure may report: a time and a profile.  A measurement as usual
\* takes time and repeats the profile the case had before.
Measured(usual) ==
    {m \in [seconds : Times, profile : Profiles] :
        (m.seconds = Max(Times) /\ m.profile = usual) \/ odd < MaxOdd}

Oddness(m, usual) ==
    IF m.seconds = Max(Times) /\ m.profile = usual THEN odd ELSE odd + 1

Nominal(kind) ==
    CASE kind = "one-shot" ->
             [peak_heap |-> StateBytes, allocations_per_hash |-> 1]
      [] kind = "stream" ->
             [peak_heap |-> Max({p.peak_heap : p \in Profiles}),
              allocations_per_hash |-> 1]
      [] kind = "peer" -> [peak_heap |-> 0, allocations_per_hash |-> 0]

\* qsort: the times in ascending order.
InOrder(times) ==
    LET indices == 1..Len(times)
        order == CHOOSE p \in Bijection(indices, indices) :
                     \A a, b \in indices : a < b => times[p[a]] <= times[p[b]]
    IN [n \in indices |-> times[order[n]]]

\* The element in the middle of the sorted trials.
Median(times) == InOrder(times)[(Len(times) \div 2) + 1]

TimesOf(line, count) == [t \in 1..count |-> The(samples[line][t - 1])]

Unsampled(lines, count) ==
    [l \in 0..(lines - 1) |-> [t \in 0..(count - 1) |-> Unwritten]]

ProgramInit ==
    /\ mode \in Modes
    /\ pc = "main"
    /\ buffer = FALSE
    /\ trial = 0 /\ position = 0 /\ target = 0
    /\ expected = << >>
    /\ samples = << >>
    /\ stream_peak = 0
    /\ verdict = [equal |-> TRUE, ok |-> TRUE]
    /\ rows = << >>
    /\ exit_code = 0
    /\ seen = {}
    /\ odd = 0

Exit(code) ==
    /\ exit_code' = code
    /\ pc' = "exited"

\* free(buffer) in main, free(patterns) in run_timing_check: every return
\* behind the allocation has its own call.
FreeBuffer == buffer' = FALSE

\* main, up to the first measurement.
Main(memory) ==
    /\ pc = "main"
    /\ IF mode \in {"usage", "peer-version"}
       THEN /\ Exit(IF mode = "usage" THEN 2 ELSE 0)
            /\ UNCHANGED <<buffer, expected, samples>>
       ELSE IF ~memory
       THEN Exit(1) /\ UNCHANGED <<buffer, expected, samples>>
       ELSE /\ buffer' = TRUE
            /\ UNCHANGED exit_code
            /\ expected' = [c \in 0..(CaseCount - 1) |-> Unwritten]
            /\ CASE mode = "timing" ->
                        /\ pc' = "timing warmup"
                        /\ samples' = Unsampled(Patterns, TimingTrials)
                 [] mode \in {"baseline", "peers"} ->
                        /\ pc' = "warmup"
                        /\ samples' = Unsampled(CaseCount, Trials)
                 [] OTHER ->
                        pc' = "cases" /\ UNCHANGED samples
    /\ UNCHANGED <<mode, trial, position, target, stream_peak, verdict, rows,
                   seen, odd>>

\* The vectors of the peers are checked before anything is allocated.
PeersDiffer ==
    /\ pc = "main"
    /\ mode = "peers"
    /\ Exit(1)
    /\ UNCHANGED <<mode, buffer, trial, position, target, expected, samples,
                   stream_peak, verdict, rows, seen, odd>>

\* run_baseline_profile returns to main, which frees the buffer whatever the
\* result.
ReturnProfile(code) == Exit(code) /\ FreeBuffer

\* A measurement fails in one of the loops of the baseline profile.
ProfileFails ==
    /\ pc \in {"warmup", "trials"}
    /\ ReturnProfile(1)

\* A case that is not measured, or not as it should be, ends the program.
RejectCase ==
    /\ pc = "cases"
    /\ Exit(1)
    /\ FreeBuffer

TimingWarmupFails ==
    /\ pc = "timing warmup"
    /\ Exit(1)
    /\ FreeBuffer

\* Mutant: the return from the loop over trials, alone, does not free.
TimingFailsKeeps ==
    /\ pc = "timing"
    /\ Exit(1)
    /\ UNCHANGED buffer

TimingFails ==
    /\ pc = "timing"
    /\ Exit(1)
    /\ FreeBuffer

\* A measurement may fail in any of the loops.
MeasureFails ==
    /\ ProfileFails \/ RejectCase \/ TimingWarmupFails \/ TimingFails
    /\ UNCHANGED <<mode, trial, position, target, expected, samples,
                   stream_peak, verdict, rows, seen, odd>>

\* Mutant: the warmup starts over behind its last case.
WarmupAgain ==
    /\ pc = "warmup"
    /\ \E m \in Measured(Nominal(KindOf(position))) :
           /\ expected' = [expected EXCEPT ![position] = {m.profile}]
           /\ odd' = Oddness(m, Nominal(KindOf(position)))
    /\ position' = (position + 1) % CaseCount
    /\ UNCHANGED <<mode, pc, buffer, trial, target, samples, stream_peak,
                   verdict, rows, exit_code, seen>>

\* The one warmup of a case sets the profile its trials must repeat.
Warmup ==
    /\ pc = "warmup"
    /\ \E m \in Measured(Nominal(KindOf(position))) :
           /\ expected' = [expected EXCEPT ![position] = {m.profile}]
           /\ odd' = Oddness(m, Nominal(KindOf(position)))
    /\ IF position + 1 < CaseCount
       THEN position' = position + 1 /\ UNCHANGED pc
       ELSE position' = 0 /\ pc' = "trials"
    /\ UNCHANGED <<mode, buffer, trial, target, samples, stream_peak, verdict,
                   rows, exit_code, seen>>

\* Mutant: the rotation is not taken modulo the number of cases.
CappedRotation(p, t) ==
    IF p + t * Stride < CaseCount THEN p + t * Stride ELSE CaseCount - 1

\* Each trial visits the cases in another order.
Rotation(p, t) == (p + t * Stride) % CaseCount

\* A trial of a case must repeat its profile; its time is a sample.
Trial ==
    LET case == Rotation(position, trial) IN
    /\ pc = "trials"
    /\ \E m \in Measured(The(expected[case])) :
           /\ odd' = Oddness(m, The(expected[case]))
           /\ seen' = seen \cup {<<case, m.profile>>}
           /\ IF m.profile \notin expected[case]
              THEN ReturnProfile(1) /\ UNCHANGED <<samples, position, trial>>
              ELSE /\ samples' = [samples EXCEPT ![case][trial] = {m.seconds}]
                   /\ UNCHANGED <<buffer, exit_code>>
                   /\ IF position + 1 < CaseCount
                      THEN position' = position + 1 /\ UNCHANGED <<pc, trial>>
                      ELSE /\ position' = 0
                           /\ IF trial + 1 < Trials
                              THEN trial' = trial + 1 /\ UNCHANGED pc
                              ELSE trial' = 0 /\ pc' = "report"
    /\ UNCHANGED <<mode, target, expected, stream_peak, verdict, rows>>

-----------------------------------------------------------------------------

\* validate_scaling: one root state per one-shot hash, one context per
\* stream, and the same peak for every stream at every length.
ScalingValid(kind, profile) ==
    \/ kind = "peer"
    \/ /\ kind = "one-shot"
       /\ profile = [peak_heap |-> StateBytes, allocations_per_hash |-> 1]
    \/ /\ kind = "stream"
       /\ profile.allocations_per_hash = 1
       /\ profile.peak_heap # 0
       /\ stream_peak \in {0, profile.peak_heap}

\* Print the row of a case that passed.  The first peak of a stream is the
\* one the others must have.
PrintRow(seconds, profile) ==
    /\ stream_peak' = IF KindOf(position) = "stream" /\ stream_peak = 0
                      THEN profile.peak_heap ELSE stream_peak
    /\ rows' = Append(rows, [case |-> position, seconds |-> seconds,
                             profile |-> profile])

NextCase ==
    /\ position + 1 < CaseCount
    /\ position' = position + 1
    /\ UNCHANGED <<pc, buffer, exit_code>>

AfterLastCase ==
    /\ position + 1 = CaseCount
    /\ UNCHANGED position

NoRow == UNCHANGED <<stream_peak, rows, position>>

Report ==
    LET seconds == Median(TimesOf(position, Trials))
        profile == The(expected[position])
    IN
    /\ pc = "report"
    /\ IF seconds > 0 /\ ScalingValid(KindOf(position), profile)
       THEN /\ PrintRow(seconds, profile)
            /\ NextCase \/ (AfterLastCase /\ ReturnProfile(0))
       ELSE ReturnProfile(1) /\ NoRow
    /\ UNCHANGED <<mode, trial, target, expected, samples, verdict, seen, odd>>

\* main returns behind its last row.
MainReturns ==
    /\ AfterLastCase
    /\ Exit(0)
    /\ FreeBuffer

\* Without a profile mode, each case is measured once and printed.
Case ==
    LET usual == Nominal(KindOf(position)) IN
    /\ pc = "cases"
    /\ \E m \in Measured(usual) :
           /\ odd' = Oddness(m, usual)
           /\ seen' = seen \cup {<<position, m.profile>>}
           /\ IF ScalingValid(KindOf(position), m.profile)
              THEN /\ PrintRow(m.seconds, m.profile)
                   /\ NextCase \/ MainReturns
              ELSE RejectCase /\ NoRow
    /\ UNCHANGED <<mode, trial, target, expected, samples, verdict>>

-----------------------------------------------------------------------------

\* run_timing_check warms a target up on every pattern.
TimingWarmup ==
    /\ pc = "timing warmup"
    /\ IF position + 1 < Patterns
       THEN position' = position + 1 /\ UNCHANGED <<pc, verdict, expected>>
       ELSE /\ position' = 0
            /\ pc' = "timing"
            /\ verdict' = [verdict EXCEPT !.equal = TRUE]
            /\ expected' = [expected EXCEPT ![0] = Unwritten]
    /\ UNCHANGED <<mode, buffer, trial, target, samples, stream_peak, rows,
                   exit_code, seen, odd>>

PatternOf(slot, t) == (slot + t) % Patterns

EqualSoFar(profile) == verdict.equal /\ profile \in expected[0]

\* The first measurement of a target sets the profile the others must have.
TimingMeasure ==
    LET pattern == PatternOf(position, trial)
        first   == trial = 0 /\ position = 0
        usual   == IF first THEN Nominal("one-shot") ELSE The(expected[0])
    IN
    /\ pc = "timing"
    /\ \E m \in Measured(usual) :
           /\ odd' = Oddness(m, usual)
           /\ seen' = seen \cup {<<target, m.profile>>}
           /\ samples' = [samples EXCEPT ![pattern][trial] = {m.seconds}]
           /\ IF first
              THEN /\ expected' = [expected EXCEPT ![0] = {m.profile}]
                   /\ UNCHANGED verdict
              ELSE /\ verdict' = [verdict EXCEPT !.equal =
                                     EqualSoFar(m.profile)]
                   /\ UNCHANGED expected
    /\ IF position + 1 < Patterns
       THEN position' = position + 1 /\ UNCHANGED <<pc, trial>>
       ELSE /\ position' = 0
            /\ IF trial + 1 < TimingTrials
               THEN trial' = trial + 1 /\ UNCHANGED pc
               ELSE trial' = 0 /\ pc' = "judge"
    /\ UNCHANGED <<mode, buffer, target, stream_peak, rows, exit_code>>

Medians == {Median(TimesOf(p, TimingTrials)) : p \in 0..(Patterns - 1)}

\* The medians over the patterns may differ by half at most, TIMING_RATIO_LIMIT.
TargetOk == /\ verdict.equal
            /\ Min(Medians) > 0
            /\ 2 * Max(Medians) <= 3 * Min(Medians)

\* A target that fails does not stop the others; each has its own samples.
Judge ==
    /\ pc = "judge"
    /\ verdict' = [verdict EXCEPT !.ok = verdict.ok /\ TargetOk]
    /\ IF target + 1 < TimingTargets
       THEN /\ target' = target + 1
            /\ pc' = "timing warmup"
            /\ samples' = Unsampled(Patterns, TimingTrials)
            /\ UNCHANGED <<buffer, exit_code>>
       ELSE /\ Exit(IF verdict'.ok THEN 0 ELSE 1)
            /\ FreeBuffer
            /\ UNCHANGED <<target, samples>>
    /\ UNCHANGED <<mode, trial, position, expected, stream_peak, rows, seen,
                   odd>>

ProgramStep ==
    \/ \E memory \in BOOLEAN : Main(memory)
    \/ PeersDiffer \/ MeasureFails
    \/ Warmup \/ Trial \/ Report \/ Case
    \/ TimingWarmup \/ TimingMeasure \/ Judge

-----------------------------------------------------------------------------

\* Neither the samples nor the expected profiles are initialised where they
\* are declared: each must have been written before it is compared or sorted,
\* for every order in which the rotation visits the cases.
ReadsOnlyWritten ==
    /\ pc = "trials" => expected[Rotation(position, trial)] # Unwritten
    /\ pc = "report" =>
           /\ expected[position] # Unwritten
           /\ \A t \in 0..(Trials - 1) : samples[position][t] # Unwritten
    /\ pc = "judge" =>
           \A p \in 0..(Patterns - 1), t \in 0..(TimingTrials - 1) :
               samples[p][t] # Unwritten

\* A run with exit code 0 printed each case once and in order, each row with
\* the one profile all its trials had; one-shot hashes took one root state,
\* and the streams one context of the same size at every length.
ExitZeroMeansScaling ==
    pc = "exited" /\ exit_code = 0 /\ mode \in {"full", "quick", "baseline",
                                                "peers"} =>
        /\ Len(rows) = CaseCount
        /\ \A n \in 1..Len(rows) :
               /\ rows[n].case = n - 1
               /\ \A s \in seen : s[1] = n - 1 => s[2] = rows[n].profile
               /\ KindOf(n - 1) = "one-shot" =>
                      rows[n].profile = [peak_heap |-> StateBytes,
                                         allocations_per_hash |-> 1]
        /\ \A n, m \in 1..Len(rows) :
               KindOf(n - 1) = "stream" /\ KindOf(m - 1) = "stream" =>
                   /\ rows[n].profile = rows[m].profile
                   /\ rows[n].profile.allocations_per_hash = 1

\* The timing check passes only when every target had one profile over all
\* patterns and trials: no later pattern or target hides an earlier one.
TimingPassIsUniform ==
    pc = "exited" /\ exit_code = 0 /\ mode = "timing" =>
        \A t \in 0..(TimingTargets - 1) :
            Cardinality({s \in seen : s[1] = t}) = 1

\* A row's time is positive and a median: half of the trials, rounded up,
\* took no longer, and as many took no less.
RowsAreMedians ==
    mode \in {"baseline", "peers"} =>
        \A n \in 1..Len(rows) :
            LET Time(t)  == The(samples[rows[n].case][t])
                NoLonger == {t \in 0..(Trials - 1) : Time(t) <= rows[n].seconds}
                NoLess   == {t \in 0..(Trials - 1) : Time(t) >= rows[n].seconds}
                Half     == (Trials + 1) \div 2
            IN
            /\ rows[n].seconds > 0
            /\ Cardinality(NoLonger) >= Half
            /\ Cardinality(NoLess) >= Half

\* However the program ends, it has given its buffer back.
BufferFreed == pc = "exited" => ~buffer
=============================================================================
