------------------------------- MODULE Bench -------------------------------
(***************************************************************************)
(* The three machines of the benchmark, each from its own initial states:   *)
(* measure over the tracking allocator, a stream hash function under       *)
(* measurement, and the program that turns measurements into rows.  They   *)
(* meet in what measure reports and in what a hash function holds when it  *)
(* returns, so a behaviour is one of one machine.                          *)
(***************************************************************************)
EXTENDS BenchMeasure, BenchStream, Benchmark

VARIABLE part    \* the machine: "measure", "stream" or "program"

ASSUME BenchAssumption ==
    MeasureAssumption /\ BenchStreamAssumption /\ BenchmarkAssumption

vars == <<part, measureVars, streamVars, programVars>>

\* The variables of a machine that does not run.
NoMeasure ==
    /\ allocation_current = 0 /\ allocation_peak = 0 /\ allocation_calls = 0
    /\ allocation_error = 0 /\ live = 0 /\ measure_pc = "idle"
    /\ iterations = 0 /\ i = 0 /\ result = 0 /\ measures = 0 /\ highest = 0 /\ leaked = 0

NoStream ==
    /\ variant = 0 /\ message = 0 /\ phase = 0 /\ absorbed = 0 /\ last = 0
    /\ length = 0 /\ chunk_size = 0 /\ offset = 0 /\ ok = 0
    /\ stream_pc = "idle"

NoProgram ==
    /\ mode = 0 /\ pc = "idle" /\ buffer = 0 /\ trial = 0 /\ position = 0
    /\ target = 0
    /\ expected = 0 /\ samples = 0 /\ stream_peak = 0 /\ verdict = 0
    /\ rows = 0 /\ exit_code = 0 /\ seen = 0 /\ odd = 0

Init ==
    \/ part = "measure" /\ MeasureInit /\ NoStream /\ NoProgram
    \/ part = "stream"  /\ StreamInit /\ NoMeasure /\ NoProgram
    \/ part = "program" /\ ProgramInit /\ NoMeasure /\ NoStream

Measure == /\ part = "measure" /\ MeasureNext
           /\ UNCHANGED <<part, streamVars, programVars>>

Stream == /\ part = "stream" /\ StreamStep
          /\ UNCHANGED <<part, measureVars, programVars>>

Program == /\ part = "program" /\ ProgramStep
           /\ UNCHANGED <<part, measureVars, streamVars>>

Ended ==
    /\ \/ measure_pc = "stopped"
       \/ stream_pc = "returned"
       \/ pc = "exited"
    /\ UNCHANGED vars

Next == Measure \/ Stream \/ Program \/ Ended

Spec == Init /\ [][Next]_vars /\ WF_vars(Stream) /\ WF_vars(Program)

-----------------------------------------------------------------------------

\* The counters of the tracking allocator are exact, whatever requests were
\* refused, and are never reset while a block is live.
CountersTell ==
    part = "measure" => MeasureTypeOK /\ AccountingExact /\ NothingLiveAtReset

\* A hash function that leaves bytes behind, even between two of its runs, is
\* never reported, and a reported profile accounts for every call.
ReportIsClean == part = "measure" => ProfileIsClean

\* Nothing uninitialised is compared or sorted, whatever order the trials
\* visit the cases in; a row is a median with the one profile of its case, and
\* exit code 0 means what the notes say of allocations.
RowsTell ==
    part = "program" =>
        /\ ReadsOnlyWritten
        /\ RowsAreMedians
        /\ ExitZeroMeansScaling
        /\ TimingPassIsUniform

\* A stream hash function hashes the whole input or fails for a cause, and
\* gives its context back; the program gives its buffer back.
AllGivenBack ==
    /\ part = "stream" =>
           WholeInputHashed /\ ContextFreed /\ FailsOnlyForCause
    /\ part = "program" => BufferFreed

\* A stream hash function returns, and the program ends in every mode.
Terminates ==
    part \in {"stream", "program"} ~> stream_pc = "returned" \/ pc = "exited"
=============================================================================
