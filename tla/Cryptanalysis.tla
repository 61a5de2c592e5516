--------------------------- MODULE Cryptanalysis ---------------------------
(***************************************************************************)
(* The program fch_cryptanalysis (src/analysis/fch_cryptanalysis.c):        *)
(* fourteen checks of the compression function one after the other,        *)
(* whatever the earlier ones returned.  A check compares pairs of outputs,  *)
(* prints a line for every number of rounds it tries, and passes when all   *)
(* its lines are good.  What the function returns is the environment's     *)
(* choice: a usual pair of outputs, or an odd one, but equal inputs always  *)
(* give equal outputs.                                                     *)
(***************************************************************************)
EXTENDS TrailSearch, MatchSearch

CONSTANTS
    MixRounds,                  \* FCH_MIX_ROUNDS
    ReducedRounds,              \* FCH_MIX_REDUCED_ROUND_REFERENCE
    Samples,                    \* *_SAMPLES of the checks of pairs
    Bases,                      \* REDUCED_BASES, TRAIL_BASES
    RoundtripSamples,
    ReboundCandidates,
    ProjectionLimit,            \* accepted count of a projection: 1 %
    MitmCandidates, MitmTarget, MitmPairLimit,
    OutputCandidates, OutputTarget, OutputLimit, OutputPairLimit,
    OutputBucketLimit,
    TableStates,                \* the states and outputs of these searches
    FixedPointSamples, NearSamples,
    MaxOdd, MaxOddTrails,       \* bounds on the odd pairs in one line
    OddRounds                   \* and the rounds they have in the trail search

ASSUME CryptanalysisAssumption ==
    /\ {MixRounds, ReducedRounds, Samples, Bases, RoundtripSamples,
        ReboundCandidates, MitmCandidates, OutputCandidates,
        FixedPointSamples, NearSamples} \subseteq Nat \ {0}
    /\ {ProjectionLimit, MitmPairLimit, OutputLimit, OutputPairLimit,
        OutputBucketLimit, MitmTarget, OutputTarget} \subseteq Nat
    \* mix.h: 16 rounds, and 8 of them to compare with.
    /\ MixRounds = 16 /\ ReducedRounds \in 2..(MixRounds - 1)
    /\ ProjectionLimit > 0
    /\ \A s \in TableStates : s.key \in Nat
    /\ MitmCandidates <= ByteValues * MaskValues
    /\ ReboundCandidates <= ByteValues * MaskValues
    /\ OutputCandidates <= ByteValues * ByteValues
    /\ MitmTarget < MitmCandidates /\ OutputTarget < OutputCandidates
    /\ OddRounds \subseteq 1..MixRounds

VARIABLES
    check,       \* its place in Checks, or one past the last
    line,        \* the line it is about to print, or one past the last
    step,        \* the comparisons made for it
    stats,       \* what it counts
    taken,       \* ghost: what was compared for it
    all_ok,      \* of the check
    bad,         \* ghost: a line of the check is FAIL
    odd,         \* ghost: an output or an average was out of the ordinary
    ok,          \* of main
    exit_code    \* or 0 while it runs

vars == <<check, line, step, stats, taken, all_ok, bad, odd, ok, exit_code>>

Checks ==
    << "differential_bias", "linear_correlation", "reduced_round",
       "trail_search", "rotational_pair", "additive_differential",
       "differential_probability", "related_context", "roundtrip", "rebound",
       "mitm", "output_only", "fixed_point", "near_collision" >>

Name == Checks[check]

In(names) == check \in DOMAIN Checks /\ Name \in names

\* The rounds of each line.  mitm splits its rounds at MitmSplits, rebound in
\* half.  trail_search prints all its lines at once.
LineRounds(name) ==
    CASE name \in {"differential_bias", "linear_correlation"} ->
             << ReducedRounds, MixRounds >>
      [] name = "reduced_round" -> [r \in 1..MixRounds |-> r]
      [] name \in {"rotational_pair", "additive_differential",
                   "differential_probability", "related_context"} ->
             << 1, 2, 4, ReducedRounds, MixRounds >>
      [] name = "rebound" -> << 4, 8, 16 >>
      [] name = "mitm" -> << 8, 16, 16, 16, 16, 16 >>
      [] name = "output_only" -> << 4, ReducedRounds, MixRounds >>
      [] OTHER -> << MixRounds >>

MitmSplits == << 4, 1, 4, 8, 12, 15 >>

Rounds == LineRounds(Name)[line]

AllPrinted == line > Len(LineRounds(Name))

FixedRounds == << 4, ReducedRounds, MixRounds >>

Cases(name) ==
    CASE name = "differential_bias" -> Len(DifferentialBits)
      [] name = "reduced_round" -> Bases
      [] name = "rotational_pair" -> Len(RotationAmounts)
      [] name = "additive_differential" -> Len(Deltas)
      [] name = "differential_probability" -> Len(CharacteristicBits)
      [] name = "related_context" -> Len(RelatedContexts)
      [] OTHER -> 1

\* The steps of a line.
Comparisons(name) ==
    CASE name = "trail_search" ->
             Bases * Cardinality(Patterns) * Cardinality(Bits)
      [] name = "roundtrip" -> 6 * RoundtripSamples
      [] name = "rebound" -> ReboundCandidates - 1
      [] name = "fixed_point" -> (Len(FixedRounds) + 2) * FixedPointSamples
      [] name \in {"mitm", "output_only", "near_collision"} -> 1
      [] OTHER -> Cases(name) * Samples

Reports == {1, 2, 4, 8, 12, 16}          \* report_rounds

TrailRounds == 16

NoBuckets == [v \in 0..(Samples - 1) |-> 0]

\* What a line starts to count from.
FreshStats(name) ==
    CASE name = "differential_probability" ->
             [maximum_count |-> 0, zero_differences |-> 0,
              buckets |-> NoBuckets]
      [] name = "trail_search" ->
             [all |-> [r \in 1..MixRounds |-> EmptyStats(512, 8)],
              of  |-> [p \in Patterns |->
                          [r \in 1..MixRounds |-> EmptyStats(512, 8)]]]
      [] name = "rebound" ->
             [middle |-> EmptyStats(1024, 16), low_middle |-> 0,
              end |-> EmptyStats(1024, 16)]
      [] name = "roundtrip" -> [windows |-> 0, outputs |-> 0]
      [] name = "fixed_point" ->
             [core_fixed |-> 0, core_two_cycles |-> 0,
              hash_fixed |-> 0, hash_two_cycles |-> 0]
      [] OTHER -> EmptyStats(512, 8)

Init ==
    /\ check = 1 /\ line = 1 /\ step = 0
    /\ stats = FreshStats(Checks[1]) /\ taken = << >>
    /\ all_ok = TRUE /\ bad = FALSE /\ odd = FALSE
    /\ ok = TRUE /\ exit_code = 0

\* A check returns, and main calls the next or exits.
Return(passed) ==
    /\ check' = check + 1 /\ line' = 1 /\ step' = 0 /\ taken' = << >>
    /\ stats' = IF check < Len(Checks)
                THEN FreshStats(Checks[check + 1]) ELSE << >>
    /\ all_ok' = TRUE /\ bad' = FALSE
    /\ ok' = (ok /\ passed)
    /\ exit_code' = IF check < Len(Checks) \/ ok' THEN 0 ELSE 1

\* Mutant: the last line decides.
LastLineDecides(so_far, good) == good

AllOk(so_far, good) == so_far /\ good

\* lines: what is printed is not FAIL; rest: what the check asks besides.
PrintLines(lines, rest) ==
    /\ line' = line + 1 /\ step' = 0 /\ taken' = << >>
    /\ stats' = FreshStats(Name)
    /\ all_ok' = AllOk(all_ok, lines /\ rest)
    /\ bad' = (bad \/ ~lines)
    /\ UNCHANGED <<check, ok, exit_code>>

PrintLine(good) == PrintLines(good, TRUE)

\* One comparison: what was compared and what is counted now.
Compare(seen, counted, unusual) ==
    /\ step' = step + 1
    /\ taken' = Append(taken, seen)
    /\ stats' = counted
    /\ odd' = (odd \/ unusual)
    /\ UNCHANGED <<check, line, all_ok, bad, ok, exit_code>>

Comparing(names) ==
    /\ In(names) /\ ~AllPrinted
    /\ step < Comparisons(Name)

Reporting(names) ==
    /\ In(names) /\ ~AllPrinted
    /\ step = Comparisons(Name)

\* fch_mix_compress_rounds, fch_mix_test_forward and fch_mix_test_inverse
\* refuse these.
CoreTakes(rounds) == rounds \in 1..MixRounds

WindowTaken(first, count) ==
    count > 0 /\ first < MixRounds /\ count <= MixRounds - first

\* After the last line.
ReturnAll ==
    /\ In(ToSet(Checks)) /\ AllPrinted
    /\ Return(all_ok)
    /\ UNCHANGED odd

-----------------------------------------------------------------------------
(* Checks of pairs: the weight of the difference of two outputs and the words *)
(* that differ.                                                            *)

Pair(weight, active) == [weight |-> weight, active |-> active]

Usual(rounds) == Pair(IF rounds = 1 THEN 120 ELSE 256, 8)

Unusual == {Pair(0, 0), Pair(60, 7), Pair(400, 8)}

PairChecks == {"differential_bias", "reduced_round", "rotational_pair",
               "additive_differential", "related_context"}

\* Where the comparison `step` of a check is in its loops.
Case   == step \div Samples
Sample == step % Samples

\* The pairs two inputs may give, when `oddities` were met in this line.
Outputs(inputs, rounds, oddities) ==
    IF inputs[1] = inputs[2] THEN {Pair(0, 0)}
    ELSE {Usual(rounds)} \cup (IF oddities < MaxOdd THEN Unusual ELSE {})

Oddities == Cardinality({i \in DOMAIN taken : taken[i] # Usual(Rounds)})

OddPair(pair, inputs) == pair # Usual(Rounds) /\ inputs[1] # inputs[2]

CountPair(pair, inputs) ==
    Compare(pair, Record(stats, pair, <<Case, 0, Sample, 0>>),
            OddPair(pair, inputs))

ComparePair(name, inputs) ==
    /\ Comparing({name})
    /\ IF ~CoreTakes(Rounds) THEN Return(FALSE) /\ UNCHANGED odd
       ELSE \E pair \in Outputs(inputs, Rounds, Oddities) :
                CountPair(pair, inputs)

\* even: averages and biases are in their limits.
ReportPairs(name, Good(_, _)) ==
    /\ Reporting({name})
    /\ \E even \in BOOLEAN : odd' = (odd \/ ~even) /\ PrintLine(Good(stats, even))

Near(s, even) ==
    even /\ s.minimum_weight >= 160 /\ s.minimum_active_words = 8

\* Weak lines are good lines of a single round.
Weak(s, even) == s.zero_differences = 0 /\ (Rounds = 1 \/ Near(s, even))

\* differential_bias_check, which returns at once when outputs are equal.
DifferentialBias ==
    LET inputs == << {}, {DifferentialBits[Case + 1]} >> IN
    \/ /\ Comparing({"differential_bias"})
       /\ IF ~CoreTakes(Rounds) THEN Return(FALSE) /\ UNCHANGED odd
          ELSE \E pair \in Outputs(inputs, Rounds, Oddities) :
                   IF pair.weight = 0
                   THEN /\ odd' = (odd \/ OddPair(pair, inputs))
                        /\ Return(FALSE)
                   ELSE CountPair(pair, inputs)
    \/ ReportPairs("differential_bias",
                   LAMBDA s, even : /\ even /\ s.minimum_weight >= 160
                                    /\ s.maximum_weight <= 352)

\* reduced_round_search: Case is a base, Sample the bit that is changed.
ReducedRoundSearch ==
    \/ ComparePair("reduced_round", << {}, {Sample} >>)
    \/ ReportPairs("reduced_round",
                   LAMBDA s, even :
                       /\ s.zero_differences = 0
                       /\ Rounds >= 2 => even /\ s.minimum_weight >= 160)

RotationalPair ==
    \/ ComparePair("rotational_pair", << 0, RotationAmounts[Case + 1] % 64 >>)
    \/ ReportPairs("rotational_pair", Weak)

AdditiveDifferential ==
    \/ ComparePair("additive_differential", << {}, Deltas[Case + 1] >>)
    \/ ReportPairs("additive_differential", Weak)

RelatedContext ==
    \/ ComparePair("related_context", RelatedContexts[Case + 1])
    \/ ReportPairs("related_context", Weak)

\* linear_correlation_check: only the correlations of all samples matter.
CheckLinear ==
    \/ /\ Comparing({"linear_correlation"})
       /\ IF CoreTakes(Rounds) THEN Compare("sample", stats, FALSE)
          ELSE Return(FALSE) /\ UNCHANGED odd
    \/ /\ Reporting({"linear_correlation"})
       /\ \E even \in BOOLEAN : odd' = (odd \/ ~even) /\ PrintLine(even)

\* differential_probability_check, with one of its four projections: how often
\* each value of it is met in the samples of one characteristic.  Usually all
\* the values are different.
CountProjection(value, zero) ==
    LET before  == IF Sample = 0 THEN NoBuckets ELSE stats.buckets
        buckets == [before EXCEPT ![value] = @ + 1]
        most    == Max(Range(buckets))
    IN
    [maximum_count |-> IF Sample = Samples - 1 /\ most > stats.maximum_count
                       THEN most ELSE stats.maximum_count,
     zero_differences |-> stats.zero_differences + (IF zero THEN 1 ELSE 0),
     buckets |-> buckets]

OddProjections ==
    Cardinality({i \in DOMAIN taken :
                    taken[i].zero \/ taken[i].value # (i - 1) % Samples})

CheckProbability ==
    \/ /\ Comparing({"differential_probability"})
       /\ IF ~CoreTakes(Rounds) THEN Return(FALSE) /\ UNCHANGED odd
          ELSE \E value \in {0, Sample}, zero \in BOOLEAN :
                 /\ Characteristic(Case) = {} => zero
                 /\ (zero \/ value # Sample) => OddProjections < MaxOdd
                 /\ Compare([value |-> value, zero |-> zero],
                            CountProjection(value, zero),
                            \/ value # Sample
                            \/ zero /\ Characteristic(Case) # {})
    \/ /\ Reporting({"differential_probability"})
       /\ PrintLine(/\ stats.zero_differences = 0
                    /\ Rounds = 1 \/ stats.maximum_count <= ProjectionLimit)
       /\ UNCHANGED odd

-----------------------------------------------------------------------------
(* reduced_round_trail_search *)

TrailBase == step \div (Cardinality(Patterns) * Cardinality(Bits))
TrailPattern == (step \div Cardinality(Bits)) % Cardinality(Patterns)
TrailBit == step % Cardinality(Bits)

UsualTrail == [r \in 1..MixRounds |-> Usual(r)]

OddTrails ==
    Cardinality({<<t.base, t.difference>> :
                    t \in {u \in ToSet(taken) : u.pairs # UsualTrail}})

\* Also enough for the line of its rounds and too little for the gain.
UnusualTrail == Unusual \cup {Pair(200, 8)}

\* The pairs of a trail, one for each number of rounds: what they were when
\* the same blocks were compared before.
Trails(base, difference) ==
    LET before == {t \in ToSet(taken) :
                      t.base = base /\ t.difference = difference}
    IN
    IF difference = {} THEN {[r \in 1..MixRounds |-> Pair(0, 0)]}
    ELSE IF before # {} THEN {t.pairs : t \in before}
    ELSE {UsualTrail} \cup
         (IF OddTrails < MaxOddTrails
          THEN {[UsualTrail EXCEPT ![r] = p] : r \in OddRounds, p \in UnusualTrail}
          ELSE {})

RecordTrail(pairs, place) ==
    [all |-> [r \in 1..MixRounds |-> Record(stats.all[r], pairs[r], place)],
     of  |-> [stats.of EXCEPT ![place[2]] =
                 [r \in 1..MixRounds |-> Record(@[r], pairs[r], place)]]]

CompareTrail ==
    /\ Comparing({"trail_search"})
    /\ IF MixRounds # TrailRounds \/ ReducedRounds >= TrailRounds
       THEN Return(FALSE) /\ UNCHANGED odd
       ELSE LET bit_b      == PairedBit(TrailBit, TrailPattern)
                difference == TrailDifference(TrailPattern, TrailBit, bit_b)
            IN
            \E pairs \in Trails(TrailBase, difference) :
                Compare([base |-> TrailBase, pattern |-> TrailPattern,
                         difference |-> difference, pairs |-> pairs],
                        RecordTrail(pairs, <<TrailBase, TrailPattern,
                                             TrailBit, bit_b>>),
                        difference # {} /\ pairs # UsualTrail)

GoodTrail(s, rounds, even) ==
    s.zero_differences = 0 /\ (rounds >= 2 => Near(s, even))

\* The lines of the rounds and of the patterns, of one of which an average
\* may be off, and the gain over all the rounds, which no line tells.
ReportTrails ==
    /\ Reporting({"trail_search"})
    /\ \E even \in BOOLEAN :
           /\ odd' = (odd \/ ~even)
           /\ PrintLines(
                  /\ \A r \in 1..MixRounds : GoodTrail(stats.all[r], r, even)
                  /\ \A p \in Patterns, r \in Reports :
                         GoodTrail(stats.of[p][r], r, TRUE),
                  stats.all[MixRounds].minimum_weight
                         >= stats.all[1].minimum_weight + 128)

\* What print_best_trail compares again.
BestDifference(best) == TrailDifference(best[2], best[3], best[4])

-----------------------------------------------------------------------------
(* mix_roundtrip_check, rebound_screen and mitm_screen *)

Windows == {w \in (0..(MixRounds - 1)) \X (1..MixRounds) : w[1] < w[2]}

\* That rounds are undone, and outputs rebuilt from the work state, is what
\* MixRounds shows of them.
CheckRoundtrip ==
    \/ /\ Comparing({"roundtrip"})
       /\ IF \A w \in Windows : WindowTaken(w[1], w[2] - w[1])
          THEN Compare("sample",
                       [windows |-> stats.windows + Cardinality(Windows),
                        outputs |-> stats.outputs + MixRounds], FALSE)
          ELSE Return(FALSE) /\ UNCHANGED odd
    \/ /\ Reporting({"roundtrip"}) /\ PrintLine(TRUE) /\ UNCHANGED odd

Wide == Pair(512, 16)        \* a usual pair of work states

WidePairs == {Wide, Pair(0, 0), Pair(256, 16), Pair(257, 15)}

CheckRebound ==
    \/ /\ Comparing({"rebound"})
       /\ LET split == Rounds \div 2
              same  == CandidateBlock(step + 1) = CandidateBlock(0)
          IN
          IF ~(WindowTaken(0, split) /\ WindowTaken(split, Rounds - split))
          THEN Return(FALSE) /\ UNCHANGED odd
          ELSE \E middle, end \in IF same THEN {Pair(0, 0)} ELSE WidePairs :
                   Compare([middle |-> middle, end |-> end],
                       [middle |-> Record(stats.middle, middle,
                                          <<0, 0, 0, 0>>),
                        low_middle |-> stats.low_middle
                            + (IF middle.weight <= 256 THEN 1 ELSE 0),
                        end |-> Record(stats.end, end, <<0, 0, 0, 0>>)],
                       ~same /\ {middle, end} # {Wide})
    \/ /\ Reporting({"rebound"})
       /\ PrintLine(/\ stats.middle.minimum_weight >= 256
                    /\ stats.end.minimum_weight >= 320
                    /\ stats.middle.minimum_active_words = 16
                    /\ stats.end.minimum_active_words = 16
                    /\ stats.low_middle = 0
                    /\ stats.middle.zero_differences = 0
                    /\ stats.end.zero_differences = 0)
       /\ UNCHANGED odd

\* What is computed from blocks is the same for the same block.
Computed(f, Block(_)) ==
    \A c, d \in DOMAIN f : Block(c) = Block(d) => f[c] = f[d]

\* Another pair of candidates meets in the middle, or too many nearly do.
OddJoin(forward, backward) ==
    \/ \E c, d \in DOMAIN forward :
           /\ forward[c] = backward[d]
           /\ {CandidateBlock(c), CandidateBlock(d)}
                  # {CandidateBlock(MitmTarget)}
    \/ Cardinality({p \in (DOMAIN forward) \X (DOMAIN backward) :
                       forward[p[1]].key = backward[p[2]].key}) > MitmPairLimit

\* Rounds undone from the target state with the target's message give what
\* the rounds before gave.  A case that is refused fails, and its line with
\* it, which is not printed; the cases after it are still tried.
CheckMitm ==
    \/ /\ Comparing({"mitm"})
       /\ LET split == MitmSplits[line] IN
          IF ~(/\ WindowTaken(0, Rounds) /\ WindowTaken(0, split)
               /\ WindowTaken(split, Rounds - split))
          THEN PrintLine(FALSE) /\ UNCHANGED odd
          ELSE \E forward, backward \in
                      [0..(MitmCandidates - 1) -> TableStates] :
                   /\ backward[MitmTarget] = forward[MitmTarget]
                   /\ Computed(forward, CandidateBlock)
                   /\ Computed(backward, CandidateBlock)
                   /\ Compare([forward |-> forward, backward |-> backward],
                              JoinOf(Table(forward), backward, MitmTarget),
                              OddJoin(forward, backward))
    \/ /\ Reporting({"mitm"})
       /\ PrintLine(/\ stats.prefix_pairs \in 1..MitmPairLimit
                    /\ stats.exact_matches = 1
                    /\ stats.recovered)
       /\ UNCHANGED odd

-----------------------------------------------------------------------------
(* output_only_attack_search, fixed_point_search, near_collision_search *)

OutputBlocks == {OutputCandidateBlock(c) : c \in 0..(OutputCandidates - 1)}

\* Different blocks collide, too many prefixes are equal, or none are.
OddOutputs(outputs, unplanted) ==
    LET Prefixed(o) == {c \in DOMAIN outputs : outputs[c].key = o.key}
        pairs == Pairs(outputs, LAMBDA o, p : o.key = p.key)
    IN
    \/ \E c, d \in DOMAIN outputs :
           /\ OutputCandidateBlock(c) # OutputCandidateBlock(d)
           /\ outputs[c] = outputs[d]
    \/ unplanted \in Range(outputs) /\ UnplantedBlock(OutputTarget)
                                           \notin OutputBlocks
    \/ \E c \in DOMAIN outputs :
           Cardinality(Prefixed(outputs[c])) > OutputBucketLimit
    \/ \E o \in {outputs[OutputTarget], unplanted} :
           Cardinality(Prefixed(o)) > OutputLimit
    \/ pairs \notin 1..OutputPairLimit

\* near: the least distances are below their limits.
CheckOutputs ==
    \/ /\ Comparing({"output_only"})
       /\ IF ~CoreTakes(Rounds) THEN Return(FALSE) /\ UNCHANGED odd
          ELSE \E outputs \in [0..(OutputCandidates - 1) -> TableStates],
                  unplanted \in TableStates :
                 /\ Computed(outputs, OutputCandidateBlock)
                 /\ Compare([outputs |-> outputs, unplanted |-> unplanted],
                            SearchOf(Table(outputs), outputs[OutputTarget],
                                     unplanted, OutputTarget),
                            OddOutputs(outputs, unplanted))
    \/ /\ Reporting({"output_only"})
       /\ \E near \in BOOLEAN :
            /\ odd' = (odd \/ near)
            /\ PrintLine(/\ stats.planted_prefix \in 1..OutputLimit
                         /\ stats.planted_exact = 1 /\ stats.recovered
                         /\ stats.unplanted_prefix <= OutputLimit
                         /\ stats.unplanted_exact = 0
                         /\ stats.collision_pairs \in 1..OutputPairLimit
                         /\ stats.maximum_bucket <= OutputBucketLimit
                         /\ stats.exact_collisions = 0
                         /\ ~near)

\* A state, what becomes of it and what becomes of that; usually all differ.
Orbits == {<<0, 0, 0>>, <<0, 1, 0>>, <<0, 1, 1>>, <<0, 1, 2>>}

HashSample == step >= Len(FixedRounds) * FixedPointSamples

One(condition) == IF condition THEN 1 ELSE 0

\* Of a hash only the message is compared with what becomes of it.
CountOrbit(o) ==
    IF HashSample
    THEN [stats EXCEPT !.hash_fixed = @ + One(o[1] = o[2]),
                       !.hash_two_cycles = @ + One(o[1] = o[3])]
    ELSE [stats EXCEPT !.core_fixed = @ + One(o[1] = o[2]) + One(o[2] = o[3]),
                       !.core_two_cycles = @ + One(o[1] = o[3])]

CheckFixedPoints ==
    \/ /\ Comparing({"fixed_point"})
       /\ IF /\ ~HashSample
             /\ ~CoreTakes(FixedRounds[(step \div FixedPointSamples) + 1])
          THEN Return(FALSE) /\ UNCHANGED odd
          ELSE \E orbit \in Orbits :
                 /\ Cardinality({i \in DOMAIN taken :
                                    taken[i].orbit # <<0, 1, 2>>}) >= MaxOdd
                        => orbit = <<0, 1, 2>>
                 /\ Compare([orbit |-> orbit, hash |-> HashSample],
                            CountOrbit(orbit), orbit # <<0, 1, 2>>)
    \/ /\ Reporting({"fixed_point"})
       /\ PrintLine(\A f \in DOMAIN stats : stats[f] = 0)
       /\ UNCHANGED odd

\* The samples number their messages, so all are different.
Collisions(digests) ==
    Cardinality({p \in (DOMAIN digests) \X (DOMAIN digests) :
                    p[1] < p[2] /\ digests[p[1]] = digests[p[2]]})

CheckNearCollisions ==
    \/ /\ Comparing({"near_collision"})
       /\ \E digests256, digests512 \in [1..NearSamples -> 1..NearSamples] :
              Compare([digests256 |-> digests256, digests512 |-> digests512],
                      [collisions256 |-> Collisions(digests256),
                       collisions512 |-> Collisions(digests512)],
                      ~(IsInjective(digests256) /\ IsInjective(digests512)))
    \/ /\ Reporting({"near_collision"})
       /\ \E near \in BOOLEAN :
              /\ odd' = (odd \/ near)
              /\ PrintLine(/\ stats.collisions256 = 0
                           /\ stats.collisions512 = 0
                           /\ ~near)

-----------------------------------------------------------------------------

Exited == check > Len(Checks) /\ UNCHANGED vars

Next ==
    \/ DifferentialBias \/ CheckLinear \/ ReducedRoundSearch \/ RotationalPair
    \/ AdditiveDifferential \/ CheckProbability \/ RelatedContext
    \/ CompareTrail \/ ReportTrails \/ CheckRoundtrip \/ CheckRebound
    \/ CheckMitm \/ CheckOutputs \/ CheckFixedPoints \/ CheckNearCollisions
    \/ ReturnAll \/ Exited

Spec == Init /\ [][Next]_vars
-----------------------------------------------------------------------------

\* The statistics of some of the pairs that were met.
PairsMean(s, pairs, among, width, words) ==
    LET weights == {pairs[i].weight : i \in among} IN
    /\ s.total_weight = MapThenSumSet(LAMBDA i : pairs[i].weight, among)
    /\ s.minimum_weight = Min(weights \cup {width})
    /\ s.maximum_weight = Max(weights \cup {0})
    /\ s.zero_differences =
           Cardinality({i \in among : pairs[i].weight = 0})
    /\ s.minimum_active_words =
           Min({pairs[i].active : i \in among} \cup {words})

\* Totals, extremes and zero differences are those of the pairs.
PairsExact ==
    Reporting(PairChecks) => PairsMean(stats, taken, DOMAIN taken, 512, 8)

\* Of the trails too, of all of them and of each pattern's; the one
\* print_best_trail compares again is the first of the lightest.
RoundExact(r) ==
    LET best == stats.all[r].best
        pairs == [i \in DOMAIN taken |-> taken[i].pairs[r]]
        Of(p) == {i \in DOMAIN taken : taken[i].pattern = p}
    IN
    /\ PairsMean(stats.all[r], pairs, DOMAIN taken, 512, 8)
    /\ \A p \in Patterns : PairsMean(stats.of[p][r], pairs, Of(p), 512, 8)
    /\ \E i \in DOMAIN taken :
           /\ taken[i].base = best[1] /\ taken[i].pattern = best[2]
           /\ taken[i].difference = BestDifference(best)
           /\ \A j \in DOMAIN taken :
                  LET heavier == taken[j].pairs[r].weight
                                     - taken[i].pairs[r].weight
                  IN  heavier > 0 \/ (heavier = 0 /\ j >= i)

TrailsExact ==
    Reporting({"trail_search"}) => \A r \in 1..MixRounds : RoundExact(r)

\* The most frequent projection is one of a single characteristic.
ProjectionsExact ==
    LET Count(c, v) == Cardinality({i \in DOMAIN taken :
                                       /\ (i - 1) \div Samples = c
                                       /\ taken[i].value = v})
    IN
    Reporting({"differential_probability"}) =>
        /\ stats.maximum_count =
               Max({Count(c, v) :
                       c \in 0..(Cases(Name) - 1), v \in 0..(Samples - 1)})
        /\ stats.zero_differences =
               Cardinality({i \in DOMAIN taken : taken[i].zero})

ReboundExact ==
    LET Of(F(_)) == [i \in DOMAIN taken |-> F(taken[i])] IN
    Reporting({"rebound"}) =>
        /\ PairsMean(stats.middle, Of(LAMBDA t : t.middle), DOMAIN taken,
                     1024, 16)
        /\ PairsMean(stats.end, Of(LAMBDA t : t.end), DOMAIN taken, 1024, 16)

\* Every pair of candidates with equal keys is found in the sorted table, once,
\* wherever in the table it is, and the planted candidate with them.
SearchesExact ==
    /\ Reporting({"mitm"}) =>
           JoinMeans(taken[1].forward, taken[1].backward, MitmTarget, stats)
    /\ Reporting({"output_only"}) =>
           SearchMeans(taken[1].outputs, taken[1].unplanted, OutputTarget,
                       stats)

\* The lines of the pairs of outputs, of the trails, of the projections, of the
\* rebounds and of the searches are each made of the comparisons of that line
\* and of no other, each counted as what it is. What the linear-correlation,
\* round-trip, fixed-point and near-collision checks count is not said here.
StatisticsExact ==
    /\ PairsExact
    /\ TrailsExact
    /\ ProjectionsExact
    /\ ReboundExact
    /\ SearchesExact

\* The program fails only when an output or an average was out of the ordinary:
\* a check never compares two equal inputs (two flips of one bit, two candidates
\* with one block), never asks for rounds the function refuses, and always finds
\* what it planted itself.
FailsByMisfortune == ~(ok /\ all_ok) => odd

\* The weight of the lightest of the trails that were met, after some rounds.
Lightest(rounds) ==
    Min({taken[i].pairs[rounds].weight : i \in DOMAIN taken} \cup {512})

\* A check that passes has printed all its lines, with all the comparisons its
\* lines count, and none is FAIL (only a line that fails may have made fewer).
\* One that fails after its last line has printed a FAIL, but for the trail
\* search: no line tells that its weights gained too little, and with no FAIL
\* it fails exactly when the lightest trail of all rounds does not weigh 128
\* more than the lightest of one round.  The program succeeds exactly when
\* every check has passed.
PassCoversReport ==
    [][/\ line' = line + 1 =>
              /\ step = Comparisons(Name) \/ bad'
              /\ Name = "trail_search" /\ ~bad' =>
                     (all_ok' <=> Lightest(MixRounds) >= Lightest(1) + 128)
       /\ check' # check =>
              /\ ok' => ok /\ all_ok /\ ~bad /\ AllPrinted
              /\ ok /\ ~bad /\ AllPrinted =>
                     ok' \/ (Name = "trail_search" /\ ~all_ok)
       /\ check' > Len(Checks) => (exit_code' = 0 <=> ok')]_vars
=============================================================================
