---------------------------- MODULE TreeAttacks ----------------------------
(***************************************************************************)
(* The program fch_tree_attacks (src/analysis/fch_tree_attacks.c): ten      *)
(* screens one after the other, whatever the earlier ones returned.  A     *)
(* screen returns 0 at the first allocation or hash that fails, at the      *)
(* first structural surprise, or when a statistic is off at its end.       *)
(* Distances between digests are the environment's choice, but a distance   *)
(* is 0 exactly when the messages are the same: the hash is taken to be     *)
(* free of collisions.                                                     *)
(***************************************************************************)
EXTENDS TreeScreens, AttackMessages, CollisionStats

CONSTANTS
    CollisionSamples,  \* MULTICOLLISION_SAMPLES, and HERDING_PREFIXES
    PairLimit,         \* accepted truncated pairs, 64 in the code
    BucketLimit,       \* accepted bucket size, 4 in the code
    HerdingBucketLimit,         \* and 3 for the roots of the prefixes
    PrefixValues, RestValues,   \* the words a state may have
    MinLeaves, MaxLeaves,       \* TREE_SHAPE_MIN_LEAVES, _MAX_LEAVES
    PreimageChunks, PreimageSamples,       \* SECOND_PREIMAGE_*
    TargetChunks, Targets, TargetSamples,  \* MULTI_TARGET_*
    ExpandablePairs, ReuseSamples,
    LongDepth,         \* the depth of the long messages, 9 in the code
    MaxFaults          \* bound on the screens that fail by misfortune

ASSUME AttackAssumption ==
    /\ {CollisionSamples, MinLeaves, MaxLeaves, PreimageChunks,
        PreimageSamples, TargetChunks, Targets, TargetSamples,
        ExpandablePairs, ReuseSamples, LongDepth, MaxFaults} \subseteq Nat
    /\ CollisionSamples > 0 /\ Targets > 0
    /\ PrefixValues \subseteq Nat /\ RestValues \subseteq Nat
    \* The positions of the largest message fit size_t, at every offset.
    /\ 2 <= MinLeaves /\ MinLeaves <= MaxLeaves
    /\ Leaves(MaxLeaves + 7) <= SizeMax
    \* Targets of whole leaves: mode 6 of the mutation divides by the number
    \* of pairs of leaves less one.
    /\ PreimageChunks % LeafChunks = 0 /\ PreimageChunks >= 4 * LeafChunks
    /\ TargetChunks % LeafChunks = 0 /\ TargetChunks >= 4 * LeafChunks
    \* Padding and what is added to a long message make no level more.
    /\ LongLength + 2 * LongUnit + Overhead <= SizeMax
    /\ \A added \in 0..(2 * LongUnit) :
           Level(LeafCount(PaddedLength(LongLength + added))) = LongDepth

VARIABLES
    screen,      \* its place in Screens, or one past the last
    phase,       \* "entered", "running", "statistics", "compared", "verdict",
                 \* or "exited"
    step,        \* the counter of the screen's loop
    sub,         \* the counter of the loop inside it
    accepted, rejected, expected_rejected, matches,
    first,       \* the buffer the candidates start from
    second,      \* the buffer they are made in
    recorded,    \* the messages hashed so far, where they are compared
    states, stats,       \* the input and result of collision_stats
    maximum_depth,
    failed,      \* ghost: the screens that returned 0, each with the cause
    exit_code

work == <<step, sub, accepted, rejected, expected_rejected, matches, first,
          second, recorded, states, stats, maximum_depth>>
vars == <<screen, phase, work, failed, exit_code>>

Screens ==
    << "multicollision", "tree_shape", "canonical_partition",
       "subtree_replacement", "second_preimage", "long_message",
       "expandable_message", "herding", "multi_target", "variant_reuse" >>

In(name, at) == screen \in DOMAIN Screens /\ Screens[screen] = name /\ phase = at

Nothing == << >>

FreshWork ==
    /\ step' = 0 /\ sub' = 0
    /\ accepted' = 0 /\ rejected' = 0 /\ expected_rejected' = 0 /\ matches' = 0
    /\ first' = Nothing /\ second' = Nothing /\ recorded' = Nothing
    /\ states' = Nothing /\ stats' = NoStats
    /\ maximum_depth' = 0

Init ==
    /\ screen = 1 /\ phase = "entered"
    /\ step = 0 /\ sub = 0
    /\ accepted = 0 /\ rejected = 0 /\ expected_rejected = 0 /\ matches = 0
    /\ first = Nothing /\ second = Nothing /\ recorded = Nothing
    /\ states = Nothing /\ stats = NoStats
    /\ maximum_depth = 0
    /\ failed = {} /\ exit_code = 0

\* Mutant: the exit code is that of the last screen.
LastScreenDecides(failures) ==
    IF \E f \in failures : f.screen = Screens[Len(Screens)] THEN 1 ELSE 0

\* main: 1 when any screen returned 0.
ExitCode(failures) == IF failures = {} THEN 0 ELSE 1

\* A screen returns, and main calls the next.
Return(causes) ==
    /\ failed' = failed \cup {[screen |-> Screens[screen], cause |-> c] :
                                 c \in causes}
    /\ screen' = screen + 1
    /\ FreshWork
    /\ IF screen < Len(Screens)
       THEN phase' = "entered" /\ UNCHANGED exit_code
       ELSE phase' = "exited" /\ exit_code' = ExitCode(failed')

Pass == Return({})

Misfortunes == {f \in failed : f.cause \in {"memory", "statistics"}}

\* An allocation or, for want of memory, a hash fails.
OutOfMemory ==
    Cardinality(Misfortunes) < MaxFaults /\ Return({"memory"})

Continue == UNCHANGED <<screen, phase, failed, exit_code>>

GoTo(next) == phase' = next /\ UNCHANGED <<screen, failed, exit_code>>

\* Mutant: the last sample is left out.
AllButOne(samples) == step + 1 >= samples

\* The loop over the samples has ended.
AllSamples(samples) == step >= samples

\* The verdict at the end: what the structure of the screen says, and
\* whether the distances and averages of the digests are in their limits.
Judge(sound, near) ==
    IF ~sound THEN Return({"structure"})
    ELSE IF near
    THEN Cardinality(Misfortunes) < MaxFaults /\ Return({"statistics"})
    ELSE Pass

-----------------------------------------------------------------------------
(* multicollision_screen *)

SiblingLeaf == MakeLeaf(Random("sibling", 0, LeafBytes), Leaves(1))

FixedLeaves ==
    [i \in 1..2 |-> MakeLeaf(Random("fixed", i, LeafBytes), Leaves(i + 1))]

FixedSubtree == CombineState(FixedLeaves, Leaves(2))

SampleLeaf(sample) ==
    MakeLeaf(Indexed(Random("sample", sample, LeafBytes), sample), 0)

SampleNode(sample) ==
    CombineState(<<SampleLeaf(sample), SiblingLeaf>>, Leaves(2))

\* A leaf, its parent and its root are made for every sample.
SampleMade(sample) ==
    /\ Takes(<<SampleLeaf(sample), SiblingLeaf>>,
             BlocksOf(<<Leaves(1), Leaves(1)>>), Leaves(2))
    /\ Takes(<<SampleNode(sample), FixedSubtree>>,
             BlocksOf(<<Leaves(2), Leaves(2)>>), Leaves(4))

\* No limit: herding_screen only prints the pairs.
AnyPairs == CollisionSamples * CollisionSamples

States == [1..CollisionSamples ->
              [prefix : PrefixValues, rest : RestValues]]

WithinLimits(s, pairs, bucket) ==
    /\ s.exact_collisions = 0
    /\ s.truncated_pairs <= pairs
    /\ s.maximum_bucket <= bucket

\* collision_stats over whatever the samples hash to.  A record that is out
\* of its limits is a misfortune.
TakeStats(sampled, pairs, bucket) ==
    LET good == WithinLimits(StatsOf(sampled), pairs, bucket) IN
    /\ good \/ Cardinality(Misfortunes) < MaxFaults
    /\ states' = sampled
    /\ stats' = StatsOf(sampled)
    /\ matches' = IF good THEN matches ELSE matches + 1

ForgetStats == states' = Nothing /\ stats' = NoStats

MakeSample ==
    IF ~SampleMade(step)
    THEN Return({"structure"})
    ELSE /\ step' = step + 1
         /\ GoTo(IF AllSamples(CollisionSamples - 1) THEN "statistics"
                 ELSE "running")
         /\ UNCHANGED <<sub, accepted, rejected, expected_rejected, matches,
                        first, second, recorded, states, stats, maximum_depth>>

Multicollision ==
    \/ /\ In("multicollision", "entered")
       /\ IF Takes(FixedLeaves, BlocksOf(<<Leaves(1), Leaves(1)>>), Leaves(2))
          THEN OutOfMemory \/ (GoTo("running") /\ UNCHANGED work)
          ELSE Return({"structure"})
    \/ /\ In("multicollision", "running")
       /\ OutOfMemory \/ MakeSample
    \* of the leaves, the nodes and the roots
    \/ /\ In("multicollision", "statistics")
       /\ \/ OutOfMemory
          \/ /\ \E sampled \in States :
                    TakeStats(sampled, PairLimit, BucketLimit)
             /\ GoTo("compared")
             /\ UNCHANGED <<step, sub, accepted, rejected, expected_rejected,
                            first, second, recorded, maximum_depth>>
    \/ /\ In("multicollision", "compared")
       /\ ForgetStats
       /\ sub' = sub + 1
       /\ GoTo(IF sub' = 3 THEN "verdict" ELSE "statistics")
       /\ UNCHANGED <<step, accepted, rejected, expected_rejected, matches,
                      first, second, recorded, maximum_depth>>
    \/ /\ In("multicollision", "verdict")
       /\ Judge(TRUE, matches > 0)

-----------------------------------------------------------------------------
(* tree_shape_screen and subtree_replacement_screen *)

\* One call of combine_state.  One that was to be refused counts when it is,
\* be it only for want of memory; any other must be taken.  The node of a
\* graft must be another than the one it stands for: tree_shape_screen finds
\* out at its end, subtree_replacement_screen at once.
Try(attempt, at_once) ==
    LET taken == Takes(attempt.children, attempt.blocks, attempt.node_length)
        other == CombineState(attempt.children, attempt.node_length)
                     # attempt.other
        fails == ~taken \/ (at_once /\ attempt.expect = "graft" /\ ~other)
        Count(accept, reject) ==
            /\ step' = step + 1
            /\ accepted' = accepted + (IF accept THEN 1 ELSE 0)
            /\ rejected' = rejected + (IF reject THEN 1 ELSE 0)
            /\ Continue
            /\ UNCHANGED <<sub, expected_rejected, matches, first, second,
                           recorded, states, stats, maximum_depth>>
    IN
    IF attempt.expect = "reject"
    THEN \E memory \in BOOLEAN : Count(FALSE, ~(taken /\ memory))
    ELSE IF fails
    THEN Return({"structure"})
    ELSE Count(attempt.expect = "graft" /\ other, FALSE) \/ OutOfMemory

Expecting(attempts, expect) ==
    Cardinality({i \in DOMAIN attempts : attempts[i].expect = expect})

Counted(attempts) ==
    /\ rejected = Expecting(attempts, "reject")
    /\ accepted = Expecting(attempts, "graft")

\* The calls of the screen one by one, and its verdict.
TryAll(name, attempts, at_once) ==
    \/ /\ In(name, "running") /\ step < Len(attempts)
       /\ Try(attempts[step + 1], at_once)
    \/ /\ In(name, "running") /\ step = Len(attempts)
       /\ \E near \in {FALSE, ~at_once} : Judge(Counted(attempts), near)

\* Its leaves need no memory but the stack's.
TreeShapeScreen ==
    \/ /\ In("tree_shape", "entered")
       /\ GoTo("running") /\ UNCHANGED work
    \/ TryAll("tree_shape", TreeShape, FALSE)

\* First the nodes are made: equal bytes must not give equal words.
ReplacementScreen ==
    \/ /\ In("subtree_replacement", "entered")
       /\ IF Relocated(ReplacementNodes)
          THEN OutOfMemory \/ (GoTo("running") /\ UNCHANGED work)
          ELSE Return({"structure"})
    \/ TryAll("subtree_replacement", Replacement, TRUE)

-----------------------------------------------------------------------------
(* canonical_partition_screen: step counts the offsets and leaf counts. *)

LeafCounts == MaxLeaves - MinLeaves + 1
PartitionLeaves == MinLeaves + (step % LeafCounts)
PartitionOffset == << 0, Leaves(1), Leaves(7) >>[(step \div LeafCounts) + 1]

\* The next boundary but the canonical one, or the next leaf count.
NextBoundary(at) ==
    LET canonical == CanonicalLeft(PartitionLeaves, PartitionOffset)
        next      == IF at + 1 = canonical THEN at + 2 ELSE at + 1
    IN  IF next < PartitionLeaves THEN step' = step /\ sub' = next
        ELSE step' = step + 1 /\ sub' = 0

CountPartition(accept, reject) ==
    /\ NextBoundary(sub)
    /\ accepted' = accepted + accept
    /\ rejected' = rejected + reject
    /\ expected_rejected' = expected_rejected + 1
    /\ Continue
    /\ UNCHANGED <<matches, first, second, recorded, states, stats,
                   maximum_depth>>

\* The canonical partition is taken, and refused the other way round, be it
\* only for want of memory.
Canonically(halves) ==
    \E memory \in BOOLEAN :
        IF /\ CanonicalTaken(halves, PartitionLeaves, PartitionOffset)
           /\ ~(ReversedTaken(halves, PartitionLeaves) /\ memory)
        THEN CountPartition(1, 1) ELSE Return({"structure"})

\* So is any other boundary.
Alternatively(halves) ==
    \E memory \in BOOLEAN :
        IF ~(AlternativeTaken(halves, PartitionLeaves, sub) /\ memory)
        THEN CountPartition(0, 1) ELSE Return({"structure"})

PartitionScreen ==
    \/ /\ In("canonical_partition", "entered")
       /\ GoTo("running") /\ UNCHANGED work
    \/ /\ In("canonical_partition", "running") /\ step < 3 * LeafCounts
       /\ sub = 0
       /\ \/ OutOfMemory
          \/ Canonically(Partition(PartitionLeaves, PartitionOffset,
                             CanonicalLeft(PartitionLeaves, PartitionOffset)))
    \/ /\ In("canonical_partition", "running") /\ step < 3 * LeafCounts
       /\ sub > 0
       /\ \/ OutOfMemory
          \/ Alternatively(Partition(PartitionLeaves, PartitionOffset, sub))
    \/ /\ In("canonical_partition", "running") /\ step = 3 * LeafCounts
       /\ Judge(/\ accepted = 3 * LeafCounts
                /\ rejected = expected_rejected, FALSE)

-----------------------------------------------------------------------------
(* second_preimage_screen and multi_target_screen *)

TargetMessage(target, chunks) ==
    [c \in 0..(chunks - 1) |-> <<"target", target, c>>]

\* A candidate is made and hashed, and compared with count targets.
HashCandidate(target, targets) ==
    /\ first' = target
    /\ second' = Candidate(target, step)
    /\ matches' = matches + Cardinality({t \in targets : Same(second', t)})
    /\ step' = step + 1
    /\ Continue
    /\ UNCHANGED <<sub, accepted, rejected, expected_rejected, recorded,
                   states, stats, maximum_depth>>

SecondPreimage ==
    LET target == TargetMessage(0, PreimageChunks) IN
    \/ /\ In("second_preimage", "entered")
       /\ OutOfMemory \/ (GoTo("running") /\ UNCHANGED work)
    \/ /\ In("second_preimage", "running") /\ ~AllSamples(PreimageSamples)
       /\ OutOfMemory \/ HashCandidate(target, {target})
    \/ /\ In("second_preimage", "running") /\ AllSamples(PreimageSamples)
       /\ \E near \in BOOLEAN : Judge(matches = 0, near)

AllTargets == {TargetMessage(t, TargetChunks) : t \in 0..(Targets - 1)}

\* A candidate that is one of the targets ends the screen.
MultiTarget ==
    \/ /\ In("multi_target", "entered")      \* hashes all targets
       /\ OutOfMemory \/ (GoTo("running") /\ UNCHANGED work)
    \/ /\ In("multi_target", "running") /\ ~AllSamples(TargetSamples)
       /\ LET base == TargetMessage(step % Targets, TargetChunks) IN
          \/ OutOfMemory
          \/ IF \E t \in AllTargets : Same(Candidate(base, step), t)
             THEN Return({"structure"})
             ELSE HashCandidate(base, AllTargets)
    \/ /\ In("multi_target", "running") /\ AllSamples(TargetSamples)
       /\ \E near \in BOOLEAN : Judge(matches = 0, near)

-----------------------------------------------------------------------------
(* long_message_screen *)

LongVariants == 15

\* The deepest level the debug hooks saw: that of the root.
Deepest(length) ==
    LET level == Level(LeafCount(PaddedLength(length))) IN
    IF level > maximum_depth THEN level ELSE maximum_depth

RecordLong(hashed) ==
    /\ second' = IF step + 1 \in FromBase THEN second ELSE hashed.work
    /\ recorded' = Append(recorded, Message(hashed))
    /\ maximum_depth' = Deepest(hashed.length)
    /\ step' = step + 1
    /\ Continue
    /\ UNCHANGED <<sub, accepted, rejected, expected_rejected, matches, first,
                   states, stats>>

NoCollision ==
    \A a, b \in DOMAIN recorded : a < b => recorded[a] # recorded[b]

LongMessages ==
    \/ /\ In("long_message", "entered")
       /\ OutOfMemory \/ (GoTo("running") /\ UNCHANGED work)
    \/ /\ In("long_message", "running") /\ step < LongVariants
       /\ OutOfMemory \/ RecordLong(LongVariant(step + 1, second))
    \/ /\ In("long_message", "running") /\ step = LongVariants
       /\ \E near \in BOOLEAN :
              Judge(NoCollision /\ maximum_depth = LongDepth, near)

-----------------------------------------------------------------------------
(* expandable_message_screen, herding_screen and variant_reuse_screen *)

\* The roots captured while hashing to 256 and to 512 bits are the same: the
\* tree is built without the output size, so that the comparison of the two
\* is taken as equal.
HashExpandable(short, long) ==
    /\ first' = short
    /\ second' = long
    /\ matches' = matches +
           (IF Slice(short, 0, 1 + SuffixLeaves)
                  = Slice(long, 0, 1 + ExtraLeaves(step) + SuffixLeaves)
            THEN 1 ELSE 0)
    /\ step' = step + 1
    /\ Continue
    /\ UNCHANGED <<sub, accepted, rejected, expected_rejected, recorded,
                   states, stats, maximum_depth>>

Expandable ==
    \/ /\ In("expandable_message", "entered")
       /\ OutOfMemory \/ (GoTo("running") /\ UNCHANGED work)
    \/ /\ In("expandable_message", "running") /\ ~AllSamples(ExpandablePairs)
       /\ \/ OutOfMemory
          \/ LET short == ShortMessage(first, step) IN
             HashExpandable(short, LongMessage(second, short, step))
    \/ /\ In("expandable_message", "running") /\ AllSamples(ExpandablePairs)
       /\ \E near \in BOOLEAN : Judge(matches = 0, near)

\* Every prefix before the same suffix; then the statistics of the roots. The
\* roots under both output sizes are taken as equal, as in HashExpandable.
Herding ==
    \/ /\ In("herding", "entered")
       /\ GoTo("running") /\ UNCHANGED work
    \/ /\ In("herding", "running") /\ ~AllSamples(CollisionSamples)
       /\ \/ OutOfMemory
          \/ /\ first' = HerdingMessage(step)
             /\ recorded' = Append(recorded, first')
             /\ step' = step + 1
             /\ Continue
             /\ UNCHANGED <<sub, accepted, rejected, expected_rejected,
                            matches, second, states, stats, maximum_depth>>
    \/ /\ In("herding", "running") /\ AllSamples(CollisionSamples)
       /\ \/ OutOfMemory
          \/ /\ \E roots \in States :
                    TakeStats(roots, AnyPairs, HerdingBucketLimit)
             /\ GoTo("compared")
             /\ UNCHANGED <<step, sub, accepted, rejected, expected_rejected,
                            first, second, recorded, maximum_depth>>
    \/ /\ In("herding", "compared")
       /\ ForgetStats
       /\ GoTo("verdict")
       /\ UNCHANGED <<step, sub, accepted, rejected, expected_rejected,
                      matches, first, second, recorded, maximum_depth>>
    \/ /\ In("herding", "verdict")
       /\ \E near \in BOOLEAN : Judge(NoCollision, near \/ matches > 0)

\* sub is the length of the message hashed last. Both output
\* sizes have the root of the one tree, and each comparison counts as shared.
VariantReuse ==
    \/ /\ In("variant_reuse", "entered")
       /\ OutOfMemory \/ (GoTo("running") /\ UNCHANGED work)
    \/ /\ In("variant_reuse", "running") /\ ~AllSamples(ReuseSamples)
       /\ \/ OutOfMemory
          \/ /\ sub' = ReuseLength(step)
             /\ accepted' = accepted + 1       \* shared_roots
             /\ step' = step + 1
             /\ Continue
             /\ UNCHANGED <<rejected, expected_rejected, matches, first,
                            second, recorded, states, stats, maximum_depth>>
    \/ /\ In("variant_reuse", "running") /\ AllSamples(ReuseSamples)
       /\ \E near \in BOOLEAN : Judge(accepted = ReuseSamples, near)

Exited == phase = "exited" /\ UNCHANGED vars

Next ==
    \/ Multicollision \/ TreeShapeScreen \/ PartitionScreen
    \/ ReplacementScreen \/ SecondPreimage \/ LongMessages
    \/ Expandable \/ Herding \/ MultiTarget \/ VariantReuse
    \/ Exited

Spec == Init /\ [][Next]_vars
-----------------------------------------------------------------------------

\* The messages compared in a screen are different ones, so that equal digests
\* would be a collision and not the screen's own doing: no mutation of a target
\* gives a target back, no two of the long messages are the same for all they
\* share one work buffer, and a long expandable message is the short one with
\* more leaves put in.  And they fit the buffers they are made in.
CandidatesAreOthers ==
    /\ In("second_preimage", "running") /\ step > 0 =>
           /\ ~Same(second, first)
           /\ DOMAIN second.chunks = DOMAIN first
           /\ second.flips \subseteq 0..(PreimageChunks * ChunkLength - 1)
    /\ In("multi_target", "running") /\ step > 0 =>
           /\ \A t \in AllTargets : ~Same(second, t)
           /\ DOMAIN second.chunks = DOMAIN first
           /\ second.flips \subseteq 0..(TargetChunks * ChunkLength - 1)
    /\ In("long_message", "running") =>
           /\ NoCollision
           /\ DOMAIN second \subseteq 0..(WorkLength - 1)
    /\ In("expandable_message", "running") /\ step > 0 =>
           /\ DOMAIN first \cup DOMAIN second \subseteq
                  0..(ExpandableCapacity - 1)
           /\ \E inserted \in 1..MaxExtraLeaves :
                  \A p \in 0..SuffixLeaves :
                      first[p] = second[IF p = 0 THEN 0 ELSE p + inserted]
    /\ In("herding", "running") => NoCollision
    /\ In("variant_reuse", "running") => sub <= ReuseMaxLength

\* A screen fails only by misfortune: with memory, and digests as far apart as
\* it asks, it passes.  The library takes every canonical call and no other,
\* at every offset, leaf count and boundary the screens try, keeps equal bytes
\* at other positions apart, and makes trees of the depth the screen expects.
FailsByMisfortune == \A f \in failed : f.cause # "structure"

\* The statistics of sorted states are those of the states.
StatsExact == states # Nothing => StatsMean(states, stats)

\* A screen that passes has tried all the samples its report line counts, and
\* the program succeeds exactly when all ten screens have passed.
PassCoversReport ==
    [][/\ (screen' # screen /\ failed' = failed) =>
              step = CASE Screens[screen] = "multicollision" -> CollisionSamples
                       [] Screens[screen] = "tree_shape" -> 12
                       [] Screens[screen] = "canonical_partition" ->
                              3 * LeafCounts
                       [] Screens[screen] = "subtree_replacement" -> 11
                       [] Screens[screen] = "second_preimage" ->
                              PreimageSamples
                       [] Screens[screen] = "long_message" -> LongVariants
                       [] Screens[screen] = "expandable_message" ->
                              ExpandablePairs
                       [] Screens[screen] = "herding" -> CollisionSamples
                       [] Screens[screen] = "multi_target" -> TargetSamples
                       [] Screens[screen] = "variant_reuse" -> ReuseSamples
       /\ phase' = "exited" => (exit_code' = 0 <=> failed' = {})]_vars
=============================================================================
