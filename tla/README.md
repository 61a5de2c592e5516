# A verification of Fractal-Crypt-Hash in TLA+

Fractal-Crypt-Hash (FCH) is a tree hash written in C: a message is padded, cut
into leaves of 1024 bytes, the leaves are combined pairwise along a canonical
binary tree, and the root is compressed once more into a digest of 256 or 512
bits.  The same digest is computed by three pieces of code that share little:
a one-shot API, an incremental API that sees the message in arbitrary pieces,
and a reference implementation in Python that recurses from the root down.

This directory holds TLA+ models of that code, configurations that check them
with TLC, and proofs that TLAPS checks.  The central question is whether the
three agree, on every path: every cut of the message, every length up to the
limits of `size_t` and of the length field, every failing call.

## The system

| Component | Code | State | Operations |
| --- | --- | --- | --- |
| tree schedule | `src/fractal_split.c`, `src/params.h` | none | position of a range, level, canonical split, `fch_fractal_split_reader` |
| records | `src/leaf.c`, `src/combine.c`, `src/mix.c` (output) | a chaining state being fed | leaf, node and output compression, with their structural checks |
| tree workspace | `src/fractal_process.c` | one slot per level | push a leaf (carry), fold to the root, hash a range through a reader |
| one-shot API | `src/fch.c` | locals of one call | `fch_hash_256_checked`, `fch_hash_512_checked` |
| incremental API | `src/fch_stream.c` | a context and its heap storage | init, update, final, free for both variants |
| command line tool | `tools/fch.c` | one context, the file in hand, the exit code | hash files or standard input, print digest lines |
| reference | `tools/fch_reference.py` | none | pad, recurse, combine, digest |
| compression function | `src/mix.c`, `src/bitops.h` | sixteen 64-bit words | ARX rounds, their inverses, absorption of a record |
| benchmarks | `bench/bench_hash.c` | live and peak counters of a tracking allocator, rows of timings, an exit code | measure, baseline profile, timing check, `main` |
| tree attack screens | `analysis/fch_tree_attacks.c` | the message and the nodes of one screen, its statistics | ten screens, `main` |
| cryptanalysis screens | `analysis/fch_cryptanalysis.c` | the statistics of one check, a sorted table | fourteen checks, `main` |
| debug hooks, fuzz driver, diffusion screens | `src/debug_hooks.h`, `tools/fch_fuzz.py`, `analysis/fch_diffusion.c` | counters | observation and experiments |

The command line tool calls the incremental API; the one-shot API passes a
*reader*, a callback over the virtual padded message, to
`fch_process_reader`; both APIs push leaves into the same workspace, whose
combinations go through the checks of `fch_combine_into`, which ask the tree
schedule again for the canonical split.  The benchmark wraps the allocator of
both APIs; the two programs under `analysis/` are clients of the combiner, of
the one-shot functions and of the rounds, whose only product is a report and an
exit code.  There is no concurrency: what is hard
here is the order of calls a client may make, what each failure in the middle
leaves behind, arithmetic at the limits, and the claim that a bottom-up
binary counter and a top-down recursion build one and the same tree.

What makes each component correct:

- *schedule*: a position of two leaves or more is always split, never refused
  by one of the defensive checks; the blocks tile the range; the left one is a
  full power of two of leaves, strictly fewer than all;
- *records*: only canonical siblings combine, so the bytes determine the tree;
- *workspace*: after n leaves, slot l holds the last full subtree of 2^l leaves
  when bit l of n is set; folding gives the reference's root; failures have a
  cause outside the library and leak nothing;
- *compression function*: each round can be undone, windows of rounds compose,
  and every word of a block enters every round;
- *APIs*: a call that reports success wrote the reference digest of exactly the
  bytes it was given; one that reports failure wrote zeroes; failure and
  finalization are permanent until init or free; storage is released;
- *tool*: a line is printed only for a file that was read whole, the exit code
  tells of every failure, every context is freed, and the tool ends;
- *benchmark*: the byte counters agree with the blocks that are live, a resource
  profile is reported only for a run that left nothing behind, each row shows the
  case and the trial it is labelled with, and the exit code tells of a failure;
- *screens*: a candidate attack is a different message from its target, each
  statistic counts what its name says, a screen that reports a failure had an
  unusual measurement or a failed call to show for it, and one that reports a pass
  printed no line that says otherwise.

## The modules

    Powers                  powers of two
    TreeSchedule            positions and the split (operators)
      TreeDescent           a client that splits until it reaches a leaf
      Padding               padded length, padded bytes, length limits
        TreeRecords         records of leaf, node and output; combine checks
          ReferenceHash     Tree and ReferenceDigest, the Python recursion
            TreeWorkspace   slots, push, fold
              FchStream     the incremental API  -- implements HashContext
              ProcessReader the steps of fch_process_reader
                FchProcess  one call of it, with readers and malloc that fail
                FchOneShot  the one-shot API around it
            CombineApi      a client of fch_combine and fch_leaf_compress
    MixRounds               the ARX rounds and a client that walks them
    HashContext             what a context promises, without any tree
      FchCli                the command line tool, driving a HashContext
      BenchStream           a measured client that keeps its context on its stack
    BenchMeasure            the tracking allocator and measure
      Benchmark             main: rows, baseline, timing check, exit code
        Bench               the three machines of the benchmark, one at a time
    TreeWorkspace
      TreeScreens           the nodes and combinations the attack screens try
        TreeAttacks         the ten attack screens and main
    AttackMessages          the buffers the attack screens write and hash
    TrailSearch             trails, their patterns and statistics
    Sorting                 qsort of the C library
      CollisionStats        collisions found by sorting (in TreeAttacks)
      MatchSearch           sorted table, lower bound, joins
        Cryptanalysis       the fourteen checks and main
    NatLemmas               least numbers, induction, recursion, powers, sums,
                            ascending orders, counts of pairs and runs
      TreeProofs            the split, the tree's equation, the binary counter
        TreeClientProofs    theorems of the descent, the combining client, the
                            leaf loop, the one-shot API and the attack screens
        FchStreamProofs     theorems of the context, and its refinement
      MixRoundsProofs       theorems of the rounds
      CryptanalysisProofs   theorems of the checks
      BenchProofs           theorems of the benchmark
    FchCliProofs            theorems of the tool

`HashContext` is the abstract specification.  It says which calls succeed and
what they output, with `Supported` and `Digest` as parameters and no tree.
`FchStream` is shown to implement it under the refinement mapping
`absorbed <- length`, `phase <- finalized/failed/open`, `Supported <- Hashable`,
`Digest <- ReferenceDigest`; `FchCli` is composed with the promise and never
looks at the implementation.  `FchOneShot` takes the steps of `ProcessReader`
and interleaves them with the state of the caller's buffers, because an output
buffer that overlaps the input is read while the tree is being built.

### How state and actions correspond to the code

- `TreeSchedule.PositionOf`, `RangeAccepted`, `SplitAccepted` and `Children` are
  `fch_tree_position_for_range`, its guards, the complete list of checks of
  `fch_tree_split_position`, and its two results.  `LeastExponentAbove` stands
  for both of the loops that shift or double.  Numbers are natural; each
  overflow guard of the C code appears as a conjunct with `SizeMax`, and the
  runs and theorems show that the sums which the code leaves unguarded fit.
- `TreeRecords`: a chaining state is the domain it was initialised with and the
  sequence of records absorbed.  The compression function is therefore free of
  collisions, and "the same chaining value" means "the same records in the same
  order".  Fields that are compile-time constants are left out.
- `TreeWorkspace.PushLeaf` models `fch_tree_push_leaf` with every return: a
  refused leaf leaves the slots alone; a refused combination half way leaves
  the slots below it cleared.  `FoldAccepted` and `Root` are
  `fch_tree_fold_root`.
- `ProcessReader`, `FchProcess`: one behaviour is one call, one step an iteration
  of the leaf loop.  `heap` is the allocation of `result.state`.
- `FchOneShot`: `Process` takes the same steps with a reader that looks at the
  buffer as it is at that moment.  `PaddedRead` is `fch_padded_read`: what is
  copied, where it returns early, and what the marker and the length field write
  over.  A leaf reads chunk by chunk (`ChunkOf`), so both fall anywhere in a chunk
  and on its edges; `PaddedReader` is all the chunks together.
- `FchStream`: `storage`, `length`, `failed`, `finalized` are the fields of
  `fch256_ctx` and `fch512_ctx`; `state` is the heap record behind the pointer.
  Each action is one call of the API; the loop of `stream_append` is the
  recursive function in `Ingest`.  `message` and `fed` belong to the caller.
  A final that finds no valid state (`FinalUnopened`) and one that opens it
  (`FinalOpen`) leave by exits of their own, each with its own close.
- `FchCli`: `pc` walks through `hash_stream` and `fch_cli_run`; files carry
  their content, size and how they fail.  The three early returns of
  `hash_stream` are three actions (`UpdateRefused`, `ReadError`,
  `FinalRefused`), each of which frees the context itself.

- `MixRounds`: `Half` is one of the two halves of `fch_mix_g` and `HalfInverse`
  undoes it; `Forward`, `Backward` and `Refuse` are calls of
  `fch_mix_test_forward` and `fch_mix_test_inverse` by the client that
  `mix_roundtrip_check`, the rebound and the meet-in-the-middle screens are.
  The rotations are the fractions of the word that 32, 24, 16 and 63 are of 64;
  exclusive or is a parameter with the two laws the rounds use, so that TLC can
  take it from a table.

- `BenchMeasure`: `live` is the bag of the sizes of the live blocks; `Malloc`,
  `Calloc` and `Free` keep the counters as the code does, with the overflow of
  header and size; the hash function under measurement is any client within
  `MaxCalls`.  `BenchStream` is `hash_256_stream` and `hash_512_stream`, calling a
  `HashContext`.  `Benchmark` is `main`: what `measure` gives is nothing or a time
  and a profile, and the rows, trials, rotation and verdicts follow from it.
  `ReturnProfile`, `RejectCase`, `TimingWarmupFails`, `TimingFails`, `Judge` and
  `MainReturns` are the six returns behind an allocation, each with its own free.
- `TreeScreens`, `AttackMessages`: the buffers, readers and nodes of
  `fch_tree_attacks.c`, at positions counted in units that divide every position
  the code uses; the screens call the combiner and the workspace of
  `TreeWorkspace`, so whether a forged combination is taken is decided by the
  library's model and not assumed.  `TreeAttacks` runs the ten screens in the
  order of `main`.
- `TrailSearch`, `MatchSearch`, `CollisionStats`: difference patterns, the sorted
  tables, the binary search and the joins, with the statistics that are kept on
  the way.  `Sorting.Sorted` is what the C standard promises of `qsort`: some
  order in which no element comes before an earlier one.  A turn of
  `mitm_lower_bound` is `Halve`, and one of the loop that cuts the table of outputs into
  runs of one prefix is `NextRun`, with the inner loop in `RunEnd`; as each turn
  gets further, as many turns as the table has entries are the whole loop.  `Cryptanalysis` runs the fourteen checks in the order of `main`, over
  the code's own lists of rounds and cases.

Some comparisons of the screens are taken as equal, because another module shows
that they are: the roots of a replayed prefix, of the expandable and of the herded
messages, and of the two output sizes (a root does not depend on the output size,
and `SubtreeMade` gives the same node for the same bytes); and the work states and
outputs that `mix_roundtrip_check` compares (`WindowsAgree` of `MixRounds`).

What a compression or a hash returns is the environment's choice in the two
programs of screens: a pair of outputs is usual or odd, averages and biases pass or not,
and equal inputs give equal outputs.  How many odd pairs there are is bounded.

Three data abstractions run through the modules of the tree and its APIs.  Message bytes are numbers
that differ from each other, so a byte in the wrong place is seen.  The leaf,
chunk and length-field sizes are constants; the code's values (1024, 128 - 8,
8) are one instance.  `size_t` has `WorkspaceSlots` bits, as in the code where
the workspace has one slot per bit.

## The runs

| Run | Question | Bounds |
| --- | --- | --- |
| `descent` | Does the split ever refuse or mis-tile a range the API accepted, and does the level bound the depth? | every range of a 6-bit `size_t`, leaves of 3 bytes |
| `combine` | Can a client that combines any nodes it holds, under any description, build a second tree over the same bytes? | 4-bit `size_t`, leaves of 2, up to three nodes at a time |
| `process` | Does the binary counter build the top-down tree, and does a call fail only for a cause, leaking nothing? | every length of a 5-bit `size_t` at six offsets (aligned or not, the last leaf of `size_t` included), readers that stop 1 or 6 bytes short, `malloc` failing |
| `oneshot` | Is the digest that of the message the buffer held at the call, whatever the output overlaps? | every length of a 6-bit `size_t` under a one-byte length field (limit 31), five overlaps, `NULL` pointers, `malloc` failing |
| `stream` | Does a context implement `HashContext`, in any order of calls? | 5-bit `size_t`, leaves of 4, pieces of 0, 1, 3, 4, 5, 9 and 30 bytes, two messages, `calloc` failing |
| `stream_field` | The same where the length field is the limit | 6-bit `size_t`, one-byte length field |
| `stream_tamper` | Can a caller that overwrites the public `length` obtain a wrong digest, or have a failing final keep the storage? | 5-bit `size_t`, any value at any time |
| `mix` | Does every walk up and down the rounds agree with the compression loop, and does every message word enter every round? | words of 8 bits, twelve inputs, every window |
| `bench` | Do the counters of the allocator tell the truth, does a profile or a row say what was measured, are contexts on the stack given back, does the program end? | 4-bit `size_t`, header 2, blocks of 0, 6 and 14 bytes, four allocator calls per measurement, 2 odd measurements, chunks of no byte up to more than the input; each allocation, hash and clock failing |
| `tree_attacks` | Are the candidates of a screen different messages, are its statistics exact, does it fail only by misfortune and pass only with a clean report? | the code's leaf counts 3..33, 256 and 512 samples, 96 expandable pairs; leaves of 2 bytes, four collision samples of six states, one failed call, a long message six levels deep |
| `cryptanalysis` | The same of the fourteen checks of the compression function | the code's lists of rounds and cases; two samples, trail blocks of two words of two bits, tables of three candidates over four states, one odd pair (two among trails, one of them good for its line and too light for the gain) |
| `cli` | Are lines complete, does the exit code tell, are contexts freed, does the tool end? | standard input or up to two of ten kinds of file, buffer of 3, every failure of open, read, update, final, write |

Why the bounds are enough.  The tree code distinguishes a leaf count below, at
and above each power of two, and a last leaf that is short or full.  A 5-bit
`size_t` with leaves of 4 bytes gives messages of up to eight leaves: trees of
four levels, carries through three slots, folds over holes, and the guards at
`SIZE_MAX` itself.  The piece sizes include one byte, one less and one more
than a leaf, exactly a leaf, two leaves and a byte, and one that takes the
context to its limit in a single call; every offset of the pending buffer is
reached.  `PaddingMin` and the length field are chosen so that the marker and
the length fall on either side of a leaf boundary.  The field-limited and the
size-limited configurations are two runs because `#if` makes them two programs.

The screens take their control (lists of rounds, cases, leaf counts, sample
counts of the loops that build messages) from the code unchanged, and shrink only
what they sort or compare: every multiplicity up to four of a state, a table
where a key is absent, unique or repeated, and a statistic just below, at and
above its limit occur.  Where a real size matters for the claim, an `ASSUME`
that TLC evaluates states it at the real size: the nine levels of the 8 MiB
message with leaves of 1 KiB, and that the 4096 and 65536 candidate blocks differ.

No run gives up a deadlock check: where the program ends (`Returned`,
`Exited`, `Finished`, `LeafReached`, `Ended`) the model says so with an explicit
stuttering step.

Fairness is weak fairness of the program's own steps: `WF_vars(Step)` in
`FchCli`, `WF_vars(Stream)` of the measured client and `WF_vars(Program)` of the
benchmark in `Bench`.  Each is a single thread and the calls of the operating
system return, so it keeps taking steps until it has exited.  Termination is not
assumed: a loop that fails to advance (for instance one that does not move to
the next file) is fair and never ends.

## What is proved

The theorems hold for every value of the constants that satisfies the
assumptions declared beside them, never only for the sizes TLC uses:

- `ScheduleAssumption`: leaves of at least one byte, a `size_t` of at least two
  bits; `ChunkAssumption`: a record holds at least one byte of a leaf;
- `PaddingAssumption`: what the `#error` directives of `params.h` ask of the
  padding and the leaf, and that `size_t` holds the shortest padded message;
- `RootsAssumption`, `CombineApiAssumption`, `ProcessAssumption`,
  `CallAssumption`, `StreamAssumption`, `CliAssumption`, `InputAssumption`: the
  types of the arguments a client passes;
- `TrailAssumption`: a block of at least two words, and rotations that are no
  multiple of the word; `CryptanalysisAssumption`: the 16 rounds of `mix.h`, a
  reduced number of rounds from 2 to 15 to compare with them, a projection limit
  above zero, fewer candidates than there are different candidate blocks, and
  the types of the other sizes and limits;
- `BenchAssumption`: the types of sizes, lengths, times and profiles, a header of
  at least one byte, and that there is a target, a length, a trial and a pattern;
  no relation between the stride of the rotation and the number of cases is
  assumed, and none between sizes and `size_t` beyond being one;
- `MessageAssumption` and `AttackAssumption`: the sizes and sample counts of the
  attack screens.  A long message has room for its chunks and its buffer for a
  forged padding and an extension, what is added to it makes the tree no deeper,
  targets are whole leaves and at least four of them (mode 6 of the mutation
  divides by the pairs of leaves less one), and the largest message of the
  partition screen fits `size_t` at its highest offset: all constants of the
  code, with their values far inside.  The words of a state are naturals;
- `WordAssumption` (words of at least a byte) and `XorAssumption` (the two laws
  of exclusive or that the rounds use).

| Theorem | Says | Rests on |
| --- | --- | --- |
| `TreeProofs!SplitAlways` | every position of two leaves or more that the API accepts is split: none of the defensive checks of `fch_tree_split_position` fires and no unguarded sum or product overflows | the arithmetic of powers of two |
| `TreeClientProofs!DescentSplits`, `DescentTiles`, `DescentBounded`, `DescentTypes` | the properties of run `descent` | `DescentInvariant` |
| `TreeClientProofs!CombineOneTree`, `CombineSiblings` | the properties of run `combine`: whatever a client combines, it holds one node per range, and exactly the siblings combine | `HoldsTreeNodes`, `AcceptedAreSiblings` |
| `TreeClientProofs!ProcessSlots`, `ProcessRoot`, `ProcessFailures`, `ProcessKeeps` | the properties of run `process` | `ProcessIInv` |
| `TreeClientProofs!OneShotDigest`, `OneShotFailures`, `OneShotLeavesNothing` | the properties of run `oneshot` | `OneShotIInv` |
| `TreeClientProofs!AttackCandidates` | the messages a screen compares are different ones and fit their buffers | `AttackInvariant`, `CandidateOther`, `LongDiffer`, `HerdDiffers` |
| `TreeClientProofs!AttackMisfortune` | a screen fails only for want of memory or for odd digests: the tree gives each root, refusal and depth the screens demand of it | `AttackInvariant`, `SiblingsTaken`, `TakenAreSiblings`, `SubtreeMade` |
| `TreeClientProofs!AttackStatistics` | `StatsExact` of run `tree_attacks`: neighbours and runs of the sorted copies are the equal states and the pairs of equal prefixes of the samples | `OrderedSorts`, `PairsInRuns` |
| `TreeClientProofs!AttackReports` | what a passing screen counts it has tried, and the exit code follows | `AttackSteps` |
| `FchStreamProofs!StreamHolds`, `StreamDigest` | `StorageHoldsMessage` and `DigestIsReference` of run `stream_tamper`: the storage holds the bytes fed, and a digest is the reference's even when the caller overwrites `length` | `ContentsInv` |
| `FchStreamProofs!StreamImplements` | with an honest caller, the context implements `HashContext` | `OpenInv` |
| `FchStreamProofs!StreamReleases`, `StreamFailureIsFinal` | storage is released on every exit, also when `length` is overwritten; failure is permanent until init or free | `IInv` there; each action by itself |
| `FchCliProofs!CliLines`, `CliExitCode`, `CliFrees`, `CliBlocks` | every safety property of run `cli` | `CliInvariant` |
| `MixRoundsProofs!RoundUndone` | the inverse round undoes the round on every work state, for every block and word width | `RotationUndone`, `WrapUndone`, the laws of exclusive or |
| `MixRoundsProofs!MixWindows`, `MixTypes` | `WindowsAgree` and `TypeOK` of run `mix` | `WindowsCompose`, `WindowUndone` |
| `MixRoundsProofs!MixWordsEnter` | `EveryWordEnters` of run `mix`: no word of the block is left out of a round | `SigmaOnce`, `OneCallDiffers`, `MixGTells` |
| `CryptanalysisProofs!TrailsDiffer` | the two bits a trail flips are different bits of the block, for any block, word and rotations | the arithmetic of remainders |
| `CryptanalysisProofs!VerdictsTell` | `PassCoversReport` of run `cryptanalysis`, the unprinted gain of the trails included | `IInv` there, `StatisticsTell` |
| `CryptanalysisProofs!StatisticsTell` | `StatisticsExact` of run `cryptanalysis`: the lines of pairs, trails, projections, rebounds and searches are printed from exactly the comparisons made for them | `Told`, `JoinOfMeans`, `SearchOfMeans` |
| `CryptanalysisProofs!MisfortuneFails` | `FailsByMisfortune` of run `cryptanalysis`: without an odd output or average every check passes | `Uneventful`, `Told`, `InputsDiffer` |
| `BenchProofs!BenchCounters`, `BenchProfiles` | the counters of the tracking allocator are exact whatever is refused, and a profile is reported only of clean runs | `MeasureInv`, the algebra of sums |
| `BenchProofs!BenchRows` | no cell is read before it is written, rows are medians of their own case, exit code 0 means what the report says | `ProgramInv`, `OrderExists` |
| `BenchProofs!BenchGivesBack` | contexts on the stack and the buffer are given back | `StreamInv`, `ProgramInv` |

Together they answer the central question for every message, every cut of it and
every width of `size_t`: the one-shot API and the incremental API return the
digest that the top-down recursion of `fch_reference.py` defines, or fail for a
cause outside the library.

**The schedule.**  `LeastExponentAbove` picks the least exponent whose power
exceeds a number; that it exists, and is the only one, needs the equation of the
recursive function `Pow2` and the least-element principle.  Both are proved in
`NatLemmas` from the existence of least naturals, because the induction theorems
of the library take an operator as a parameter, which the provers cannot
instantiate; `NatLemmas` states induction over *sets* of naturals instead.  From
there: the largest power below a leaf count is at least half of it
(`LargestPower`), a whole number of leaves tiles its bytes (`LeavesOfWhole`,
`LeavesWithout`), so both children of a split are accepted ranges
(`AcceptsInside`) and their levels are below the parent's (`LevelAtMost`).
`SplitNumbers` collects these facts; `SplitAlways` reads the guards off it.

**The tree and the binary counter.**  `TreeEquation` shows that the recursion of
`Tree` is well founded, as both halves of a split are shorter; so the node of a
range is a leaf or the parent of its halves.  `SiblingsCombine` is the heart: a
full subtree of 2^l leaves and a right neighbour that is not empty and no larger
pass every check of `fch_combine_into`, and their combination is the tree over
both.  `Over(bytes, offset, length, i, j)` names the tree over leaves i to j - 1,
and `Counts` says of a workspace that slot l is the tree over the last full 2^l
of c leaves when bit l of c is set.  `Increment` is the arithmetic of adding one
to c, `CarryFollows` and `PushCounts` follow it through the carry chain, so a
push turns `Counts` of c into `Counts` of c + 1 and is never refused;
`FoldFollows` and `FoldCounts` show that the fold of c leaves is accepted and is
the tree over them all, from the lowest bit up.

**The descent.**  `TypeOK`, `SplitTotal` and `SplitTiles` are not inductive: the
range reached must also be known to be an *accepted* one inside the root, and
`DepthBounded` needs that each split lowers the level.  `DescentIInv` of
`TreeClientProofs` says just this, with the depth and the remaining level
together bounded by the root's level.

**The combining client.**  `OneTreePerRange` is not inductive: two nodes over a
range agree only because every node in hand is `TreeNode` of its range, which is
`HoldsTreeNodes`.  `AcceptedAreSiblings` reads from the checks of the combiner
that what it accepts is a full left subtree and a neighbour no larger.

**The leaf loop.**  `ProcessIInv` says that in the loop the slots satisfy
`Counts` of the leaves pushed and that the offset and the bytes left are those
behind them; so a push fails only if the reader refused a byte.  That the root's
level has a slot (`LevelFits`) needs leaves of two bytes or more, which follows
from `PaddingAssumption` (`LeafOfTwo`).

**The one-shot API.**  `OneShotIInv` composes that with the caller: while the
loop runs the input is the one of the call, the reader serves exactly the padded
message (`ReaderIsPaddedMessage`: every byte lies in the chunk by which its leaf reads
it, `ChunkHolds`, and wherever the chunk ends, `fch_padded_read` leaves that byte in it,
`ChunkIsPadded`), and the tests of the length accept
exactly the lengths the format can hash (`SupportsHashable`).  `Clobber` enters
only with the return, which is why an overlapping output is harmless.

**The attack screens.**  Nothing that `FailsByMisfortune` says is visible in the
state: a screen fails with cause "structure" when a call of the library does not
end as it demands, so the theorem asks, call by call, what the tree does.
`AttackIInv` says of each screen how its counters follow its loop (`ShapeSoFar`,
`PartitionSoFar`, `ReplacementSoFar`, `LongSoFar`, ...) and what its buffers hold,
and there is one lemma per screen that its step keeps the invariant and can end
in no structural failure (`ShapeGoes`, `PartitionGoes`, `ReplacementGoes`,
`LongGoes`, `TargetsGoes`, ...).  `SiblingsTaken` and `TakenAreSiblings` decide the forgeries: the combiner
takes a left block of a power of two of leaves and a neighbour no larger, under
the true description, and nothing else; the skewed, reversed, moved and
wrongly described pairs of the screens each miss one of these conditions.
A node from another place that is given the position of the one it replaces
(`GraftTaken`) is taken, and gives another node: nodes of one length over other leaves have other
words, because the headers of leaves and nodes hold the place of the first leaf
(`PlacesTellApart`).  `SubtreeMade` is the binary counter again: `make_subtree` gives the
node of the reference.

The messages differ for one reason each.  Whatever a mutation makes of a
target is made of the target's chunks and of random ones (`RewrittenMade`), so it is
no other target; and the check at its end gives one that came out unchanged
another bit (`CandidateOther`).  Of the fifteen long messages each pair is told apart by
its lengths or by a byte at a place that is named (`BaseTold`, `ValueTold`,
`LongerTold`, `LengthsTold`); that all of them have the same depth needs `PaddedGrows`, which
is monotony of the padding.  An expandable pair is a prefix and a suffix with
leaves between them (`ExpandableSays`), and fills its buffer at most.

`StatsExact` is about two sorted copies.  That they exist is `OrderExists` of
`NatLemmas`, for any order that compares all elements; a sorted
copy is then the samples behind a bijection (`OrderedSorts`, `PrefixedSorts`),
and what is counted through a bijection is the same count (`CountCarried`,
`PairsCarried`).  In a sorted copy the equal elements are one run, so the pairs of
equal elements are the sum over the runs of their pairs (`PairsInRuns`), and the
elements that differ from the one before them are as many as there are different
ones.  Both edges, a run of one element and one that ends with the table, are
cases of these lemmas.

**The stream.**  `ContentsInv` says of the storage that its workspace satisfies
`Counts` of the leaves processed and that its pending bytes are those behind
them.  The loop of `stream_append` is a recursive function; its invariant is
carried through `Ingest` by induction over the bytes left.  The message grows
while leaves are pushed, so `NodeIsLocal` and `CountsAreLocal` show that a node
depends on the bytes of its range alone.  `TailIsPadding` identifies the one or
two leaves that finalization pushes with the end of the padded message.  The
digest is the reference's even when the caller overwrites `length`, because the
output checks compare it with the bytes processed.  For the refinement,
`OpenInv` adds that an open context has counted the bytes fed, and
`TailAlwaysFits` that within the supported lengths no check of finalization
fires; here the caller must leave `length` alone (`~Tampering`).  `StorageReleased`
says that live storage belongs to a context that was fed or failed; it rests on
`AppendStorage`: `stream_append` can allocate only when it was given a byte, and
then either counts it or fails.

**The rounds.**  A half of G is undone because a sum modulo the word is undone by
the difference (`WrapUndone`), a rotation by the opposite one (`RotationUndone`,
where the two shifted parts are the quotient and the remainder), and an exclusive
or by itself; the four words are restored in the order that still finds what
each was mixed with.  Composed eight times this is `RoundUndone`.  The loops are
recursive functions; `LoopFollows` proves from `NatLemmas` that they exist, and
`WindowsCompose` and `WindowUndone` are inductions on the number of rounds.
`TypeOK /\ WindowsAgree` is inductive as it stands.
That every word enters (`MixWordsEnter`) uses the same inverse.  Each row of sigma
is a permutation (`SigmaOnce`), so two blocks that differ in one word differ in
one of the two words of exactly one call of G (`OneCallDiffers`).  That call gives
different states, because the first sum of the half that takes the word
differs and what follows can be undone (`MixGTells`); the calls before it agree, and
those after it are undone one by one (`RoundTells`).

**The tool.**  That a printed line is complete depends on the whole history of
the block loop.  `IInv` of `FchCliProofs` ties the variables together:
`FileInHand` (which program points hold an open file, and that it is the
argument at `index`), `ReadSoFar` (how far the file can have been read, given
where it fails), `ContextFollows` (the phase and the absorbed bytes of the
context at each program point), `LinesSoFar` and `ExitCodeSoFar` (lines and exit
code as functions of the files already finished).  The context is the abstract
`HashContext`, so the theorems rely on its promise, which `StreamImplements`
discharges, and not on the tree.

**The checks.**  `PassCoversReport` says that a check returns success only if
every line it printed was good, and that the program's exit code follows.  Its `IInv`
ties `all_ok`, the conjunction the code accumulates, to `bad`, what was printed:
`all_ok` excludes a bad line in every check, and the converse holds in every
check but the trail search, which also fails for too little gain.  That no line
shows, so the property says it: with no FAIL, `all_ok` is left set exactly when the
lightest trail of all sixteen rounds weighs 128 more than the lightest of the first
(`TrailLineTells`).  Since the code compares two of its statistics there, this
rests on `StatisticsTell` (`GainIsOfTrails`).

`StatisticsExact` has a part for each kind of check (`PairsExact`, `TrailsExact`
over all sixteen rounds, `ProjectionsExact`, `ReboundExact`, `SearchesExact`), and
speaks of the moment a line is printed.  It says nothing of the counts of the checks of linear
correlation, round trips, fixed points and near collisions: the first is a sum of
floating-point numbers, the others count what their limits allow none of.  The inductive invariant `Told` says the
same of every moment in between: what the statistics tell of the comparisons made
*so far* for this line, and nothing of any other.  `RecordMeans` is the step
of `record_trail_stats` on totals and extremes (`Means`, which `MeansPairs` turns into the
properties' own words); the trails need besides that the best is the first of the lightest
(`BestTells`), and the projections that one static table of buckets counts for one
characteristic at a time while the maximum is kept over all of them
(`ProbabilityTells`).  For the searches, a sorted table lists each candidate once
(`TableTabulates`); the binary search keeps every smaller key on its left and
every other on its right while the interval shrinks (`HalveKeeps`,
`LowerBoundIs`), so the scan from there visits exactly the entries with the key
(`ScannedIs`) and the join counts exactly the pairs with equal keys
(`JoinOfMeans`).  The output search compares within runs of the table; its nested loops
find the maximal runs (`NextRunKeeps`, `RunsAreMaximal`), and
`PairsOfRuns` shows that these are all the pairs with one key (`SearchOfMeans`).

`FailsByMisfortune` needs to know what a line sees when nothing was odd:
`Uneventful` says that then no verdict is lost and everything compared for the
line was `Ordinary`.  That rests on the inputs: no rounds are asked for that the
function refuses (`RoundsOf`), and the two inputs of a comparison differ in every
check (`InputsDiffer`, with `TrailsDiffer` for the trails and
`BlocksDiffer`, `OutputBlocksDiffer` for the candidates, which are the digits of
a number).  With `Told`, ordinary comparisons make every limit hold, check by check
(`DifferentialWell`, `ProbabilityWell`, `ReportedTrailsWell`, `ReboundWell`, ...);
in the two searches the planted candidate is found and nothing else
(`JoinIsGood`, `SearchIsGood`).  Of the limits only that of a projection is assumed to be
above zero; more matches in a search than its limit are one of the oddities that
the environment may choose.

**The benchmark.**  The byte counter is a number, what it should equal is a sum over
the bag of live blocks, computed by a fold of the community modules.  `NatLemmas`
derives the equation of that fold by induction over *subsets* (`SubsetInduction`,
`SumExists`) and shows that the element taken out does not matter (`SumSplits`);
adding or taking one block then changes the sum by its size (`BlockAdded`,
`BlockTaken` of `BenchProofs`).  `AccountingExact` is then inductive together with `RunsSoFar`,
which knows at each program point how many runs the counted calls belong to; so
the division in `Finish` is exact or refused.

In the program, `ReadsOnlyWritten` and `RowsAreMedians` depend on which trial has
visited which cell.  `SamplesSoFar` says that cell (c, t) is filled when t is
behind, or when t is the trial in hand and the rotation took c to a position
behind.  That the rotation leaves no case out, for any stride and number of cases, is
`RotationTurns`, from `ShiftOnto`: adding a constant modulo n is onto.  `SeenSoFar`
and `TargetsSoFar` tie the expected profile to the profiles that were measured,
which is what an exit code of 0 speaks of.  The median of a row needs that an
ascending order exists: `OrderExists` builds one, putting the greatest element
last, and `MedianSplits` counts the trials on either side of the middle.

## What is only model-checked

`Terminates` of the tool and of the benchmark: liveness under fairness, and
`ENABLED`, are beyond the prover.  Every other property of every run is stated by
a theorem.  Where a proof needs induction over data (the folds, the sorted
tables, the binary search), it does without the induction theorems of the library,
whose operator parameters the provers cannot instantiate: `NatLemmas` states
induction over *sets* of numbers and of subsets.

What TLC shows holds for the bounds listed above.  Messages there have pairwise
different bytes: the code never branches on a byte, so a message with equal
bytes could only hide a misplaced byte, never produce one.  The modules that
theorems are about hold no RECURSIVE operator: recursion is written as recursive
functions, whose equations are proved.

## What is not modelled

- The composition of the tree with the ARX rounds: the tree models take the
  compression function as a free constructor, and `MixRounds` looks at it alone.
  Collisions, diffusion and the numerical value of a digest are outside these
  models, and so are the constants of `FCH_MIX_IV` and the byte order of
  `fch_load_le64` and `fch_store_le64`.
- The debug hooks, which only observe (the depth hook is what `Deepest` of
  `TreeAttacks` reads); the fuzz driver, which spawns processes; the comparison of
  captures in `fch_benchmark.py`.
- `fch_diffusion.c`, whose loops flip bits and average, with no state beyond
  sums of floating-point numbers; the Python scripts under `analysis/`, which
  sample or print.  The averages, biases and correlations of the modelled screens
  are a free choice for the same reason.
- Where the buffers of a screen are freed: every early return is one outcome.
- The option parsing of the tool (`-h`, `-256`, `-512` are reduced to a choice of
  variant), and the binary mode of standard input on Windows.
- Concurrent use of one context: the API does not promise any.
- Reading past a stale pointer inside the library: `storage` and `heap` say when
  memory is live, and the properties say that no live memory is lost; the C
  object model is not represented beyond that.
- `fch256_init` on a context that still holds storage.  The code overwrites the
  pointer; the guard of `InitContext` states the caller's obligation to free first.  `ContextFreed` shows the tool meets it.

## Hazards

`PROJECT.json` lists each place where this code could go wrong in a way a test
would hardly reach, with the properties that watch it.  They fall into five
groups: powers of two and limits of `size_t` (`descent`, `process`, `stream`),
orders of calls (`combine`, `stream`, `stream_tamper`), failures half way
(`process`, `stream`, `cli`, `bench`), buffers read after they may have changed
(`oneshot`, `stream_tamper`), and statistics or verdicts that count something
else than they say (`bench`, `tree_attacks`, `cryptanalysis`).  The rounds add
the order in which words are restored and the bounds of a window (`mix`).

## What modelling brought to light

None of these is a wrong digest; each is a place where a text or a report says
something else than the code does, and none is claimed by a run.

- `spec/implementation_notes.md:186-188` says a measurement fails if any allocation
  stays live.  The check compares byte counters, so a live block of zero bytes
  passes (`BenchMeasure` counts blocks as well as bytes).
- `spec/validation_status.md:160-161` tells of two allocations for the 8 MiB
  one-shot input, where `validate_scaling` requires a single one of 64 bytes.
- With 32-bit rotations the trail pattern `r32` pairs bit b with b + 32 and
  b + 32 with b, so each unordered pair is visited twice.
- The shape, replacement and partition screens count a refusal for want of memory
  as a rejection of the forged node.
- The candidates of the second-preimage screen repeat, though its report
  counts all 512.
- The trail search may fail with every printed line PASS, for too little gain.
- The rebound check accepts `min_middle >= 256` while `low_middle` counts weights of
  at most 256: the limit that decides is 257.
- The fixed-point check compares the second image with the first for the core but
  not for the hash.

## The plan

The order was: the schedule and the tree, the APIs, the tool, the rounds; then
the programs that measure and attack them.  What is left to model:

1. `SecondPreimageGeometry`: the counting of `fch_second_preimage_bounds.py`
   against a direct enumeration of the tree.
2. The comparison with a baseline in `fch_benchmark.py`.
3. The options of the command line tool and the branches they take.

What is left to prove is liveness: no safety property, action property or
refinement of the runs is without its theorem.
