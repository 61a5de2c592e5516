---------------------------- MODULE TrailSearch ----------------------------
(***************************************************************************)
(* The inputs the screens of src/analysis/fch_cryptanalysis.c compare, and  *)
(* the statistics (trail_stats_t) they keep of the differences between the  *)
(* outputs.  A block that differs from the screen's base block is the set   *)
(* of the bits that differ.                                                *)
(***************************************************************************)
EXTENDS Naturals, Sequences, FiniteSets

CONSTANTS
    BlockWords, WordBits,      \* of the blocks of the trail search: 16 and 64
    Rotations,                 \* its rotations: 32, 24, 16 and 63
    ByteValues, MaskValues     \* 256, and the 16 values of a masked byte

ASSUME TrailAssumption ==
    /\ {BlockWords, WordBits, ByteValues, MaskValues} \subseteq Nat \ {0}
    /\ BlockWords >= 2
    /\ Rotations \in Seq(Nat)
    /\ \A p \in DOMAIN Rotations : Rotations[p] % WordBits # 0

Bits == 0..(BlockWords * WordBits - 1)

\* One bit, a bit and the one a rotation away, a bit and that of the next word.
Patterns == 0..(Len(Rotations) + 1)

\* Exclusive or with one bit.
Flip(bits, bit) == IF bit \in bits THEN bits \ {bit} ELSE bits \cup {bit}

\* Mutant: the word of the bit itself.
SameWordBit(bit, pattern) ==
    LET word == bit \div WordBits
        word_bit == bit % WordBits
    IN
    word * WordBits + (IF pattern \in DOMAIN Rotations
                       THEN (word_bit + Rotations[pattern]) % WordBits
                       ELSE word_bit)

PairedBit(bit, pattern) ==
    LET word == bit \div WordBits
        word_bit == bit % WordBits
    IN
    IF pattern \in DOMAIN Rotations
    THEN word * WordBits + ((word_bit + Rotations[pattern]) % WordBits)
    ELSE ((word + 1) % BlockWords) * WordBits + word_bit

TrailDifference(pattern, bit_a, bit_b) ==
    IF pattern = 0 THEN Flip({}, bit_a) ELSE Flip(Flip({}, bit_a), bit_b)

-----------------------------------------------------------------------------
(* What the other screens compare, case by case: cases count from 0. *)

DifferentialBits == << 0, 63, 511, 1023 >>

RotationAmounts == << 1, 8, 16, 24, 32, 63 >>

\* The bits that are set in what is added to a word.
Deltas == << {0}, {31}, {63}, {0, 8, 16, 24, 32, 40, 48, 56} >>

None == 1024                \* SIZE_MAX

CharacteristicBits ==
    << <<0, None>>, <<63, None>>, <<64, None>>, <<511, None>>,
       <<0, 32>>, <<0, 64>>, <<63, 127>>, <<511, 1023>> >>

Characteristic(case) ==
    LET bits == CharacteristicBits[case + 1] IN
    IF bits[2] = None THEN Flip({}, bits[1])
    ELSE Flip(Flip({}, bits[1]), bits[2])

Context(counter, domain, flags) ==
    [counter |-> counter, domain |-> domain, flags |-> flags]

RelatedContexts ==
    LET leaf == Context("n", "leaf", {"leaf data"}) IN
    << <<leaf, Context("n + 1", "leaf", {"leaf data"})>>,
       <<leaf, Context("n ^ top", "leaf", {"leaf data"})>>,
       <<leaf, Context("n", "node", {"node child"})>>,
       <<leaf, Context("n", "output 256", {"output", "final"})>>,
       <<Context("n", "output 256", {"output", "final"}),
         Context("n", "output 512", {"output", "final"})>>,
       <<leaf, Context("n", "leaf", {"leaf header"})>>,
       <<leaf, Context("n", "leaf ^ 1", {"leaf data"})>>,
       <<leaf, Context("n + 1", "leaf ^ 1", {"node child"})>> >>

\* candidate_block changes the first and the last byte of the base, the last
\* in its low bits; output_candidate_block sets bytes 11 and 116.
CandidateBlock(candidate) ==
    << candidate % ByteValues, (candidate \div ByteValues) % MaskValues >>

OutputCandidateBlock(candidate) ==
    << candidate % ByteValues, (candidate \div ByteValues) % ByteValues, 0 >>

\* Its byte 73 is changed as well.
UnplantedBlock(candidate) == [OutputCandidateBlock(candidate) EXCEPT ![3] = 1]

-----------------------------------------------------------------------------
(* trail_stats_t.  A pair of outputs is the weight of its difference and the  *)
(* number of words that differ; a place is where it was found: base,       *)
(* pattern, bit_a and bit_b.                                               *)

EmptyStats(width, words) ==
    [total_weight |-> 0, minimum_weight |-> width, maximum_weight |-> 0,
     minimum_active_words |-> words, zero_differences |-> 0,
     best |-> <<0, 0, 0, 0>>]

Record(stats, pair, place) ==
    [total_weight |-> stats.total_weight + pair.weight,
     minimum_weight |-> IF pair.weight < stats.minimum_weight
                        THEN pair.weight ELSE stats.minimum_weight,
     maximum_weight |-> IF pair.weight > stats.maximum_weight
                        THEN pair.weight ELSE stats.maximum_weight,
     minimum_active_words |-> IF pair.active < stats.minimum_active_words
                              THEN pair.active
                              ELSE stats.minimum_active_words,
     zero_differences |-> stats.zero_differences
                              + (IF pair.weight = 0 THEN 1 ELSE 0),
     best |-> IF pair.weight < stats.minimum_weight THEN place ELSE stats.best]
=============================================================================
