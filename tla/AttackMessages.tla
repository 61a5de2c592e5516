--------------------------- MODULE AttackMessages ---------------------------
(***************************************************************************)
(* The messages the attack screens of src/analysis/fch_tree_attacks.c hash. *)
(* A buffer is a function from the positions written so far, in units that  *)
(* divide every position used: the chunk for mutate_second_preimage, the    *)
(* leaf for the expandable messages, the byte for the long ones.           *)
(***************************************************************************)
EXTENDS Naturals, Sequences, FiniteSets

CONSTANTS
    LeafChunks,       \* FCH_TREE_LEAF_BYTES / ATTACK_CHUNK_SIZE
    ChunkLength,      \* ATTACK_CHUNK_SIZE in bytes
    LongLength,       \* LONG_MESSAGE_LENGTH
    LongChunk,        \* LONG_CHUNK_SIZE
    LongUnit,         \* ATTACK_CHUNK_SIZE in the long messages
    FooterLength,     \* a forged padding: marker and bit length, 9 in the code
    ExtensionLength   \* sizeof(extension)

ASSUME MessageAssumption ==
    /\ {LeafChunks, ChunkLength, LongLength, LongChunk, LongUnit,
        FooterLength, ExtensionLength} \subseteq Nat \ {0}
    /\ LongLength >= 9 * LongChunk
    /\ 2 <= LongUnit /\ LongUnit <= LongChunk
    \* The work buffer has room for a forged padding and an extension.
    /\ FooterLength + ExtensionLength <= 2 * LongUnit

\* memcpy of data, a function from 0, to a position of a buffer.
Put(buffer, at, data) ==
    LET written == {at + c : c \in DOMAIN data} IN
    [p \in DOMAIN buffer \cup written |->
        IF p \in written THEN data[p - at] ELSE buffer[p]]

Slice(buffer, from, count) == [c \in 0..(count - 1) |-> buffer[from + c]]

\* fill_bytes of count units from a stream and a seed.
Filling(stream, seed, count) == [c \in 0..(count - 1) |-> <<stream, seed, c>>]

Exchange(buffer, a, b, count) ==
    Put(Put(buffer, a, Slice(buffer, b, count)), b, Slice(buffer, a, count))

-----------------------------------------------------------------------------
(* mutate_second_preimage *)

Modes == 8                   \* SECOND_PREIMAGE_MODES

OtherThan(first, second, count) ==
    IF first = second THEN (second + 1) % count ELSE second

\* The byte mode 0 changes: sample * 2654435761 + 17 in size_t, modulo a power
\* of two that divides 2^14, in numbers that fit.
BytePosition(sample, length) == (sample * (14769 % length) + 17) % length

\* The chunks of a candidate, before and after the check that it is another
\* message.  flips are the bytes that differ by a bit from their chunk's.
Rewritten(target, sample) ==
    LET chunk_count == Cardinality(DOMAIN target)
        leaf_count  == chunk_count \div LeafChunks
        subtrees    == leaf_count \div 2
        m           == sample \div Modes
        LeafFrom(i) == Slice(target, i * LeafChunks, LeafChunks)
    IN
    CASE sample % Modes = 0 -> target
      [] sample % Modes = 1 ->
             Put(target, (sample * 17) % chunk_count, Filling("mutation", sample, 1))
      [] sample % Modes = 2 ->
             LET first == (sample * 29) % chunk_count IN
             Exchange(target, first,
                      OtherThan(first, (sample * 73 + 1) % chunk_count,
                                chunk_count), 1)
      [] sample % Modes = 3 ->
             LET source == (sample * 43) % chunk_count IN
             Put(target, OtherThan(source, (sample * 101 + 3) % chunk_count,
                                   chunk_count),
                 Slice(target, source, 1))
      [] sample % Modes = 4 ->
             Put(target, ((m * 11 + 3) % leaf_count) * LeafChunks,
                 Filling("mutation", sample, LeafChunks))
      [] sample % Modes = 5 ->
             LET first == (m * 5) % leaf_count IN
             Exchange(target, first * LeafChunks,
                      OtherThan(first, (m * 13 + 1) % leaf_count, leaf_count)
                          * LeafChunks, LeafChunks)
      [] sample % Modes = 6 ->
             LET source      == (m * 3) % subtrees
                 distance    == 1 + ((m * 5) % (subtrees - 1))
                 destination == (source + distance) % subtrees
             IN  Put(target, destination * 2 * LeafChunks,
                     Slice(target, source * 2 * LeafChunks, 2 * LeafChunks))
      [] OTHER ->
             LET multiplier == 1 + (2 * (m % 8))
                 shift      == 1 + ((m \div 8) % 8)
             IN  [c \in DOMAIN target |->
                     LeafFrom((multiplier * (c \div LeafChunks) + shift)
                                  % leaf_count)[c % LeafChunks]]

Flipped(target, sample) ==
    IF sample % Modes = 0
    THEN {BytePosition(sample, Cardinality(DOMAIN target) * ChunkLength)}
    ELSE {}

\* Mutant: the candidate is not compared with its target.
Unchecked(chunks, flips, target, sample) == [chunks |-> chunks, flips |-> flips]

\* A candidate that is still the target has one more bit flipped.
Checked(chunks, flips, target, sample) ==
    [chunks |-> chunks,
     flips  |-> IF chunks = target /\ flips = {}
                THEN {(sample * 13 + 1)
                          % (Cardinality(DOMAIN target) * ChunkLength)}
                ELSE flips]

Candidate(target, sample) ==
    Checked(Rewritten(target, sample), Flipped(target, sample), target, sample)

Same(candidate, target) == candidate.chunks = target /\ candidate.flips = {}

-----------------------------------------------------------------------------
(* long_message_screen *)

LongBase == Filling("base", 0, LongLength)
WorkLength == LongLength + 2 * LongUnit          \* + 128u

\* The bytes of both sides of a few chunk boundaries get a bit changed.
Boundaries ==
    {LongUnit - 1, LongUnit, 2 * LongUnit - 1, 2 * LongUnit,
     LongLength - LongUnit - 1, LongLength - LongUnit}

FlipBoundaries(buffer) ==
    [p \in DOMAIN buffer |->
        IF p \in Boundaries THEN <<"flipped", p>> ELSE buffer[p]]

Value(v, count) == [c \in 0..(count - 1) |-> <<"value", v>>]

Pattern == [c \in 0..(LongLength - 1) |->
               <<"value", (c * 131 + c \div 17) % 256>>]

Footer == [c \in 0..(FooterLength - 1) |->
              IF c = 0 THEN <<"value", 128>> ELSE <<"bit length", c>>]

Extension == Filling("extension", 0, ExtensionLength)

\* A message in a buffer: its first `length` bytes.
Hashed(work, length) == [work |-> work, length |-> length]

\* The 15 messages in the order they are hashed, each as the contents of the
\* work buffer, given what it held, and the length hashed.  The first, fourth
\* and fifth are hashed from the base buffer.
LongVariant(v, work) ==
    LET L       == LongLength
        base    == LongBase
        copied  == Put(work, 0, base)
        back    == L - 2 * LongChunk
    IN
    CASE v = 1 -> Hashed(base, L)
      [] v = 2 -> Hashed(Put(copied, L, Value(1, 1)), L + 1)
      [] v = 3 -> Hashed(Put(copied, L, Filling("suffix", 0, LongUnit)),
                         L + LongUnit)
      [] v = 4 -> Hashed(base, L - 1)
      [] v = 5 -> Hashed(base, L - LongUnit)
      [] v = 6 -> Hashed(Put(Put(work, 0, Filling("prefix", 0, LongUnit)),
                             LongUnit, base),
                         L + LongUnit)
      [] v = 7 -> Hashed(Put(Put(copied, L, Footer), L + FooterLength,
                             Extension),
                         L + FooterLength + ExtensionLength)
      [] v = 8 -> Hashed(Put(copied, L, Extension), L + ExtensionLength)
      [] v = 9 -> Hashed(Exchange(copied, LongChunk, back, LongChunk), L)
      [] v = 10 -> Hashed(Put(copied, 3 * LongChunk,
                              Slice(base, 7 * LongChunk, LongChunk)), L)
      [] v = 11 -> Hashed(Put(Put(copied, 0, Slice(copied, LongChunk,
                                                   L - LongChunk)),
                              L - LongChunk, Slice(copied, 0, LongChunk)), L)
      [] v = 12 -> Hashed(FlipBoundaries(copied), L)
      [] v = 13 -> Hashed(Put(work, 0, Value(0, L)), L)
      [] v = 14 -> Hashed(Put(work, 0, Value(255, L)), L)
      [] v = 15 -> Hashed(Put(work, 0, Pattern), L)

FromBase == {1, 4, 5}        \* the variants that leave the work buffer alone

Message(hashed) == Slice(hashed.work, 0, hashed.length)

-----------------------------------------------------------------------------
(* expandable_message_screen and herding_screen, in leaves *)

SuffixLeaves == 2            \* EXPANDABLE_SUFFIX_LENGTH
MaxExtraLeaves == 4          \* EXPANDABLE_MAX_EXTRA_LEAVES
ExpandableCapacity == 1 + MaxExtraLeaves + SuffixLeaves

\* Mutant: one extra leaf more.
ExtraFromTwo(sample) == 2 + (sample % MaxExtraLeaves)

ExtraLeaves(sample) == 1 + (sample % MaxExtraLeaves)

ShortMessage(buffer, sample) ==
    Put(Put(buffer, 0, Filling("prefix", sample, 1)), 1,
        Filling("suffix", 0, SuffixLeaves))

HerdingMessage(prefix) ==
    Put(Filling("prefix", prefix, 1), 1, Filling("suffix", 0, 3))

LongMessage(buffer, short, sample) ==
    LET extra == ExtraLeaves(sample) IN
    Put(Put(Put(buffer, 0, Slice(short, 0, 1)), 1,
            Filling("extra", sample, extra)),
        1 + extra, Filling("suffix", 0, SuffixLeaves))

-----------------------------------------------------------------------------
(* variant_reuse_screen *)

ReuseMaxLength == 8192       \* VARIANT_REUSE_MAX_LENGTH

ReuseLength(sample) == (sample * 4051) % (ReuseMaxLength + 1)
=============================================================================
