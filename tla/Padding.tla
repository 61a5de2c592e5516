------------------------------ MODULE Padding ------------------------------
(***************************************************************************)
(* The padded message: its bytes, its length, and the lengths that are      *)
(* refused.  params.h, stream_length_supported in fch_stream.c, the opening *)
(* guards of fch_hash_checked in fch.c, and _pad in tools/fch_reference.py. *)
(***************************************************************************)
EXTENDS TreeSchedule

CONSTANTS
    LengthBytes,   \* bytes of the encoded bit length, 8 in the code
    PaddingMin     \* FCH_PADDING_MIN_BYTES, 64 in the code

Overhead == LengthBytes + 1        \* the marker and the length: 9u

\* The #error directives of params.h; size_t has 16 bits at least and holds
\* FCH_PADDING_MIN_BYTES, 64 in the code.
ASSUME PaddingAssumption ==
    /\ LengthBytes \in Nat \ {0}
    /\ PaddingMin \in Nat
    /\ PaddingMin >= Overhead
    /\ LeafBytes >= PaddingMin
    /\ PaddingMin <= SizeMax

Byte == 0..255
Marker == 128                      \* 0x80
ZeroByte == 0

\* UINT64_MAX / 8: the longest message whose bit length the field can hold.
FieldMax == (Pow2[8 * LengthBytes] - 1) \div 8

\* Byte k of the little-endian bit length of a message of the given length.
LengthByte(length, k) == ((8 * length) \div Pow2[8 * k]) % 256

\* Mutant: only size_t limits the length.
SizeSupported(length) == length <= SizeMax - Overhead

\* The tests of `length` alone.  In the code the second one is compiled only
\* when SIZE_MAX exceeds the field, and is true otherwise.
LengthSupported(length) ==
    /\ length <= SizeMax - Overhead
    /\ length <= FieldMax

PaddedLength(length) ==
    IF length + Overhead < PaddingMin THEN PaddingMin ELSE length + Overhead

\* Byte i of the padded form of a message of the given length, message[i]
\* being its bytes.
PaddedByte(message, length, i) ==
    LET footer == PaddedLength(length) - LengthBytes IN
    IF i < length THEN message[i]
    ELSE IF i = length THEN Marker
    ELSE IF i >= footer THEN LengthByte(length, i - footer)
    ELSE ZeroByte

\* The lengths the format defines a digest for on this machine: the padded
\* message has a size_t length, and the bit length fits its field.
Hashable(length) ==
    /\ PaddedLength(length) <= SizeMax
    /\ 8 * length < Pow2[8 * LengthBytes]

PaddedMessage(message, length) ==
    [i \in 0..(PaddedLength(length) - 1) |-> PaddedByte(message, length, i)]
=============================================================================
