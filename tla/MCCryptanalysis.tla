-------------------------- MODULE MCCryptanalysis --------------------------
EXTENDS Cryptanalysis

\* A key below, between and above the others, and two states of one key.
MCTableStates ==
    {[key |-> 0, rest |-> 0], [key |-> 1, rest |-> 0],
     [key |-> 1, rest |-> 1], [key |-> 2, rest |-> 0]}

\* A half turn of the words of the small blocks.
MCRotations == << 1 >>

\* The candidates of the code have different blocks.
Real == INSTANCE TrailSearch WITH
            BlockWords <- 16, WordBits <- 64, Rotations <- << 32, 24, 16, 63 >>,
            ByteValues <- 256, MaskValues <- 16

ASSUME RealCandidatesDiffer ==
    /\ Cardinality({Real!CandidateBlock(c) : c \in 0..4095}) = 4096
    /\ Cardinality({Real!OutputCandidateBlock(c) : c \in 0..65535}) = 65536
=============================================================================
