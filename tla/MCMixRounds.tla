---------------------------- MODULE MCMixRounds ----------------------------
EXTENDS MixRounds, Bitwise

XorTable == [pair \in Word \X Word |-> pair[1] ^^ pair[2]]

MCBitXor(a, b) == XorTable[<<a, b>>]

\* The first byte of each word of FCH_MIX_IV.
MCIV == [i \in 0..7 |-> << 106, 187, 60, 165, 81, 155, 31, 91 >>[i + 1]]

Zero == [i \in Indices |-> 0]
Ones == [i \in Indices |-> 255]
Rising == [i \in Indices |-> (37 * i + 11) % 256]

MCInputs ==
    { [state |-> MCIV, message |-> m, block_length |-> length,
       counter |-> c, domain |-> 70, flags |-> 130] :
         m \in {Zero, Ones, Rising}, length \in {0, 16, 17}, c \in {0, 255} }
=============================================================================
