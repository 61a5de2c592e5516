--------------------------- MODULE MCFchOneShot ---------------------------
EXTENDS FchOneShot

Buffer(length) == [o \in 0..(length - 1) |-> 1 + o]

\* The output is elsewhere, at the start, in the middle or at the end of the
\* input, or over all of it.
Overlaps(length) ==
    {{}, DOMAIN Buffer(length), DOMAIN Buffer(length) \cap (0..3),
     DOMAIN Buffer(length) \cap (5..8),
     DOMAIN Buffer(length) \cap ((length - 2)..length)}

MCCalls ==
    UNION {[variant : Variants, length : {n}, input : {Buffer(n)},
            overlap : Overlaps(n), inputGiven : BOOLEAN,
            outputGiven : BOOLEAN, memory : BOOLEAN] : n \in 0..SizeMax}
=============================================================================
