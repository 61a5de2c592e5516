---------------------------- MODULE MCFchStream ----------------------------
EXTENDS FchStream

\* Messages whose bytes all differ, so a byte out of place is seen.
Rising  == [i \in 0..SizeMax |-> 1 + i]
Falling == [i \in 0..SizeMax |-> 255 - i]

MCMessages == {Rising, Falling}
MCOneMessage == {Rising}
=============================================================================
