---------------------------- MODULE MCCombineApi ----------------------------
EXTENDS CombineApi

MCInput == [o \in 0..SizeMax |-> 1 + o]
=============================================================================
