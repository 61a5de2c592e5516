------------------------------- MODULE Powers -------------------------------
EXTENDS Naturals

\* Powers of two, as a function so that facts about it can be proved.
Pow2[n \in Nat] == IF n = 0 THEN 1 ELSE 2 * Pow2[n - 1]
=============================================================================
