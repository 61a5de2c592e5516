------------------------------- MODULE Sorting -------------------------------
(***************************************************************************)
(* qsort of the C library, as the analysis programs call it: with a         *)
(* comparison that puts any two elements in order.                         *)
(***************************************************************************)
EXTENDS SequencesExt

\* The elements in an order in which none comes before an earlier one.
Sorted(s, Before(_, _)) ==
    LET indices == 1..Len(s)
        order == CHOOSE p \in Bijection(indices, indices) :
                     \A a, b \in indices :
                         a < b => ~Before(s[p[b]], s[p[a]])
    IN  [i \in indices |-> s[order[i]]]
=============================================================================
