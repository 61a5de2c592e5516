--------------------------- MODULE MCTreeDescent ---------------------------
EXTENDS TreeDescent

\* Every range of the 6-bit size_t, aligned or not: Init keeps the accepted
\* ones, so roots run up to the last leaf that fits.
AllRoots == (0..SizeMax) \X (0..SizeMax)
=============================================================================
