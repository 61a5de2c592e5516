--------------------------- MODULE MCTreeAttacks ---------------------------
EXTENDS TreeAttacks

\* The geometry of the code: 1 KiB leaves.  A message of 256 leaves and its
\* padding, whatever is added to it within 128 bytes, is nine levels deep.
Real == INSTANCE TreeSchedule WITH LeafBytes <- 1024, WorkspaceSlots <- 30

ASSUME LongMessagesAreNineLevelsDeep ==
    \A added \in 0..128 : Real!Level(Real!LeafCount(262144 + added + 9)) = 9
=============================================================================
