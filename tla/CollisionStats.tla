--------------------------- MODULE CollisionStats ---------------------------
(***************************************************************************)
(* collision_stats of src/analysis/fch_tree_attacks.c: collisions and near  *)
(* collisions among the states of a screen, found by sorting them once by   *)
(* their words and once by the prefix of their first word.  A state is the  *)
(* pair of its prefix and of what is left of its words.                    *)
(***************************************************************************)
EXTENDS Sorting

\* compare_states: a total order of the words.  The prefix is the LOW bits of the
\* first word, so states of one prefix need not be neighbours.
WordsBefore(a, b) ==
    \/ a.rest < b.rest
    \/ a.rest = b.rest /\ a.prefix < b.prefix

Ordered(states) == Sorted(states, WordsBefore)

Prefixed(states) ==
    Sorted([i \in DOMAIN states |-> states[i].prefix], LAMBDA a, b : a < b)

ExactCollisions(ordered) ==
    Cardinality({i \in 2..Len(ordered) : ordered[i - 1] = ordered[i]})

\* The runs of equal prefixes: where they start, and how long they are.
RunStarts(prefixes) ==
    {i \in 1..Len(prefixes) : i = 1 \/ prefixes[i - 1] # prefixes[i]}

\* Mutant: a run ends one short of the next.
ShortBucket(prefixes, start) ==
    Cardinality({i \in (start + 1)..Len(prefixes) :
                    prefixes[i] = prefixes[start]})

Bucket(prefixes, start) ==
    Cardinality({i \in start..Len(prefixes) :
                    \A j \in start..i : prefixes[j] = prefixes[start]})

Stats(ordered, prefixes) ==
    [truncated_pairs  |->
         MapThenSumSet(
             LAMBDA s : (Bucket(prefixes, s) * (Bucket(prefixes, s) - 1))
                            \div 2,
             RunStarts(prefixes)),
     maximum_bucket   |-> Max({Bucket(prefixes, s) : s \in RunStarts(prefixes)}),
     exact_collisions |-> ExactCollisions(ordered)]

\* collision_stats of at least one state, its mallocs granted.
StatsOf(states) == Stats(Ordered(states), Prefixed(states))

NoStats ==
    [truncated_pairs |-> 0, maximum_bucket |-> 1, exact_collisions |-> 0]

\* What the fields mean: the pairs with equal prefixes, the most states with
\* one prefix, and the states that are not the first of their kind.
StatsMean(states, stats) ==
    LET n == Len(states)
        SamePrefix(i) == {j \in 1..n : states[j].prefix = states[i].prefix}
    IN
    /\ stats.truncated_pairs =
           Cardinality({p \in (1..n) \X (1..n) :
                           p[1] < p[2] /\ p[2] \in SamePrefix(p[1])})
    /\ stats.maximum_bucket = Max({Cardinality(SamePrefix(i)) : i \in 1..n})
    /\ stats.exact_collisions = n - Cardinality(ToSet(states))
=============================================================================
