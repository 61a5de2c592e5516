---------------------------- MODULE MatchSearch ----------------------------
(***************************************************************************)
(* The two searches of src/analysis/fch_cryptanalysis.c over a sorted table *)
(* of candidates: the join of mitm_screen_case, which looks every backward  *)
(* state up among the forward ones, and the matches, buckets and collisions *)
(* of output_only_attack_search.  Candidates count from 0.  A state or an   *)
(* output is the pair of the bits its key is made from and of the rest.     *)
(***************************************************************************)
EXTENDS Sorting

\* mitm_entry_compare, output_attack_entry_compare
EntryBefore(a, b) ==
    \/ a.state.key < b.state.key
    \/ a.state.key = b.state.key /\ a.candidate < b.candidate

\* The table, filled for every candidate and sorted.
Table(states) ==
    Sorted([i \in 1..Cardinality(DOMAIN states) |->
               [candidate |-> i - 1, state |-> states[i - 1]]],
           EntryBefore)

\* Mutant: the search goes right on an equal key.
RightOfEqual(entry, key) == entry.state.key <= key

GoesRight(entry, key) == entry.state.key < key

\* One turn of the loop of mitm_lower_bound, which ends when nothing is left.
Halve(table, key, at) ==
    LET middle == at.left + ((at.right - at.left) \div 2) IN
    IF at.left >= at.right THEN at
    ELSE IF GoesRight(table[middle + 1], key)
    THEN [at EXCEPT !.left = middle + 1]
    ELSE [at EXCEPT !.right = middle]

\* mitm_lower_bound: the first entry with no smaller key, or the end.  There
\* are no more turns than entries.
LowerBound(table, key) ==
    LET search[turn \in Nat] ==
            IF turn = 0 THEN [left |-> 0, right |-> Len(table)]
            ELSE Halve(table, key, search[turn - 1])
    IN  search[Len(table)].left

\* The entries the scan from the lower bound visits.
Scanned(table, key) ==
    LET first == LowerBound(table, key) + 1 IN
    {p \in first..Len(table) :
        \A q \in first..p : table[q].state.key = key}

\* Counts of the join of a table with the backward states; target is the
\* candidate the target state was made from.
JoinOf(table, backward, target) ==
    LET Found(c)  == Scanned(table, backward[c].key)
        Exact(c)  == {p \in Found(c) : table[p].state = backward[c]}
        Sum(F(_)) == MapThenSumSet(F, DOMAIN backward)
    IN
    [prefix_pairs  |-> Sum(LAMBDA c : Cardinality(Found(c))),
     exact_matches |-> Sum(LAMBDA c : Cardinality(Exact(c))),
     recovered     |-> \E p \in Exact(target) : table[p].candidate = target]

\* The inner loop: one past the run that begins at an entry.
RunEnd(table, begin) ==
    CHOOSE end \in (begin + 1)..(Len(table) + 1) :
        /\ \A p \in begin..(end - 1) : table[p].state.key = table[begin].state.key
        /\ \/ end = Len(table) + 1
           \/ table[end].state.key # table[begin].state.key

\* One turn of the outer loop, which ends at the end of the table.
NextRun(table, at) ==
    LET end == RunEnd(table, at.begin) IN
    IF at.begin > Len(table) THEN at
    ELSE [begin |-> end, runs |-> at.runs \cup {<<at.begin, end>>}]

\* The runs of equal prefixes the search counts, as begin and one past end.
\* There are no more turns than entries.
Runs(table) ==
    LET search[turn \in Nat] ==
            IF turn = 0 THEN [begin |-> 1, runs |-> {}]
            ELSE NextRun(table, search[turn - 1])
    IN  search[Len(table)].runs

\* Counts of the search for two targets among the outputs of the candidates.
SearchOf(table, planted, unplanted, target) ==
    LET Size(run) == run[2] - run[1]
        In(run)   == run[1]..(run[2] - 1)
        Matching(P(_)) == Cardinality({p \in DOMAIN table : P(table[p])})
    IN
    [planted_prefix   |-> Matching(LAMBDA e : e.state.key = planted.key),
     planted_exact    |-> Matching(LAMBDA e : e.state = planted),
     recovered        |-> \E p \in DOMAIN table :
                              /\ table[p].state = planted
                              /\ table[p].candidate = target,
     unplanted_prefix |-> Matching(LAMBDA e : e.state.key = unplanted.key),
     unplanted_exact  |-> Matching(LAMBDA e : e.state = unplanted),
     collision_pairs  |-> MapThenSumSet(
                              LAMBDA r : (Size(r) * (Size(r) - 1)) \div 2,
                              Runs(table)),
     maximum_bucket   |-> Max({Size(r) : r \in Runs(table)}),
     exact_collisions |-> MapThenSumSet(
         LAMBDA r : Cardinality({p \in In(r) \X In(r) :
                        p[1] < p[2] /\ table[p[1]].state = table[p[2]].state}),
         Runs(table))]

-----------------------------------------------------------------------------
(* What the counts mean, without a table. *)

Pairs(states, P(_, _)) ==
    Cardinality({p \in (DOMAIN states) \X (DOMAIN states) :
                    p[1] < p[2] /\ P(states[p[1]], states[p[2]])})

JoinMeans(forward, backward, target, counts) ==
    LET Both(P(_, _)) == {p \in (DOMAIN forward) \X (DOMAIN backward) :
                              P(forward[p[1]], backward[p[2]])}
    IN
    /\ counts.prefix_pairs = Cardinality(Both(LAMBDA f, b : f.key = b.key))
    /\ counts.exact_matches = Cardinality(Both(LAMBDA f, b : f = b))
    /\ counts.recovered = (forward[target] = backward[target])

SearchMeans(outputs, unplanted, target, counts) ==
    LET Like(P(_)) == {c \in DOMAIN outputs : P(outputs[c])}
        planted == outputs[target]
    IN
    /\ counts.planted_prefix = Cardinality(Like(LAMBDA o : o.key = planted.key))
    /\ counts.planted_exact = Cardinality(Like(LAMBDA o : o = planted))
    /\ counts.recovered
    /\ counts.unplanted_prefix =
           Cardinality(Like(LAMBDA o : o.key = unplanted.key))
    /\ counts.unplanted_exact = Cardinality(Like(LAMBDA o : o = unplanted))
    /\ counts.collision_pairs = Pairs(outputs, LAMBDA o, p : o.key = p.key)
    /\ counts.maximum_bucket =
           Max({Cardinality(Like(LAMBDA o : o.key = outputs[c].key)) :
                   c \in DOMAIN outputs})
    /\ counts.exact_collisions = Pairs(outputs, LAMBDA o, p : o = p)
=============================================================================
