----------------------------- MODULE MixRounds -----------------------------
(***************************************************************************)
(* The ARX rounds of src/src/mix.c and their inverse, and a client of       *)
(* fch_mix_test_prepare, fch_mix_test_forward and fch_mix_test_inverse that *)
(* walks a work state up and down the sixteen rounds, as the round trip,    *)
(* rebound and meet-in-the-middle screens do.  A word has WordBits bits.    *)
(***************************************************************************)
EXTENDS Powers, Integers, Sequences

CONSTANTS
    WordBits,     \* 64
    BitXor(_, _),    \* of two words
    IV,           \* FCH_MIX_IV: a word for each of 0..7
    Inputs        \* what work states are prepared from

Word == 0..(Pow2[WordBits] - 1)

Indices == 0..15

WorkStates == [Indices -> Word]

\* A chaining state, a block of sixteen words and the rest of the arguments.
Arguments ==
    [state : [0..7 -> Word], message : WorkStates, block_length : Word,
     counter : Word, domain : Word, flags : Word]

ASSUME WordAssumption ==
    /\ WordBits \in Nat
    /\ WordBits >= 8

\* The two laws of exclusive or that the rounds rest on.
ASSUME XorAssumption ==
    \A a, b \in Word : BitXor(a, b) \in Word /\ BitXor(BitXor(a, b), b) = a

ASSUME InputAssumption ==
    /\ IV \in [0..7 -> Word]
    /\ Inputs \subseteq Arguments

VARIABLES
    input,   \* what the work state was prepared from
    work,    \* the sixteen words
    at,      \* how many rounds it has gone through since
    ok       \* what the last call returned

vars == <<input, work, at, ok>>

-----------------------------------------------------------------------------

Rounds == 16

StateWords == 8

BlockSize == 2 * WordBits    \* bytes of sixteen words

Wrap(x) == x % Pow2[WordBits]

\* fch_rotl64 and fch_rotr64.  The two shifted parts have no bit in common.
Rotl(x, n) ==
    LET count == n % WordBits IN
    IF count = 0 THEN x
    ELSE Wrap(x * Pow2[count]) + (x \div Pow2[WordBits - count])

Rotr(x, n) == Rotl(x, WordBits - (n % WordBits))

\* The rotations of a half: 32, 24 and 16, 63 of 64 bits.
Rotations(half) ==
    IF half = 1 THEN << WordBits \div 2, (3 * WordBits) \div 8 >>
                ELSE << WordBits \div 4, WordBits - 1 >>

\* FCH_MIX_SIGMA; its last six rows repeat the first six.
SigmaRows == <<
    << 0, 1, 2, 3, 4, 5, 6, 7, 8, 9, 10, 11, 12, 13, 14, 15 >>,
    << 14, 10, 4, 8, 9, 15, 13, 6, 1, 12, 0, 2, 11, 7, 5, 3 >>,
    << 11, 8, 12, 0, 5, 2, 15, 13, 10, 14, 3, 6, 7, 1, 9, 4 >>,
    << 7, 9, 3, 1, 13, 12, 11, 14, 2, 6, 5, 10, 4, 0, 15, 8 >>,
    << 9, 0, 5, 7, 2, 4, 10, 15, 14, 1, 11, 12, 6, 8, 3, 13 >>,
    << 2, 12, 6, 10, 0, 11, 8, 3, 4, 13, 7, 5, 15, 14, 1, 9 >>,
    << 12, 5, 1, 15, 14, 13, 4, 10, 0, 7, 6, 3, 9, 2, 8, 11 >>,
    << 13, 11, 7, 14, 12, 1, 3, 9, 5, 0, 15, 4, 8, 6, 2, 10 >>,
    << 6, 15, 14, 9, 11, 3, 0, 8, 12, 2, 13, 7, 1, 4, 10, 5 >>,
    << 10, 2, 8, 4, 7, 6, 1, 5, 15, 11, 9, 14, 3, 12, 13, 0 >> >>

Sigma(round) == SigmaRows[1 + (round % 10)]

\* The four columns and the four diagonals of a round.
Quarters == <<
    << 0, 4,  8, 12 >>, << 1, 5,  9, 13 >>,
    << 2, 6, 10, 14 >>, << 3, 7, 11, 15 >>,
    << 0, 5, 10, 15 >>, << 1, 6, 11, 12 >>,
    << 2, 7,  8, 13 >>, << 3, 4,  9, 14 >> >>

-----------------------------------------------------------------------------

\* One of the two halves of fch_mix_g on the words q of v.
Half(v, q, m, rotations) ==
    LET a == Wrap(v[q[1]] + v[q[2]] + m)
        d == Rotr(BitXor(v[q[4]], a), rotations[1])
        c == Wrap(v[q[3]] + d)
        b == Rotr(BitXor(v[q[2]], c), rotations[2])
    IN  [v EXCEPT ![q[1]] = a, ![q[2]] = b, ![q[3]] = c, ![q[4]] = d]

MixG(v, q, x, y) == Half(Half(v, q, x, Rotations(1)), q, y, Rotations(2))

\* Mutant: d is restored too early.
HalfInverseInOrder(v, q, m, rotations) ==
    LET d == BitXor(Rotl(v[q[4]], rotations[1]), v[q[1]])
        c == Wrap(v[q[3]] - d)
        b == BitXor(Rotl(v[q[2]], rotations[2]), v[q[3]])
        a == Wrap(v[q[1]] - (b + m))
    IN  [v EXCEPT ![q[1]] = a, ![q[2]] = b, ![q[3]] = c, ![q[4]] = d]

\* The half of fch_mix_g_inverse that undoes Half.
HalfInverse(v, q, m, rotations) ==
    LET b == BitXor(Rotl(v[q[2]], rotations[2]), v[q[3]])
        c == Wrap(v[q[3]] - v[q[4]])
        d == BitXor(Rotl(v[q[4]], rotations[1]), v[q[1]])
        a == Wrap(v[q[1]] - (b + m))
    IN  [v EXCEPT ![q[1]] = a, ![q[2]] = b, ![q[3]] = c, ![q[4]] = d]

MixGInverse(v, q, x, y) ==
    HalfInverse(HalfInverse(v, q, y, Rotations(2)), q, x, Rotations(1))

\* Mutant: both words of a call are the same one.
MessageAtTwice(message, round, i, k) == message[Sigma(round)[2 * i - 1]]

\* The two message words of the i-th of the eight calls in a round.
MessageAt(message, round, i, k) == message[Sigma(round)[2 * i - 2 + k]]

MixCall(v, message, round, i) ==
    MixG(v, Quarters[i],
         MessageAt(message, round, i, 1), MessageAt(message, round, i, 2))

MixCallInverse(v, message, round, i) ==
    MixGInverse(v, Quarters[i],
                MessageAt(message, round, i, 1), MessageAt(message, round, i, 2))

\* Four calls from the i-th on, and their inverses from the last one.
FourCalls(v, message, round, i) ==
    MixCall(MixCall(MixCall(MixCall(v, message, round, i),
                            message, round, i + 1),
                    message, round, i + 2),
            message, round, i + 3)

FourCallsInverse(v, message, round, i) ==
    MixCallInverse(MixCallInverse(MixCallInverse(MixCallInverse(v,
        message, round, i + 3), message, round, i + 2), message, round, i + 1),
        message, round, i)

MixRound(message, round) ==
    [v \in WorkStates |->
        FourCalls(FourCalls(v, message, round, 1), message, round, 5)]

MixRoundInverse(message, round) ==
    [v \in WorkStates |->
        FourCallsInverse(FourCallsInverse(v, message, round, 5),
                         message, round, 1)]

\* The loops of fch_mix_test_forward and fch_mix_test_inverse, the first also
\* that of fch_mix_compress_rounds.
Forwards(v, message, start) ==
    LET f[n \in Nat] ==
            IF n = 0 THEN v ELSE MixRound(message, start + n - 1)[f[n - 1]]
    IN  f

Backwards(v, message, end) ==
    LET f[n \in Nat] ==
            IF n = 0 THEN v ELSE MixRoundInverse(message, end - n)[f[n - 1]]
    IN  f

RoundsForward(v, message, start, count) == Forwards(v, message, start)[count]

RoundsInverse(v, message, start, count) ==
    Backwards(v, message, start + count)[count]

\* Mutant: a window may run past the last round.
WindowAnywhere(start, count) ==
    /\ count # 0
    /\ start < Rounds
    /\ count <= Rounds

\* The guards of both.
WindowAccepted(start, count) ==
    /\ count # 0
    /\ start < Rounds
    /\ count <= Rounds - start

-----------------------------------------------------------------------------

\* fch_mix_test_prepare, and the same statements of fch_mix_compress_rounds.
Tweak(in) ==
    << in.counter,
       BitXor(in.block_length, StateWords * Pow2[WordBits - 8]),
       in.domain, in.flags >>

Prepare(in) ==
    [i \in Indices |->
        IF i < 8 THEN in.state[i]
        ELSE IF i < 12 THEN IV[i - 8]
        ELSE BitXor(IV[i - 8], Tweak(in)[i - 11])]

PrepareAccepted(in) == in.block_length <= BlockSize

\* The feed-forward at the end of fch_mix_compress_rounds.
FeedForward(state, v) == [i \in 0..7 |-> BitXor(state[i], BitXor(v[i], v[i + 8]))]

CompressRounds(in, rounds) ==
    FeedForward(in.state, RoundsForward(Prepare(in), in.message, 0, rounds))

-----------------------------------------------------------------------------

Init ==
    /\ input \in {in \in Inputs : PrepareAccepted(in)}
    /\ work = Prepare(input)
    /\ at = 0
    /\ ok = TRUE

\* fch_mix_test_forward from the round the work state is at.
Forward(count) ==
    /\ WindowAccepted(at, count)
    /\ work' = RoundsForward(work, input.message, at, count)
    /\ at' = at + count
    /\ ok' = TRUE
    /\ UNCHANGED input

\* fch_mix_test_inverse of the last count rounds.
Backward(count) ==
    /\ count <= at
    /\ WindowAccepted(at - count, count)
    /\ work' = RoundsInverse(work, input.message, at - count, count)
    /\ at' = at - count
    /\ ok' = TRUE
    /\ UNCHANGED input

\* Either of them with a window outside the sixteen rounds.
Refuse(start, count) ==
    /\ ~WindowAccepted(start, count)
    /\ ok' = FALSE
    /\ UNCHANGED <<input, work, at>>

Next ==
    \/ \E count \in 0..Rounds : Forward(count) \/ Backward(count)
    \/ \E start, count \in 0..(Rounds + 1) : Refuse(start, count)

Spec == Init /\ [][Next]_vars

-----------------------------------------------------------------------------

\* The work state has sixteen words and lies between two of the rounds.
TypeOK ==
    /\ input \in Inputs
    /\ work \in WorkStates
    /\ at \in 0..Rounds
    /\ ok \in BOOLEAN

\* Whichever windows led up and down to a round, the work state is the one
\* that the loop of fch_mix_compress_rounds reaches there, and its feed-forward
\* is the chaining value for that number of rounds (mix_roundtrip_check).
WindowsAgree ==
    /\ work = RoundsForward(Prepare(input), input.message, 0, at)
    /\ at > 0 => FeedForward(input.state, work) = CompressRounds(input, at)

\* Every word of the message enters every round: a round of two blocks that
\* differ in one word, from the same work state, ends in different states.
EveryWordEnters ==
    at < Rounds =>
        \A i \in Indices :
            MixRound(input.message, at)[work] #
            MixRound([input.message EXCEPT ![i] = Wrap(@ + 1)], at)[work]
=============================================================================
