--------------------------- MODULE FchStreamProofs ---------------------------
(***************************************************************************)
(* What holds of a context for every leaf size, message and sequence of     *)
(* calls: its storage is released, its failures are final, it holds the     *)
(* bytes it was fed, its digest is the reference's, and it implements the   *)
(* promise of HashContext.                                                  *)
(***************************************************************************)
EXTENDS FchStream, TreeProofs, SequenceTheorems

\* The inductive invariant: the bytes fed are counted, and storage belongs to
\* a context that was fed or failed while it was fed.
IInv ==
    /\ fed \in Nat
    /\ StorageReleased

-----------------------------------------------------------------------------

\* stream_append leaves no storage to a context that was given nothing: with
\* storage there was some before, or bytes were added, or the call failed.
LEMMA AppendStorage ==
    ASSUME NEW size \in Nat, NEW given, NEW memory,
           StreamAppend(size, given, memory).ok,
           StreamAppend(size, given, memory).storage
    PROVE  storage \/ size > 0
<1>1. CASE size = 0
    BY <1>1 DEF StreamAppend
<1>2. CASE size # 0
    BY <1>2
<1> QED
    BY <1>1, <1>2

LEMMA UpdateKeeps ==
    ASSUME IInv, NEW size \in Nat, NEW given, NEW memory,
           UpdateOpen(size, given, memory)
    PROVE  IInv'
<1> DEFINE result == StreamAppend(size, given, memory)
<1>1. /\ ~failed
      /\ ~finalized
      /\ storage' = result.storage
      /\ failed' = ~result.ok
      /\ finalized' = finalized
      /\ fed' = IF result.ok THEN fed + size ELSE fed
    BY DEF UpdateOpen, Update
<1>2. result.ok /\ result.storage => storage \/ size > 0
    BY AppendStorage
<1>3. fed \in Nat /\ (storage => fed > 0)
    BY <1>1 DEF IInv, StorageReleased
<1> HIDE DEF result
<1>4. fed' \in Nat
    BY <1>1, <1>3
<1>5. CASE result.ok
    <2>1. storage' => fed' > 0
        BY <1>1, <1>2, <1>3, <1>5
    <2> QED
        BY <2>1, <1>1, <1>4 DEF IInv, StorageReleased
<1>6. CASE ~result.ok
    BY <1>1, <1>4, <1>6 DEF IInv, StorageReleased
<1> QED
    BY <1>5, <1>6

\* A final of an open context, whichever of its exits it takes: what it
\* writes, and that it closes the storage.
FinalWrites(memory) == IF FinalOpens(memory) THEN FinalOutput ELSE Zeroed

FinalOfOpen(memory) ==
    /\ ~finalized
    /\ ~failed
    /\ Finalization(FinalWrites(memory), memory)
    /\ CloseStorage

LEMMA FinalsOfOpen ==
    ASSUME NEW memory, FinalUnopened(memory) \/ FinalOpen(memory)
    PROVE  FinalOfOpen(memory)
BY DEF FinalUnopened, FinalOpen, FinalOfOpen, FinalWrites

LEMMA StepKeeps ==
    ASSUME IInv, [Next]_vars
    PROVE  IInv'
<1>1. ASSUME NEW name, Reset(name) PROVE IInv'
    BY <1>1 DEF Reset, CloseStorage, IInv, StorageReleased
<1>2. ASSUME NEW size \in UpdateSizes, NEW given \in BOOLEAN,
             NEW memory \in BOOLEAN, UpdateRejected(size, given, memory)
      PROVE  IInv'
    BY <1>2 DEF UpdateRejected, context, IInv, StorageReleased
<1>3. ASSUME NEW size \in UpdateSizes, NEW given \in BOOLEAN,
             NEW memory \in BOOLEAN, UpdateOpen(size, given, memory)
      PROVE  IInv'
    <2>1. size \in Nat
        BY StreamAssumption, SizeMaxLarge
    <2> QED
        BY <1>3, <2>1, UpdateKeeps
<1>4. ASSUME NEW memory \in BOOLEAN,
             FinalNoOutput(memory) \/ FinalAgain(memory)
      PROVE  IInv'
    <2>1. UNCHANGED <<storage, failed, finalized, fed>>
        BY <1>4 DEF FinalNoOutput, FinalAgain, context
    <2> QED
        BY <2>1 DEF IInv, StorageReleased
<1>5. ASSUME NEW memory \in BOOLEAN,
             FinalOfFailed(memory) \/ FinalOfOpen(memory)
      PROVE  IInv'
    BY <1>5 DEF FinalOfFailed, FinalOfOpen, Finalization, CloseStorage,
                IInv, StorageReleased
<1>6. CASE Tamper
    BY <1>6 DEF Tamper, IInv, StorageReleased
<1>7. CASE UNCHANGED vars
    BY <1>7 DEF vars, IInv, StorageReleased
<1>8. ASSUME InitContext \/ Free PROVE IInv'
    BY <1>1, <1>8 DEF InitContext, Free
<1>9. CASE Next
    BY <1>2, <1>3, <1>4, <1>5, <1>6, <1>8, <1>9, FinalsOfOpen DEF Next
<1> QED
    BY <1>7, <1>9

\* No sequence of calls leaves storage to a context that was finalized, or to
\* one that was neither fed nor failed (stream_close in every final).
THEOREM StreamReleases == Spec => []StorageReleased
<1>1. Init => IInv
    BY DEF Init, IInv, StorageReleased
<1>2. IInv /\ [Next]_vars => IInv'
    BY StepKeeps
<1>3. IInv => StorageReleased
    BY DEF IInv
<1> QED
    BY <1>1, <1>2, <1>3, PTL DEF Spec

-----------------------------------------------------------------------------

\* What FailureIsFinal says of one step.
StaysFailed ==
    failed \/ finalized =>
        \/ last'.call \in {"init", "free"}
        \/ /\ failed => failed'
           /\ finalized => finalized'
           /\ last'.ok => last'.call = "tamper"
           /\ length' = length \/ last'.call = "tamper"

\* A failed or finalized context refuses every update and final, and stays so
\* until it is initialised or freed (the guards at the head of each call).
THEOREM StreamFailureIsFinal == Spec => FailureIsFinal
<1>1. Next => StaysFailed
    <2>1. ASSUME InitContext \/ Free PROVE StaysFailed
        BY <2>1 DEF InitContext, Free, Reset, Call, StaysFailed
    <2>2. ASSUME NEW size, NEW given, NEW memory,
                 UpdateRejected(size, given, memory)
          PROVE  StaysFailed
        BY <2>2 DEF UpdateRejected, context, Call, StaysFailed
    <2>3. ASSUME NEW size, NEW given, NEW memory,
                 UpdateOpen(size, given, memory)
          PROVE  StaysFailed
        BY <2>3 DEF UpdateOpen, StaysFailed
    <2>4. ASSUME NEW memory,
                 \/ FinalNoOutput(memory)
                 \/ FinalAgain(memory)
                 \/ FinalOfFailed(memory)
          PROVE  StaysFailed
        BY <2>4 DEF FinalNoOutput, FinalAgain, FinalOfFailed, context, Call,
                    StaysFailed
    <2>5. ASSUME NEW memory, FinalOfOpen(memory) PROVE StaysFailed
        BY <2>5 DEF FinalOfOpen, StaysFailed
    <2>6. ASSUME Tamper PROVE StaysFailed
        BY <2>6 DEF Tamper, Call, StaysFailed
    <2> QED
        BY <2>1, <2>2, <2>3, <2>4, <2>5, <2>6, FinalsOfOpen DEF Next
<1>2. [Next]_vars => [StaysFailed]_vars
    BY <1>1
<1> QED
    BY <1>2, PTL DEF Spec, FailureIsFinal, StaysFailed

-----------------------------------------------------------------------------
(* What the storage holds *)

IsState(s) ==
    s = [workspace |-> s.workspace, pending |-> s.pending,
         processed |-> s.processed]

\* Data that is what the message has from a byte on.
IsOf(data, bytes, from) == \A i \in 1..Len(data) : data[i] = bytes[from + i - 1]

\* A state whose slots count the first c leaves of a range of some length.
HasLeaves(s, bytes, total, c) ==
    /\ IsState(s)
    /\ s.processed = c * LeafBytes
    /\ Counts(s.workspace, bytes, 0, total, c)

\* What a push of leaf number c that returned 1 leaves of a state.
LeafPushed(s, after, bytes, total, c, count) ==
    /\ IsState(after)
    /\ after.processed = s.processed + count
    /\ after.processed <= SizeMax
    /\ after.pending = s.pending
    /\ Counts(after.workspace, bytes, 0, total, c + 1)

\* stream_push_leaf with the bytes of leaf number c returns 1 and counts it.
LEMMA StreamPush ==
    ASSUME NEW bytes, NEW total \in Nat \ {0}, total <= SizeMax,
           NEW c \in Nat, c < LeafCount(total),
           NEW s, HasLeaves(s, bytes, total, c),
           NEW count, count = IF total - c * LeafBytes > LeafBytes THEN LeafBytes
                              ELSE total - c * LeafBytes,
           NEW data, Len(data) = count, IsOf(data, bytes, s.processed)
    PROVE  /\ StreamPushLeaf(s, data).ok
           /\ LeafPushed(s, StreamPushLeaf(s, data).state, bytes, total, c, count)
<1> DEFINE reader == Window(s.processed, data)
           first  == c * LeafBytes
           push   == PushLeaf(s.workspace, reader, s.processed, count)
<1>1. /\ LeafBytes \in Nat \ {0} /\ SizeMax \in Nat
      /\ first \in Nat /\ first < total
    BY LeavesWithout, ScheduleAssumption, SizeMaxLarge
<1>2. s.processed = first /\ count \in Nat
    BY <1>1 DEF HasLeaves
<1>3. /\ count # 0 /\ ~(count > LeafBytes)
      /\ s.processed <= SizeMax - count
      /\ s.processed % LeafBytes = 0
    <2>1. first % LeafBytes = 0
        <3>1. PICK z \in Nat : z = 0
            OBVIOUS
        <3>2. (z + c * LeafBytes) % LeafBytes = z % LeafBytes
            BY <3>1, WholeLeaves
        <3>3. z % LeafBytes = 0
            BY <1>1, <3>1, RangeFromZero, SizeMaxLarge DEF RangeAccepted
        <3> QED BY <1>1, <3>1, <3>2, <3>3
    <2> QED BY <1>1, <1>2, <2>1
<1>4. StreamPushLeaf(s, data) = AfterPush(s, push, count)
    <2>1. ~(s.processed > SizeMax - count)
        BY <1>1, <1>2, <1>3
    <2> QED BY <1>3, <2>1 DEF StreamPushLeaf
<1>5. Serves(reader, bytes)
    <2> SUFFICES ASSUME NEW o \in first..(first + count - 1)
                 PROVE  data[o - first + 1] = bytes[o]
        BY <1>2 DEF Window, Serves
    <2>1. /\ (o - first) + 1 \in 1..Len(data)
          /\ first + (((o - first) + 1) - 1) = o
        BY <1>1, <1>2
    <2> QED BY <1>2, <2>1 DEF IsOf
<1>6. RangeAccepted(0, total)
    BY RangeFromZero
<1>7. push.ok /\ Counts(push.workspace, bytes, 0, total, c + 1)
    <2>1. Counts(s.workspace, bytes, 0, total, c)
        BY DEF HasLeaves
    <2>2. 0 + first = s.processed
        BY <1>1, <1>2
    <2>3. (0 + first)..(0 + first + count - 1) \subseteq DOMAIN reader
        BY <1>2, <2>2 DEF Window
    <2> HIDE DEF reader
    <2>4. LET p == PushLeaf(s.workspace, reader, 0 + first, count) IN
          p.ok /\ Counts(p.workspace, bytes, 0, total, c + 1)
        BY <1>5, <1>6, <2>1, <2>3, LeafTaken
    <2> QED BY <2>2, <2>4
<1>8. AfterPush(s, push, count).ok
    <2> HIDE DEF push
    <2> QED BY <1>7 DEF AfterPush
<1> DEFINE after == AfterPush(s, push, count).state
<1>9. after = [workspace |-> push.workspace, pending |-> s.pending,
               processed |-> s.processed + count]
    <2>1. PICK w, q, n : s = [workspace |-> w, pending |-> q, processed |-> n]
        BY DEF HasLeaves, IsState
    <2> HIDE DEF push
    <2> QED BY <1>7, <2>1 DEF AfterPush
<1>10. LeafPushed(s, after, bytes, total, c, count)
    <2> HIDE DEF after
    <2> QED BY <1>1, <1>2, <1>3, <1>7, <1>9 DEF LeafPushed, IsState
<1> QED BY <1>4, <1>8, <1>10

\* A state that holds the first n bytes of a message.
Holds(s, bytes, n) ==
    /\ IsState(s)
    /\ s.pending \in Seq(Byte)
    /\ Len(s.pending) < LeafBytes
    /\ IsOf(s.pending, bytes, s.processed)
    /\ s.processed <= SizeMax
    /\ \E c \in Nat :
           /\ HasLeaves(s, bytes, SizeMax, c)
           /\ n = c * LeafBytes + Len(s.pending)

\* The push of a whole leaf, whatever is pending: it returns 1 if it has room.
LEMMA WholeLeafPushed ==
    ASSUME NEW bytes, NEW c \in Nat,
           NEW s, HasLeaves(s, bytes, SizeMax, c),
           NEW data, Len(data) = LeafBytes, IsOf(data, bytes, s.processed),
           StreamPushLeaf(s, data).ok \/ s.processed + LeafBytes <= SizeMax
    PROVE  /\ StreamPushLeaf(s, data).ok
           /\ LeafPushed(s, StreamPushLeaf(s, data).state, bytes, SizeMax, c,
                         LeafBytes)
<1>1. LeafBytes \in Nat \ {0} /\ SizeMax \in Nat \ {0} /\ c * LeafBytes \in Nat
    BY ScheduleAssumption, SizeMaxLarge
<1>2. c * LeafBytes + LeafBytes <= SizeMax
    <2>1. s.processed <= SizeMax - LeafBytes
        <3>1. s.processed \in Nat
            BY <1>1 DEF HasLeaves
        <3>2. CASE StreamPushLeaf(s, data).ok
            <4>1. ~(s.processed > SizeMax - LeafBytes)
                BY <3>2 DEF StreamPushLeaf
            <4> QED BY <1>1, <3>1, <4>1
        <3>3. CASE s.processed + LeafBytes <= SizeMax
            BY <1>1, <3>1, <3>3
        <3> QED BY <3>2, <3>3
    <2> QED BY <1>1, <2>1 DEF HasLeaves
<1>3. c < LeafCount(SizeMax)
    <2>1. LeafCount(SizeMax) \in Nat /\ SizeMax <= LeafCount(SizeMax) * LeafBytes
        BY <1>1, LeavesCover
    <2>2. CASE LeafCount(SizeMax) <= c
        <3>1. LeafCount(SizeMax) * LeafBytes <= c * LeafBytes
              /\ LeafCount(SizeMax) * LeafBytes \in Nat
            BY <1>1, <2>1, <2>2, TimesMonotone
        <3> QED BY <1>1, <1>2, <2>1, <3>1
    <2> QED BY <2>1, <2>2
<1>4. LeafBytes = IF SizeMax - c * LeafBytes > LeafBytes THEN LeafBytes
                  ELSE SizeMax - c * LeafBytes
    BY <1>1, <1>2
<1> QED BY <1>1, <1>3, <1>4, StreamPush

\* A whole leaf pushed leaves a state that holds it, and nothing pending if
\* nothing was or the pending leaf is the one that was pushed.
LEMMA HoldsLeafPushed ==
    ASSUME NEW bytes, NEW c \in Nat, NEW s, s.processed = c * LeafBytes,
           NEW after, LeafPushed(s, after, bytes, SizeMax, c, LeafBytes)
    PROVE  /\ s.pending = << >> => Holds(after, bytes, c * LeafBytes + LeafBytes)
           /\ Holds([after EXCEPT !.pending = << >>], bytes,
                    c * LeafBytes + LeafBytes)
<1> DEFINE empty == [after EXCEPT !.pending = << >>]
<1>1. LeafBytes \in Nat \ {0} /\ c * LeafBytes \in Nat
    BY ScheduleAssumption
<1>2. c + 1 \in Nat /\ (c + 1) * LeafBytes = c * LeafBytes + LeafBytes
    BY <1>1
<1>3. /\ IsState(after)
      /\ after.processed = c * LeafBytes + LeafBytes
      /\ after.processed <= SizeMax
      /\ after.pending = s.pending
      /\ Counts(after.workspace, bytes, 0, SizeMax, c + 1)
    BY DEF LeafPushed
<1>4. ASSUME NEW t, IsState(t), t.pending = << >>, t.processed = after.processed,
             t.workspace = after.workspace
      PROVE  Holds(t, bytes, c * LeafBytes + LeafBytes)
    <2>1. HasLeaves(t, bytes, SizeMax, c + 1)
        BY <1>2, <1>3, <1>4 DEF HasLeaves
    <2>2. /\ t.pending \in Seq(Byte) /\ Len(t.pending) = 0
          /\ IsOf(t.pending, bytes, t.processed)
        BY <1>4 DEF IsOf
    <2>3. c * LeafBytes + LeafBytes = (c + 1) * LeafBytes + Len(t.pending)
        BY <1>1, <1>2, <2>2
    <2> QED BY <1>1, <1>2, <1>3, <1>4, <2>1, <2>2, <2>3 DEF Holds
<1>5. /\ IsState(empty) /\ empty.pending = << >>
      /\ empty.processed = after.processed
      /\ empty.workspace = after.workspace
    BY <1>3 DEF IsState
<1>6. Holds(empty, bytes, c * LeafBytes + LeafBytes)
    <2> HIDE DEF empty
    <2> QED BY <1>4, <1>5
<1>7. s.pending = << >> => Holds(after, bytes, c * LeafBytes + LeafBytes)
    BY <1>3, <1>4
<1> QED BY <1>6, <1>7

-----------------------------------------------------------------------------
(* The loop of stream_append *)

\* In the loop, until a push fails: the state holds what it held and the bytes
\* consumed.  No push fails while the message fits size_t.
LoopHolds(loop, data, bytes, start) ==
    /\ start + Len(data) <= SizeMax => loop.ok
    /\ loop.ok => /\ loop.consumed \in 0..Len(data)
                  /\ Holds(loop.state, bytes, start + loop.consumed)

\* Pieces of the data a caller passes, and what they are appended to.
PieceOf(data, k, n) == SubSeq(data, k + 1, k + n)

LEMMA Piece ==
    ASSUME NEW bytes, NEW start \in Nat, NEW data \in Seq(Byte),
           IsOf(data, bytes, start),
           NEW k \in Nat, NEW n \in Nat, k + n <= Len(data)
    PROVE  /\ PieceOf(data, k, n) \in Seq(Byte)
           /\ Len(PieceOf(data, k, n)) = n
           /\ IsOf(PieceOf(data, k, n), bytes, start + k)
<1> DEFINE d == SubSeq(data, k + 1, k + n)
<1>1. Len(data) \in Nat /\ \A i \in 1..Len(data) : data[i] \in Byte
    BY LenProperties, ElementOfSeq
<1>2. /\ k + 1 \in Int /\ k + n \in Int
      /\ \A i \in (k + 1)..(k + n) : data[i] \in Byte
    BY <1>1
<1>3. /\ d \in Seq(Byte)
      /\ Len(d) = IF k + 1 <= k + n THEN (k + n) - (k + 1) + 1 ELSE 0
      /\ \A i \in 1..((k + n) - (k + 1) + 1) : d[i] = data[(k + 1) + i - 1]
    BY <1>2, SubSeqProperties
<1> HIDE DEF d
<1>4. Len(d) = n
    BY <1>3
<1>5. ASSUME NEW i \in 1..n PROVE d[i] = bytes[(start + k) + i - 1]
    <2>1. /\ i \in 1..((k + n) - (k + 1) + 1)
          /\ (k + 1) + i - 1 = k + i
          /\ k + i \in 1..Len(data)
          /\ start + (k + i) - 1 = (start + k) + i - 1
        BY <1>1
    <2>2. data[k + i] = bytes[start + (k + i) - 1]
        BY <2>1 DEF IsOf
    <2> QED BY <1>3, <2>1, <2>2
<1> QED BY <1>3, <1>4, <1>5 DEF IsOf, PieceOf, d

LEMMA Joined ==
    ASSUME NEW bytes, NEW start \in Nat, NEW q \in Seq(Byte), NEW d \in Seq(Byte),
           IsOf(q, bytes, start), IsOf(d, bytes, start + Len(q))
    PROVE  /\ q \o d \in Seq(Byte)
           /\ Len(q \o d) = Len(q) + Len(d)
           /\ IsOf(q \o d, bytes, start)
<1>1. Len(q) \in Nat /\ Len(d) \in Nat
    BY LenProperties
<1> DEFINE e == q \o d
<1>2. /\ e \in Seq(Byte)
      /\ Len(e) = Len(q) + Len(d)
      /\ \A i \in 1..(Len(q) + Len(d)) :
             e[i] = IF i <= Len(q) THEN q[i] ELSE d[i - Len(q)]
    BY ConcatProperties
<1> HIDE DEF e
<1>3. ASSUME NEW i \in 1..(Len(q) + Len(d)) PROVE e[i] = bytes[start + i - 1]
    <2>1. CASE i <= Len(q)
        <3>1. i \in 1..Len(q)
            BY <1>1, <2>1
        <3> QED BY <1>2, <2>1, <3>1 DEF IsOf
    <2>2. CASE ~(i <= Len(q))
        <3>1. /\ i - Len(q) \in 1..Len(d)
              /\ (start + Len(q)) + (i - Len(q)) - 1 = start + i - 1
            BY <1>1, <2>2
        <3>2. d[i - Len(q)] = bytes[(start + Len(q)) + (i - Len(q)) - 1]
            BY <3>1 DEF IsOf
        <3> QED BY <1>2, <2>2, <3>1, <3>2
    <2> QED BY <2>1, <2>2
<1> QED BY <1>2, <1>3 DEF IsOf, e

LEMMA DirectHolds ==
    ASSUME NEW bytes, NEW start \in Nat, NEW data \in Seq(Byte),
           IsOf(data, bytes, start),
           NEW loop, loop.ok, LoopHolds(loop, data, bytes, start),
           loop.state.pending = << >>,
           Len(data) - loop.consumed >= LeafBytes
    PROVE  LoopHolds(PushDirect(loop, data), data, bytes, start)
<1>0. loop.consumed \in 0..Len(data) /\ Len(data) \in Nat
    BY LenProperties DEF LoopHolds
<1>1. PICK size \in Nat : size = Len(data)
    BY <1>0
<1>2. PICK k \in Nat : k = loop.consumed
    BY <1>0, <1>1
<1>3. PICK s : s = loop.state
    OBVIOUS
<1>4. Holds(s, bytes, start + k) /\ s.pending = << >> /\ k + LeafBytes <= size
      /\ LeafBytes \in Nat \ {0}
    BY <1>0, <1>1, <1>2, <1>3, ScheduleAssumption DEF LoopHolds
<1>5. PICK c \in Nat : /\ HasLeaves(s, bytes, SizeMax, c)
                       /\ start + k = c * LeafBytes
    <2>1. Len(s.pending) = 0
        BY <1>4, EmptySeq
    <2>2. PICK c \in Nat : /\ HasLeaves(s, bytes, SizeMax, c)
                           /\ start + k = c * LeafBytes + Len(s.pending)
        BY <1>4 DEF Holds
    <2>3. c * LeafBytes \in Nat
        BY <1>4
    <2> QED BY <2>1, <2>2, <2>3
<1>6. s.processed = start + k /\ s.processed = c * LeafBytes
    BY <1>5 DEF HasLeaves
<1> DEFINE d    == PieceOf(data, k, LeafBytes)
           push == StreamPushLeaf(s, d)
<1>7. Len(d) = LeafBytes /\ IsOf(d, bytes, s.processed)
    <2>1. LeafBytes \in Nat /\ k + LeafBytes <= Len(data)
        BY <1>1, <1>4
    <2>2. Len(d) = LeafBytes /\ IsOf(d, bytes, start + k)
        BY <2>1, Piece
    <2> HIDE DEF d
    <2> QED BY <1>6, <2>2
<1>8. PushDirect(loop, data)
          = [ok |-> push.ok, state |-> push.state, consumed |-> k + LeafBytes]
    BY <1>2, <1>3 DEF PushDirect, Pushed, PieceOf
<1> HIDE DEF d
<1>11. start + Len(data) <= SizeMax => push.ok
    <2>1. start + size <= SizeMax => s.processed + LeafBytes <= SizeMax
        BY <1>4, <1>6, SizeMaxLarge
    <2> QED BY <1>1, <1>5, <1>7, <2>1, WholeLeafPushed
<1>9. ASSUME push.ok PROVE Holds(push.state, bytes, start + (k + LeafBytes))
    <2>1. LeafPushed(s, push.state, bytes, SizeMax, c, LeafBytes)
        BY <1>5, <1>7, <1>9, WholeLeafPushed
    <2> HIDE DEF push
    <2>2. Holds(push.state, bytes, c * LeafBytes + LeafBytes)
        BY <1>4, <1>6, <2>1, HoldsLeafPushed
    <2>3. c * LeafBytes + LeafBytes = start + (k + LeafBytes)
        <3>1. c * LeafBytes = start + k
            BY <1>5
        <3> QED BY <1>4, <3>1
    <2> QED BY <2>2, <2>3
<1> HIDE DEF push
<1>10. k + LeafBytes \in 0..Len(data)
    BY <1>1, <1>4
<1> QED BY <1>8, <1>9, <1>10, <1>11 DEF LoopHolds

\* The number of bytes that go into pending.
Room(had, k, size) ==
    IF LeafBytes - had > size - k THEN size - k ELSE LeafBytes - had

LEMMA RoomFits ==
    ASSUME NEW had \in Nat, had < LeafBytes,
           NEW k \in Nat, NEW size \in Nat, k <= size
    PROVE  /\ Room(had, k, size) \in Nat
           /\ k + Room(had, k, size) <= size
           /\ had + Room(had, k, size) <= LeafBytes
           /\ had + Room(had, k, size) = LeafBytes
                  <=> Room(had, k, size) = LeafBytes - had
<1>1. LeafBytes \in Nat
    BY ScheduleAssumption
<1>2. CASE LeafBytes - had > size - k
    <2>1. Room(had, k, size) = size - k
        BY <1>2 DEF Room
    <2> QED BY <1>1, <1>2, <2>1
<1>3. CASE ~(LeafBytes - had > size - k)
    <2>1. Room(had, k, size) = LeafBytes - had
        BY <1>3 DEF Room
    <2> QED BY <1>1, <1>3, <2>1
<1> QED BY <1>2, <1>3

LEMMA FillHolds ==
    ASSUME NEW bytes, NEW start \in Nat, NEW data \in Seq(Byte),
           IsOf(data, bytes, start),
           NEW loop, loop.ok, LoopHolds(loop, data, bytes, start)
    PROVE  LoopHolds(FillPending(loop, data), data, bytes, start)
<1>0. loop.consumed \in 0..Len(data) /\ Len(data) \in Nat
    BY LenProperties DEF LoopHolds
<1>1. PICK size \in Nat : size = Len(data)
    BY <1>0
<1>2. PICK k \in Nat : k = loop.consumed /\ k <= size
    BY <1>0, <1>1
<1>3. PICK s : s = loop.state
    OBVIOUS
<1>4. Holds(s, bytes, start + k)
    BY <1>2, <1>3 DEF LoopHolds
<1>5. PICK q \in Seq(Byte) : q = s.pending
    BY <1>4 DEF Holds
<1>6. PICK had \in Nat : had = Len(q) /\ had < LeafBytes
    BY <1>4, <1>5, LenProperties DEF Holds
<1>7. PICK c \in Nat : /\ HasLeaves(s, bytes, SizeMax, c)
                       /\ start + k = c * LeafBytes + had
    BY <1>4, <1>5, <1>6 DEF Holds
<1>8. PICK p \in Nat : p = c * LeafBytes
    BY ScheduleAssumption
<1>9. /\ s.processed = p /\ start + k = p + had /\ p <= SizeMax
      /\ IsOf(q, bytes, p) /\ IsState(s) /\ LeafBytes \in Nat \ {0}
    BY <1>4, <1>5, <1>7, <1>8, ScheduleAssumption DEF HasLeaves, Holds
<1>10. PICK count \in Nat :
           /\ count = Room(had, k, size)
           /\ k + count <= size
           /\ had + count <= LeafBytes
           /\ had + count = LeafBytes <=> count = LeafBytes - had
    <2>1. k <= size /\ had < LeafBytes
        BY <1>2, <1>6
    <2>2. /\ Room(had, k, size) \in Nat
          /\ k + Room(had, k, size) <= size
          /\ had + Room(had, k, size) <= LeafBytes
          /\ had + Room(had, k, size) = LeafBytes
                 <=> Room(had, k, size) = LeafBytes - had
        BY <2>1, RoomFits
    <2> QED BY <2>2
<1> DEFINE d      == PieceOf(data, k, count)
           filled == Filled(s, data, k, count)
           push   == StreamPushLeaf(filled, filled.pending)
<1>11. FillPending(loop, data)
           = IF had + count = LeafBytes THEN PushPending(push, k + count)
             ELSE [ok |-> TRUE, state |-> filled, consumed |-> k + count]
    <2>1. FillPending(loop, data)
              = IF count = LeafBytes - had THEN PushPending(push, k + count)
                ELSE [ok |-> TRUE, state |-> filled, consumed |-> k + count]
        BY <1>1, <1>2, <1>3, <1>5, <1>6, <1>10 DEF FillPending, Room
    <2> HIDE DEF push, filled
    <2> QED BY <1>10, <2>1
<1>12. d \in Seq(Byte) /\ Len(d) = count /\ IsOf(d, bytes, p + had)
    <2>1. k + count <= Len(data)
        BY <1>1, <1>10
    <2>2. d \in Seq(Byte) /\ Len(d) = count /\ IsOf(d, bytes, start + k)
        BY <1>10, <2>1, Piece
    <2> QED BY <1>9, <2>2
<1>13. filled = [workspace |-> s.workspace, pending |-> q \o d, processed |-> p]
    <2>1. PICK w, r, n : s = [workspace |-> w, pending |-> r, processed |-> n]
        BY <1>9 DEF IsState
    <2>2. r = q /\ n = p /\ w = s.workspace
        BY <1>5, <1>9, <2>1
    <2>3. PICK longer : longer = q \o d
        OBVIOUS
    <2>4. filled = [s EXCEPT !.pending = longer]
        BY <1>5, <2>3 DEF Filled, PieceOf
    <2> HIDE DEF d, filled
    <2>5. filled = [workspace |-> w, pending |-> longer, processed |-> n]
        BY <2>1, <2>4
    <2> QED BY <2>2, <2>3, <2>5
<1> HIDE DEF d, filled
<1>14. /\ q \o d \in Seq(Byte) /\ Len(q \o d) = had + count
       /\ IsOf(q \o d, bytes, p)
    <2>1. IsOf(d, bytes, p + Len(q))
        BY <1>6, <1>12
    <2>2. /\ q \o d \in Seq(Byte) /\ Len(q \o d) = Len(q) + Len(d)
          /\ IsOf(q \o d, bytes, p)
        <3>1. IsOf(q, bytes, p) /\ d \in Seq(Byte)
            BY <1>9, <1>12
        <3> QED BY <2>1, <3>1, Joined
    <2> QED BY <1>6, <1>12, <2>2
<1>15. PICK full \in Seq(Byte) : full = q \o d
    BY <1>14
<1>16. /\ filled = [workspace |-> s.workspace, pending |-> full, processed |-> p]
       /\ Len(full) = had + count /\ IsOf(full, bytes, p)
    BY <1>13, <1>14, <1>15
<1>17. HasLeaves(filled, bytes, SizeMax, c) /\ filled.pending = full
       /\ filled.processed = p /\ IsState(filled)
    BY <1>7, <1>8, <1>9, <1>16 DEF HasLeaves, IsState
<1>18. k + count \in 0..Len(data)
    BY <1>1, <1>10
<1>19. CASE had + count # LeafBytes
    <2>1. FillPending(loop, data)
              = [ok |-> TRUE, state |-> filled, consumed |-> k + count]
        BY <1>11, <1>19
    <2>2. start + (k + count) = c * LeafBytes + Len(full)
        <3>1. start + (k + count) = p + (had + count)
            BY <1>9
        <3> QED BY <1>8, <1>16, <3>1
    <2>3. Len(full) < LeafBytes
        BY <1>9, <1>10, <1>16, <1>19
    <2>4. Holds(filled, bytes, start + (k + count))
        BY <1>9, <1>16, <1>17, <2>2, <2>3 DEF Holds
    <2> QED BY <1>18, <2>1, <2>4 DEF LoopHolds
<1>20. CASE had + count = LeafBytes
    <2>1. FillPending(loop, data) = PushPending(push, k + count)
        BY <1>11, <1>20
    <2>8. start + Len(data) <= SizeMax => push.ok
        <3>1. Len(full) = LeafBytes
            BY <1>10, <1>16, <1>20
        <3>2. start + size <= SizeMax => p + LeafBytes <= SizeMax
            <4>1. p + LeafBytes = start + (k + count)
                BY <1>9, <1>20
            <4> QED BY <1>10, <4>1, SizeMaxLarge
        <3> QED BY <1>1, <1>16, <1>17, <3>1, <3>2, WholeLeafPushed
    <2>2. ASSUME push.ok
          PROVE  Holds([push.state EXCEPT !.pending = << >>], bytes,
                       start + (k + count))
        <3>1. Len(full) = LeafBytes
            BY <1>10, <1>16, <1>20
        <3>2. LeafPushed(filled, push.state, bytes, SizeMax, c, LeafBytes)
            BY <1>16, <1>17, <2>2, <3>1, WholeLeafPushed
        <3> HIDE DEF push
        <3>3. Holds([push.state EXCEPT !.pending = << >>], bytes,
                    c * LeafBytes + LeafBytes)
            BY <1>8, <1>17, <3>2, HoldsLeafPushed
        <3>4. c * LeafBytes + LeafBytes = start + (k + count)
            <4>1. start + (k + count) = p + (had + count)
                BY <1>9
            <4> QED BY <1>8, <1>20, <4>1
        <3> QED BY <3>3, <3>4
    <2> HIDE DEF push
    <2>3. PushPending(push, k + count)
              = [ok |-> push.ok,
                 state |-> [push.state EXCEPT !.pending = IF push.ok THEN << >> ELSE @],
                 consumed |-> k + count]
        BY DEF PushPending
    <2>4. PICK t : t = [push.state EXCEPT !.pending = IF push.ok THEN << >> ELSE @]
        OBVIOUS
    <2>5. push.ok => t = [push.state EXCEPT !.pending = << >>]
        BY <2>4
    <2>6. FillPending(loop, data)
              = [ok |-> push.ok, state |-> t, consumed |-> k + count]
        BY <2>1, <2>3, <2>4
    <2>7. push.ok => Holds(t, bytes, start + (k + count))
        BY <2>2, <2>5
    <2> QED BY <1>18, <2>6, <2>7, <2>8 DEF LoopHolds
<1> QED BY <1>19, <1>20

LEMMA IterationHolds ==
    ASSUME NEW bytes, NEW start \in Nat, NEW data \in Seq(Byte),
           IsOf(data, bytes, start),
           NEW loop, LoopHolds(loop, data, bytes, start)
    PROVE  LoopHolds(Iteration(loop, data), data, bytes, start)
<1>1. CASE ~loop.ok \/ loop.consumed >= Len(data)
    BY <1>1 DEF Iteration
<1>2. CASE ~(~loop.ok \/ loop.consumed >= Len(data))
    <2>1. CASE loop.state.pending = << >> /\ Len(data) - loop.consumed >= LeafBytes
        <3>1. Iteration(loop, data) = PushDirect(loop, data)
            BY <1>2, <2>1 DEF Iteration
        <3>2. LoopHolds(PushDirect(loop, data), data, bytes, start)
            BY <1>2, <2>1, DirectHolds
        <3> QED BY <3>1, <3>2
    <2>2. CASE ~(loop.state.pending = << >> /\ Len(data) - loop.consumed >= LeafBytes)
        <3>1. Iteration(loop, data) = FillPending(loop, data)
            BY <1>2, <2>2 DEF Iteration
        <3>2. LoopHolds(FillPending(loop, data), data, bytes, start)
            BY <1>2, FillHolds
        <3> QED BY <3>1, <3>2
    <2> QED BY <2>1, <2>2
<1> QED BY <1>1, <1>2

\* An iteration consumes a byte at least, unless a push failed or all is
\* consumed.
LEMMA IterationMoves ==
    ASSUME NEW bytes, NEW start \in Nat, NEW data \in Seq(Byte),
           NEW loop, LoopHolds(loop, data, bytes, start),
           NEW i \in 0..(Len(data) - 1), loop.ok => loop.consumed >= i
    PROVE  Iteration(loop, data).ok => Iteration(loop, data).consumed >= i + 1
<1>1. PICK size \in Nat : size = Len(data)
    BY LenProperties
<1>2. CASE ~loop.ok
    BY <1>2 DEF Iteration
<1>3. CASE loop.ok /\ loop.consumed >= Len(data)
    <2>1. loop.consumed \in 0..size
        BY <1>1, <1>3 DEF LoopHolds
    <2>2. Iteration(loop, data) = loop
        BY <1>3 DEF Iteration
    <2> QED BY <1>1, <1>3, <2>1, <2>2
<1>4. CASE loop.ok /\ ~(loop.consumed >= Len(data))
    <2>1. PICK k \in Nat : k = loop.consumed /\ k < size /\ k >= i
        BY <1>1, <1>4 DEF LoopHolds
    <2>2. PICK had \in Nat : had = Len(loop.state.pending) /\ had < LeafBytes
        BY <1>4, LenProperties DEF LoopHolds, Holds
    <2>3. LeafBytes \in Nat \ {0}
        BY ScheduleAssumption
    <2>4. CASE loop.state.pending = << >> /\ Len(data) - loop.consumed >= LeafBytes
        <3>1. Iteration(loop, data) = PushDirect(loop, data)
            BY <1>4, <2>4 DEF Iteration
        <3>2. PushDirect(loop, data).consumed = k + LeafBytes
            BY <2>1 DEF PushDirect, Pushed
        <3> QED BY <2>1, <2>3, <3>1, <3>2
    <2>5. CASE ~(loop.state.pending = << >> /\ Len(data) - loop.consumed >= LeafBytes)
        <3>1. Iteration(loop, data) = FillPending(loop, data)
            BY <1>4, <2>5 DEF Iteration
        <3>2. PICK count : count = Room(had, k, size)
            OBVIOUS
        <3>3. count \in Nat \ {0}
            <4>1. LeafBytes - had \in Nat \ {0} /\ size - k \in Nat \ {0}
                BY <2>1, <2>2, <2>3
            <4> QED BY <3>2, <4>1 DEF Room
        <3>4. FillPending(loop, data).consumed = k + count
            BY <1>1, <2>1, <2>2, <3>2 DEF FillPending, PushPending, Room
        <3> QED BY <2>1, <3>1, <3>3, <3>4
    <2> QED BY <2>4, <2>5
<1> QED BY <1>2, <1>3, <1>4

\* The recursion of Ingest, step by step.
Runs(f, s, data) ==
    /\ f[0] = [ok |-> TRUE, state |-> s, consumed |-> 0]
    /\ \A i \in 0..(Len(data) - 1) : f[i + 1] = Iteration(f[i], data)
    /\ Ingest(s, data) = f[Len(data)]

LEMMA IngestFollows ==
    ASSUME NEW s, NEW data \in Seq(Byte)
    PROVE  \E f : Runs(f, s, data)
<1> DEFINE size == Len(data)
           first == [ok |-> TRUE, state |-> s, consumed |-> 0]
           Step(f, i) == IF i = 0 THEN first ELSE Iteration(f[i - 1], data)
           Solves(f, n) == \A i \in 0..n : f[i] = Step(f, i)
           Eqn(f) == f = [i \in 0..size |-> Step(f, i)]
           T == {n \in 0..size : \E f : Solves(f, n)}
<1>0. size \in Nat
    BY LenProperties
<1> HIDE DEF first, size
<1>1. 0 \in T
    <2> DEFINE f == [i \in {0} |-> first]
    <2>1. f[0] = first
        OBVIOUS
    <2> HIDE DEF f
    <2>2. Solves(f, 0)
        BY <2>1
    <2> QED BY <1>0, <2>2
<1>2. ASSUME NEW n \in 0..(size - 1), n \in T PROVE n + 1 \in T
    <2>1. PICK f : Solves(f, n)
        BY <1>2
    <2> DEFINE g == [i \in 0..size |-> Step(f, i)]
    <2>2. n + 1 \in 0..size
        BY <1>0
    <2>3. \A i \in 0..(n + 1) : g[i] = Step(f, i)
        BY <1>0, <2>2
    <2> HIDE DEF g
    <2>4. ASSUME NEW i \in 0..(n + 1) PROVE Step(f, i) = Step(g, i)
        <3>1. CASE i = 0
            BY <3>1
        <3>2. CASE i # 0
            <4>1. i - 1 \in 0..n /\ i - 1 \in 0..(n + 1)
                BY <3>2
            <4>2. g[i - 1] = f[i - 1]
                <5> HIDE DEF Step
                <5> QED BY <2>1, <2>3, <4>1
            <4> QED BY <3>2, <4>2
        <3> QED BY <3>1, <3>2
    <2> HIDE DEF Step
    <2>5. Solves(g, n + 1)
        BY <2>3, <2>4
    <2> QED BY <2>2, <2>5
<1> HIDE DEF T, Step
<1>3. size \in T
    <2>1. \A i \in 0..size : i \in T
        BY <1>0, <1>1, <1>2, BoundedInduction
    <2> QED BY <1>0, <2>1
<1>4. PICK f : Solves(f, size)
    BY <1>3 DEF T
<1> DEFINE g == [i \in 0..size |-> f[i]]
<1>5. \A i \in 0..size : g[i] = f[i]
    OBVIOUS
<1>6. g = [i \in 0..size |-> g[i]]
    OBVIOUS
<1> HIDE DEF g
<1>7. ASSUME NEW i \in 0..size PROVE g[i] = Step(g, i)
    <2>1. Step(g, i) = Step(f, i)
        <3>1. CASE i = 0
            BY <3>1 DEF Step
        <3>2. CASE i # 0
            <4>1. i - 1 \in 0..size
                BY <1>0, <3>2
            <4>2. g[i - 1] = f[i - 1]
                BY <1>5, <4>1
            <4> QED BY <3>2, <4>2 DEF Step
        <3> QED BY <3>1, <3>2
    <2> QED BY <2>1, <1>4, <1>5
<1>8. Eqn(g)
    BY <1>6, <1>7
<1> DEFINE h == CHOOSE e : Eqn(e)
<1>9. Eqn(h)
    <2> HIDE DEF Eqn
    <2> QED BY <1>8
<1>10. Ingest(s, data) = h[size]
    BY DEF Ingest, Step, first, size
<1> HIDE DEF h
<1>11. \A i \in 0..size : h[i] = Step(h, i)
    BY <1>9
<1>12. h[0] = first
    BY <1>0, <1>11 DEF Step
<1>13. ASSUME NEW i \in 0..(size - 1) PROVE h[i + 1] = Iteration(h[i], data)
    <2>1. i + 1 \in 0..size /\ i + 1 # 0 /\ (i + 1) - 1 = i
        BY <1>0
    <2>2. h[i + 1] = Step(h, i + 1)
        BY <1>11, <2>1
    <2> QED BY <2>1, <2>2 DEF Step
<1> QED BY <1>10, <1>12, <1>13 DEF first, size, Runs

LEMMA IngestHolds ==
    ASSUME NEW bytes, NEW start \in Nat, NEW data \in Seq(Byte),
           IsOf(data, bytes, start), NEW s, Holds(s, bytes, start)
    PROVE  /\ LoopHolds(Ingest(s, data), data, bytes, start)
           /\ Ingest(s, data).ok => Ingest(s, data).consumed = Len(data)
<1>1. PICK f : Runs(f, s, data)
    BY IngestFollows
<1>2. Len(data) \in Nat
    BY LenProperties
<1> DEFINE Reaches(i) == /\ LoopHolds(f[i], data, bytes, start)
                         /\ f[i].ok => f[i].consumed >= i
           T == {i \in 0..Len(data) : Reaches(i)}
<1>3. 0 \in T
    BY <1>1, <1>2 DEF LoopHolds, Runs
<1>4. ASSUME NEW i \in 0..(Len(data) - 1), i \in T PROVE i + 1 \in T
    <2>1. LoopHolds(Iteration(f[i], data), data, bytes, start)
        BY <1>4, IterationHolds
    <2>2. Iteration(f[i], data).ok => Iteration(f[i], data).consumed >= i + 1
        BY <1>4, IterationMoves
    <2>3. f[i + 1] = Iteration(f[i], data)
        BY <1>1 DEF Runs
    <2> QED BY <1>2, <2>1, <2>2, <2>3
<1> HIDE DEF T
<1>5. \A i \in 0..Len(data) : i \in T
    BY <1>2, <1>3, <1>4, BoundedInduction
<1>6. Len(data) \in T
    BY <1>2, <1>5
<1>7. Reaches(Len(data))
    BY <1>6 DEF T
<1>8. Ingest(s, data) = f[Len(data)]
    BY <1>1, Zenon DEF Runs
<1>9. f[Len(data)].ok => f[Len(data)].consumed = Len(data)
    BY <1>2, <1>7 DEF LoopHolds
<1> QED BY <1>7, <1>8, <1>9

-----------------------------------------------------------------------------

\* The inductive invariant of the contents: a context that has not failed
\* holds the bytes fed, and one without storage was fed nothing.
ContentsInv ==
    /\ IInv
    /\ message \in Messages
    /\ storage /\ ~failed => Holds(state, message, fed)
    /\ ~storage /\ ~failed /\ ~finalized => fed = 0

LEMMA FreshHolds ==
    ASSUME NEW bytes
    PROVE  Holds(FreshState, bytes, 0)
<1>1. LeafBytes \in Nat \ {0} /\ SizeMax \in Nat
    BY ScheduleAssumption, SizeMaxLarge
<1>2. /\ FreshState.workspace = EmptyWorkspace
      /\ FreshState.pending = << >>
      /\ FreshState.processed = 0
      /\ IsState(FreshState)
    BY DEF FreshState, IsState
<1>3. 0 * LeafBytes = 0 /\ 0 \in Nat
    BY <1>1
<1>4. HasLeaves(FreshState, bytes, SizeMax, 0)
    BY <1>2, <1>3, EmptyCounts DEF HasLeaves
<1>5. /\ FreshState.pending \in Seq(Byte) /\ Len(FreshState.pending) = 0
      /\ IsOf(FreshState.pending, bytes, FreshState.processed)
    BY <1>2 DEF IsOf
<1>6. 0 = 0 * LeafBytes + Len(FreshState.pending)
    BY <1>3, <1>5
<1> QED BY <1>1, <1>2, <1>3, <1>4, <1>5, <1>6 DEF Holds

\* A state that is valid for a length holds that many bytes.
LEMMA ValidHolds ==
    ASSUME NEW s, NEW bytes, NEW n, NEW m, Holds(s, bytes, n), StateValid(s, m)
    PROVE  n = m
<1>1. PICK c \in Nat : s.processed = c * LeafBytes /\ n = c * LeafBytes + Len(s.pending)
    BY DEF Holds, HasLeaves
<1> QED BY <1>1 DEF StateValid

\* What stream_append does to an open context's contents.
LEMMA AppendHolds ==
    ASSUME ContentsInv, ~failed, ~finalized, NEW size \in Nat \ {0},
           NEW given, NEW memory,
           StreamAppend(size, given, memory).ok
    PROVE  /\ StreamAppend(size, given, memory).storage = TRUE
           /\ Holds(StreamAppend(size, given, memory).state, message, fed + size)
<1> DEFINE data == [i \in 1..size |-> message[fed + i - 1]]
           loop == Ingest(OpenedState, data)
<1>1. /\ fed \in Nat /\ message \in [0..SizeMax -> Byte]
      /\ SizeMax \in Nat /\ Overhead \in Nat
    BY StreamAssumption, SizeMaxLarge, PaddingAssumption
       DEF ContentsInv, IInv, Overhead
<1>2. /\ StreamLengthSupported(length, size)
      /\ StateOpens(memory)
      /\ StreamAppend(size, given, memory) = Appended(loop, size)
    BY DEF StreamAppend
<1> HIDE DEF loop
<1>3. length = fed /\ Holds(OpenedState, message, fed)
    <2>1. CASE storage
        BY <1>2, <2>1, ValidHolds DEF ContentsInv, StateOpens, OpenedState
    <2>2. CASE ~storage
        BY <1>2, <2>2, FreshHolds DEF ContentsInv, StateOpens, OpenedState
    <2> QED BY <2>1, <2>2
<1>4. fed + size <= SizeMax
    <2>1. fed + size <= SizeMax - Overhead
        BY <1>2, <1>3 DEF StreamLengthSupported, LengthSupported
    <2> QED BY <1>1, <2>1
<1>5. data \in Seq(Byte) /\ Len(data) = size /\ IsOf(data, message, fed)
    <2>1. \A i \in 1..size : message[fed + i - 1] \in Byte
        BY <1>1, <1>4
    <2>2. data \in Seq(Byte) /\ Len(data) = size
        BY <2>1
    <2>3. \A i \in 1..size : data[i] = message[fed + i - 1]
        OBVIOUS
    <2> QED BY <2>2, <2>3 DEF IsOf
<1>6. LoopHolds(loop, data, message, fed)
    <2> HIDE DEF data
    <2> QED BY <1>1, <1>3, <1>5, IngestHolds DEF loop
<1>7. loop.ok /\ StateValid(loop.state, length + size)
    <2>1. Appended(loop, size).ok
        BY <1>2
    <2>2. Appended(loop, size).ok
              = (loop.ok /\ StateValid(loop.state, length + size))
        BY DEF Appended
    <2> QED BY <2>1, <2>2
<1> HIDE DEF data
<1>8. Holds(loop.state, message, fed + size)
    <2>1. Holds(loop.state, message, fed + loop.consumed)
        BY <1>6, <1>7 DEF LoopHolds
    <2>2. StateValid(loop.state, fed + size)
        BY <1>3, <1>7
    <2>3. fed + loop.consumed = fed + size
        BY <2>1, <2>2, ValidHolds
    <2> QED BY <2>1, <2>3
<1> QED BY <1>2, <1>8 DEF Appended

LEMMA UpdateContents ==
    ASSUME ContentsInv, NEW size \in Nat, NEW given, NEW memory,
           UpdateOpen(size, given, memory), IInv'
    PROVE  ContentsInv'
<1> DEFINE result == StreamAppend(size, given, memory)
<1>1. /\ ~failed /\ ~finalized /\ finalized' = finalized
      /\ storage' = result.storage
      /\ state' = result.state
      /\ failed' = ~result.ok
      /\ fed' = IF result.ok THEN fed + size ELSE fed
      /\ message' = message /\ message \in Messages
    BY DEF UpdateOpen, Update, ContentsInv
<1>2. CASE ~result.ok
    <2> HIDE DEF result
    <2> QED BY <1>1, <1>2 DEF ContentsInv
<1>3. CASE result.ok /\ size # 0
    <2>1. result.storage = TRUE /\ Holds(result.state, message, fed + size)
        BY <1>1, <1>3, AppendHolds
    <2> HIDE DEF result
    <2> QED BY <1>1, <1>3, <2>1 DEF ContentsInv
<1>4. CASE result.ok /\ size = 0
    <2>1. result.storage = storage /\ result.state = state
        BY <1>4 DEF StreamAppend
    <2>2. fed \in Nat
        BY DEF ContentsInv, IInv
    <2> HIDE DEF result
    <2>3. fed' = fed
        BY <1>1, <1>4, <2>2
    <2> QED BY <1>1, <1>4, <2>1, <2>3 DEF ContentsInv
<1> QED BY <1>2, <1>3, <1>4

LEMMA ContentsKept ==
    ASSUME ContentsInv, [Next]_vars
    PROVE  ContentsInv'
<1>1. IInv'
    BY StepKeeps DEF ContentsInv
<1>2. ASSUME NEW name, Reset(name) PROVE ContentsInv'
    BY <1>1, <1>2 DEF Reset, CloseStorage, ContentsInv
<1>3. ASSUME NEW size \in UpdateSizes, NEW given \in BOOLEAN,
             NEW memory \in BOOLEAN, UpdateRejected(size, given, memory)
      PROVE  ContentsInv'
    BY <1>1, <1>3 DEF UpdateRejected, context, ContentsInv
<1>4. ASSUME NEW size \in UpdateSizes, NEW given \in BOOLEAN,
             NEW memory \in BOOLEAN, UpdateOpen(size, given, memory)
      PROVE  ContentsInv'
    <2>1. size \in Nat
        BY StreamAssumption, SizeMaxLarge
    <2> QED BY <1>1, <1>4, <2>1, UpdateContents
<1>5. ASSUME NEW memory \in BOOLEAN,
             FinalNoOutput(memory) \/ FinalAgain(memory)
      PROVE  ContentsInv'
    <2>1. UNCHANGED <<storage, state, failed, finalized, message, fed>>
        BY <1>5 DEF FinalNoOutput, FinalAgain, context
    <2> QED BY <1>1, <2>1 DEF ContentsInv
<1>6. ASSUME NEW memory \in BOOLEAN,
             FinalOfFailed(memory) \/ FinalOfOpen(memory)
      PROVE  ContentsInv'
    BY <1>1, <1>6 DEF FinalOfFailed, FinalOfOpen, Finalization, CloseStorage,
                      ContentsInv
<1>7. CASE Tamper
    BY <1>1, <1>7 DEF Tamper, ContentsInv
<1>8. CASE UNCHANGED vars
    BY <1>1, <1>8 DEF vars, ContentsInv
<1>9. ASSUME InitContext \/ Free PROVE ContentsInv'
    BY <1>2, <1>9 DEF InitContext, Free
<1>10. CASE Next
    BY <1>3, <1>4, <1>5, <1>6, <1>7, <1>9, <1>10, FinalsOfOpen DEF Next
<1> QED BY <1>8, <1>10

LEMMA ContentsInvariant == Spec => []ContentsInv
<1>1. Init => ContentsInv
    BY DEF Init, IInv, StorageReleased, ContentsInv
<1>2. ContentsInv /\ [Next]_vars => ContentsInv'
    BY ContentsKept
<1> QED BY <1>1, <1>2, PTL DEF Spec

\* However a message is cut into updates, and whatever fails between them, the
\* storage of a context that has not failed holds exactly the bytes fed
\* (stream_append).
THEOREM StreamHolds == Spec => []StorageHoldsMessage
<1>1. ASSUME ContentsInv, storage, ~failed
      PROVE  /\ state.processed + Len(state.pending) = fed
             /\ state.processed % LeafBytes = 0
             /\ Len(state.pending) < LeafBytes
             /\ \A i \in 1..Len(state.pending) :
                    state.pending[i] = message[state.processed + i - 1]
             /\ Canonical(state.workspace, state.processed \div LeafBytes, message)
    <2>1. Holds(state, message, fed)
        BY <1>1 DEF ContentsInv
    <2>2. PICK c \in Nat : /\ HasLeaves(state, message, SizeMax, c)
                           /\ fed = c * LeafBytes + Len(state.pending)
        BY <2>1 DEF Holds
    <2>3. /\ LeafBytes \in Nat \ {0} /\ SizeMax \in Nat
          /\ state.processed = c * LeafBytes
          /\ c * LeafBytes <= SizeMax
          /\ Counts(state.workspace, message, 0, SizeMax, c)
        BY <2>1, <2>2, ScheduleAssumption, SizeMaxLarge DEF HasLeaves, Holds
    <2>4. (c * LeafBytes) \div LeafBytes = c /\ (c * LeafBytes) % LeafBytes = 0
        <3>1. PICK r \in 0..(LeafBytes - 1) : r = 0
            BY <2>3
        <3>2. /\ (c * LeafBytes + r) \div LeafBytes = c
              /\ (c * LeafBytes + r) % LeafBytes = r
            BY <2>3, DivModUnique
        <3>3. c * LeafBytes + r = c * LeafBytes
            BY <2>3, <3>1
        <3> QED BY <3>1, <3>2, <3>3
    <2>5. ASSUME NEW l \in Slots
          PROVE  LET index == c \div Pow2[l]
                     span  == Pow2[l] * LeafBytes
                 IN  state.workspace[l] =
                         IF index % 2 = 1
                         THEN TreeNode(message, (index - 1) * span, span)
                         ELSE EmptySlot
        <3> DEFINE index == c \div Pow2[l]
                   span  == Pow2[l] * LeafBytes
        <3>1. l \in Nat
            BY ScheduleAssumption DEF Slots
        <3>2. state.workspace[l] = Slot(message, 0, SizeMax, c, l)
            BY <2>3 DEF Counts
        <3>3. CASE index % 2 = 1
            <4>1. /\ ((index - 1) * Pow2[l]) * LeafBytes = (index - 1) * span
                  /\ End(index * Pow2[l], SizeMax)
                         - ((index - 1) * Pow2[l]) * LeafBytes = span
                BY <2>3, <3>1, <3>3, SlotNumbers
            <4>2. state.workspace[l] = Over(message, 0, SizeMax,
                                            (index - 1) * Pow2[l],
                                            index * Pow2[l])
                BY <3>2, <3>3 DEF Slot
            <4>3. 0 + (index - 1) * span = (index - 1) * span
                <5>1. index \in Nat /\ Pow2[l] \in Nat
                    BY <3>1, HalfIndex, Pow2Positive
                <5> HIDE DEF index
                <5> QED BY <2>3, <5>1
            <4> HIDE DEF index, span
            <4>4. state.workspace[l] = TreeNode(message, (index - 1) * span, span)
                BY <4>1, <4>2, <4>3 DEF Over
            <4> QED BY <3>3, <4>4 DEF index, span
        <3>4. CASE ~(index % 2 = 1)
            BY <3>2, <3>4 DEF Slot
        <3> QED BY <3>3, <3>4
    <2>6. Canonical(state.workspace, c, message)
        BY <2>5 DEF Canonical
    <2>7. state.processed + Len(state.pending) = fed
        BY <2>2, <2>3
    <2>8. Len(state.pending) < LeafBytes /\ IsOf(state.pending, message, state.processed)
        BY <2>1 DEF Holds
    <2> QED BY <2>3, <2>4, <2>6, <2>7, <2>8 DEF IsOf
<1>2. ContentsInv => StorageHoldsMessage
    BY <1>1 DEF StorageHoldsMessage
<1> QED BY <1>2, ContentsInvariant, PTL

-----------------------------------------------------------------------------
(* The digest *)

LEMMA LengthByteIsByte ==
    ASSUME NEW n \in Nat, NEW k \in Nat
    PROVE  LengthByte(n, k) \in Byte
<1>1. 8 * n \in Nat /\ 8 * k \in Nat
    OBVIOUS
<1>2. Pow2[8 * k] \in Nat \ {0}
    BY <1>1, Pow2Positive
<1>3. PICK q \in Nat : q = (8 * n) \div Pow2[8 * k]
    BY <1>1, <1>2, DivMod
<1>4. q % 256 \in 0..255
    OBVIOUS
<1> QED BY <1>3, <1>4 DEF LengthByte, Byte

\* The tail of stream_final_checked is the end of the padded message.
LEMMA TailIsPadding ==
    ASSUME NEW bytes, NEW n \in Nat, NEW s, Holds(s, bytes, n),
           TailFits(s, n)
    PROVE  LET tail == TailBytes(s, n) IN
           /\ s.processed \in Nat /\ PaddedLength(n) \in Nat
           /\ s.processed <= n
           /\ tail \in Seq(Byte)
           /\ Len(tail) = PaddedLength(n) - s.processed
           /\ Len(tail) \in Nat \ {0}
           /\ IsOf(tail, PaddedMessage(bytes, n), s.processed)
<1>1. PICK c \in Nat : s.processed = c * LeafBytes /\ n = c * LeafBytes + Len(s.pending)
    BY DEF Holds, HasLeaves
<1>2. PICK q \in Seq(Byte) : q = s.pending /\ IsOf(q, bytes, s.processed)
    BY DEF Holds
<1>3. PICK p \in Nat : p = s.processed
    BY <1>1, ScheduleAssumption
<1>4. PICK h \in Nat : h = Len(q) /\ p + h = n
    BY <1>1, <1>2, <1>3, LenProperties
<1>5. LengthBytes \in Nat \ {0} /\ PaddingMin \in Nat /\ Overhead = LengthBytes + 1
    BY PaddingAssumption DEF Overhead
<1>6. PICK padded \in Nat : padded = PaddedLength(n)
    BY <1>5 DEF PaddedLength
<1>7. PICK size \in Nat : size = padded - p /\ size - h >= LengthBytes + 1
    <2>1. p <= padded /\ (padded - p) - h >= LengthBytes + 1
        BY <1>2, <1>3, <1>4, <1>5, <1>6 DEF TailFits, TailLength
    <2>2. padded - p \in Nat
        BY <2>1
    <2> QED BY <2>1, <2>2
<1> DEFINE tail == TailBytes(s, n)
           Entry(i) == IF i > size - LengthBytes
                       THEN LengthByte(n, i - 1 - (size - LengthBytes))
                       ELSE IF i <= h THEN q[i]
                       ELSE IF i = h + 1 THEN Marker
                       ELSE ZeroByte
<1>8. tail = [i \in 1..size |-> Entry(i)]
    BY <1>2, <1>3, <1>4, <1>6, <1>7 DEF TailBytes, TailLength
<1>9. ASSUME NEW i \in 1..size
      PROVE  /\ Entry(i) \in Byte
             /\ Entry(i) = PaddedMessage(bytes, n)[p + i - 1]
    <2>1. PICK j \in Nat : j = p + i - 1
        OBVIOUS
    <2>2. j \in 0..(padded - 1)
        BY <1>7, <2>1
    <2>3. PaddedMessage(bytes, n)[j] = PaddedByte(bytes, n, j)
        BY <1>6, <2>2 DEF PaddedMessage
    <2>4. PaddedByte(bytes, n, j)
              = IF j < n THEN bytes[j]
                ELSE IF j = n THEN Marker
                ELSE IF j >= padded - LengthBytes
                     THEN LengthByte(n, j - (padded - LengthBytes))
                ELSE ZeroByte
        BY <1>6 DEF PaddedByte
    <2>5. CASE i > size - LengthBytes
        <3>1. /\ ~(j < n) /\ ~(j = n) /\ j >= padded - LengthBytes
              /\ j - (padded - LengthBytes) = i - 1 - (size - LengthBytes)
              /\ i - 1 - (size - LengthBytes) \in Nat
            BY <1>4, <1>5, <1>7, <2>1, <2>5
        <3>2. Entry(i) = LengthByte(n, i - 1 - (size - LengthBytes))
            BY <2>5
        <3>3. PaddedByte(bytes, n, j) = LengthByte(n, i - 1 - (size - LengthBytes))
            BY <2>4, <3>1
        <3> HIDE DEF Entry
        <3> QED BY <2>1, <2>3, <3>1, <3>2, <3>3, LengthByteIsByte
    <2>6. CASE ~(i > size - LengthBytes) /\ i <= h
        <3>1. j < n /\ i \in 1..Len(q)
            BY <1>4, <2>1, <2>6
        <3>2. Entry(i) = q[i]
            BY <2>6
        <3>3. q[i] = bytes[j] /\ q[i] \in Byte
            BY <1>2, <1>3, <2>1, <3>1, ElementOfSeq DEF IsOf
        <3> HIDE DEF Entry
        <3> QED BY <2>1, <2>3, <2>4, <3>1, <3>2, <3>3
    <2>7. CASE ~(i > size - LengthBytes) /\ i = h + 1
        <3>1. ~(j < n) /\ j = n /\ ~(i <= h)
            BY <1>4, <2>1, <2>7
        <3>2. Entry(i) = Marker
            BY <2>7, <3>1
        <3> HIDE DEF Entry
        <3> QED BY <2>1, <2>3, <2>4, <3>1, <3>2 DEF Marker, Byte
    <2>8. CASE ~(i > size - LengthBytes) /\ i > h + 1
        <3>1. ~(j < n) /\ ~(j = n) /\ ~(i <= h) /\ ~(i = h + 1)
              /\ ~(j >= padded - LengthBytes)
            BY <1>4, <1>5, <1>7, <2>1, <2>8
        <3>2. Entry(i) = ZeroByte
            BY <2>8, <3>1
        <3> HIDE DEF Entry
        <3> QED BY <2>1, <2>3, <2>4, <3>1, <3>2 DEF ZeroByte, Byte
    <2> QED BY <1>4, <2>5, <2>6, <2>7, <2>8
<1> HIDE DEF Entry, tail
<1>10. tail \in Seq(Byte) /\ Len(tail) = size
    BY <1>8, <1>9
<1>11. IsOf(tail, PaddedMessage(bytes, n), p)
    BY <1>8, <1>9, <1>10 DEF IsOf
<1>12. size \in Nat \ {0} /\ p <= n
    BY <1>4, <1>5, <1>7
<1> QED BY <1>3, <1>6, <1>7, <1>10, <1>11, <1>12 DEF tail

\* The loop over the tail pushes the leaf that is left of the padded message,
\* or the two, and then the slots count all its leaves.
LEMMA TailPushed ==
    ASSUME NEW bytes, NEW padded \in Nat \ {0}, padded <= SizeMax,
           NEW c \in Nat, NEW s, HasLeaves(s, bytes, padded, c),
           NEW tail \in Seq(Byte), Len(tail) # 0,
           padded = c * LeafBytes + Len(tail), IsOf(tail, bytes, s.processed),
           Len(tail) <= 2 * LeafBytes
    PROVE  LET pushed == PushTail(s, tail) IN
           /\ pushed.ok
           /\ pushed.state.processed = padded
           /\ Counts(pushed.state.workspace, bytes, 0, padded, LeafCount(padded))
<1>1. PICK size \in Nat \ {0} : size = Len(tail)
    BY LenProperties
<1>2. PICK p \in Nat : p = c * LeafBytes /\ p = s.processed /\ padded = p + size
    BY <1>1, ScheduleAssumption DEF HasLeaves
<1>3. LeafBytes \in Nat \ {0} /\ (c + 1) * LeafBytes = p + LeafBytes /\ c + 1 \in Nat
    BY <1>2, ScheduleAssumption
<1>4. LeafCount(padded) = c + LeafCount(size) /\ LeafCount(size) \in Nat \ {0}
    <2>1. padded = c * LeafBytes + size
        BY <1>2
    <2> QED BY <2>1, LeavesAfter, LeavesCover
<1>5. c < LeafCount(padded)
    BY <1>4
<1>6. ASSUME NEW rest \in Nat \ {0}, rest <= LeafBytes
      PROVE  LeafCount(rest) = 1
    <2>1. PICK r \in 0..(LeafBytes - 1) : r = rest - 1
        BY <1>3, <1>6
    <2>2. (0 * LeafBytes + r) \div LeafBytes = 0
        BY <1>3, DivModUnique
    <2>3. 0 * LeafBytes + r = rest - 1
        BY <1>3, <2>1
    <2> QED BY <2>2, <2>3 DEF LeafCount
<1>7. CASE size <= LeafBytes
    <2> DEFINE d == PieceOf(tail, 0, size)
               first == StreamPushLeaf(s, d)
    <2>1. Len(d) = size /\ IsOf(d, bytes, s.processed)
        <3>1. PICK z \in Nat : z = 0
            OBVIOUS
        <3>2. /\ Len(PieceOf(tail, z, size)) = size
              /\ IsOf(PieceOf(tail, z, size), bytes, p + z)
            <4>1. z + size <= Len(tail) /\ IsOf(tail, bytes, p)
                BY <1>1, <1>2, <3>1
            <4> QED BY <4>1, Piece
        <3>3. p + z = s.processed
            BY <1>2, <3>1
        <3> QED BY <3>1, <3>2, <3>3
    <2>2. PushTail(s, tail) = first
        <3>1. SubSeq(tail, size + 1, size) = << >>
            BY <1>1, SubSeqEmpty
        <3>2. PushTail(s, tail) = PushRest(StreamPushLeaf(s, SubSeq(tail, 1, size)),
                                           SubSeq(tail, size + 1, size))
            BY <1>1, <1>7, <1>3 DEF PushTail
        <3>3. d = SubSeq(tail, 1, size)
            BY DEF PieceOf
        <3> QED BY <3>1, <3>2, <3>3 DEF PushRest
    <2>3. size = IF padded - c * LeafBytes > LeafBytes THEN LeafBytes
                 ELSE padded - c * LeafBytes
        BY <1>2, <1>3, <1>7
    <2> HIDE DEF d
    <2>4. first.ok /\ LeafPushed(s, first.state, bytes, padded, c, size)
        BY <1>5, <2>1, <2>3, StreamPush
    <2>5. LeafCount(padded) = c + 1
        BY <1>4, <1>6, <1>7
    <2> HIDE DEF first
    <2> QED BY <1>2, <2>2, <2>4, <2>5 DEF LeafPushed
<1>8. CASE size > LeafBytes
    <2>1. PICK more \in Nat \ {0} : more = size - LeafBytes
        BY <1>3, <1>8
    <2> DEFINE d == PieceOf(tail, 0, LeafBytes)
               e == PieceOf(tail, LeafBytes, more)
               first  == StreamPushLeaf(s, d)
               second == StreamPushLeaf(first.state, e)
    <2>2. /\ Len(d) = LeafBytes /\ IsOf(d, bytes, s.processed)
          /\ e \in Seq(Byte) /\ Len(e) = more /\ IsOf(e, bytes, p + LeafBytes)
        <3>1. 0 + LeafBytes <= Len(tail) /\ LeafBytes + more <= Len(tail)
            BY <1>1, <1>3, <1>8, <2>1
        <3>2. PICK z \in Nat : z = 0
            OBVIOUS
        <3>3. /\ Len(PieceOf(tail, z, LeafBytes)) = LeafBytes
              /\ IsOf(PieceOf(tail, z, LeafBytes), bytes, p + z)
            <4>1. z + LeafBytes <= Len(tail) /\ IsOf(tail, bytes, p)
                BY <1>2, <3>1, <3>2
            <4> QED BY <1>3, <4>1, Piece
        <3>4. e \in Seq(Byte) /\ Len(e) = more /\ IsOf(e, bytes, p + LeafBytes)
            BY <1>2, <1>3, <3>1, Piece
        <3>5. p + z = s.processed
            BY <1>2, <3>2
        <3> QED BY <3>2, <3>3, <3>4, <3>5
    <2>3. PushTail(s, tail) = PushRest(first, e)
        <3>1. PushTail(s, tail)
                  = PushRest(StreamPushLeaf(s, SubSeq(tail, 1, LeafBytes)),
                             SubSeq(tail, LeafBytes + 1, size))
            BY <1>1, <1>8, <1>3 DEF PushTail
        <3>2. 0 + 1 = 1 /\ 0 + LeafBytes = LeafBytes /\ LeafBytes + more = size
            BY <1>3, <1>8, <2>1
        <3>3. d = SubSeq(tail, 1, LeafBytes) /\ e = SubSeq(tail, LeafBytes + 1, size)
            BY <3>2 DEF PieceOf
        <3> QED BY <3>1, <3>3
    <2>4. e # << >>
        BY <2>1, <2>2, EmptySeq
    <2> HIDE DEF d, e
    <2>6. LeafBytes = IF padded - c * LeafBytes > LeafBytes THEN LeafBytes
                      ELSE padded - c * LeafBytes
        BY <1>2, <1>3, <1>8
    <2>7. first.ok /\ LeafPushed(s, first.state, bytes, padded, c, LeafBytes)
        BY <1>5, <2>2, <2>6, StreamPush
    <2>5. PushTail(s, tail) = second
        BY <2>3, <2>4, <2>7 DEF PushRest
    <2> HIDE DEF first
    <2>8. PICK t : t = first.state
        OBVIOUS
    <2>9. HasLeaves(t, bytes, padded, c + 1) /\ t.processed = p + LeafBytes
        <3>1. /\ IsState(t) /\ t.processed = s.processed + LeafBytes
              /\ Counts(t.workspace, bytes, 0, padded, c + 1)
            BY <2>7, <2>8 DEF LeafPushed
        <3> QED BY <1>2, <1>3, <3>1 DEF HasLeaves
    <2>11. more <= LeafBytes
        BY <1>1, <1>3, <2>1
    <2>12. LeafCount(padded) = (c + 1) + 1
        <3>1. padded = (c + 1) * LeafBytes + more
            BY <1>2, <1>3, <1>8, <2>1
        <3>2. PICK q \in Nat : q = c + 1
            BY <1>3
        <3>3. LeafCount(q * LeafBytes + more) = q + LeafCount(more)
            BY LeavesAfter
        <3> QED BY <1>6, <2>11, <3>1, <3>2, <3>3
    <2>13. more = IF padded - (c + 1) * LeafBytes > LeafBytes THEN LeafBytes
                  ELSE padded - (c + 1) * LeafBytes
        BY <1>2, <1>3, <1>8, <2>1, <2>11
    <2>14. /\ StreamPushLeaf(t, e).ok
           /\ LeafPushed(t, StreamPushLeaf(t, e).state, bytes, padded, c + 1, more)
        <3>1. c + 1 < LeafCount(padded)
            BY <2>12
        <3>2. IsOf(e, bytes, t.processed)
            BY <2>2, <2>9
        <3> QED BY <1>3, <2>2, <2>9, <2>13, <3>1, <3>2, StreamPush
    <2>15. (p + LeafBytes) + more = padded
        BY <1>2, <1>3, <1>8, <2>1
    <2> HIDE DEF second
    <2>16. second = StreamPushLeaf(t, e)
        BY <2>8 DEF second
    <2> QED BY <2>5, <2>9, <2>12, <2>14, <2>15, <2>16 DEF LeafPushed
<1> QED BY <1>1, <1>3, <1>7, <1>8

\* What the tail leaves: the slots fold to the root of the padded message.
LEMMA TailFolds ==
    ASSUME NEW bytes, NEW n \in Nat, NEW s, Holds(s, bytes, n), TailFits(s, n),
           NEW padded, padded = PaddedLength(n), padded <= SizeMax
    PROVE  LET pushed == PushTail(s, TailBytes(s, n))
               w      == pushed.state.workspace
           IN  /\ pushed.ok
               /\ pushed.state.processed = padded
               /\ padded \in Nat
               /\ RangeAccepted(0, padded)
               /\ FoldAccepted(w, PositionOf(0, padded))
               /\ Root(w) = TreeNode(PaddedMessage(bytes, n), 0, padded)
<1> DEFINE tail   == TailBytes(s, n)
           pushed == PushTail(s, tail)
           whole  == PaddedMessage(bytes, n)
<1>1. /\ s.processed \in Nat /\ padded \in Nat
      /\ s.processed <= n
      /\ tail \in Seq(Byte)
      /\ Len(tail) = padded - s.processed
      /\ Len(tail) \in Nat \ {0}
      /\ IsOf(tail, whole, s.processed)
    BY TailIsPadding
<1>2. Len(tail) <= 2 * LeafBytes
    <2>1. Len(tail) <= LeafBytes + Overhead
        BY <1>1 DEF TailFits, TailLength
    <2>2. Overhead \in Nat /\ LeafBytes \in Nat /\ Overhead <= LeafBytes
        BY PaddingAssumption, ScheduleAssumption DEF Overhead
    <2> HIDE DEF tail
    <2> QED BY <1>1, <2>1, <2>2
<1> HIDE DEF tail, whole
<1>3. padded \in Nat \ {0} /\ SizeMax \in Nat
    <2>1. padded # 0
        BY <1>1
    <2> QED BY <1>1, <2>1, SizeMaxLarge
<1>4. RangeAccepted(0, padded)
    BY <1>3, RangeFromZero
<1>5. PICK c \in Nat : HasLeaves(s, bytes, SizeMax, c)
    BY DEF Holds
<1>6. /\ s.processed = c * LeafBytes
      /\ padded = c * LeafBytes + Len(tail)
    BY <1>1, <1>5 DEF HasLeaves
<1>7. HasLeaves(s, whole, padded, c)
    <2>1. Agree(bytes, whole, 0, c * LeafBytes)
        <3> SUFFICES ASSUME NEW o \in 0..(c * LeafBytes - 1)
                     PROVE  bytes[o] = whole[o]
            BY DEF Agree
        <3>1. o \in 0..(padded - 1) /\ o < n
            <4>1. c * LeafBytes <= n /\ c * LeafBytes < padded
                BY <1>1, <1>6
            <4>2. c * LeafBytes \in Nat
                BY <1>1, <1>6
            <4> QED BY <1>1, <4>1, <4>2
        <3> QED BY <3>1 DEF whole, PaddedMessage, PaddedByte
    <2>2. c * LeafBytes <= SizeMax /\ c * LeafBytes <= padded
        BY <1>1, <1>3, <1>6
    <2>3. Counts(s.workspace, bytes, 0, SizeMax, c)
        BY <1>5 DEF HasLeaves
    <2>4. Counts(s.workspace, whole, 0, padded, c)
        BY <1>1, <1>3, <2>1, <2>2, <2>3, CountsAreLocal
    <2> QED BY <1>5, <2>4 DEF HasLeaves
<1>8. /\ pushed.ok
      /\ pushed.state.processed = padded
      /\ Counts(pushed.state.workspace, whole, 0, padded, LeafCount(padded))
    <2>1. Len(tail) # 0
        BY <1>1
    <2> QED BY <1>1, <1>2, <1>3, <1>6, <1>7, <2>1, TailPushed
<1> HIDE DEF pushed
<1>9. PICK w : w = pushed.state.workspace
    OBVIOUS
<1>10. /\ FoldAccepted(w, PositionOf(0, padded))
       /\ Root(w) = TreeNode(whole, 0, padded)
    <2>1. 0 \in Nat
        OBVIOUS
    <2> QED BY <1>3, <1>4, <1>8, <1>9, <2>1, FoldCounts
<1> QED BY <1>1, <1>4, <1>8, <1>9, <1>10 DEF pushed, tail, whole

\* A final that writes a digest writes the reference digest of what its state
\* holds.
LEMMA OutputIsReference ==
    ASSUME NEW bytes, NEW n \in Nat, NEW s, Holds(s, bytes, n), TailFits(s, n),
           Output(PushTail(s, TailBytes(s, n)), n) # Zeroed
    PROVE  Output(PushTail(s, TailBytes(s, n)), n)
               = Written(ReferenceDigest(variant, bytes, n))
<1> DEFINE pushed == PushTail(s, TailBytes(s, n))
           whole  == PaddedMessage(bytes, n)
<1>1. PICK padded : padded = PaddedLength(n)
    OBVIOUS
<1>2. RootAccepted(pushed, n)
    BY DEF Output
<1>3. padded <= SizeMax
    <2>1. 0 <= SizeMax - padded
        BY <1>1, <1>2 DEF RootAccepted, RangeAccepted
    <2>2. padded \in Nat
        BY <1>1, TailIsPadding
    <2> QED BY <2>1, <2>2, SizeMaxLarge
<1>4. Root(pushed.state.workspace) = TreeNode(whole, 0, padded)
    BY <1>1, <1>3, TailFolds
<1> HIDE DEF pushed
<1>5. Output(pushed, n) = Written(Finalize(variant, Root(pushed.state.workspace),
                                           n, padded))
    BY <1>1, <1>2 DEF Output
<1>6. ReferenceDigest(variant, bytes, n)
           = Finalize(variant, TreeNode(whole, 0, padded), n, padded)
    BY <1>1 DEF ReferenceDigest, whole
<1>7. Output(pushed, n) = Written(ReferenceDigest(variant, bytes, n))
    BY <1>4, <1>5, <1>6
<1> QED BY <1>7 DEF pushed

LEMMA FinalIsReference ==
    ASSUME ContentsInv, ~failed, ~finalized, NEW memory,
           FinalWrites(memory) # Zeroed
    PROVE  FinalWrites(memory) = Written(ReferenceDigest(variant, message, fed))
<1>1. fed \in Nat
    BY DEF ContentsInv, IInv
<1>2. /\ StateOpens(memory)
      /\ TailFits(OpenedState, length)
      /\ FinalWrites(memory)
             = Output(PushTail(OpenedState, TailBytes(OpenedState, length)), length)
    BY DEF FinalWrites, FinalOpens, FinalOutput
<1>3. length = fed /\ Holds(OpenedState, message, fed)
    <2>1. CASE storage
        BY <1>2, <2>1, ValidHolds DEF ContentsInv, StateOpens, OpenedState
    <2>2. CASE ~storage
        BY <1>2, <2>2, FreshHolds DEF ContentsInv, StateOpens, OpenedState
    <2> QED BY <2>1, <2>2
<1>4. PICK s : s = OpenedState
    OBVIOUS
<1>5. /\ Holds(s, message, fed) /\ TailFits(s, fed)
      /\ FinalWrites(memory) = Output(PushTail(s, TailBytes(s, fed)), fed)
    BY <1>2, <1>3, <1>4
<1>6. Output(PushTail(s, TailBytes(s, fed)), fed)
          = Written(ReferenceDigest(variant, message, fed))
    BY <1>1, <1>5, OutputIsReference
<1> QED BY <1>5, <1>6

LEMMA DigestKept ==
    ASSUME ContentsInv, DigestIsReference, [Next]_vars
    PROVE  DigestIsReference'
<1>1. ASSUME InitContext \/ Free PROVE DigestIsReference'
    BY <1>1 DEF InitContext, Free, Reset, Call, DigestIsReference
<1>2. ASSUME NEW size, NEW given, NEW memory,
             UpdateRejected(size, given, memory)
      PROVE  DigestIsReference'
    BY <1>2 DEF UpdateRejected, Call, DigestIsReference
<1>3. ASSUME NEW size, NEW given, NEW memory,
             UpdateOpen(size, given, memory)
      PROVE  DigestIsReference'
    BY <1>3 DEF UpdateOpen, Update, Call, DigestIsReference
<1>4. ASSUME NEW memory, FinalNoOutput(memory) PROVE DigestIsReference'
    BY <1>4 DEF FinalNoOutput, Call, DigestIsReference
<1>5. ASSUME NEW memory, FinalAgain(memory) \/ FinalOfFailed(memory)
      PROVE  DigestIsReference'
    BY <1>5 DEF FinalAgain, FinalOfFailed, Call, DigestIsReference
<1>6. ASSUME NEW memory, FinalOfOpen(memory) PROVE DigestIsReference'
    <2> DEFINE out == FinalWrites(memory)
    <2>1. /\ ~finalized /\ ~failed
          /\ last' = Call("final", 0, TRUE, memory, out # Zeroed, out)
          /\ variant' = variant /\ message' = message /\ fed' = fed
        BY <1>6 DEF FinalOfOpen, Finalization
    <2>2. out # Zeroed => out = Written(ReferenceDigest(variant, message, fed))
        BY <2>1, FinalIsReference
    <2> HIDE DEF out
    <2>3. /\ last'.given = TRUE /\ last'.ok = (out # Zeroed) /\ last'.out = out
        BY <2>1 DEF Call
    <2> QED BY <2>1, <2>2, <2>3 DEF DigestIsReference
<1>7. CASE Tamper
    BY <1>7 DEF Tamper, Call, DigestIsReference
<1>8. CASE UNCHANGED vars
    BY <1>8 DEF vars, DigestIsReference
<1>9. CASE Next
    BY <1>1, <1>2, <1>3, <1>4, <1>5, <1>6, <1>7, <1>9, FinalsOfOpen DEF Next
<1> QED BY <1>8, <1>9

\* A final that returns 1 has written the digest that fch_reference.py defines
\* for the bytes fed, for every cut of the message into updates, every failure
\* on the way and whatever the caller did to ctx->length; any other final with
\* a buffer has written zeroes (stream_final_checked).
THEOREM StreamDigest == Spec => []DigestIsReference
<1>1. Init => DigestIsReference
    BY DEF Init, Call, DigestIsReference
<1>2. ContentsInv /\ DigestIsReference /\ [Next]_vars => DigestIsReference'
    BY DigestKept
<1> QED BY <1>1, <1>2, ContentsInvariant, PTL DEF Spec

-----------------------------------------------------------------------------
(* The promise of HashContext *)

LEMMA HoldsValid ==
    ASSUME NEW bytes, NEW n \in Nat, n <= SizeMax, NEW s, Holds(s, bytes, n)
    PROVE  StateValid(s, n)
<1>1. LeafBytes \in Nat \ {0} /\ SizeMax \in Nat
    BY ScheduleAssumption, SizeMaxLarge
<1>2. PICK c \in Nat : s.processed = c * LeafBytes /\ n = c * LeafBytes + Len(s.pending)
    BY DEF Holds, HasLeaves
<1>3. PICK h \in Nat : h = Len(s.pending) /\ h < LeafBytes
    BY LenProperties DEF Holds
<1>4. (c * LeafBytes) % LeafBytes = 0
    <2>1. PICK r \in 0..(LeafBytes - 1) : r = 0
        BY <1>1
    <2>2. (c * LeafBytes + r) % LeafBytes = r
        BY <1>1, DivModUnique
    <2>3. c * LeafBytes + r = c * LeafBytes
        BY <1>1, <2>1
    <2> QED BY <2>1, <2>2, <2>3
<1>5. PICK p \in Nat : p = s.processed /\ p % LeafBytes = 0 /\ n = p + h
    <2>1. c * LeafBytes \in Nat
        BY <1>1
    <2> QED BY <1>2, <1>3, <1>4, <2>1, Zenon
<1>6. p <= SizeMax - h
    BY <1>1, <1>3, <1>5
<1> QED BY <1>3, <1>5, <1>6 DEF StateValid

\* The buffer of stream_final_checked has room for the tail of any message.
LEMMA TailAlwaysFits ==
    ASSUME NEW bytes, NEW n \in Nat, NEW s, Holds(s, bytes, n)
    PROVE  TailFits(s, n)
<1>1. PICK leaf \in Nat : leaf = LeafBytes
    BY ScheduleAssumption
<1>2. PICK extra \in Nat : extra = Overhead
    BY PaddingAssumption DEF Overhead
<1>3. PICK least \in Nat : least = PaddingMin /\ least <= leaf
    BY <1>1, PaddingAssumption
<1>4. PICK c \in Nat : s.processed = c * LeafBytes /\ n = c * LeafBytes + Len(s.pending)
    BY DEF Holds, HasLeaves
<1>5. PICK h \in Nat : h = Len(s.pending) /\ h < leaf
    BY <1>1, LenProperties DEF Holds
<1>6. PICK p \in Nat : p = s.processed /\ n = p + h
    <2>1. c * LeafBytes \in Nat
        BY <1>1
    <2> QED BY <1>4, <1>5, <2>1, Zenon
<1>7. PICK padded :
          /\ padded = PaddedLength(n)
          /\ padded = IF n + extra < least THEN least ELSE n + extra
    BY <1>2, <1>3 DEF PaddedLength
<1>8. /\ p <= padded
      /\ padded - p <= leaf + extra
      /\ h <= padded - p
      /\ (padded - p) - h >= extra
    <2>1. n = p + h /\ h < leaf /\ least <= leaf
        BY <1>3, <1>5, <1>6
    <2>2. CASE n + extra < least
        <3>1. padded = least
            BY <1>7, <2>2
        <3> QED BY <2>1, <2>2, <3>1
    <2>3. CASE ~(n + extra < least)
        <3>1. padded = n + extra
            BY <1>7, <2>3
        <3> QED BY <2>1, <3>1
    <2> QED BY <2>2, <2>3
<1> QED BY <1>1, <1>2, <1>5, <1>6, <1>7, <1>8 DEF TailFits, TailLength

\* A final of a context that holds a supported number of bytes writes their
\* digest: none of the checks on the way refuses.
LEMMA OutputTaken ==
    ASSUME NEW bytes, NEW n \in Nat, NEW s, Holds(s, bytes, n),
           LengthSupported(n)
    PROVE  Output(PushTail(s, TailBytes(s, n)), n)
               = Written(ReferenceDigest(variant, bytes, n))
<1>1. TailFits(s, n)
    BY TailAlwaysFits
<1>2. PICK padded \in Nat : padded = PaddedLength(n) /\ padded <= SizeMax
    BY SupportedFits
<1>3. PICK pushed : pushed = PushTail(s, TailBytes(s, n))
    OBVIOUS
<1>4. PICK w : w = pushed.state.workspace
    OBVIOUS
<1>5. /\ pushed.ok
      /\ pushed.state.processed = padded
      /\ RangeAccepted(0, padded)
      /\ FoldAccepted(w, PositionOf(0, padded))
      /\ Root(w) = TreeNode(PaddedMessage(bytes, n), 0, padded)
    BY <1>1, <1>2, <1>3, <1>4, TailFolds
<1>6. Root(w).tree = PositionOf(0, padded)
    <2>1. <<0, padded>> \in Ranges
        BY <1>2, SizeMaxLarge DEF Ranges
    <2> QED BY <1>5, <2>1, NodePlace DEF TreeNode
<1>7. FinalizeAccepted(Root(w), n, padded)
    BY <1>2, <1>6 DEF FinalizeAccepted, LengthSupported
<1>8. RootAccepted(pushed, n)
    BY <1>2, <1>4, <1>5, <1>7 DEF RootAccepted
<1>9. Output(pushed, n) # Zeroed
    BY <1>8 DEF Output, Written, Zeroed
<1> QED BY <1>1, <1>3, <1>9, OutputIsReference

\* The inductive invariant of a context whose length nobody overwrites: while
\* it is open, it has counted the bytes fed, it can hash them, and it has
\* storage exactly if there are any.
OpenInv ==
    /\ ContentsInv
    /\ length \in 0..SizeMax
    /\ ~failed /\ ~finalized =>
           /\ length = fed
           /\ Hashable(length)
           /\ storage <=> length > 0

\* The updates an open context accepts.
Taken(size, given, memory) ==
    size > 0 =>
        /\ given
        /\ Hashable(length + size)
        /\ length = 0 => memory

LEMMA OpenedHolds ==
    ASSUME OpenInv, ~failed, ~finalized, NEW memory \in BOOLEAN
    PROVE  /\ Holds(OpenedState, message, length)
           /\ StateOpens(memory) <=> (length = 0 => memory)
<1>1. /\ length \in Nat /\ length <= SizeMax /\ length = fed
      /\ storage <=> length > 0
    BY SizeMaxLarge DEF OpenInv
<1>2. CASE storage
    <2>1. Holds(state, message, length)
        BY <1>1, <1>2 DEF OpenInv, ContentsInv
    <2>2. StateValid(state, length)
        BY <1>1, <2>1, HoldsValid
    <2>3. length # 0
        BY <1>1, <1>2
    <2> QED BY <1>2, <2>1, <2>2, <2>3 DEF OpenedState, StateOpens
<1>3. CASE ~storage
    <2>1. length = 0
        BY <1>1, <1>3
    <2> QED BY <1>3, <2>1, FreshHolds DEF OpenedState, StateOpens
<1> QED BY <1>2, <1>3

\* stream_append with a supported number of bytes pushes every leaf of them.
LEMMA BytesTaken ==
    ASSUME OpenInv, ~failed, ~finalized, NEW size \in Nat \ {0},
           NEW given \in BOOLEAN, NEW memory \in BOOLEAN,
           Taken(size, given, memory)
    PROVE  /\ StreamAppend(size, given, memory).ok = TRUE
           /\ StreamAppend(size, given, memory).storage = TRUE
           /\ StreamAppend(size, given, memory).length = length + size
<1> DEFINE data == [i \in 1..size |-> message[fed + i - 1]]
           loop == Ingest(OpenedState, data)
<1>1. /\ length \in Nat /\ length = fed /\ SizeMax \in Nat
      /\ message \in [0..SizeMax -> Byte]
    BY SizeMaxLarge, StreamAssumption DEF OpenInv, ContentsInv
<1>2. LengthSupported(length + size) /\ length + size <= SizeMax
    <2>1. Hashable(length + size) /\ length + size \in Nat
        BY <1>1 DEF Taken
    <2> QED BY <2>1, SupportsHashable, SupportedFits
<1>3. StreamLengthSupported(length, size)
    BY <1>1, <1>2 DEF StreamLengthSupported
<1>4. Holds(OpenedState, message, length) /\ StateOpens(memory) /\ given
    BY OpenedHolds DEF Taken
<1>5. StreamAppend(size, given, memory) = Appended(loop, size)
    BY <1>3, <1>4 DEF StreamAppend
<1>6. data \in Seq(Byte) /\ Len(data) = size /\ IsOf(data, message, length)
    <2>1. \A i \in 1..size : message[fed + i - 1] \in Byte
        BY <1>1, <1>2
    <2>2. data \in Seq(Byte) /\ Len(data) = size
        BY <2>1
    <2>3. \A i \in 1..size : data[i] = message[length + i - 1]
        BY <1>1
    <2> QED BY <2>2, <2>3 DEF IsOf
<1> HIDE DEF data
<1>7. /\ LoopHolds(loop, data, message, length)
      /\ loop.ok => loop.consumed = Len(data)
    BY <1>1, <1>4, <1>6, IngestHolds
<1> HIDE DEF loop
<1>8. loop.ok /\ Holds(loop.state, message, length + size)
    BY <1>2, <1>6, <1>7 DEF LoopHolds
<1>9. StateValid(loop.state, length + size)
    BY <1>1, <1>2, <1>8, HoldsValid
<1>10. /\ Appended(loop, size).ok = (loop.ok /\ StateValid(loop.state, length + size))
       /\ Appended(loop, size).storage = TRUE
       /\ Appended(loop, size).length = IF loop.ok THEN length + size ELSE length
    BY DEF Appended
<1> QED BY <1>5, <1>8, <1>9, <1>10

LEMMA AppendTaken ==
    ASSUME OpenInv, ~failed, ~finalized, NEW size \in Nat,
           NEW given \in BOOLEAN, NEW memory \in BOOLEAN
    PROVE  LET result == StreamAppend(size, given, memory) IN
           /\ Taken(size, given, memory) =>
                  /\ result.ok = TRUE
                  /\ result.storage <=> length + size > 0
                  /\ result.length = length + size
           /\ ~Taken(size, given, memory) =>
                  result.ok = FALSE /\ result.length = length
<1> DEFINE result == StreamAppend(size, given, memory)
           Grown == /\ result.ok = TRUE
                    /\ result.storage <=> length + size > 0
                    /\ result.length = length + size
<1> SUFFICES /\ Taken(size, given, memory) => Grown
             /\ ~Taken(size, given, memory) =>
                    result.ok = FALSE /\ result.length = length
    OBVIOUS
<1>1. length \in Nat /\ (storage <=> length > 0) /\ length <= SizeMax
    BY SizeMaxLarge DEF OpenInv
<1>2. CASE size = 0
    <2>1. Taken(size, given, memory)
        BY <1>2 DEF Taken
    <2>2. ASSUME NEW ok, ok = TRUE,
                 result = [ok |-> ok, storage |-> storage,
                           state |-> state, length |-> length]
          PROVE  Grown
        <3> HIDE DEF result
        <3>1. result.ok = TRUE /\ result.storage = storage /\ result.length = length
            BY <2>2
        <3> QED BY <1>1, <1>2, <3>1
    <2>3. CASE storage
        <3>1. StateOpens(memory)
            BY <1>1, <2>3, OpenedHolds
        <3>2. StateValid(state, length) = TRUE
            BY <2>3, <3>1 DEF StateOpens, StateValid
        <3>3. result = [ok |-> StateValid(state, length), storage |-> storage,
                        state |-> state, length |-> length]
            BY <1>2, <2>3 DEF StreamAppend
        <3> HIDE DEF result, Grown
        <3> QED BY <2>1, <2>2, <3>2, <3>3
    <2>4. CASE ~storage
        <3>1. result = [ok |-> length = 0, storage |-> storage,
                        state |-> state, length |-> length]
            BY <1>2, <2>4 DEF StreamAppend
        <3>2. (length = 0) = TRUE
            BY <1>1, <2>4
        <3> HIDE DEF result, Grown
        <3> QED BY <2>1, <2>2, <3>1, <3>2
    <2> QED BY <2>3, <2>4
<1>3. CASE size # 0 /\ Taken(size, given, memory)
    <2>1. result.ok = TRUE /\ result.storage = TRUE /\ result.length = length + size
        BY <1>3, BytesTaken
    <2> HIDE DEF result
    <2> QED BY <1>1, <1>3, <2>1
<1>4. CASE size # 0 /\ ~Taken(size, given, memory)
    <2>1. ~given \/ ~Hashable(length + size) \/ ~(length = 0 => memory)
        BY <1>4 DEF Taken
    <2>2. \/ ~given
          \/ ~StreamLengthSupported(length, size)
          \/ ~StateOpens(memory)
        <3>1. LengthSupported(length + size) <=> Hashable(length + size)
            BY <1>1, SupportsHashable
        <3> QED BY <2>1, <3>1, OpenedHolds DEF StreamLengthSupported
    <2> QED BY <1>4, <2>2 DEF StreamAppend
<1> QED BY <1>2, <1>3, <1>4

LEMMA EmptyHashable == Hashable(0)
<1>1. /\ Overhead \in Nat /\ PaddingMin \in Nat /\ PaddingMin >= Overhead
      /\ PaddingMin <= SizeMax /\ SizeMax \in Nat /\ 8 * LengthBytes \in Nat
    BY PaddingAssumption, SizeMaxLarge DEF Overhead
<1>2. PaddedLength(0) <= SizeMax
    BY <1>1 DEF PaddedLength
<1>3. Pow2[8 * LengthBytes] \in Nat \ {0}
    BY <1>1, Pow2Positive
<1> QED BY <1>2, <1>3 DEF Hashable

LEMMA OpenKept ==
    ASSUME ~Tampering, OpenInv, [Next]_vars
    PROVE  OpenInv'
<1>1. ContentsInv'
    BY ContentsKept DEF OpenInv
<1>2. ASSUME NEW name, Reset(name) PROVE OpenInv'
    BY <1>1, <1>2, EmptyHashable, SizeMaxLarge DEF Reset, CloseStorage, OpenInv
<1>3. ASSUME NEW size \in UpdateSizes, NEW given \in BOOLEAN,
             NEW memory \in BOOLEAN, UpdateRejected(size, given, memory)
      PROVE  OpenInv'
    BY <1>1, <1>3 DEF UpdateRejected, context, OpenInv
<1>4. ASSUME NEW size \in UpdateSizes, NEW given \in BOOLEAN,
             NEW memory \in BOOLEAN, UpdateOpen(size, given, memory)
      PROVE  OpenInv'
    <2> DEFINE result == StreamAppend(size, given, memory)
    <2>1. size \in Nat /\ length \in Nat /\ SizeMax \in Nat
        BY StreamAssumption, SizeMaxLarge DEF OpenInv
    <2>2. /\ ~failed /\ ~finalized /\ finalized' = finalized
          /\ storage' = result.storage
          /\ length' = result.length
          /\ failed' = ~result.ok
          /\ fed' = IF result.ok THEN fed + size ELSE fed
        BY <1>4 DEF UpdateOpen, Update
    <2>3. /\ Taken(size, given, memory) =>
                 /\ result.ok = TRUE
                 /\ result.storage <=> length + size > 0
                 /\ result.length = length + size
          /\ ~Taken(size, given, memory) =>
                 result.ok = FALSE /\ result.length = length
        BY <2>1, <2>2, AppendTaken
    <2> HIDE DEF result
    <2>4. CASE Taken(size, given, memory)
        <3>1. length = fed /\ (size = 0 => Hashable(length))
            BY <2>2 DEF OpenInv
        <3>2. Hashable(length + size)
            <4>1. size = 0 => length + size = length
                BY <2>1
            <4> QED BY <2>1, <2>4, <3>1, <4>1 DEF Taken
        <3>3. length + size <= SizeMax
            BY <2>1, <3>2, SupportsHashable, SupportedFits
        <3>4. length' = length + size /\ fed' = length + size
              /\ (storage' <=> length + size > 0)
            BY <2>2, <2>3, <2>4, <3>1
        <3> QED BY <1>1, <2>1, <3>2, <3>3, <3>4 DEF OpenInv
    <2>5. CASE ~Taken(size, given, memory)
        BY <1>1, <2>2, <2>3, <2>5 DEF OpenInv
    <2> QED BY <2>4, <2>5
<1>5. ASSUME NEW memory \in BOOLEAN,
             FinalNoOutput(memory) \/ FinalAgain(memory)
      PROVE  OpenInv'
    <2>1. UNCHANGED <<storage, state, length, failed, finalized, fed>>
        BY <1>5 DEF FinalNoOutput, FinalAgain, context
    <2> QED BY <1>1, <2>1 DEF OpenInv
<1>6. ASSUME NEW memory \in BOOLEAN,
             FinalOfFailed(memory) \/ FinalOfOpen(memory)
      PROVE  OpenInv'
    BY <1>1, <1>6 DEF FinalOfFailed, FinalOfOpen, Finalization, OpenInv
<1>7. CASE UNCHANGED vars
    BY <1>1, <1>7 DEF vars, OpenInv
<1>8. ASSUME InitContext \/ Free PROVE OpenInv'
    BY <1>2, <1>8 DEF InitContext, Free
<1>9. ~Tamper
    BY DEF Tamper
<1>10. CASE Next
    BY <1>3, <1>4, <1>5, <1>6, <1>8, <1>9, <1>10, FinalsOfOpen DEF Next
<1> QED BY <1>7, <1>10

\* What a final of an open context writes.
LEMMA FinalTaken ==
    ASSUME OpenInv, ~failed, ~finalized, NEW memory \in BOOLEAN
    PROVE  FinalWrites(memory)
               = IF length = 0 => memory
                 THEN Written(ReferenceDigest(variant, message, length))
                 ELSE Zeroed
<1>1. length \in Nat /\ length <= SizeMax /\ LengthSupported(length)
    BY SizeMaxLarge, SupportsHashable DEF OpenInv
<1>2. /\ Holds(OpenedState, message, length)
      /\ StateOpens(memory) <=> (length = 0 => memory)
    BY OpenedHolds
<1>3. StreamLengthSupported(length, 0)
    <2>1. length + 0 = length /\ 0 <= SizeMax - length
        BY <1>1, SizeMaxLarge
    <2> QED BY <1>1, <2>1 DEF StreamLengthSupported
<1>4. TailFits(OpenedState, length)
    BY <1>1, <1>2, TailAlwaysFits
<1>5. Output(PushTail(OpenedState, TailBytes(OpenedState, length)), length)
          = Written(ReferenceDigest(variant, message, length))
    BY <1>1, <1>2, OutputTaken
<1> QED BY <1>2, <1>3, <1>4, <1>5 DEF FinalWrites, FinalOpens, FinalOutput

\* Every step of the context is a step of the promise, or none.
LEMMA StepImplements ==
    ASSUME ~Tampering, OpenInv, [Next]_vars
    PROVE  [Promise!Next]_(Promise!vars)
<1>1. ASSUME NEW name \in {"init", "free"}, Reset(name) PROVE Promise!Next
    <2>1. Promise!Reset(name)
        BY <1>1 DEF Reset, Promise!Reset, Call, Promise!Call, Untouched,
                    Promise!Untouched
    <2> QED BY <2>1 DEF Promise!Next
<1>2. ASSUME NEW size \in UpdateSizes, NEW given \in BOOLEAN,
             NEW memory \in BOOLEAN, UpdateRejected(size, given, memory)
      PROVE  Promise!Next
    <2>1. Promise!Update(size, given, memory)
        <3>1. ~Promise!Accepts(size, given, memory)
            BY <1>2 DEF UpdateRejected, Promise!Accepts
        <3>2. Promise!Accepts(size, given, memory) = FALSE
            BY <3>1 DEF Promise!Accepts
        <3> QED BY <1>2, <3>1, <3>2
                DEF UpdateRejected, context, Promise!Update, Call, Promise!Call,
                    Untouched, Promise!Untouched
    <2> QED BY <2>1 DEF Promise!Next
<1>3. ASSUME NEW size \in UpdateSizes, NEW given \in BOOLEAN,
             NEW memory \in BOOLEAN, UpdateOpen(size, given, memory)
      PROVE  Promise!Next
    <2> DEFINE result == StreamAppend(size, given, memory)
    <2>1. size \in Nat
        BY StreamAssumption, SizeMaxLarge
    <2>2. /\ ~failed /\ ~finalized /\ finalized' = finalized
          /\ length' = result.length
          /\ failed' = ~result.ok
          /\ last' = Call("update", size, given, memory, result.ok, Untouched)
          /\ variant' = variant /\ message' = message
        BY <1>3 DEF UpdateOpen, Update
    <2>3. /\ Taken(size, given, memory) =>
                 result.ok = TRUE /\ result.length = length + size
          /\ ~Taken(size, given, memory) =>
                 result.ok = FALSE /\ result.length = length
        BY <2>1, <2>2, AppendTaken
    <2> HIDE DEF result
    <2>4. Promise!Accepts(size, given, memory) = Taken(size, given, memory)
        BY <2>2 DEF Promise!Accepts, Taken
    <2>5. CASE Taken(size, given, memory)
        <3>1. Promise!Accepts(size, given, memory) = TRUE
            BY <2>4, <2>5 DEF Promise!Accepts, Taken
        <3> QED BY <2>2, <2>3, <2>5, <3>1
                DEF Promise!Next, Promise!Update, Call, Promise!Call, Untouched,
                    Promise!Untouched
    <2>6. CASE ~Taken(size, given, memory)
        <3>1. Promise!Accepts(size, given, memory) = FALSE
            BY <2>4, <2>6 DEF Promise!Accepts, Taken
        <3> QED BY <2>2, <2>3, <2>6, <3>1
                DEF Promise!Next, Promise!Update, Call, Promise!Call, Untouched,
                    Promise!Untouched
    <2> QED BY <2>5, <2>6
<1>4. ASSUME NEW memory \in BOOLEAN, FinalNoOutput(memory)
      PROVE  Promise!Next
    <2>1. Promise!Final(FALSE, memory)
        BY <1>4 DEF FinalNoOutput, context, Promise!Final, Call, Promise!Call,
                    Untouched, Promise!Untouched
    <2> QED BY <2>1 DEF Promise!Next
<1>5. ASSUME NEW memory \in BOOLEAN, FinalAgain(memory) \/ FinalOfFailed(memory)
      PROVE  Promise!Next
    <2>1. /\ finalized \/ failed
          /\ finalized'
          /\ last' = Call("final", 0, TRUE, memory, FALSE, Zeroed)
          /\ variant' = variant /\ message' = message /\ length' = length
        <3>1. CASE FinalAgain(memory)
            BY <3>1 DEF FinalAgain, context
        <3>2. CASE FinalOfFailed(memory)
            BY <3>2 DEF FinalOfFailed
        <3> QED BY <1>5, <3>1, <3>2
    <2>2. (IF finalized THEN "finalized" ELSE IF failed THEN "failed" ELSE "open")
              # "open"
        BY <2>1
    <2>3. Promise!Final(TRUE, memory)
        BY <2>1, <2>2 DEF Promise!Final, Call, Promise!Call, Zeroed,
                          Promise!Zeroed
    <2> QED BY <2>3 DEF Promise!Next
<1>6. ASSUME NEW memory \in BOOLEAN, FinalOfOpen(memory)
      PROVE  Promise!Next
    <2> DEFINE out == FinalWrites(memory)
    <2>1. /\ ~finalized /\ ~failed /\ finalized'
          /\ last' = Call("final", 0, TRUE, memory, out # Zeroed, out)
          /\ variant' = variant /\ message' = message /\ length' = length
        BY <1>6 DEF FinalOfOpen, Finalization
    <2>2. out = IF length = 0 => memory
                THEN Written(ReferenceDigest(variant, message, length))
                ELSE Zeroed
        BY <2>1, FinalTaken
    <2> HIDE DEF out
    <2>3. CASE length = 0 => memory
        <3>1. out # Zeroed
            BY <2>2, <2>3 DEF Written, Zeroed
        <3>2. Promise!Final(TRUE, memory)
            BY <2>1, <2>2, <2>3, <3>1
               DEF Promise!Final, Call, Promise!Call, Written, Promise!Written
        <3> QED BY <3>2 DEF Promise!Next
    <2>4. CASE ~(length = 0 => memory)
        <3>1. Promise!Final(TRUE, memory)
            BY <2>1, <2>2, <2>4
               DEF Promise!Final, Call, Promise!Call, Zeroed, Promise!Zeroed
        <3> QED BY <3>1 DEF Promise!Next
    <2> QED BY <2>3, <2>4
<1>7. CASE UNCHANGED vars
    BY <1>7 DEF vars, Promise!vars
<1>8. ASSUME InitContext \/ Free PROVE Promise!Next
    BY <1>1, <1>8 DEF InitContext, Free
<1>9. ~Tamper
    BY DEF Tamper
<1>10. CASE Next
    BY <1>2, <1>3, <1>4, <1>5, <1>6, <1>8, <1>9, <1>10, FinalsOfOpen DEF Next
<1> QED BY <1>7, <1>10

\* A context whose length field nobody overwrites implements the promise of
\* HashContext, for every message and sequence of calls: it accepts exactly
\* the updates the promise accepts, so no check inside stream_append or
\* stream_final_checked refuses a call that should work, and what its final
\* writes is the digest of the bytes accepted.
THEOREM StreamImplements ==
    ASSUME ~Tampering
    PROVE  Spec => ImplementsPromise
<1>1. Init => OpenInv
    BY EmptyHashable, SizeMaxLarge
       DEF Init, OpenInv, ContentsInv, IInv, StorageReleased
<1>2. OpenInv /\ [Next]_vars => OpenInv'
    BY OpenKept
<1>3. Init => Promise!Init
    BY DEF Init, Promise!Init, Call, Promise!Call, Untouched, Promise!Untouched
<1>4. OpenInv /\ [Next]_vars => [Promise!Next]_(Promise!vars)
    BY StepImplements
<1> QED BY <1>1, <1>2, <1>3, <1>4, PTL DEF Spec, ImplementsPromise, Promise!Spec
=============================================================================
