----------------------------- MODULE FchStream -----------------------------
(***************************************************************************)
(* The incremental API of src/src/fch_stream.c: one context of either       *)
(* variant, its calls in any order a caller may make them, allocation       *)
(* failure, and (in runs that allow it) a caller that overwrites the public *)
(* `length` field of the context.                                          *)
(***************************************************************************)
EXTENDS TreeWorkspace

CONSTANTS
    Messages,      \* functions from 0..SizeMax to bytes
    UpdateSizes,   \* sizes of the pieces a caller feeds
    Tampering      \* whether the caller may overwrite ctx->length

ASSUME StreamAssumption ==
    /\ Messages \subseteq [0..SizeMax -> Byte]
    /\ UpdateSizes \subseteq 0..SizeMax
    /\ Tampering \in BOOLEAN

VARIABLES
    \* fch256_ctx / fch512_ctx
    variant,     \* which of the two
    storage,     \* ctx->storage is not NULL
    state,       \* *ctx->storage: an fch_stream_state_t
    length,      \* ctx->length
    failed,
    finalized,
    \* the caller
    message,     \* the message being hashed
    fed,         \* bytes of it in updates that returned 1
    last         \* the last call: its arguments, result and output

context == <<variant, storage, state, length, failed, finalized>>
vars == <<variant, storage, state, length, failed, finalized,
          message, fed, last>>

\* pending[0 .. pending_length - 1] as a sequence, so that its length is
\* pending_length; bytes beyond it are never read.
FreshState ==
    [workspace |-> EmptyWorkspace, pending |-> << >>, processed |-> 0]

Untouched == [kind |-> "untouched", digest |-> << >>]
Zeroed    == [kind |-> "zeroed",    digest |-> << >>]
Written(digest) == [kind |-> "digest", digest |-> << digest >>]

Call(name, size, given, memory, ok, out) ==
    [call |-> name, size |-> size, given |-> given, memory |-> memory,
     ok |-> ok, out |-> out]

-----------------------------------------------------------------------------

\* Mutants: room for the padding forgotten; the length field forgotten.
StreamLengthNoOverhead(current, added) ==
    added <= SizeMax - current /\ current + added <= FieldMax

StreamLengthNoField(current, added) ==
    added <= SizeMax - current /\ SizeSupported(current + added)

StreamLengthSupported(current, added) ==
    /\ added <= SizeMax - current
    /\ LengthSupported(current + added)

\* Mutant: the contents are not compared with the context's length.
StateWellFormed(s, input_length) ==
    /\ Len(s.pending) < LeafBytes
    /\ s.processed % LeafBytes = 0

StateValid(s, input_length) ==
    /\ Len(s.pending) < LeafBytes
    /\ s.processed % LeafBytes = 0
    /\ s.processed <= SizeMax - Len(s.pending)
    /\ s.processed + Len(s.pending) = input_length

\* stream_state_open returns a state: the stored one when it is valid, or a
\* zeroed one that calloc provides for a context without any length.
StateOpens(memory) ==
    IF storage THEN StateValid(state, length) ELSE length = 0 /\ memory

OpenedState == IF storage THEN state ELSE FreshState

\* stream_window_read serves the offsets from base on, Len(data) of them.
Window(base, data) ==
    [o \in base..(base + Len(data) - 1) |-> data[o - base + 1]]

\* What stream_push_leaf makes of a push of count bytes.
AfterPush(s, push, count) ==
    [ok    |-> push.ok,
     state |-> [s EXCEPT
         !.workspace = push.workspace,
         !.processed = IF push.ok THEN @ + count ELSE @]]

\* stream_push_leaf: whether it returns 1, and the state it leaves.
StreamPushLeaf(s, data) ==
    IF \/ Len(data) = 0
       \/ Len(data) > LeafBytes
       \/ s.processed % LeafBytes # 0
       \/ s.processed > SizeMax - Len(data)
    THEN [ok |-> FALSE, state |-> s]
    ELSE AfterPush(s, PushLeaf(s.workspace, Window(s.processed, data),
                               s.processed, Len(data)),
                   Len(data))

-----------------------------------------------------------------------------

\* One iteration of the loop of stream_append: a whole leaf straight from the
\* caller's data, or bytes into pending and then a full pending leaf.
Pushed(push, consumed) ==
    [ok |-> push.ok, state |-> push.state, consumed |-> consumed]

PushDirect(loop, data) ==
    Pushed(StreamPushLeaf(loop.state, SubSeq(data, loop.consumed + 1,
                                             loop.consumed + LeafBytes)),
           loop.consumed + LeafBytes)

\* A full pending leaf is pushed, and pending is empty again if that works.
PushPending(push, consumed) ==
    [ok |-> push.ok,
     state |-> [push.state EXCEPT !.pending = IF push.ok THEN << >> ELSE @],
     consumed |-> consumed]

Filled(s, data, from, count) ==
    [s EXCEPT !.pending = @ \o SubSeq(data, from + 1, from + count)]

FillPending(loop, data) ==
    LET space  == LeafBytes - Len(loop.state.pending)
        left   == Len(data) - loop.consumed
        count  == IF space > left THEN left ELSE space
        filled == Filled(loop.state, data, loop.consumed, count)
    IN
    IF count = space
    THEN PushPending(StreamPushLeaf(filled, filled.pending),
                     loop.consumed + count)
    ELSE [ok |-> TRUE, state |-> filled, consumed |-> loop.consumed + count]

\* Mutant: a whole leaf of data overtakes what is pending.
IterationOvertakes(loop, data) ==
    IF ~loop.ok \/ loop.consumed >= Len(data) THEN loop
    ELSE IF Len(data) - loop.consumed >= LeafBytes
    THEN PushDirect(loop, data)
    ELSE FillPending(loop, data)

Iteration(loop, data) ==
    IF ~loop.ok \/ loop.consumed >= Len(data) THEN loop
    ELSE IF /\ loop.state.pending = << >>
            /\ Len(data) - loop.consumed >= LeafBytes
    THEN PushDirect(loop, data)
    ELSE FillPending(loop, data)

\* The loop of stream_append: every iteration consumes a byte at least, so
\* Len(data) of them are enough.
Ingest(s, data) ==
    LET loop[i \in 0..Len(data)] ==
            IF i = 0 THEN [ok |-> TRUE, state |-> s, consumed |-> 0]
            ELSE Iteration(loop[i - 1], data)
    IN  loop[Len(data)]

\* The end of stream_append: the length grows when every leaf was pushed.
Appended(loop, size) ==
    [ok      |-> loop.ok /\ StateValid(loop.state, length + size),
     storage |-> TRUE,
     state   |-> loop.state,
     length  |-> IF loop.ok THEN length + size ELSE length]

\* stream_append: whether it returns 1, and the storage and length it leaves.
StreamAppend(size, given, memory) ==
    LET Same(ok) == [ok |-> ok, storage |-> storage, state |-> state,
                     length |-> length]
    IN
    IF size = 0
    THEN Same(IF storage THEN StateValid(state, length) ELSE length = 0)
    ELSE IF \/ ~given
            \/ ~StreamLengthSupported(length, size)
            \/ ~StateOpens(memory)
    THEN Same(FALSE)
    ELSE Appended(Ingest(OpenedState,
                         [i \in 1..size |-> message[fed + i - 1]]),
                  size)

-----------------------------------------------------------------------------

\* The tail stream_final_checked builds: pending, the marker, zeroes, and in
\* the last bytes the bit length.
TailLength(s, checked_length) == PaddedLength(checked_length) - s.processed

TailBytes(s, checked_length) ==
    LET size    == TailLength(s, checked_length)
        pending == Len(s.pending)
        footer  == size - LengthBytes
    IN  [i \in 1..size |->
            IF i > footer THEN LengthByte(checked_length, i - 1 - footer)
            ELSE IF i <= pending THEN s.pending[i]
            ELSE IF i = pending + 1 THEN Marker
            ELSE ZeroByte]

\* The tail fits its buffer of LeafBytes + Overhead bytes and has room for
\* what is pending, the marker and the length.
TailFits(s, checked_length) ==
    LET size == TailLength(s, checked_length) IN
    /\ s.processed <= PaddedLength(checked_length)
    /\ size <= LeafBytes + Overhead
    /\ Len(s.pending) <= size
    /\ size - Len(s.pending) >= Overhead

\* The loop over the tail, unrolled: its buffer is at most two leaves.
PushRest(first, rest) ==
    IF first.ok /\ rest # << >> THEN StreamPushLeaf(first.state, rest)
    ELSE first

PushTail(s, tail) ==
    LET cut == IF Len(tail) > LeafBytes THEN LeafBytes ELSE Len(tail) IN
    PushRest(StreamPushLeaf(s, SubSeq(tail, 1, cut)),
             SubSeq(tail, cut + 1, Len(tail)))

RootAccepted(pushed, checked_length) ==
    LET padded == PaddedLength(checked_length) IN
    /\ pushed.ok
    /\ pushed.state.processed = padded
    /\ RangeAccepted(0, padded)
    /\ FoldAccepted(pushed.state.workspace, PositionOf(0, padded))
    /\ FinalizeAccepted(Root(pushed.state.workspace), checked_length, padded)

Output(pushed, checked_length) ==
    IF RootAccepted(pushed, checked_length)
    THEN Written(Finalize(variant, Root(pushed.state.workspace),
                          checked_length, PaddedLength(checked_length)))
    ELSE Zeroed

\* What a final writes that has opened the state: the digest, or zeroes when
\* one of the checks on the way refuses.
FinalOutput ==
    IF TailFits(OpenedState, length)
    THEN Output(PushTail(OpenedState, TailBytes(OpenedState, length)), length)
    ELSE Zeroed

-----------------------------------------------------------------------------

Init ==
    /\ variant \in Variants
    /\ storage = FALSE
    /\ state = FreshState
    /\ length = 0
    /\ failed = FALSE
    /\ finalized = FALSE
    /\ message \in Messages
    /\ fed = 0
    /\ last = Call("init", 0, TRUE, TRUE, TRUE, Untouched)

\* stream_close: the storage is freed and forgotten.
CloseStorage ==
    /\ storage' = FALSE
    /\ state' = FreshState

\* What init and free leave: a context ready for another message.
Reset(name) ==
    /\ CloseStorage
    /\ length' = 0
    /\ failed' = FALSE
    /\ finalized' = FALSE
    /\ message' \in Messages
    /\ fed' = 0
    /\ last' = Call(name, 0, TRUE, TRUE, TRUE, Untouched)
    /\ UNCHANGED variant

\* fch256_init, fch512_init.  They overwrite the pointer without freeing it,
\* so the caller may initialise only a context that holds no storage.
InitContext == ~storage /\ Reset("init")

\* fch256_free, fch512_free, in any state of the context.
Free == Reset("free")

\* fch256_update, fch512_update with the next size bytes of the message, or a
\* NULL pointer; `memory` is whether calloc would succeed.
UpdateRejected(size, given, memory) ==
    /\ failed \/ finalized
    /\ last' = Call("update", size, given, memory, FALSE, Untouched)
    /\ UNCHANGED <<context, message, fed>>

\* What stream_append leaves is the context's; a failure is remembered.
Update(result, size, given, memory) ==
    /\ storage' = result.storage
    /\ state' = result.state
    /\ length' = result.length
    /\ failed' = ~result.ok
    /\ fed' = IF result.ok THEN fed + size ELSE fed
    /\ last' = Call("update", size, given, memory, result.ok, Untouched)
    /\ UNCHANGED <<variant, finalized, message>>

\* Mutant: a finalized context is not refused.
UpdateFinalized(size, given, memory) ==
    /\ ~failed
    /\ Update(StreamAppend(size, given, memory), size, given, memory)

UpdateOpen(size, given, memory) ==
    /\ ~failed
    /\ ~finalized
    /\ Update(StreamAppend(size, given, memory), size, given, memory)

\* fch256_final_checked, fch512_final_checked without an output buffer.
FinalNoOutput(memory) ==
    /\ last' = Call("final", 0, FALSE, memory, FALSE, Untouched)
    /\ UNCHANGED <<context, message, fed>>

FinalAgain(memory) ==
    /\ finalized
    /\ last' = Call("final", 0, TRUE, memory, FALSE, Zeroed)
    /\ UNCHANGED <<context, message, fed>>

FinalOfFailed(memory) ==
    /\ ~finalized
    /\ failed
    /\ finalized' = TRUE
    /\ CloseStorage
    /\ last' = Call("final", 0, TRUE, memory, FALSE, Zeroed)
    /\ UNCHANGED <<variant, length, failed, message, fed>>

Finalization(out, memory) ==
    /\ finalized' = TRUE
    /\ failed' = (out = Zeroed)
    /\ last' = Call("final", 0, TRUE, memory, out # Zeroed, out)
    /\ UNCHANGED <<variant, length, message, fed>>

\* The state a final needs: its length is supported, and it opens.
FinalOpens(memory) == StreamLengthSupported(length, 0) /\ StateOpens(memory)

\* Mutant: the exit that found no valid state, alone, keeps the storage.
FinalUnopenedKeeps(memory) ==
    /\ ~finalized
    /\ ~failed
    /\ ~FinalOpens(memory)
    /\ Finalization(Zeroed, memory)
    /\ UNCHANGED <<storage, state>>

FinalUnopened(memory) ==
    /\ ~finalized
    /\ ~failed
    /\ ~FinalOpens(memory)
    /\ Finalization(Zeroed, memory)
    /\ CloseStorage

\* Behind the open state, the two exits for a tail that does not fit are never
\* taken from a valid state; all others come to the one close at the end.
FinalOpen(memory) ==
    /\ ~finalized
    /\ ~failed
    /\ FinalOpens(memory)
    /\ Finalization(FinalOutput, memory)
    /\ CloseStorage

\* The caller overwrites the public length field.
Tamper ==
    /\ Tampering
    /\ length' \in 0..SizeMax
    /\ UNCHANGED <<variant, storage, state, failed, finalized, message, fed>>
    /\ last' = Call("tamper", 0, TRUE, TRUE, TRUE, Untouched)

Next ==
    \/ InitContext
    \/ Free
    \/ \E size \in UpdateSizes, given, memory \in BOOLEAN :
           UpdateRejected(size, given, memory) \/ UpdateOpen(size, given, memory)
    \/ \E memory \in BOOLEAN :
           \/ FinalNoOutput(memory)
           \/ FinalAgain(memory)
           \/ FinalOfFailed(memory)
           \/ FinalUnopened(memory)
           \/ FinalOpen(memory)
    \/ Tamper

Spec == Init /\ [][Next]_vars

-----------------------------------------------------------------------------

\* The context's fields have their types, and contents exist only in storage.
TypeOK ==
    /\ variant \in Variants
    /\ storage \in BOOLEAN
    /\ length \in 0..SizeMax
    /\ failed \in BOOLEAN
    /\ finalized \in BOOLEAN
    /\ message \in Messages
    /\ fed \in 0..SizeMax
    /\ state.pending \in Seq(Byte)
    /\ state.processed \in 0..SizeMax
    /\ DOMAIN state.workspace = Slots
    /\ \A l \in Slots : state.workspace[l].tree \in Position
    /\ ~storage => state = FreshState

\* However the message was cut into updates, the storage of a context that
\* has not failed holds exactly the bytes fed: the unfinished leaf in pending,
\* and the full leaves before it as the subtrees the reference would build.
StorageHoldsMessage ==
    storage /\ ~failed =>
        /\ state.processed + Len(state.pending) = fed
        /\ state.processed % LeafBytes = 0
        /\ Len(state.pending) < LeafBytes
        /\ \A i \in 1..Len(state.pending) :
               state.pending[i] = message[state.processed + i - 1]
        /\ Canonical(state.workspace, state.processed \div LeafBytes, message)

\* A final that returns 1 has written the reference digest of the bytes fed,
\* whatever the cuts, the failures before it and the caller's tampering; one
\* that returns 0 with a buffer has written zeroes.
DigestIsReference ==
    last.call = "final" =>
        last.out = IF ~last.given THEN Untouched
                   ELSE IF last.ok
                   THEN Written(ReferenceDigest(variant, message, fed))
                   ELSE Zeroed

\* Storage is live only between the first byte and the final or free: no call
\* sequence leaves a finalized or a never-fed context holding it.
StorageReleased ==
    storage => ~finalized /\ (fed > 0 \/ failed)

\* A failed or finalized context answers no update or final with 1, and stays
\* so, until it is initialised or freed.
FailureIsFinal ==
    [][ failed \/ finalized =>
          \/ last'.call \in {"init", "free"}
          \/ /\ failed => failed'
             /\ finalized => finalized'
             /\ last'.ok => last'.call = "tamper"
             /\ length' = length \/ last'.call = "tamper" ]_vars

\* The context implements the promise of HashContext: the calls it accepts are
\* exactly those, and its output is the reference digest.
Promise == INSTANCE HashContext WITH
    Supported <- Hashable,
    Digest    <- ReferenceDigest,
    absorbed  <- length,
    phase     <- IF finalized THEN "finalized"
                 ELSE IF failed THEN "failed" ELSE "open"

ImplementsPromise == Promise!Spec
=============================================================================
