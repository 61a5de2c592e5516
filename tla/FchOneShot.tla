---------------------------- MODULE FchOneShot ----------------------------
(***************************************************************************)
(* fch_hash_256_checked and fch_hash_512_checked (src/src/fch.c): one call, *)
(* from its argument checks through fch_process_reader over the virtual     *)
(* padded message to the digest.  The output buffer may lie inside the      *)
(* input, so what the reader serves is what the buffer holds at the time.  *)
(***************************************************************************)
EXTENDS ProcessReader

CONSTANTS
    Calls,      \* the calls: records of the arguments, see CallAssumption
    Clobber     \* the byte an output written over the input leaves there

\* input: the message; overlap: the offsets of it the output buffer covers;
\* inputGiven, outputGiven: the pointers are not NULL; memory: malloc succeeds.
ASSUME CallAssumption ==
    /\ Clobber \in Byte
    /\ \A c \in Calls :
           /\ c.variant \in Variants
           /\ c.length \in 0..SizeMax
           /\ DOMAIN c.input \subseteq 0..SizeMax
           /\ c.overlap \subseteq DOMAIN c.input
           /\ c.inputGiven \in BOOLEAN
           /\ c.outputGiven \in BOOLEAN
           /\ c.memory \in BOOLEAN

VARIABLES
    call,         \* the arguments
    input,        \* the input buffer now
    out,          \* what the call wrote to its output
    ok,           \* its return value
    stage         \* "called", "processing" or "returned"

oneShotVars == <<call, input, out, ok, stage>>
hashVars == <<oneShotVars, processVars>>

Untouched == [kind |-> "untouched", digest |-> << >>]
Zeroed    == [kind |-> "zeroed",    digest |-> << >>]
Written(digest) == [kind |-> "digest", digest |-> << digest >>]

-----------------------------------------------------------------------------

\* fch_padded_read: the bytes of one chunk that lies in the padded message.
\* What is left of the message is copied, and a chunk filled by it is done;
\* otherwise the rest is zeroed and the marker and whatever part of the bit
\* length falls into the chunk are written over it.
PaddedRead(message, length, offset, count) ==
    LET left   == IF offset < length THEN length - offset ELSE 0
        copied == IF left < count THEN left ELSE count
        marked == offset <= length /\ length - offset < count
        footer == PaddedLength(length) - LengthBytes
    IN
    [o \in offset..(offset + count - 1) |->
        CASE copied = count -> message[o]
          [] copied < count /\ o >= footer -> LengthByte(length, o - footer)
          [] copied < count /\ o < footer ->
                 IF marked /\ o = length THEN Marker
                 ELSE IF o < offset + copied THEN message[o]
                 ELSE ZeroByte]

\* The chunk by which a leaf reads the byte at an offset of the padded
\* message: a leaf is read in chunks, and the last of each may be short.
ChunkOf(o, padded) ==
    LET leaf   == (o \div LeafBytes) * LeafBytes
        offset == leaf + ((o - leaf) \div ChunkBytes) * ChunkBytes
        end    == IF padded < leaf + LeafBytes THEN padded ELSE leaf + LeafBytes
    IN
    [offset |-> offset,
     count  |-> IF end - offset < ChunkBytes THEN end - offset ELSE ChunkBytes]

\* What the leaves are served: every offset of the padded message, by the
\* read of its chunk, and no other.
PaddedReader(message, length) ==
    [o \in 0..(PaddedLength(length) - 1) |->
        LET chunk == ChunkOf(o, PaddedLength(length)) IN
        PaddedRead(message, length, chunk.offset, chunk.count)[o]]

\* Mutant: the length field does not limit the length.
ArgumentsOfAnyLength ==
    /\ call.inputGiven \/ call.length = 0
    /\ SizeSupported(call.length)

ArgumentsAccepted ==
    /\ call.inputGiven \/ call.length = 0
    /\ LengthSupported(call.length)

\* memset or fch_store_le64 into the output buffer, and the return.
Answer(result, value) ==
    /\ out' = value
    /\ ok' = result
    /\ input' = [o \in DOMAIN input |->
                    IF value # Untouched /\ o \in call.overlap
                    THEN Clobber ELSE input[o]]
    /\ stage' = "returned"
    /\ UNCHANGED call

OneShotInit ==
    /\ call \in Calls
    /\ input = call.input
    /\ out = Untouched
    /\ ok = FALSE
    /\ stage = "called"
    /\ request = [offset |-> 0, length |-> 0, memory |-> FALSE]
    /\ pc = "idle"
    /\ Idle

NoOutput ==
    /\ stage = "called"
    /\ ~call.outputGiven
    /\ Answer(FALSE, Untouched)
    /\ UNCHANGED processVars

RejectArguments ==
    /\ stage = "called"
    /\ call.outputGiven
    /\ ~ArgumentsAccepted
    /\ Answer(FALSE, Zeroed)
    /\ UNCHANGED processVars

\* Mutant: the output is zeroed before the message is read.
StartCleared ==
    /\ stage = "called"
    /\ call.outputGiven
    /\ ArgumentsAccepted
    /\ input' = [o \in DOMAIN input |->
                    IF o \in call.overlap THEN Clobber ELSE input[o]]
    /\ request' = [offset |-> 0, length |-> PaddedLength(call.length),
                   memory |-> call.memory]
    /\ pc' = "called"
    /\ stage' = "processing"
    /\ UNCHANGED <<call, out, ok, locals, root, heap>>

\* The call of fch_process_reader; the reader itself looks at the input as it
\* is when a leaf is read, so the request carries none.
StartProcess ==
    /\ stage = "called"
    /\ call.outputGiven
    /\ ArgumentsAccepted
    /\ request' = [offset |-> 0, length |-> PaddedLength(call.length),
                   memory |-> call.memory]
    /\ pc' = "called"
    /\ stage' = "processing"
    /\ UNCHANGED <<call, input, out, ok, locals, root, heap>>

Process ==
    /\ stage = "processing"
    /\ \/ Refuse
       \/ Begin
       \/ PushNextLeaf(PaddedReader(input, call.length))
       \/ FoldRoot
    /\ UNCHANGED oneShotVars

\* Mutant: the root's state is not freed.
FinishWithoutFree ==
    LET padded == PaddedLength(call.length) IN
    /\ stage = "processing"
    /\ pc = "returned"
    /\ Answer(root.occupied,
              IF root.occupied
              THEN Written(Finalize(call.variant, root, call.length, padded))
              ELSE Zeroed)
    /\ UNCHANGED <<request, pc, locals, root, heap>>

\* What follows fch_process_reader: finalize, write the digest or zeroes, and
\* free the root's state.
Finish ==
    LET padded == PaddedLength(call.length)
        done   == root.occupied /\ FinalizeAccepted(root, call.length, padded)
    IN
    /\ stage = "processing"
    /\ pc = "returned"
    /\ Answer(done, IF done
                    THEN Written(Finalize(call.variant, root, call.length,
                                          padded))
                    ELSE Zeroed)
    /\ heap' = FALSE
    /\ UNCHANGED <<request, pc, locals, root>>

\* The call has returned and nothing is left to do.
Finished == stage = "returned" /\ UNCHANGED hashVars

OneShotNext ==
    \/ NoOutput
    \/ RejectArguments
    \/ StartProcess
    \/ Process
    \/ Finish
    \/ Finished

OneShotSpec == OneShotInit /\ [][OneShotNext]_hashVars

-----------------------------------------------------------------------------

\* The digest of a call that returns 1 is the reference digest of the message
\* the buffer held when it was called, also where the output overlaps it.
DigestOfOriginal ==
    stage = "returned" /\ ok =>
        out = Written(ReferenceDigest(call.variant, call.input, call.length))

\* A call fails exactly for a NULL pointer, an unsupported length or want of
\* memory, and then leaves zeroes, or nothing without an output buffer.
FailsExactlyForCause ==
    stage = "returned" =>
        /\ ok = /\ call.outputGiven
                /\ call.inputGiven \/ call.length = 0
                /\ Hashable(call.length)
                /\ call.memory
        /\ ~ok => out = IF call.outputGiven THEN Zeroed ELSE Untouched

\* No path out of the call keeps the state buffer it allocated, and no input
\* byte outside the output buffer changes, nor any before the return.
LeavesNothingBehind ==
    /\ stage = "returned" => ~heap
    /\ \A o \in DOMAIN input :
           input[o] # call.input[o] => stage = "returned" /\ o \in call.overlap
=============================================================================
