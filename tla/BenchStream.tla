---------------------------- MODULE BenchStream ----------------------------
(***************************************************************************)
(* hash_256_stream and hash_512_stream (src/bench/bench_hash.c): a hash     *)
(* function under measurement that feeds its input in chunks to a context  *)
(* on its stack.  The context is the one HashContext promises; the bytes   *)
(* it holds must be given back before the stack frame is gone.             *)
(***************************************************************************)
EXTENDS Naturals, Sequences

CONSTANTS
    Lengths,     \* the input lengths
    ChunkSizes,  \* the chunk sizes of the targets
    Limit,       \* the longest message the context supports
    Variants

BenchStreamAssumption ==
    /\ Lengths \subseteq Nat
    /\ ChunkSizes \subseteq Nat
    /\ Limit \in Nat

VARIABLES
    \* the context
    variant, message, phase, absorbed, last,
    \* the function
    length, chunk_size, offset, ok,
    stream_pc    \* "called", "loop", "free", "returned"

contextVars == <<variant, message, phase, absorbed, last>>
streamVars == <<variant, message, phase, absorbed, last, length, chunk_size,
                offset, ok, stream_pc>>

DigestOf(bits, content, size) ==
    [bits |-> bits, content |-> content, size |-> size]

Context == INSTANCE HashContext WITH
    Messages    <- {"input"},
    UpdateSizes <- ChunkSizes,
    Supported   <- LAMBDA size : size <= Limit,
    Digest      <- DigestOf

StreamInit ==
    /\ Context!Init
    /\ length \in Lengths
    /\ chunk_size \in ChunkSizes
    /\ offset = 0
    /\ ok = FALSE
    /\ stream_pc = "called"

RefuseChunk ==
    /\ stream_pc = "called"
    /\ chunk_size = 0
    /\ stream_pc' = "returned"
    /\ UNCHANGED <<contextVars, length, chunk_size, offset, ok>>

InitContext ==
    /\ stream_pc = "called"
    /\ chunk_size # 0
    /\ Context!Reset("init")
    /\ ok' = TRUE
    /\ stream_pc' = "loop"
    /\ UNCHANGED <<length, chunk_size, offset>>

Count == IF chunk_size > length - offset THEN length - offset ELSE chunk_size

\* One turn of the loop; the offset moves on also when the chunk is refused.
UpdateChunk(memory) ==
    /\ stream_pc = "loop"
    /\ ok
    /\ offset < length
    /\ Context!Update(Count, TRUE, memory)
    /\ ok' = last'.ok
    /\ offset' = offset + Count
    /\ UNCHANGED <<length, chunk_size, stream_pc>>

FinishDigest(memory) ==
    /\ stream_pc = "loop"
    /\ ok
    /\ offset >= length
    /\ Context!Final(TRUE, memory)
    /\ ok' = last'.ok
    /\ stream_pc' = "free"
    /\ UNCHANGED <<length, chunk_size, offset>>

LeaveLoop ==
    /\ stream_pc = "loop"
    /\ ~ok
    /\ stream_pc' = "free"
    /\ UNCHANGED <<contextVars, length, chunk_size, offset, ok>>

\* The one free, which the failed and the complete calls come to.
FreeContext ==
    /\ stream_pc = "free"
    /\ Context!Reset("free")
    /\ stream_pc' = "returned"
    /\ UNCHANGED <<length, chunk_size, offset, ok>>

StreamStep ==
    \/ RefuseChunk \/ InitContext \/ LeaveLoop \/ FreeContext
    \/ \E memory \in BOOLEAN : UpdateChunk(memory) \/ FinishDigest(memory)

-----------------------------------------------------------------------------

\* When the digest has been written, it is that of the whole input: no chunk
\* was dropped, fed twice or reached behind the end of the buffer.
WholeInputHashed ==
    /\ offset <= length
    /\ stream_pc = "free" /\ ok =>
           last.out = Context!Written(DigestOf(variant, message, length))

\* On every path out of the function the context has been freed, or never
\* fed; measure would count anything else as live.
ContextFreed ==
    stream_pc = "returned" =>
        phase = "open" /\ absorbed = 0 /\ last.call \in {"init", "free"}

\* It fails only for a zero chunk size, an unsupported length, or want of
\* memory at the one point where the context allocates.
FailsOnlyForCause ==
    stream_pc = "returned" /\ ~ok => \/ chunk_size = 0
                              \/ length > Limit
                              \/ offset <= chunk_size
=============================================================================
