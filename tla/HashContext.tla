---------------------------- MODULE HashContext ----------------------------
(***************************************************************************)
(* What an incremental hash context promises its caller (include/           *)
(* fch_stream.h), with nothing of how the digest is computed: which calls   *)
(* succeed, and what a successful final writes.  Every call is decided by   *)
(* the phase, the bytes absorbed and the caller's arguments; `memory` says  *)
(* whether an allocation made by this call would succeed.                  *)
(***************************************************************************)
EXTENDS Naturals, Sequences

CONSTANTS
    Messages,              \* the messages a caller may feed, byte by byte
    Variants,              \* digest sizes
    UpdateSizes,           \* the sizes of the pieces it feeds them in
    Supported(_),          \* the lengths that can be hashed
    Digest(_, _, _)        \* the digest of a variant, message and length

VARIABLES
    variant,
    message,
    phase,      \* "open", "failed" or "finalized"
    absorbed,   \* bytes of the message accepted so far
    last        \* the last call: its arguments, result and output

vars == <<variant, message, phase, absorbed, last>>

Untouched == [kind |-> "untouched", digest |-> << >>]
Zeroed    == [kind |-> "zeroed",    digest |-> << >>]
Written(digest) == [kind |-> "digest", digest |-> << digest >>]

Call(name, size, given, memory, ok, out) ==
    [call |-> name, size |-> size, given |-> given, memory |-> memory,
     ok |-> ok, out |-> out]

Init ==
    /\ variant \in Variants
    /\ message \in Messages
    /\ phase = "open"
    /\ absorbed = 0
    /\ last = Call("init", 0, TRUE, TRUE, TRUE, Untouched)

\* init and free make the context ready for another message.
Reset(name) ==
    /\ phase' = "open"
    /\ absorbed' = 0
    /\ message' \in Messages
    /\ last' = Call(name, 0, TRUE, TRUE, TRUE, Untouched)
    /\ UNCHANGED variant

\* An update of size bytes is accepted exactly when the context is open and,
\* unless it is empty, its data is there, the length stays supported and, for
\* the first bytes, memory is available.
Accepts(size, given, memory) ==
    /\ phase = "open"
    /\ size > 0 =>
           /\ given
           /\ Supported(absorbed + size)
           /\ absorbed = 0 => memory

Update(size, given, memory) ==
    /\ \/ /\ Accepts(size, given, memory)
          /\ absorbed' = absorbed + size
          /\ UNCHANGED phase
       \/ /\ ~Accepts(size, given, memory)
          /\ phase' = IF phase = "open" THEN "failed" ELSE phase
          /\ UNCHANGED absorbed
    /\ last' = Call("update", size, given, memory,
                    Accepts(size, given, memory), Untouched)
    /\ UNCHANGED <<variant, message>>

\* A final without an output buffer changes nothing.  With one it finalizes
\* the context, and writes the digest of what was absorbed or zeroes; memory
\* matters only when nothing was absorbed before.
Final(given, memory) ==
    LET ok == given /\ phase = "open" /\ (absorbed = 0 => memory)
        out == IF ~given THEN Untouched
               ELSE IF ok THEN Written(Digest(variant, message, absorbed))
               ELSE Zeroed
    IN
    /\ phase' = IF given THEN "finalized" ELSE phase
    /\ last' = Call("final", 0, given, memory, ok, out)
    /\ UNCHANGED <<variant, message, absorbed>>

Next ==
    \/ \E name \in {"init", "free"} : Reset(name)
    \/ \E size \in UpdateSizes, given, memory \in BOOLEAN :
           Update(size, given, memory)
    \/ \E given, memory \in BOOLEAN : Final(given, memory)

Spec == Init /\ [][Next]_vars
=============================================================================
