------------------------------- MODULE FchCli -------------------------------
(***************************************************************************)
(* The command line tool (src/tools/fch.c): one run of fch_cli_run over the *)
(* files it is given, or over standard input, driving one hash context at a *)
(* time.  The context is the one HashContext promises, which FchStream      *)
(* implements; the files, the terminal and the allocator are the            *)
(* environment: a file may not open, a read may fail after some bytes, a    *)
(* write may fail.                                                         *)
(***************************************************************************)
EXTENDS Naturals, Sequences

CONSTANTS
    Files,         \* records [content, size, opens, fails]: see CliAssumption
    MaxArgs,       \* bound on the number of FILE arguments
    BufferSize,    \* sizeof(buffer), 65536 in the code
    Limit,         \* the longest message the context supports
    Variants

\* `content` names the bytes of a file of `size` bytes.  A file that `opens`
\* is read up to `fails` bytes when that is less than its size, and then
\* reports an error; one whose `fails` is its size is read to its end.
ASSUME CliAssumption ==
    /\ BufferSize \in Nat \ {0}
    /\ MaxArgs \in Nat
    /\ Limit \in Nat
    /\ \A f \in Files :
           /\ f.size \in Nat
           /\ f.fails \in 0..f.size
           /\ f.opens \in BOOLEAN
           /\ f.broken \in BOOLEAN
           /\ f.fails < f.size => f.broken

VARIABLES
    \* the context
    variant, message, phase, absorbed, last,
    \* fch_cli_run and hash_stream
    args,        \* the FILE arguments; empty for standard input
    stdin,       \* the file standard input reads
    pc,          \* see TypeOK
    index,       \* i: the argument being processed
    position,    \* bytes read from the current file
    count,       \* what the last fread returned
    exit_code,
    lines        \* digest lines on standard output: [file, digest]

contextVars == <<variant, message, phase, absorbed, last>>
vars == <<variant, message, phase, absorbed, last, args, stdin, pc, index,
          position, count, exit_code, lines>>

DigestOf(bits, content, size) ==
    [bits |-> bits, content |-> content, size |-> size]

Context == INSTANCE HashContext WITH
    Messages    <- {f.content : f \in Files},
    UpdateSizes <- 1..BufferSize,
    Supported   <- LAMBDA size : size <= Limit,
    Digest      <- DigestOf

-----------------------------------------------------------------------------

\* The file being hashed: an argument, or standard input when there is none.
Current == IF args = << >> THEN stdin ELSE args[index]

Init ==
    /\ args \in UNION {[1..n -> Files] : n \in 0..MaxArgs}
    /\ IF args = << >> THEN stdin \in {f \in Files : f.opens}
       ELSE stdin = args[1]
    /\ message = stdin.content
    /\ Context!Init
    /\ pc = "open"
    /\ index = 1
    /\ position = 0
    /\ count = 0
    /\ exit_code = 0
    /\ lines = << >>

LastIndex == IF args = << >> THEN 1 ELSE Len(args)

\* fopen succeeds (or the input is standard input) and hash_stream
\* initialises its context.
Open ==
    /\ pc = "open"
    /\ index <= LastIndex
    /\ Current.opens
    /\ message' = Current.content
    /\ Context!Reset("init")
    /\ pc' = "read"
    /\ position' = 0
    /\ UNCHANGED <<args, stdin, index, count, exit_code, lines>>

\* Mutant: `continue` without the next argument.
OpenFailsAgain ==
    /\ pc = "open"
    /\ index <= LastIndex
    /\ ~Current.opens
    /\ exit_code' = 2
    /\ UNCHANGED <<contextVars, args, stdin, pc, index, position, count, lines>>

OpenFails ==
    /\ pc = "open"
    /\ index <= LastIndex
    /\ ~Current.opens
    /\ exit_code' = 2
    /\ index' = index + 1
    /\ UNCHANGED <<contextVars, args, stdin, pc, position, count, lines>>

ReadDropsShort ==
    /\ pc = "read"
    /\ count' = IF Current.fails - position < BufferSize
                THEN Current.fails - position
                ELSE BufferSize
    /\ position' = position + count'
    /\ pc' = IF count' = BufferSize THEN "update" ELSE "check"
    /\ UNCHANGED <<contextVars, args, stdin, index, exit_code, lines>>

\* fread: a full buffer, or what is left before the end or the error.
Read ==
    /\ pc = "read"
    /\ count' = IF Current.fails - position < BufferSize
                THEN Current.fails - position
                ELSE BufferSize
    /\ position' = position + count'
    /\ pc' = IF count' > 0 THEN "update" ELSE "check"
    /\ UNCHANGED <<contextVars, args, stdin, index, exit_code, lines>>

\* The block is handed to the context, which may refuse it.
UpdateBlock(memory) ==
    /\ pc = "update"
    /\ Context!Update(count, TRUE, memory)
    /\ pc' = IF last'.ok THEN "check" ELSE "refused"
    /\ UNCHANGED <<args, stdin, index, position, count, exit_code, lines>>

\* Mutant: ferror is not asked.
CheckIgnoresError ==
    /\ pc = "check"
    /\ pc' = IF count = BufferSize THEN "read" ELSE "final"
    /\ UNCHANGED <<contextVars, args, stdin, index, position, count,
                   exit_code, lines>>

\* A short block is the end of the file or, when ferror says so, an error.
CheckBlock ==
    /\ pc = "check"
    /\ pc' = IF count = BufferSize THEN "read"
             ELSE IF Current.broken THEN "unreadable"
             ELSE "final"
    /\ UNCHANGED <<contextVars, args, stdin, index, position, count,
                   exit_code, lines>>

FinishDigest(memory) ==
    /\ pc = "final"
    /\ Context!Final(TRUE, memory)
    /\ pc' = IF last'.ok THEN "freed" ELSE "unfinished"
    /\ UNCHANGED <<args, stdin, index, position, count, exit_code, lines>>

\* hash_stream returns 2 and the tool goes on to the next file.  Each of the
\* three ways there frees the context in its own place.
GiveUp ==
    /\ exit_code' = 2
    /\ pc' = "open"
    /\ index' = index + 1
    /\ UNCHANGED <<args, stdin, position, count, lines>>

UpdateRefused ==
    /\ pc = "refused"
    /\ UNCHANGED message
    /\ Context!Reset("free")
    /\ GiveUp

\* Mutant: the way out after a read error, alone, does not free the context.
ReadErrorKeeps ==
    /\ pc = "unreadable"
    /\ UNCHANGED contextVars
    /\ GiveUp

ReadError ==
    /\ pc = "unreadable"
    /\ UNCHANGED message
    /\ Context!Reset("free")
    /\ GiveUp

FinalRefused ==
    /\ pc = "unfinished"
    /\ UNCHANGED message
    /\ Context!Reset("free")
    /\ GiveUp

\* Mutant: the exit code is that of the last file.
PrintForgets(writes) ==
    /\ pc = "freed"
    /\ writes
    /\ UNCHANGED message
    /\ Context!Reset("free")
    /\ lines' = Append(lines, [file |-> index, digest |-> last.out.digest[1]])
    /\ exit_code' = 0
    /\ pc' = "open"
    /\ index' = index + 1
    /\ UNCHANGED <<args, stdin, position, count>>

\* The digest is out of the context: free it, then write the line.  A write
\* that fails makes hash_stream return 2.
FreeAndPrint(writes) ==
    /\ pc = "freed"
    /\ UNCHANGED message
    /\ Context!Reset("free")
    /\ IF writes
       THEN /\ lines' = Append(lines, [file |-> index,
                                       digest |-> last.out.digest[1]])
            /\ UNCHANGED exit_code
       ELSE /\ exit_code' = 2
            /\ UNCHANGED lines
    /\ pc' = "open"
    /\ index' = index + 1
    /\ UNCHANGED <<args, stdin, position, count>>

\* After the last file the exit code is returned.
Exit ==
    /\ pc = "open"
    /\ index > LastIndex
    /\ pc' = "exited"
    /\ UNCHANGED <<contextVars, args, stdin, index, position, count,
                   exit_code, lines>>

Exited == pc = "exited" /\ UNCHANGED vars

Step ==
    \/ Open \/ OpenFails \/ Read \/ CheckBlock \/ Exit
    \/ UpdateRefused \/ ReadError \/ FinalRefused
    \/ \E memory \in BOOLEAN : UpdateBlock(memory) \/ FinishDigest(memory)
    \/ \E writes \in BOOLEAN : FreeAndPrint(writes)

Next == Step \/ Exited

\* The tool is one thread that always runs on; every system call returns.
Spec == Init /\ [][Next]_vars /\ WF_vars(Step)

-----------------------------------------------------------------------------

TypeOK ==
    /\ pc \in {"open", "read", "update", "refused", "check", "unreadable",
               "final", "unfinished", "freed", "exited"}
    /\ index \in 1..(LastIndex + 1)
    /\ position \in Nat
    /\ count \in 0..BufferSize
    /\ exit_code \in {0, 2}
    /\ phase \in {"open", "failed", "finalized"}

Input(i) == IF args = << >> THEN stdin ELSE args[i]

\* A printed digest is that of the whole file, never of one that was cut off
\* by a read error, dropped a block, or did not open; the lines come in the
\* order of the arguments, one for each at most.
LinesAreComplete ==
    \A n \in 1..Len(lines) :
        LET file == Input(lines[n].file) IN
        /\ file.opens
        /\ ~file.broken
        /\ lines[n].digest = DigestOf(variant, file.content, file.size)
        /\ n > 1 => lines[n - 1].file < lines[n].file

\* The tool exits with 0 exactly when every input got its line: no later
\* success hides an earlier failure.
ExitCodeTells ==
    pc = "exited" => (exit_code = 0 <=> Len(lines) = LastIndex)

\* While no file is being hashed the context holds nothing: it was freed, or
\* never fed, on each of the four ways out of hash_stream.
ContextFreed ==
    pc \in {"open", "exited"} =>
        phase = "open" /\ absorbed = 0 /\ last.call \in {"init", "free"}

\* While it reads, the context has absorbed exactly what was read, but for
\* the block in hand: no block is fed twice or skipped.
NoBlockLost ==
    /\ pc = "read"   => absorbed = position
    /\ pc = "update" => absorbed = position - count
    /\ pc = "final"  => absorbed = Current.size

\* The tool exits whatever the files and the allocator do.
Terminates == <>(pc = "exited")
=============================================================================
