---------------------------- MODULE FchCliProofs ----------------------------
(***************************************************************************)
(* The command line tool, for any files, any number of arguments and any    *)
(* buffer: no line for a file that was not read whole, an exit code that    *)
(* tells, a context that is always freed, no block lost.                    *)
(***************************************************************************)
EXTENDS FchCli, TLAPS

\* Where the tool stands in the file it is hashing.
InFile == {"read", "update", "refused", "check", "unreadable", "final",
           "unfinished", "freed"}

\* The file in hand is an argument that opened, and the context hashes it.
FileInHand ==
    pc \in InFile =>
        /\ index <= LastIndex
        /\ Current.opens
        /\ message = Current.content

\* The last fread: a block of at most the buffer, a short one at the end of
\* what can be read.
ReadSoFar ==
    /\ count <= position \/ pc \notin {"update", "check"}
    /\ pc \in {"read", "update", "check"} => position <= Current.fails
    /\ pc = "update" => count > 0
    /\ pc \in {"update", "check"} /\ count # BufferSize =>
           position = Current.fails

\* The context is open, with what was read, until the final.
ContextFollows ==
    /\ pc \in {"open", "exited", "read", "update", "check", "final"} =>
           phase = "open"
    /\ pc \in {"open", "exited"} =>
           absorbed = 0 /\ last.call \in {"init", "free"}
    /\ pc \in {"read", "check"} => absorbed = position
    /\ pc = "update" => absorbed = position - count
    /\ pc = "final" => absorbed = Current.size
    /\ pc \in {"final", "freed"} => ~Current.broken
    /\ pc = "freed" =>
           last.out.digest =
               << DigestOf(variant, Current.content, Current.size) >>

\* The lines so far are those of files before the one in hand, in order.
LinesSoFar ==
    \A n \in 1..Len(lines) :
        /\ lines[n].file \in 1..(index - 1)
        /\ Input(lines[n].file).opens
        /\ ~Input(lines[n].file).broken
        /\ lines[n].digest = DigestOf(variant, Input(lines[n].file).content,
                                      Input(lines[n].file).size)
        /\ n > 1 => lines[n - 1].file < lines[n].file

\* The exit code is 0 as long as every file behind got its line.
ExitCodeSoFar ==
    /\ Len(lines) <= index - 1
    /\ exit_code = 0 <=> Len(lines) = index - 1
    /\ pc = "exited" => index = LastIndex + 1

Types ==
    /\ args \in Seq(Files)
    /\ stdin \in Files
    /\ absorbed \in Nat
    /\ lines \in Seq([file : Nat, digest : {DigestOf(b, f.content, f.size) :
                                    b \in {variant}, f \in Files}])

IInv ==
    /\ TypeOK
    /\ Types
    /\ FileInHand
    /\ ReadSoFar
    /\ ContextFollows
    /\ LinesSoFar
    /\ ExitCodeSoFar

LEMMA CurrentIsAFile ==
    ASSUME Types, TypeOK, index <= LastIndex
    PROVE  /\ Current \in Files
           /\ Current = Input(index)
           /\ Current.fails \in Nat
           /\ Current.size \in Nat
           /\ Current.fails <= Current.size
           /\ ~Current.broken => Current.fails = Current.size
<1>1. Current \in Files
    BY DEF Types, TypeOK, LastIndex, Current
<1>2. Current = Input(index)
    BY DEF Current, Input
<1> QED BY <1>1, <1>2, CliAssumption

LEMMA InitIInv == Init => IInv
<1> SUFFICES ASSUME Init PROVE IInv
    OBVIOUS
<1> USE CliAssumption DEF Init, Context!Init, Context!Call
<1>1. Types
    <2>1. args \in Seq(Files)
        OBVIOUS
    <2>2. stdin \in Files
        OBVIOUS
    <2> QED BY <2>1, <2>2 DEF Types
<1>2. LastIndex \in Nat /\ 1 <= LastIndex + 1
    BY <1>1 DEF LastIndex, Types
<1>3. TypeOK
    BY <1>2 DEF TypeOK
<1>4. FileInHand /\ ReadSoFar /\ ContextFollows
    BY DEF FileInHand, InFile, ReadSoFar, ContextFollows
<1>5. LinesSoFar /\ ExitCodeSoFar
    BY DEF LinesSoFar, ExitCodeSoFar
<1> QED BY <1>1, <1>3, <1>4, <1>5 DEF IInv

-----------------------------------------------------------------------------

\* Facts about the file in hand in the next state, when the arguments stay.
LEMMA SameArguments ==
    ASSUME UNCHANGED <<args, stdin>>, IInv
    PROVE  /\ LastIndex' = LastIndex
           /\ LastIndex \in Nat
           /\ \A i : Input(i)' = Input(i)
           /\ index' = index => Current' = Current
BY DEF LastIndex, Input, Current, IInv, Types

\* A step that neither moves to another file nor prints keeps the lines.
LEMMA LinesKept ==
    ASSUME IInv, UNCHANGED <<args, stdin, variant, lines>>,
           index' \in {index, index + 1}, index' \in Nat
    PROVE  LinesSoFar'
<1>1. \A i : Input(i)' = Input(i)
    BY SameArguments
<1>2. index \in Nat /\ index \in 1..(LastIndex + 1)
    BY DEF IInv, TypeOK
<1> QED BY <1>1, <1>2 DEF IInv, LinesSoFar

LEMMA OpenStep == ASSUME IInv, Open PROVE IInv'
<1> USE DEF Open, Context!Reset, Context!Call, IInv
<1>1. LastIndex' = LastIndex /\ Current' = Current
    BY SameArguments
<1>2. Current \in Files /\ Current.fails \in Nat
    BY CurrentIsAFile
<1>3. TypeOK'
    BY <1>1, CliAssumption DEF TypeOK
<1>4. Types'
    BY DEF Types
<1>5. FileInHand' /\ ContextFollows' /\ ReadSoFar'
    BY <1>1, <1>2 DEF FileInHand, InFile, ContextFollows, ReadSoFar
<1>6. LinesSoFar'
    BY LinesKept DEF TypeOK
<1>7. ExitCodeSoFar'
    BY <1>1 DEF ExitCodeSoFar
<1> QED BY <1>3, <1>4, <1>5, <1>6, <1>7

LEMMA OpenFailsStep == ASSUME IInv, OpenFails PROVE IInv'
<1> USE DEF OpenFails, contextVars, IInv
<1>1. /\ LastIndex' = LastIndex
      /\ LastIndex \in Nat
      /\ index' = index => Current' = Current
    BY SameArguments
<1>2. index <= LastIndex =>
          Current \in Files /\ Current.fails \in Nat /\ Current.size \in Nat
    BY CurrentIsAFile
<1>3. TypeOK'
    BY <1>1, <1>2, CliAssumption DEF TypeOK, FileInHand, InFile
<1>4. Types'
    BY <1>1, <1>2 DEF Types, TypeOK
<1>5. FileInHand'
    BY <1>1 DEF FileInHand, InFile, TypeOK
<1>6. ReadSoFar'
    BY <1>1, <1>2, CliAssumption DEF ReadSoFar, TypeOK, FileInHand, InFile
<1>7. ContextFollows'
    BY <1>1, <1>2, CurrentIsAFile, CliAssumption
       DEF ContextFollows, ReadSoFar, TypeOK, FileInHand, InFile
<1>8. LinesSoFar'
    BY LinesKept DEF TypeOK
<1>9. ExitCodeSoFar'
    BY <1>1 DEF ExitCodeSoFar, TypeOK, Types, FileInHand, InFile
<1> QED BY <1>3, <1>4, <1>5, <1>6, <1>7, <1>8, <1>9

LEMMA ReadStep == ASSUME IInv, Read PROVE IInv'
<1> USE DEF Read, contextVars, IInv
<1>1. /\ LastIndex' = LastIndex
      /\ LastIndex \in Nat
      /\ index' = index => Current' = Current
    BY SameArguments
<1>2. index <= LastIndex =>
          Current \in Files /\ Current.fails \in Nat /\ Current.size \in Nat
    BY CurrentIsAFile
<1>3. TypeOK'
    <2>1. /\ Current.fails \in Nat
          /\ position \in Nat
          /\ position <= Current.fails
          /\ BufferSize \in Nat \ {0}
        BY <1>1, <1>2, CliAssumption DEF TypeOK, FileInHand, InFile, ReadSoFar
    <2>2. count' \in 0..BufferSize /\ position' \in Nat
        BY <2>1
    <2> QED BY <2>2, <1>1 DEF TypeOK
<1>4. Types'
    BY <1>1, <1>2 DEF Types, TypeOK
<1>5. FileInHand'
    BY <1>1 DEF FileInHand, InFile, TypeOK
<1>6. ReadSoFar'
    BY <1>1, <1>2, CliAssumption DEF ReadSoFar, TypeOK, FileInHand, InFile
<1>7. ContextFollows'
    BY <1>1, <1>2, CurrentIsAFile, CliAssumption
       DEF ContextFollows, ReadSoFar, TypeOK, FileInHand, InFile
<1>8. LinesSoFar'
    BY LinesKept DEF TypeOK
<1>9. ExitCodeSoFar'
    BY <1>1 DEF ExitCodeSoFar, TypeOK, Types, FileInHand, InFile
<1> QED BY <1>3, <1>4, <1>5, <1>6, <1>7, <1>8, <1>9

LEMMA UpdateStep == ASSUME IInv, NEW memory \in BOOLEAN, UpdateBlock(memory) PROVE IInv'
<1> USE DEF UpdateBlock, Context!Update, Context!Accepts, Context!Call, IInv
<1>1. /\ LastIndex' = LastIndex
      /\ LastIndex \in Nat
      /\ index' = index => Current' = Current
    BY SameArguments
<1>2. index <= LastIndex =>
          Current \in Files /\ Current.fails \in Nat /\ Current.size \in Nat
    BY CurrentIsAFile
<1>3. TypeOK'
    BY <1>1, <1>2, CliAssumption DEF TypeOK, FileInHand, InFile
<1>4. Types'
    BY <1>1, <1>2 DEF Types, TypeOK
<1>5. FileInHand'
    BY <1>1 DEF FileInHand, InFile, TypeOK
<1>6. ReadSoFar'
    BY <1>1, <1>2, CliAssumption DEF ReadSoFar, TypeOK, FileInHand, InFile
<1>7. ContextFollows'
    BY <1>1, <1>2, CurrentIsAFile, CliAssumption
       DEF ContextFollows, ReadSoFar, TypeOK, FileInHand, InFile
<1>8. LinesSoFar'
    BY LinesKept DEF TypeOK
<1>9. ExitCodeSoFar'
    BY <1>1 DEF ExitCodeSoFar, TypeOK, Types, FileInHand, InFile
<1> QED BY <1>3, <1>4, <1>5, <1>6, <1>7, <1>8, <1>9

LEMMA CheckStep == ASSUME IInv, CheckBlock PROVE IInv'
<1> USE DEF CheckBlock, contextVars, IInv
<1>1. /\ LastIndex' = LastIndex
      /\ LastIndex \in Nat
      /\ index' = index => Current' = Current
    BY SameArguments
<1>2. index <= LastIndex =>
          Current \in Files /\ Current.fails \in Nat /\ Current.size \in Nat
    BY CurrentIsAFile
<1>3. TypeOK'
    BY <1>1, <1>2, CliAssumption DEF TypeOK, FileInHand, InFile
<1>4. Types'
    BY <1>1, <1>2 DEF Types, TypeOK
<1>5. FileInHand'
    BY <1>1 DEF FileInHand, InFile, TypeOK
<1>6. ReadSoFar'
    BY <1>1, <1>2, CliAssumption DEF ReadSoFar, TypeOK, FileInHand, InFile
<1>7. ContextFollows'
    BY <1>1, <1>2, CurrentIsAFile, CliAssumption
       DEF ContextFollows, ReadSoFar, TypeOK, FileInHand, InFile
<1>8. LinesSoFar'
    BY LinesKept DEF TypeOK
<1>9. ExitCodeSoFar'
    BY <1>1 DEF ExitCodeSoFar, TypeOK, Types, FileInHand, InFile
<1> QED BY <1>3, <1>4, <1>5, <1>6, <1>7, <1>8, <1>9

LEMMA FinishStep == ASSUME IInv, NEW memory \in BOOLEAN, FinishDigest(memory) PROVE IInv'
<1> USE DEF FinishDigest, Context!Final, Context!Call, Context!Written, IInv
<1>1. /\ LastIndex' = LastIndex
      /\ LastIndex \in Nat
      /\ index' = index => Current' = Current
    BY SameArguments
<1>2. index <= LastIndex =>
          Current \in Files /\ Current.fails \in Nat /\ Current.size \in Nat
    BY CurrentIsAFile
<1>3. TypeOK'
    BY <1>1, <1>2, CliAssumption DEF TypeOK, FileInHand, InFile
<1>4. Types'
    BY <1>1, <1>2 DEF Types, TypeOK
<1>5. FileInHand'
    BY <1>1 DEF FileInHand, InFile, TypeOK
<1>6. ReadSoFar'
    BY <1>1, <1>2, CliAssumption DEF ReadSoFar, TypeOK, FileInHand, InFile
<1>7. ContextFollows'
    BY <1>1, <1>2, CurrentIsAFile, CliAssumption
       DEF ContextFollows, ReadSoFar, TypeOK, FileInHand, InFile
<1>8. LinesSoFar'
    BY LinesKept DEF TypeOK
<1>9. ExitCodeSoFar'
    BY <1>1 DEF ExitCodeSoFar, TypeOK, Types, FileInHand, InFile
<1> QED BY <1>3, <1>4, <1>5, <1>6, <1>7, <1>8, <1>9

\* The three ways out of a file that got no digest differ in where they
\* leave from only.
LEMMA GivingUpStep ==
    ASSUME IInv, pc \in {"refused", "unreadable", "unfinished"},
           UNCHANGED message, Context!Reset("free"), GiveUp
    PROVE  IInv'
<1> USE DEF GiveUp, Context!Reset, Context!Call, IInv
<1>1. /\ LastIndex' = LastIndex
      /\ LastIndex \in Nat
      /\ index' = index => Current' = Current
    BY SameArguments
<1>2. index <= LastIndex =>
          Current \in Files /\ Current.fails \in Nat /\ Current.size \in Nat
    BY CurrentIsAFile
<1>3. TypeOK'
    BY <1>1, <1>2, CliAssumption DEF TypeOK, FileInHand, InFile
<1>4. Types'
    BY <1>1, <1>2 DEF Types, TypeOK
<1>5. FileInHand'
    BY <1>1 DEF FileInHand, InFile, TypeOK
<1>6. ReadSoFar'
    BY <1>1, <1>2, CliAssumption DEF ReadSoFar, TypeOK, FileInHand, InFile
<1>7. ContextFollows'
    BY <1>1, <1>2, CurrentIsAFile, CliAssumption
       DEF ContextFollows, ReadSoFar, TypeOK, FileInHand, InFile
<1>8. LinesSoFar'
    BY LinesKept DEF TypeOK
<1>9. ExitCodeSoFar'
    BY <1>1 DEF ExitCodeSoFar, TypeOK, Types, FileInHand, InFile
<1> QED BY <1>3, <1>4, <1>5, <1>6, <1>7, <1>8, <1>9

LEMMA AbandoningStep ==
    ASSUME IInv, UpdateRefused \/ ReadError \/ FinalRefused
    PROVE  IInv'
BY GivingUpStep DEF UpdateRefused, ReadError, FinalRefused

LEMMA ExitStep == ASSUME IInv, Exit PROVE IInv'
<1> USE DEF Exit, contextVars, IInv
<1>1. /\ LastIndex' = LastIndex
      /\ LastIndex \in Nat
      /\ index' = index => Current' = Current
    BY SameArguments
<1>2. index <= LastIndex =>
          Current \in Files /\ Current.fails \in Nat /\ Current.size \in Nat
    BY CurrentIsAFile
<1>3. TypeOK'
    BY <1>1, <1>2, CliAssumption DEF TypeOK, FileInHand, InFile
<1>4. Types'
    BY <1>1, <1>2 DEF Types, TypeOK
<1>5. FileInHand'
    BY <1>1 DEF FileInHand, InFile, TypeOK
<1>6. ReadSoFar'
    BY <1>1, <1>2, CliAssumption DEF ReadSoFar, TypeOK, FileInHand, InFile
<1>7. ContextFollows'
    BY <1>1, <1>2, CurrentIsAFile, CliAssumption
       DEF ContextFollows, ReadSoFar, TypeOK, FileInHand, InFile
<1>8. LinesSoFar'
    BY LinesKept DEF TypeOK
<1>9. ExitCodeSoFar'
    BY <1>1 DEF ExitCodeSoFar, TypeOK, Types, FileInHand, InFile
<1> QED BY <1>3, <1>4, <1>5, <1>6, <1>7, <1>8, <1>9

LEMMA PrintStep ==
    ASSUME IInv, NEW writes \in BOOLEAN, FreeAndPrint(writes)
    PROVE  IInv'
<1> USE DEF FreeAndPrint, Context!Reset, Context!Call, IInv
<1>1. /\ LastIndex' = LastIndex
      /\ LastIndex \in Nat
      /\ \A i : Input(i)' = Input(i)
    BY SameArguments
<1>2. index <= LastIndex /\ index \in Nat \ {0}
    BY <1>1 DEF FileInHand, InFile, TypeOK
<1>3. /\ Current \in Files
      /\ Current = Input(index)
      /\ Current.opens
      /\ ~Current.broken
      /\ last.out.digest[1] =
             DigestOf(variant, Current.content, Current.size)
    BY <1>2, CurrentIsAFile DEF FileInHand, InFile, ContextFollows
<1>4. TypeOK'
    BY <1>1, <1>2, CliAssumption DEF TypeOK
<1>5. FileInHand' /\ ReadSoFar' /\ ContextFollows'
    BY DEF FileInHand, InFile, ReadSoFar, ContextFollows
<1> DEFINE line == [file |-> index, digest |-> last.out.digest[1]]
<1>6. CASE writes
    <2>1. lines' = Append(lines, line) /\ exit_code' = exit_code
        BY <1>6
    <2>2. /\ Len(lines') = Len(lines) + 1
          /\ \A n \in 1..Len(lines) : lines'[n] = lines[n]
          /\ lines'[Len(lines) + 1] = line
          /\ Len(lines) \in Nat
        BY <2>1 DEF Types
    <2>3. line \in [file : Nat, digest : {DigestOf(b, f.content, f.size) :
                                    b \in {variant}, f \in Files}]
        BY <1>2, <1>3
    <2>4. Types'
        BY <2>1, <2>3 DEF Types
    <2>5. ASSUME NEW n \in 1..Len(lines')
          PROVE  /\ lines'[n].file \in 1..index
                 /\ Input(lines'[n].file).opens
                 /\ ~Input(lines'[n].file).broken
                 /\ lines'[n].digest =
                        DigestOf(variant, Input(lines'[n].file).content,
                                 Input(lines'[n].file).size)
                 /\ n > 1 => lines'[n - 1].file < lines'[n].file
        <3>1. CASE n \in 1..Len(lines)
            <4>1. lines'[n] = lines[n]
                BY <3>1, <2>2
            <4>2. n > 1 => lines'[n - 1] = lines[n - 1]
                BY <3>1, <2>2
            <4>3. /\ lines[n].file \in 1..(index - 1)
                  /\ n > 1 => lines[n - 1].file < lines[n].file
                BY <3>1 DEF LinesSoFar
            <4>4. /\ Input(lines[n].file).opens
                  /\ ~Input(lines[n].file).broken
                  /\ lines[n].digest =
                         DigestOf(variant, Input(lines[n].file).content,
                                  Input(lines[n].file).size)
                BY <3>1 DEF LinesSoFar
            <4> QED BY <4>1, <4>2, <4>3, <4>4, <1>2
        <3>2. CASE n = Len(lines) + 1
            <4>1. lines'[n] = line
                BY <3>2, <2>2
            <4>2. ASSUME n > 1 PROVE lines'[n - 1].file < index
                <5>1. n - 1 \in 1..Len(lines)
                    BY <4>2, <3>2, <2>2
                <5>2. lines[n - 1].file \in 1..(index - 1)
                    BY <5>1 DEF LinesSoFar
                <5>3. lines'[n - 1] = lines[n - 1]
                    BY <5>1, <2>2
                <5> HIDE DEF IInv, FreeAndPrint
                <5> QED BY <5>2, <5>3, <1>2
            <4> QED BY <4>1, <4>2, <1>2, <1>3
        <3> QED BY <3>1, <3>2, <2>2
    <2>6. LinesSoFar'
        <3>1. index' - 1 = index
            BY <1>2
        <3>2. ASSUME NEW i PROVE Input(i)' = Input(i)
            BY <1>1
        <3>3. variant' = variant
            OBVIOUS
        <3> HIDE DEF FreeAndPrint
        <3> QED BY <3>1, <3>2, <3>3, <2>5 DEF LinesSoFar
    <2>7. ExitCodeSoFar'
        BY <2>1, <2>2, <1>1, <1>2 DEF ExitCodeSoFar
    <2> QED BY <1>4, <1>5, <2>4, <2>6, <2>7
<1>7. CASE ~writes
    <2>1. lines' = lines /\ exit_code' = 2
        BY <1>7
    <2>2. Types'
        BY <2>1 DEF Types
    <2>3. LinesSoFar'
        BY <2>1, <1>2, LinesKept
    <2>4. ExitCodeSoFar'
        BY <2>1, <1>1, <1>2 DEF ExitCodeSoFar, Types
    <2> QED BY <1>4, <1>5, <2>2, <2>3, <2>4
<1> QED BY <1>6, <1>7

LEMMA StutterStep == ASSUME IInv, UNCHANGED vars PROVE IInv'
BY DEF IInv, vars, TypeOK, Types, FileInHand, InFile, ReadSoFar,
       ContextFollows, LinesSoFar, ExitCodeSoFar, Input, Current, LastIndex

\* The inductive invariant: it starts true and every step of the tool keeps
\* it.
THEOREM CliInvariant == Spec => []IInv
<1>1. IInv /\ [Next]_vars => IInv'
    <2> SUFFICES ASSUME IInv, [Next]_vars PROVE IInv'
        OBVIOUS
    <2>1. CASE Open
        BY <2>1, OpenStep
    <2>2. CASE OpenFails
        BY <2>2, OpenFailsStep
    <2>3. CASE Read
        BY <2>3, ReadStep
    <2>4. CASE CheckBlock
        BY <2>4, CheckStep
    <2>5. CASE UpdateRefused \/ ReadError \/ FinalRefused
        BY <2>5, AbandoningStep
    <2>6. CASE Exit
        BY <2>6, ExitStep
    <2>7. CASE \E memory \in BOOLEAN : UpdateBlock(memory) \/ FinishDigest(memory)
        BY <2>7, UpdateStep, FinishStep
    <2>8. CASE \E writes \in BOOLEAN : FreeAndPrint(writes)
        BY <2>8, PrintStep
    <2>9. CASE Exited \/ UNCHANGED vars
        BY <2>9, StutterStep DEF Exited
    <2> QED
        BY <2>1, <2>2, <2>3, <2>4, <2>5, <2>6, <2>7, <2>8, <2>9
           DEF Next, Step
<1> QED BY InitIInv, <1>1, PTL DEF Spec

\* The tool's variables keep their types.
THEOREM CliTypes == Spec => []TypeOK
<1>1. IInv => TypeOK
    BY DEF IInv
<1> QED BY CliInvariant, <1>1, PTL

\* No line for a file that did not open, was cut off by a read error or lost
\* a block; lines in the order of the arguments.
THEOREM CliLines == Spec => []LinesAreComplete
<1>1. IInv => LinesAreComplete
    BY DEF IInv, LinesSoFar, LinesAreComplete
<1> QED BY CliInvariant, <1>1, PTL

\* The tool exits with 0 exactly when every file got its line.
THEOREM CliExitCode == Spec => []ExitCodeTells
<1>1. IInv => ExitCodeTells
    <2> SUFFICES ASSUME IInv, pc = "exited"
                 PROVE  exit_code = 0 <=> Len(lines) = LastIndex
        BY DEF ExitCodeTells
    <2>1. LastIndex \in Nat /\ index = LastIndex + 1
        BY DEF IInv, ExitCodeSoFar, Types, LastIndex
    <2> QED BY <2>1 DEF IInv, ExitCodeSoFar
<1> QED BY CliInvariant, <1>1, PTL

\* On every path out of a file the context was freed.
THEOREM CliFrees == Spec => []ContextFreed
<1>1. IInv => ContextFreed
    BY DEF IInv, ContextFollows, ContextFreed
<1> QED BY CliInvariant, <1>1, PTL

\* The context absorbs the file, block after block, whole.
THEOREM CliBlocks == Spec => []NoBlockLost
<1>1. IInv => NoBlockLost
    BY DEF IInv, ContextFollows, NoBlockLost
<1> QED BY CliInvariant, <1>1, PTL
=============================================================================
