------------------------- MODULE CommandLineProofs -------------------------
(***************************************************************************)
(* Proofs about InputIntake and CommandLine, for every limit, every file,   *)
(* any number of writes by another process and any naming of files by       *)
(* paths: what is read stays bounded, belongs to its hash if nobody wrote,  *)
(* a payload is whole, and the products land beside an untouched input.     *)
(***************************************************************************)
EXTENDS CommandLine, SequenceTheorems, TLAPS

-----------------------------------------------------------------------------
(* The intake alone.                                                        *)

Typed == /\ kind \in {"pe", "jar"}
         /\ file \in Seq(Blocks) /\ hashed \in Seq(Blocks) /\ bytes \in Seq(Blocks)
         /\ writes \in Nat
         /\ member \in Member
         /\ resource \in Nat /\ stream \in Nat
         /\ decoded \in Nat /\ decoded <= MaxDecoded

Prefix(s, t) == Len(s) <= Len(t) /\ \A i \in 1..Len(s) : s[i] = t[i]

Hashed   == {"reopen", "read", "check", "archive", "member", "decode", "accepted"}
Complete == {"check", "archive", "member", "decode", "accepted"}

\* While nobody writes, the hash and the bytes are prefixes of one file, whose length
\* was measured first, and grow to the whole of it.
Quiet ==
  writes = 0 =>
    /\ Prefix(hashed, file) /\ Prefix(bytes, file)
    /\ pc \notin {"stat", "refused"} => size = Len(file) /\ Len(file) <= MaxInput
    /\ pc \in Hashed => hashed = file
    /\ pc \in Complete => bytes = file

\* A PE never reaches the archive and never passes its limit by more than one block.
Bounded ==
  kind = "pe" => /\ Len(bytes) <= MaxInput + 1
                 /\ pc \notin {"archive", "member", "decode"}
                 /\ pc = "accepted" => Len(bytes) <= MaxInput

\* What a member has become on its way to the PE search.
Whole ==
  kind = "jar" =>
    /\ pc # "check"
    /\ pc \in {"decode", "accepted"} =>
         resource = member.actual /\ member.actual <= MaxEntry
    /\ pc = "accepted" => decoded = stream

Sound == Typed /\ Quiet /\ Bounded /\ Whole

LEMMA Limits == /\ MaxInput \in Nat /\ MaxEntry \in Nat /\ MaxDecoded \in Nat
                /\ MaxFile \in Nat /\ MaxWrites \in Nat
BY LimitsAssumption

LEMMA StartsSound == Init => Sound
<1> SUFFICES ASSUME Init PROVE Sound
  OBVIOUS
<1>1. file \in Seq(Blocks)
  <2>1. PICK n \in 0..MaxFile : file \in [1..n -> Blocks]
    BY DEF Init, Files
  <2>2. n \in Nat
    BY Limits
  <2> QED BY <2>1, <2>2
<1>2. <<>> \in Seq(Blocks) /\ Len(<<>>) = 0
  OBVIOUS
<1>3. NoMember \in Member
  BY Limits DEF NoMember, Member
<1> QED BY <1>1, <1>2, <1>3, Limits
        DEF Init, Sound, Typed, Quiet, Bounded, Whole, Prefix, Hashed, Complete

\* The next block keeps a prefix a prefix.
LEMMA NextBlock ==
  ASSUME NEW s \in Seq(Blocks), NEW t \in Seq(Blocks), Len(s) < Len(t)
  PROVE  /\ Append(s, t[Len(s) + 1]) \in Seq(Blocks)
         /\ Len(Append(s, t[Len(s) + 1])) = Len(s) + 1
         /\ Prefix(s, t) => Prefix(Append(s, t[Len(s) + 1]), t)
<1>1. Len(s) + 1 \in 1..Len(t) /\ t[Len(s) + 1] \in Blocks
  OBVIOUS
<1> QED BY <1>1, AppendProperties DEF Prefix

LEMMA WholePrefix ==
  ASSUME NEW s \in Seq(Blocks), NEW t \in Seq(Blocks), Prefix(s, t), Len(s) >= Len(t)
  PROVE  s = t
BY SeqEqual DEF Prefix

LEMMA WriteSound == ASSUME Sound, ExternalWrite PROVE Sound'
<1>1. writes' = writes + 1 /\ writes' # 0
  BY DEF ExternalWrite, Sound, Typed
<1>2. file' \in Seq(Blocks)
  <2>1. CASE \E i \in DOMAIN file, b \in Blocks : file' = [file EXCEPT ![i] = b]
    BY <2>1, ExceptSeq DEF Sound, Typed
  <2>2. CASE \E b \in Blocks : file' = Append(file, b)
    BY <2>2 DEF Sound, Typed
  <2>3. CASE \E n \in 0..Len(file) : file' = SubSeq(file, 1, n)
    BY <2>3, SubSeqProperties DEF Sound, Typed
  <2> QED BY <2>1, <2>2, <2>3 DEF ExternalWrite
<1> QED BY <1>1, <1>2 DEF ExternalWrite, Sound, Typed, Quiet, Bounded, Whole

LEMMA HashSound == ASSUME Sound, Stat \/ HashBlock \/ HashEnds \/ Reopen PROVE Sound'
<1> USE DEF Sound, Typed, Quiet, Bounded, Whole, Hashed, Complete
<1>1. CASE Stat
  BY <1>1, Limits DEF Stat
<1>2. CASE HashBlock
  BY <1>2, NextBlock DEF HashBlock
<1>3. CASE HashEnds
  BY <1>3, WholePrefix DEF HashEnds
<1>4. CASE Reopen
  BY <1>4 DEF Reopen
<1> QED BY <1>1, <1>2, <1>3, <1>4

LEMMA ReadSound == ASSUME Sound, ReadBlock \/ ReadEnds \/ CheckLength PROVE Sound'
<1> USE DEF Sound, Typed, Quiet, Bounded, Whole, Hashed, Complete
<1>1. CASE ReadBlock
  BY <1>1, NextBlock, Limits DEF ReadBlock, Readable
<1>2. CASE ReadEnds
  <2>1. writes = 0 => Len(bytes) >= Len(file)
    BY <1>2, Limits DEF ReadEnds, Readable
  <2>2. writes = 0 => bytes = file
    BY <2>1, WholePrefix
  <2> QED BY <1>2, <2>2 DEF ReadEnds
<1>3. CASE CheckLength
  BY <1>3 DEF CheckLength
<1> QED BY <1>1, <1>2, <1>3

LEMMA MemberSound ==
  ASSUME Sound, OpenArchive \/ ReadMember \/ WriteChunk \/ DecodeEnds \/ DecodeFails
  PROVE  Sound'
<1> USE DEF Sound, Typed, Quiet, Bounded, Whole, Hashed, Complete
<1>1. CASE OpenArchive
  BY <1>1 DEF OpenArchive
<1>2. CASE ReadMember
  <2>1. member.actual \in Nat
    BY Limits DEF Member
  <2>2. resource' \in Nat /\ (resource' <= MaxEntry => resource' = member.actual)
    BY <1>2, <2>1, Limits DEF ReadMember, Smaller
  <2>3. stream' \in Nat
    BY <1>2, Limits DEF ReadMember
  <2> QED BY <1>2, <2>1, <2>2, <2>3, Limits DEF ReadMember
<1>3. CASE WriteChunk
  BY <1>3, Limits DEF WriteChunk
<1>4. CASE DecodeEnds
  BY <1>4 DEF DecodeEnds
<1>5. CASE DecodeFails
  BY <1>5 DEF DecodeFails
<1> QED BY <1>1, <1>2, <1>3, <1>4, <1>5

LEMMA StillSound == ASSUME Sound, UNCHANGED vars PROVE Sound'
BY DEF vars, Sound, Typed, Quiet, Bounded, Whole

LEMMA IntakeSound == ASSUME Sound, Intake \/ ExternalWrite \/ UNCHANGED vars PROVE Sound'
BY WriteSound, HashSound, ReadSound, MemberSound, StillSound DEF Intake

-----------------------------------------------------------------------------
(* The whole command.                                                       *)

Untouched == [n \in Nodes |-> IF n = Node[Input] THEN "input" ELSE "old"]
Reported  == [Untouched EXCEPT ![Node[output]] = "report"]

\* What is on disk at each stage; at the end, what OutputsInPlace says of it.
Staged ==
  /\ stage \in {"arguments", "analysis", "report", "java", "source", "exit"}
  /\ stage = "arguments" => output = NoPath
  /\ stage \in {"analysis", "report", "java", "source"} => output \in Paths \ {Input}
  /\ stage \in {"arguments", "analysis", "report", "java"} => java = NoPath
  /\ stage = "source" => java \in Paths \ {Input, output}
  /\ stage \in {"report", "java", "source"} => pc = "accepted"
  /\ stage \in {"arguments", "analysis", "report"} => disk = Untouched
  /\ stage \in {"java", "source"} => disk = Reported
  /\ stage # "exit" => status = "running"
  /\ stage = "exit" => OutputsInPlace

LEMMA Named == Input \in Paths /\ NoPath \notin Paths /\ \A p \in Paths : Node[p] \in Nodes
BY PathsAssumption

LEMMA StartsStaged == Begin => Staged
BY DEF Begin, Staged, Untouched

LEMMA DiskUntouched ==
  /\ Untouched[Node[Input]] = "input"
  /\ \A n \in Nodes : Untouched[n] # "report"
  /\ DOMAIN Untouched = Nodes
BY Named DEF Untouched

\* A failure before the report is written leaves every file as it was.
LEMMA FailsEarly ==
  ASSUME disk' = Untouched, status' = "failure"
  PROVE  OutputsInPlace'
BY DiskUntouched, Named DEF OutputsInPlace

LEMMA ArgumentsStaged == ASSUME Staged, CheckArguments \/ RefuseArguments PROVE Staged'
<1>1. stage = "arguments" /\ disk' = Untouched
  BY DEF CheckArguments, RefuseArguments, Staged
<1>2. CASE CheckArguments
  BY <1>1, <1>2 DEF CheckArguments, Staged, Untouched
<1>3. CASE RefuseArguments
  BY <1>1, <1>3, FailsEarly DEF RefuseArguments, Exit, Staged
<1> QED BY <1>2, <1>3

LEMMA AnalysisStaged == ASSUME Staged, Analyse \/ Analysed \/ AnalysisFails PROVE Staged'
<1>1. stage = "analysis" /\ disk' = Untouched
  BY DEF Analyse, Analysed, AnalysisFails, cli, Staged
<1>2. CASE Analyse
  BY <1>1, <1>2 DEF Analyse, cli, Staged, Untouched
<1>3. CASE Analysed
  BY <1>1, <1>3 DEF Analysed, vars, Staged, Untouched
<1>4. CASE AnalysisFails
  BY <1>1, <1>4, FailsEarly DEF AnalysisFails, Exit, Staged
<1> QED BY <1>2, <1>3, <1>4

\* The report may be cut, but then at its own path.
LEMMA ReportStaged == ASSUME Staged, WriteReport \/ ReportFails PROVE Staged'
<1>1. /\ stage = "report" /\ output \in Paths \ {Input} /\ disk = Untouched
      /\ output' = output /\ java' = java /\ pc' = pc /\ pc = "accepted" /\ java = NoPath
  BY DEF WriteReport, ReportFails, vars, Staged
<1>2. Node[output] \in Nodes /\ Node[Input] \in Nodes
  BY <1>1, Named
<1>3. CASE WriteReport
  <2>1. disk' = Reported'
    BY <1>1, <1>3 DEF WriteReport, Write, Reported, Untouched
  <2> QED BY <1>1, <1>3, <2>1 DEF WriteReport, Staged
<1>4. CASE ReportFails
  <2>1. ~Aliased' => Node[output] # Node[Input]
    BY <1>1, Named DEF Aliased
  <2>2. disk' = Untouched \/ disk' = [Untouched EXCEPT ![Node[output]] = "cut"]
    BY <1>1, <1>4 DEF ReportFails, WriteFails, Write
  <2>3. ~Aliased' => disk'[Node[Input]] = "input"
    BY <2>1, <2>2, <1>2, DiskUntouched
  <2>4. \A n \in Nodes : disk'[n] # "report"
    BY <2>2, <1>2, DiskUntouched
  <2>5. OutputsInPlace'
    BY <2>3, <2>4, <1>4 DEF OutputsInPlace, ReportFails, Exit
  <2> QED BY <1>1, <1>4, <2>5 DEF ReportFails, Exit, Staged
<1> QED BY <1>3, <1>4

LEMMA DiskReported ==
  ASSUME output \in Paths
  PROVE  /\ Reported[Node[output]] = "report"
         /\ Node[output] # Node[Input] => Reported[Node[Input]] = "input"
         /\ DOMAIN Reported = Nodes
BY DiskUntouched, Named DEF Reported

LEMMA JavaStaged == ASSUME Staged, NoJava \/ CheckJava \/ RefuseJava PROVE Staged'
<1>1. /\ stage = "java" /\ output \in Paths \ {Input} /\ disk = Reported
      /\ output' = output /\ disk' = disk /\ pc' = pc /\ pc = "accepted" /\ java = NoPath
  BY DEF NoJava, CheckJava, RefuseJava, vars, Staged
<1>2. ~Aliased' => Node[output] # Node[Input]
  BY <1>1, Named DEF Aliased
<1>3. /\ disk'[Node[output]] = "report"
      /\ ~Aliased' => disk'[Node[Input]] = "input"
  BY <1>1, <1>2, DiskReported
<1>4. CASE NoJava
  <2>1. OutputsInPlace'
    BY <1>1, <1>3, <1>4 DEF NoJava, Exit, OutputsInPlace
  <2> QED BY <1>1, <1>4, <2>1 DEF NoJava, Exit, Staged
<1>5. CASE CheckJava
  BY <1>1, <1>5 DEF CheckJava, Staged, Reported, Untouched
<1>6. CASE RefuseJava
  <2>1. OutputsInPlace'
    BY <1>1, <1>3, <1>6 DEF RefuseJava, Exit, OutputsInPlace
  <2> QED BY <1>1, <1>6, <2>1 DEF RefuseJava, Exit, Staged
<1> QED BY <1>4, <1>5, <1>6

\* Writing the source touches neither the input nor the report.
LEMMA SourceStaged == ASSUME Staged, WriteJava \/ JavaFails PROVE Staged'
<1>1. /\ stage = "source" /\ output \in Paths \ {Input} /\ disk = Reported
      /\ java \in Paths \ {Input, output} /\ pc = "accepted"
      /\ output' = output /\ java' = java /\ pc' = pc /\ stage' = "exit"
  BY DEF WriteJava, JavaFails, Exit, vars, Staged
<1>2. ~Aliased' => /\ Node[output] # Node[Input]
                   /\ Node[java] # Node[Input] /\ Node[java] # Node[output]
  BY <1>1, Named DEF Aliased
<1>3. Node[java] \in Nodes /\ Node[output] \in Nodes /\ Node[Input] \in Nodes
  BY <1>1, Named
<1>4. \/ disk' = Reported /\ JavaFails
      \/ disk' = [Reported EXCEPT ![Node[java]] = "cut"] /\ JavaFails
      \/ disk' = [Reported EXCEPT ![Node[java]] = "source"] /\ WriteJava
  BY <1>1 DEF WriteJava, JavaFails, WriteFails, Write
<1>5. ~Aliased' => disk'[Node[Input]] = "input"
  BY <1>1, <1>2, <1>3, <1>4, DiskReported
<1>6. ~Aliased' /\ WriteJava => disk'[Node[output]] = "report" /\ disk'[Node[java]] = "source"
  <2> SUFFICES ASSUME ~Aliased', WriteJava
               PROVE  disk'[Node[output]] = "report" /\ disk'[Node[java]] = "source"
    OBVIOUS
  <2>1. disk' = [Reported EXCEPT ![Node[java]] = "source"]
    BY <1>1 DEF WriteJava, Write
  <2> QED BY <2>1, <1>1, <1>2, <1>3, DiskReported
<1>7. OutputsInPlace'
  <2>1. WriteJava \/ status' = "failure"
    BY DEF JavaFails, Exit
  <2> QED BY <1>1, <1>5, <1>6, <2>1 DEF OutputsInPlace
<1> QED BY <1>1, <1>7 DEF Staged

LEMMA StillStaged == ASSUME Staged, UNCHANGED command PROVE Staged'
BY DEF command, vars, cli, Staged, Untouched, Reported, OutputsInPlace, Aliased

LEMMA CommandInductive == ASSUME Sound, Staged, [Run]_command PROVE Sound' /\ Staged'
<1>1. Intake \/ ExternalWrite \/ UNCHANGED vars
  BY DEF Run, command, CheckArguments, RefuseArguments, Analyse, Analysed, AnalysisFails,
         WriteReport, ReportFails, NoJava, CheckJava, RefuseJava, WriteJava, JavaFails, Exited
<1>2. Sound'
  BY <1>1, IntakeSound
<1>3. Staged'
  BY ArgumentsStaged, AnalysisStaged, ReportStaged, JavaStaged, SourceStaged, StillStaged
  DEF Run, Exited
<1> QED BY <1>2, <1>3

LEMMA Invariant == CommandSpec => [](Sound /\ Staged)
<1>1. Begin => Sound /\ Staged
  BY StartsSound, StartsStaged DEF Begin
<1>2. Sound /\ Staged /\ [Run]_command => (Sound /\ Staged)'
  BY CommandInductive
<1> QED BY <1>1, <1>2, PTL DEF CommandSpec

LEMMA FilesAre == Files = {s \in Seq(Blocks) : Len(s) <= MaxFile}
<1>1. ASSUME NEW s \in Files PROVE s \in Seq(Blocks) /\ Len(s) <= MaxFile
  <2>1. PICK n \in 0..MaxFile : s \in [1..n -> Blocks]
    BY DEF Files
  <2>2. n \in Nat /\ n <= MaxFile
    BY Limits
  <2> QED BY <2>1, <2>2
<1>2. ASSUME NEW s \in Seq(Blocks), Len(s) <= MaxFile PROVE s \in Files
  <2>1. Len(s) \in 0..MaxFile /\ s \in [1..Len(s) -> Blocks]
    BY <1>2, Limits
  <2> QED BY <2>1 DEF Files
<1> QED BY <1>1, <1>2

\* The types of the intake that Sound says nothing of.
Sizes == /\ Len(file) <= MaxFile /\ Len(hashed) <= MaxFile /\ Len(bytes) <= MaxFile
         /\ writes \in 0..MaxWrites
         /\ pc \in {"stat", "hash", "reopen", "read", "check", "archive", "member",
                    "decode", "accepted", "refused"}
         /\ size \in 0..MaxFile
         /\ resource \in 0..(MaxEntry + 1)
         /\ stream \in 0..(MaxDecoded + 2)

LEMMA SizesTyped == Sound /\ Sizes => TypeOK
BY FilesAre, Limits DEF Sound, Typed, Sizes, TypeOK

LEMMA SizesInit == Init => Sizes
<1> SUFFICES ASSUME Init PROVE Sizes
  OBVIOUS
<1>1. file \in Seq(Blocks) /\ Len(file) <= MaxFile
  BY FilesAre DEF Init
<1> QED BY <1>1, Limits DEF Init, Sizes

LEMMA SizesStep == ASSUME Sound, Sizes, [Next]_vars PROVE Sizes'
<1> USE Limits DEF Sound, Typed, Sizes
<1>1. CASE ExternalWrite
  <2>1. Len(file') <= MaxFile
    <3>1. CASE \E i \in DOMAIN file, b \in Blocks : file' = [file EXCEPT ![i] = b]
      BY <3>1, ExceptSeq
    <3>2. CASE \E b \in Blocks : Len(file) < MaxFile /\ file' = Append(file, b)
      BY <3>2, AppendProperties
    <3>3. CASE \E n \in 0..Len(file) : file' = SubSeq(file, 1, n)
      BY <3>3, SubSeqProperties
    <3> QED BY <1>1, <3>1, <3>2, <3>3 DEF ExternalWrite
  <2>2. /\ writes < MaxWrites /\ writes' = writes + 1
        /\ UNCHANGED <<kind, pc, size, hashed, bytes, member, resource, stream, decoded>>
    BY <1>1 DEF ExternalWrite
  <2> QED BY <2>1, <2>2
<1>2. CASE Stat
  BY <1>2 DEF Stat
<1>3. CASE HashBlock
  BY <1>3, NextBlock DEF HashBlock
<1>4. CASE HashEnds \/ Reopen \/ ReadEnds \/ CheckLength
  BY <1>4 DEF HashEnds, Reopen, ReadEnds, CheckLength
<1>5. CASE ReadBlock
  BY <1>5, NextBlock DEF ReadBlock, Readable
<1>6. CASE OpenArchive \/ WriteChunk \/ DecodeEnds \/ DecodeFails
  BY <1>6 DEF OpenArchive, WriteChunk, DecodeEnds, DecodeFails
<1>7. CASE ReadMember
  <2>1. member.actual \in Nat
    BY DEF Member
  <2>2. resource' \in 0..(MaxEntry + 1)
    BY <1>7, <2>1 DEF ReadMember, Smaller
  <2> QED BY <1>7, <2>2 DEF ReadMember
<1>8. CASE UNCHANGED vars
  BY <1>8 DEF vars
<1> QED BY <1>1, <1>2, <1>3, <1>4, <1>5, <1>6, <1>7, <1>8 DEF Next, Intake, Terminated

\* Paths and files of the command.
LEMMA CommandTyped ==
  ASSUME Staged, CommandTypeOK, [Run]_command
  PROVE  CommandTypeOK'
<1> DEFINE Contents == {"input", "old", "report", "source", "cut"}
<1> USE Named DEF CommandTypeOK
<1>1. \A path \in Paths, product \in Contents :
        [disk EXCEPT ![Node[path]] = product] \in [Nodes -> Contents]
  OBVIOUS
<1>2. CASE CheckArguments \/ RefuseArguments \/ Analysed \/ AnalysisFails \/ NoJava
  BY <1>2 DEF CheckArguments, RefuseArguments, Analysed, AnalysisFails, NoJava, Exit
<1>3. CASE Analyse \/ Exited \/ UNCHANGED command
  BY <1>3 DEF Analyse, Exited, command, cli
<1>4. CASE WriteReport \/ ReportFails
  <2>1. output \in Paths
    BY <1>4 DEF WriteReport, ReportFails, Staged
  <2>2. disk' \in [Nodes -> Contents]
    BY <1>1, <1>4, <2>1 DEF WriteReport, ReportFails, WriteFails, Write
  <2> QED BY <1>4, <2>2 DEF WriteReport, ReportFails, Exit
<1>5. CASE CheckJava \/ RefuseJava
  <2>1. output \in Paths
    BY <1>5 DEF CheckJava, RefuseJava, Staged
  <2> QED BY <1>5, <2>1 DEF CheckJava, RefuseJava, Exit
<1>6. CASE WriteJava \/ JavaFails
  <2>1. java \in Paths
    BY <1>6 DEF WriteJava, JavaFails, Staged
  <2>2. disk' \in [Nodes -> Contents]
    BY <1>1, <1>6, <2>1 DEF WriteJava, JavaFails, WriteFails, Write
  <2> QED BY <1>6, <2>2 DEF WriteJava, JavaFails, Exit
<1> QED BY <1>2, <1>3, <1>4, <1>5, <1>6 DEF Run

\* Types of the intake and of the command around it, for every limit and file.
THEOREM CommandTypeCorrect == CommandSpec => [](TypeOK /\ CommandTypeOK)
<1>1. Begin => Sizes /\ CommandTypeOK
  BY SizesInit, Named DEF Begin, CommandTypeOK
<1>2. Sound /\ Staged /\ Sizes /\ CommandTypeOK /\ [Run]_command => (Sizes /\ CommandTypeOK)'
  <2>1. [Run]_command => [Next]_vars
    BY DEF Run, command, CheckArguments, RefuseArguments, Analyse, Analysed, AnalysisFails,
           WriteReport, ReportFails, NoJava, CheckJava, RefuseJava, WriteJava, JavaFails, Exited,
           Next
  <2> QED BY <2>1, SizesStep, CommandTyped
<1>3. Sound /\ Sizes => TypeOK
  BY SizesTyped
<1> QED BY <1>1, <1>2, <1>3, Invariant, PTL DEF CommandSpec

\* A PE of any size costs at most one block over the limit to read and is accepted only
\* within it; only an archive that another process wrote to passes larger.
THEOREM LimitsHold == CommandSpec => []LimitUnlessArchiveGrew
<1>1. Sound => LimitUnlessArchiveGrew
  BY Limits DEF Sound, Typed, Quiet, Bounded, Complete, LimitUnlessArchiveGrew
<1> QED BY <1>1, Invariant, PTL

\* The size and the hash reported for a file nobody wrote to are those of the bytes
\* analysed, although it is opened twice.
THEOREM IdentityHolds == CommandSpec => []IdentityOfQuietInput
<1>1. Sound => IdentityOfQuietInput
  BY DEF Sound, Typed, Quiet, Hashed, Complete, IdentityOfQuietInput
<1> QED BY <1>1, Invariant, PTL

\* A payload that reaches the PE search is neither too large nor cut short.
THEOREM PayloadsWhole == CommandSpec => []PayloadWhole
<1>1. Sound => PayloadWhole
  BY DEF Sound, Typed, Whole, PayloadWhole
<1> QED BY <1>1, Invariant, PTL

\* With paths that name different files the input is never written and the products
\* are where the command line put them, whichever write fails.
THEOREM ProductsInPlace == CommandSpec => []OutputsInPlace
<1>1. Staged => OutputsInPlace
  <2> SUFFICES ASSUME Staged, stage # "exit", ~Aliased PROVE OutputsInPlace
    BY DEF Staged, OutputsInPlace
  <2>1. status = "running"
    BY DEF Staged
  <2>2. CASE stage \in {"arguments", "analysis", "report"}
    BY <2>1, <2>2, DiskUntouched, Named DEF Staged, OutputsInPlace
  <2>3. CASE stage \in {"java", "source"}
    <3>1. output \in Paths \ {Input} /\ disk = Reported /\ pc = "accepted"
      BY <2>3 DEF Staged
    <3>2. Node[output] # Node[Input]
      BY <3>1, Named DEF Aliased
    <3> QED BY <2>1, <3>1, <3>2, DiskReported DEF OutputsInPlace
  <2> QED BY <2>2, <2>3 DEF Staged
<1> QED BY <1>1, Invariant, PTL
=============================================================================
