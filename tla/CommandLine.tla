---------------------------- MODULE CommandLine ----------------------------
(***************************************************************************)
(* The analyze command (run in src/src/main.rs) around InputIntake: the     *)
(* argument checks, the analysis, the report and the optional Java source.  *)
(*                                                                          *)
(* The program compares paths as text.  Two paths may still name one file,  *)
(* by a link or another spelling: Node says which.                          *)
(***************************************************************************)
EXTENDS InputIntake

CONSTANTS
  Paths,   \* paths the command line may name
  Nodes,   \* the files they stand for
  Node,    \* which file each path names
  Input,   \* the path of the input
  NoPath   \* --java-output is not given

ASSUME PathsAssumption == /\ Input \in Paths /\ NoPath \notin Paths
                          /\ Node \in [Paths -> Nodes]

VARIABLES
  stage,   \* "arguments", "analysis", "report", "java", "source" or "exit"
  output,  \* --output
  java,    \* --java-output, drawn when it is first looked at
  disk,    \* what each file holds: "input", "old", "report", "source" or "cut"
  status   \* "running", "success" or "failure"

cli == <<stage, output, java, disk, status>>
command == <<vars, cli>>

Begin == /\ Init
         /\ stage = "arguments"
         /\ output = NoPath
         /\ java = NoPath
         /\ disk = [n \in Nodes |-> IF n = Node[Input] THEN "input" ELSE "old"]
         /\ status = "running"

Exit(s) == stage' = "exit" /\ status' = s

-----------------------------------------------------------------------------
\* The paths differ as text, no limit is zero and no product overflows.
CheckArguments == /\ stage = "arguments"
                  /\ output' \in Paths \ {Input}
                  /\ stage' = "analysis"
                  /\ UNCHANGED <<vars, java, disk, status>>

\* The output is the input, or one of the limits is refused with any output.
RefuseArguments == /\ stage = "arguments"
                   /\ output' \in Paths
                   /\ Exit("failure")
                   /\ UNCHANGED <<vars, java, disk>>

\* analyze_path; another process may write to the input all along.
Analyse == /\ stage = "analysis"
           /\ Intake \/ ExternalWrite
           /\ UNCHANGED cli

Analysed == /\ stage = "analysis"
            /\ pc = "accepted"
            /\ stage' = "report"
            /\ UNCHANGED <<vars, output, java, disk, status>>

\* The input was refused, or a later step of the analysis failed.
AnalysisFails == /\ stage = "analysis"
                 /\ pc \in {"accepted", "refused"}
                 /\ Exit("failure")
                 /\ UNCHANGED <<vars, output, java, disk>>

\* std::fs::write truncates and then fills the file.
Write(path, product) == disk' = [disk EXCEPT ![Node[path]] = product]

\* It fails before the file is opened or in the middle.
WriteFails(path) == disk' = disk \/ Write(path, "cut")

WriteReport == /\ stage = "report"
               /\ Write(output, "report")
               /\ stage' = "java"
               /\ UNCHANGED <<vars, output, java, status>>

ReportFails == /\ stage = "report"
               /\ WriteFails(output)
               /\ Exit("failure")
               /\ UNCHANGED <<vars, output, java>>

NoJava == /\ stage = "java"
          /\ Exit("success")
          /\ UNCHANGED <<vars, output, java, disk>>

\* Mutant of CheckJava: only the report is in the way.
CheckJavaOutput == /\ stage = "java"
                   /\ \E path \in Paths \ {output} : java' = path /\ stage' = "source"
                   /\ UNCHANGED <<vars, output, disk, status>>

\* `java_path != input && java_path != output', asked after the report is written.
CheckJava == /\ stage = "java"
             /\ \E path \in Paths \ {Input, output} : java' = path /\ stage' = "source"
             /\ UNCHANGED <<vars, output, disk, status>>

RefuseJava == /\ stage = "java"
              /\ \E path \in {Input, output} : java' = path
              /\ Exit("failure")
              /\ UNCHANGED <<vars, output, disk>>

WriteJava == /\ stage = "source"
             /\ Write(java, "source")
             /\ Exit("success")
             /\ UNCHANGED <<vars, output, java>>

JavaFails == /\ stage = "source"
             /\ WriteFails(java)
             /\ Exit("failure")
             /\ UNCHANGED <<vars, output, java>>

Exited == stage = "exit" /\ UNCHANGED command

Run == \/ CheckArguments \/ RefuseArguments
       \/ Analyse \/ Analysed \/ AnalysisFails
       \/ WriteReport \/ ReportFails
       \/ NoJava \/ CheckJava \/ RefuseJava \/ WriteJava \/ JavaFails
       \/ Exited

CommandSpec == Begin /\ [][Run]_command

-----------------------------------------------------------------------------
CommandTypeOK == /\ stage \in {"arguments", "analysis", "report", "java", "source", "exit"}
                 /\ output \in Paths \union {NoPath}
                 /\ java \in Paths \union {NoPath}
                 /\ disk \in [Nodes -> {"input", "old", "report", "source", "cut"}]
                 /\ status \in {"running", "success", "failure"}

\* A path the program was given under two spellings.
Aliased == \E p, q \in {Input, output, java} \ {NoPath} : p # q /\ Node[p] = Node[q]

\* As long as no two of the paths given name one file: the input is never written to,
\* success leaves the report and, if asked for, the Java source whole at their own
\* paths, and a report that stands on disk belongs to an input that was accepted,
\* whatever fails after it.
OutputsInPlace ==
  ~Aliased =>
    /\ disk[Node[Input]] = "input"
    /\ status = "success" =>
         disk[Node[output]] = "report" /\ (java # NoPath => disk[Node[java]] = "source")
    /\ (\E n \in Nodes : disk[n] = "report") => pc = "accepted"
=============================================================================
