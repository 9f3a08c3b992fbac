------------------------------- MODULE Session -------------------------------
(***************************************************************************)
(* One run of the command (cmd/yowie/main.go, run): packs are loaded, the  *)
(* command is checked, the output is opened, the signal handler is armed,  *)
(* the engine runs the detectors, and the report is written.  A signal and *)
(* the deadline of the scan may come at any time.                          *)
(***************************************************************************)
EXTENDS Posture, Selection

CONSTANTS
  Commands,     \* command lines, with the environment they run in
  Packs,        \* Packs[d]: the packs of a directory, <<>> when it cannot be read
  Embedded,     \* the directory built into the program
  NoDirectory,  \* no directory given
  Clean,        \* Clean[a]: the candidate written as a, trimmed and in lower case
  FormatOf      \* FormatOf[f]: the format f in lower case

ASSUME SessionAssumption ==
  /\ Embedded \in DOMAIN Packs /\ \A d \in DOMAIN Packs : Packs[d] \in Seq(Pack)
  /\ \A c \in Commands :
       /\ {c.sigDir, c.envDir} \subseteq DOMAIN Packs \cup {NoDirectory}
       /\ \A option \in {c.only, c.skip} :
            option \in Option /\ (~option.given => option.names = <<>>)

(***************************************************************************)
(* A command: mode is what it asks for ("malformed" when the flags do not  *)
(* parse); given says whether a domain is there ("missing", "blank", "yes");*)
(* args are the candidates between blanks and commas; file says that -o    *)
(* names a file; timed that -timeout is not 0.                             *)
(***************************************************************************)
VARIABLES
  command,
  phase,    \* where run is
  load,     \* what the packs came to
  handler,  \* of SIGINT and SIGTERM: "default", "armed", "spent"
  result,   \* what engine.Run returned
  output,   \* the output file: "untouched", "empty", "partial", "complete"
  shown,    \* the report: its findings, the warnings it lists and how many it owns up to
  exit      \* how the process ended: NoExit, Killed, 0 or 1

main == <<command, phase, load, handler, result, output, shown, exit>>
vars == <<main, pvars>>

NoExit == -1
Killed == 130
NoResult == [findings |-> {}, errors |-> {}]
NoReport == [findings |-> {}, listed |-> {}, counted |-> 0]

Exit(code) == phase' = "ended" /\ exit' = code

Init ==
  /\ command \in Commands /\ phase = "parsed" /\ load = EmptyLoad /\ handler = "default"
  /\ result = NoResult /\ output = "untouched" /\ shown = NoReport /\ exit = NoExit
  /\ scan = Idle /\ pc = <<>> /\ pending = <<>> /\ tenantID = <<>> /\ answer = <<>>
  /\ reports = {} /\ warnings = {} /\ cancelled = FALSE /\ seen = {}

-----------------------------------------------------------------------------
\* Flags that do not parse are complained of, with status 0.
Leave ==
  /\ phase = "parsed" /\ command.mode \in {"malformed", "version"}
  /\ Exit(0)
  /\ UNCHANGED <<command, load, handler, result, output, shown, pvars>>

\* An explicit directory, then the environment's, then the built-in one.
Directory ==
  IF command.sigDir # NoDirectory THEN command.sigDir
  ELSE IF command.envDir # NoDirectory THEN command.envDir ELSE Embedded

LoadSignatures ==
  /\ phase = "parsed" /\ command.mode \in {"validate", "scan"}
  /\ load' = LoadFS(Packs[Directory])
  /\ IF load'.failed THEN Exit(1) ELSE phase' = "loaded" /\ UNCHANGED exit
  /\ UNCHANGED <<command, handler, result, output, shown, pvars>>

\* -validate prints the signatures and the parked ones.
Validate ==
  /\ phase = "loaded" /\ command.mode = "validate"
  /\ Exit(0)
  /\ UNCHANGED <<command, load, handler, result, output, shown, pvars>>

\* Each candidate once, and the first label of a domain with a dot without any.
DedupeCandidates ==
  LET named == {Clean[command.args[i]] : i \in DOMAIN command.args} \ {<<>>}
  IN  IF named # {} THEN named
      ELSE IF command.given = "yes" /\ Len(Domain) > 1 THEN {<<Domain[1]>>} ELSE {}

Refused ==
  command.given = "missing" \/ Selected(command.only, command.skip) = NoDetectors

Check ==
  /\ phase = "loaded" /\ command.mode = "scan"
  /\ IF Refused THEN Exit(1) ELSE phase' = "checked" /\ UNCHANGED exit
  /\ UNCHANGED <<command, load, handler, result, output, shown, pvars>>

\* os.Create empties the file, or fails.
OpenOutput ==
  /\ phase = "checked"
  /\ \/ phase' = "opened" /\ output' = "empty" /\ UNCHANGED exit
     \/ command.file /\ Exit(1) /\ UNCHANGED output
  /\ UNCHANGED <<command, load, handler, result, shown, pvars>>

NotifySignals ==
  /\ phase = "opened"
  /\ handler' = "armed" /\ phase' = "armed"
  /\ UNCHANGED <<command, load, result, output, shown, exit, pvars>>

-----------------------------------------------------------------------------
Config ==
  [sigs          |-> load.sigs,
   candidates    |-> DedupeCandidates,
   detectors     |-> Running(Selected(command.only, command.skip)),
   reportUnknown |-> command.reportUnknown]

\* engine.Run refuses an empty domain, and starts the detectors otherwise.
StartScan ==
  /\ phase = "armed"
  /\ IF command.given = "blank"
     THEN Exit(1) /\ UNCHANGED pvars
     ELSE /\ phase' = "scanning" /\ Launch(Config)
          /\ UNCHANGED <<answer, reports, warnings, cancelled, seen, exit>>
  /\ UNCHANGED <<command, load, handler, result, output, shown>>

DetectorsStep ==
  /\ phase = "scanning"
  /\ \E i \in Instance : DetectorStep(i)
  /\ UNCHANGED main

\* Mutant: the error that the interrupted context leaves ends the command.
ReturnUninterrupted ==
  /\ phase = "scanning" /\ DetectorsDone
  /\ IF cancelled THEN Exit(1) ELSE phase' = "reporting" /\ UNCHANGED exit
  /\ result' = [findings |-> reports, errors |-> warnings]
  /\ UNCHANGED <<command, load, handler, output, shown, pvars>>

\* What Scan promises of the reports and complaints; an error of the context is passed over.
Return ==
  /\ phase = "scanning" /\ DetectorsDone
  /\ phase' = "reporting"
  /\ result' = [findings |-> reports, errors |-> warnings]
  /\ UNCHANGED <<command, load, handler, output, shown, exit, pvars>>

Format == FormatOf[command.format]

\* jsonl, csv and the compact form have no place for warnings.
Listing ==
  Format \in {"json", "html"} \/ (Format = "cli" /\ ~command.compact /\ command.showWarnings)

\* Without -warnings the terminal report counts them.
Counting == Listing \/ (Format = "cli" /\ ~command.compact)

ReportOf ==
  [findings |-> result.findings,
   listed   |-> IF Listing THEN result.errors ELSE {},
   counted  |-> IF Counting THEN Cardinality(result.errors) ELSE 0]

\* Which exit codes a failed write may lead to: CLI drops the error, and CSV one
\* that the final flush meets.
ExitOfFailure ==
  CASE Format = "cli" -> {0} [] Format = "csv" -> {0, 1} [] OTHER -> {1}

Render ==
  /\ phase = "reporting"
  /\ \/ /\ Format \notin {"cli", "json", "jsonl", "csv", "html"}
        /\ Exit(1) /\ UNCHANGED <<output, shown>>
     \/ /\ Format \in {"cli", "json", "jsonl", "csv", "html"}
        /\ output' = "complete" /\ shown' = ReportOf /\ Exit(0)
     \/ /\ Format \in {"cli", "json", "jsonl", "csv", "html"}
        /\ output' = "partial" /\ UNCHANGED shown
        /\ \E code \in ExitOfFailure : Exit(code)
  /\ UNCHANGED <<command, load, handler, result, pvars>>

-----------------------------------------------------------------------------
\* The handler takes one signal; later ones go to a channel that nobody reads.
Interrupt ==
  /\ phase # "ended" /\ handler # "spent"
  /\ \/ /\ handler = "default" /\ Exit(Killed)
        /\ UNCHANGED <<handler, cancelled>>
     \/ /\ handler = "armed"
        /\ handler' = "spent" /\ cancelled' = TRUE
        /\ UNCHANGED <<phase, exit>>
  /\ UNCHANGED <<command, load, result, output, shown, scan, detectors, answer, reports,
                 warnings, seen>>

Expire ==
  /\ command.timed /\ phase \in {"armed", "scanning"} /\ ~cancelled
  /\ cancelled' = TRUE
  /\ UNCHANGED <<main, scan, detectors, answer, reports, warnings, seen>>

Step ==
  \/ Leave \/ LoadSignatures \/ Validate \/ Check \/ OpenOutput \/ NotifySignals
  \/ StartScan \/ DetectorsStep \/ Return \/ Render

Next == Step \/ Interrupt \/ Expire

\* The main goroutine and the detectors are scheduled; users and clocks need not act.
Spec == Init /\ [][Next]_vars /\ WF_vars(Step)

-----------------------------------------------------------------------------
TypeOK ==
  /\ command \in Commands
  /\ phase \in {"parsed", "loaded", "checked", "opened", "armed", "scanning", "reporting", "ended"}
  /\ handler \in {"default", "armed", "spent"} /\ exit \in {NoExit, Killed, 0, 1}
  /\ output \in {"untouched", "empty", "partial", "complete"} /\ cancelled \in BOOLEAN

\* Loading a directory, which stops at the first error and carries the ids seen
\* along, takes exactly the sound ones, and of them exactly the enabled signatures,
\* normalised; the parked ones are checked and take their ids like the others
\* (internal/signature/load.go).
LoadExact ==
  LET packs == Packs[Directory]
      sound == packs # <<>> /\ Sound(packs)
  IN  /\ phase = "loaded" =>
           /\ sound
           /\ ToSet(load.sigs) = Enabled(packs) /\ Len(load.sigs) = Cardinality(Enabled(packs))
           /\ ToSet(load.disabled) = Parked(packs)
      /\ load.failed => ~sound

\* The flags decide which detectors run: those that -only lists, or, without it, all
\* but those that -skip lists.  An empty remainder means all (engine.go, Run).
FlagsDecide ==
  LET only == command.only
      skip == command.skip
      running == {scan.detectors[i] : i \in Instance}
  IN  phase \in {"scanning", "reporting"} =>
        /\ only.given => Known(only) /\ (only.names # <<>> => running = ToSet(only.names))
        /\ ~only.given =>
             /\ skip.given => Known(skip)
             /\ ~(Detectors \subseteq ToSet(skip.names)) => running = Detectors \ ToSet(skip.names)

\* main.go:92, "skip these detectors": what the user asked to skip does not run.
SkippedNeverRuns ==
  ~command.only.given => \A i \in Instance : scan.detectors[i] \notin ToSet(command.skip.names)

\* main.go:200-201: "Ctrl-C cancels the scan but still reports whatever was found".
\* A signal or the deadline never costs a finding: the command does not end without
\* a report once something was found, unless it cannot be written.
FoundIsShown ==
  exit # NoExit /\ reports # {} =>
    \/ shown.findings = reports
    \/ output = "partial"
    \/ Format \notin {"cli", "json", "jsonl", "csv", "html"}

\* detect.go:73-74: warnings appear in the report "so that a partial scan is never
\* mistaken for a complete one".  A question of dns or dmarc that never got an answer, a
\* policy of mta-sts that was announced and not fetched and a tenant that could not be asked
\* for its id are listed, or at least counted, by every report with a place for warnings.
\* The other losses of Posture leave no warning: those of bimi, of the mta-sts record and
\* of the tenant's realm and domains.
LoudQuestions(i) ==
  CASE scan.detectors[i] = "dns" -> {<<"dns", g>> : g \in Groups(scan)}
    [] scan.detectors[i] = "dmarc" -> {<<"dmarc", <<"txt", DmarcName>>>>}
    [] OTHER -> {}

Lost ==
  {q \in UNION {LoudQuestions(i) : i \in Instance} : q[2] \notin DOMAIN answer}
  \cup {<<"mta-sts", StsName>> : s \in {t \in seen : t[1] = "policy" /\ Kind(t[2]) # "ok"}}
  \cup {<<"tenant", Domain>> : s \in {t \in seen : t[1] = "openid" /\ t[2] = Failed}}

LossTold ==
  output = "complete" /\ Counting =>
    /\ Listing => Lost \subseteq shown.listed
    /\ shown.counted >= Cardinality(Lost)

\* Every command ends, whatever the network does and whoever interrupts it.
Ends == <>(phase = "ended")

=============================================================================
