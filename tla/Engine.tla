------------------------------- MODULE Engine -------------------------------
(***************************************************************************)
(* The engine (internal/engine/engine.go, Run): one goroutine per          *)
(* detector, the worker goroutines some of them start, a bounded channel   *)
(* for findings and one for warnings, and a collector at the end of each.  *)
(*                                                                         *)
(* What a detector looks for is left out: a detector or a worker sends     *)
(* some findings and some warnings, then returns, returns an error or      *)
(* panics.  A goroutine that sends does nothing else until there is room.  *)
(***************************************************************************)
EXTENDS FindingSet

CONSTANTS
  Detector,     \* the detectors of the scan
  Worker,       \* the goroutines they start
  Owner,        \* Owner[w]: the detector that starts w and waits for it
  Complaint,    \* warnings
  ErrorOf,      \* ErrorOf[d]: the warning made of d's error
  PanicOf,      \* PanicOf[d]: the warning made of d's panic
  Capacity,     \* room in each channel (256 in the code)
  MaxSends,     \* bound: messages each goroutine sends
  NoComplaint, NoResult

ASSUME EngineAssumption ==
  /\ Owner \in [Worker -> Detector]
  /\ Detector \cap Worker = {}
  /\ ErrorOf \in [Detector -> Complaint] /\ PanicOf \in [Detector -> Complaint]
  /\ NoComplaint \notin Complaint
  /\ Capacity \in Nat \ {0} /\ MaxSends \in Nat

VARIABLES
  main,        \* where Run is
  state,       \* where every detector and worker is
  held,        \* the message that a goroutine is sending, if any
  failure,     \* the warning a failed detector has to send
  findings, warnings,      \* the channels
  closed,      \* both channels are closed
  errors,      \* result.Errors, without duplicates
  collecting,  \* the collectors that still run
  crashed,     \* a panic nobody recovers ended the process
  sends,       \* messages left to each goroutine, to bound the model
  reported, complained, failed  \* history: what was sent, and who failed

channels == <<findings, warnings>>
collected == <<byVendor, order, added, errors>>
history == <<reported, complained, failed>>
evars == <<main, state, held, failure, channels, closed, collected, collecting, crashed, sends,
           history>>

Goroutine == Detector \cup Worker

WorkersOf(d) == {w \in Worker : Owner[w] = d}

EngineInit ==
  /\ Init
  /\ main = "spawning"
  /\ state = [g \in Goroutine |-> "unborn"]
  /\ held = [g \in Goroutine |-> {}]
  /\ failure = [d \in Detector |-> NoComplaint]
  /\ findings = <<>> /\ warnings = <<>>
  /\ closed = FALSE
  /\ errors = {}
  /\ collecting = {"findings", "warnings"}
  /\ crashed = FALSE
  /\ sends = [g \in Goroutine |-> MaxSends]
  /\ reported = {} /\ complained = {} /\ failed = {}

-----------------------------------------------------------------------------
(***************************************************************************)
(* A detector runs, possibly fans out to workers and waits for them, and   *)
(* goes on by itself.                                                      *)
(***************************************************************************)
Becomes(g, s) == state' = [state EXCEPT ![g] = s]

Message == [to : {"findings"}, body : Reports] \cup [to : {"warnings"}, body : Complaint]

\* The code of g is executing: a detector that waits for its workers is not, nor is a
\* goroutine that waits for room in a channel.
Active(g) == ~crashed /\ state[g] \in {"running", "joined"} /\ held[g] = {}

\* s.Emit or s.Warn is called.
Send(g) ==
  /\ Active(g) /\ sends[g] > 0
  /\ \E m \in Message : held' = [held EXCEPT ![g] = {m}]
  /\ sends' = [sends EXCEPT ![g] = @ - 1]
  /\ UNCHANGED <<main, state, failure, channels, closed, collected, collecting, crashed,
                 history>>

Room(channel) == Len(channel) < Capacity

Emit(g) ==
  /\ ~crashed /\ Room(findings)
  /\ \E m \in held[g] : /\ m.to = "findings"
                       /\ findings' = Append(findings, m.body)
                       /\ reported' = reported \cup {m.body}
  /\ held' = [held EXCEPT ![g] = {}]
  /\ UNCHANGED <<main, state, failure, warnings, closed, collected, collecting, crashed, sends,
                 complained, failed>>

Warn(g) ==
  /\ ~crashed /\ Room(warnings)
  /\ \E m \in held[g] : /\ m.to = "warnings"
                       /\ warnings' = Append(warnings, m.body)
                       /\ complained' = complained \cup {m.body}
  /\ held' = [held EXCEPT ![g] = {}]
  /\ UNCHANGED <<main, state, failure, findings, closed, collected, collecting, crashed, sends,
                 reported, failed>>

\* errgroup.Go for every task, then Wait.
FanOut(d) ==
  /\ Active(d) /\ state[d] = "running" /\ WorkersOf(d) # {}
  /\ state' = [g \in Goroutine |-> IF g = d THEN "fanned"
                                   ELSE IF g \in WorkersOf(d) THEN "running" ELSE state[g]]
  /\ UNCHANGED <<main, held, failure, channels, closed, collected, collecting, crashed, sends,
                 history>>

Join(d) ==
  /\ ~crashed /\ state[d] = "fanned"
  /\ \A w \in WorkersOf(d) : state[w] = "done"
  /\ Becomes(d, "joined")
  /\ UNCHANGED <<main, held, failure, channels, closed, collected, collecting, crashed, sends,
                 history>>

Return(g) ==
  /\ Active(g)
  /\ Becomes(g, "done")
  /\ UNCHANGED <<main, held, failure, channels, closed, collected, collecting, crashed, sends,
                 history>>

\* An error returned by Run, or a panic recovered above it, becomes a warning.
Fail(d) ==
  /\ Active(d)
  /\ Becomes(d, "failing")
  /\ \E c \in {ErrorOf[d], PanicOf[d]} : failure' = [failure EXCEPT ![d] = c]
  /\ failed' = failed \cup {d}
  /\ UNCHANGED <<main, held, channels, closed, collected, collecting, crashed, sends, reported,
                 complained>>

SendFailure(d) ==
  /\ ~crashed /\ state[d] = "failing" /\ Room(warnings)
  /\ warnings' = Append(warnings, failure[d])
  /\ complained' = complained \cup {failure[d]}
  /\ Becomes(d, "done")
  /\ UNCHANGED <<main, held, failure, findings, closed, collected, collecting, crashed, sends,
                 reported, failed>>

\* Nothing recovers the panic of a goroutine that a detector started.
WorkerPanic(w) ==
  /\ Active(w)
  /\ crashed' = TRUE
  /\ UNCHANGED <<main, state, held, failure, channels, closed, collected, collecting, sends,
                 history>>

-----------------------------------------------------------------------------
(***************************************************************************)
(* The collectors range over their channel until it is closed and empty.   *)
(***************************************************************************)
\* Mutant: one collector, which turns to the findings when the warnings end.
CollectFindingLater ==
  /\ ~crashed /\ collecting = {"findings"} /\ findings # <<>>
  /\ Add(Head(findings))
  /\ findings' = Tail(findings)
  /\ UNCHANGED <<main, state, held, failure, warnings, closed, errors, collecting, crashed, sends,
                 history>>

CollectFinding ==
  /\ ~crashed /\ "findings" \in collecting /\ findings # <<>>
  /\ Add(Head(findings))
  /\ findings' = Tail(findings)
  /\ UNCHANGED <<main, state, held, failure, warnings, closed, errors, collecting, crashed, sends,
                 history>>

CollectWarning ==
  /\ ~crashed /\ "warnings" \in collecting /\ warnings # <<>>
  /\ errors' = errors \cup {Head(warnings)}
  /\ warnings' = Tail(warnings)
  /\ UNCHANGED <<main, state, held, failure, findings, closed, byVendor, order, added, collecting,
                 crashed, sends, history>>

\* Mutant: the collector stops when the channel is closed, whatever is in it.
CollectorStops(channel, queue) ==
  /\ ~crashed /\ channel \in collecting /\ closed
  /\ collecting' = collecting \ {channel}
  /\ UNCHANGED <<main, state, held, failure, channels, closed, collected, crashed, sends, history>>

CollectorDone(channel, queue) ==
  /\ ~crashed /\ channel \in collecting /\ closed /\ queue = <<>>
  /\ collecting' = collecting \ {channel}
  /\ UNCHANGED <<main, state, held, failure, channels, closed, collected, crashed, sends, history>>

-----------------------------------------------------------------------------
Spawn(d) ==
  /\ ~crashed /\ main = "spawning" /\ state[d] = "unborn"
  /\ Becomes(d, "running")
  /\ main' = IF \A e \in Detector \ {d} : state[e] # "unborn" THEN "waiting" ELSE main
  /\ UNCHANGED <<held, failure, channels, closed, collected, collecting, crashed, sends, history>>

\* Mutant: Done is called before the error is sent.
DetectorsEnded == \A d \in Detector : state[d] \in {"failing", "done"}

DetectorsReturned == \A d \in Detector : state[d] = "done"

\* detectorsWG.Wait, then close both channels.
CloseChannels ==
  /\ ~crashed /\ main = "waiting"
  /\ DetectorsReturned
  /\ closed' = TRUE
  /\ main' = "closed"
  /\ UNCHANGED <<state, held, failure, channels, collected, collecting, crashed, sends, history>>

\* Mutant: the result is assembled while the collectors run.
ReturnAtOnce ==
  /\ ~crashed /\ main = "closed"
  /\ main' = "returned"
  /\ UNCHANGED <<state, held, failure, channels, closed, collected, collecting, crashed, sends,
                 history>>

\* collector.Wait, then the result is assembled and returned.
ReturnResult ==
  /\ ~crashed /\ main = "closed" /\ collecting = {}
  /\ main' = "returned"
  /\ UNCHANGED <<state, held, failure, channels, closed, collected, collecting, crashed, sends,
                 history>>

DetectorStep(d) ==
  \/ Send(d) \/ Emit(d) \/ Warn(d)
  \/ FanOut(d) \/ Join(d) \/ Return(d) \/ Fail(d) \/ SendFailure(d)

WorkerStep(w) == Send(w) \/ Emit(w) \/ Warn(w) \/ Return(w)

Collect ==
  \/ CollectFinding \/ CollectorDone("findings", findings)
  \/ CollectWarning \/ CollectorDone("warnings", warnings)

MainStep == (\E d \in Detector : Spawn(d)) \/ CloseChannels \/ ReturnResult

EngineNext ==
  \/ MainStep \/ Collect
  \/ \E d \in Detector : DetectorStep(d)
  \/ \E w \in Worker : WorkerStep(w) \/ WorkerPanic(w)

EngineSpec == EngineInit /\ [][EngineNext]_evars

\* Every goroutine is scheduled: timeouts end every lookup and request, so a
\* detector or worker that runs goes on, and Run and the collectors do.
Fairness ==
  /\ WF_evars(MainStep)
  /\ WF_evars(CollectFinding \/ CollectorDone("findings", findings))
  /\ WF_evars(CollectWarning \/ CollectorDone("warnings", warnings))
  /\ \A d \in Detector : WF_evars(DetectorStep(d))
  /\ \A w \in Worker : WF_evars(WorkerStep(w))

FairEngine == EngineSpec /\ Fairness

-----------------------------------------------------------------------------
EngineTypeOK ==
  /\ TypeOK
  /\ main \in {"spawning", "waiting", "closed", "returned"}
  /\ state \in [Goroutine -> {"unborn", "running", "fanned", "joined", "failing", "done"}]
  /\ held \in [Goroutine -> SUBSET Message] /\ \A g \in Goroutine : Cardinality(held[g]) <= 1
  /\ failure \in [Detector -> Complaint \cup {NoComplaint}]
  /\ findings \in Seq(Reports) /\ Len(findings) <= Capacity
  /\ warnings \in Seq(Complaint) /\ Len(warnings) <= Capacity
  /\ closed \in BOOLEAN /\ crashed \in BOOLEAN
  /\ errors \subseteq Complaint
  /\ collecting \subseteq {"findings", "warnings"}
  /\ sends \in [Goroutine -> 0 .. MaxSends]
  /\ reported \subseteq Reports /\ complained \subseteq Complaint /\ failed \subseteq Detector

\* Nobody can send on a closed channel, which would panic: when the channels are
\* closed every detector has returned, and so has every worker it ever started.
SendersGone ==
  closed => \A g \in Goroutine : /\ state[g] \notin {"running", "fanned", "joined", "failing"}
                                  /\ held[g] = {}

\* A partial answer says which parts are missing: every detector that failed left
\* its warning in the result, panics included.
FailureReported ==
  main = "returned" => \A d \in failed : {ErrorOf[d], PanicOf[d]} \cap errors # {}

\* Run's result is that of a scan: nothing that was sent is missing from it, the
\* interleaving of the detectors does not show in it, and it is final.
Verdict(k) == [confidence |-> byVendor[k].confidence, contested |-> byVendor[k].contested,
               labels |-> byVendor[k].labels, evidence |-> byVendor[k].evidence]

Published ==
  INSTANCE Scan WITH
    result <- IF main = "returned"
              THEN [verdicts |-> [k \in DOMAIN byVendor |-> Verdict(k)], errors |-> errors]
              ELSE NoResult

ImplementsScan == Published!Spec

\* Run returns, whatever the detectors send and however they end: a goroutine that
\* waits for room, in either channel, does not wait for good.
RunReturns == <>(main = "returned" \/ crashed)

\* A documented rule (engine.go): a panic in a detector does not take down a scan.
PanicContained == ~crashed

=============================================================================
