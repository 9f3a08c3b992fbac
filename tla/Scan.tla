-------------------------------- MODULE Scan --------------------------------
(***************************************************************************)
(* What a scan promises (internal/engine/engine.go, Run): its detectors    *)
(* report and complain for a while, then one result is published.  The     *)
(* result grades every report, whatever the order they came in, holds      *)
(* every complaint, and is final.                                          *)
(***************************************************************************)
EXTENDS Grading

CONSTANTS
  Reports,    \* the findings that the detectors may report
  Complaint,  \* warnings
  NoResult

VARIABLES
  reported,   \* the findings reported so far
  complained, \* the warnings made so far
  result      \* what the scan published

vars == <<reported, complained, result>>

\* The verdict on every vendor that was reported.
Verdicts(F) ==
  [k \in {Key[f.vendor] : f \in F} |->
     LET about == {f \in F : Key[f.vendor] = k}
     IN  [confidence |-> Grade(about),
          contested  |-> \A f \in about : f.contested,
          labels     |-> UNION {f.labels : f \in about},
          evidence   |-> UNION {f.evidence : f \in about}]]

Init == reported = {} /\ complained = {} /\ result = NoResult

Report(f) ==
  /\ result = NoResult
  /\ reported' = reported \cup {f}
  /\ UNCHANGED <<complained, result>>

Complain(w) ==
  /\ result = NoResult
  /\ complained' = complained \cup {w}
  /\ UNCHANGED <<reported, result>>

Publish ==
  /\ result = NoResult
  /\ result' = [verdicts |-> Verdicts(reported), errors |-> complained]
  /\ UNCHANGED <<reported, complained>>

Next ==
  \/ \E f \in Reports : Report(f)
  \/ \E w \in Complaint : Complain(w)
  \/ Publish

Spec == Init /\ [][Next]_vars

=============================================================================
