-------------------------------- MODULE Vanity --------------------------------
(***************************************************************************)
(* The vanity detector (internal/detect/vanity.go).  Vendors give every    *)
(* tenant a name in a zone of theirs.  For each vendor the detector asks   *)
(* for two random names, to learn how the zone answers for a tenant that   *)
(* does not exist (baselineFingerprint in internal/detect/dns.go), then    *)
(* for every candidate, and takes another answer for a tenant.             *)
(*                                                                         *)
(* One goroutine per signature; a lookup may fail at any time, and the     *)
(* scan may be cancelled.  An answer is its fingerprint.                   *)
(***************************************************************************)
EXTENDS Naturals, Sequences, FiniteSets

CONSTANTS
  NumSigs,        \* the vanity signatures are 1 .. NumSigs, in order
  SigConfidence,  \* what a signature's match is worth
  Candidate,      \* names that the organisation may have taken
  Short,          \* those of shortCandidateLen characters or less
  CandidateLists, \* what the command line may list
  Address,        \* fingerprints of answers that carry records
  Zones,          \* how a vendor's zone may answer
  Parallel        \* signatures probed at a time (24 in the code)

Sig == 1 .. NumSigs
Confidence == {"low", "medium", "high"}

\* No such name; a name without a record of the type.
Nothing == {"NXDOMAIN", "EMPTY"}
Fingerprint == Address \cup Nothing

(***************************************************************************)
(* unknown is what a zone answers for names that nobody has, several       *)
(* fingerprints when the answers rotate; tenant[c] is what it answers for  *)
(* candidate c when c is a tenant, {} when it is not.                      *)
(***************************************************************************)
Zone == [unknown : SUBSET Fingerprint \ {{}}, tenant : [Candidate -> SUBSET Fingerprint]]

ASSUME VanityAssumption ==
  /\ NumSigs \in Nat /\ Parallel \in Nat \ {0}
  /\ SigConfidence \in [Sig -> Confidence]
  /\ Short \subseteq Candidate
  /\ CandidateLists \subseteq Seq(Candidate)
  /\ Zones \subseteq Zone

VARIABLES
  candidates,  \* the candidates of this scan, in order
  zone,        \* the zone of every signature
  pc,          \* where the goroutine of each signature is
  first,       \* what the first random name brought
  baseline,    \* what both did
  next,        \* the index of the candidate to try
  findings,    \* the findings reported
  warnings,    \* what the report warns of
  main,        \* "probing", "returned", or "failed" when Run returned an error
  cancelled    \* the context of the scan is done

local == <<pc, first, baseline, next>>
vars == <<candidates, zone, local, findings, warnings, main, cancelled>>

Init ==
  /\ candidates \in CandidateLists
  /\ zone \in [Sig -> Zones]
  /\ pc = [s \in Sig |-> "queued"]
  /\ first = [s \in Sig |-> "EMPTY"] /\ baseline = [s \in Sig |-> "EMPTY"]
  /\ next = [s \in Sig |-> 1]
  /\ findings = {} /\ warnings = {}
  /\ main = IF candidates = <<>> \/ Sig = {} THEN "returned" ELSE "probing"
  /\ cancelled = FALSE

-----------------------------------------------------------------------------
Goto(s, label) == pc' = [pc EXCEPT ![s] = label]

Warn(w) == warnings' = warnings \cup {w}

\* Mutant: a goroutine that ends keeps its place in the group.
ActiveForGood == {s \in Sig : pc[s] # "queued"}

Active == {s \in Sig : pc[s] \in {"first", "second", "trying"}}

\* The goroutines start in order, when the group has room.
Start(s) ==
  /\ main = "probing" /\ pc[s] = "queued"
  /\ \A r \in 1 .. s - 1 : pc[r] # "queued"
  /\ Cardinality(Active) < Parallel
  /\ Goto(s, "first")
  /\ UNCHANGED <<candidates, zone, first, baseline, next, findings, warnings, main, cancelled>>

ProbeFirst(s) ==
  /\ pc[s] = "first"
  /\ \E f \in zone[s].unknown : first' = [first EXCEPT ![s] = f]
  /\ Goto(s, "second")
  /\ UNCHANGED <<candidates, zone, baseline, next, findings, warnings, main, cancelled>>

ProbeSecond(s) ==
  /\ pc[s] = "second"
  /\ \E f \in zone[s].unknown :
       /\ f = first[s]
       /\ baseline' = [baseline EXCEPT ![s] = f]
  /\ Goto(s, "trying")
  /\ UNCHANGED <<candidates, zone, first, next, findings, warnings, main, cancelled>>

\* Mutant: a zone is left out without a word.
SkipQuietly(s) ==
  /\ pc[s] \in {"first", "second"}
  /\ Goto(s, "done")
  /\ UNCHANGED <<candidates, zone, first, baseline, next, findings, warnings, main, cancelled>>

\* The probes disagree, or one of them failed, which is reported in the same words.
SkipZone(s) ==
  /\ pc[s] \in {"first", "second"}
  /\ Warn(<<s, "inconsistent">>)
  /\ Goto(s, "done")
  /\ UNCHANGED <<candidates, zone, first, baseline, next, findings, main, cancelled>>

-----------------------------------------------------------------------------
Trying(s) == pc[s] = "trying" /\ next[s] <= Len(candidates) /\ ~cancelled

Advance(s) == next' = [next EXCEPT ![s] = @ + 1]

LookupFails(s) ==
  /\ Trying(s)
  /\ Warn(<<s, candidates[next[s]]>>)
  /\ Advance(s)
  /\ UNCHANGED <<candidates, zone, pc, first, baseline, findings, main, cancelled>>

\* Mutant: a wildcard answer proves as much as an answer where there was none.
GradeFlat(s, c) == [confidence |-> IF c \in Short THEN "medium" ELSE "high",
                    contested |-> c \in Short]

\* A short name shows that a tenant exists, not whose it is.
Graded(s, c) ==
  LET found == IF baseline[s] = "NXDOMAIN" THEN "high" ELSE SigConfidence[s]
  IN  [confidence |-> IF c \in Short /\ found = "high" THEN "medium" ELSE found,
       contested  |-> c \in Short]

\* What the network answers for a candidate.
Answers(s, c) == IF zone[s].tenant[c] # {} THEN zone[s].tenant[c] ELSE zone[s].unknown

\* Mutant: every name that exists is a tenant.
TellsExisting(s, f) == f \notin Nothing

Tells(s, f) == f \notin Nothing /\ f # baseline[s]

LookupEnds(s) ==
  LET c == candidates[next[s]] IN
  /\ Trying(s)
  /\ \E f \in Answers(s, c) :
       findings' = IF Tells(s, f)
                   THEN findings \cup {[sig |-> s, candidate |-> c, grade |-> Graded(s, c)]}
                   ELSE findings
  /\ Advance(s)
  /\ UNCHANGED <<candidates, zone, pc, first, baseline, warnings, main, cancelled>>

Finish(s) ==
  /\ pc[s] = "trying" /\ next[s] > Len(candidates)
  /\ Goto(s, "done")
  /\ UNCHANGED <<candidates, zone, first, baseline, next, findings, warnings, main, cancelled>>

Abort(s) ==
  /\ pc[s] = "trying" /\ next[s] <= Len(candidates) /\ cancelled
  /\ Goto(s, "aborted")
  /\ UNCHANGED <<candidates, zone, first, baseline, next, findings, warnings, main, cancelled>>

-----------------------------------------------------------------------------
\* errgroup.Wait: the first error, if any.
Wait ==
  /\ main = "probing"
  /\ \A s \in Sig : pc[s] \in {"done", "aborted"}
  /\ main' = IF \E s \in Sig : pc[s] = "aborted" THEN "failed" ELSE "returned"
  /\ UNCHANGED <<candidates, zone, local, findings, warnings, cancelled>>

Cancel ==
  /\ ~cancelled /\ main = "probing"
  /\ cancelled' = TRUE
  /\ UNCHANGED <<candidates, zone, local, findings, warnings, main>>

Probe(s) ==
  \/ Start(s) \/ ProbeFirst(s) \/ ProbeSecond(s) \/ SkipZone(s)
  \/ LookupFails(s) \/ LookupEnds(s) \/ Finish(s) \/ Abort(s)

Next == Wait \/ Cancel \/ \E s \in Sig : Probe(s)

Spec == Init /\ [][Next]_vars

\* Every lookup ends, so every goroutine goes on, and Run waits for all of them.
FairSpec == Spec /\ WF_vars(Wait) /\ \A s \in Sig : WF_vars(Probe(s))

-----------------------------------------------------------------------------
TypeOK ==
  /\ candidates \in CandidateLists
  /\ zone \in [Sig -> Zones]
  /\ pc \in [Sig -> {"queued", "first", "second", "trying", "done", "aborted"}]
  /\ first \in [Sig -> Fingerprint] /\ baseline \in [Sig -> Fingerprint]
  /\ \A s \in Sig : next[s] \in 1 .. Len(candidates) + 1
  /\ \A f \in findings : /\ f.sig \in Sig /\ f.candidate \in Candidate
                         /\ f.grade \in [confidence : Confidence, contested : BOOLEAN]
  /\ warnings \subseteq Sig \X (Candidate \cup {"inconsistent"})
  /\ main \in {"probing", "returned", "failed"} /\ cancelled \in BOOLEAN

IsTenant(s, c) == zone[s].tenant[c] # {}

Wildcarded(s) == "NXDOMAIN" \notin zone[s].unknown

\* A vendor that answers for every name, or in turns, does not make tenants up:
\* a candidate of which nobody is a tenant is reported only when the answers
\* rotate and both probes agreed by chance.
NoPhantoms ==
  \A f \in findings :
    \/ IsTenant(f.sig, f.candidate)
    \/ /\ \E a, b \in zone[f.sig].unknown : a # b
       /\ first[f.sig] = baseline[f.sig]

\* High is proof: where the zone answers for every name, the signature vouches for
\* it, and a name that another organisation may have taken first is never proof.
HighIsProof ==
  \A f \in findings :
    f.grade.confidence = "high" =>
      /\ Wildcarded(f.sig) => SigConfidence[f.sig] = "high"
      /\ ~f.grade.contested /\ f.candidate \notin Short

\* A partial probe says so: when the detector returns without an error, every
\* candidate that has a tenant whose answer can be told from a stranger's is
\* reported, or a warning stands for its lookup or for its whole zone.
Accounted ==
  main = "returned" =>
    \A s \in Sig, i \in DOMAIN candidates :
      LET c    == candidates[i]
          tell == zone[s].tenant[c] \ (zone[s].unknown \cup Nothing)
      IN  tell # {} /\ tell = zone[s].tenant[c] =>
            \/ \E f \in findings : f.sig = s /\ f.candidate = c
            \/ <<s, c>> \in warnings \/ <<s, "inconsistent">> \in warnings

\* The detector returns, and fails only when the scan was cancelled.
Returns == <>(main = "returned" \/ (main = "failed" /\ cancelled))

=============================================================================
