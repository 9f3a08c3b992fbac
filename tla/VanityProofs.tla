----------------------------- MODULE VanityProofs -----------------------------
(***************************************************************************)
(* Theorems about Vanity, for any signatures, candidates and zones, and    *)
(* however many goroutines run at a time.                                  *)
(***************************************************************************)
EXTENDS Vanity, TLAPS

\* Both probes brought this answer, which is one that nobody's name gets.
Learnt(s) == first[s] = baseline[s] /\ baseline[s] \in zone[s].unknown

\* What a finding rests on.
Supported(f) ==
  /\ f.sig \in Sig /\ f.candidate \in Candidate
  /\ pc[f.sig] \in {"trying", "done", "aborted"} /\ Learnt(f.sig)
  /\ f.grade = Graded(f.sig, f.candidate)
  /\ \E a \in Answers(f.sig, f.candidate) : Tells(f.sig, a)

\* The answers of this tenant all differ from a stranger's.
Tellable(s, i) ==
  /\ zone[s].tenant[candidates[i]] # {}
  /\ \A a \in zone[s].tenant[candidates[i]] : a \notin zone[s].unknown \cup Nothing

\* Such a tenant is reported or warned of.
Settled(s, i) ==
  Tellable(s, i) =>
    \/ \E f \in findings : f.sig = s /\ f.candidate = candidates[i]
    \/ <<s, candidates[i]>> \in warnings \/ <<s, "inconsistent">> \in warnings

Types ==
  /\ candidates \in Seq(Candidate)
  /\ zone \in [Sig -> Zones]
  /\ pc \in [Sig -> {"queued", "first", "second", "trying", "done", "aborted"}]
  /\ DOMAIN first = Sig /\ DOMAIN baseline = Sig
  /\ next \in [Sig -> Nat \ {0}]

ProbeInv(s) ==
  /\ pc[s] = "second" => first[s] \in zone[s].unknown
  /\ pc[s] = "trying" => Learnt(s)
  /\ pc[s] \in {"queued", "first", "second"} => next[s] = 1
  /\ \A i \in DOMAIN candidates : i < next[s] => Settled(s, i)
  /\ pc[s] = "done" => <<s, "inconsistent">> \in warnings \/ next[s] > Len(candidates)

VanityInv ==
  /\ Types
  /\ \A s \in Sig : ProbeInv(s)
  /\ \A f \in findings : Supported(f)
  /\ main = "returned" => candidates = <<>> \/ \A s \in Sig : pc[s] = "done"

LEMMA InitVanityInv == Init => VanityInv
<1> SUFFICES ASSUME Init PROVE VanityInv
  OBVIOUS
<1>1. Types
  BY VanityAssumption DEF Init, Types
<1>2. \A s \in Sig : ProbeInv(s)
  <2>1. \A i \in DOMAIN candidates : ~(i < 1)
    BY <1>1 DEF Types
  <2> QED
    BY <2>1 DEF Init, ProbeInv
<1> QED
  BY <1>1, <1>2 DEF Init, VanityInv

LEMMA CandidateType ==
  ASSUME Types, NEW s \in Sig, next[s] <= Len(candidates)
  PROVE  candidates[next[s]] \in Candidate /\ next[s] \in DOMAIN candidates
BY DEF Types

\* Nothing that is said is taken back.
LEMMA StaysSettled ==
  ASSUME UNCHANGED <<candidates, zone>>, findings \subseteq findings', warnings \subseteq warnings',
         NEW s, NEW i, Settled(s, i)
  PROVE  Settled(s, i)'
BY DEF Settled, Tellable

\* A step of one goroutine that adds no finding.
LEMMA QuietStep ==
  ASSUME VanityInv, NEW s \in Sig, Types', ProbeInv(s)',
         UNCHANGED <<candidates, zone, findings, main>>, warnings \subseteq warnings',
         main = "returned" => pc[s] # "done",
         pc[s] \in {"trying", "done", "aborted"} =>
           /\ pc'[s] \in {"trying", "done", "aborted"}
           /\ first'[s] = first[s] /\ baseline'[s] = baseline[s],
         \A r \in Sig : r # s => /\ pc'[r] = pc[r] /\ first'[r] = first[r]
                                 /\ baseline'[r] = baseline[r] /\ next'[r] = next[r],
         main # "returned" \/ candidates = <<>>
  PROVE  VanityInv'
<1>1. ASSUME NEW r \in Sig, r # s PROVE ProbeInv(r)'
  <2>1. \A i \in DOMAIN candidates : i < next[r] => Settled(r, i)'
    BY StaysSettled DEF VanityInv, ProbeInv
  <2> QED
    BY <1>1, <2>1 DEF VanityInv, ProbeInv, Learnt
<1>2. ASSUME NEW f \in findings PROVE Supported(f)'
  <2>1. Supported(f)
    BY DEF VanityInv
  <2>2. /\ pc'[f.sig] \in {"trying", "done", "aborted"}
        /\ first'[f.sig] = first[f.sig] /\ baseline'[f.sig] = baseline[f.sig]
    BY <2>1 DEF Supported
  <2> QED
    BY <2>1, <2>2 DEF Supported, Learnt, Graded, Answers, Tells
<1> QED
  BY <1>1, <1>2 DEF VanityInv

LEMMA BeginVanityInv ==
  ASSUME VanityInv, NEW s \in Sig,
         Start(s) \/ ProbeFirst(s) \/ ProbeSecond(s) \/ SkipZone(s) \/ Finish(s) \/ Abort(s)
  PROVE  VanityInv'
<1> USE DEF VanityInv, Types
<1>0. /\ UNCHANGED <<candidates, zone, findings, main, next>> /\ warnings \subseteq warnings'
      /\ pc[s] # "done" /\ (main # "returned" \/ candidates = <<>>)
      /\ \A r \in Sig : r # s => /\ pc'[r] = pc[r] /\ first'[r] = first[r]
                                 /\ baseline'[r] = baseline[r]
  BY DEF Start, ProbeFirst, ProbeSecond, SkipZone, Finish, Abort, Goto, Warn
<1>1. Types'
  BY <1>0 DEF Start, ProbeFirst, ProbeSecond, SkipZone, Finish, Abort, Goto
<1>2. /\ pc[s] \notin {"done", "aborted"}
      /\ pc[s] = "trying" => /\ pc'[s] \in {"done", "aborted"}
                             /\ first'[s] = first[s] /\ baseline'[s] = baseline[s]
  BY DEF Start, ProbeFirst, ProbeSecond, SkipZone, Finish, Abort, Goto
<1>3. ProbeInv(s)'
  <2>1. \A i \in DOMAIN candidates : i < next[s] => Settled(s, i)'
    BY <1>0, StaysSettled DEF ProbeInv
  <2>2. CASE Start(s)
    BY <1>0, <2>1, <2>2 DEF Start, Goto, ProbeInv
  <2>3. CASE ProbeFirst(s)
    BY <1>0, <2>1, <2>3 DEF ProbeFirst, Goto, ProbeInv
  <2>4. CASE ProbeSecond(s)
    BY <1>0, <2>1, <2>4 DEF ProbeSecond, Goto, ProbeInv, Learnt
  <2>5. CASE SkipZone(s)
    BY <1>0, <2>1, <2>5 DEF SkipZone, Goto, Warn, ProbeInv
  <2>6. CASE Finish(s)
    BY <1>0, <2>1, <2>6 DEF Finish, Goto, ProbeInv
  <2>7. CASE Abort(s)
    BY <1>0, <2>1, <2>7 DEF Abort, Goto, ProbeInv
  <2> QED
    BY <2>2, <2>3, <2>4, <2>5, <2>6, <2>7
<1> QED
  BY <1>0, <1>1, <1>2, <1>3, QuietStep

LEMMA FailsVanityInv ==
  ASSUME VanityInv, NEW s \in Sig, LookupFails(s)
  PROVE  VanityInv'
<1> USE DEF VanityInv, Types
<1>1. /\ UNCHANGED <<candidates, zone, findings, main, pc, first, baseline>>
      /\ warnings' = warnings \cup {<<s, candidates[next[s]]>>}
      /\ next' = [next EXCEPT ![s] = @ + 1]
      /\ pc[s] = "trying" /\ (main # "returned" \/ candidates = <<>>)
  BY DEF LookupFails, Trying, Advance, Warn
<1>2. Types' /\ next'[s] = next[s] + 1 /\ \A r \in Sig : r # s => next'[r] = next[r]
  BY <1>1
<1>3. \A i \in DOMAIN candidates : i < next[s] => Settled(s, i)'
  BY <1>1, StaysSettled DEF ProbeInv
<1>4. \A i : i = next[s] => Settled(s, i)'
  BY <1>1 DEF Settled
<1>5. \A i \in DOMAIN candidates : i < next'[s] => i < next[s] \/ i = next[s]
  BY <1>2
<1>6. ProbeInv(s)'
  BY <1>1, <1>2, <1>3, <1>4, <1>5 DEF ProbeInv, Learnt
<1> QED
  BY <1>1, <1>2, <1>6, QuietStep

LEMMA EndsVanityInv ==
  ASSUME VanityInv, NEW s \in Sig, LookupEnds(s)
  PROVE  VanityInv'
<1> DEFINE c == candidates[next[s]]
           new == [sig |-> s, candidate |-> c, grade |-> Graded(s, c)]
<1>1. /\ UNCHANGED <<candidates, zone, main, pc, first, baseline, warnings>>
      /\ next' = [next EXCEPT ![s] = @ + 1] /\ next[s] <= Len(candidates)
      /\ pc[s] = "trying"
  BY DEF LookupEnds, Trying, Advance
<1>2. PICK a \in Answers(s, c) :
        findings' = IF Tells(s, a) THEN findings \cup {new} ELSE findings
  BY DEF LookupEnds
<1>3. Types /\ c \in Candidate /\ Learnt(s)
  BY <1>1, CandidateType DEF VanityInv, ProbeInv
<1>4. Types' /\ next'[s] = next[s] + 1 /\ \A r \in Sig : r # s => next'[r] = next[r]
  BY <1>1, <1>3 DEF Types
<1>5. ASSUME NEW f \in findings' PROVE Supported(f)'
  <2>1. Supported(f)
    <3>1. CASE f \in findings
      BY <3>1 DEF VanityInv
    <3>2. CASE f = new /\ Tells(s, a)
      BY <1>1, <1>2, <1>3, <3>2 DEF Supported
    <3> QED
      BY <1>2, <3>1, <3>2
  <2> QED
    BY <1>1, <2>1 DEF Supported, Learnt, Graded, Answers, Tells
<1>6. ASSUME NEW i, i = next[s] PROVE Settled(s, i)'
  <2> SUFFICES ASSUME Tellable(s, i)
               PROVE  \E f \in findings' : f.sig = s /\ f.candidate = c
    BY <1>1, <1>6 DEF Settled, Tellable
  <2>1. a \notin Nothing /\ a \notin zone[s].unknown
    BY <1>2, <1>6 DEF Answers, Tellable
  <2>2. Tells(s, a)
    BY <1>3, <2>1 DEF Tells, Learnt
  <2>3. new \in findings'
    BY <1>2, <2>2
  <2> QED
    BY <2>3
<1>7. \A r \in Sig : \A i \in DOMAIN candidates : i < next[r] => Settled(r, i)'
  BY <1>1, <1>2, StaysSettled DEF VanityInv, ProbeInv
<1>8. \A i \in DOMAIN candidates : i < next'[s] => i < next[s] \/ i = next[s]
  BY <1>3, <1>4 DEF Types
<1>9. ASSUME NEW r \in Sig PROVE ProbeInv(r)'
  <2>1. CASE r = s
    BY <1>1, <1>4, <1>6, <1>7, <1>8, <2>1 DEF VanityInv, ProbeInv, Learnt
  <2>2. CASE r # s
    BY <1>1, <1>4, <1>7, <2>2 DEF VanityInv, ProbeInv, Learnt
  <2> QED
    BY <2>1, <2>2
<1> QED
  BY <1>1, <1>4, <1>5, <1>9 DEF VanityInv

LEMMA StepVanityInv == VanityInv /\ [Next]_vars => VanityInv'
<1> SUFFICES ASSUME VanityInv, [Next]_vars PROVE VanityInv'
  OBVIOUS
<1>1. ASSUME NEW s \in Sig, Probe(s) PROVE VanityInv'
  BY <1>1, BeginVanityInv, FailsVanityInv, EndsVanityInv DEF Probe
<1>2. CASE Wait \/ Cancel \/ UNCHANGED vars
  <2>1. UNCHANGED <<candidates, zone, pc, first, baseline, next, findings, warnings>>
    BY <1>2 DEF Wait, Cancel, vars, local
  <2>2. Types'
    BY <2>1 DEF VanityInv, Types
  <2>3. ASSUME NEW s \in Sig PROVE ProbeInv(s)'
    <3>1. \A i \in DOMAIN candidates : i < next[s] => Settled(s, i)'
      BY <2>1, StaysSettled DEF VanityInv, ProbeInv
    <3> QED
      BY <2>1, <3>1 DEF VanityInv, ProbeInv, Learnt
  <2>4. \A f \in findings' : Supported(f)'
    BY <2>1 DEF VanityInv, Supported, Learnt, Graded, Answers, Tells
  <2>5. main' = "returned" => candidates' = <<>> \/ \A s \in Sig : pc'[s] = "done"
    BY <1>2, <2>1 DEF Wait, Cancel, vars, VanityInv
  <2> QED
    BY <2>2, <2>3, <2>4, <2>5 DEF VanityInv
<1> QED
  BY <1>1, <1>2 DEF Next

LEMMA InvariantHolds == Spec => []VanityInv
BY InitVanityInv, StepVanityInv, PTL DEF Spec

-----------------------------------------------------------------------------
\* In any zone, wildcarded or not, a name that nobody has is never reported, unless the
\* zone's answers vary and both probes happened to bring the same one.
THEOREM NoTenantMadeUp == Spec => []NoPhantoms
<1>1. VanityInv => NoPhantoms
  <2> SUFFICES ASSUME VanityInv, NEW f \in findings, ~IsTenant(f.sig, f.candidate)
               PROVE  /\ \E a, b \in zone[f.sig].unknown : a # b
                      /\ first[f.sig] = baseline[f.sig]
    BY DEF NoPhantoms
  <2>1. Supported(f)
    BY DEF VanityInv
  <2> QED
    BY <2>1 DEF Supported, Learnt, Answers, Tells, IsTenant
<1> QED
  BY <1>1, InvariantHolds, PTL

\* High confidence is reserved for a name that cannot be contested, in a zone that denies
\* strangers or by a signature that vouches for it.
THEOREM HighEarned == Spec => []HighIsProof
<1>1. VanityInv => HighIsProof
  <2> SUFFICES ASSUME VanityInv, NEW f \in findings, f.grade.confidence = "high"
               PROVE  /\ Wildcarded(f.sig) => SigConfidence[f.sig] = "high"
                      /\ ~f.grade.contested /\ f.candidate \notin Short
    BY DEF HighIsProof
  <2>1. f.grade = Graded(f.sig, f.candidate) /\ baseline[f.sig] \in zone[f.sig].unknown
    BY DEF VanityInv, Supported, Learnt
  <2> DEFINE found == IF baseline[f.sig] = "NXDOMAIN" THEN "high" ELSE SigConfidence[f.sig]
  <2>2. /\ f.grade.confidence = IF f.candidate \in Short /\ found = "high" THEN "medium" ELSE found
        /\ f.grade.contested = (f.candidate \in Short)
    BY <2>1 DEF Graded
  <2>3. ~(f.candidate \in Short /\ found = "high")
    BY <2>2
  <2>4. found = "high"
    BY <2>2, <2>3
  <2>5. f.candidate \notin Short /\ ~f.grade.contested
    BY <2>2, <2>3, <2>4
  <2> QED
    BY <2>1, <2>4, <2>5 DEF Wildcarded
<1> QED
  BY <1>1, InvariantHolds, PTL

\* A detector that returns without an error has reported or warned of every tenant that
\* can be told from a stranger, whatever failed.
THEOREM NoTenantLost == Spec => []Accounted
<1>1. VanityInv => Accounted
  <2> SUFFICES ASSUME VanityInv, main = "returned", NEW s \in Sig, NEW i \in DOMAIN candidates
               PROVE  Settled(s, i)
    BY DEF Accounted, Settled, Tellable
  <2>1. pc[s] = "done" /\ ProbeInv(s) /\ Types
    BY DEF VanityInv
  <2>2. CASE <<s, "inconsistent">> \in warnings
    BY <2>2 DEF Settled
  <2>3. CASE next[s] > Len(candidates)
    <3>1. i < next[s]
      BY <2>1, <2>3 DEF Types
    <3> QED
      BY <2>1, <3>1 DEF ProbeInv
  <2> QED
    BY <2>1, <2>2, <2>3 DEF ProbeInv
<1> QED
  BY <1>1, InvariantHolds, PTL

=============================================================================
