----------------------------- MODULE FindingSet -----------------------------
(***************************************************************************)
(* The set of findings of one scan (FindingSet in                          *)
(* internal/model/model.go).  Detectors report a vendor whenever a         *)
(* signature matches; Add merges the report into the one finding kept for  *)
(* that vendor.                                                            *)
(*                                                                         *)
(* Reports arrive from concurrent goroutines, in no particular order, so   *)
(* what matters most is that the grade does not depend on the order.       *)
(***************************************************************************)
EXTENDS Grading, Sequences, FiniteSets

CONSTANT Reports  \* the findings that the detectors may report

ASSUME FindingSetAssumption == Reports \subseteq Finding

VARIABLES
  byVendor,  \* the finding of every key seen so far
  order,     \* the keys in order of first arrival
  added      \* history: the reports merged so far

vars == <<byVendor, order, added>>

Init ==
  /\ byVendor = [k \in {} |-> NoCategory]
  /\ order = <<>>
  /\ added = {}

Insert(f) ==
  LET key == Key[f.vendor] IN
  /\ key \notin DOMAIN byVendor
  /\ byVendor' = [k \in DOMAIN byVendor \cup {key} |->
                    IF k = key THEN Capped(f) ELSE byVendor[k]]
  /\ order' = Append(order, key)

\* Mutant: a vendor seen again is listed again.
MergeAndList(f) ==
  LET key == Key[f.vendor] IN
  /\ key \in DOMAIN byVendor
  /\ byVendor' = [byVendor EXCEPT ![key] = Merged(@, f)]
  /\ order' = Append(order, key)

MergeInto(f) ==
  LET key == Key[f.vendor] IN
  /\ key \in DOMAIN byVendor
  /\ byVendor' = [byVendor EXCEPT ![key] = Merged(@, f)]
  /\ UNCHANGED order

Add(f) ==
  /\ Insert(f) \/ MergeInto(f)
  /\ added' = added \cup {f}

Next == \E f \in Reports : Add(f)

Spec == Init /\ [][Next]_vars

Rank(k) == Score(byVendor[k].confidence)

\* Mutant: vendors of equal confidence stay in order of arrival.
BeforeByRank(j, k) == Rank(j) > Rank(k)

\* Strongest first, then by name.
Before(j, k) == Rank(j) > Rank(k) \/ (Rank(j) = Rank(k) /\ j < k)

\* The keys in report order.  The sort is stable: the n-th place goes to the key that
\* n - 1 others come before, by the order or, where it does not say, by their arrival.
Findings ==
  LET Ahead(i, j) == Before(order[i], order[j]) \/ (~Before(order[j], order[i]) /\ i < j)
      Place(n) == CHOOSE i \in DOMAIN order :
                    Cardinality({j \in DOMAIN order : Ahead(j, i)}) = n - 1
  IN  [n \in DOMAIN order |-> order[Place(n)]]

-----------------------------------------------------------------------------
Contributions(k) == {f \in added : Key[f.vendor] = k}

(***************************************************************************)
(* What the detectors guarantee about their reports, and the grade needs.  *)
(* A detector caps what it contests, every report has evidence of one      *)
(* method, and signatures of one vendor that match the same record agree   *)
(* on what it is worth.  Nothing in the signature loader enforces the      *)
(* last: MCFindingSetOverlap shows what happens without it.                *)
(***************************************************************************)
CappedAtSource == \A f \in Reports : f.contested => f.confidence # "high"

EvidenceGiven ==
  \A f \in Reports : f.evidence # {} /\ ~SeveralMethods(f.evidence)

EvidenceDecides ==
  \A f, g \in Reports :
    Key[f.vendor] = Key[g.vendor] /\ f.evidence \cap g.evidence # {} =>
      f.confidence = g.confidence /\ f.contested = g.contested

-----------------------------------------------------------------------------
\* One finding per key, listed once in order of arrival.
TypeOK ==
  /\ DOMAIN byVendor \subseteq Nat
  /\ byVendor \in [DOMAIN byVendor -> Finding]
  /\ order \in Seq(DOMAIN byVendor)
  /\ \A k \in DOMAIN byVendor : \E i \in DOMAIN order : order[i] = k
  /\ \A i, j \in DOMAIN order : order[i] = order[j] => i = j
  /\ added \subseteq Reports

\* Order must not matter (model_test.go): every finding is what the set of its
\* reports makes it, so two scans that report the same things in another order
\* end with the same confidence, the same contested mark and the same evidence,
\* and neither loses a vendor.
OrderIndependent ==
  /\ DOMAIN byVendor = {Key[f.vendor] : f \in added}
  /\ \A k \in DOMAIN byVendor :
       LET F == Contributions(k) IN
       /\ byVendor[k].confidence = Grade(F)
       /\ byVendor[k].contested  = (\A f \in F : f.contested)
       /\ byVendor[k].evidence   = UNION {f.evidence : f \in F}
       /\ byVendor[k].labels     = UNION {f.labels : f \in F}

\* However much evidence accumulates, a finding that rests only on contested
\* tenant names is never proof: the corroboration bonus and a contested report
\* that arrives as high are both overridden.
ContestedNeverHigh ==
  \A k \in DOMAIN byVendor :
    (\A f \in Contributions(k) : f.contested) => byVendor[k].confidence # "high"

\* The list the reporters render depends on the findings alone, not on the
\* order in which vendors were first seen.
ReportOrderDetermined ==
  \A i, j \in DOMAIN Findings :
    i < j => LET f == byVendor[Findings[i]]
                 g == byVendor[Findings[j]]
             IN  \/ Score(f.confidence) > Score(g.confidence)
                 \/ f.confidence = g.confidence /\ Key[f.vendor] < Key[g.vendor]

\* A later report never weakens a finding: its confidence does not fall, its
\* evidence does not shrink and a lifted contested mark does not return.  The
\* cap, applied last, is what could take back a grade given earlier.
Keeps(k) ==
  /\ k \in DOMAIN byVendor'
  /\ Score(byVendor'[k].confidence) >= Score(byVendor[k].confidence)
  /\ byVendor[k].evidence \subseteq byVendor'[k].evidence
  /\ byVendor'[k].contested => byVendor[k].contested

NeverWeakened == [][\A k \in DOMAIN byVendor : Keeps(k)]_vars

=============================================================================
