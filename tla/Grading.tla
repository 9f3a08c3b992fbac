------------------------------ MODULE Grading ------------------------------
(***************************************************************************)
(* Findings and how two reports about one vendor merge                     *)
(* (internal/model/model.go).  The merge keeps the strongest confidence    *)
(* seen, lifts a medium finding to high when evidence of a second method   *)
(* arrives, and holds a finding that rests only on contested tenant names  *)
(* at medium.                                                              *)
(***************************************************************************)
EXTENDS Naturals

CONSTANTS
  Vendor,      \* vendor names, as the signatures spell them
  Key,         \* Key[v]: the rank of v in lower case, the identity of v's finding
  Method,      \* channels evidence comes from: "TXT", "A", "HTTP", ...
  Fact,        \* a query together with the value it returned
  Category,    \* report categories
  NoCategory,  \* the empty category
  Label        \* signature ids and analyst notes

ASSUME GradingAssumption == Key \in [Vendor -> Nat]

Confidence == {"low", "medium", "high"}

Score(c) ==
  CASE c = "high" -> 3 [] c = "medium" -> 2 [] c = "low" -> 1 [] OTHER -> 0

Evidence == [method : Method, fact : Fact]

(***************************************************************************)
(* A finding.  Evidence, signature ids and notes are lists without         *)
(* duplicates in the code; only membership matters to the merge, so they   *)
(* are sets here.  labels stands for Signatures and Notes, which are       *)
(* merged alike.                                                           *)
(***************************************************************************)
Finding == [vendor     : Vendor,
            category   : Category \cup {NoCategory},
            confidence : Confidence,
            contested  : BOOLEAN,
            labels     : SUBSET Label,
            evidence   : SUBSET Evidence]

-----------------------------------------------------------------------------
\* distinctMethods(evidence) > 1
SeveralMethods(evidence) == \E d, e \in evidence : d.method # e.method

\* Mutant: the last report decides.
Latest(c, d) == d

Stronger(c, d) == IF Score(d) > Score(c) THEN d ELSE c

\* Mutant: the cap is forgotten.
Uncapped(f) == f

\* A contested finding never exceeds medium.
Capped(f) ==
  [f EXCEPT !.confidence = IF f.contested /\ @ = "high" THEN "medium" ELSE @]

\* Mutant: only a medium report can promote, not a report to a medium finding.
GradedByReport(old, f) ==
  IF f.confidence = "medium" /\ SeveralMethods(old.evidence \cup f.evidence)
  THEN "high"
  ELSE Stronger(old.confidence, f.confidence)

\* Only evidence that this very report adds can corroborate.
Graded(old, f) ==
  LET strongest == Stronger(old.confidence, f.confidence)
      evidence  == old.evidence \cup f.evidence
  IN  IF /\ strongest = "medium"
         /\ evidence # old.evidence
         /\ SeveralMethods(evidence)
      THEN "high"
      ELSE strongest

Merged(old, f) ==
  Capped([vendor     |-> old.vendor,
          category   |-> IF old.category = NoCategory THEN f.category ELSE old.category,
          confidence |-> Graded(old, f),
          contested  |-> old.contested /\ f.contested,
          labels     |-> old.labels \cup f.labels,
          evidence   |-> old.evidence \cup f.evidence])

-----------------------------------------------------------------------------
\* What the merges come to: the grade of a set of reports about one vendor,
\* whatever their order.
Grade(F) ==
  LET owned    == \E f \in F : ~f.contested
      Some(C)  == \E f \in F : f.confidence \in C
  IN  IF owned /\ \/ Some({"high"})
                  \/ Some({"medium"}) /\ SeveralMethods(UNION {f.evidence : f \in F})
      THEN "high"
      ELSE IF Some({"high", "medium"}) THEN "medium" ELSE "low"

=============================================================================
