-------------------------- MODULE FindingSetProofs --------------------------
(***************************************************************************)
(* Theorems about FindingSet, for every vendor, key, report and length of  *)
(* a scan.                                                                 *)
(***************************************************************************)
EXTENDS FindingSet, FiniteSetTheorems, TLAPS

\* The merge keeps a finding a finding.
LEMMA MergedType ==
  ASSUME NEW old \in Finding, NEW f \in Finding
  PROVE  Merged(old, f) \in Finding /\ Capped(f) \in Finding
<1>1. Graded(old, f) \in Confidence
  BY DEF Graded, Stronger, Finding, Confidence
<1>2. ASSUME NEW g \in Finding PROVE Capped(g) \in Finding
  BY <1>2 DEF Capped, Finding, Confidence
<1>3. [vendor |-> old.vendor,
       category |-> IF old.category = NoCategory THEN f.category ELSE old.category,
       confidence |-> Graded(old, f),
       contested |-> old.contested /\ f.contested,
       labels |-> old.labels \cup f.labels,
       evidence |-> old.evidence \cup f.evidence] \in Finding
  BY <1>1 DEF Finding
<1> QED
  BY <1>2, <1>3 DEF Merged

LEMMA InitTypeOK == Init => TypeOK
BY DEF Init, TypeOK

LEMMA InsertTypeOK ==
  ASSUME TypeOK, NEW f \in Reports, Insert(f), added' = added \cup {f}
  PROVE  TypeOK'
<1> DEFINE key == Key[f.vendor]
<1>1. f \in Finding /\ key \in Nat /\ Capped(f) \in Finding
  BY GradingAssumption, FindingSetAssumption, MergedType DEF Finding
<1>2. DOMAIN byVendor' = DOMAIN byVendor \cup {key} /\ key \notin DOMAIN byVendor
  BY DEF Insert
<1>3. byVendor' \in [DOMAIN byVendor' -> Finding]
  BY <1>1, <1>2 DEF Insert, TypeOK
<1>4. order' = Append(order, key) /\ order \in Seq(DOMAIN byVendor)
  BY DEF Insert, TypeOK
<1>5. order' \in Seq(DOMAIN byVendor')
  BY <1>2, <1>4
<1>6. /\ DOMAIN order' = DOMAIN order \cup {Len(order) + 1}
      /\ \A i \in DOMAIN order : order'[i] = order[i] /\ order[i] \in DOMAIN byVendor
      /\ order'[Len(order) + 1] = key
  BY <1>4
<1>7. \A k \in DOMAIN byVendor' : \E i \in DOMAIN order' : order'[i] = k
  BY <1>2, <1>6 DEF TypeOK
<1>8. \A i, j \in DOMAIN order' : order'[i] = order'[j] => i = j
  BY <1>2, <1>6 DEF TypeOK
<1> QED
  BY <1>1, <1>2, <1>3, <1>5, <1>7, <1>8 DEF TypeOK

LEMMA MergeTypeOK ==
  ASSUME TypeOK, NEW f \in Reports, MergeInto(f), added' = added \cup {f}
  PROVE  TypeOK'
<1> DEFINE key == Key[f.vendor]
<1>1. key \in DOMAIN byVendor /\ f \in Finding /\ byVendor[key] \in Finding
  BY GradingAssumption, FindingSetAssumption DEF MergeInto, TypeOK
<1>2. Merged(byVendor[key], f) \in Finding
  BY <1>1, MergedType
<1>3. byVendor' = [byVendor EXCEPT ![key] = Merged(byVendor[key], f)] /\ order' = order
  BY DEF MergeInto
<1>4. DOMAIN byVendor' = DOMAIN byVendor /\ byVendor' \in [DOMAIN byVendor -> Finding]
  BY <1>2, <1>3 DEF TypeOK
<1> QED
  BY <1>3, <1>4 DEF TypeOK

LEMMA AddTypeOK == TypeOK /\ [Next]_vars => TypeOK'
<1> SUFFICES ASSUME TypeOK, [Next]_vars PROVE TypeOK'
  OBVIOUS
<1>1. CASE Next
  BY <1>1, InsertTypeOK, MergeTypeOK DEF Next, Add
<1>2. CASE UNCHANGED vars
  BY <1>2 DEF TypeOK, vars
<1> QED
  BY <1>1, <1>2

\* Every key has one well-formed finding, listed once, whatever arrives.
THEOREM TypeCorrect == Spec => []TypeOK
BY InitTypeOK, AddTypeOK, PTL DEF Spec

-----------------------------------------------------------------------------
(***************************************************************************)
(* What holds of every finding for any reports at all, consistent or not:  *)
(* marks, evidence and labels are those of its reports, and a contested    *)
(* finding is below high.                                                  *)
(***************************************************************************)
Accounted(finding, F) ==
  /\ finding.contested = (\A f \in F : f.contested)
  /\ finding.evidence  = UNION {f.evidence : f \in F}
  /\ finding.labels    = UNION {f.labels : f \in F}
  /\ finding.contested => finding.confidence # "high"

Accounts ==
  /\ DOMAIN byVendor = {Key[f.vendor] : f \in added}
  /\ \A k \in DOMAIN byVendor : Accounted(byVendor[k], Contributions(k))

LEMMA InsertedAccounted ==
  ASSUME NEW f \in Finding
  PROVE  Accounted(Capped(f), {f})
BY DEF Accounted, Capped, Finding

LEMMA MergedAccounted ==
  ASSUME NEW old \in Finding, NEW f \in Finding, NEW F \in SUBSET Finding,
         Accounted(old, F)
  PROVE  Accounted(Merged(old, f), F \cup {f})
<1> DEFINE m == Merged(old, f)
<1>1. m.contested = (old.contested /\ f.contested)
  BY DEF Merged, Capped, Finding
<1>2. m.evidence = old.evidence \cup f.evidence /\ m.labels = old.labels \cup f.labels
  BY DEF Merged, Capped, Finding
<1>3. m.contested => m.confidence # "high"
  BY DEF Merged, Capped, Finding
<1> QED
  BY <1>1, <1>2, <1>3 DEF Accounted

\* An insertion contributes to its own key, whose first report it is.
LEMMA InsertContributions ==
  ASSUME TypeOK, Accounts, NEW f \in Reports, Insert(f), added' = added \cup {f}
  PROVE  /\ Contributions(Key[f.vendor])' = {f}
         /\ \A k \in DOMAIN byVendor : Contributions(k)' = Contributions(k)
BY DEF Insert, Accounts, Contributions

LEMMA MergeContributions ==
  ASSUME NEW f, added' = added \cup {f}
  PROVE  /\ Contributions(Key[f.vendor])' = Contributions(Key[f.vendor]) \cup {f}
         /\ \A k : k # Key[f.vendor] => Contributions(k)' = Contributions(k)
BY DEF Contributions

LEMMA AddAccounts == TypeOK /\ Accounts /\ [Next]_vars => Accounts'
<1> SUFFICES ASSUME TypeOK, Accounts, [Next]_vars PROVE Accounts'
  OBVIOUS
<1>1. ASSUME NEW f \in Reports, Insert(f), added' = added \cup {f} PROVE Accounts'
  <2> DEFINE key == Key[f.vendor]
  <2>1. f \in Finding
    BY GradingAssumption, FindingSetAssumption
  <2>2. DOMAIN byVendor' = DOMAIN byVendor \cup {key}
    BY <1>1 DEF Insert
  <2>3. DOMAIN byVendor' = {Key[g.vendor] : g \in added'}
    BY <1>1, <2>2 DEF Accounts
  <2>4. Accounted(byVendor'[key], Contributions(key)')
    BY <1>1, <2>1, InsertedAccounted, InsertContributions DEF Insert
  <2>5. \A k \in DOMAIN byVendor : Accounted(byVendor'[k], Contributions(k)')
    BY <1>1, InsertContributions DEF Insert, Accounts
  <2>6. \A k \in DOMAIN byVendor' : Accounted(byVendor'[k], Contributions(k)')
    BY <2>2, <2>4, <2>5
  <2> QED
    BY <2>3, <2>6 DEF Accounts
<1>2. ASSUME NEW f \in Reports, MergeInto(f), added' = added \cup {f} PROVE Accounts'
  <2> DEFINE key == Key[f.vendor]
  <2>1. f \in Finding /\ key \in DOMAIN byVendor /\ byVendor[key] \in Finding
    BY <1>2, GradingAssumption, FindingSetAssumption DEF MergeInto, TypeOK
  <2>2. DOMAIN byVendor' = DOMAIN byVendor
    BY <1>2 DEF MergeInto
  <2>3. DOMAIN byVendor' = {Key[g.vendor] : g \in added'}
    BY <1>2, <2>1, <2>2 DEF Accounts
  <2>4. Contributions(key) \in SUBSET Finding
    BY GradingAssumption, FindingSetAssumption DEF Contributions, TypeOK
  <2>5. Accounted(Merged(byVendor[key], f), Contributions(key) \cup {f})
    BY <2>1, <2>4, MergedAccounted DEF Accounts
  <2>6. byVendor'[key] = Merged(byVendor[key], f)
    BY <1>2, <2>1 DEF MergeInto
  <2>7. Accounted(byVendor'[key], Contributions(key)')
    BY <1>2, <2>5, <2>6, MergeContributions
  <2>8. \A k \in DOMAIN byVendor \ {key} : Accounted(byVendor'[k], Contributions(k)')
    BY <1>2, MergeContributions DEF MergeInto, Accounts
  <2>9. \A k \in DOMAIN byVendor' : Accounted(byVendor'[k], Contributions(k)')
    BY <2>2, <2>7, <2>8
  <2> QED
    BY <2>3, <2>9 DEF Accounts
<1>3. CASE UNCHANGED vars
  BY <1>3 DEF Accounts, Accounted, Contributions, vars
<1> QED
  BY <1>1, <1>2, <1>3 DEF Next, Add

LEMMA InitAccounts == Init => Accounts
BY DEF Init, Accounts

THEOREM AlwaysAccounted == Spec => []Accounts
BY InitAccounts, AddAccounts, TypeCorrect, PTL DEF Spec

\* A finding whose reports all contest the tenant name never reads as proof,
\* however many vendors, methods and reports there are.
THEOREM ContestedCap == Spec => []ContestedNeverHigh
<1>1. Accounts => ContestedNeverHigh
  BY DEF Accounts, Accounted, ContestedNeverHigh
<1> QED
  BY <1>1, AlwaysAccounted, PTL

-----------------------------------------------------------------------------
\* The cap takes back only what this very merge would have given.
LEMMA MergedKeeps ==
  ASSUME NEW old \in Finding, NEW f \in Finding,
         old.contested => old.confidence # "high"
  PROVE  /\ Score(Merged(old, f).confidence) >= Score(old.confidence)
         /\ old.evidence \subseteq Merged(old, f).evidence
         /\ Merged(old, f).contested => old.contested
<1> DEFINE graded == Graded(old, f)
           capped == IF (old.contested /\ f.contested) /\ graded = "high"
                     THEN "medium" ELSE graded
<1>1. Merged(old, f).confidence = capped
  BY DEF Merged, Capped, Finding
<1>2. old.confidence \in Confidence /\ f.confidence \in Confidence
  BY DEF Finding
<1>3. Score(graded) >= Score(old.confidence) /\ graded \in Confidence
  BY <1>2 DEF Graded, Stronger, Score, Confidence
<1>4. Score(capped) >= Score(old.confidence)
  BY <1>2, <1>3 DEF Score, Confidence
<1> QED
  BY <1>1, <1>4 DEF Merged, Capped, Finding

LEMMA StepKeeps ==
  TypeOK /\ Accounts /\ [Next]_vars => [\A k \in DOMAIN byVendor : Keeps(k)]_vars
<1> SUFFICES ASSUME TypeOK, Accounts, Next, NEW k \in DOMAIN byVendor
             PROVE  Keeps(k)
  BY DEF Keeps
<1>1. byVendor[k] \in Finding /\ Score(byVendor[k].confidence) \in Nat
  BY DEF TypeOK, Finding, Score
<1>2. byVendor[k].contested => byVendor[k].confidence # "high"
  BY DEF Accounts, Accounted
<1>3. PICK f \in Reports : Insert(f) \/ MergeInto(f)
  BY DEF Next, Add
<1>4. CASE k \in DOMAIN byVendor' /\ byVendor'[k] = byVendor[k]
  BY <1>1, <1>4 DEF Keeps
<1>5. CASE Insert(f)
  BY <1>4, <1>5 DEF Insert
<1>6. CASE MergeInto(f) /\ k # Key[f.vendor]
  BY <1>4, <1>6 DEF MergeInto
<1>7. CASE MergeInto(f) /\ k = Key[f.vendor]
  <2>1. byVendor'[k] = Merged(byVendor[k], f) /\ DOMAIN byVendor' = DOMAIN byVendor
    BY <1>7 DEF MergeInto
  <2>2. f \in Finding
    BY GradingAssumption, FindingSetAssumption
  <2> QED
    BY <1>1, <1>2, <2>1, <2>2, MergedKeeps DEF Keeps
<1> QED
  BY <1>3, <1>5, <1>6, <1>7

\* No report weakens a finding: neither its confidence nor its evidence, and a
\* lifted contested mark stays lifted.
THEOREM Strengthening == Spec => NeverWeakened
BY StepKeeps, TypeCorrect, AlwaysAccounted, PTL DEF Spec, NeverWeakened

-----------------------------------------------------------------------------
(***************************************************************************)
(* Order independence.  Under the guarantees of the detectors, grading the *)
(* reports one by one, as they arrive, is grading the set of them.         *)
(***************************************************************************)
Consistent(F) ==
  /\ \A f \in F : /\ f.contested => f.confidence # "high"
                  /\ f.evidence # {} /\ ~SeveralMethods(f.evidence)
  /\ \A f, g \in F :
       f.evidence \cap g.evidence # {} =>
         f.confidence = g.confidence /\ f.contested = g.contested

LEMMA GradeFirst ==
  ASSUME NEW f \in Finding, Consistent({f})
  PROVE  Capped(f).confidence = Grade({f})
BY DEF Consistent, Capped, Grade, SeveralMethods, Finding, Confidence

\* One merge grades the reports so far with the new one.  The case that needs
\* the reports to be consistent is the last: a report that brings no evidence
\* cannot corroborate, and then what its twin brought was graded before.
LEMMA GradeNext ==
  ASSUME NEW old \in Finding, NEW f \in Finding, NEW F \in SUBSET Finding,
         F # {}, Consistent(F \cup {f}),
         Accounted(old, F), old.confidence = Grade(F)
  PROVE  Merged(old, f).confidence = Grade(F \cup {f})
<1> DEFINE G     == F \cup {f}
           SomeF(c) == \E g \in F : g.confidence = c
           SomeG(c) == \E g \in G : g.confidence = c
           manyF == SeveralMethods(old.evidence)
           manyG == SeveralMethods(old.evidence \cup f.evidence)
           ownedF == \E g \in F : ~g.contested
           ownedG == \E g \in G : ~g.contested
           both  == old.contested /\ f.contested
           graded == Graded(old, f)
<1>1. /\ old.confidence = IF ownedF /\ (SomeF("high") \/ (SomeF("medium") /\ manyF))
                          THEN "high"
                          ELSE IF SomeF("high") \/ SomeF("medium") THEN "medium" ELSE "low"
      /\ old.contested = ~ownedF
  BY DEF Grade, Accounted
<1>2. Grade(G) = IF ownedG /\ (SomeG("high") \/ (SomeG("medium") /\ manyG))
                 THEN "high"
                 ELSE IF SomeG("high") \/ SomeG("medium") THEN "medium" ELSE "low"
  <2>1. UNION {g.evidence : g \in G} = old.evidence \cup f.evidence
    BY DEF Accounted
  <2> QED
    BY <2>1 DEF Grade
<1>3. Merged(old, f).confidence = IF both /\ graded = "high" THEN "medium" ELSE graded
  BY DEF Merged, Capped, Finding
<1>4. \A c : SomeG(c) <=> SomeF(c) \/ f.confidence = c
  OBVIOUS
<1>5. both = ~ownedG
  BY <1>1 DEF Finding
<1>6. f.confidence \in Confidence /\ f.contested \in BOOLEAN
  BY DEF Finding
<1>7. /\ SomeF("high") => ownedF
      /\ f.confidence = "high" => ~f.contested
  BY DEF Consistent
<1>8. manyF => manyG
  BY DEF SeveralMethods
<1>9. CASE f.evidence \ old.evidence # {}
  <2>1. old.evidence \cup f.evidence # old.evidence
    BY <1>9
  <2>2. graded = IF Stronger(old.confidence, f.confidence) = "medium" /\ manyG
                 THEN "high" ELSE Stronger(old.confidence, f.confidence)
    BY <2>1 DEF Graded
  <2>3. /\ SomeG("high") <=> SomeF("high") \/ f.confidence = "high"
        /\ SomeG("medium") <=> SomeF("medium") \/ f.confidence = "medium"
    BY <1>4
  <2>4. ownedG <=> ownedF \/ ~f.contested
    BY <1>6
  <2>5. /\ old.confidence \in Confidence
        /\ Stronger(old.confidence, "high") = "high"
        /\ Stronger(old.confidence, "medium")
             = IF old.confidence = "high" THEN "high" ELSE "medium"
        /\ Stronger(old.confidence, "low") = old.confidence
    BY DEF Stronger, Score, Finding, Confidence
  <2>6. CASE f.confidence = "high"
    BY <1>1, <1>2, <1>3, <1>5, <1>7, <2>2, <2>3, <2>4, <2>6, <2>5
  <2>7. CASE f.confidence = "medium"
    BY <1>1, <1>2, <1>3, <1>5, <1>7, <1>8, <2>2, <2>3, <2>4, <2>7, <2>5
  <2>8. CASE f.confidence = "low"
    BY <1>1, <1>2, <1>3, <1>5, <1>7, <1>8, <2>2, <2>3, <2>4, <2>8, <2>5
  <2> QED
    BY <1>6, <2>6, <2>7, <2>8 DEF Confidence
<1>10. CASE f.evidence \subseteq old.evidence
  <2>1. graded = Stronger(old.confidence, f.confidence) /\ manyG = manyF
    <3>1. old.evidence \cup f.evidence = old.evidence
      BY <1>10
    <3> QED
      BY <3>1 DEF Graded
  <2>2. PICK g \in F : g.confidence = f.confidence /\ g.contested = f.contested
    BY <1>10 DEF Consistent, Accounted
  <2>3. \A c : SomeG(c) <=> SomeF(c)
    BY <2>2
  <2>4. ownedG = ownedF
    BY <2>2
  <2>5. Grade(G) = old.confidence
    BY <1>1, <1>2, <2>1, <2>3, <2>4
  <2>6. SomeF(f.confidence)
    BY <2>2
  <2>7. Stronger(old.confidence, f.confidence) = old.confidence
    BY <1>1, <1>6, <1>7, <2>6 DEF Stronger, Score, Confidence
  <2>8. both /\ old.confidence = "high" => FALSE
    BY <1>1
  <2> QED
    BY <1>3, <2>1, <2>5, <2>7, <2>8
<1> QED
  BY <1>9, <1>10

Grades == \A k \in DOMAIN byVendor : byVendor[k].confidence = Grade(Contributions(k))

LEMMA ReportsConsistent ==
  ASSUME CappedAtSource, EvidenceGiven, EvidenceDecides,
         NEW F \in SUBSET Reports,
         \A f, g \in F : Key[f.vendor] = Key[g.vendor]
  PROVE  Consistent(F)
BY DEF CappedAtSource, EvidenceGiven, EvidenceDecides, Consistent

LEMMA AddGrades ==
  ASSUME CappedAtSource, EvidenceGiven, EvidenceDecides
  PROVE  TypeOK /\ Accounts /\ Grades /\ [Next]_vars => Grades'
<1> SUFFICES ASSUME TypeOK, Accounts, Grades, [Next]_vars PROVE Grades'
  OBVIOUS
<1>1. ASSUME NEW f \in Reports, Insert(f), added' = added \cup {f} PROVE Grades'
  <2> DEFINE key == Key[f.vendor]
  <2>1. f \in Finding /\ Consistent({f})
    BY GradingAssumption, FindingSetAssumption, ReportsConsistent
  <2>2. byVendor'[key].confidence = Grade(Contributions(key)')
    BY <1>1, <2>1, GradeFirst, InsertContributions DEF Insert
  <2>3. \A k \in DOMAIN byVendor : byVendor'[k].confidence = Grade(Contributions(k)')
    BY <1>1, InsertContributions DEF Insert, Grades
  <2>4. DOMAIN byVendor' = DOMAIN byVendor \cup {key}
    BY <1>1 DEF Insert
  <2> QED
    BY <2>2, <2>3, <2>4 DEF Grades
<1>2. ASSUME NEW f \in Reports, MergeInto(f), added' = added \cup {f} PROVE Grades'
  <2> DEFINE key == Key[f.vendor]
             F   == Contributions(key)
  <2>1. f \in Finding /\ key \in DOMAIN byVendor /\ byVendor[key] \in Finding
    BY <1>2, GradingAssumption, FindingSetAssumption DEF MergeInto, TypeOK
  <2>2. F \in SUBSET Reports /\ F \in SUBSET Finding
    BY GradingAssumption, FindingSetAssumption DEF Contributions, TypeOK
  <2>3. F # {}
    BY <2>1 DEF Accounts, Contributions
  <2>4. \A g, h \in F \cup {f} : Key[g.vendor] = Key[h.vendor]
    BY DEF Contributions
  <2>5. Consistent(F \cup {f})
    BY <2>2, <2>4, ReportsConsistent
  <2>6. Accounted(byVendor[key], F) /\ byVendor[key].confidence = Grade(F)
    BY <2>1 DEF Accounts, Grades
  <2>7. Merged(byVendor[key], f).confidence = Grade(F \cup {f})
    BY <2>1, <2>2, <2>3, <2>5, <2>6, GradeNext
  <2>8. byVendor'[key].confidence = Grade(Contributions(key)')
    BY <1>2, <2>1, <2>7, MergeContributions DEF MergeInto
  <2>9. \A k \in DOMAIN byVendor \ {key} : byVendor'[k].confidence = Grade(Contributions(k)')
    BY <1>2, MergeContributions DEF MergeInto, Grades
  <2>10. DOMAIN byVendor' = DOMAIN byVendor
    BY <1>2 DEF MergeInto
  <2> QED
    BY <2>8, <2>9, <2>10 DEF Grades
<1>3. CASE UNCHANGED vars
  BY <1>3 DEF Grades, Contributions, vars
<1> QED
  BY <1>1, <1>2, <1>3 DEF Next, Add

\* Order must not matter: the detectors' guarantees suffice for every finding to
\* be a function of the set of its reports.
THEOREM OrderIndependence ==
  ASSUME CappedAtSource, EvidenceGiven, EvidenceDecides
  PROVE  Spec => []OrderIndependent
<1>1. Init => Grades
  BY DEF Init, Grades
<1>2. TypeOK /\ Accounts /\ Grades /\ [Next]_vars => Grades'
  BY AddGrades
<1>3. Accounts /\ Grades => OrderIndependent
  BY DEF Accounts, Accounted, Grades, OrderIndependent
<1> QED
  BY <1>1, <1>2, <1>3, TypeCorrect, AlwaysAccounted, PTL DEF Spec

-----------------------------------------------------------------------------
(***************************************************************************)
(* Report order: the rank, then the key, order the vendors totally, so     *)
(* that every place goes to exactly one of them.                           *)
(***************************************************************************)
KeyInv == \A k \in DOMAIN byVendor : Key[byVendor[k].vendor] = k

LEMMA StepKeyInv == TypeOK /\ KeyInv /\ [Next]_vars => KeyInv'
<1> SUFFICES ASSUME TypeOK, KeyInv, [Next]_vars PROVE KeyInv'
  OBVIOUS
<1>1. ASSUME NEW f \in Reports, Insert(f) PROVE KeyInv'
  <2>1. Capped(f).vendor = f.vendor
    BY FindingSetAssumption DEF Capped, Finding
  <2> QED
    BY <1>1, <2>1 DEF Insert, KeyInv
<1>2. ASSUME NEW f \in Reports, MergeInto(f) PROVE KeyInv'
  <2>1. \A old \in Finding : Merged(old, f).vendor = old.vendor
    BY DEF Merged, Capped
  <2> QED
    BY <1>2, <2>1 DEF MergeInto, KeyInv, TypeOK
<1>3. CASE UNCHANGED vars
  BY <1>3 DEF vars, KeyInv
<1> QED
  BY <1>1, <1>2, <1>3 DEF Next, Add

LEMMA KeyInvHolds == Spec => []KeyInv
<1>1. Init => KeyInv
  BY DEF Init, KeyInv
<1> QED
  BY <1>1, StepKeyInv, TypeCorrect, PTL DEF Spec

LEMMA RankType ==
  ASSUME TypeOK, NEW k \in DOMAIN byVendor
  PROVE  k \in Nat /\ Rank(k) \in Nat
BY DEF TypeOK, Rank, Score, Finding, Confidence

LEMMA BeforeOrders ==
  ASSUME TypeOK, NEW j \in DOMAIN byVendor, NEW k \in DOMAIN byVendor, NEW l \in DOMAIN byVendor
  PROVE  /\ Before(j, k) => ~Before(k, j)
         /\ j # k => Before(j, k) \/ Before(k, j)
         /\ Before(j, k) /\ Before(k, l) => Before(j, l)
<1>1. \A m \in {j, k, l} : m \in Nat /\ Rank(m) \in Nat
  BY RankType
<1> QED
  BY <1>1 DEF Before

LEMMA PlaceCount ==
  ASSUME NEW N \in Nat
  PROVE  /\ IsFiniteSet(1 .. N) /\ Cardinality(1 .. N) = N
         /\ IsFiniteSet(0 .. N - 1) /\ Cardinality(0 .. N - 1) = N
<1>1. 1 \in Int /\ 0 \in Int /\ N \in Int /\ N - 1 \in Int
  OBVIOUS
<1>2. IsFiniteSet(1 .. N) /\ Cardinality(1 .. N) = IF 1 > N THEN 0 ELSE N - 1 + 1
  BY <1>1, FS_Interval
<1>3. IsFiniteSet(0 .. N - 1) /\ Cardinality(0 .. N - 1) = IF 0 > N - 1 THEN 0 ELSE N - 1 - 0 + 1
  BY <1>1, FS_Interval
<1> QED
  BY <1>2, <1>3

\* The places that come before i.
AheadOf(i) ==
  {j \in DOMAIN order :
     Before(order[j], order[i]) \/ (~Before(order[i], order[j]) /\ j < i)}

LEMMA AheadIs ==
  ASSUME TypeOK, NEW i \in DOMAIN order
  PROVE  AheadOf(i) = {j \in DOMAIN order : Before(order[j], order[i])}
<1>1. ASSUME NEW j \in DOMAIN order, ~Before(order[j], order[i]), ~Before(order[i], order[j])
      PROVE  ~(j < i)
  <2>1. order[i] \in DOMAIN byVendor /\ order[j] \in DOMAIN byVendor /\ i \in Nat
    BY DEF TypeOK
  <2>2. order[i] = order[j]
    BY <1>1, <2>1, BeforeOrders
  <2>3. i = j
    BY <2>2 DEF TypeOK
  <2> QED
    BY <2>1, <2>3
<1> QED
  BY <1>1 DEF AheadOf

LEMMA AheadCount ==
  ASSUME TypeOK, NEW i \in DOMAIN order
  PROVE  /\ DOMAIN order = 1 .. Len(order) /\ Len(order) \in Nat
         /\ IsFiniteSet(AheadOf(i)) /\ Cardinality(AheadOf(i)) \in 0 .. Len(order) - 1
<1>1. DOMAIN order = 1 .. Len(order) /\ Len(order) \in Nat /\ order[i] \in DOMAIN byVendor
  BY DEF TypeOK
<1>2. IsFiniteSet(DOMAIN order) /\ Cardinality(DOMAIN order) = Len(order)
  BY <1>1, PlaceCount
<1>3. IsFiniteSet(DOMAIN order \ {i}) /\ Cardinality(DOMAIN order \ {i}) = Len(order) - 1
  BY <1>2, FS_RemoveElement
<1>4. ~Before(order[i], order[i])
  BY <1>1, BeforeOrders
<1>5. AheadOf(i) \subseteq DOMAIN order \ {i}
  BY <1>4, AheadIs
<1>6. IsFiniteSet(AheadOf(i)) /\ Cardinality(AheadOf(i)) <= Len(order) - 1
  BY <1>3, <1>5, FS_Subset
<1>7. Cardinality(AheadOf(i)) \in Nat
  BY <1>6, FS_CardinalityType
<1> QED
  BY <1>1, <1>6, <1>7

LEMMA AheadGrows ==
  ASSUME TypeOK, NEW i \in DOMAIN order, NEW j \in DOMAIN order, Before(order[j], order[i])
  PROVE  Cardinality(AheadOf(j)) < Cardinality(AheadOf(i))
<1>1. \A k \in DOMAIN order : order[k] \in DOMAIN byVendor
  BY DEF TypeOK
<1>2. AheadOf(j) \subseteq AheadOf(i)
  <2>1. ASSUME NEW k \in DOMAIN order, Before(order[k], order[j]) PROVE Before(order[k], order[i])
    BY <1>1, <2>1, BeforeOrders
  <2> QED
    BY <2>1, AheadIs
<1>3. j \in AheadOf(i) /\ j \notin AheadOf(j)
  <2>1. ~Before(order[j], order[j])
    BY <1>1, BeforeOrders
  <2> QED
    BY <2>1, AheadIs
<1>4. /\ IsFiniteSet(AheadOf(i))
      /\ Cardinality(AheadOf(i)) \in Nat /\ Cardinality(AheadOf(j)) \in Nat
  BY AheadCount
<1>5. /\ Cardinality(AheadOf(j)) <= Cardinality(AheadOf(i))
      /\ Cardinality(AheadOf(i)) # Cardinality(AheadOf(j))
  BY <1>2, <1>3, <1>4, FS_Subset
<1> QED
  BY <1>4, <1>5

\* Ranks differ, and there are as many of them as places: each place is taken.
LEMMA PlaceTaken ==
  ASSUME TypeOK, NEW n \in DOMAIN order
  PROVE  \E i \in DOMAIN order : Cardinality(AheadOf(i)) = n - 1
<1> DEFINE N == Len(order)
           f == [i \in 1 .. N |-> Cardinality(AheadOf(i))]
<1>1. DOMAIN order = 1 .. N /\ N \in Nat /\ \A i \in DOMAIN order : f[i] \in 0 .. N - 1
  BY AheadCount
<1>2. ASSUME NEW i \in 1 .. N, NEW j \in 1 .. N, f[i] = f[j] PROVE i = j
  <2> SUFFICES ASSUME i # j PROVE FALSE
    OBVIOUS
  <2>1. order[i] \in DOMAIN byVendor /\ order[j] \in DOMAIN byVendor /\ order[i] # order[j]
    BY <1>1 DEF TypeOK
  <2>2. Before(order[i], order[j]) \/ Before(order[j], order[i])
    BY <2>1, BeforeOrders
  <2>3. Cardinality(AheadOf(i)) = Cardinality(AheadOf(j))
    BY <1>2
  <2>4. Cardinality(AheadOf(i)) \in Nat /\ Cardinality(AheadOf(j)) \in Nat
    BY <1>1, AheadCount
  <2> QED
    BY <1>1, <2>2, <2>3, <2>4, AheadGrows
<1>3. f \in Injection(1 .. N, 0 .. N - 1)
  BY <1>1, <1>2 DEF Injection, IsInjective
<1>4. /\ IsFiniteSet(1 .. N) /\ IsFiniteSet(0 .. N - 1)
      /\ Cardinality(1 .. N) = N /\ Cardinality(0 .. N - 1) = N
  BY <1>1, PlaceCount
<1>5. f \in Surjection(1 .. N, 0 .. N - 1)
  <2> HIDE DEF f
  <2> QED
    BY <1>3, <1>4, FS_Injection
<1>6. n - 1 \in 0 .. N - 1
  BY <1>1
<1>7. PICK i \in 1 .. N : f[i] = n - 1
  <2> HIDE DEF f
  <2> QED
    BY <1>5, <1>6 DEF Surjection
<1> QED
  BY <1>1, <1>7

\* The report's order depends on the findings alone, not on the order in which their
\* vendors were first seen, for any number of them.
THEOREM ReportOrderFixed == Spec => []ReportOrderDetermined
<1>1. TypeOK /\ KeyInv => ReportOrderDetermined
  <2> SUFFICES ASSUME TypeOK, KeyInv,
                      NEW a \in DOMAIN Findings, NEW b \in DOMAIN Findings, a < b
               PROVE  LET f == byVendor[Findings[a]]
                          g == byVendor[Findings[b]]
                      IN  \/ Score(f.confidence) > Score(g.confidence)
                          \/ f.confidence = g.confidence /\ Key[f.vendor] < Key[g.vendor]
    BY DEF ReportOrderDetermined
  <2> DEFINE Place(n) == CHOOSE i \in DOMAIN order : Cardinality(AheadOf(i)) = n - 1
  <2>1. a \in DOMAIN order /\ b \in DOMAIN order /\ a \in Nat /\ b \in Nat
    BY DEF Findings, TypeOK
  <2>2. \A n \in DOMAIN order :
          /\ Findings[n] = order[Place(n)]
          /\ Place(n) \in DOMAIN order /\ Cardinality(AheadOf(Place(n))) = n - 1
    <3>1. \A n \in DOMAIN order : Findings[n] = order[Place(n)]
      BY DEF Findings, AheadOf
    <3>2. ASSUME NEW n \in DOMAIN order
          PROVE  Place(n) \in DOMAIN order /\ Cardinality(AheadOf(Place(n))) = n - 1
      BY PlaceTaken
    <3> QED
      BY <3>1, <3>2
  <2>3. PICK i \in DOMAIN order, j \in DOMAIN order :
          /\ Findings[a] = order[i] /\ Cardinality(AheadOf(i)) = a - 1
          /\ Findings[b] = order[j] /\ Cardinality(AheadOf(j)) = b - 1
    BY <2>1, <2>2
  <2>4. order[i] \in DOMAIN byVendor /\ order[j] \in DOMAIN byVendor
    BY DEF TypeOK
  <2>5. ~Before(order[j], order[i])
    <3> SUFFICES ASSUME Before(order[j], order[i]) PROVE FALSE
      OBVIOUS
    <3>1. b - 1 < a - 1
      BY <2>3, AheadGrows
    <3> QED
      BY <2>1, <3>1
  <2>6. order[i] # order[j]
    <3>1. i # j
      BY <2>1, <2>3
    <3> QED
      BY <3>1 DEF TypeOK
  <2>7. Before(order[i], order[j])
    BY <2>4, <2>5, <2>6, BeforeOrders
  <2>8. byVendor[order[i]].confidence \in Confidence /\ byVendor[order[j]].confidence \in Confidence
    BY <2>4 DEF TypeOK, Finding
  <2>9. Rank(order[i]) = Rank(order[j]) =>
          byVendor[order[i]].confidence = byVendor[order[j]].confidence
    BY <2>8 DEF Rank, Score, Confidence
  <2>10. Key[byVendor[order[i]].vendor] = order[i] /\ Key[byVendor[order[j]].vendor] = order[j]
    BY <2>4 DEF KeyInv
  <2> QED
    BY <2>3, <2>7, <2>9, <2>10 DEF Before, Rank
<1> QED
  BY <1>1, TypeCorrect, KeyInvHolds, PTL

=============================================================================
