----------------------------- MODULE HttpProofs -----------------------------
(***************************************************************************)
(* Theorems about Http, for any signatures, candidates and sites, and      *)
(* however many requests run at a time.                                    *)
(***************************************************************************)
EXTENDS Http, FiniteSetTheorems, SequenceTheorems, WellFoundedInduction, TLAPS

LEMMA ProbesFinite == IsFiniteSet(Probe)
<1>1. IsFiniteSet(DOMAIN Signatures) /\ IsFiniteSet(0 .. Len(Candidates))
  BY HttpAssumption, FS_Interval
<1>2. IsFiniteSet((DOMAIN Signatures) \X (0 .. Len(Candidates)))
  BY <1>1, FS_Product
<1> QED
  BY <1>2, FS_Subset DEF Probe

LEMMA InitTypeOK == Init => TypeOK
<1>1. Init => body \in [Probe -> Seq(Piece)] /\ \A p \in Probe : Len(body[p]) <= BodyCap
  BY HttpAssumption DEF Init
<1>2. Init => taken \in 0 .. Slots /\ requests \in Nat
  BY HttpAssumption DEF Init
<1> QED
  BY <1>1, <1>2 DEF Init, TypeOK, Labels

\* A sequence cut after n of its elements is one of the same elements.
LEMMA PrefixType ==
  ASSUME NEW S, NEW s \in Seq(S), NEW n \in 0 .. Len(s)
  PROVE  /\ SubSeq(s, 1, n) \in Seq(S) /\ Len(SubSeq(s, 1, n)) = n
         /\ \A i \in 1 .. n : SubSeq(s, 1, n)[i] = s[i]
OBVIOUS

LEMMA SiteType ==
  ASSUME TypeOK, NEW p \in Probe
  PROVE  site[p] \in Site /\ site[p].content \in Seq(Piece)
BY SitesAssumption DEF TypeOK, Site

LEMMA GradeType ==
  ASSUME NEW p \in Probe, NEW title
  PROVE  Graded(p, title) \in [confidence : Confidence, contested : BOOLEAN]
<1>1. Sig(p) \in Signature
  BY HttpAssumption DEF Probe, Sig
<1>2. Sig(p).confidence \in Confidence
  BY <1>1 DEF Signature
<1>3. (ContestedByLength(p) \/ <<p, title>> \in Conflicts) \in BOOLEAN
  BY DEF ContestedByLength
<1> QED
  BY <1>2, <1>3 DEF Graded, Confidence

-----------------------------------------------------------------------------
(***************************************************************************)
(* Slots.  A probe takes one when it enters the client and gives it back   *)
(* on every way out.                                                       *)
(***************************************************************************)
LEMMA FlyingFinite == IsFiniteSet(Flying) /\ Cardinality(Flying) \in Nat
BY ProbesFinite, FS_Subset, FS_CardinalityType DEF Flying

LEMMA Enter ==
  ASSUME TypeOK, InFlight, NEW p \in Probe, Acquire(p)
  PROVE  InFlight' /\ taken' \in 0 .. Slots
<1>1. p \notin Flying /\ Flying' = Flying \cup {p}
  BY DEF Acquire, Goto, TypeOK, Flying
<1>2. Cardinality(Flying') = Cardinality(Flying) + 1
  BY <1>1, FlyingFinite, FS_AddElement
<1> QED
  BY <1>2, HttpAssumption DEF Acquire, InFlight, TypeOK

LEMMA Exit ==
  ASSUME TypeOK, InFlight, NEW p \in Probe, NEW label \in {"judging", "done"},
         pc[p] \in {"building", "asked"}, Goto(p, label), taken' = taken - 1
  PROVE  InFlight' /\ taken' \in 0 .. Slots
<1>1. p \in Flying /\ Flying' = Flying \ {p}
  BY DEF Goto, TypeOK, Flying
<1>2. Cardinality(Flying') = Cardinality(Flying) - 1 /\ Cardinality(Flying') \in Nat
  BY <1>1, FlyingFinite, FS_RemoveElement, FS_CardinalityType
<1> QED
  BY <1>2, FlyingFinite, HttpAssumption DEF InFlight, TypeOK

LEMMA Stay ==
  ASSUME TypeOK, InFlight, NEW p \in Probe, NEW label, Goto(p, label), taken' = taken,
         pc[p] \in {"building", "asked"} <=> label \in {"building", "asked"}
  PROVE  InFlight' /\ taken' \in 0 .. Slots
<1>1. Flying' = Flying
  BY DEF Goto, TypeOK, Flying
<1> QED
  BY <1>1 DEF InFlight, TypeOK

LEMMA StepInFlight == TypeOK /\ InFlight /\ [Next]_vars => InFlight' /\ taken' \in 0 .. Slots
<1> SUFFICES ASSUME TypeOK, InFlight, [Next]_vars PROVE InFlight' /\ taken' \in 0 .. Slots
  OBVIOUS
<1>1. ASSUME NEW p \in Probe, Acquire(p) PROVE InFlight' /\ taken' \in 0 .. Slots
  BY <1>1, Enter
<1>2. ASSUME NEW p \in Probe, Unbuilt(p) \/ Unsent(p) \/ Refused(p)
      PROVE  InFlight' /\ taken' \in 0 .. Slots
  BY <1>2, Exit DEF Unbuilt, Unsent, Refused, Fail
<1>3. ASSUME NEW p \in Probe, Respond(p) PROVE InFlight' /\ taken' \in 0 .. Slots
  BY <1>3, Exit DEF Respond
<1>4. ASSUME NEW p \in Probe, Launch(p) \/ Abandon(p) \/ Request(p) \/ Judge(p)
      PROVE  InFlight' /\ taken' \in 0 .. Slots
  BY <1>4, Stay DEF Launch, Abandon, Request, Judge, client
<1>5. CASE Wait \/ Cancel \/ UNCHANGED vars \/ \E p \in Probe : Crash(p)
  BY <1>5 DEF Wait, Cancel, Crash, vars, client, InFlight, Flying, TypeOK
<1> QED
  BY <1>1, <1>2, <1>3, <1>4, <1>5 DEF Next, Step

-----------------------------------------------------------------------------
LEMMA RespondTypeOK ==
  ASSUME TypeOK, NEW p \in Probe, Respond(p), taken' \in 0 .. Slots
  PROVE  TypeOK'
<1>1. PICK n \in 0 .. BodyCap : /\ n <= Len(site[p].content)
                                /\ body' = [body EXCEPT ![p] = SubSeq(site[p].content, 1, n)]
  BY DEF Respond
<1>2. site[p].content \in Seq(Piece)
  BY SiteType
<1>3. SubSeq(site[p].content, 1, n) \in Seq(Piece) /\ Len(SubSeq(site[p].content, 1, n)) = n
  BY <1>1, <1>2, PrefixType, HttpAssumption
<1>4. body' \in [Probe -> Seq(Piece)] /\ \A q \in Probe : Len(body'[q]) <= BodyCap
  BY <1>1, <1>3, HttpAssumption DEF TypeOK
<1>5. pc' \in [Probe -> Labels]
  BY DEF Respond, Goto, TypeOK, Labels
<1> QED
  BY <1>4, <1>5 DEF Respond, report, TypeOK

LEMMA StepTypeOK == TypeOK /\ InFlight /\ [Next]_vars => TypeOK'
<1> SUFFICES ASSUME TypeOK, InFlight, [Next]_vars PROVE TypeOK'
  OBVIOUS
<1>0. taken' \in 0 .. Slots
  BY StepInFlight
<1>1. ASSUME NEW p \in Probe,
             Launch(p) \/ Acquire(p) \/ Abandon(p) \/ Unbuilt(p) \/ Request(p) \/ Unsent(p)
               \/ Refused(p)
      PROVE  TypeOK'
  <2>1. pc' \in [Probe -> Labels] /\ warnings' \subseteq Probe /\ requests' \in Nat
    BY <1>1 DEF Launch, Acquire, Abandon, Unbuilt, Request, Unsent, Refused, Fail, Goto, Warn,
                client, report, TypeOK, Labels
  <2>2. UNCHANGED <<site, body, findings, main, cancelled>>
    BY <1>1 DEF Launch, Acquire, Abandon, Unbuilt, Request, Unsent, Refused, Fail, client, report
  <2> QED
    BY <1>0, <2>1, <2>2 DEF TypeOK
<1>2. ASSUME NEW p \in Probe, Respond(p) PROVE TypeOK'
  BY <1>0, <1>2, RespondTypeOK
<1>3. ASSUME NEW p \in Probe, Judge(p) PROVE TypeOK'
  <2>1. pc' \in [Probe -> Labels]
    BY <1>3 DEF Judge, Goto, TypeOK, Labels
  <2>2. \A f \in findings' : /\ f.probe \in Probe
                             /\ f.grade \in [confidence : Confidence, contested : BOOLEAN]
    BY <1>3, GradeType DEF Judge, TypeOK
  <2> QED
    BY <1>0, <1>3, <2>1, <2>2 DEF Judge, client, TypeOK
<1>4. CASE Wait \/ Cancel \/ UNCHANGED vars \/ \E p \in Probe : Crash(p)
  BY <1>4 DEF Wait, Cancel, Crash, vars, client, report, TypeOK
<1> QED
  BY <1>1, <1>2, <1>3, <1>4 DEF Next, Step

LEMMA InitInFlight == Init => InFlight
<1> SUFFICES ASSUME Init PROVE InFlight
  OBVIOUS
<1>1. Flying = {}
  BY DEF Init, Flying
<1>2. Cardinality(Flying) = 0
  BY <1>1, FS_EmptySet
<1> QED
  BY <1>2, HttpAssumption DEF Init, InFlight

\* Type correctness, and with it: however requests end, the client never has more of
\* them in flight than it may, and every slot comes back.
THEOREM SlotsReturned == Spec => [](TypeOK /\ InFlight)
BY InitTypeOK, InitInFlight, StepTypeOK, StepInFlight, PTL DEF Spec

-----------------------------------------------------------------------------
(***************************************************************************)
(* Findings.  What was read of a page is a beginning of it, and a finding  *)
(* keeps saying what the page that was read said.                          *)
(***************************************************************************)
Prefix(s, t) == \A i \in DOMAIN s : i \in DOMAIN t /\ s[i] = t[i]

ReadsPage == \A p \in Probe : Prefix(body[p], site[p].content)

Reported ==
  \A f \in findings :
    /\ pc[f.probe] = "done" /\ Fires(f.probe)
    /\ \E title \in TitleTag(body[f.probe]) : f.grade = Graded(f.probe, title)

FindingsInv == TypeOK /\ ReadsPage /\ Reported

LEMMA InitFindingsInv == Init => FindingsInv
<1>1. Init => ReadsPage /\ Reported
  BY DEF Init, ReadsPage, Prefix, Reported
<1> QED
  BY <1>1, InitTypeOK DEF FindingsInv

LEMMA RespondReadsPage ==
  ASSUME TypeOK, ReadsPage, NEW p \in Probe, Respond(p)
  PROVE  ReadsPage'
<1>1. PICK n \in 0 .. BodyCap : /\ n <= Len(site[p].content)
                                /\ body' = [body EXCEPT ![p] = SubSeq(site[p].content, 1, n)]
  BY DEF Respond
<1>2. site[p].content \in Seq(Piece) /\ n \in 0 .. Len(site[p].content)
  BY <1>1, SiteType, HttpAssumption
<1>3. Prefix(SubSeq(site[p].content, 1, n), site[p].content)
  BY <1>2, PrefixType DEF Prefix
<1>4. site' = site
  BY DEF Respond
<1> QED
  BY <1>1, <1>3, <1>4 DEF ReadsPage, TypeOK

\* The page of a finding was read before and is not read again.
LEMMA Kept ==
  ASSUME Reported, NEW f \in findings, site' = site,
         body'[f.probe] = body[f.probe], pc'[f.probe] = "done"
  PROVE  /\ pc'[f.probe] = "done" /\ Fires(f.probe)'
         /\ \E title \in TitleTag(body'[f.probe]) : f.grade = Graded(f.probe, title)
<1>1. Fires(f.probe) /\ \E title \in TitleTag(body[f.probe]) : f.grade = Graded(f.probe, title)
  BY DEF Reported
<1>2. Fires(f.probe)'
  BY <1>1 DEF Fires
<1> QED
  BY <1>1, <1>2

LEMMA StepFindingsInv == FindingsInv /\ TypeOK' /\ [Next]_vars => FindingsInv'
<1> SUFFICES ASSUME FindingsInv, TypeOK', [Next]_vars PROVE ReadsPage' /\ Reported'
  BY DEF FindingsInv
<1> USE DEF FindingsInv
<1>1. ASSUME NEW p \in Probe,
             Launch(p) \/ Acquire(p) \/ Abandon(p) \/ Unbuilt(p) \/ Request(p) \/ Unsent(p)
               \/ Refused(p)
      PROVE  ReadsPage' /\ Reported'
  <2>1. UNCHANGED <<site, body, findings>>
    BY <1>1 DEF Launch, Acquire, Abandon, Unbuilt, Request, Unsent, Refused, Fail, report
  <2>2. ASSUME NEW f \in findings PROVE pc'[f.probe] = "done"
    BY <1>1, <2>2 DEF Launch, Acquire, Abandon, Unbuilt, Request, Unsent, Refused, Fail, Goto,
                      Reported, TypeOK
  <2> QED
    BY <2>1, <2>2, Kept DEF ReadsPage, Reported
<1>2. ASSUME NEW p \in Probe, Respond(p) PROVE ReadsPage' /\ Reported'
  <2>1. ASSUME NEW f \in findings
        PROVE  body'[f.probe] = body[f.probe] /\ pc'[f.probe] = "done"
    BY <1>2, <2>1 DEF Respond, Goto, Reported, TypeOK
  <2>2. site' = site /\ findings' = findings
    BY <1>2 DEF Respond, report
  <2> QED
    BY <1>2, <2>1, <2>2, Kept, RespondReadsPage DEF Reported
<1>3. ASSUME NEW p \in Probe, Judge(p) PROVE ReadsPage' /\ Reported'
  <2>1. UNCHANGED <<site, body>> /\ pc'[p] = "done"
    BY <1>3 DEF Judge, Goto, TypeOK
  <2>2. ASSUME NEW f \in findings PROVE pc'[f.probe] = "done"
    BY <1>3, <2>2 DEF Judge, Goto, Reported, TypeOK
  <2>3. Fires(p) => Fires(p)'
    BY <2>1 DEF Fires
  <2>4. ASSUME NEW f \in findings', f \notin findings
        PROVE  /\ pc'[f.probe] = "done" /\ Fires(f.probe)'
               /\ \E title \in TitleTag(body'[f.probe]) : f.grade = Graded(f.probe, title)
    <3>1. Fires(p) /\ \E title \in TitleTag(body[p]) :
            f = [probe |-> p, grade |-> Graded(p, title)]
      BY <1>3, <2>4 DEF Judge
    <3> QED
      BY <2>1, <2>3, <3>1
  <2> QED
    BY <2>1, <2>2, <2>4, Kept DEF ReadsPage, Reported
<1>4. CASE Wait \/ Cancel \/ UNCHANGED vars \/ \E p \in Probe : Crash(p)
  <2>1. UNCHANGED <<site, body, findings, pc>>
    BY <1>4 DEF Wait, Cancel, Crash, vars, report
  <2> QED
    BY <2>1, Kept DEF ReadsPage, Reported
<1> QED
  BY <1>1, <1>2, <1>3, <1>4 DEF Next, Step

LEMMA FindingsHold == Spec => []FindingsInv
BY SlotsReturned, InitFindingsInv, StepFindingsInv, PTL DEF Spec

-----------------------------------------------------------------------------
LEMMA MarkerSeen ==
  ASSUME ReadsPage, NEW p \in Probe, Holds(body[p], "marker")
  PROVE  Holds(site[p].content, "marker")
BY DEF ReadsPage, Prefix, Holds

LEMMA FindingsTell == ASSUME Honest, FindingsInv PROVE NoPhantoms
<1> SUFFICES ASSUME NEW f \in findings, ~site[f.probe].tenant
             PROVE  Sig(f.probe).match = "absent" /\ ~Whole(f.probe)
  BY DEF NoPhantoms
<1> DEFINE p == f.probe
<1>1. p \in Probe /\ site[p] \in Sites[p] /\ Fires(p)
  BY DEF FindingsInv, TypeOK, Reported
<1>2. StatusAllowed(site[p].status, Sig(p))
  BY <1>1 DEF Fires
<1>3. CASE Sig(p).match = "present"
  BY <1>1, <1>2, <1>3, MarkerSeen DEF Fires, Honest, FindingsInv
<1>4. CASE Sig(p).match = "absent"
  BY <1>1, <1>2, <1>4 DEF Fires, Honest, Whole
<1> QED
  BY <1>1, <1>2, <1>3, <1>4 DEF Honest

\* If the markers tell the accounts apart, then whatever is cut off and whatever fails,
\* a finding tells the truth of every page that was read whole.
THEOREM FindingsTrue == ASSUME Honest PROVE Spec => []NoPhantoms
<1>1. FindingsInv => NoPhantoms
  BY FindingsTell
<1> QED
  BY <1>1, FindingsHold, PTL

-----------------------------------------------------------------------------
(***************************************************************************)
(* The loop over the words of a title (Namespace) finds every name that    *)
(* the reference describes.                                                *)
(***************************************************************************)
LEMMA Least ==
  ASSUME NEW T \in SUBSET Nat, T # {}
  PROVE  \E x \in T : \A y \in T : x <= y
<1> DEFINE R == OpToRel(<, Nat)
<1>1. IsWellFoundedOn(R, Nat)
  BY NatLessThanWellFounded
<1>2. R = {pair \in Nat \X Nat : pair[1] < pair[2]}
  BY DEF OpToRel
<1> HIDE DEF R
<1>3. PICK x \in T : \A y \in T : <<y, x>> \notin R
  BY <1>1, WFMin
<1>4. ASSUME NEW y \in T PROVE x <= y
  <2>1. x \in Nat /\ y \in Nat
    OBVIOUS
  <2>2. ~(y < x)
    BY <1>2, <1>3, <2>1
  <2> QED
    BY <2>1, <2>2
<1> QED
  BY <1>4

\* Induction up to a bound, for a set of numbers instead of a predicate.
LEMMA UpTo ==
  ASSUME NEW N \in Nat, NEW T, 0 \in T, \A n \in 1 .. N : n - 1 \in T => n \in T
  PROVE  0 .. N \subseteq T
<1> SUFFICES ASSUME (0 .. N) \ T # {} PROVE FALSE
  OBVIOUS
<1>0. (0 .. N) \ T \in SUBSET Nat
  OBVIOUS
<1>1. PICK x \in (0 .. N) \ T : \A y \in (0 .. N) \ T : x <= y
  BY <1>0, Least
<1>2. x \in 1 .. N /\ x - 1 \in 0 .. N /\ ~(x <= x - 1)
  BY <1>1
<1>3. x - 1 \in T
  BY <1>1, <1>2
<1> QED
  BY <1>1, <1>2, <1>3

\* What a loop computes: every step takes the value before it.
Loop(S, N, a, G, f) ==
  f \in [0 .. N -> S] /\ f[0] = a /\ \A n \in 1 .. N : f[n] = G[n][f[n - 1]]

LoopIsDefined(S, N, a, G) == \E f : Loop(S, N, a, G, f)

LEMMA LoopExists ==
  ASSUME NEW S, NEW N \in Nat, NEW a \in S, NEW G \in [1 .. N -> [S -> S]]
  PROVE  LoopIsDefined(S, N, a, G)
<1> DEFINE Computed(f, m) == f[0] = a /\ \A n \in 1 .. m : f[n] = G[n][f[n - 1]]
           T == {m \in 0 .. N : \E f \in [0 .. N -> S] : Computed(f, m)}
<1>1. 0 \in T
  <2>1. [n \in 0 .. N |-> a] \in [0 .. N -> S] /\ Computed([n \in 0 .. N |-> a], 0)
    OBVIOUS
  <2> HIDE DEF Computed
  <2> QED
    BY <2>1
<1>2. ASSUME NEW m \in 1 .. N, m - 1 \in T PROVE m \in T
  <2>1. PICK f \in [0 .. N -> S] : Computed(f, m - 1)
    BY <1>2
  <2> DEFINE e == G[m][f[m - 1]]
             g == [f EXCEPT ![m] = e]
  <2>2. m \in 0 .. N /\ m - 1 \in 0 .. N /\ m # 0
    OBVIOUS
  <2>3. e \in S
    <3>1. f[m - 1] \in S /\ G[m] \in [S -> S]
      BY <2>2
    <3> QED
      BY <3>1
  <2>4. Computed(g, m)
    <3>1. g[0] = a
      BY <2>1, <2>2
    <3>2. ASSUME NEW n \in 1 .. m PROVE g[n] = G[n][g[n - 1]]
      <4>0. n \in 0 .. N /\ n - 1 \in 0 .. N /\ n - 1 # m
        OBVIOUS
      <4>1. g[n - 1] = f[n - 1]
        BY <4>0
      <4>2. CASE n = m
        BY <2>2, <4>1, <4>2
      <4>3. CASE n # m
        <5>1. n \in 1 .. m - 1
          BY <4>3
        <5>2. g[n] = f[n]
          BY <4>0, <4>3
        <5> QED
          BY <2>1, <4>1, <5>1, <5>2
      <4> QED
        BY <4>2, <4>3
    <3> HIDE DEF g
    <3> QED
      BY <3>1, <3>2
  <2>5. g \in [0 .. N -> S]
    BY <2>3
  <2> HIDE DEF Computed, g
  <2> QED
    BY <2>2, <2>4, <2>5
<1>3. N \in T
  <2>1. 0 .. N \subseteq T
    <3> HIDE DEF T
    <3> QED
      BY <1>1, <1>2, UpTo
  <2> HIDE DEF T
  <2> QED
    BY <2>1
<1> QED
  BY <1>3 DEF LoopIsDefined, Loop

-----------------------------------------------------------------------------
(***************************************************************************)
(* The words of a text.                                                    *)
(***************************************************************************)
Char == Letter \cup {Blank, Mark}

Scan == [words : Seq(Word), open : Seq(Letter)]

LEMMA ScannedType ==
  ASSUME NEW s \in Scan
  PROVE  Close(s) \in Seq(Word) /\ \A char \in Char : Scanned(s, char) \in Scan
<1>1. s.words \in Seq(Word) /\ s.open \in Seq(Letter) /\ s.open \in Word /\ <<Mark>> \in Word
  BY DEF Scan, Word
<1>2. Close(s) \in Seq(Word)
  BY <1>1 DEF Close
<1>3. ASSUME NEW char \in Letter PROVE Append(s.open, char) \in Seq(Letter)
  BY <1>1
<1>4. Append(Close(s), <<Mark>>) \in Seq(Word)
  BY <1>1, <1>2
<1>5. <<>> \in Seq(Letter)
  OBVIOUS
<1> QED
  BY <1>1, <1>2, <1>3, <1>4, <1>5 DEF Scanned, Scan

WordsLoop(text, scan) ==
  scan = [n \in 0 .. Len(text) |->
            IF n = 0 THEN [words |-> <<>>, open |-> <<>>] ELSE Scanned(scan[n - 1], text[n])]

LEMMA WordsType == ASSUME NEW text \in Text PROVE Words(text) \in Seq(Word)
<1> DEFINE N == Len(text)
           G == [n \in 1 .. N |-> [s \in Scan |-> Scanned(s, text[n])]]
           scan == CHOOSE scan : WordsLoop(text, scan)
           T == {n \in 0 .. N : scan[n] \in Scan}
<1>0. N \in Nat /\ \A n \in 1 .. N : text[n] \in Char
  BY DEF Text, Char
<1>1. [words |-> <<>>, open |-> <<>>] \in Scan
  BY DEF Scan
<1>2. G \in [1 .. N -> [Scan -> Scan]]
  BY <1>0, ScannedType
<1>3. \E f : WordsLoop(text, f)
  <2>0. LoopIsDefined(Scan, N, [words |-> <<>>, open |-> <<>>], G)
    <3> HIDE DEF G, N
    <3> QED
      BY <1>0, <1>1, <1>2, LoopExists
  <2>1. PICK f \in [0 .. N -> Scan] :
          f[0] = [words |-> <<>>, open |-> <<>>] /\ \A n \in 1 .. N : f[n] = G[n][f[n - 1]]
    BY <2>0 DEF LoopIsDefined, Loop
  <2>2. \A n \in 1 .. N : f[n - 1] \in Scan
    BY <1>0
  <2>3. \A n \in 1 .. N : f[n] = Scanned(f[n - 1], text[n])
    BY <2>1, <2>2
  <2>4. f = [n \in 0 .. N |->
               IF n = 0 THEN [words |-> <<>>, open |-> <<>>] ELSE Scanned(f[n - 1], text[n])]
    BY <1>0, <2>1, <2>3
  <2> QED
    BY <2>4 DEF WordsLoop
<1>4. WordsLoop(text, scan)
  BY <1>3
<1>5. Words(text) = Close(scan[N])
  BY DEF Words, WordsLoop
<1> HIDE DEF scan
<1>6. 0 \in T
  BY <1>0, <1>1, <1>4 DEF WordsLoop
<1>7. ASSUME NEW n \in 1 .. N, n - 1 \in T PROVE n \in T
  <2>1. scan[n] = Scanned(scan[n - 1], text[n])
    BY <1>0, <1>4 DEF WordsLoop
  <2> QED
    BY <1>0, <1>7, <2>1, ScannedType
<1>8. 0 .. N \subseteq T
  <2> HIDE DEF T, N
  <2> QED
    BY <1>0, <1>6, <1>7, UpTo
<1>9. N \in T
  <2> HIDE DEF T, N
  <2> QED
    BY <1>0, <1>8
<1> QED
  BY <1>5, <1>9, ScannedType

-----------------------------------------------------------------------------
(***************************************************************************)
(* Cutting out one form.  The end of the last occurrence tells what is cut *)
(* when no occurrence begins in another.                                   *)
(***************************************************************************)
Apart(form, text) ==
  \A i, j \in 1 .. Len(text) :
    At(form, text, i) /\ At(form, text, j) /\ i < j => i + Len(form) <= j

Pass == [left : Text, end : Nat]

PassIs(text, form, s, n) ==
  /\ s \in Pass /\ Len(s.left) = n
  /\ \A m \in 1 .. n : s.left[m] = IF Covered(form, text, m) THEN Blank ELSE text[m]
  /\ \/ s.end = 0 /\ \A i \in 1 .. n : ~At(form, text, i)
     \/ \E i \in 1 .. n : /\ At(form, text, i) /\ s.end = i + Len(form) - 1
                          /\ \A j \in 1 .. n : At(form, text, j) => j <= i

\* The last occurrence after one more character.
LEMMA PassedEnd ==
  ASSUME NEW text \in Text, NEW form \in Text, Apart(form, text), NEW n \in 1 .. Len(text),
         NEW s, PassIs(text, form, s, n - 1)
  PROVE  LET end == Passed(s, text, form, n).end
         IN  /\ end \in Nat /\ (n <= end <=> Covered(form, text, n))
             /\ \/ end = 0 /\ \A i \in 1 .. n : ~At(form, text, i)
                \/ \E i \in 1 .. n : /\ At(form, text, i) /\ end = i + Len(form) - 1
                                     /\ \A j \in 1 .. n : At(form, text, j) => j <= i
<1> DEFINE end == Passed(s, text, form, n).end
<1>0. n \in Nat /\ Len(text) \in Nat /\ Len(form) \in Nat /\ s.end \in Nat
  BY DEF Text, PassIs, Pass
<1>1. end = IF n > s.end /\ At(form, text, n) THEN n + Len(form) - 1 ELSE s.end
  BY DEF Passed
<1>2. \A i \in 1 .. n : i \in 1 .. n - 1 \/ i = n
  BY <1>0
<1>3. CASE At(form, text, n)
  <2>1. n > s.end
    <3>1. CASE s.end = 0
      BY <1>0, <3>1
    <3>2. ASSUME NEW i \in 1 .. n - 1, At(form, text, i), s.end = i + Len(form) - 1
          PROVE  n > s.end
      <4>1. i + Len(form) <= n
        BY <1>0, <1>3, <3>2 DEF Apart
      <4> QED
        BY <1>0, <3>2, <4>1
    <3> QED
      BY <3>1, <3>2 DEF PassIs
  <2>2. end = n + Len(form) - 1 /\ end \in Nat
    BY <1>0, <1>1, <1>3, <2>1
  <2>3. \A j \in 1 .. n : j <= n
    BY <1>0
  <2>4. n <= end => Covered(form, text, n)
    BY <1>0, <1>3, <2>2 DEF Covered
  <2>5. Covered(form, text, n) => n <= end
    BY <1>0, <2>2 DEF Covered
  <2> QED
    BY <1>0, <1>3, <2>2, <2>3, <2>4, <2>5
<1>4. CASE ~At(form, text, n)
  <2>1. end = s.end
    BY <1>1, <1>4
  <2>2. CASE s.end = 0 /\ \A i \in 1 .. n - 1 : ~At(form, text, i)
    <3>1. \A i \in 1 .. n : ~At(form, text, i)
      BY <1>2, <1>4, <2>2
    <3> QED
      BY <1>0, <2>1, <2>2, <3>1 DEF Covered
  <2>3. ASSUME NEW i \in 1 .. n - 1, At(form, text, i), s.end = i + Len(form) - 1,
               \A j \in 1 .. n - 1 : At(form, text, j) => j <= i
        PROVE  /\ n <= end <=> Covered(form, text, n)
               /\ i \in 1 .. n /\ \A j \in 1 .. n : At(form, text, j) => j <= i
    <3>1. i \in 1 .. n /\ \A j \in 1 .. n : At(form, text, j) => j <= i
      BY <1>0, <1>2, <1>4, <2>3
    <3>2. n <= end => Covered(form, text, n)
      BY <2>1, <2>3, <3>1 DEF Covered
    <3>3. ASSUME NEW j \in 1 .. n, At(form, text, j), n <= j + Len(form) - 1 PROVE n <= end
      <4>1. j <= i
        BY <3>1, <3>3
      <4> QED
        BY <1>0, <2>1, <2>3, <3>3, <4>1
    <3> QED
      BY <3>1, <3>2, <3>3 DEF Covered
  <2> QED
    BY <1>0, <2>1, <2>2, <2>3 DEF PassIs
<1> QED
  BY <1>3, <1>4

LEMMA PassedIs ==
  ASSUME NEW text \in Text, NEW form \in Text, Apart(form, text), NEW n \in 1 .. Len(text),
         NEW s, PassIs(text, form, s, n - 1)
  PROVE  PassIs(text, form, Passed(s, text, form, n), n)
<1> DEFINE t == Passed(s, text, form, n)
           char == IF n <= t.end THEN Blank ELSE text[n]
<1>0. /\ n \in Nat /\ Len(text) \in Nat /\ s.left \in Text /\ Len(s.left) = n - 1
      /\ text[n] \in Char /\ Blank \in Char
  BY DEF Text, PassIs, Pass, Char
<1>1. /\ t.end \in Nat /\ (n <= t.end <=> Covered(form, text, n))
      /\ \/ t.end = 0 /\ \A i \in 1 .. n : ~At(form, text, i)
         \/ \E i \in 1 .. n : /\ At(form, text, i) /\ t.end = i + Len(form) - 1
                              /\ \A j \in 1 .. n : At(form, text, j) => j <= i
  BY PassedEnd
<1>2. t.left = Append(s.left, char) /\ t = [left |-> t.left, end |-> t.end]
  BY DEF Passed
<1> HIDE DEF t
<1>3. char \in Char
  BY <1>0
<1>4. /\ t.left \in Text /\ Len(t.left) = n /\ t.left[n] = char
      /\ \A m \in 1 .. n - 1 : t.left[m] = s.left[m]
  BY <1>0, <1>2, <1>3, AppendProperties DEF Text, Char
<1>5. ASSUME NEW m \in 1 .. n
      PROVE  t.left[m] = IF Covered(form, text, m) THEN Blank ELSE text[m]
  <2>1. CASE m = n
    BY <1>1, <1>4, <2>1
  <2>2. CASE m # n
    <3>1. m \in 1 .. n - 1
      BY <1>0, <2>2
    <3> QED
      BY <1>4, <3>1 DEF PassIs
  <2> QED
    BY <2>1, <2>2
<1>6. t \in Pass
  BY <1>1, <1>2, <1>4 DEF Pass
<1>7. PassIs(text, form, t, n)
  BY <1>1, <1>4, <1>5, <1>6 DEF PassIs
<1> QED
  BY <1>7 DEF t

PassLoop(text, form, pass) ==
  pass = [n \in 0 .. Len(text) |->
            IF n = 0 THEN [left |-> <<>>, end |-> 0] ELSE Passed(pass[n - 1], text, form, n)]

LEMMA PassedType ==
  ASSUME NEW text \in Text, NEW form \in Text, NEW s \in Pass, NEW n \in 1 .. Len(text)
  PROVE  Passed(s, text, form, n) \in Pass
<1> DEFINE end == IF n > s.end /\ At(form, text, n) THEN n + Len(form) - 1 ELSE s.end
           char == IF n <= end THEN Blank ELSE text[n]
<1>0. Len(text) \in Nat /\ Len(form) \in Nat /\ Blank \in Char /\ text[n] \in Char
  BY DEF Text, Char
<1>1. end \in Nat
  BY <1>0 DEF Pass
<1>2. char \in Char
  BY <1>0
<1>3. Append(s.left, char) \in Text
  BY <1>2 DEF Pass, Text, Char
<1>4. Passed(s, text, form, n) = [left |-> Append(s.left, char), end |-> end]
  BY DEF Passed
<1> HIDE DEF end, char
<1> QED
  BY <1>1, <1>3, <1>4 DEF Pass

LEMMA PassLoops == ASSUME NEW text \in Text, NEW form \in Text PROVE \E pass : PassLoop(text, form, pass)
<1> DEFINE N == Len(text)
           G == [n \in 1 .. N |-> [s \in Pass |-> Passed(s, text, form, n)]]
<1>0. N \in Nat
  BY DEF Text
<1>1. [left |-> <<>>, end |-> 0] \in Pass
  BY DEF Pass, Text
<1>2. G \in [1 .. N -> [Pass -> Pass]]
  BY PassedType
<1>3. PICK f \in [0 .. N -> Pass] :
        f[0] = [left |-> <<>>, end |-> 0] /\ \A n \in 1 .. N : f[n] = G[n][f[n - 1]]
  <2>1. LoopIsDefined(Pass, N, [left |-> <<>>, end |-> 0], G)
    <3> HIDE DEF G, N
    <3> QED
      BY <1>0, <1>1, <1>2, LoopExists
  <2> QED
    BY <2>1 DEF LoopIsDefined, Loop
<1>4. \A n \in 1 .. N : f[n - 1] \in Pass
  BY <1>0
<1>5. \A n \in 1 .. N : f[n] = Passed(f[n - 1], text, form, n)
  BY <1>3, <1>4
<1>6. f = [n \in 0 .. N |->
             IF n = 0 THEN [left |-> <<>>, end |-> 0] ELSE Passed(f[n - 1], text, form, n)]
  BY <1>0, <1>3, <1>5
<1> QED
  BY <1>6 DEF PassLoop

LEMMA RemovedText ==
  ASSUME NEW text \in Text, NEW form \in Text
  PROVE  RemoveFold(text, form) \in Text
<1> DEFINE N == Len(text)
           pass == CHOOSE pass : PassLoop(text, form, pass)
           T == {n \in 0 .. N : pass[n] \in Pass}
<1>0. N \in Nat
  BY DEF Text
<1>1. PassLoop(text, form, pass)
  BY PassLoops
<1>2. RemoveFold(text, form) = pass[N].left
  BY DEF RemoveFold, PassLoop
<1> HIDE DEF pass
<1>3. 0 \in T
  BY <1>0, <1>1 DEF PassLoop, Pass, Text
<1>4. ASSUME NEW n \in 1 .. N, n - 1 \in T PROVE n \in T
  <2>1. pass[n] = Passed(pass[n - 1], text, form, n)
    BY <1>0, <1>1 DEF PassLoop
  <2> QED
    BY <1>0, <1>4, <2>1, PassedType
<1>5. 0 .. N \subseteq T
  <2> HIDE DEF T, N
  <2> QED
    BY <1>0, <1>3, <1>4, UpTo
<1>6. N \in T
  <2> HIDE DEF T, N
  <2> QED
    BY <1>0, <1>5
<1> QED
  BY <1>2, <1>6 DEF Pass

\* removeFold takes out what the occurrences cover.
LEMMA RemovedForm ==
  ASSUME NEW text \in Text, NEW form \in Text, Apart(form, text)
  PROVE  /\ RemoveFold(text, form) \in Text /\ Len(RemoveFold(text, form)) = Len(text)
         /\ \A n \in 1 .. Len(text) :
              RemoveFold(text, form)[n] = IF Covered(form, text, n) THEN Blank ELSE text[n]
<1> DEFINE N == Len(text)
           pass == CHOOSE pass : PassLoop(text, form, pass)
           T == {n \in 0 .. N : PassIs(text, form, pass[n], n)}
<1>0. N \in Nat
  BY DEF Text
<1>1. PassLoop(text, form, pass)
  BY PassLoops
<1>2. RemoveFold(text, form) = pass[N].left
  BY DEF RemoveFold, PassLoop
<1> HIDE DEF pass
<1>3. 0 \in T
  <2>1. pass[0] = [left |-> <<>>, end |-> 0]
    BY <1>0, <1>1 DEF PassLoop
  <2>2. PassIs(text, form, pass[0], 0)
    BY <2>1 DEF PassIs, Pass, Text
  <2> QED
    BY <1>0, <2>2
<1>4. ASSUME NEW n \in 1 .. N, n - 1 \in T PROVE n \in T
  <2>1. pass[n] = Passed(pass[n - 1], text, form, n)
    BY <1>0, <1>1 DEF PassLoop
  <2> QED
    BY <1>0, <1>4, <2>1, PassedIs
<1>5. 0 .. N \subseteq T
  <2> HIDE DEF T, N
  <2> QED
    BY <1>0, <1>3, <1>4, UpTo
<1>6. N \in T
  <2> HIDE DEF T, N
  <2> QED
    BY <1>0, <1>5
<1>7. PassIs(text, form, pass[N], N)
  BY <1>6
<1> HIDE DEF N
<1>8. pass[N].left \in Text /\ Len(pass[N].left) = N
      /\ \A n \in 1 .. N : pass[N].left[n] = IF Covered(form, text, n) THEN Blank ELSE text[n]
  BY <1>7 DEF PassIs, Pass
<1> QED
  BY <1>2, <1>8 DEF N

-----------------------------------------------------------------------------
(***************************************************************************)
(* Cutting out the forms in turn, which is cutting out all of them at once *)
(* when the vendor's name stands alone: what one form covers, another      *)
(* covers wholly or not at all.                                            *)
(***************************************************************************)
LEMMA FormsText == ASSUME NEW vendor \in Text PROVE Forms(vendor) \subseteq Text
<1> SUFFICES ASSUME NEW w \in ToSet(Words(vendor)), Telling(w) PROVE w \in Text
  BY DEF Forms
<1>1. w \in Word
  BY WordsType DEF ToSet
<1>2. w \in Seq(Letter)
  BY <1>1 DEF Word, Telling
<1> QED
  BY <1>2 DEF Text

LEMMA BlankedText ==
  ASSUME NEW title \in Text, NEW vendor
  PROVE  Blanked(title, vendor) \in Text /\ Len(Blanked(title, vendor)) = Len(title)
<1>1. Len(title) \in Nat /\ \A n \in 1 .. Len(title) : title[n] \in Char
  BY DEF Text, Char
<1>2. Blanked(title, vendor) \in [1 .. Len(title) -> Char]
  BY <1>1 DEF Blanked, Char
<1> QED
  BY <1>1, <1>2 DEF Text, Char

\* An occurrence of a word has letters only.
LEMMA WordLetters ==
  ASSUME NEW text \in Text, NEW word \in Seq(Letter), NEW i \in 1 .. Len(text), At(word, text, i),
         NEW m \in i .. i + Len(word) - 1
  PROVE  m \in 1 .. Len(text) /\ text[m] \in Letter
<1>1. Len(word) \in Nat /\ Len(text) \in Nat /\ i + Len(word) - 1 <= Len(text)
  BY DEF At, Text
<1>2. m - i + 1 \in 1 .. Len(word) /\ i + (m - i + 1) - 1 = m
  BY <1>1
<1>3. word[m - i + 1] \in Letter /\ Alike(word[m - i + 1], text[m])
  BY <1>2 DEF At
<1> QED
  BY <1>1, <1>3 DEF Alike

CoveredBy(forms, title, n) == \E form \in forms : Covered(form, title, n)

LeftOf(forms, title, left) ==
  /\ left \in Text /\ Len(left) = Len(title)
  /\ \A n \in 1 .. Len(title) : left[n] = IF CoveredBy(forms, title, n) THEN Blank ELSE title[n]

LEMMA NextForm ==
  ASSUME NEW title \in Text, NEW vendor \in Text, StandsAlone(title, vendor),
         NEW forms \in SUBSET Forms(vendor), NEW left, LeftOf(forms, title, left),
         NEW word \in Forms(vendor), word \in Seq(Letter)
  PROVE  LeftOf(forms \cup {word}, title, RemoveFold(left, word))
<1> DEFINE L == Len(title)
<1>0. /\ L \in Nat /\ Len(word) \in Nat /\ left \in Text /\ Len(left) = L /\ word \in Text
      /\ \A form \in forms : Len(form) \in Nat
      /\ \A n \in 1 .. L : left[n] = IF CoveredBy(forms, title, n) THEN Blank ELSE title[n]
  BY FormsText DEF LeftOf, Text
<1>1. \A form \in Forms(vendor) : \A i \in 1 .. L :
        At(form, title, i) => /\ i > 1 => title[i - 1] \notin Letter
                              /\ i + Len(form) <= L => title[i + Len(form)] \notin Letter
  BY DEF StandsAlone
<1>2. ASSUME NEW i \in 1 .. L, At(word, left, i) PROVE At(word, title, i)
  <2>1. ASSUME NEW k \in 1 .. Len(word) PROVE Alike(word[k], title[i + k - 1])
    <3>1. i + k - 1 \in i .. i + Len(word) - 1
      BY <1>0
    <3>2. i + k - 1 \in 1 .. L /\ left[i + k - 1] \in Letter
      BY <1>0, <1>2, <3>1, WordLetters
    <3>3. left[i + k - 1] = title[i + k - 1]
      BY <1>0, <3>2, NamespaceAssumption
    <3>4. Alike(word[k], left[i + k - 1])
      BY <1>2 DEF At
    <3> QED
      BY <3>3, <3>4
  <2>2. i + Len(word) - 1 <= Len(title)
    BY <1>0, <1>2 DEF At
  <2> QED
    BY <2>1, <2>2 DEF At
<1>3. Apart(word, left)
  <2> SUFFICES ASSUME NEW i \in 1 .. L, NEW j \in 1 .. L, At(word, title, i), At(word, title, j),
                      i < j, ~(i + Len(word) <= j)
               PROVE  FALSE
    BY <1>0, <1>2 DEF Apart
  <2>1. j - 1 \in i .. i + Len(word) - 1 /\ j > 1
    BY <1>0
  <2>2. title[j - 1] \in Letter
    BY <2>1, WordLetters
  <2> QED
    BY <1>1, <2>1, <2>2
<1>4. ASSUME NEW n \in 1 .. L, Covered(word, left, n) PROVE Covered(word, title, n)
  <2>1. PICK i \in 1 .. n : At(word, left, i) /\ n <= i + Len(word) - 1
    BY <1>4 DEF Covered
  <2>2. i \in 1 .. L
    BY <1>0
  <2> QED
    BY <1>2, <2>1, <2>2 DEF Covered
<1>5. ASSUME NEW n \in 1 .. L, Covered(word, title, n), ~CoveredBy(forms, title, n)
      PROVE  Covered(word, left, n)
  <2>1. PICK i \in 1 .. n : At(word, title, i) /\ n <= i + Len(word) - 1
    BY <1>5 DEF Covered
  <2>2. i \in 1 .. L /\ i \in Nat /\ n \in i .. i + Len(word) - 1
    BY <1>0, <2>1
  <2>3. ASSUME NEW q \in i .. i + Len(word) - 1, CoveredBy(forms, title, q) PROVE FALSE
    <3>0. q \in 1 .. L
      BY <2>1, <2>2, WordLetters
    <3>1. PICK form \in forms, j \in 1 .. q : At(form, title, j) /\ q <= j + Len(form) - 1
      BY <2>3 DEF CoveredBy, Covered
    <3>2. form \in Forms(vendor) /\ Len(form) \in Nat /\ j \in 1 .. L /\ j \in Nat /\ q \in Nat
      BY <1>0, <3>0
    <3>3. j <= i
      <4> SUFFICES ASSUME i < j PROVE FALSE
        BY <2>2, <3>2
      <4>1. j - 1 \in i .. i + Len(word) - 1 /\ j > 1
        BY <1>0, <2>2, <3>2
      <4>2. title[j - 1] \in Letter
        BY <2>1, <2>2, <4>1, WordLetters
      <4> QED
        BY <1>1, <3>1, <3>2, <4>1, <4>2
    <3>4. i + Len(word) - 1 <= j + Len(form) - 1
      <4> SUFFICES ASSUME j + Len(form) <= i + Len(word) - 1 PROVE FALSE
        BY <1>0, <2>2, <3>2
      <4>1. j + Len(form) \in i .. i + Len(word) - 1
        BY <1>0, <2>2, <3>1, <3>2
      <4>2. j + Len(form) <= L /\ title[j + Len(form)] \in Letter
        BY <1>0, <2>1, <2>2, <4>1, WordLetters
      <4> QED
        BY <1>1, <3>1, <3>2, <4>2
    <3>5. j \in 1 .. n /\ n <= j + Len(form) - 1
      BY <1>0, <2>2, <3>2, <3>3, <3>4
    <3>6. Covered(form, title, n)
      BY <3>1, <3>5 DEF Covered
    <3> QED
      BY <1>5, <3>6 DEF CoveredBy
  <2>4. ASSUME NEW k \in 1 .. Len(word) PROVE Alike(word[k], left[i + k - 1])
    <3>1. i + k - 1 \in i .. i + Len(word) - 1
      BY <1>0, <2>2
    <3>2. i + k - 1 \in 1 .. L
      BY <2>1, <2>2, <3>1, WordLetters
    <3>3. left[i + k - 1] = title[i + k - 1]
      BY <1>0, <2>3, <3>1, <3>2
    <3> QED
      BY <2>1, <3>3 DEF At
  <2>5. At(word, left, i)
    BY <1>0, <2>1, <2>4 DEF At
  <2> QED
    BY <2>1, <2>5 DEF Covered
<1>6. /\ RemoveFold(left, word) \in Text /\ Len(RemoveFold(left, word)) = L
      /\ \A n \in 1 .. L :
           RemoveFold(left, word)[n] = IF Covered(word, left, n) THEN Blank ELSE left[n]
  BY <1>0, <1>3, RemovedForm
<1>7. \A n \in 1 .. L :
        CoveredBy(forms \cup {word}, title, n) <=> CoveredBy(forms, title, n) \/ Covered(word, title, n)
  BY DEF CoveredBy
<1> QED
  BY <1>0, <1>4, <1>5, <1>6, <1>7 DEF LeftOf

FormLoop(title, vendor, left) ==
  left = [n \in 0 .. Len(Words(vendor)) |->
            IF n = 0 THEN RemoveFold(title, vendor)
            ELSE IF Telling(Words(vendor)[n]) THEN RemoveFold(left[n - 1], Words(vendor)[n])
            ELSE left[n - 1]]

LEMMA FormLoops ==
  ASSUME NEW title \in Text, NEW vendor \in Text
  PROVE  \E left : FormLoop(title, vendor, left)
<1> DEFINE words == Words(vendor)
           N == Len(words)
           G == [n \in 1 .. N |-> [text \in Text |->
                   IF Telling(words[n]) THEN RemoveFold(text, words[n]) ELSE text]]
<1>0. words \in Seq(Word) /\ N \in Nat
  BY WordsType
<1>1. ASSUME NEW text \in Text, NEW n \in 1 .. N, Telling(words[n])
      PROVE  RemoveFold(text, words[n]) \in Text
  <2>1. words[n] \in Forms(vendor)
    BY <1>0, <1>1 DEF Forms, ToSet
  <2> QED
    BY <2>1, FormsText, RemovedText
<1>2. G \in [1 .. N -> [Text -> Text]]
  BY <1>1
<1>3. RemoveFold(title, vendor) \in Text
  BY RemovedText
<1>4. PICK f \in [0 .. N -> Text] :
        f[0] = RemoveFold(title, vendor) /\ \A n \in 1 .. N : f[n] = G[n][f[n - 1]]
  <2>1. LoopIsDefined(Text, N, RemoveFold(title, vendor), G)
    <3> HIDE DEF G, N
    <3> QED
      BY <1>0, <1>2, <1>3, LoopExists
  <2> QED
    BY <2>1 DEF LoopIsDefined, Loop
<1>5. ASSUME NEW n \in 1 .. N
      PROVE  f[n] = IF Telling(words[n]) THEN RemoveFold(f[n - 1], words[n]) ELSE f[n - 1]
  <2>1. f[n - 1] \in Text
    BY <1>0, <1>4
  <2> QED
    BY <1>4, <2>1
<1>6. f = [n \in 0 .. N |->
             IF n = 0 THEN RemoveFold(title, vendor)
             ELSE IF Telling(words[n]) THEN RemoveFold(f[n - 1], words[n]) ELSE f[n - 1]]
  BY <1>0, <1>4, <1>5
<1> QED
  BY <1>6 DEF FormLoop

\* The forms of the first n words, and the whole name.
FormsTo(vendor, n) ==
  {vendor} \cup {w \in {Words(vendor)[i] : i \in 1 .. n} : Telling(w)}

\* conflictingOrg takes out the vendor's name and all the telling words of it.
LEMMA CleanedIsBlanked ==
  ASSUME NEW title \in Text, NEW vendor \in Text, StandsAlone(title, vendor)
  PROVE  Cleaned(title, vendor) = Blanked(title, vendor)
<1> DEFINE words == Words(vendor)
           N == Len(words)
           left == CHOOSE left : FormLoop(title, vendor, left)
           T == {n \in 0 .. N : LeftOf(FormsTo(vendor, n), title, left[n])}
<1>0. words \in Seq(Word) /\ N \in Nat
  BY WordsType
<1>1. FormLoop(title, vendor, left)
  BY FormLoops
<1>2. Cleaned(title, vendor) = left[N]
  BY DEF Cleaned, FormLoop
<1> HIDE DEF left
<1>3. 0 \in T
  <2>1. Apart(vendor, title)
    BY DEF StandsAlone, Apart
  <2>2. left[0] = RemoveFold(title, vendor)
    BY <1>0, <1>1 DEF FormLoop
  <2>3. FormsTo(vendor, 0) = {vendor}
    BY DEF FormsTo
  <2>4. LeftOf({vendor}, title, left[0])
    BY <2>1, <2>2, RemovedForm DEF LeftOf, CoveredBy
  <2> QED
    BY <1>0, <2>3, <2>4
<1>4. ASSUME NEW n \in 1 .. N, n - 1 \in T PROVE n \in T
  <2>0. n \in Nat /\ words[n] \in Word /\ \A i \in 1 .. n : i \in 1 .. n - 1 \/ i = n
    BY <1>0
  <2>1. left[n] = IF Telling(words[n]) THEN RemoveFold(left[n - 1], words[n]) ELSE left[n - 1]
    BY <1>0, <1>1 DEF FormLoop
  <2>2. {words[i] : i \in 1 .. n} = {words[i] : i \in 1 .. n - 1} \cup {words[n]}
    BY <2>0
  <2>3. CASE Telling(words[n])
    <3>1. FormsTo(vendor, n) = FormsTo(vendor, n - 1) \cup {words[n]}
      BY <2>2, <2>3 DEF FormsTo
    <3>2. FormsTo(vendor, n - 1) \subseteq Forms(vendor) /\ words[n] \in Forms(vendor)
      BY <1>0, <2>3 DEF FormsTo, Forms, ToSet
    <3>3. words[n] \in Seq(Letter)
      BY <2>0, <2>3 DEF Word, Telling
    <3>4. LeftOf(FormsTo(vendor, n - 1), title, left[n - 1])
      BY <1>4
    <3>5. LeftOf(FormsTo(vendor, n - 1) \cup {words[n]}, title, RemoveFold(left[n - 1], words[n]))
      BY <3>2, <3>3, <3>4, NextForm
    <3>6. LeftOf(FormsTo(vendor, n), title, left[n])
      BY <2>1, <2>3, <3>1, <3>5
    <3> QED
      BY <2>0, <3>6
  <2>4. CASE ~Telling(words[n])
    <3>1. FormsTo(vendor, n) = FormsTo(vendor, n - 1)
      BY <2>2, <2>4 DEF FormsTo
    <3> QED
      BY <1>4, <2>0, <2>1, <2>4, <3>1
  <2> QED
    BY <2>3, <2>4
<1>5. 0 .. N \subseteq T
  <2> HIDE DEF T, N
  <2> QED
    BY <1>0, <1>3, <1>4, UpTo
<1>6. N \in T
  <2> HIDE DEF T, N
  <2> QED
    BY <1>0, <1>5
<1>7. FormsTo(vendor, N) = Forms(vendor)
  BY <1>0 DEF FormsTo, Forms, ToSet
<1>8. LeftOf(Forms(vendor), title, left[N])
  BY <1>6, <1>7
<1>9. left[N] \in Seq(Char) /\ Len(left[N]) = Len(title)
  BY <1>8 DEF LeftOf, Text, Char
<1>10. \A n \in 1 .. Len(title) : left[N][n] = Blanked(title, vendor)[n]
  BY <1>8 DEF LeftOf, Blanked, CoveredBy
<1>11. left[N] = [n \in 1 .. Len(title) |-> left[N][n]]
  BY <1>9
<1>12. left[N] = Blanked(title, vendor)
  BY <1>10, <1>11 DEF Blanked
<1> QED
  BY <1>2, <1>12

-----------------------------------------------------------------------------
(***************************************************************************)
(* One word.                                                               *)
(***************************************************************************)
\* A set of numbers with a bound has a greatest one.
LEMMA GreatestOf ==
  ASSUME NEW N \in Nat, NEW I \in SUBSET (1 .. N), I # {}
  PROVE  \E m \in I : \A i \in I : m >= i
<1> DEFINE U == {u \in Nat : \A i \in I : u >= i}
<1>1. N \in U
  OBVIOUS
<1>2. PICK m \in U : \A u \in U : m <= u
  <2>1. U \in SUBSET Nat /\ U # {}
    BY <1>1
  <2> HIDE DEF U
  <2> QED
    BY <2>1, Least
<1>3. m \in I
  <2> SUFFICES ASSUME m \notin I PROVE FALSE
    OBVIOUS
  <2>1. m \in Nat /\ \A i \in I : i \in Nat /\ i > 0 /\ m >= i /\ m # i
    BY <1>2
  <2>2. m - 1 \in Nat /\ \A i \in I : m - 1 >= i
    <3>1. \A i \in I : m - 1 >= i
      BY <2>1
    <3>2. PICK i \in I : TRUE
      OBVIOUS
    <3>3. i \in Nat /\ i > 0 /\ m >= i /\ m \in Nat
      BY <2>1
    <3> QED
      BY <3>1, <3>3
  <2>3. m - 1 \in U
    BY <2>2
  <2> QED
    BY <1>2, <2>1, <2>3
<1> QED
  BY <1>2, <1>3

Reading == [run : Seq(Word), named : Nat, phrases : SUBSET Seq(Word)]

LEMMA TrimmedWords ==
  ASSUME NEW run \in Seq(Word)
  PROVE  Trimmed(run) \in Seq(Word)
<1> DEFINE I == {i \in 1 .. Len(run) : run[i] \notin Connector}
<1>1. PICK m \in 0 .. Len(run) : Trimmed(run) = SubSeq(run, 1, m)
  <2>1. CASE I = {}
    <3>1. Trimmed(run) = SubSeq(run, 1, 0)
      BY <2>1 DEF Trimmed, SelectLastInSeq
    <3> QED
      BY <3>1
  <2>2. CASE I # {}
    <3>1. Trimmed(run) = SubSeq(run, 1, Max(I))
      BY <2>2 DEF Trimmed, SelectLastInSeq
    <3>2. \E m \in 0 .. Len(run) : Max(I) = m
      <4>1. I \in SUBSET (1 .. Len(run)) /\ Len(run) \in Nat
        OBVIOUS
      <4> HIDE DEF I
      <4>2. \E m \in I : \A i \in I : m >= i
        BY <2>2, <4>1, GreatestOf
      <4>3. Max(I) \in I
        BY <4>2 DEF Max
      <4>4. Max(I) \in 1 .. Len(run)
        BY <4>1, <4>3
      <4>5. Max(I) \in 0 .. Len(run)
        BY <4>4
      <4> QED
        BY <4>5
    <3> QED
      BY <3>1, <3>2
  <2> QED
    BY <2>1, <2>2
<1> QED
  BY <1>1

LEMMA FlushFields ==
  ASSUME NEW s \in Reading
  PROVE  /\ Flush(s) \in Reading /\ Flush(s).run = <<>> /\ Flush(s).named = 0
         /\ s.phrases \subseteq Flush(s).phrases
         /\ s.named >= 2 /\ Len(Trimmed(s.run)) >= 2 => Trimmed(s.run) \in Flush(s).phrases
<1>1. s.run \in Seq(Word) /\ s.named \in Nat /\ s.phrases \subseteq Seq(Word)
  BY DEF Reading
<1>2. Trimmed(s.run) \in Seq(Word)
  BY <1>1, TrimmedWords
<1> DEFINE found == IF s.named >= 2 /\ Len(Trimmed(s.run)) >= 2
                    THEN s.phrases \cup {Trimmed(s.run)} ELSE s.phrases
<1>3. Flush(s) = [run |-> <<>>, named |-> 0, phrases |-> found]
  BY DEF Flush
<1>4. /\ found \subseteq Seq(Word) /\ s.phrases \subseteq found
      /\ s.named >= 2 /\ Len(Trimmed(s.run)) >= 2 => Trimmed(s.run) \in found
  BY <1>1, <1>2
<1> HIDE DEF found
<1> QED
  BY <1>3, <1>4 DEF Reading

LEMMA ReadFields ==
  ASSUME NEW s \in Reading, NEW w \in Word
  PROVE  /\ Read(s, w) \in Reading
         /\ w \in Capital =>
              /\ Read(s, w).run = Append(s.run, w) /\ Read(s, w).phrases = s.phrases
              /\ Read(s, w).named = IF w \in Generic THEN s.named ELSE s.named + 1
         /\ w \notin Capital /\ w \in Connector /\ s.run # <<>> =>
              /\ Read(s, w).run = Append(s.run, w) /\ Read(s, w).phrases = s.phrases
              /\ Read(s, w).named = s.named
         /\ w \notin Capital /\ ~(w \in Connector /\ s.run # <<>>) => Read(s, w) = Flush(s)
<1> DEFINE run == Append(s.run, w)
           named == IF w \in Generic THEN s.named ELSE s.named + 1
<1>1. CASE w \in Capital
  <2>1. Read(s, w) = [s EXCEPT !.run = run, !.named = named]
    BY <1>1 DEF Read
  <2>2. run \in Seq(Word) /\ named \in Nat
    BY DEF Reading
  <2> HIDE DEF run, named
  <2>3. /\ Read(s, w) \in Reading /\ Read(s, w).run = run
        /\ Read(s, w).named = named /\ Read(s, w).phrases = s.phrases
    BY <2>1, <2>2 DEF Reading
  <2> QED
    BY <1>1, <2>3 DEF run, named
<1>2. CASE w \notin Capital /\ w \in Connector /\ s.run # <<>>
  <2>1. Read(s, w) = [s EXCEPT !.run = run]
    BY <1>2 DEF Read
  <2>2. run \in Seq(Word)
    BY DEF Reading
  <2> HIDE DEF run
  <2>3. /\ Read(s, w) \in Reading /\ Read(s, w).run = run
        /\ Read(s, w).named = s.named /\ Read(s, w).phrases = s.phrases
    BY <2>1, <2>2 DEF Reading
  <2> QED
    BY <1>2, <2>3 DEF run
<1>3. CASE w \notin Capital /\ ~(w \in Connector /\ s.run # <<>>)
  BY <1>3, FlushFields DEF Read
<1> QED
  BY <1>1, <1>2, <1>3

-----------------------------------------------------------------------------
(***************************************************************************)
(* The words read so far: the run is the stretch that is still open, and   *)
(* the phrases are the names in the stretches that are not.                *)
(***************************************************************************)
Goes(words, k) == words[k] \in Capital \cup Connector

Opens(words, st, n) ==
  /\ words[st] \in Capital /\ \A k \in st .. n : Goes(words, k)
  /\ ~\E h \in 1 .. st - 1 : words[h] \in Capital /\ \A k \in h .. st : Goes(words, k)

Proper(words, k) == words[k] \in Capital \ Generic

Counted(words, s, st, n) ==
  /\ \A g \in st .. n : Proper(words, g) => s.named >= 1
  /\ \A g, h \in st .. n : g # h /\ Proper(words, g) /\ Proper(words, h) => s.named >= 2

Shut(words, n) == ~\E h \in 1 .. n : words[h] \in Capital /\ \A k \in h .. n : Goes(words, k)

RunIs(words, s, n) ==
  \/ s.run = <<>> /\ s.named = 0 /\ Shut(words, n)
  \/ \E st \in 1 .. n :
       s.run = SubSeq(words, st, n) /\ Opens(words, st, n) /\ Counted(words, s, st, n)

NameIn(words, i, j, last) ==
  /\ IsStretch(words, i, last)
  /\ j > i /\ words[j] \notin Connector /\ \A k \in j + 1 .. last : words[k] \in Connector
  /\ \E g, h \in i .. last : g # h /\ {words[g], words[h]} \subseteq Capital \ Generic

\* A name in an open stretch is what is left of the run without its last connectors.
LEMMA RunHoldsName ==
  ASSUME NEW words \in Seq(Word), NEW n \in 1 .. Len(words), NEW s \in Reading, RunIs(words, s, n),
         NEW i \in 1 .. n, NEW j \in i .. n, NameIn(words, i, j, n)
  PROVE  SubSeq(words, i, j) \in Flush(s).phrases
<1>0. n \in Nat /\ Len(words) \in Nat /\ i \in Nat /\ j \in Nat /\ j > i
  BY DEF NameIn
<1>1. words[i] \in Capital /\ \A k \in i .. n : Goes(words, k)
  BY DEF NameIn, IsStretch, Goes
<1>2. ~\E h \in 1 .. i - 1 : words[h] \in Capital /\ \A k \in h .. i : Goes(words, k)
  BY DEF NameIn, IsStretch, Goes
<1>3. PICK st \in 1 .. n :
        s.run = SubSeq(words, st, n) /\ Opens(words, st, n) /\ Counted(words, s, st, n)
  BY <1>1 DEF RunIs, Shut
<1>4. st = i
  <2>1. ~(st < i)
    <3> SUFFICES ASSUME st < i PROVE FALSE
      OBVIOUS
    <3>1. st \in 1 .. i - 1 /\ words[st] \in Capital /\ \A k \in st .. i : Goes(words, k)
      BY <1>0, <1>3 DEF Opens
    <3> QED
      BY <1>2, <3>1
  <2>2. ~(i < st)
    <3> SUFFICES ASSUME i < st PROVE FALSE
      OBVIOUS
    <3>1. i \in 1 .. st - 1 /\ \A k \in i .. st : Goes(words, k)
      BY <1>0, <1>1
    <3> QED
      BY <1>1, <1>3, <3>1 DEF Opens
  <2> QED
    BY <1>0, <2>1, <2>2
<1>5. s.named >= 2
  <2>1. PICK g \in i .. n, h \in i .. n : g # h /\ Proper(words, g) /\ Proper(words, h)
    BY DEF NameIn, Proper
  <2> QED
    BY <1>3, <1>4, <2>1 DEF Counted
<1> DEFINE run == SubSeq(words, i, n)
           m == j - i + 1
           I == {k \in 1 .. Len(run) : run[k] \notin Connector}
<1>6. /\ run \in Seq(Word) /\ Len(run) = n - i + 1
      /\ \A k \in 1 .. n - i + 1 : run[k] = words[i + k - 1]
  BY <1>0, SubSeqProperties
<1>7. m \in I /\ \A k \in I : m >= k
  <2>1. m \in 1 .. n - i + 1 /\ i + m - 1 = j
    BY <1>0
  <2>2. m \in I
    BY <1>6, <2>1 DEF NameIn
  <2>3. ASSUME NEW k \in 1 .. n - i + 1, k > m PROVE run[k] \in Connector
    <3>1. i + k - 1 \in j + 1 .. n
      BY <1>0, <2>3
    <3>2. words[i + k - 1] \in Connector
      BY <3>1 DEF NameIn
    <3> QED
      BY <1>6, <3>2
  <2>4. ASSUME NEW k \in I PROVE m >= k
    <3>1. k \in 1 .. n - i + 1 /\ run[k] \notin Connector
      BY <1>6
    <3> QED
      BY <1>0, <2>3, <3>1
  <2> QED
    BY <2>2, <2>4
<1>8. Trimmed(run) = SubSeq(run, 1, m)
  <2>1. Max(I) = m
    <3>1. \A k \in I : k \in Nat
      OBVIOUS
    <3> HIDE DEF I
    <3>2. \A x \in I : (\A y \in I : x >= y) => x = m
      BY <1>0, <1>7, <3>1
    <3> QED
      BY <1>7, <3>2 DEF Max
  <2>2. I # {}
    BY <1>7
  <2> QED
    BY <2>1, <2>2 DEF Trimmed, SelectLastInSeq
<1>9. SubSeq(run, 1, m) = SubSeq(words, i, j) /\ Len(SubSeq(words, i, j)) >= 2
  <2>1. /\ i \in 1 .. Len(words) /\ n \in 1 .. Len(words) /\ 1 \in 1 .. n - i + 1
        /\ m \in 1 .. n - i + 1 /\ i + 1 - 1 = i /\ i + m - 1 = j
    BY <1>0
  <2>2. SubSeq(run, 1, m) = SubSeq(words, i + 1 - 1, i + m - 1)
    BY <2>1, SubSeqOfSubSeq
  <2>3. Len(SubSeq(words, i, j)) = j - i + 1
    BY <1>0, SubSeqProperties
  <2> QED
    BY <1>0, <2>1, <2>2, <2>3
<1> HIDE DEF run, m
<1> QED
  BY <1>3, <1>4, <1>5, <1>8, <1>9, FlushFields DEF run

\* Reading on keeps the run the open stretch.
LEMMA ReadRun ==
  ASSUME NEW words \in Seq(Word), NEW n \in 1 .. Len(words), NEW s \in Reading,
         RunIs(words, s, n - 1)
  PROVE  RunIs(words, Read(s, words[n]), n)
<1> DEFINE w == words[n]
           t == Read(s, w)
<1>0. n \in Nat /\ Len(words) \in Nat /\ w \in Word /\ s.named \in Nat /\ t \in Reading
  BY ReadFields DEF Reading
<1>1. CASE w \in Capital \cup Connector /\ s.run # <<>>
  <2>1. PICK st \in 1 .. n - 1 :
          s.run = SubSeq(words, st, n - 1) /\ Opens(words, st, n - 1) /\ Counted(words, s, st, n - 1)
    BY <1>1 DEF RunIs
  <2>2. t.run = Append(s.run, w)
    BY <1>0, <1>1, ReadFields
  <2>3. t.named = IF w \in Capital \ Generic THEN s.named + 1 ELSE s.named
    BY <1>0, <1>1, ReadFields
  <2>4. t.run = SubSeq(words, st, n)
    <3>1. st \in 1 .. Len(words) /\ n \in st .. Len(words)
      BY <1>0
    <3>2. SubSeq(words, st, n) = SubSeq(words, st, n - 1) \o <<words[n]>>
      BY <3>1, SubSeqRecursiveSecond
    <3>3. SubSeq(words, st, n - 1) \in Seq(Word)
      BY <2>1, <1>0, ReadFields DEF Reading
    <3>4. Append(SubSeq(words, st, n - 1), w) = SubSeq(words, st, n - 1) \o <<w>>
      BY <1>0, <3>3, AppendIsConcat
    <3> QED
      BY <2>1, <2>2, <3>2, <3>4
  <2>5. Opens(words, st, n)
    <3>1. \A k \in st .. n : k \in st .. n - 1 \/ k = n
      BY <1>0
    <3>2. Goes(words, n)
      BY <1>1 DEF Goes
    <3> QED
      BY <2>1, <3>1, <3>2 DEF Opens
  <2>6. Counted(words, t, st, n)
    <3>1. \A k \in st .. n : k \in st .. n - 1 \/ k = n
      BY <1>0
    <3>2. CASE Proper(words, n)
      <4>1. t.named = s.named + 1
        BY <2>3, <3>2 DEF Proper
      <4>2. \A g \in st .. n - 1 : Proper(words, g) => t.named >= 2
        BY <1>0, <2>1, <4>1 DEF Counted
      <4>3. t.named >= 1
        BY <1>0, <4>1
      <4>4. ASSUME NEW g \in st .. n, NEW h \in st .. n, g # h, Proper(words, g), Proper(words, h)
            PROVE  t.named >= 2
        <5>1. g \in st .. n - 1 \/ h \in st .. n - 1
          BY <3>1, <4>4
        <5> QED
          BY <4>2, <4>4, <5>1
      <4> QED
        BY <4>3, <4>4 DEF Counted
    <3>3. CASE ~Proper(words, n)
      <4>1. t.named = s.named
        BY <2>3, <3>3 DEF Proper
      <4>2. \A k \in st .. n : Proper(words, k) => k \in st .. n - 1
        BY <3>1, <3>3
      <4> QED
        BY <2>1, <4>1, <4>2 DEF Counted
    <3> QED
      BY <3>2, <3>3
  <2>7. st \in 1 .. n
    BY <1>0
  <2> QED
    BY <2>4, <2>5, <2>6, <2>7 DEF RunIs
<1>2. CASE w \in Capital /\ s.run = <<>>
  <2>1. Shut(words, n - 1)
    <3>1. \A st \in 1 .. n - 1 : SubSeq(words, st, n - 1) # <<>>
      <4>1. ASSUME NEW st \in 1 .. n - 1 PROVE SubSeq(words, st, n - 1) # <<>>
        <5>1. Len(SubSeq(words, st, n - 1)) = n - 1 - st + 1
          BY <1>0, SubSeqProperties
        <5>2. Len(SubSeq(words, st, n - 1)) # 0
          BY <1>0, <5>1
        <5> QED
          BY <5>2
      <4> QED
        BY <4>1
    <3> QED
      BY <1>2, <3>1 DEF RunIs
  <2>2. t.run = Append(<<>>, w) /\ t.named = IF w \in Generic THEN s.named ELSE s.named + 1
    BY <1>0, <1>2, ReadFields
  <2>3. t.run = SubSeq(words, n, n)
    <3>1. n \in 1 .. Len(words) /\ n \in n .. Len(words) /\ n - 1 < n
      BY <1>0
    <3>2. SubSeq(words, n, n) = SubSeq(words, n, n - 1) \o <<words[n]>>
      BY <3>1, SubSeqRecursiveSecond
    <3>3. SubSeq(words, n, n - 1) = <<>>
      BY <1>0, <3>1, SubSeqEmpty
    <3>4. <<>> \o <<w>> = Append(<<>>, w)
      BY <1>0
    <3> QED
      BY <2>2, <3>2, <3>3, <3>4
  <2>4. Opens(words, n, n)
    <3>1. \A k \in n .. n : k = n
      BY <1>0
    <3>2. Goes(words, n)
      BY <1>2 DEF Goes
    <3>3. ASSUME NEW h \in 1 .. n - 1, words[h] \in Capital, \A k \in h .. n : Goes(words, k)
          PROVE  FALSE
      <4>1. \A k \in h .. n - 1 : k \in h .. n
        BY <1>0
      <4> QED
        BY <2>1, <3>3, <4>1 DEF Shut
    <3> QED
      BY <1>2, <3>1, <3>2, <3>3 DEF Opens
  <2>5. Counted(words, t, n, n)
    <3>1. \A k \in n .. n : k = n
      BY <1>0
    <3>2. Proper(words, n) => t.named >= 1
      BY <1>0, <2>2 DEF Proper
    <3> QED
      BY <3>1, <3>2 DEF Counted
  <2>6. n \in 1 .. n
    BY <1>0
  <2> QED
    BY <2>3, <2>4, <2>5, <2>6 DEF RunIs
<1>3. CASE w \notin Capital /\ ~(w \in Connector /\ s.run # <<>>)
  <2>1. t.run = <<>> /\ t.named = 0
    BY <1>0, <1>3, ReadFields, FlushFields
  <2>2. Shut(words, n)
    <3> SUFFICES ASSUME NEW h \in 1 .. n, words[h] \in Capital, \A k \in h .. n : Goes(words, k)
                 PROVE  FALSE
      BY DEF Shut
    <3>1. h # n /\ h \in 1 .. n - 1 /\ n \in h .. n /\ \A k \in h .. n - 1 : k \in h .. n
      BY <1>0, <1>3
    <3>2. s.run = <<>>
      BY <1>3, <3>1 DEF Goes
    <3>3. ~Shut(words, n - 1)
      BY <3>1 DEF Shut
    <3>4. PICK st \in 1 .. n - 1 : s.run = SubSeq(words, st, n - 1)
      BY <3>3 DEF RunIs
    <3>5. Len(SubSeq(words, st, n - 1)) = n - 1 - st + 1
      BY <1>0, SubSeqProperties
    <3>6. Len(SubSeq(words, st, n - 1)) # 0
      BY <1>0, <3>5
    <3> QED
      BY <3>2, <3>4, <3>6
  <2> QED
    BY <2>1, <2>2 DEF RunIs
<1> QED
  BY <1>1, <1>2, <1>3

\* The names of the stretches that ended before the n-th word are among the phrases.
Listed(words, s, n) ==
  \A i, j, last \in 1 .. Len(words) :
    last < n /\ i <= j /\ j <= last /\ NameIn(words, i, j, last) => SubSeq(words, i, j) \in s.phrases

LEMMA ReadLists ==
  ASSUME NEW words \in Seq(Word), NEW n \in 1 .. Len(words), NEW s \in Reading,
         RunIs(words, s, n - 1), Listed(words, s, n - 1)
  PROVE  Listed(words, Read(s, words[n]), n)
<1> DEFINE t == Read(s, words[n])
<1>0. n \in Nat /\ Len(words) \in Nat /\ words[n] \in Word
  OBVIOUS
<1>1. s.phrases \subseteq t.phrases
  BY <1>0, ReadFields, FlushFields
<1>2. ASSUME NEW i \in 1 .. Len(words), NEW j \in 1 .. Len(words), NEW last \in 1 .. Len(words),
             last < n, i <= j, j <= last, NameIn(words, i, j, last)
      PROVE  SubSeq(words, i, j) \in t.phrases
  <2>1. CASE last < n - 1
    <3>1. SubSeq(words, i, j) \in s.phrases
      BY <1>2, <2>1 DEF Listed
    <3> QED
      BY <1>1, <3>1
  <2>2. CASE last = n - 1
    <3>1. last < Len(words) /\ last + 1 = n
      BY <1>0, <2>2
    <3>2. words[n] \notin Capital \cup Connector
      BY <1>2, <3>1 DEF NameIn, IsStretch
    <3>3. t = Flush(s)
      BY <1>0, <3>2, ReadFields
    <3>4. n - 1 \in 1 .. Len(words) /\ i \in 1 .. n - 1 /\ j \in i .. n - 1
      BY <1>0, <1>2, <2>2
    <3>5. SubSeq(words, i, j) \in Flush(s).phrases
      BY <1>2, <2>2, <3>4, RunHoldsName
    <3> QED
      BY <3>3, <3>5
  <2> QED
    BY <1>0, <1>2, <2>1, <2>2
<1> HIDE DEF t
<1>3. Listed(words, t, n)
  BY <1>2 DEF Listed
<1> QED
  BY <1>3 DEF t

ReadLoop(words, read, N) ==
  read = [n \in 0 .. N |-> IF n = 0 THEN Fresh ELSE Read(read[n - 1], words[n])]

LEMMA ReadLoops ==
  ASSUME NEW words \in Seq(Word)
  PROVE  \E read : ReadLoop(words, read, Len(words))
<1> DEFINE N == Len(words)
           G == [n \in 1 .. N |-> [s \in Reading |-> Read(s, words[n])]]
<1>0. N \in Nat /\ \A n \in 1 .. N : words[n] \in Word
  OBVIOUS
<1>1. Fresh \in Reading
  BY DEF Fresh, Reading
<1>2. G \in [1 .. N -> [Reading -> Reading]]
  BY <1>0, ReadFields
<1>3. PICK f \in [0 .. N -> Reading] :
        f[0] = Fresh /\ \A n \in 1 .. N : f[n] = G[n][f[n - 1]]
  <2>1. LoopIsDefined(Reading, N, Fresh, G)
    <3> HIDE DEF G, N
    <3> QED
      BY <1>0, <1>1, <1>2, LoopExists
  <2> QED
    BY <2>1 DEF LoopIsDefined, Loop
<1>4. \A n \in 1 .. N : f[n - 1] \in Reading
  BY <1>0
<1>5. \A n \in 1 .. N : f[n] = Read(f[n - 1], words[n])
  BY <1>3, <1>4
<1>6. f = [n \in 0 .. N |-> IF n = 0 THEN Fresh ELSE Read(f[n - 1], words[n])]
  BY <1>0, <1>3, <1>5
<1> QED
  BY <1>6 DEF ReadLoop

\* Every name that the reference describes is among the phrases of its segment.
LEMMA NamesFound ==
  ASSUME NEW words \in Seq(Word), NEW i \in DOMAIN words, NEW j \in DOMAIN words,
         IsName(words, i, j)
  PROVE  SubSeq(words, i, j) \in ProperNounPhrases(words)
<1> DEFINE N == Len(words)
           read == CHOOSE read : ReadLoop(words, read, N)
           T == {n \in 0 .. N : /\ read[n] \in Reading /\ RunIs(words, read[n], n)
                                /\ Listed(words, read[n], n)}
<1>0. N \in Nat /\ DOMAIN words = 1 .. N
  OBVIOUS
<1>1. ReadLoop(words, read, N)
  <2>1. \E o : ReadLoop(words, o, N)
    BY ReadLoops
  <2> QED
    BY <2>1
<1>2. ProperNounPhrases(words) = Flush(read[N]).phrases
  BY DEF ProperNounPhrases, ReadLoop
<1> HIDE DEF read
<1>3. 0 \in T
  <2>1. read[0] = [run |-> <<>>, named |-> 0, phrases |-> {}]
    BY <1>0, <1>1 DEF ReadLoop, Fresh
  <2>2. read[0] \in Reading
    BY <2>1 DEF Reading
  <2>3. RunIs(words, read[0], 0)
    BY <2>1 DEF RunIs, Shut
  <2>4. Listed(words, read[0], 0)
    BY <1>0 DEF Listed
  <2> QED
    BY <1>0, <2>2, <2>3, <2>4
<1>4. ASSUME NEW n \in 1 .. N, n - 1 \in T PROVE n \in T
  <2>1. read[n] = Read(read[n - 1], words[n]) /\ words[n] \in Word
    BY <1>1 DEF ReadLoop
  <2>2. read[n - 1] \in Reading /\ RunIs(words, read[n - 1], n - 1) /\ Listed(words, read[n - 1], n - 1)
    BY <1>4
  <2>3. read[n] \in Reading
    BY <2>1, <2>2, ReadFields
  <2>4. RunIs(words, read[n], n)
    BY <2>1, <2>2, ReadRun
  <2>5. Listed(words, read[n], n)
    BY <2>1, <2>2, ReadLists
  <2> QED
    BY <2>3, <2>4, <2>5
<1>5. 0 .. N \subseteq T
  <2> HIDE DEF T, N
  <2> QED
    BY <1>0, <1>3, <1>4, UpTo
<1>6. N \in T
  <2> HIDE DEF T, N
  <2> QED
    BY <1>0, <1>5
<1>7. PICK last \in j .. N : NameIn(words, i, j, last)
  BY DEF IsName, NameIn
<1>8. i <= j /\ j <= last /\ last \in 1 .. N /\ i \in 1 .. N /\ j \in 1 .. N
  BY <1>0, <1>7 DEF NameIn
<1>9. read[N] \in Reading /\ RunIs(words, read[N], N) /\ Listed(words, read[N], N)
  BY <1>6
<1>10. CASE last < N
  <2>1. SubSeq(words, i, j) \in read[N].phrases
    BY <1>7, <1>8, <1>9, <1>10 DEF Listed
  <2> QED
    BY <1>2, <1>9, <2>1, FlushFields
<1>11. CASE last = N
  <2>1. N \in 1 .. Len(words) /\ i \in 1 .. N /\ j \in i .. N /\ NameIn(words, i, j, N)
    BY <1>0, <1>7, <1>8, <1>11
  <2> QED
    BY <1>2, <1>9, <2>1, RunHoldsName
<1>12. last < N \/ last = N
  <2>1. last \in 1 .. N /\ N \in Nat
    BY <1>0, <1>8
  <2> HIDE DEF N
  <2> QED
    BY <2>1
<1> QED
  BY <1>10, <1>11, <1>12

\* The title check objects to every title that names somebody else.
LEMMA StrangersFound == Strangers \subseteq Conflicts
<1> SUFFICES ASSUME NEW p \in Probe, NEW title \in TitleTexts, p[2] > 0,
                    StandsAlone(title, Sig(p).vendor),
                    NamesOther(title, Named(p), FirstLabel, Sig(p).vendor)
             PROVE  ConflictingOrg(title, Named(p), FirstLabel, Sig(p).vendor)
  BY DEF Strangers, Conflicts
<1> DEFINE words == Words(Blanked(title, Sig(p).vendor))
<1>1. title \in Text /\ Sig(p).vendor \in Text
  <2>1. <<>> \in Text
    BY DEF Text
  <2>2. Sig(p) \in Signature
    BY HttpAssumption DEF Probe, Sig
  <2> QED
    BY <2>1, <2>2, HttpAssumption DEF TitleTexts, Signature
<1>2. Blanked(title, Sig(p).vendor) \in Text
  BY <1>1, BlankedText
<1>3. words \in Seq(Word)
  BY <1>2, WordsType
<1>4. PICK i \in DOMAIN words, j \in DOMAIN words :
        /\ IsName(words, i, j)
        /\ ~Overlaps(Normalise(SubSeq(words, i, j)), Named(p))
        /\ ~Overlaps(Normalise(SubSeq(words, i, j)), FirstLabel)
  BY DEF NamesOther
<1>5. SubSeq(words, i, j) \in ProperNounPhrases(words)
  BY <1>3, <1>4, NamesFound
<1>6. words = Words(Cleaned(title, Sig(p).vendor))
  BY <1>1, CleanedIsBlanked
<1> QED
  BY <1>4, <1>5, <1>6 DEF ConflictingOrg

LEMMA GradesTell == ASSUME FindingsInv PROVE HighIsProof
<1> SUFFICES ASSUME NEW f \in findings, f.grade.confidence = "high", f.probe[2] > 0
             PROVE  /\ Candidates[f.probe[2]] \notin Short
                    /\ Whole(f.probe) /\ ~Shifted(site[f.probe].content) =>
                         \A title \in TitleTag(site[f.probe].content) :
                           <<f.probe, title>> \notin Strangers
  BY DEF HighIsProof
<1>1. PICK title \in TitleTag(body[f.probe]) : f.grade = Graded(f.probe, title)
  BY DEF FindingsInv, Reported
<1>2. ~ContestedByLength(f.probe) /\ <<f.probe, title>> \notin Conflicts
  BY <1>1 DEF Graded
<1>3. <<f.probe, title>> \notin Strangers
  BY <1>2, StrangersFound
<1>4. ASSUME ~Shifted(body[f.probe]), NEW other \in TitleTag(body[f.probe])
      PROVE  other = title
  BY <1>1, <1>4 DEF TitleTag
<1> QED
  BY <1>2, <1>3, <1>4 DEF ContestedByLength, Whole

\* A finding of high confidence on a candidate is proof: the candidate is not a short one,
\* and the page, if it was read whole and has no odd piece before its title, has a title
\* that names no stranger, or has the vendor's name inside another word.
THEOREM HighConfidenceEarned == Spec => []HighIsProof
<1>1. FindingsInv => HighIsProof
  BY GradesTell
<1> QED
  BY <1>1, FindingsHold, PTL

-----------------------------------------------------------------------------
(***************************************************************************)
(* A probe that is done was reported, warned of, or read and found wanting; *)
(* and the detector waits for all of them.                                 *)
(***************************************************************************)
Judged(p) == p \in warnings \/ (\E f \in findings : f.probe = p) \/ ~Fires(p)

AllJudged ==
  /\ \A p \in Probe : pc[p] = "done" => Judged(p)
  /\ main = "returned" => \A p \in Probe : pc[p] = "done"

\* What was settled stays so: no page is read again and nothing is taken back.
LEMMA StaysJudged ==
  ASSUME NEW p \in Probe, Judged(p), warnings \subseteq warnings', findings \subseteq findings',
         site' = site, body'[p] = body[p]
  PROVE  Judged(p)'
<1>1. Fires(p)' <=> Fires(p)
  BY DEF Fires
<1> QED
  BY <1>1 DEF Judged

LEMMA InitAllJudged == Init => AllJudged
<1> SUFFICES ASSUME Init, main = "returned", NEW p \in Probe PROVE FALSE
  BY DEF Init, AllJudged
<1>1. Signatures = <<>>
  BY DEF Init
<1> QED
  BY <1>1 DEF Probe

LEMMA StepAllJudged == TypeOK /\ AllJudged /\ [Next]_vars => AllJudged'
<1> SUFFICES ASSUME TypeOK, AllJudged, [Next]_vars PROVE AllJudged'
  OBVIOUS
<1>1. warnings \subseteq warnings' /\ findings \subseteq findings' /\ site' = site
  BY DEF Next, Step, Wait, Cancel, Launch, Acquire, Abandon, Unbuilt, Request, Unsent, Refused,
         Respond, Judge, Crash, Fail, Warn, client, report, vars
<1>2. ASSUME NEW p \in Probe, Step(p), ~Crash(p) PROVE AllJudged'
  <2>1. main' = main /\ pc[p] # "done"
    BY <1>2 DEF Step, Launch, Acquire, Abandon, Unbuilt, Request, Unsent, Refused, Respond,
                Judge, Fail
  <2>2. \A q \in Probe : q # p => pc'[q] = pc[q] /\ body'[q] = body[q]
    BY <1>2 DEF Step, Launch, Acquire, Abandon, Unbuilt, Request, Unsent, Refused, Respond,
                Judge, Fail, Goto, TypeOK
  <2>3. pc'[p] = "done" => Judged(p)'
    <3>1. CASE Abandon(p) \/ Unbuilt(p) \/ Unsent(p) \/ Refused(p)
      BY <3>1 DEF Abandon, Unbuilt, Unsent, Refused, Fail, Warn, Judged
    <3>2. CASE Launch(p) \/ Acquire(p) \/ Request(p) \/ Respond(p)
      BY <3>2 DEF Launch, Acquire, Request, Respond, Goto, TypeOK
    <3>3. CASE Judge(p)
      <4>1. Fires(p)' <=> Fires(p)
        BY <3>3 DEF Judge, Fires
      <4>2. Fires(p) => \E title : [probe |-> p, grade |-> Graded(p, title)] \in findings'
        BY <3>3 DEF Judge
      <4> QED
        BY <4>1, <4>2 DEF Judged
    <3> QED
      BY <1>2, <3>1, <3>2, <3>3 DEF Step
  <2>4. main # "returned"
    BY <2>1 DEF AllJudged
  <2> QED
    BY <1>1, <2>1, <2>2, <2>3, <2>4, StaysJudged DEF AllJudged
<1>3. CASE Wait \/ Cancel \/ UNCHANGED vars \/ \E p \in Probe : Crash(p)
  <2>1. UNCHANGED <<pc, body>>
    BY <1>3 DEF Wait, Cancel, Crash, vars
  <2>2. main' = "returned" => \A p \in Probe : pc[p] = "done"
    BY <1>3 DEF Wait, Cancel, Crash, vars, AllJudged
  <2> QED
    BY <1>1, <2>1, <2>2, StaysJudged DEF AllJudged
<1> QED
  BY <1>2, <1>3 DEF Next

LEMMA JudgmentTells == ASSUME Recognisable, FindingsInv, AllJudged PROVE Accounted
<1> SUFFICES ASSUME NEW p \in Probe, site[p].tenant, ~Fires(p)
             PROVE  Sig(p).match = "present" /\ ~Whole(p)
  BY DEF Accounted, AllJudged, Judged
<1>1. /\ StatusAllowed(site[p].status, Sig(p))
      /\ Sig(p).match = "present" => Holds(site[p].content, "marker")
      /\ Sig(p).match = "absent" => ~Holds(site[p].content, "marker")
  BY DEF Recognisable, FindingsInv, TypeOK
<1>2. Holds(body[p], "marker") => Holds(site[p].content, "marker")
  BY MarkerSeen DEF FindingsInv
<1> QED
  BY <1>1, <1>2 DEF Fires, Whole

\* If the pages of accounts match their signatures, then no account is lost in silence:
\* when the detector returns it was reported, or warned of, or its marker cut off.
THEOREM NoAccountLost == ASSUME Recognisable PROVE Spec => []Accounted
<1>1. FindingsInv /\ AllJudged => Accounted
  BY JudgmentTells
<1> QED
  BY <1>1, SlotsReturned, FindingsHold, InitAllJudged, StepAllJudged, PTL DEF Spec

=============================================================================
