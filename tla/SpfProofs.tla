------------------------------ MODULE SpfProofs ------------------------------
(***************************************************************************)
(* Theorems about Spf, for any include graph over finitely many hosts and  *)
(* any limit, whichever lookups fail.                                      *)
(***************************************************************************)
EXTENDS Spf, FiniteSetTheorems, TLAPS

-----------------------------------------------------------------------------
(***************************************************************************)
(* The stack of records.  Waits(t, s): term t is still to be walked.       *)
(***************************************************************************)
Among(t, r) == \E j \in DOMAIN r : r[j] = t

Waits(t, s) == \E i \in DOMAIN s : Among(t, s[i])

LEMMA PushStack ==
  ASSUME NEW S, NEW r \in Seq(S), NEW s \in Seq(Seq(S))
  PROVE  /\ <<r>> \o s \in Seq(Seq(S)) /\ Len(<<r>> \o s) = Len(s) + 1
         /\ (<<r>> \o s)[1] = r /\ \A i \in 1 .. Len(s) : (<<r>> \o s)[i + 1] = s[i]
OBVIOUS

LEMMA PushWaits ==
  ASSUME NEW S, NEW r \in Seq(S), NEW s \in Seq(Seq(S)), NEW t
  PROVE  Waits(t, <<r>> \o s) <=> Among(t, r) \/ Waits(t, s)
<1> DEFINE u == <<r>> \o s
<1>1. u \in Seq(Seq(S)) /\ DOMAIN u = 1 .. Len(s) + 1
  BY PushStack
<1>2. u[1] = r /\ \A i \in 1 .. Len(s) : u[i + 1] = s[i]
  BY PushStack
<1>3. \A i \in 2 .. Len(s) + 1 : i - 1 \in 1 .. Len(s) /\ u[i] = s[i - 1]
  BY <1>2
<1>4. DOMAIN s = 1 .. Len(s) /\ 1 \in DOMAIN u /\ \A i \in 1 .. Len(s) : i + 1 \in DOMAIN u
  BY <1>1
<1>5. \A i \in DOMAIN u : i = 1 \/ i \in 2 .. Len(s) + 1
  BY <1>1
<1> HIDE DEF u
<1>6. Waits(t, u) => Among(t, r) \/ Waits(t, s)
  <2> SUFFICES ASSUME NEW i \in DOMAIN u, Among(t, u[i])
               PROVE  Among(t, r) \/ Waits(t, s)
    BY DEF Waits
  <2>1. CASE i = 1
    BY <1>2, <2>1
  <2>2. CASE i \in 2 .. Len(s) + 1
    BY <1>3, <1>4, <2>2 DEF Waits
  <2> QED
    BY <1>5, <2>1, <2>2
<1>7. Among(t, r) => Waits(t, u)
  BY <1>2, <1>4 DEF Waits
<1>8. Waits(t, s) => Waits(t, u)
  BY <1>2, <1>4 DEF Waits
<1> QED
  BY <1>6, <1>7, <1>8 DEF u

\* A stack is its head pushed on its tail, and so is a record.
LEMMA Unpush ==
  ASSUME NEW S, NEW s \in Seq(S), s # <<>>
  PROVE  /\ Head(s) \in S /\ Tail(s) \in Seq(S) /\ s = <<Head(s)>> \o Tail(s)
         /\ Len(s) = Len(Tail(s)) + 1
OBVIOUS

LEMMA HeadOrTail ==
  ASSUME NEW S, NEW r \in Seq(S), r # <<>>, NEW t
  PROVE  Among(t, r) <=> t = Head(r) \/ Among(t, Tail(r))
<1>1. /\ Head(r) = r[1] /\ DOMAIN r = 1 .. Len(r) /\ Len(r) \in Nat \ {0}
      /\ DOMAIN Tail(r) = 1 .. Len(r) - 1 /\ \A j \in 1 .. Len(r) - 1 : Tail(r)[j] = r[j + 1]
  OBVIOUS
<1>2. \A j \in 1 .. Len(r) : j = 1 \/ (j - 1 \in 1 .. Len(r) - 1 /\ Tail(r)[j - 1] = r[j])
  BY <1>1
<1>3. 1 \in 1 .. Len(r) /\ \A j \in 1 .. Len(r) - 1 : j + 1 \in 1 .. Len(r)
  BY <1>1
<1> QED
  BY <1>1, <1>2, <1>3 DEF Among

\* Leaving a record gives up what is left of it.
LEMMA PopWaits ==
  ASSUME stack \in Seq(Seq(Term)), stack # <<>>, NEW t
  PROVE  Waits(t, stack) <=> Among(t, Head(stack))
                             \/ Waits(t, Tail(stack))
<1>1. Head(stack) \in Seq(Term) /\ Tail(stack) \in Seq(Seq(Term)) /\ stack = <<Head(stack)>> \o Tail(stack)
  BY Unpush
<1> QED
  BY <1>1, PushWaits

\* Consuming a term leaves the others.
LEMMA RestWaits ==
  ASSUME stack \in Seq(Seq(Term)), stack # <<>>, Head(stack) # <<>>
  PROVE  /\ Rest \in Seq(Seq(Term)) /\ Len(Rest) = Len(stack) /\ NextTerm \in Term
         /\ \A t : Waits(t, stack) <=> t = NextTerm \/ Waits(t, Rest)
<1> DEFINE r == Head(stack)
<1>1. /\ r \in Seq(Term) /\ Tail(stack) \in Seq(Seq(Term)) /\ Len(stack) = Len(Tail(stack)) + 1
      /\ Head(r) \in Term /\ Tail(r) \in Seq(Term)
  <2>1. r \in Seq(Term) /\ Tail(stack) \in Seq(Seq(Term)) /\ Len(stack) = Len(Tail(stack)) + 1
    BY Unpush
  <2>2. Head(r) \in Term /\ Tail(r) \in Seq(Term)
    BY <2>1, Unpush
  <2> QED
    BY <2>1, <2>2
<1>2. Rest \in Seq(Seq(Term)) /\ Len(Rest) = Len(stack)
  BY <1>1, PushStack DEF Rest
<1>3. ASSUME NEW t PROVE Waits(t, stack) <=> t = NextTerm \/ Waits(t, Rest)
  <2>1. Waits(t, Rest) <=> Among(t, Tail(r)) \/ Waits(t, Tail(stack))
    BY <1>1, PushWaits DEF Rest
  <2>2. Among(t, r) <=> t = Head(r) \/ Among(t, Tail(r))
    <3>1. r \in Seq(Term) /\ r # <<>>
      BY <1>1
    <3> HIDE DEF r
    <3> QED
      BY <3>1, HeadOrTail
  <2>3. Waits(t, stack) <=> Among(t, r) \/ Waits(t, Tail(stack))
    BY PopWaits
  <2> QED
    BY <2>1, <2>2, <2>3 DEF NextTerm
<1> QED
  BY <1>1, <1>2, <1>3 DEF NextTerm

LEMMA PublishedType ==
  ASSUME TypeOK, NEW h \in Host, published[h] # NoRecord
  PROVE  published[h] \in Seq(Term)
BY SpfAssumption DEF TypeOK, Record

-----------------------------------------------------------------------------
(***************************************************************************)
(* Type correctness and the bound.  A record is entered once per host, so  *)
(* the stack is no deeper than there are visited hosts.                    *)
(***************************************************************************)
Bounded == TypeOK /\ WalkBounded /\ (pc = "start" => stack = <<>> /\ visited = {})

LEMMA VisitedFinite == TypeOK => IsFiniteSet(visited) /\ Cardinality(visited) \in Nat
BY SpfAssumption, FS_Subset, FS_CardinalityType DEF TypeOK

LEMMA LeadsType ==
  ASSUME TypeOK
  PROVE  Leads \subseteq (Host \X {"vendor"}) \cup ((Host \ Own) \X {"unknown"})
BY SpfAssumption DEF TypeOK, Leads

LEMMA InitBounded == Init => Bounded
<1>1. Init => Cardinality(visited) = 0 /\ Len(stack) = 0
  BY FS_EmptySet DEF Init
<1> QED
  BY <1>1, SpfAssumption DEF Init, Bounded, TypeOK, WalkBounded

LEMMA FetchRootBounded == Bounded /\ FetchRoot => Bounded'
<1> SUFFICES ASSUME Bounded, FetchRoot PROVE Bounded'
  OBVIOUS
<1> USE DEF Bounded
<1>1. CASE published[Root] # NoRecord /\ pc' = "walking" /\ stack' = <<published[Root]>>
           /\ visited' = {Root} /\ UNCHANGED <<warnings, lost>>
  <2>1. published[Root] \in Seq(Term)
    BY <1>1, SpfAssumption, PublishedType
  <2>2. stack' \in Seq(Seq(Term)) /\ Len(stack') = 1
    BY <1>1, <2>1
  <2>3. Cardinality(visited') = 1
    BY <1>1, FS_Singleton
  <2> QED
    BY <1>1, <2>2, <2>3, SpfAssumption DEF FetchRoot, TypeOK, WalkBounded
<1>2. CASE pc' = "done" /\ UNCHANGED <<stack, visited>>
           /\ warnings' \subseteq {"root", "limit"} /\ lost' \subseteq Host
  BY <1>2 DEF FetchRoot, TypeOK, WalkBounded
<1> QED
  BY <1>1, <1>2, SpfAssumption DEF FetchRoot, TypeOK

LEMMA IncludeBounded == Bounded /\ Include => Bounded'
<1> SUFFICES ASSUME Bounded, Include PROVE Bounded'
  OBVIOUS
<1> USE DEF Bounded
<1> DEFINE h == NextTerm.host
<1>1. /\ Rest \in Seq(Seq(Term)) /\ Len(Rest) = Len(stack) /\ h \in Host
      /\ lookups' \in Nat /\ lookups' <= SpfMaxLookups + 1
  BY RestWaits, SpfAssumption DEF Include, TakeTerm, Walking, Exceeded, TypeOK, Term
<1>2. senders' \subseteq Host
  BY <1>1 DEF Include, TypeOK
<1>3. CASE published[h] # NoRecord /\ h \notin visited /\ visited' = visited \cup {h}
           /\ stack' = <<published[h]>> \o Rest /\ UNCHANGED lost
  <2>1. published[h] \in Seq(Term)
    BY <1>1, <1>3, PublishedType
  <2>2. stack' \in Seq(Seq(Term)) /\ Len(stack') = Len(stack) + 1
    BY <1>1, <1>3, <2>1, PushStack
  <2>3. Cardinality(visited') = Cardinality(visited) + 1
    BY <1>3, VisitedFinite, FS_AddElement
  <2> QED
    BY <1>1, <1>2, <1>3, <2>2, <2>3, VisitedFinite
    DEF Include, TakeTerm, Walking, TypeOK, WalkBounded
<1>4. CASE stack' = Rest /\ visited' = visited /\ lost' \subseteq Host
  BY <1>1, <1>2, <1>4 DEF Include, TakeTerm, Walking, TypeOK, WalkBounded
<1> QED
  BY <1>1, <1>3, <1>4 DEF Include, TypeOK

LEMMA StepBounded == Bounded /\ [Next]_vars => Bounded'
<1> SUFFICES ASSUME Bounded, [Next]_vars PROVE Bounded'
  OBVIOUS
<1>1. CASE FetchRoot
  BY <1>1, FetchRootBounded
<1>2. CASE LeaveRecord
  <2>1. Tail(stack) \in Seq(Seq(Term)) /\ Len(stack) = Len(Tail(stack)) + 1
    BY <1>2, Unpush DEF LeaveRecord, Walking, Bounded, TypeOK
  <2> QED
    BY <1>2, <2>1, VisitedFinite DEF LeaveRecord, Walking, Bounded, TypeOK, WalkBounded
<1>3. CASE NoteSender
  <2>1. Rest \in Seq(Seq(Term)) /\ Len(Rest) = Len(stack) /\ NextTerm.host \in Host
    BY <1>3, RestWaits DEF NoteSender, TakeTerm, Walking, Bounded, TypeOK, Term
  <2> QED
    BY <1>3, <2>1 DEF NoteSender, TakeTerm, Walking, Bounded, TypeOK, WalkBounded
<1>4. CASE Include
  BY <1>4, IncludeBounded
<1>5. CASE Report
  BY <1>5, LeadsType DEF Report, Bounded, TypeOK, WalkBounded
<1>6. CASE UNCHANGED vars
  BY <1>6 DEF vars, Bounded, TypeOK, WalkBounded
<1> QED
  BY <1>1, <1>2, <1>3, <1>4, <1>5, <1>6 DEF Next

\* Whatever graph others publish, the walk makes at most one lookup beyond the limit and
\* is never deeper than there are names.
THEOREM WalkStaysBounded == Spec => []WalkBounded
<1>1. Bounded => WalkBounded
  BY DEF Bounded
<1> QED
  BY <1>1, InitBounded, StepBounded, PTL DEF Spec

-----------------------------------------------------------------------------
(***************************************************************************)
(* Exactness.  Walked is the least set of hosts that holds the root and    *)
(* what its records include.  Nothing outside of it is entered, and while  *)
(* the walk is not cut short, every term of an entered record is dealt     *)
(* with or waits on the stack.                                             *)
(***************************************************************************)
Closed(S) == Root \in S /\ \A h \in S : \A t \in Includes(h) : t.recurse => t.host \in S

Walked == {h \in Host : \A S \in SUBSET Host : Closed(S) => h \in S}

FromWalk(t) == \E h \in Walked : t \in Includes(h)

LEMMA AuthorisedFromWalk == Authorised = {t.host : t \in UNION {Includes(h) : h \in Walked}}
BY DEF Authorised, Walked, Closed

LEMMA RootWalked == Root \in Walked
BY SpfAssumption DEF Walked, Closed

LEMMA IncludesType ==
  ASSUME TypeOK, NEW h \in Host, NEW t \in Includes(h)
  PROVE  t \in Term /\ published[h] # NoRecord /\ Among(t, published[h])
<1>1. published[h] # NoRecord /\ Among(t, published[h])
  BY DEF Includes, Among
<1> QED
  BY <1>1, PublishedType DEF Among

LEMMA RecordIncludes ==
  ASSUME TypeOK, NEW h \in Host, published[h] # NoRecord, NEW t, Among(t, published[h])
  PROVE  t \in Includes(h)
BY DEF Includes, Among

LEMMA WalkOn ==
  ASSUME NEW t, t.host \in Host, t.recurse, FromWalk(t)
  PROVE  t.host \in Walked
<1>1. PICK h \in Walked : t \in Includes(h)
  BY DEF FromWalk
<1>2. SUFFICES ASSUME NEW S \in SUBSET Host, Closed(S) PROVE t.host \in S
  BY DEF Walked
<1>3. h \in S
  BY <1>1, <1>2 DEF Walked
<1> QED
  BY <1>1, <1>2, <1>3 DEF Closed

DealtWith(t) ==
  t.host \in senders /\ (t.recurse => t.host \in visited \/ published[t.host] = NoRecord)

Sound ==
  /\ visited \subseteq Walked
  /\ \A t : Waits(t, stack) => FromWalk(t)
  /\ \A h \in senders : \E t : FromWalk(t) /\ h = t.host

Whole ==
  /\ published[Root] = NoRecord \/ Root \in visited
  /\ \A h \in visited : \A t \in Includes(h) : DealtWith(t) \/ Waits(t, stack)

Told ==
  /\ pc = "start" => stack = <<>> /\ visited = {} /\ senders = {} /\ lookups = 0
  /\ pc # "done" => leads = {}
  /\ pc = "done" => /\ stack = <<>>
                    /\ lookups > SpfMaxLookups => "limit" \in warnings
                    /\ ReportUnknown => senders \ Own \subseteq {l[1] : l \in leads}
  /\ {l[1] : l \in leads} \subseteq senders

WalkInv ==
  /\ Sound
  /\ pc = "start" \/ lookups > SpfMaxLookups \/ lost # {} \/ Whole
  /\ Told

LEMMA NothingWaits == \A t : ~Waits(t, <<>>)
BY DEF Waits

LEMMA InitWalkInv == Init => WalkInv
BY NothingWaits DEF Init, WalkInv, Sound, Told

LEMMA FetchRootWalkInv == Bounded /\ WalkInv /\ FetchRoot => WalkInv'
<1> SUFFICES ASSUME Bounded, WalkInv, FetchRoot PROVE WalkInv'
  OBVIOUS
<1>0. /\ pc = "start" /\ stack = <<>> /\ visited = {} /\ senders = {} /\ lookups = 0 /\ leads = {}
      /\ UNCHANGED <<published, senders, lookups, leads>> /\ TypeOK /\ Root \in Host
  BY SpfAssumption DEF FetchRoot, WalkInv, Told, Bounded
<1>1. CASE published[Root] # NoRecord /\ pc' = "walking" /\ stack' = <<published[Root]>>
           /\ visited' = {Root} /\ UNCHANGED <<warnings, lost>>
  <2>1. published[Root] \in Seq(Term) /\ stack' = <<published[Root]>> \o <<>>
    BY <1>0, <1>1, PublishedType
  <2>2. ASSUME NEW t PROVE Waits(t, stack') <=> Among(t, published[Root])
    <3>1. <<>> \in Seq(Seq(Term))
      OBVIOUS
    <3> QED
      BY <2>1, <3>1, PushWaits, NothingWaits
  <2>3. Sound'
    <3>1. \A t : Waits(t, stack') => t \in Includes(Root)
      BY <1>0, <1>1, <2>2, RecordIncludes
    <3>2. \A t : Waits(t, stack') => \E h \in Walked' : t \in Includes(h)'
      BY <1>0, <3>1, RootWalked DEF Includes, Walked, Closed
    <3> QED
      BY <1>0, <1>1, <3>2, RootWalked DEF Sound, FromWalk, Walked, Closed, Includes
  <2>4. Whole'
    <3>1. \A t \in Includes(Root) : Waits(t, stack')
      BY <1>0, <2>2, IncludesType
    <3> QED
      BY <1>0, <1>1, <3>1 DEF Whole, Includes
  <2> QED
    BY <1>0, <1>1, <2>3, <2>4 DEF WalkInv, Told
<1>2. CASE pc' = "done" /\ UNCHANGED <<stack, visited>>
           /\ (published[Root] = NoRecord \/ lost' # {})
  <2>1. Sound' /\ (lost' # {} \/ Whole')
    BY <1>0, <1>2, NothingWaits DEF Sound, Whole
  <2> QED
    BY <1>0, <1>2, <2>1, SpfAssumption DEF WalkInv, Told
<1> QED
  BY <1>1, <1>2 DEF FetchRoot

\* A step of the walk: what it adds comes from the walk, and what it takes off the
\* stack was dealt with.
LEMMA WalkStep ==
  ASSUME Bounded, WalkInv, pc = "walking", pc' = "walking",
         UNCHANGED <<published, leads, warnings>>,
         visited \subseteq visited', visited' \subseteq Walked,
         \A t : Waits(t, stack') => FromWalk(t),
         senders \subseteq senders',
         \A h \in senders' \ senders : \E t : FromWalk(t) /\ h = t.host,
         \/ lookups' > SpfMaxLookups \/ lost' # {}
         \/ /\ lookups <= SpfMaxLookups /\ lost = {}
            /\ \A t : Waits(t, stack) => DealtWith(t)' \/ Waits(t, stack')
            /\ \A h \in visited' \ visited : \A t \in Includes(h) : Waits(t, stack')
  PROVE  WalkInv'
<1>1. Walked' = Walked /\ \A t : FromWalk(t)' <=> FromWalk(t)
  BY DEF Walked, Closed, FromWalk, Includes
<1>2. Sound'
  BY <1>1 DEF Sound, WalkInv
<1>3. lookups' > SpfMaxLookups \/ lost' # {} \/ Whole'
  <2> SUFFICES ASSUME ~(lookups' > SpfMaxLookups), lost' = {} PROVE Whole'
    OBVIOUS
  <2>1. Whole
    BY SpfAssumption DEF WalkInv, Bounded, TypeOK
  <2>2. \A t : DealtWith(t) => DealtWith(t)'
    BY DEF DealtWith
  <2>3. \A h : Includes(h)' = Includes(h)
    BY DEF Includes
  <2> QED
    BY <2>1, <2>2, <2>3 DEF Whole
<1>4. Told'
  BY DEF Told, WalkInv
<1> QED
  BY <1>2, <1>3, <1>4 DEF WalkInv

LEMMA LeaveRecordWalkInv == Bounded /\ WalkInv /\ LeaveRecord => WalkInv'
<1> SUFFICES ASSUME Bounded, WalkInv, LeaveRecord PROVE WalkInv'
  OBVIOUS
<1>1. /\ pc = "walking" /\ stack # <<>> /\ stack \in Seq(Seq(Term)) /\ stack' = Tail(stack)
      /\ UNCHANGED <<published, pc, senders, visited, lookups, warnings, leads, lost>>
      /\ lookups \in Nat /\ SpfMaxLookups \in Nat
  BY SpfAssumption DEF LeaveRecord, Walking, Bounded, TypeOK
<1>2. \A t : Waits(t, stack) <=> Among(t, Head(stack)) \/ Waits(t, stack')
  BY <1>1, PopWaits
<1>3. Head(stack) = <<>> \/ lookups > SpfMaxLookups
  BY DEF LeaveRecord, Exceeded
<1>4. \A t : ~Among(t, <<>>)
  BY DEF Among
<1> QED
  BY <1>1, <1>2, <1>3, <1>4, WalkStep DEF WalkInv, Sound

LEMMA TermWalkInv ==
  ASSUME Bounded, WalkInv, TakeTerm, stack' = Rest \/ stack' = <<published[NextTerm.host]>> \o Rest
  PROVE  /\ pc = "walking" /\ Rest \in Seq(Seq(Term)) /\ NextTerm \in Term /\ FromWalk(NextTerm)
         /\ lookups <= SpfMaxLookups /\ lookups \in Nat /\ SpfMaxLookups \in Nat
         /\ \A t : Waits(t, stack) <=> t = NextTerm \/ Waits(t, Rest)
         /\ \A t : Waits(t, Rest) => FromWalk(t)
<1>1. pc = "walking" /\ stack # <<>> /\ Head(stack) # <<>> /\ stack \in Seq(Seq(Term))
  BY DEF TakeTerm, Walking, Bounded, TypeOK
<1>2. lookups <= SpfMaxLookups /\ lookups \in Nat /\ SpfMaxLookups \in Nat
  BY SpfAssumption DEF TakeTerm, Exceeded, Bounded, TypeOK
<1>3. /\ Rest \in Seq(Seq(Term)) /\ NextTerm \in Term
      /\ \A t : Waits(t, stack) <=> t = NextTerm \/ Waits(t, Rest)
  BY <1>1, RestWaits
<1> QED
  BY <1>1, <1>2, <1>3 DEF WalkInv, Sound

LEMMA NoteSenderWalkInv == Bounded /\ WalkInv /\ NoteSender => WalkInv'
<1> SUFFICES ASSUME Bounded, WalkInv, NoteSender PROVE WalkInv'
  OBVIOUS
<1>1. /\ pc = "walking" /\ FromWalk(NextTerm) /\ lookups <= SpfMaxLookups
      /\ \A t : Waits(t, stack) <=> t = NextTerm \/ Waits(t, Rest)
      /\ \A t : Waits(t, Rest) => FromWalk(t)
  BY TermWalkInv DEF NoteSender
<1>2. /\ stack' = Rest /\ senders' = senders \cup {NextTerm.host} /\ ~NextTerm.recurse
      /\ UNCHANGED <<published, pc, visited, lookups, warnings, leads, lost>>
  BY DEF NoteSender
<1>3. ASSUME NEW t, t = NextTerm PROVE DealtWith(t)'
  BY <1>2, <1>3 DEF DealtWith
<1> QED
  BY <1>1, <1>2, <1>3, WalkStep DEF WalkInv, Sound

LEMMA IncludeWalkInv == Bounded /\ WalkInv /\ Include => WalkInv'
<1> SUFFICES ASSUME Bounded, WalkInv, Include PROVE WalkInv'
  OBVIOUS
<1> DEFINE h == NextTerm.host
<1>1. /\ pc = "walking" /\ FromWalk(NextTerm) /\ Rest \in Seq(Seq(Term))
      /\ lookups <= SpfMaxLookups /\ lookups \in Nat /\ SpfMaxLookups \in Nat
      /\ \A t : Waits(t, stack) <=> t = NextTerm \/ Waits(t, Rest)
      /\ \A t : Waits(t, Rest) => FromWalk(t)
      /\ h \in Host
  BY TermWalkInv DEF Include, Term
<1>2. /\ senders' = senders \cup {h} /\ lookups' = lookups + 1 /\ NextTerm.recurse
      /\ UNCHANGED <<published, pc, warnings, leads>>
  BY DEF Include
<1>3. h \in Walked
  BY <1>1, <1>2, WalkOn
<1>4. CASE published[h] # NoRecord /\ h \notin visited /\ visited' = visited \cup {h}
           /\ stack' = <<published[h]>> \o Rest /\ UNCHANGED lost
  <2>1. published[h] \in Seq(Term)
    BY <1>1, <1>4, PublishedType DEF Bounded
  <2>2. \A t : Waits(t, stack') <=> Among(t, published[h]) \/ Waits(t, Rest)
    BY <1>1, <1>4, <2>1, PushWaits
  <2>3. \A t : Among(t, published[h]) => t \in Includes(h)
    BY <1>1, <1>4, RecordIncludes DEF Bounded
  <2>4. \A t \in Includes(h) : Among(t, published[h])
    BY <1>1, IncludesType DEF Bounded
  <2>5. \A t : Waits(t, stack') => FromWalk(t)
    BY <1>1, <1>3, <2>2, <2>3 DEF FromWalk
  <2>6. ASSUME NEW t, t = NextTerm PROVE DealtWith(t)'
    BY <1>2, <1>4, <2>6 DEF DealtWith
  <2>7. visited' \subseteq Walked
    BY <1>3, <1>4 DEF WalkInv, Sound
  <2> QED
    BY <1>1, <1>2, <1>4, <2>2, <2>4, <2>5, <2>6, <2>7, WalkStep
<1>5. CASE (published[h] = NoRecord \/ h \in visited) /\ stack' = Rest
           /\ UNCHANGED <<visited, lost>>
  <2>1. ASSUME NEW t, t = NextTerm PROVE DealtWith(t)'
    BY <1>2, <1>5, <2>1 DEF DealtWith
  <2> QED
    BY <1>1, <1>2, <1>5, <2>1, WalkStep DEF WalkInv, Sound
<1>6. CASE lost' = lost \cup {h} /\ stack' = Rest /\ UNCHANGED visited
  BY <1>1, <1>2, <1>6, WalkStep DEF WalkInv, Sound
<1> QED
  BY <1>4, <1>5, <1>6 DEF Include

LEMMA ReportWalkInv == Bounded /\ WalkInv /\ Report => WalkInv'
<1> SUFFICES ASSUME Bounded, WalkInv, Report PROVE WalkInv'
  OBVIOUS
<1>1. /\ pc = "walking" /\ stack = <<>> /\ pc' = "done" /\ leads' = Leads
      /\ UNCHANGED <<published, stack, senders, visited, lookups, lost>>
      /\ lookups > SpfMaxLookups => "limit" \in warnings'
  BY DEF Report, Exceeded
<1>2. Sound' /\ (lookups' > SpfMaxLookups \/ lost' # {} \/ Whole')
  BY <1>1 DEF WalkInv, Sound, Whole, DealtWith, FromWalk, Walked, Closed, Includes
<1>3. {l[1] : l \in leads'} \subseteq senders
  BY <1>1 DEF Leads
<1>4. ReportUnknown => senders \ Own \subseteq {l[1] : l \in leads'}
  <2> SUFFICES ASSUME ReportUnknown, NEW h \in senders \ Own PROVE \E l \in Leads : l[1] = h
    BY <1>1
  <2>1. <<h, "vendor">> \in Leads \/ <<h, "unknown">> \in Leads
    BY DEF Leads
  <2> QED
    BY <2>1
<1> QED
  BY <1>1, <1>2, <1>3, <1>4 DEF WalkInv, Told

LEMMA StepWalkInv == Bounded /\ WalkInv /\ [Next]_vars => WalkInv'
<1>1. UNCHANGED vars /\ WalkInv => WalkInv'
  BY DEF vars, WalkInv, Sound, Whole, Told, DealtWith, FromWalk, Walked, Closed, Includes
<1> QED
  BY <1>1, FetchRootWalkInv, LeaveRecordWalkInv, NoteSenderWalkInv, IncludeWalkInv,
     ReportWalkInv DEF Next

LEMMA WalkTells == Bounded /\ WalkInv => ReportExact
<1> SUFFICES ASSUME Bounded, WalkInv PROVE ReportExact
  OBVIOUS
<1>1. senders \subseteq Authorised
  BY AuthorisedFromWalk DEF WalkInv, Sound, FromWalk
<1>2. ASSUME pc = "done", ReportUnknown, "limit" \notin warnings, lost = {}
      PROVE  Authorised \ Own \subseteq {l[1] : l \in leads}
  <2>1. Whole /\ stack = <<>>
    BY <1>2 DEF WalkInv, Told
  <2> DEFINE S == visited \cup {h \in Host : published[h] = NoRecord}
  <2>2. S \in SUBSET Host
    BY DEF Bounded, TypeOK
  <2>3. \A h \in visited : \A t \in Includes(h) : DealtWith(t)
    BY <2>1, NothingWaits DEF Whole
  <2>4. \A h \in Host : published[h] = NoRecord => Includes(h) = {}
    BY DEF Includes
  <2>5. \A h \in visited : \A t \in Includes(h) : t.host \in Host
    BY IncludesType DEF Bounded, TypeOK, Term
  <2>6. Closed(S)
    BY <2>1, <2>3, <2>4, <2>5, SpfAssumption DEF Closed, Whole, DealtWith
  <2>7. Walked \subseteq S
    BY <2>2, <2>6 DEF Walked
  <2>8. Authorised \subseteq senders
    BY <2>3, <2>4, <2>7, AuthorisedFromWalk DEF DealtWith
  <2> QED
    BY <1>2, <2>8 DEF WalkInv, Told
<1> QED
  BY <1>1, <1>2 DEF ReportExact, WalkInv, Told

\* For every include graph: only authorised senders are reported, and unless the limit
\* or a failed lookup cut the walk short, every foreign one of them is.
THEOREM SendersExact == Spec => []ReportExact
BY InitBounded, StepBounded, InitWalkInv, StepWalkInv, WalkTells, PTL DEF Spec

=============================================================================
