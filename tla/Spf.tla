--------------------------------- MODULE Spf ---------------------------------
(***************************************************************************)
(* The SPF detector (SPF in internal/detect/email.go) walks the include    *)
(* graph of the scanned domain depth first, each name at most once, and    *)
(* reports every host the records authorise.  The graph is whatever the    *)
(* domains publish, loops included; any lookup may fail.                   *)
(*                                                                         *)
(* The recursion is a stack of the records being walked.  What a record    *)
(* says is the sequence of its host-bearing terms, as spfTerms returns it. *)
(***************************************************************************)
EXTENDS Naturals, Sequences, FiniteSets

CONSTANTS
  Host,           \* names that records mention
  Root,           \* the scanned domain
  Publications,   \* what the hosts may publish: functions from Host to Record
  NoRecord,       \* no SPF record
  SpfMaxLookups,  \* 10 in the code
  Known,          \* hosts that a spf_include signature matches
  Own,            \* hosts that belong to the scanned organisation
  ReportUnknown   \* unattributed senders are reported

\* include: and redirect= name another record, other mechanisms just a host.
Term == [host : Host, recurse : BOOLEAN]

Record == Seq(Term) \cup {NoRecord}

ASSUME SpfAssumption ==
  /\ Root \in Host /\ IsFiniteSet(Host)
  /\ Publications \subseteq [Host -> Record]
  /\ NoRecord \notin Seq(Term)
  /\ SpfMaxLookups \in Nat
  /\ Known \subseteq Host /\ Own \subseteq Host
  /\ ReportUnknown \in BOOLEAN

VARIABLES
  published,  \* what the hosts do publish
  pc,         \* "start", "walking" or "done"
  stack,      \* the rest of every record being walked, the innermost first
  senders,    \* hosts that may send for the domain
  visited,    \* hosts whose record was entered
  lookups,    \* nested lookups made
  warnings,   \* what the report warns of
  leads,      \* what the report names: <<host, "vendor">> or <<host, "unknown">>
  lost        \* history: hosts whose lookup failed

vars == <<published, pc, stack, senders, visited, lookups, warnings, leads, lost>>

Init ==
  /\ published \in Publications
  /\ pc = "start"
  /\ stack = <<>>
  /\ senders = {} /\ visited = {} /\ lookups = 0
  /\ warnings = {} /\ leads = {} /\ lost = {}

-----------------------------------------------------------------------------
FetchRoot ==
  /\ pc = "start"
  /\ \/ /\ published[Root] # NoRecord
        /\ pc' = "walking"
        /\ stack' = <<published[Root]>>
        /\ visited' = {Root}
        /\ UNCHANGED <<warnings, lost>>
     \/ /\ published[Root] = NoRecord
        /\ pc' = "done"
        /\ UNCHANGED <<stack, visited, warnings, lost>>
     \/ /\ pc' = "done"
        /\ warnings' = {"root"}
        /\ lost' = {Root}
        /\ UNCHANGED <<stack, visited>>
  /\ UNCHANGED <<published, senders, lookups, leads>>

Walking == pc = "walking" /\ stack # <<>>
\* Mutant: the limit is noticed one lookup late.
ExceededLate == lookups > SpfMaxLookups + 1

Exceeded == lookups > SpfMaxLookups
NextTerm == Head(Head(stack))
\* Mutant: the term is not consumed.
RestAgain == stack

Rest == <<Tail(Head(stack))>> \o Tail(stack)

\* Mutant: the end of a nested record ends the walk.
LeaveWalk ==
  /\ Walking /\ (Head(stack) = <<>> \/ Exceeded)
  /\ stack' = <<>>
  /\ UNCHANGED <<published, pc, senders, visited, lookups, warnings, leads, lost>>

\* The end of a record, or the limit, which ends every record on the stack.
LeaveRecord ==
  /\ Walking /\ (Head(stack) = <<>> \/ Exceeded)
  /\ stack' = Tail(stack)
  /\ UNCHANGED <<published, pc, senders, visited, lookups, warnings, leads, lost>>

TakeTerm == Walking /\ Head(stack) # <<>> /\ ~Exceeded

NoteSender ==
  /\ TakeTerm /\ ~NextTerm.recurse
  /\ senders' = senders \cup {NextTerm.host}
  /\ stack' = Rest
  /\ UNCHANGED <<published, pc, visited, lookups, warnings, leads, lost>>

\* The nested record is fetched even when it was walked before; a failure is
\* passed over in silence.
Include ==
  LET h == NextTerm.host IN
  /\ TakeTerm /\ NextTerm.recurse
  /\ senders' = senders \cup {h}
  /\ lookups' = lookups + 1
  /\ \/ /\ published[h] # NoRecord /\ h \notin visited
        /\ visited' = visited \cup {h}
        /\ stack' = <<published[h]>> \o Rest
        /\ UNCHANGED lost
     \/ /\ published[h] = NoRecord \/ h \in visited
        /\ stack' = Rest
        /\ UNCHANGED <<visited, lost>>
     \/ /\ lost' = lost \cup {h}
        /\ stack' = Rest
        /\ UNCHANGED visited
  /\ UNCHANGED <<published, pc, warnings, leads>>

Leads == {<<h, "vendor">> : h \in senders \cap Known} \cup
         IF ReportUnknown THEN {<<h, "unknown">> : h \in senders \ (Known \cup Own)} ELSE {}

\* After the walk: warn of the limit, attribute what a signature matches, and
\* report the rest as leads.
Report ==
  /\ pc = "walking" /\ stack = <<>>
  /\ pc' = "done"
  /\ warnings' = IF Exceeded THEN warnings \cup {"limit"} ELSE warnings
  /\ leads' = Leads
  /\ UNCHANGED <<published, stack, senders, visited, lookups, lost>>

Next == FetchRoot \/ LeaveRecord \/ NoteSender \/ Include \/ Report

Spec == Init /\ [][Next]_vars

\* A lookup ends by its timeout, and nothing else is waited for.
FairSpec == Spec /\ WF_vars(Next)

-----------------------------------------------------------------------------
TypeOK ==
  /\ published \in Publications
  /\ pc \in {"start", "walking", "done"}
  /\ stack \in Seq(Seq(Term))
  /\ senders \subseteq Host /\ visited \subseteq Host /\ lost \subseteq Host
  /\ lookups \in Nat
  /\ warnings \subseteq {"root", "limit"}
  /\ leads \subseteq (Host \X {"vendor"}) \cup ((Host \ Own) \X {"unknown"})

\* A malformed or hostile include graph cannot drive the walk on: it makes one
\* lookup beyond the limit at most, to find that the limit is exceeded, and it is
\* never deeper than there are names.
WalkBounded ==
  /\ lookups <= SpfMaxLookups + 1
  /\ Len(stack) <= Cardinality(visited)

\* Reference definition, without the walk: the hosts a complete evaluation finds.
Includes(h) ==
  IF published[h] = NoRecord THEN {} ELSE {published[h][i] : i \in DOMAIN published[h]}

Authorised ==
  LET Closed(S) == /\ Root \in S
                   /\ \A h \in S : \A t \in Includes(h) : t.recurse => t.host \in S
      walked == {h \in Host : \A S \in SUBSET Host : Closed(S) => h \in S}
  IN  {t.host : t \in UNION {Includes(h) : h \in walked}}

\* The report names only authorised senders, and every one of them that is not
\* the organisation's own, unless the walk was cut short: by the limit, with a
\* warning, or by a lookup that failed.
ReportExact ==
  /\ {l[1] : l \in leads} \subseteq senders /\ senders \subseteq Authorised
  /\ pc = "done" /\ ReportUnknown =>
       \/ Authorised \ Own \subseteq {l[1] : l \in leads}
       \/ "limit" \in warnings \/ lost # {}

\* The walk ends, include loops or not.
WalkEnds == <>(pc = "done")


=============================================================================
