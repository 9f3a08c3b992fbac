---------------------------------- MODULE Ct ----------------------------------
(***************************************************************************)
(* The certificate transparency detector (CertTransparency in              *)
(* internal/detect/ct.go).  It asks every log aggregator at once, merges   *)
(* what they know, keeps the first names of the alphabet up to a limit,    *)
(* resolves them concurrently, attributes the ones that point at a known   *)
(* vendor and groups the rest into one lead per provider.                  *)
(*                                                                         *)
(* Names found in the logs are numbers, in alphabetical order; the targets *)
(* of their CNAME records are host names.                                  *)
(***************************************************************************)
EXTENDS Hostnames, FiniteSets

CONSTANTS
  Source,         \* the aggregators
  Entry,          \* what certificates hold: names, wildcards, spellings
  Logged,         \* host names
  Named,          \* Named[e]: the host name of e, a wildcard's being its parent
  Own,            \* the host names under the scanned domain
  Domain,         \* the scanned domain
  Listings,       \* what an aggregator may list: sets of entries
  Estates,        \* where the names may point: functions to targets
  NoTarget,       \* no CNAME record, or no such name
  Patterns,       \* the suffixes of the cname_target signatures
  Limit,          \* -ct-limit
  Parallel,       \* names resolved at a time (32 in the code)
  MaxEvidence,    \* names quoted in a lead (5 in the code)
  ReportUnknown   \* leads are reported

ASSUME CtAssumption ==
  /\ Logged \subseteq Nat /\ IsFiniteSet(Logged) /\ Own \subseteq Logged
  /\ Named \in [Entry -> Logged] /\ Listings \subseteq SUBSET Entry
  /\ Domain \in Hostname /\ Patterns \subseteq Hostname
  /\ NoTarget \notin Hostname
  /\ Estates \subseteq [Own -> Hostname \cup {NoTarget}]
  /\ Limit \in Nat \ {0} /\ Parallel \in Nat \ {0} /\ MaxEvidence \in Nat \ {0}
  /\ ReportUnknown \in BOOLEAN

VARIABLES
  points,     \* where the names point
  pc,         \* "querying", "resolving" or "returned"
  answers,    \* what every aggregator listed: {} is a failure
  pending,    \* the aggregators that have not answered
  waiting,    \* names to resolve
  attributed, \* names reported under a known vendor
  unknown,    \* the others, in the order their lookups ended
  leads,      \* the leads reported, by provider
  warnings,   \* what the report warns of
  cancelled,  \* the context of the scan is done
  resolved, lost  \* history: the names whose lookup brought an answer, and the others

vars == <<points, pc, answers, pending, waiting, attributed, unknown, leads, warnings,
          cancelled, resolved, lost>>

Init ==
  /\ points \in Estates
  /\ pc = "querying"
  /\ answers = [s \in Source |-> {}]
  /\ pending = Source
  /\ waiting = {} /\ attributed = {} /\ unknown = <<>>
  /\ resolved = {} /\ lost = {}
  /\ leads = [p \in {} |-> NoTarget]
  /\ warnings = {}
  /\ cancelled = FALSE

-----------------------------------------------------------------------------
(***************************************************************************)
(* fetch: every aggregator, each in a goroutine of its own.                *)
(***************************************************************************)

\* hostCollector: each name once, and no neighbour's.
Collected(listing) == {Named[e] : e \in listing} \cap Own

\* A listing that holds none of the organisation's names is a failure, as are an
\* error, another status than 200 and a body that does not parse.
Query(s) ==
  /\ pc = "querying" /\ s \in pending
  /\ \E listing \in Listings \cup {{}} : answers' = [answers EXCEPT ![s] = Collected(listing)]
  /\ pending' = pending \ {s}
  /\ UNCHANGED <<points, pc, waiting, attributed, unknown, leads, warnings, cancelled,
                 resolved, lost>>

Merged == UNION {answers[s] : s \in Source}

\* Mutant: the tail of the alphabet.
LastNames(names, n) == {h \in names : Cardinality({g \in names : g > h}) < n}

FirstNames(names, n) == {h \in names : Cardinality({g \in names : g < h}) < n}

\* Mutant: one source that answers is as good as all of them.
MergeWarningsFallback == IF Cardinality(Merged) > Limit THEN {"truncated"} ELSE {}

MergeWarnings ==
  (IF \E s \in Source : answers[s] = {} THEN {"degraded"} ELSE {}) \cup
  (IF Cardinality(Merged) > Limit THEN {"truncated"} ELSE {})

Skip ==
  /\ pc = "querying" /\ pending = {}
  /\ cancelled \/ Merged = {}
  /\ warnings' = {"skipped"}
  /\ pc' = "returned"
  /\ UNCHANGED <<points, answers, pending, waiting, attributed, unknown, leads, cancelled,
                 resolved, lost>>

Merge ==
  /\ pc = "querying" /\ pending = {}
  /\ ~cancelled /\ Merged # {}
  /\ warnings' = MergeWarnings
  /\ waiting' = FirstNames(Merged, Limit)
  /\ pc' = "resolving"
  /\ UNCHANGED <<points, answers, pending, attributed, unknown, leads, cancelled, resolved,
                 lost>>

-----------------------------------------------------------------------------
(***************************************************************************)
(* One goroutine per name, launched in order, at most Parallel at a time.  *)
(***************************************************************************)

\* Mutant: the group is full before its first name.
RunningNever(h) == h \in waiting /\ Cardinality(waiting) < Parallel

Running(h) == h \in waiting /\ Cardinality({g \in waiting : g < h}) < Parallel

\* Leaves the names whose lookup fails out of the report, without a warning.
LookupFails(h) ==
  /\ pc = "resolving" /\ Running(h)
  /\ waiting' = waiting \ {h}
  /\ lost' = lost \cup {h}
  /\ UNCHANGED <<points, pc, answers, pending, attributed, unknown, leads, warnings, cancelled,
                 resolved>>

ThirdParty(h) == points[h] # NoTarget /\ ~SameOrg(points[h], Domain)

KnownVendor(h) == \E pattern \in Patterns : HostMatchesSuffix(points[h], pattern)

\* Mutant: appended to a copy of the list that is overwritten.
KeptLast(h) == <<h>>

Kept(h) == Append(unknown, h)

LookupEnds(h) ==
  /\ pc = "resolving" /\ Running(h)
  /\ waiting' = waiting \ {h}
  /\ resolved' = resolved \cup {h}
  /\ attributed' = IF ThirdParty(h) /\ KnownVendor(h) THEN attributed \cup {h} ELSE attributed
  /\ unknown' = IF ThirdParty(h) /\ ~KnownVendor(h) /\ ReportUnknown THEN Kept(h) ELSE unknown
  /\ UNCHANGED <<points, pc, answers, pending, leads, warnings, cancelled, lost>>

HitsOf(provider) ==
  LET hits[n \in 0 .. Len(unknown)] ==
        IF n = 0 THEN <<>>
        ELSE IF ProviderKey(points[unknown[n]]) = provider THEN Append(hits[n - 1], unknown[n])
        ELSE hits[n - 1]
  IN  hits[Len(unknown)]

Lead(hits) ==
  [count    |-> Len(hits),
   evidence |-> SubSeq(hits, 1, IF Len(hits) < MaxEvidence THEN Len(hits) ELSE MaxEvidence)]

Return ==
  /\ pc = "resolving" /\ waiting = {}
  /\ leads' = [provider \in {ProviderKey(points[h]) : h \in ToSet(unknown)} |->
                 Lead(HitsOf(provider))]
  /\ pc' = "returned"
  /\ UNCHANGED <<points, answers, pending, waiting, attributed, unknown, warnings, cancelled,
                 resolved, lost>>

Cancel ==
  /\ ~cancelled /\ pc # "returned"
  /\ cancelled' = TRUE
  /\ UNCHANGED <<points, pc, answers, pending, waiting, attributed, unknown, leads, warnings,
                 resolved, lost>>

Step ==
  \/ \E s \in Source : Query(s)
  \/ Skip \/ Merge \/ Return
  \/ \E h \in Own : LookupFails(h) \/ LookupEnds(h)

Next == Step \/ Cancel

Spec == Init /\ [][Next]_vars

\* Every request and every lookup ends, by its timeout if not before.
FairSpec == Spec /\ WF_vars(Step)

-----------------------------------------------------------------------------
TypeOK ==
  /\ points \in Estates
  /\ pc \in {"querying", "resolving", "returned"}
  /\ answers \in [Source -> SUBSET Own] /\ pending \subseteq Source
  /\ waiting \subseteq Own /\ Cardinality(waiting) <= Limit
  /\ attributed \subseteq resolved /\ resolved \subseteq Own
  /\ unknown \in Seq(resolved)
  /\ \A p \in DOMAIN leads : p \in Hostname /\ leads[p].count \in Nat
  /\ warnings \subseteq {"skipped", "degraded", "truncated"}
  /\ cancelled \in BOOLEAN

\* A degraded scan says so: when the detector returns without a warning, every
\* aggregator answered, and every name that any of them listed was looked up.
CoverageSaid ==
  pc = "returned" /\ warnings = {} =>
    \A s \in Source : answers[s] # {} /\ answers[s] \subseteq resolved \cup lost

\* What the truncation warning says of the names that were dropped: they are the
\* tail of the alphabet, whichever lookups end first or fail.
TailDropped ==
  \A h \in resolved \cup lost, g \in Merged :
    g \in resolved \cup lost \cup waiting \/ (h < g /\ "truncated" \in warnings)

Strangers ==
  {h \in resolved : /\ points[h] # NoTarget
                    /\ ~IsSuffix(Domain, points[h])
                    /\ ~\E p \in Patterns : HostMatchesSuffix(points[h], p)}

\* A name that somebody may register, unlike "au" and "com.au".
Registrable(name) == Len(name) > 2 \/ (Len(name) = 2 /\ ~CountryCode(name))

Covers(provider, target) ==
  target = provider \/ (Registrable(provider) /\ IsSuffix(provider, target))

\* One lead per provider, however the lookups interleave: every stranger's target is
\* covered by exactly one of them, and each counts every name whose target it covers
\* and quotes as many of them as fit.
LeadsExact ==
  pc = "returned" /\ ReportUnknown =>
    /\ \A h \in Strangers : Cardinality({p \in DOMAIN leads : Covers(p, points[h])}) = 1
    /\ \A p \in DOMAIN leads :
         LET there  == {h \in Strangers : Covers(p, points[h])}
             quoted == ToSet(leads[p].evidence)
         IN  /\ leads[p].count = Cardinality(there) /\ there # {}
             /\ quoted \subseteq there
             /\ quoted = there \/ Cardinality(quoted) = MaxEvidence

\* The detector returns, whichever aggregators answer and lookups fail.
Returns == <>(pc = "returned")

=============================================================================
