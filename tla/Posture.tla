------------------------------- MODULE Posture -------------------------------
(***************************************************************************)
(* The detectors that ask about the scanned domain itself: dns             *)
(* (internal/detect/dns.go), dmarc, bimi and mta-sts                       *)
(* (internal/detect/email.go) and tenant (internal/detect/tenant.go).      *)
(*                                                                         *)
(* Each detector of the scan runs by itself.  A lookup is what the         *)
(* resolver promises (LookupService): it may fail until the question has   *)
(* an answer, and brings that answer ever after.  A request brings some    *)
(* page or fails, and fails once the scan is cancelled.                    *)
(***************************************************************************)
EXTENDS Hostnames, SignatureLoad, FiniteSets, TLC

CONSTANTS
  Domain,        \* the scanned domain
  Answer,        \* what a lookup may bring
  Answers(_,_),  \* Answers(a, q): a may answer the question q, <<record type, name>>
  Pages(_),      \* what the request of a step may bring
  Occurs(_,_),   \* the needle, in the host name
  Failed         \* a lookup or a request brought nothing

ASSUME PostureAssumption ==
  /\ \A a \in Answer : a.records \in Seq(ToSet(a.records))
  /\ \A a \in Answer : Len(a.records) < 2 => a.across = {}

(***************************************************************************)
(* An answer is its records of the type asked for, none when the name does *)
(* not exist: tag is the version the record begins with, holds the needles *)
(* in it, terms the hosts its tags name, and text what evidence quotes;    *)
(* across holds the needles that only the records written one after the    *)
(* other hold.  A page has a kind, the hosts it names, in order, and the   *)
(* needles in it.                                                          *)
(***************************************************************************)
VARIABLES
  scan,      \* what every detector is given: sigs, candidates, detectors, reportUnknown
  pc,        \* where each detector is
  pending,   \* the groups that a dns detector still resolves
  tenantID,  \* the tenant detector learnt the tenant's id
  answer,    \* the answers known to the resolver
  reports,   \* the findings emitted
  warnings,  \* the warnings made
  cancelled, \* the context of the scan is done
  seen       \* history: what was asked for: step, answer or page or Failed, detector

detectors == <<pc, pending, tenantID>>
pvars == <<scan, detectors, answer, reports, warnings, cancelled, seen>>

Instance == DOMAIN scan.detectors

Is(i, detector) == i \in Instance /\ scan.detectors[i] = detector

ByType(t) == {sig \in ToSet(scan.sigs) : sig.type = t}

SigReport(sig, confidence, method, fact) ==
  [vendor |-> <<sig.vendor>>, category |-> sig.category, confidence |-> confidence,
   contested |-> FALSE, labels |-> {sig.id}, evidence |-> {[method |-> method, fact |-> fact]}]

\* What no signature names is filed under its host.
Report(vendor, category, confidence, method, fact) ==
  [vendor |-> vendor, category |-> category, confidence |-> confidence,
   contested |-> FALSE, labels |-> {}, evidence |-> {[method |-> method, fact |-> fact]}]

Idle == [sigs |-> <<>>, candidates |-> {}, detectors |-> <<>>, reportUnknown |-> FALSE]

Goto(i, label) == pc' = [pc EXCEPT ![i] = label]

\* Loops that stop at the first hit.
Earliest(places) == CHOOSE i \in places : \A j \in places : i <= j

-----------------------------------------------------------------------------
Outcomes(question) ==
  IF question \in DOMAIN answer THEN {answer[question]}
  ELSE {a \in Answer : Answers(a, question)} \cup {Failed}

Learn(question, a) ==
  answer' = IF a = Failed THEN answer
            ELSE [q \in DOMAIN answer \cup {question} |-> IF q = question THEN a ELSE answer[q]]

See(i, step, shown) == seen' = seen \cup {<<step, shown, i>>}

\* Mutant: an error on the way is only logged.
WarnNever(a, w) == warnings' = warnings

WarnIfFailed(a, w) == warnings' = IF a = Failed THEN warnings \cup {w} ELSE warnings

Records(a) == IF a = Failed THEN <<>> ELSE a.records

\* The places of the records that begin with a version.
Tagged(a, tag) == {n \in DOMAIN Records(a) : Records(a)[n].tag = tag}

(***************************************************************************)
(* dns: the signatures are grouped by the name they resolve, and every     *)
(* group is looked up once, concurrently.                                  *)
(***************************************************************************)
DnsType == {"txt", "cname", "mx", "ns"}

Expand(query, candidate) ==
  FlattenSeq([i \in DOMAIN query |-> CASE query[i] = "{domain}" -> Domain
                                       [] query[i] = "{candidate}" -> candidate
                                       [] OTHER -> <<Lower[query[i]]>>])

ExpandQueries(sig, candidates) ==
  IF NeedsCandidate(sig) THEN {Expand(sig.query, c) : c \in candidates}
  ELSE {Expand(sig.query, <<>>)}

Groups(config) ==
  UNION {{<<sig.type, name>> : name \in ExpandQueries(sig, config.candidates) \ {<<>>}} :
           sig \in {s \in ToSet(config.sigs) : s.type \in DnsType}}

SigsOf(g) == {sig \in ByType(g[1]) : g[2] \in ExpandQueries(sig, scan.candidates)}

Holders(a, needle) == {n \in DOMAIN Records(a) : needle \in Records(a)[n].holds}

\* The records are searched as one text.
JoinedHold(a, needle) == Holders(a, needle) # {} \/ (a # Failed /\ needle \in a.across)

Texts(a) == [n \in DOMAIN Records(a) |-> Records(a)[n].text]

\* Evidence quotes the first record that holds the needle, or else all of them.
Quoted(a, needle) ==
  IF Holders(a, needle) # {} THEN <<Texts(a)[Earliest(Holders(a, needle))]>> ELSE Texts(a)

GroupReports(g, a) ==
  {SigReport(sig, sig.confidence, g[1], <<g[2], Quoted(a, sig.contains)>>) :
     sig \in {s \in SigsOf(g) : JoinedHold(a, s.contains)}}

ResolveGroup(i, g) ==
  /\ Is(i, "dns") /\ g \in pending[i]
  /\ \E a \in Outcomes(g) :
       /\ Learn(g, a) /\ WarnIfFailed(a, <<"dns", g>>)
       /\ reports' = reports \cup GroupReports(g, a)
  /\ pending' = [pending EXCEPT ![i] = @ \ {g}]
  /\ UNCHANGED <<scan, pc, tenantID, cancelled, seen>>

\* Mutant: a group whose lookup failed is never done.
DnsReturnsAnswered(i) ==
  /\ Is(i, "dns") /\ pc[i] = "running" /\ pending[i] = {} /\ Groups(scan) \subseteq DOMAIN answer
  /\ Goto(i, "done")
  /\ UNCHANGED <<scan, pending, tenantID, answer, reports, warnings, cancelled, seen>>

DnsReturns(i) ==
  /\ Is(i, "dns") /\ pc[i] = "running" /\ pending[i] = {}
  /\ Goto(i, "done")
  /\ UNCHANGED <<scan, pending, tenantID, answer, reports, warnings, cancelled, seen>>

-----------------------------------------------------------------------------
(***************************************************************************)
(* dmarc: who receives the reports that the first DMARC record asks for.   *)
(***************************************************************************)
DmarcName == <<"_dmarc">> \o Domain

DmarcHosts(a) ==
  LET of == Tagged(a, "v=dmarc1")
  IN  IF of = {} THEN {}
      ELSE {t.host : t \in {u \in Records(a)[Earliest(of)].terms : u.tag \in {"rua", "ruf"}}}

MatchingRua(host) == {sig \in ByType("dmarc_rua") : Occurs(sig.contains, host)}

DmarcReports(host) ==
  LET fact == <<host, "report destination">> IN
  IF MatchingRua(host) # {}
  THEN {SigReport(sig, sig.confidence, "dmarc", fact) : sig \in MatchingRua(host)}
  ELSE IF SameOrg(host, Domain) \/ ~scan.reportUnknown THEN {}
  ELSE {Report(host, "Unidentified sender", "low", "dmarc", fact)}

Dmarc(i) ==
  LET question == <<"txt", DmarcName>> IN
  /\ Is(i, "dmarc") /\ pc[i] = "running"
  /\ \E a \in Outcomes(question) :
       /\ Learn(question, a) /\ WarnIfFailed(a, <<"dmarc", question>>)
       /\ reports' = reports \cup UNION {DmarcReports(host) : host \in DmarcHosts(a)}
  /\ Goto(i, "done")
  /\ UNCHANGED <<scan, pending, tenantID, cancelled, seen>>

(***************************************************************************)
(* bimi: who hosts the logo and the certificate.  A lookup that fails is   *)
(* passed over in silence, and a lead is reported whatever -no-unknown     *)
(* says.                                                                   *)
(***************************************************************************)
BimiName == <<"default", "_bimi">> \o Domain

\* The places of the cname_target signatures whose suffix the host is under.
Attributions(host) ==
  {n \in DOMAIN scan.sigs : /\ scan.sigs[n].type = "cname_target"
                            /\ HostMatchesSuffix(host, scan.sigs[n].query)}

\* AttributeHost, of a host that has one.
Attributed(host) == scan.sigs[Earliest(Attributions(host))]

\* Mutant: the host is reported whoever it belongs to.
BimiReportOfAny(host) ==
  {Report(host, "Brand & Certificates", "low", "bimi", <<host, "indicator">>)}

BimiReport(host) ==
  LET fact == <<host, "indicator">>
  IN  IF SameOrg(host, Domain) THEN {}
      ELSE IF Attributions(host) # {} THEN {SigReport(Attributed(host), "high", "bimi", fact)}
      ELSE {Report(host, "Brand & Certificates", "low", "bimi", fact)}

BimiHosts(a) ==
  {t.host : t \in {u \in UNION {Records(a)[n].terms : n \in Tagged(a, "v=bimi1")} : u.tag = "url"}}

Bimi(i) ==
  LET question == <<"txt", BimiName>> IN
  /\ Is(i, "bimi") /\ pc[i] = "running"
  /\ \E a \in Outcomes(question) :
       /\ Learn(question, a) /\ See(i, "bimi", a)
       /\ reports' = reports \cup UNION {BimiReport(host) : host \in BimiHosts(a)}
  /\ Goto(i, "done")
  /\ UNCHANGED <<scan, pending, tenantID, warnings, cancelled>>

-----------------------------------------------------------------------------
\* do: a page, with its status, or an error.
Fetched(step) == {Failed} \cup IF cancelled THEN {} ELSE Pages(step)

Kind(page) == IF page = Failed THEN "failed" ELSE page.kind

(***************************************************************************)
(* mta-sts: the record says that there is a policy, the policy which mail  *)
(* hosts are authorised, and the mx signatures whose they are.             *)
(***************************************************************************)
StsName == <<"_mta-sts">> \o Domain

StsRecord(i) ==
  LET question == <<"txt", StsName>> IN
  /\ Is(i, "mta-sts") /\ pc[i] = "running"
  /\ \E a \in Outcomes(question) :
       /\ Learn(question, a) /\ See(i, "sts", a)
       /\ Goto(i, IF Tagged(a, "v=stsv1") # {} THEN "policy" ELSE "done")
  /\ UNCHANGED <<scan, pending, tenantID, reports, warnings, cancelled>>

Authorised(page) ==
  IF Kind(page) # "ok" THEN {}
  ELSE {SigReport(sig, sig.confidence, "mta-sts", <<StsName, "policy">>) :
          sig \in {s \in ByType("mx") : s.contains \in page.needles}}

\* An error and a status other than 200 are warned of alike.
StsPolicy(i) ==
  /\ Is(i, "mta-sts") /\ pc[i] = "policy"
  /\ \E page \in Fetched("policy") :
       /\ See(i, "policy", page)
       /\ reports' = reports \cup Authorised(page)
       /\ WarnIfFailed(IF Kind(page) = "ok" THEN page ELSE Failed, <<"mta-sts", StsName>>)
  /\ Goto(i, "done")
  /\ UNCHANGED <<scan, pending, tenantID, answer, cancelled>>

(***************************************************************************)
(* tenant: three requests in turn, each made whatever became of the ones   *)
(* before it.  Only the first one's failure is warned of.                  *)
(***************************************************************************)
Microsoft(fact) == Report(<<"Microsoft 365">>, "Identity & Secrets", "high", "tenant", fact)

TenantReports(page) == IF Kind(page) = "tenant" THEN {Microsoft(<<Domain, "tenant">>)} ELSE {}

\* Mutant: the scan of the tenant ends when its first request fails.
OpenIDOnly(i) ==
  /\ Is(i, "tenant") /\ pc[i] = "running"
  /\ \E page \in Fetched("openid") :
       /\ See(i, "openid", page) /\ WarnIfFailed(page, <<"tenant", Domain>>)
       /\ tenantID' = [tenantID EXCEPT ![i] = Kind(page) = "tenant"]
       /\ reports' = reports \cup TenantReports(page)
       /\ Goto(i, IF page = Failed THEN "done" ELSE "realm")
  /\ UNCHANGED <<scan, pending, answer, cancelled>>

OpenID(i) ==
  /\ Is(i, "tenant") /\ pc[i] = "running"
  /\ \E page \in Fetched("openid") :
       /\ See(i, "openid", page) /\ WarnIfFailed(page, <<"tenant", Domain>>)
       /\ tenantID' = [tenantID EXCEPT ![i] = Kind(page) = "tenant"]
       /\ reports' = reports \cup TenantReports(page)
  /\ Goto(i, "realm")
  /\ UNCHANGED <<scan, pending, answer, cancelled>>

\* A Federated namespace names the host that signs users in, whoever it belongs to.
Provider(page) ==
  LET fact == <<Domain, "federated", page.hosts>>
      Unnamed(vendor) == Report(vendor, "Identity & Secrets", "high", "tenant", fact)
  IN  IF page.hosts = <<>> THEN Unnamed(<<"Federated identity provider">>)
      ELSE IF Attributions(Head(page.hosts)) = {} THEN Unnamed(Head(page.hosts))
      ELSE SigReport(Attributed(Head(page.hosts)), "high", "tenant", fact)

RealmReports(page) ==
  CASE Kind(page) = "managed" -> {Microsoft(<<Domain, "managed">>)}
    [] Kind(page) = "federated" -> {Provider(page)}
    [] OTHER -> {}

UserRealm(i) ==
  /\ Is(i, "tenant") /\ pc[i] = "realm"
  /\ \E page \in Fetched("realm") :
       /\ See(i, "realm", page)
       /\ reports' = reports \cup RealmReports(page)
  /\ Goto(i, "domains")
  /\ UNCHANGED <<scan, pending, tenantID, answer, warnings, cancelled>>

Siblings(page) == IF Kind(page) = "ok" THEN ToSet(page.hosts) \ {Domain} ELSE {}

\* The evidence names the tenant when its id is known.
DomainReports(page, named) ==
  IF Siblings(page) = {} THEN {}
  ELSE {Microsoft(<<Domain, IF named THEN "domains of the tenant" ELSE "domains", Siblings(page)>>)}

FederatedDomains(i) ==
  /\ Is(i, "tenant") /\ pc[i] = "domains"
  /\ \E page \in Fetched("domains") :
       /\ See(i, "domains", page)
       /\ reports' = reports \cup DomainReports(page, tenantID[i])
  /\ Goto(i, "done")
  /\ UNCHANGED <<scan, pending, tenantID, answer, warnings, cancelled>>

-----------------------------------------------------------------------------
DetectorStep(i) ==
  \/ \E g \in pending[i] : ResolveGroup(i, g)
  \/ DnsReturns(i) \/ Dmarc(i) \/ Bimi(i) \/ StsRecord(i) \/ StsPolicy(i)
  \/ OpenID(i) \/ UserRealm(i) \/ FederatedDomains(i)

\* Run starts a goroutine for every detector it is given.
Launch(config) ==
  /\ scan' = config
  /\ pc' = [i \in DOMAIN config.detectors |-> "running"]
  /\ pending' = [i \in DOMAIN config.detectors |->
                   IF config.detectors[i] = "dns" THEN Groups(config) ELSE {}]
  /\ tenantID' = [i \in DOMAIN config.detectors |-> FALSE]

DetectorsDone == \A i \in Instance : pc[i] = "done"

-----------------------------------------------------------------------------
Shows(report, method, fact) == [method |-> method, fact |-> fact] \in report.evidence

\* What detector i asked for in a step.
Asked(i, step) == {s \in seen : s[1] = step /\ s[3] = i}

\* When a detector is done, it has asked for everything that it should, whatever became
\* of what it asked before; of every record and page that it was shown, what there is to
\* report is reported, once for each signature that matches, whatever others share the
\* name; and what could not be looked up or fetched is warned of, with the exceptions
\* that the code makes in silence: the lookups of bimi (email.go:293-295) and of the
\* record of mta-sts (email.go:336-338), and the requests for the realm (tenant.go:87-89)
\* and for the domains (tenant.go:188-190).
MatchReported(i) ==
  \A sig \in ToSet(scan.sigs) :
    sig.type \in DnsType =>
      \A name \in ExpandQueries(sig, scan.candidates) \ {<<>>} :
        LET question == <<sig.type, name>> IN
        \/ <<"dns", question>> \in warnings
        \/ /\ question \in DOMAIN answer
           /\ JoinedHold(answer[question], sig.contains) =>
                \E f \in reports : /\ f.labels = {sig.id} /\ f.confidence = sig.confidence
                                   /\ \E e \in f.evidence : /\ e.method = sig.type
                                                            /\ e.fact[1] = name

DestinationReported(host) ==
  LET Reported(labels) == \E f \in reports : /\ f.labels = labels
                                             /\ Shows(f, "dmarc", <<host, "report destination">>)
  IN  /\ \A sig \in MatchingRua(host) : Reported({sig.id})
      /\ MatchingRua(host) = {} =>
           SameOrg(host, Domain) \/ ~scan.reportUnknown \/ Reported({})

DestinationsReported(i) ==
  LET question == <<"txt", DmarcName>> IN
  \/ <<"dmarc", question>> \in warnings
  \/ /\ question \in DOMAIN answer
     /\ \A host \in DmarcHosts(answer[question]) : DestinationReported(host)

IndicatorReported(host) ==
  \/ SameOrg(host, Domain)
  \/ \E f \in reports : /\ Shows(f, "bimi", <<host, "indicator">>)
                         /\ f.labels = {} <=> Attributions(host) = {}

IndicatorsReported(i) ==
  /\ Asked(i, "bimi") # {}
  /\ \A s \in Asked(i, "bimi") : \A host \in BimiHosts(s[2]) : IndicatorReported(host)

PolicyReported(i) ==
  /\ Asked(i, "sts") # {}
  /\ \A s \in Asked(i, "sts") : Tagged(s[2], "v=stsv1") # {} => Asked(i, "policy") # {}
  /\ \A s \in Asked(i, "policy") :
       IF Kind(s[2]) # "ok" THEN <<"mta-sts", StsName>> \in warnings
       ELSE \A sig \in ByType("mx") :
              sig.contains \in s[2].needles =>
                \E f \in reports : f.labels = {sig.id} /\ Shows(f, "mta-sts", <<StsName, "policy">>)

\* The tenant's id was learnt.
TenantKnown(i) == \E s \in Asked(i, "openid") : Kind(s[2]) = "tenant"

TenantReported(i) ==
  /\ \A step \in {"openid", "realm", "domains"} : Asked(i, step) # {}
  /\ \A s \in Asked(i, "openid") :
       /\ s[2] = Failed => <<"tenant", Domain>> \in warnings
       /\ Kind(s[2]) = "tenant" => Microsoft(<<Domain, "tenant">>) \in reports
  /\ \A s \in Asked(i, "realm") :
       /\ Kind(s[2]) = "managed" => Microsoft(<<Domain, "managed">>) \in reports
       /\ Kind(s[2]) = "federated" =>
            \E f \in reports : Shows(f, "tenant", <<Domain, "federated", s[2].hosts>>)
  /\ \A s \in Asked(i, "domains") :
       Siblings(s[2]) # {} =>
         Microsoft(<<Domain, IF TenantKnown(i) THEN "domains of the tenant" ELSE "domains",
                     Siblings(s[2])>>) \in reports

PostureAccounted ==
  \A i \in Instance :
    pc[i] = "done" =>
      /\ scan.detectors[i] = "dns" => MatchReported(i)
      /\ scan.detectors[i] = "dmarc" => DestinationsReported(i)
      /\ scan.detectors[i] = "bimi" => IndicatorsReported(i)
      /\ scan.detectors[i] = "mta-sts" => PolicyReported(i)
      /\ scan.detectors[i] = "tenant" => TenantReported(i)

\* The page of a step says what a fact of the tenant's says.
Says(s, fact) ==
  \/ s[1] = "openid" /\ Kind(s[2]) = "tenant" /\ fact = <<Domain, "tenant">>
  \/ s[1] = "realm" /\ Kind(s[2]) = "managed" /\ fact = <<Domain, "managed">>
  \/ s[1] = "realm" /\ Kind(s[2]) = "federated" /\ fact = <<Domain, "federated", s[2].hosts>>
  \/ /\ s[1] = "domains" /\ Siblings(s[2]) # {}
     /\ \/ fact = <<Domain, "domains", Siblings(s[2])>>
        \/ TenantKnown(s[3]) /\ fact = <<Domain, "domains of the tenant", Siblings(s[2])>>

\* A record quoted for a needle holds it, or all of them are quoted and hold it together.
Quotes(a, needle, texts) ==
  \/ \E r \in ToSet(Records(a)) : texts = <<r.text>> /\ needle \in r.holds
  \/ a # Failed /\ needle \in a.across /\ texts = Texts(a)

Hosting(host) == {scan.sigs[n] : n \in Attributions(host)}

\* A record or a page that was seen says what the evidence says, and the signature that
\* the finding cites, if any, matches it.
Witnessed(f, e) ==
  LET Known(question) == IF question \in DOMAIN answer THEN answer[question] ELSE Failed
      Named(sigs) == \E sig \in sigs : sig.id \in f.labels
  IN  \/ /\ e.method \in DnsType
         /\ \E sig \in ByType(e.method) :
              sig.id \in f.labels
                /\ Quotes(Known(<<e.method, e.fact[1]>>), sig.contains, e.fact[2])
      \/ /\ e.method = "dmarc" /\ e.fact[1] \in DmarcHosts(Known(<<"txt", DmarcName>>))
         /\ f.labels = {} \/ Named(MatchingRua(e.fact[1]))
      \/ /\ e.method = "bimi" /\ e.fact[1] \in BimiHosts(Known(<<"txt", BimiName>>))
         /\ f.labels = {} \/ Named(Hosting(e.fact[1]))
      \/ /\ e.method = "mta-sts"
         /\ \E s \in seen : /\ s[1] = "policy" /\ Kind(s[2]) = "ok"
                             /\ Named({sig \in ByType("mx") : sig.contains \in s[2].needles})
      \/ /\ e.method = "tenant" /\ \E s \in seen : Says(s, e.fact)
         /\ f.labels = {} \/ (e.fact[2] = "federated" /\ Named(Hosting(Head(e.fact[3]))))

\* What a finding without a signature has to be.
Unattributed(f, e) ==
  \/ /\ e.method = "dmarc" /\ f.vendor = e.fact[1] /\ f.confidence = "low"
     /\ MatchingRua(f.vendor) = {} /\ ~SameOrg(f.vendor, Domain) /\ scan.reportUnknown
  \/ /\ e.method = "bimi" /\ f.vendor = e.fact[1] /\ f.confidence = "low"
     /\ Attributions(f.vendor) = {} /\ ~SameOrg(f.vendor, Domain)
  \/ /\ e.method = "tenant"
     /\ e.fact[2] = "federated" /\ e.fact[3] # <<>> =>
          f.vendor = Head(e.fact[3]) /\ Attributions(f.vendor) = {}

\* Nothing is made up: a finding that cites a signature cites one that is loaded and
\* enabled, and what backs it was seen.  One that cites none is a lead of dmarc or bimi,
\* which is low and names a host that is neither the organisation's own nor known to the
\* signatures the detector asks, or a finding about the tenant.  Of those, the host that
\* signs users in (tenant.go:143-155) is unknown to the signatures too, but it may be the
\* organisation's own: the code reports that on purpose, at high confidence.
PostureBacked ==
  \A f \in reports :
    /\ \A id \in f.labels : \E sig \in ToSet(scan.sigs) : sig.id = id /\ <<sig.vendor>> = f.vendor
    /\ \A e \in f.evidence : Witnessed(f, e) /\ (f.labels = {} => Unattributed(f, e))

=============================================================================
