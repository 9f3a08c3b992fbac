# A TLA+ model of yowie

yowie is a reconnaissance tool for SaaS footprints: given a domain and some
candidate names it asks DNS, web sites and certificate logs, matches the answers
with a library of signatures, and reports which vendors the organisation uses and
how sure that is.  It is one process per scan.  Nothing is persisted, so there is no
crash recovery to speak of; what is hard is that some hundred goroutines of nine
detectors share a resolver, a web client and two channels, that everything they
ask may fail, lie or never answer, and that the report must still be worth
something: no invented vendor, no lost vendor without a warning, no grade that
depends on scheduling.

Line numbers below are those of the repository; `PROJECT.json` maps every
definition to its lines.

## 1. Inventory

### Components

| Component | Code | State | Operations | Modules |
|---|---|---|---|---|
| Finding set | `internal/model/model.go` | one finding per lower-case vendor, order of arrival | `Add`, `Findings` | `Grading`, `FindingSet`, `FindingSetProofs` |
| Resolver | `internal/resolver/resolver.go` | cache, singleflight group, semaphore, round-robin index, counters | `Lookup`, `exchange`, `parse` | `Resolver`, `LookupService`, `ResolverProofs` |
| Engine | `internal/engine/engine.go` | two bounded channels, wait groups, collectors, the result | `Run` | `Engine`, `Scan`, `EngineProofs` |
| Detector selection | `engine.go`, `cmd/yowie/main.go` | none | `-only`, `-skip`, `SelectDetectors` | `Selection`, `Session`, `SessionProofs` |
| SPF detector | `internal/detect/email.go` | visited set, senders, lookup counter, recursion stack | `Run`, `walk` | `Spf`, `SpfProofs` |
| Vanity detector | `internal/detect/vanity.go`, `dns.go` | per signature: baseline, candidate index | `Run`, `baselineFingerprint` | `Vanity`, `VanityProofs` |
| Certificate transparency detector | `internal/detect/ct.go` | results of three aggregators, names, leads | `Run`, `fetch`, `hostCollector`, `mergeCTResults`, grouping | `Ct`, `CtProofs`, `Hostnames` |
| HTTP detector and web client | `internal/detect/http.go`, `internal/webclient/webclient.go` | semaphore, request counter, response | `Run`, `statusAllowed`, `do` | `Http`, `HttpProofs` |
| Namespace checks | `internal/detect/namespace.go` | the run of words of a title | `contestedByLength`, `conflictingOrg`, `properNounPhrases` | `Namespace`, with `Http` and `Vanity`, `HttpProofs` |
| DNS records detector | `internal/detect/dns.go` | lookups grouped by name and type | `Run`, `matchingRecord` | `Posture`, `SessionProofs` |
| DMARC, BIMI, MTA-STS | `internal/detect/email.go` | none | one lookup each, and one request | `Posture`, `SessionProofs` |
| Tenant detector | `internal/detect/tenant.go` | the tenant's id | three requests in sequence | `Posture`, `SessionProofs` |
| Signature loading | `internal/signature` | signatures and parked ones, ids seen | `LoadFS`, `validate`, `Expand` | `SignatureLoad`, `SessionProofs` |
| Command line | `cmd/yowie/main.go` | the command, the signal handler, the output, the exit code | `run` | `Session`, `SessionProofs` |
| Reports | `internal/report` | none | which findings and warnings each format shows | `Session`, in part, `SessionProofs` |
| Packs, scripts | `signatures`, `scripts` | none | data, developer tooling | not modelled |

### Interaction

`Run` of the engine starts one goroutine per detector and one collector per
channel.  A detector starts goroutines of its own in an `errgroup` with a limit
(dns 32, vanity 24, http 16, ct 32), and waits for them.  All of them call
`Resolver.Lookup` or the web client and send findings and warnings; the collector
of findings calls `FindingSet.Add`.  When the detectors have returned, the channels
are closed, the collectors drain what is left, and the result is read.  The
context of the scan reaches all of them and may be cancelled at any moment, by its
deadline or by the signal handler that `run` arms just before.  Around all this `run`
loads the packs, checks the command, opens the output, and writes the report from
what the engine returned.

### What is hard, and what makes each part correct

- **Finding set.**  Reports come in an order nobody chooses.  The grade has to be
  a function of the set of reports; a contested name never becomes proof however
  much evidence accumulates; no report weakens a finding.
- **Resolver.**  A cache miss, a flight and a store interleave between goroutines.
  Nobody repeats a finished exchange, everyone is told one answer, a slot is never
  leaked, failures are never cached, a lookup fails only after the upstreams did.
- **Engine.**  Bounded channels, closing, draining and panics.  No message after
  the close, none lost before the result, `Run` returns, failures are reported.
- **SPF.**  Other people's include graphs, cyclic and incomplete.  The walk ends
  within its bound, and its report is exact or says that it is not.
- **Vanity, HTTP.**  Zones and sites that answer for strangers.  No account is
  made up; none is lost without a warning; high confidence is proof.
- **Certificate transparency.**  Three sources that fail independently, a limit, and
  concurrent lookups that append to one list.
- **Namespace checks.**  After the vendor's name was cut out, a loop over words with a run,
  a counter and a flush decides whether a page belongs to a stranger.  It objects exactly to
  the titles that name one, unless the vendor's name is inside another word.
- **Detectors of the domain itself.**  Signatures share lookups, requests follow one
  another whether or not the last one failed.  Each match is reported from the answer
  that was seen, nothing else is, and a question without an answer is told where the
  code means to.
- **The command.**  Errors, signals and the deadline may come at any point.  Packs load
  exactly or not at all, the flags decide what runs, and what was found is shown.

`PROJECT.json` lists these hazards at their lines.

## 2. Modules and the code

Every module's constants carry a named assumption; TLC evaluates it in each run.
A definition marked `Mutant:` is a plausible bug, and is used only to show that
the property next to it would notice.  A loop of the code is a recursive function of
the number of rounds done, so that what it has gathered so far can be reasoned about.

**`Grading`, `FindingSet`.**  `Merged` is the body of `Add` for a vendor seen
before: strongest confidence, promotion of medium on a second method, contested
cap last (model.go:172-210); `Capped` alone applies to a first report.  Evidence,
signature ids and notes are lists without duplicates in the code and sets here;
`labels` stands for ids and notes, which merge alike.  The key of a vendor is the
rank of its lower-case name, so two spellings share a key.  `Findings` is the list
that the reporters render: the stable sort puts at the n-th place the finding that n - 1
others come before (`Before`, `Rank`), by grade, then name, then order of arrival.  `Grade` is the reference: what the grade of a set
of reports ought to be, with no order in it.

**`LookupService`** is the abstract resolver: a question has at most one answer,
callers ask, are told it, or fail.  **`Resolver`** is `Lookup` split at the points
where goroutines see each other: `Hit`/`Miss` (fast path), `Lead`/`Follow`
(`singleflight.Do`), `Recheck` (second look inside the flight), `Acquire`/`Abandon`
(semaphore against context), `Send`, `UdpReply`, `TcpReply`, `GiveUp` (the retry
loop), `Store`, `Land` (the flight ends, waiters get its result), `Wake`.  The
network answers anything in `Replies`.  `queries` and `hits` are the statistics;
`tried`, `told` and `saved` are history for the properties.

**`Scan`** is what a scan promises: reports and complaints, then one result, final,
with the verdict `Grade` on every vendor.  **`Engine`** is `Run`: detectors and the
workers they own send over bounded channels, return, fail or panic.  A send is committed:
`Send` takes the message in hand (`held`), and its goroutine does nothing else until
`Emit` or `Warn` finds room in the channel, as `findings <- f` and `warnings <- w` do
(engine.go:113-114).  Two collectors drain; `DetectorsReturned`, `CloseChannels`, `ReturnResult` are `wg.Wait`, the two
`close` calls and the final assembly.  It extends `FindingSet`, so the collector
performs the real `Add`.

**`Spf`** is the recursion of `walk` with an explicit stack of terms still to do.
Visited set, counter and its limit are as in the code; parsing of a record is
abstracted to its list of hosts, each marked as recursing or not.

**`Hostnames`** has host names as sequences of labels, the suffix match with its
one-label glob, and `ProviderKey`.  **`Ct`** queries the aggregators in any order,
collects the organisation's names from what they list (`hostCollector`: wildcards name
their parent, spellings collapse, neighbours drop out), merges, truncates, resolves
with a limited group and groups what is left into leads (`HitsOf`).  `resolved` and `lost`
are history: which lookups brought an answer.  In the reference a provider covers a target
that it equals, or that lies below it if it is a name that somebody may register
(`Covers`, `Registrable`).

**`Vanity`** gives each vendor a zone: what it answers for names that nobody has,
and for tenants.  One goroutine per signature runs two probes and then the
candidates; an answer is its fingerprint.

**`Namespace`** is `conflictingOrg` over texts of letters, blanks and marks.
`RemoveFold` cuts a form of the vendor's name out of the text wherever it occurs, also
inside a word, and `Cleaned` cuts the forms in turn; `Words` reads the words of what is
left, `Read` and `Flush` are the loop of `properNounPhrases`, `Overlaps` the comparison
with candidate and domain.  The reference has no loop: `Blanked` takes all the forms out of
the title at once, and `NamesOther` says what a name in the words of that is.
`StandsAlone` says that the vendor's name is never a part of another word.

**`Http`** gives each URL a site: a status and pieces of a body.  A goroutine per
signature and candidate takes a slot of the web client, is counted, gets any
prefix of the body up to the cap (a connection that breaks inside the body is no
error once something was read, webclient.go:172-175), and judges what it got, the
first title it read included (`TitleTag`).  The offset of a title is found in a lower-case
copy of the page; a page with an `Odd` piece before its title, whose copy has another
length, is `Shifted`, and then any text of `Misread` may be taken for its title, or the
process ends (`Crash`).

**`SignatureLoad`** is the two nested loops, `LoadPack` in `LoadFS` and `LoadSignature` in
`LoadPack`; `Sound`, `Enabled` and `Parked` are the reference, without a loop.  **`Selection`** is
the two flags, the list they give and what `Run` makes of an empty list.

**`Posture`** has the detectors dns, dmarc, bimi, mta-sts and tenant, one process each,
with dns resolving its groups in any order.  A signature of dns matches the records of an
answer written one after the other (`JoinedHold`, dns.go:84-90), and evidence quotes the
one record that holds the needle or else all of them (`Quoted`).  A lookup is what `LookupService` promises:
it may fail until the question has an answer and brings that answer ever after.  A
request brings one of the pages of its step, or fails.  `seen` is history: which answer
or page each step of each detector was shown.

**`Session`** is `run` of the command: `LoadSignatures`, `Validate`, `Check`,
`OpenOutput`, `NotifySignals`, `StartScan`, `Return` and `Render` in the order of the
code, with `Leave`, `Interrupt` and `Expire` where they may come.  It extends `Posture`
and `Selection`, so the detectors that the flags chose run with the signatures that the
packs gave.  Grading and channels are those of `FindingSet` and `Engine` and are not
repeated here; `Return` takes from `Scan` that all reports and complaints arrive.

## 3. Runs

| Run | Question | States |
|---|---|---|
| `findings` | Do grades, marks and the listing depend on the set of reports only? | 13 398 |
| `findings_overlap` | What if two signatures of one vendor match the same record at different confidences? Violated. | |
| `resolver` | Three goroutines, two questions, one slot, two upstreams that disagree: service, slots, cache, failure, statistics, progress. | 199 016 |
| `engine` | Two detectors, one with two workers, room for one message: does `Run` implement `Scan` and return? | 173 183 |
| `engine_panic` | Is a panic in a goroutine that a detector started contained? Violated. | |
| `spf` | All include graphs of three names: bound, exactness, end. | 23 330 |
| `spf_loss` | Is a lost nested record reported? Violated. | |
| `session` | The command from its flags to its exit code: are packs loaded exactly, do the flags decide, is what was found shown and what was lost told, does it end? | 168 121 |
| `session_skip` | Does a detector that was skipped stay out? Violated. | |
| `ct` | Is lost coverage said, is the tail dropped whoever answers first, are leads exact? | 23 201 |
| `vanity` | Are tenants neither made up nor lost in wildcard and rotating zones? | 458 999 |
| `http` | The same for sites, with cut bodies, titles and one slot. | 255 642 |

Each property of a passing run has a mutant in `PROJECT.json`: the same run with
one definition replaced by a plausible bug violates it.

### Bounds

- `findings`: reports are chosen so that each pair of rules meets: two spellings,
  two methods, contested and owned, all three confidences.  Reports may repeat, in
  every order; the set `added` is finite, so this is complete for these reports.
- `resolver`: `MaxLookups = 1` per goroutine.  Three goroutines are needed for the
  race that the second look guards against (one in the flight, one that missed
  before it landed, one more to follow); one slot forces waiting and two upstreams
  with two attempts force a retry on another one.
- `engine`: `Capacity = 1` and `MaxSends = 1`.  Blocking on a full channel needs two
  senders and room for one; with one message in hand each, a detector and its workers fill
  both channels, so a collector that starts late leaves somebody blocked for good.
- `spf`: three names and two terms a record give self includes, loops and
  diamonds; the limit is lowered to 2 (10 in the code) so that it is reached.
- `ct`: three aggregators; `Limit = 3` of four own names, two lookups at a time, two
  names quoted.  Targets include a second level such as `com.au` by itself, below which
  others are registered.
- `vanity`: three signatures, two at a time; the zones deny, answer for all, or
  rotate.
- `http`: `BodyCap = 2` pieces with pages of three; two goroutines, one slot.  The
  sites keep the contract that a signature states for its vendor
  (signature.go:80-89): without it no detector could tell anything.  Titles name the
  organisation, another one, nobody, or another one behind a word that begins with the
  vendor's name; one page has an odd piece before its title.  `MCHttp` also evaluates three
  facts by `ASSUME`: in every title of up to four of six parts and for two vendor names,
  unless the vendor's name is inside another word, `conflictingOrg` objects exactly when the
  reference does (`MCHttpAssumption`); "Boxcar Rentals" is no stranger of a vendor Box
  although it is one of others (`MCHiddenAssumption`); and `Honest` and `Recognisable`, the
  hypotheses of theorems of `HttpProofs`, hold.
- `session`: the command lines are a union of families, one for each question: every
  kind of pack directory (each rule of `validate` broken once, ids repeated within a
  pack, across packs and with a parked signature), pairs of `-only` and `-skip`, every
  format with every flag that matters to warnings, and every detector alone and in pairs
  with three candidate lists.  A lookup fails, finds nothing or brings records; the
  policy and the tenant requests bring every kind of page.

`CHECK_DEADLOCK FALSE` is set where a finished scan has no further step.

### Fairness

Weak fairness of each goroutine's own steps, nothing else: the Go scheduler runs
every runnable goroutine, and the timeouts of the DNS clients and of the HTTP
client end every exchange and request.  The semaphores and group limits need no
strong fairness: a goroutine takes a slot once per exchange and the exchanges are
finitely many, so a slot is free for good in the end.  No fairness is assumed of
cancellation, of the start of a lookup, or of any particular answer.

## 4. Proofs

Checked by TLAPS for every value of the constants under their named assumptions.

`FindingSetProofs` (any vendors, reports and length of a scan):

- `TypeCorrect`: one well-formed finding per key, listed once.
- `AlwaysAccounted`: a finding has exactly the labels, evidence and contested mark
  of the reports merged into it.  This is the inductive invariant for what follows:
  the code keeps no record of the reports, so `Accounts` ties each finding to the
  history `added`.
- `ContestedCap`, `Strengthening`: from `Accounts`; the cap can take nothing back
  because a finding that was ever owned is never contested again.
- `OrderIndependence`: a step lemma, `GradeNext`, shows that merging into a finding
  with the grade of its reports gives the grade of the larger set.  It needs three
  hypotheses about the detectors: contested reports are capped at the source, a
  report has evidence of one method, and signatures of one vendor that match the same
  record agree on its worth.  The loader does not enforce the last one;
  `findings_overlap` shows that it is needed.
- `ReportOrderFixed`: each finding is kept under the key of its vendor (`KeyInv`), so no
  two findings tie on grade and name and the order of arrival never decides.  Places are
  counted: who comes before a finding comes before all that it comes before, so a later
  place has more ahead of it (`AheadGrows`) and each place is taken once (`PlaceTaken`).

`ResolverProofs` (any goroutines, questions, upstreams, attempts):

- `TypeCorrect` and `NeverAskedTwice`: the invariant `Flights` says that whoever is
  inside a flight leads the flight of its question (`OneLeader`), that a question on
  its way to the network is not in the cache, and that what a flight returned is what
  the cache holds (`Settled`).  `NoRepeatedExchange` alone is not inductive: it is
  preserved because no second leader can store an answer meanwhile.
- `ServiceImplemented`: every step is a step of `LookupService` or a stutter under
  the mapping cache to answer, asked to asking.
- `OneAnswer`: proved of the abstract service and carried over by the refinement.
- `SlotsNeverLeak`: a slot is held exactly while exchanging.
- `FailuresNeverCached`: what the leader of a flight is about to store came from an
  upstream that did not fail, and is truncated only if TCP brought it so (`AnswersGood`);
  `Settled` carries that to the cache.
- `FailsAfterAll`: the upstreams asked are the consecutive ones from the start of the
  round-robin (`InTurn`), so a new attempt asks a new one as long as there is one.
- `HitsCounted`: a leader whose second look found the answer is counted before it
  returns; the invariant adds those that are on their way (`HitsCoverDue`).

`EngineProofs` (any detectors, workers, messages and channel capacity):

- `ClosedForGood`: a worker runs only while its detector waits for it, whoever has a
  message in hand has not returned, and the channels are closed when every detector has
  returned (`Lifecycle`).
- `FailuresReach`: what was sent is in its channel or was collected, and the failure of
  a detector is about to be sent or was sent (`Delivery`).
- `ScanImplemented`: a collected finding is a step of `FindingSet`, so its invariants and
  its grades hold in the engine too; when the result is read, the channels are empty and
  `Delivery` makes it complete.  Assumes what `OrderIndependence` does.

`SpfProofs` (any include graph over finitely many hosts, any limit):

- `WalkStaysBounded`: a record is entered once per host, so the stack is no deeper than
  there are visited hosts.
- `SendersExact`: every term on the stack is one of the reference closure (`Sound`), and
  every term of a visited host was dealt with or is on the stack, unless the limit or a
  lost lookup is on record (`Whole`, `Told`).  At the end the stack is empty.

`VanityProofs` (any signatures, candidates and zones, any size of the group):

- `NoTenantMadeUp`, `HighEarned`, `NoTenantLost`, from one invariant: a finding rests on
  an answer that differs from a baseline that both probes brought (`Supported`), and every
  candidate before the current one is settled (`ProbeInv`).

`HttpProofs` (any signatures, sites, candidates, slots and caps):

- `SlotsReturned`: the slots taken are the requests between `Acquire` and the release.
- `FindingsTrue`: what was read is a beginning of the page, and a finding keeps saying
  what that beginning said (`FindingsInv`).  Assumes `Honest`, the contract that
  signatures state for their vendors.
- `NoAccountLost`: every request that ended is judged for good: reported, warned of, or
  not fired on what was read (`AllJudged`).  Assumes `Recognisable`: the page of an account
  is one that its signature matches.
- `HighConfidenceEarned`: high confidence is given only when the title that was read does
  not conflict, and the loops object to every name of somebody else (`StrangersFound`),
  for any letters, words, vendors and titles in which the vendor's name stands alone.
  First, the scan of `removeFold` blanks exactly the occurrences of one form (`RemovedForm`),
  and cutting the next form out of what the last ones left is cutting it out of the title,
  because where names stand alone an occurrence that an earlier cut has touched lies
  within that cut (`NextForm`); so the forms cut in turn are all of them cut at once (`CleanedIsBlanked`).
  Then, what the loop over the words holds after n of them is described by `ReadRun` and
  `RunHoldsName`: inside a stretch the run is the stretch so far, its counter has counted
  the telling capitals, and the flush at its end keeps it less its trailing connectors.
  The two exceptions of `HighIsProof` are those of the code (section 5).

`CtProofs` (any aggregators, listings, limit and lookups, in any order):

- `SilenceIsCoverage`, `TailIsSaid`: the names looked up, lost or waiting are the first of
  the merge, and its warnings stay (`CoverInv`).  `FirstNamesAll` and `FirstNamesFirst`
  turn the definition by counting into the one a reader expects: everything, or names
  that come before all the others.
- `LeadsAreExact`: the list of unknown names holds each resolved stranger once whatever the
  interleaving (`LeadInv`), the loop of a provider gathers exactly its names (`HitsAre`),
  and `ProviderKey` is the one key that covers a target (`KeyCovers`, `CoverIsKey`).

`SessionProofs` (any packs, command lines, formats, answers and pages, in any order, with a
signal, the deadline or an error at any point), from one invariant
`Inv == LoadInv /\ CommandInv /\ ReportInv /\ PostureInv`:

- `TypeCorrect`.
- `LoadsWhatIsSound`: what the two loops hold after any number of packs and signatures is
  what the reference says of that part of the directory (`Loading`), so a load succeeds
  exactly on a sound directory and holds exactly its signatures.
- `SelectionHolds`: the loop over the names keeps those that the flags leave, and `Run` is
  never reached with an unknown one.
- `NothingFoundIsLost`, `LossIsTold`: a complete output is the report of the result, and the
  result is what the detectors reported and warned of (`Returned`).  `LossIsTold` is about
  the losses that the code means to tell: lookups of dns and dmarc, the policy of mta-sts,
  and the first request of tenant.
- `DetectorsAccount`: what a step was shown is reported in that step (`SightReported`), and
  a question that a detector is through with was answered and reported or is warned of
  (`Owed`); an answer never changes once given.  `AskedForPolicy` and `AskedForTenant` tie
  the place of a detector to what it has asked for, so that when it is done no request was
  left out because an earlier one failed.  Failures that the code drops in silence are
  listed in the comment of `PostureAccounted`: nothing is claimed of them but that the
  question was asked.
- `FindingsBacked`: each report is backed when it is made, and what witnesses it is never
  taken back (`WitnessedStays`).  What a finding without a signature must be is said for
  each detector (`Unattributed`), with the host of a federated tenant, which the code reports
  whoever it belongs to, as a case of its own.

**How loops are proved.**  The induction theorems of the library take an operator as a
parameter and cannot be used; well-founded induction gives that a set of numbers has a least
member (`Least`), and with it that a set which holds 0 and with n - 1 also n holds every
number up to a bound (`UpTo`).  For each loop two facts follow: the recursive function
that the definition names exists, and after n rounds it holds what the reference says of the
first n elements.  Folds, `SelectSeq` and `SortSeq` of the libraries are themselves
recursive operators and have no such proof; where one is left (`Normalise` in
`Namespace`), no proof needs to know what it computes.  In `HttpProofs` the first of the two facts is
one lemma for all its loops (`LoopExists`).

**What failed proofs taught.**  `LeadsExact` once said that a provider is a suffix of its
targets and of no other name: the proof failed for a target that is itself a second level
under which others are registered, since `com.au` is then a key and a suffix of another
provider's targets.  The reference now says what a provider covers, and the run has such a
target.  `PostureAccounted` was not inductive while the history `seen` did not tell which
detector had been shown a page: two instances of one detector then answer for each other.
`HighConfidenceEarned` used to assume of the constants that the loop misses no name.

**Only model-checked.**  Liveness (`EveryLookupReturns`, `RunReturns`, `WalkEnds`, `Ends` and
`Returns` of `Ct`, `Vanity` and `Http`): TLAPS does not reason about fairness and `ENABLED`.
The converse of the title check, that a title to which the loop objects does name
somebody else (`MCHttpAssumption`, in small titles), which is about lost confidence and no
theorem needs it.  Every other property of a passing run is stated by a theorem.  The runs
that end in a violation are about claims that the code does not keep, and have none.

## 5. Divergences

Shown by a run:

- Two signatures that overlap on one record make the grade depend on the order
  (model.go:201 against model_test.go:132): `findings_overlap`.
- A panic in a goroutine of dns, vanity, http or ct ends the process
  (engine.go:126-132 recovers only the detector's own): `engine_panic`.
- A failed nested SPF lookup is silent (email.go:120-122): `spf_loss`.
- `-skip` with every detector runs them all (engine.go:59): `session_skip`.

Seen while modelling, without a run of their own:

- The SPF limit is tested before the counter is increased (email.go:109), so an
  eleventh lookup is made; `WalkBounded` states the bound that holds.
- A comment calls the promotion one of two medium signals (model.go:148-149); a
  medium and a low one of different methods promote as well.
- The leader of a shared flight counts a hit besides its query (resolver.go:187-195),
  so hits may exceed the queries avoided; `HitsCoverSaved` states the direction that
  holds.
- A body cut by a broken connection is judged as if whole, so a finding by an absent
  marker may state that the vendor's page was not returned when it was
  (webclient.go:172-175, http.go:65).  `NoPhantoms` of `Http` exempts just that case.
- A failed baseline probe is reported as an inconsistent zone (vanity.go:53-60).
- A failed lookup of a logged name is dropped without a warning (ct.go:118-121).
- The five names quoted in a lead depend on which lookups end first (ct.go:167).
- The comment on `providerKey` has its condition the wrong way round (ct.go:503-505).
- jsonl, csv and `-compact` have no place for warnings, so there a partial scan looks
  like a complete one (cli.go:82-91, structured.go:23-76, against detect.go:73-74);
  `LossTold` is about the other formats.
- Failed lookups of bimi and mta-sts and failed realm and domain requests of the tenant
  detector are silent (email.go:293-295 and 336-338, tenant.go:87-89 and 188-190).
- bimi reports leads under `-no-unknown` too (email.go:316), unlike dmarc, spf and ct.
- An unknown `-format` and a blank domain are refused only after the output file was
  emptied, the former after the whole scan (main.go:177, 253, engine.go:46).
- Flags that do not parse end the command with status 0 (main.go:112-114).
- The terminal report drops write errors, and csv those of its last flush
  (cli.go:79-153, structured.go:42 and 75): the exit status is 0 for a cut report.
- A second signal is swallowed: the handler reads one and stays registered
  (main.go:202-208), so a scan that is slow to stop cannot be interrupted again.
- The vendor's name is cut out of the middle of words too, which can destroy the name of
  somebody else: the page of "Boxcar Rentals" stays proof for a vendor Box
  (namespace.go:217-233).  `HighIsProof` of `Http` exempts such titles.
- `titleTag` and `removeFold` apply offsets found in a lower-case copy to the original
  (http.go:196-220, namespace.go:222-231); bytes that are no valid UTF-8 are longer in the
  copy, so another text may be taken for the title, or a slice is out of range, in a
  goroutine that nothing recovers.  `HighIsProof` and `Returns` of `Http` exempt pages with
  such bytes before their title; a title that has such bytes itself is not modelled.
- What TCP brings is taken even if it is truncated again (resolver.go:231-246);
  `CacheHoldsAnswers` exempts that.
- The host of a federated tenant is reported as a vendor, at high confidence, even when it is
  the organisation's own (tenant.go:143-155), unlike the leads of dmarc and bimi.
- When a vendor's signatures name different categories, the first report decides
  (model.go, `Add`), so the category depends on the order.

## 6. Not modelled, and why

- Text: records are the needles they hold, tags are the hosts they name; layouts, wording,
  evidence values beyond what identifies a record, YAML, JSON and XML are left out.  No
  property distinguishes their contents.  Titles are texts, but the letters of a small
  instance are groups of letters that stay together, and punctuation at the edges of a word
  is not there.
- The layout of the reports, banner and progress output, and the HTML template.
- Derived web clients: the certificate detector's client shares only the counter.
- The detectors spf, vanity, http and ct inside `Session`: they have modules of their own,
  and their composition would square the state space without a new interaction: they
  meet in the resolver, the web client and the channels, which `Resolver`, `Http` and
  `Engine` check.
- The flags that only size something (timeouts, concurrency), the packs, the scripts.

## 7. Plan

Done: findings, resolver, service, engine as a refinement of the scan, spf, vanity,
certificates, http with its title check, loading, the detectors of the domain itself,
the command; the proofs of section 4.

Left, the most important first:

1. Whether the packs in `signatures/` satisfy `EvidenceDecides`, the hypothesis of
   `OrderIndependence`.
2. That `Session` and the modules of the other detectors keep what the abstract scan
   assumes of a detector: contested reports capped at the source, evidence of one method.
3. The type invariants of `Vanity` and `Ct` as theorems, and the converse of the title check.
4. The derived web client of the certificate detector, with its own semaphore.
