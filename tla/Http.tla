--------------------------------- MODULE Http ---------------------------------
(***************************************************************************)
(* The HTTP detector (internal/detect/http.go) over the web client         *)
(* (internal/webclient/webclient.go).  Every signature names a URL, or one *)
(* for each candidate; the detector fetches them, a number at a time,      *)
(* through a client that bounds the requests in flight and the bytes read, *)
(* and decides from status and body whether a tenant exists.               *)
(*                                                                         *)
(* A page is a status and a sequence of pieces; a response is cut after    *)
(* any piece when its connection breaks, and at BodyCap pieces always.     *)
(***************************************************************************)
EXTENDS Namespace, FiniteSets

CONSTANTS
  Signatures,   \* the http signatures, in order
  Candidates,   \* the candidates of the scan, in order
  Name,         \* Name[c]: what a candidate says
  FirstLabel,   \* what the first label of the scanned domain says
  Short,        \* the candidates of shortCandidateLen characters or less
  Unparsable,   \* those that do not make a URL
  Status,       \* HTTP status codes
  Titles,       \* Titles[t]: the title that pages write as t
  Odd,          \* pieces that are longer or shorter in lower case, as invalid UTF-8 is
  Misread,      \* what may be read in place of a title after an odd piece
  Sites,        \* what may be behind the URL of a probe
  BodyCap,      \* pieces of a body that are read (512 KB in the code)
  Parallel,     \* goroutines of the detector (16 in the code)
  Slots         \* -http-concurrency

Confidence == {"low", "medium", "high"}

\* Which part of match is set: a marker that must be there, one that must not, or
\* neither, with the status codes listed.
Signature == [match : {"present", "absent", "status"}, status : SUBSET Status,
              candidate : BOOLEAN, confidence : Confidence, vendor : Text]

\* The marker of the signature, a title, the rest.
Piece == {"marker", "text"} \cup Odd \cup DOMAIN Titles

\* tenant: the page belongs to an account that exists.
Site == [tenant : BOOLEAN, status : Status, content : Seq(Piece)]

ASSUME HttpAssumption ==
  /\ Signatures \in Seq(Signature)
  /\ \A i \in DOMAIN Signatures :
       Signatures[i].match = "status" => Signatures[i].status # {}
  /\ Candidates \in Seq(DOMAIN Name)
  /\ \A t \in DOMAIN Titles : Titles[t] \in Text
  /\ Misread \subseteq Text
  /\ Status \subseteq Nat
  /\ BodyCap \in Nat \ {0} /\ Parallel \in Nat \ {0} /\ Slots \in Nat \ {0}

\* expandQueries: a signature and, when its URL takes one, the index of a candidate.
Probe == {p \in (DOMAIN Signatures) \X (0 .. Len(Candidates)) :
            p[2] > 0 <=> Signatures[p[1]].candidate}

Sig(p) == Signatures[p[1]]
Before(q, p) == q[1] < p[1] \/ (q[1] = p[1] /\ q[2] < p[2])

ContestedByLength(p) == p[2] > 0 /\ Candidates[p[2]] \in Short

ASSUME SitesAssumption == Sites \in [Probe -> SUBSET Site]

VARIABLES
  site,       \* what is behind every URL
  pc,         \* where the goroutine of each probe is
  body,       \* what was read of its page
  taken,      \* slots of the client's semaphore in use
  requests,   \* the client's counter
  findings,   \* the findings reported
  warnings,   \* the probes that the report warns of
  main,       \* "probing", "returned" or "crashed"
  cancelled   \* the context of the scan is done

client == <<taken, requests>>
report == <<findings, warnings>>
vars == <<site, pc, body, client, report, main, cancelled>>

Init ==
  /\ site \in [Probe -> UNION {Sites[p] : p \in Probe}]
  /\ \A p \in Probe : site[p] \in Sites[p]
  /\ pc = [p \in Probe |-> "queued"]
  /\ body = [p \in Probe |-> <<>>]
  /\ taken = 0 /\ requests = 0
  /\ findings = {} /\ warnings = {}
  /\ main = IF Signatures = <<>> THEN "returned" ELSE "probing"
  /\ cancelled = FALSE

-----------------------------------------------------------------------------
Goto(p, label) == pc' = [pc EXCEPT ![p] = label]

Warn(p) == warnings' = warnings \cup {p}

Active == {p \in Probe : pc[p] \notin {"queued", "done"}}

\* g.Go, which waits until the group has room.
Launch(p) ==
  /\ pc[p] = "queued"
  /\ \A q \in Probe : Before(q, p) => pc[q] # "queued"
  /\ Cardinality(Active) < Parallel
  /\ Goto(p, "waiting")
  /\ UNCHANGED <<site, body, client, report, main, cancelled>>

\* The select of do: both ways are open when the scan is cancelled.
Acquire(p) ==
  /\ pc[p] = "waiting" /\ taken < Slots
  /\ taken' = taken + 1
  /\ Goto(p, "building")
  /\ UNCHANGED <<site, body, requests, report, main, cancelled>>

Abandon(p) ==
  /\ pc[p] = "waiting" /\ cancelled
  /\ Warn(p) /\ Goto(p, "done")
  /\ UNCHANGED <<site, body, client, findings, main, cancelled>>

\* Mutant: the slot is given back on success only.
FailHolding(p) ==
  /\ Warn(p) /\ Goto(p, "done")
  /\ UNCHANGED <<site, body, taken, findings, main, cancelled>>

\* do returns an error, and the deferred release runs.
Fail(p) ==
  /\ Warn(p) /\ Goto(p, "done")
  /\ taken' = taken - 1
  /\ UNCHANGED <<site, body, findings, main, cancelled>>

Buildable(p) == p[2] > 0 => Candidates[p[2]] \notin Unparsable

Unbuilt(p) == pc[p] = "building" /\ ~Buildable(p) /\ Fail(p) /\ UNCHANGED requests

Request(p) ==
  /\ pc[p] = "building" /\ Buildable(p) /\ ~cancelled
  /\ requests' = requests + 1
  /\ Goto(p, "asked")
  /\ UNCHANGED <<site, body, taken, report, main, cancelled>>

\* A request is counted before Do looks at the context.
Unsent(p) ==
  /\ pc[p] = "building" /\ Buildable(p) /\ cancelled
  /\ requests' = requests + 1
  /\ Fail(p)

\* No connection, too many redirects, a timeout, the context, no byte of the body.
Refused(p) == pc[p] = "asked" /\ Fail(p) /\ UNCHANGED requests

\* Whatever was read is the body, also when the connection broke after it.
Respond(p) ==
  /\ pc[p] = "asked"
  /\ \E n \in 0 .. BodyCap :
       /\ n <= Len(site[p].content)
       /\ n = 0 => site[p].content = <<>>
       /\ body' = [body EXCEPT ![p] = SubSeq(site[p].content, 1, n)]
  /\ taken' = taken - 1
  /\ Goto(p, "judging")
  /\ UNCHANGED <<site, requests, report, main, cancelled>>

-----------------------------------------------------------------------------
Holds(pieces, piece) == \E i \in DOMAIN pieces : pieces[i] = piece

StatusAllowed(status, sig) ==
  \/ sig.status # {} /\ status \in sig.status
  \/ sig.status = {} /\ (sig.match = "present" \/ status \in 200 .. 399)

\* Mutant: an absent marker tells whatever the status.
FiresUnguarded(p) ==
  CASE Sig(p).match = "absent" -> ~Holds(body[p], "marker")
    [] OTHER -> /\ StatusAllowed(site[p].status, Sig(p))
                /\ Sig(p).match = "present" => Holds(body[p], "marker")

\* Mutant: the default range of status codes is for every kind of signature.
FiresInRange(p) ==
  /\ site[p].status \in (IF Sig(p).status = {} THEN 200 .. 399 ELSE Sig(p).status)
  /\ Sig(p).match = "present" => Holds(body[p], "marker")
  /\ Sig(p).match = "absent" => ~Holds(body[p], "marker")

Fires(p) ==
  /\ StatusAllowed(site[p].status, Sig(p))
  /\ Sig(p).match = "present" => Holds(body[p], "marker")
  /\ Sig(p).match = "absent" => ~Holds(body[p], "marker")

\* titleTextStart: where the first title is, 0 if there is none.
TitleStart(pieces) == SelectInSeq(pieces, LAMBDA piece : piece \in DOMAIN Titles)

\* The title is found in a lower-case copy of the page and taken out of the page itself,
\* where an odd piece has shifted it.
Shifted(pieces) == \E i \in 1 .. TitleStart(pieces) : pieces[i] \in Odd

\* titleTag: what may be read as the title, the empty text if there is none.
TitleTag(pieces) ==
  IF TitleStart(pieces) = 0 THEN {<<>>}
  ELSE IF Shifted(pieces) THEN Misread
  ELSE {Titles[pieces[TitleStart(pieces)]]}

Named(p) == Name[Candidates[p[2]]]

\* Asked of candidates only: the titles that conflictingOrg objects to.
TitleTexts == {<<>>} \cup Misread \cup {Titles[t] : t \in DOMAIN Titles}

Conflicts ==
  {c \in Probe \X TitleTexts :
     LET p == c[1]
     IN  p[2] > 0 /\ ConflictingOrg(c[2], Named(p), FirstLabel, Sig(p).vendor)}

\* Mutant: only the length of the candidate counts.
GradedByLength(p, title) ==
  [confidence |-> IF ContestedByLength(p) /\ Sig(p).confidence = "high" THEN "medium"
                  ELSE Sig(p).confidence,
   contested  |-> ContestedByLength(p)]

Graded(p, title) ==
  LET contested == ContestedByLength(p) \/ <<p, title>> \in Conflicts
  IN  [confidence |-> IF contested /\ Sig(p).confidence = "high" THEN "medium"
                      ELSE Sig(p).confidence,
       contested  |-> contested]

Judge(p) ==
  /\ pc[p] = "judging"
  /\ IF Fires(p)
     THEN \E title \in TitleTag(body[p]) :
            findings' = findings \cup {[probe |-> p, grade |-> Graded(p, title)]}
     ELSE findings' = findings
  /\ Goto(p, "done")
  /\ UNCHANGED <<site, body, client, warnings, main, cancelled>>

\* A slice out of range: a panic in a goroutine of the group ends the process.  The title
\* is read for the evidence, except with a marker that was found, and for a candidate.
Crash(p) ==
  /\ pc[p] = "judging" /\ Fires(p) /\ Shifted(body[p])
  /\ Sig(p).match = "present" => p[2] > 0
  /\ main' = "crashed"
  /\ UNCHANGED <<site, pc, body, client, report, cancelled>>

-----------------------------------------------------------------------------
\* g.Wait: no goroutine returns an error.
Wait ==
  /\ main = "probing"
  /\ \A p \in Probe : pc[p] = "done"
  /\ main' = "returned"
  /\ UNCHANGED <<site, pc, body, client, report, cancelled>>

Cancel ==
  /\ ~cancelled /\ main = "probing"
  /\ cancelled' = TRUE
  /\ UNCHANGED <<site, pc, body, client, report, main>>

Step(p) ==
  /\ main = "probing"
  /\ \/ Launch(p) \/ Acquire(p) \/ Abandon(p) \/ Unbuilt(p) \/ Request(p) \/ Unsent(p)
     \/ Refused(p) \/ Respond(p) \/ Judge(p) \/ Crash(p)

Next == Wait \/ Cancel \/ \E p \in Probe : Step(p)

Spec == Init /\ [][Next]_vars

\* Every request ends, by its timeout at the latest, and the goroutines go on.
FairSpec == Spec /\ WF_vars(Wait) /\ \A p \in Probe : WF_vars(Step(p))

-----------------------------------------------------------------------------
Labels == {"queued", "waiting", "building", "asked", "judging", "done"}

TypeOK ==
  /\ \A p \in Probe : site[p] \in Sites[p]
  /\ pc \in [Probe -> Labels]
  /\ body \in [Probe -> Seq(Piece)] /\ \A p \in Probe : Len(body[p]) <= BodyCap
  /\ taken \in 0 .. Slots /\ requests \in Nat
  /\ warnings \subseteq Probe
  /\ \A f \in findings : /\ f.probe \in Probe
                         /\ f.grade \in [confidence : Confidence, contested : BOOLEAN]
  /\ main \in {"probing", "returned", "crashed"} /\ cancelled \in BOOLEAN

\* The slots in use are those of the requests in flight, and no more requests are
\* in flight than -http-concurrency allows (webclient.go:140-145).
Flying == {p \in Probe : pc[p] \in {"building", "asked"}}

InFlight == taken = Cardinality(Flying) /\ taken <= Slots

\* The whole page was read.
Whole(p) == body[p] = site[p].content

\* The whole page of an account that does not exist does not match the signature.
Honest ==
  \A p \in Probe : \A s \in Sites[p] :
    ~s.tenant /\ StatusAllowed(s.status, Sig(p)) =>
      CASE Sig(p).match = "present" -> ~Holds(s.content, "marker")
        [] Sig(p).match = "absent"  -> Holds(s.content, "marker")
        [] OTHER -> FALSE

\* The whole page of an account that exists does.
Recognisable ==
  \A p \in Probe : \A s \in Sites[p] :
    s.tenant =>
      /\ StatusAllowed(s.status, Sig(p))
      /\ Sig(p).match = "present" => Holds(s.content, "marker")
      /\ Sig(p).match = "absent" => ~Holds(s.content, "marker")

\* Of a page that was read whole, a finding tells the truth: the account exists.
\* The marker of a missing account may lie in the part that was not read: then the
\* evidence says that the page was not returned although it was (http.go:65).
NoPhantoms ==
  \A f \in findings :
    site[f.probe].tenant \/ (Sig(f.probe).match = "absent" /\ ~Whole(f.probe))

\* When the detector returns, an account that exists was reported, or a warning
\* stands for its URL, or the marker lies in the part of the page that was not read.
Accounted ==
  main = "returned" =>
    \A p \in Probe :
      site[p].tenant =>
        \/ \E f \in findings : f.probe = p
        \/ p \in warnings
        \/ Sig(p).match = "present" /\ ~Whole(p)

Strangers ==
  {c \in Probe \X TitleTexts :
     LET p == c[1]
     IN  /\ p[2] > 0 /\ StandsAlone(c[2], Sig(p).vendor)
         /\ NamesOther(c[2], Named(p), FirstLabel, Sig(p).vendor)}

\* A candidate that somebody else may have taken first is not proof, nor is a page that
\* was read whole and names another organisation (http.go:80-82).  Two pages are excepted:
\* one whose title has the vendor's name inside another word, where removeFold cuts it
\* out too and may destroy the name (namespace.go:217-233), and one whose title was
\* looked for in the wrong place (http.go:196-220).
HighIsProof ==
  \A f \in findings :
    LET p == f.probe
    IN  f.grade.confidence = "high" /\ p[2] > 0 =>
          /\ Candidates[p[2]] \notin Short
          /\ Whole(p) /\ ~Shifted(site[p].content) =>
               \A title \in TitleTag(site[p].content) : <<p, title>> \notin Strangers

\* The detector returns, whatever fails, unless a page with an odd piece before its
\* title ends the process.
Returns == <>(main = "returned" \/ \E p \in Probe : main = "crashed" /\ Shifted(body[p]))

=============================================================================
