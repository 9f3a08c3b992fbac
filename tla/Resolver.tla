------------------------------ MODULE Resolver ------------------------------
(***************************************************************************)
(* The DNS resolver shared by every detector of a scan                     *)
(* (internal/resolver/resolver.go): a cache in front of a singleflight     *)
(* group in front of a semaphore in front of a list of upstreams.          *)
(*                                                                         *)
(* Each goroutine runs Lookup; the actions are the points at which other   *)
(* goroutines can be seen: loading and storing the cache, entering and     *)
(* leaving the flight of a question, the semaphore, every packet sent.     *)
(* The network answers as it likes, and the scan's context may be          *)
(* cancelled at any moment.                                                *)
(***************************************************************************)
EXTENDS Naturals, FiniteSets

CONSTANTS
  Caller,      \* goroutines that look names up
  Question,    \* a name together with a record type
  Records,     \* record sets an upstream may return
  NumServers,  \* how many upstreams there are
  Attempts,    \* upstreams tried before giving up
  Concurrency, \* simultaneous exchanges
  Replies,     \* what the upstreams may reply
  MaxLookups,  \* bound: lookups each goroutine makes
  NoCaller, NoQuestion, NoAnswer

Rcode == {"NOERROR", "NXDOMAIN", "SERVFAIL", "REFUSED", "FORMERR"}

\* "NOREPLY" is an exchange that ended in an error or in a nil message.
Reply == [rcode : Rcode \cup {"NOREPLY"}, truncated : BOOLEAN, records : Records]

\* cut says which client brought a truncated message, for the properties: the code forgets it.
Answer == [rcode : Rcode, cut : {"no", "udp", "tcp"}, records : Records]

ASSUME ResolverAssumption ==
  /\ NumServers \in Nat \ {0} /\ Attempts \in Nat \ {0} /\ Concurrency \in Nat \ {0}
  /\ MaxLookups \in Nat
  /\ Replies \subseteq Reply
  /\ \A r \in Replies : r.truncated => r.rcode # "NOREPLY"
  /\ IsFiniteSet(Caller)
  /\ NoCaller \notin Caller /\ NoQuestion \notin Question /\ NoAnswer \notin Answer

VARIABLES
  cache,      \* the answer of every question looked up
  flight,     \* the goroutine that leads the flight of a question
  pc,         \* where each goroutine is in Lookup
  asked,      \* the question it looks up
  result,     \* what its flight returned; NoAnswer is an error
  start,      \* the first upstream of its exchange
  tries,      \* the attempts its exchange has made
  holders,    \* goroutines that hold a slot of the semaphore
  rr,         \* round-robin counter, modulo NumServers
  cancelled,  \* the context of the scan is done
  queries, hits,  \* the statistics
  lookups,    \* lookups left, to bound the model
  tried,      \* history: upstreams asked in this lookup
  told,       \* history: answers callers were given
  saved       \* history: lookups answered that sent no query

stats == <<queries, hits>>
history == <<tried, told, saved>>
exchange == <<start, tries, holders, rr>>
vars == <<cache, flight, pc, asked, result, exchange, cancelled, stats, lookups, history>>

Init ==
  /\ cache = [q \in Question |-> NoAnswer]
  /\ flight = [q \in Question |-> NoCaller]
  /\ pc = [p \in Caller |-> "idle"]
  /\ asked = [p \in Caller |-> NoQuestion]
  /\ result = [p \in Caller |-> NoAnswer]
  /\ start = [p \in Caller |-> 0]
  /\ tries = [p \in Caller |-> 0]
  /\ holders = {}
  /\ rr = 0
  /\ cancelled = FALSE
  /\ queries = 0 /\ hits = 0
  /\ lookups = [p \in Caller |-> MaxLookups]
  /\ tried = [p \in Caller |-> {}]
  /\ told = {}
  /\ saved = 0

-----------------------------------------------------------------------------
Goto(p, label) == pc' = [pc EXCEPT ![p] = label]

Yield(p, a) == result' = [result EXCEPT ![p] = a]

(***************************************************************************)
(* Lookup: the fast path, then the flight.                                 *)
(***************************************************************************)
Hit(p, q) ==
  /\ pc[p] = "idle" /\ lookups[p] > 0
  /\ cache[q] # NoAnswer
  /\ hits' = hits + 1
  /\ told' = told \cup {<<q, cache[q]>>}
  /\ saved' = saved + 1
  /\ lookups' = [lookups EXCEPT ![p] = @ - 1]
  /\ UNCHANGED <<cache, flight, pc, asked, result, exchange, cancelled, queries, tried>>

Miss(p, q) ==
  /\ pc[p] = "idle" /\ lookups[p] > 0
  /\ cache[q] = NoAnswer
  /\ asked' = [asked EXCEPT ![p] = q]
  /\ tried' = [tried EXCEPT ![p] = {}]
  /\ lookups' = [lookups EXCEPT ![p] = @ - 1]
  /\ Goto(p, "missed")
  /\ UNCHANGED <<cache, flight, result, exchange, cancelled, stats, told, saved>>

\* singleflight.Group.Do: lead the flight of the question or wait for it.
Lead(p) ==
  /\ pc[p] = "missed" /\ flight[asked[p]] = NoCaller
  /\ flight' = [flight EXCEPT ![asked[p]] = p]
  /\ Goto(p, "leading")
  /\ UNCHANGED <<cache, asked, result, exchange, cancelled, stats, lookups, history>>

Follow(p) ==
  /\ pc[p] = "missed" /\ flight[asked[p]] # NoCaller
  /\ Goto(p, "waiting")
  /\ UNCHANGED <<cache, flight, asked, result, exchange, cancelled, stats, lookups, history>>

Waiters(q) == {w \in Caller : pc[w] = "waiting" /\ asked[w] = q}

\* Mutant: the leader goes to the network without another look.
RecheckNothing(p) ==
  /\ pc[p] = "leading"
  /\ Goto(p, "queued")
  /\ UNCHANGED <<cache, flight, asked, result, exchange, cancelled, stats, lookups, history>>

\* The leader looks at the cache again: the flight it missed may have filled it.
Recheck(p) ==
  /\ pc[p] = "leading"
  /\ IF cache[asked[p]] # NoAnswer
     THEN hits' = hits + 1 /\ Yield(p, cache[asked[p]]) /\ Goto(p, "landing")
     ELSE UNCHANGED <<hits, result>> /\ Goto(p, "queued")
  /\ UNCHANGED <<cache, flight, asked, exchange, cancelled, queries, lookups, history>>

\* Mutant: only names that exist are cached.
StoreExisting(p) ==
  /\ pc[p] = "storing"
  /\ cache' = [cache EXCEPT ![asked[p]] = IF result[p].rcode = "NOERROR" THEN result[p] ELSE @]
  /\ Goto(p, "landing")
  /\ UNCHANGED <<flight, asked, result, exchange, cancelled, stats, lookups, history>>

\* The store is the last thing the flight's function does.
Store(p) ==
  /\ pc[p] = "storing"
  /\ cache' = [cache EXCEPT ![asked[p]] = result[p]]
  /\ Goto(p, "landing")
  /\ UNCHANGED <<flight, asked, result, exchange, cancelled, stats, lookups, history>>

Received(p) ==
  told' = IF result[p] = NoAnswer THEN told ELSE told \cup {<<asked[p], result[p]>>}

\* The flight ends: its waiters get the leader's result, and a leader that was
\* waited for counts a shared lookup, as they do.
Land(p) ==
  LET waiters == Waiters(asked[p]) IN
  /\ pc[p] = "landing"
  /\ flight' = [flight EXCEPT ![asked[p]] = NoCaller]
  /\ pc' = [w \in Caller |-> IF w = p THEN "idle"
                             ELSE IF w \in waiters THEN "woken" ELSE pc[w]]
  /\ result' = [w \in Caller |-> IF w \in waiters THEN result[p] ELSE result[w]]
  /\ hits' = IF result[p] # NoAnswer /\ waiters # {} THEN hits + 1 ELSE hits
  /\ saved' = IF result[p] # NoAnswer /\ tried[p] = {} THEN saved + 1 ELSE saved
  /\ Received(p)
  /\ UNCHANGED <<cache, asked, exchange, cancelled, queries, lookups, tried>>

\* Mutant: only the leader of a shared flight is counted.
WakeUncounted(p) ==
  /\ pc[p] = "woken"
  /\ saved' = IF result[p] # NoAnswer THEN saved + 1 ELSE saved
  /\ Received(p)
  /\ Goto(p, "idle")
  /\ UNCHANGED <<cache, flight, asked, result, exchange, cancelled, stats, lookups, tried>>

Wake(p) ==
  /\ pc[p] = "woken"
  /\ hits' = IF result[p] # NoAnswer THEN hits + 1 ELSE hits
  /\ saved' = IF result[p] # NoAnswer THEN saved + 1 ELSE saved
  /\ Received(p)
  /\ Goto(p, "idle")
  /\ UNCHANGED <<cache, flight, asked, result, exchange, cancelled, queries, lookups, tried>>

-----------------------------------------------------------------------------
(***************************************************************************)
(* exchange: a slot, then the upstreams in turn.                           *)
(***************************************************************************)
Acquire(p) ==
  /\ pc[p] = "queued" /\ Cardinality(holders) < Concurrency
  /\ holders' = holders \cup {p}
  /\ rr' = (rr + 1) % NumServers
  /\ start' = [start EXCEPT ![p] = rr']
  /\ tries' = [tries EXCEPT ![p] = 0]
  /\ Goto(p, "trying")
  /\ UNCHANGED <<cache, flight, asked, result, cancelled, stats, lookups, history>>

\* While queueing, cancellation and a free slot race.
Abandon(p) ==
  /\ pc[p] = "queued" /\ cancelled
  /\ Yield(p, NoAnswer)
  /\ Goto(p, "landing")
  /\ UNCHANGED <<cache, flight, asked, exchange, cancelled, stats, lookups, history>>

\* Mutant: the retry asks the same upstream.
FirstUpstream(p) == start[p]

Upstream(p) == (start[p] + tries[p]) % NumServers

Send(p) ==
  /\ pc[p] = "trying" /\ tries[p] < Attempts /\ ~cancelled
  /\ queries' = queries + 1
  /\ tried' = [tried EXCEPT ![p] = @ \cup {Upstream(p)}]
  /\ tries' = [tries EXCEPT ![p] = @ + 1]
  /\ Goto(p, "udp")
  /\ UNCHANGED <<cache, flight, asked, result, start, holders, rr, cancelled, hits,
                 lookups, told, saved>>

\* Mutant: the way out keeps its slot.
LeaveHolding(p, a, label) ==
  /\ Yield(p, a)
  /\ Goto(p, label)
  /\ UNCHANGED holders

\* Every way out of exchange releases the slot.
Leave(p, a, label) ==
  /\ holders' = holders \ {p}
  /\ Yield(p, a)
  /\ Goto(p, label)

GiveUp(p) ==
  /\ pc[p] = "trying" /\ (tries[p] = Attempts \/ cancelled)
  /\ Leave(p, NoAnswer, "landing")
  /\ UNCHANGED <<cache, flight, asked, start, tries, rr, cancelled, stats, lookups, history>>

Parse(r, client) ==
  [rcode |-> r.rcode, cut |-> IF r.truncated THEN client ELSE "no", records |-> r.records]

\* Mutant: a failure of the upstream is taken for an answer.
JudgeEveryReply(p, r, client) ==
  IF r.rcode = "NOREPLY"
  THEN Goto(p, "trying") /\ UNCHANGED <<holders, result>>
  ELSE Leave(p, Parse(r, client), "storing")

\* An error, SERVFAIL or REFUSED moves on to the next upstream; any other
\* response code is an answer, an unexpected one included.
Judge(p, r, client) ==
  IF r.rcode \in {"NOREPLY", "SERVFAIL", "REFUSED"}
  THEN Goto(p, "trying") /\ UNCHANGED <<holders, result>>
  ELSE Leave(p, Parse(r, client), "storing")

UdpReply(p) ==
  /\ pc[p] = "udp"
  /\ \E r \in Replies :
       IF r.truncated
       THEN Goto(p, "tcp") /\ UNCHANGED <<holders, result>>
       ELSE Judge(p, r, "udp")
  /\ UNCHANGED <<cache, flight, asked, start, tries, rr, cancelled, stats, lookups, history>>

\* What TCP brings is taken, truncated or not.
TcpReply(p) ==
  /\ pc[p] = "tcp"
  /\ \E r \in Replies : Judge(p, r, "tcp")
  /\ UNCHANGED <<cache, flight, asked, start, tries, rr, cancelled, stats, lookups, history>>

-----------------------------------------------------------------------------
Cancel ==
  /\ ~cancelled
  /\ cancelled' = TRUE
  /\ UNCHANGED <<cache, flight, pc, asked, result, exchange, stats, lookups, history>>

\* Everything a started lookup does on its own.
Proceed(p) ==
  \/ Lead(p) \/ Follow(p) \/ Recheck(p) \/ Store(p) \/ Land(p) \/ Wake(p)
  \/ Acquire(p) \/ Abandon(p) \/ Send(p) \/ GiveUp(p) \/ UdpReply(p) \/ TcpReply(p)

Lookup(p) == \E q \in Question : Hit(p, q) \/ Miss(p, q)

Next == Cancel \/ \E p \in Caller : Lookup(p) \/ Proceed(p)

Spec == Init /\ [][Next]_vars

\* The scheduler runs every goroutine, and the clients' timeouts end every
\* exchange, so a started lookup keeps moving.  Nobody has to start one.
Fairness == \A p \in Caller : WF_vars(Proceed(p))

FairSpec == Spec /\ Fairness

-----------------------------------------------------------------------------
Exchanging == {"trying", "udp", "tcp"}

TypeOK ==
  /\ cache \in [Question -> Answer \cup {NoAnswer}]
  /\ flight \in [Question -> Caller \cup {NoCaller}]
  /\ pc \in [Caller -> {"idle", "missed", "leading", "waiting", "queued", "storing",
                        "landing", "woken"} \cup Exchanging]
  /\ asked \in [Caller -> Question \cup {NoQuestion}]
  /\ result \in [Caller -> Answer \cup {NoAnswer}]
  /\ start \in [Caller -> 0 .. NumServers - 1]
  /\ tries \in [Caller -> 0 .. Attempts]
  /\ holders \subseteq Caller
  /\ rr \in 0 .. NumServers - 1
  /\ cancelled \in BOOLEAN
  /\ queries \in Nat /\ hits \in Nat /\ saved \in Nat
  /\ lookups \in [Caller -> 0 .. MaxLookups]
  /\ tried \in [Caller -> SUBSET (0 .. NumServers - 1)]
  /\ told \subseteq Question \X Answer

\* The semaphore caps the exchanges in flight and no way out of one leaks a slot:
\* the slots taken are those of the goroutines that are exchanging.
SlotsHeld ==
  /\ holders = {p \in Caller : pc[p] \in Exchanging}
  /\ Cardinality(holders) <= Concurrency

\* Nobody goes to the network for an answer that is known, even a goroutine that
\* missed the cache just before another one filled it and left its flight.
NoRepeatedExchange ==
  \A p \in Caller :
    pc[p] \in Exchanging \cup {"queued", "storing"} => cache[asked[p]] = NoAnswer

\* Everyone who looks a question up in one scan gets the same answer, though two
\* exchanges could bring different ones: vanity.go compares answers.
Agreement == \A s, t \in told : s[1] = t[1] => s[2] = t[2]

\* What the cache keeps for the whole scan is an answer: never one upstream's failure,
\* and a truncated message only when TCP, which is asked for the rest, brought no more.
CacheHoldsAnswers ==
  \A q \in Question :
    cache[q] # NoAnswer => cache[q].cut # "udp" /\ cache[q].rcode \notin {"SERVFAIL", "REFUSED"}

\* One resolver failing does not mean the name is unresolvable: unless the scan
\* was cancelled, a lookup fails only after as many different upstreams as the
\* attempts allow.
FailureIsExhaustive ==
  \A p \in Caller :
    pc[p] = "landing" /\ result[p] = NoAnswer =>
      \/ cancelled
      \/ Cardinality(tried[p]) = IF Attempts < NumServers THEN Attempts ELSE NumServers

\* Every lookup that was answered without a query of its own is in the hits, the
\* ones that joined another's flight included.
HitsCoverSaved == hits >= saved

\* Lookups implement the service: one answer per question, told to everyone who
\* asks, and no error once it is known.
Service == INSTANCE LookupService WITH
  answer <- cache,
  asking <- [p \in Caller |-> IF pc[p] = "idle" THEN NoQuestion ELSE asked[p]]

ImplementsService == Service!Spec

\* Every started lookup returns, whoever leads its flight and however often the
\* scan is cancelled or the upstreams fail.
EveryLookupReturns == \A p \in Caller : pc[p] # "idle" ~> pc[p] = "idle"

=============================================================================
