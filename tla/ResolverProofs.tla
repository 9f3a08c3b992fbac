--------------------------- MODULE ResolverProofs ---------------------------
(***************************************************************************)
(* Theorems about Resolver, for any number of goroutines, questions,       *)
(* upstreams, attempts and slots, and whatever the network replies.        *)
(***************************************************************************)
EXTENDS Resolver, FiniteSetTheorems, TLAPS

LEMMA ModRange ==
  ASSUME NEW n \in Nat
  PROVE  n % NumServers \in 0 .. NumServers - 1
BY ResolverAssumption

LEMMA InitTypeOK == Init => TypeOK
<1>1. 0 \in 0 .. NumServers - 1 /\ 0 \in 0 .. Attempts /\ MaxLookups \in 0 .. MaxLookups
  BY ResolverAssumption
<1>2. Init => /\ start \in [Caller -> 0 .. NumServers - 1]
              /\ tries \in [Caller -> 0 .. Attempts]
              /\ rr \in 0 .. NumServers - 1
              /\ lookups \in [Caller -> 0 .. MaxLookups]
  BY <1>1 DEF Init
<1>3. Init => tried \in [Caller -> SUBSET (0 .. NumServers - 1)]
  BY DEF Init
<1>4. Init => /\ cache \in [Question -> Answer \cup {NoAnswer}]
              /\ flight \in [Question -> Caller \cup {NoCaller}]
              /\ asked \in [Caller -> Question \cup {NoQuestion}]
              /\ result \in [Caller -> Answer \cup {NoAnswer}]
  BY DEF Init
<1>5. Init => pc \in [Caller -> {"idle", "missed", "leading", "waiting", "queued", "storing",
                                 "landing", "woken"} \cup Exchanging]
  BY DEF Init
<1>6. Init => /\ holders \subseteq Caller /\ told \subseteq Question \X Answer
              /\ cancelled \in BOOLEAN
  BY DEF Init
<1>7. Init => queries \in Nat /\ hits \in Nat /\ saved \in Nat
  BY DEF Init
<1> QED
  BY <1>2, <1>3, <1>4, <1>5, <1>6, <1>7 DEF TypeOK

LEMMA ParseType ==
  ASSUME NEW client \in {"udp", "tcp"},
         NEW r \in Replies, r.rcode \notin {"NOREPLY", "SERVFAIL", "REFUSED"}
  PROVE  Parse(r, client) \in Answer
BY ResolverAssumption DEF Parse, Answer, Reply

LEMMA LookupTypeOK ==
  ASSUME TypeOK, NEW p \in Caller, Lookup(p)
  PROVE  TypeOK'
<1>1. ASSUME NEW q \in Question, Hit(p, q) PROVE TypeOK'
  BY <1>1, ResolverAssumption DEF Hit, TypeOK, exchange
<1>2. ASSUME NEW q \in Question, Miss(p, q) PROVE TypeOK'
  BY <1>2, ResolverAssumption DEF Miss, TypeOK, exchange, stats, Goto
<1> QED
  BY <1>1, <1>2 DEF Lookup

\* Past the fast path a goroutine has a question.
HasQuestion == \A p \in Caller : pc[p] # "idle" => asked[p] \in Question

LEMMA FlightTypeOK ==
  ASSUME TypeOK, HasQuestion, NEW p \in Caller,
         Lead(p) \/ Follow(p) \/ Recheck(p) \/ Store(p) \/ Land(p) \/ Wake(p)
  PROVE  TypeOK'
<1>1. CASE Lead(p)
  BY <1>1 DEF Lead, TypeOK, exchange, stats, history, Goto
<1>2. CASE Follow(p)
  BY <1>2 DEF Follow, TypeOK, exchange, stats, history, Goto
<1>3. CASE Recheck(p)
  BY <1>3 DEF Recheck, TypeOK, HasQuestion, exchange, history, Goto, Yield
<1>4. CASE Store(p)
  BY <1>4 DEF Store, TypeOK, HasQuestion, exchange, stats, history, Goto
<1>5. CASE Land(p)
  BY <1>5 DEF Land, TypeOK, HasQuestion, exchange, Received
<1>6. CASE Wake(p)
  BY <1>6 DEF Wake, TypeOK, HasQuestion, exchange, Received, Goto
<1> QED
  BY <1>1, <1>2, <1>3, <1>4, <1>5, <1>6

LEMMA ExchangeTypeOK ==
  ASSUME TypeOK, NEW p \in Caller,
         Acquire(p) \/ Abandon(p) \/ Send(p) \/ GiveUp(p) \/ UdpReply(p) \/ TcpReply(p)
  PROVE  TypeOK'
<1>1. CASE Acquire(p)
  <2>1. rr' \in 0 .. NumServers - 1
    BY <1>1, ModRange DEF Acquire, TypeOK
  <2> QED
    BY <1>1, <2>1, ResolverAssumption DEF Acquire, TypeOK, Exchanging, stats, history, Goto
<1>2. CASE Abandon(p)
  BY <1>2 DEF Abandon, TypeOK, exchange, stats, history, Goto, Yield
<1>3. CASE Send(p)
  <2>1. Upstream(p) \in 0 .. NumServers - 1
    BY ModRange DEF Upstream, TypeOK
  <2>2. tries[p] + 1 \in 0 .. Attempts
    BY <1>3, ResolverAssumption DEF Send, TypeOK
  <2> QED
    BY <1>3, <2>1, <2>2 DEF Send, TypeOK, Exchanging, Goto
<1>4. CASE GiveUp(p)
  BY <1>4 DEF GiveUp, Leave, TypeOK, stats, history, Goto, Yield
<1>5. ASSUME NEW client \in {"udp", "tcp"}, NEW r \in Replies, Judge(p, r, client),
             UNCHANGED <<cache, flight, asked, start, tries, rr, cancelled, stats,
                         lookups, history>>
      PROVE  TypeOK'
  BY <1>5, ParseType DEF Judge, Leave, TypeOK, Exchanging, stats, history, Goto, Yield
<1>6. CASE UdpReply(p)
  BY <1>5, <1>6 DEF UdpReply, TypeOK, Exchanging, stats, history, Goto
<1>7. CASE TcpReply(p)
  BY <1>5, <1>7 DEF TcpReply
<1> QED
  BY <1>1, <1>2, <1>3, <1>4, <1>6, <1>7

-----------------------------------------------------------------------------
(***************************************************************************)
(* The flight of a question has one leader, and while it goes to the       *)
(* network the cache has no answer.  Hence the cache is written once per   *)
(* question, and what a flight returned or a caller was told stays true.   *)
(***************************************************************************)
Leading == {"leading", "queued", "storing", "landing"} \cup Exchanging

OneLeader == \A p \in Caller : pc[p] \in Leading => flight[asked[p]] = p

Settled ==
  \A p \in Caller :
    /\ pc[p] = "storing" => result[p] # NoAnswer
    /\ pc[p] \in {"landing", "woken"} /\ result[p] # NoAnswer => cache[asked[p]] = result[p]

ToldFromCache == \A t \in told : cache[t[1]] = t[2]

Flights == HasQuestion /\ OneLeader /\ NoRepeatedExchange /\ Settled

LEMMA InitFlights == Init => Flights /\ ToldFromCache
BY DEF Init, Flights, HasQuestion, OneLeader, NoRepeatedExchange, Settled, ToldFromCache,
       Leading, Exchanging

LEMMA LookupFlights ==
  ASSUME TypeOK, Flights, NEW p \in Caller, Lookup(p)
  PROVE  Flights'
<1>1. ASSUME NEW q \in Question, Hit(p, q) PROVE Flights'
  BY <1>1 DEF Hit, Flights, HasQuestion, OneLeader, NoRepeatedExchange, Settled, Leading,
              Exchanging, exchange
<1>2. ASSUME NEW q \in Question, Miss(p, q) PROVE Flights'
  BY <1>2 DEF Miss, Goto, TypeOK, Flights, HasQuestion, OneLeader, NoRepeatedExchange, Settled,
              Leading, Exchanging, exchange
<1> QED
  BY <1>1, <1>2 DEF Lookup

LEMMA FlightFlights ==
  ASSUME TypeOK, Flights, NEW p \in Caller,
         Lead(p) \/ Follow(p) \/ Recheck(p) \/ Store(p) \/ Land(p) \/ Wake(p)
  PROVE  Flights'
<1> USE DEF TypeOK, Flights, HasQuestion, OneLeader, NoRepeatedExchange, Settled, Leading,
            Exchanging
<1>1. CASE Lead(p)
  BY <1>1, ResolverAssumption DEF Lead, Goto
<1>2. CASE Follow(p)
  BY <1>2 DEF Follow, Goto
<1>3. CASE Recheck(p)
  BY <1>3 DEF Recheck, Goto, Yield
<1>4. CASE Store(p)
  BY <1>4 DEF Store, Goto
<1>5. CASE Land(p)
  BY <1>5, ResolverAssumption DEF Land, Waiters
<1>6. CASE Wake(p)
  BY <1>6 DEF Wake, Goto
<1> QED
  BY <1>1, <1>2, <1>3, <1>4, <1>5, <1>6

LEMMA ExchangeFlights ==
  ASSUME TypeOK, Flights, NEW p \in Caller,
         Acquire(p) \/ Abandon(p) \/ Send(p) \/ GiveUp(p) \/ UdpReply(p) \/ TcpReply(p)
  PROVE  Flights'
<1> USE DEF TypeOK, Flights, HasQuestion, OneLeader, NoRepeatedExchange, Settled, Leading,
            Exchanging
<1>1. CASE Acquire(p)
  BY <1>1 DEF Acquire, Goto
<1>2. CASE Abandon(p)
  BY <1>2 DEF Abandon, Goto, Yield
<1>3. CASE Send(p)
  BY <1>3 DEF Send, Goto
<1>4. CASE GiveUp(p)
  BY <1>4 DEF GiveUp, Leave, Goto, Yield
<1>5. ASSUME NEW client \in {"udp", "tcp"}, NEW r \in Replies, Judge(p, r, client),
             pc[p] \in Exchanging,
             UNCHANGED <<cache, flight, asked>>
      PROVE  Flights'
  BY <1>5, ParseType, ResolverAssumption DEF Judge, Leave, Goto, Yield
<1>6. CASE UdpReply(p)
  BY <1>5, <1>6 DEF UdpReply, Goto
<1>7. CASE TcpReply(p)
  BY <1>5, <1>7 DEF TcpReply
<1> QED
  BY <1>1, <1>2, <1>3, <1>4, <1>6, <1>7

LEMMA StepFlights == TypeOK /\ Flights /\ [Next]_vars => TypeOK' /\ Flights'
<1> SUFFICES ASSUME TypeOK, Flights, [Next]_vars PROVE TypeOK' /\ Flights'
  OBVIOUS
<1>1. CASE Cancel
  BY <1>1 DEF Cancel, TypeOK, Flights, HasQuestion, OneLeader, NoRepeatedExchange, Settled,
              exchange, stats, history
<1>2. ASSUME NEW p \in Caller, Lookup(p) PROVE TypeOK' /\ Flights'
  BY <1>2, LookupTypeOK, LookupFlights
<1>3. ASSUME NEW p \in Caller, Proceed(p) PROVE TypeOK' /\ Flights'
  BY <1>3, FlightTypeOK, FlightFlights, ExchangeTypeOK, ExchangeFlights DEF Proceed, Flights
<1>4. CASE UNCHANGED vars
  BY <1>4 DEF vars, TypeOK, Flights, HasQuestion, OneLeader, NoRepeatedExchange, Settled,
              exchange, stats, history
<1> QED
  BY <1>1, <1>2, <1>3, <1>4 DEF Next

THEOREM TypeCorrect == Spec => []TypeOK
BY InitTypeOK, InitFlights, StepFlights, PTL DEF Spec

\* No goroutine goes to the network for a question the cache has answered, on any
\* interleaving of misses, flights and stores.
THEOREM NeverAskedTwice == Spec => []NoRepeatedExchange
<1>1. Flights => NoRepeatedExchange
  BY DEF Flights
<1> QED
  BY <1>1, InitTypeOK, InitFlights, StepFlights, PTL DEF Spec

-----------------------------------------------------------------------------
(***************************************************************************)
(* The refinement: what each step does to the answers, the pending         *)
(* questions and what callers were told.                                   *)
(***************************************************************************)
asking == [p \in Caller |-> IF pc[p] = "idle" THEN NoQuestion ELSE asked[p]]

LEMMA QuietStep ==
  ASSUME TypeOK, Flights, NEW p \in Caller,
         \/ Lead(p) \/ Follow(p) \/ Recheck(p) \/ Acquire(p) \/ Abandon(p) \/ Send(p)
         \/ GiveUp(p) \/ UdpReply(p) \/ TcpReply(p)
  PROVE  UNCHANGED <<cache, asking, told>>
<1>1. ASSUME pc[p] # "idle", NEW label, label # "idle", Goto(p, label), UNCHANGED asked
      PROVE  UNCHANGED asking
  BY <1>1 DEF asking, Goto, TypeOK
<1>2. CASE Lead(p) \/ Follow(p) \/ Recheck(p)
  BY <1>1, <1>2 DEF Lead, Follow, Recheck, history
<1>3. CASE Acquire(p) \/ Abandon(p) \/ Send(p) \/ GiveUp(p)
  BY <1>1, <1>3 DEF Acquire, Abandon, Send, GiveUp, Leave, history
<1>4. ASSUME NEW client \in {"udp", "tcp"}, NEW r \in Replies, Judge(p, r, client),
             pc[p] # "idle", UNCHANGED <<cache, asked, told>>
      PROVE  UNCHANGED <<cache, asking, told>>
  BY <1>1, <1>4 DEF Judge, Leave
<1>5. CASE UdpReply(p) \/ TcpReply(p)
  BY <1>1, <1>4, <1>5 DEF UdpReply, TcpReply, history
<1> QED
  BY <1>2, <1>3, <1>5

LEMMA LookupRefines ==
  ASSUME TypeOK, NEW p \in Caller, NEW q \in Question, Hit(p, q) \/ Miss(p, q)
  PROVE  Service!Recall(p, q) \/ Service!Ask(p, q)
<1>1. CASE Hit(p, q)
  BY <1>1 DEF Hit, Service!Recall, TypeOK
<1>2. CASE Miss(p, q)
  BY <1>2, ResolverAssumption DEF Miss, Goto, Service!Ask, TypeOK
<1> QED
  BY <1>1, <1>2

LEMMA StoreRefines ==
  ASSUME TypeOK, Flights, NEW p \in Caller, Store(p)
  PROVE  \E q \in Question, a \in Answer : Service!Settle(q, a)
<1> DEFINE q == asked[p]
           a == result[p]
<1>1. q \in Question /\ a \in Answer /\ cache[q] = NoAnswer
  BY DEF Store, TypeOK, Flights, HasQuestion, Settled, NoRepeatedExchange
<1>2. UNCHANGED asking /\ asking[p] = q
  BY DEF Store, Goto, TypeOK, asking
<1>3. cache' = [cache EXCEPT ![q] = a] /\ told' = told
  BY DEF Store, history
<1>4. Service!Settle(q, a)
  BY <1>1, <1>2, <1>3 DEF Service!Settle, asking
<1> QED
  BY <1>1, <1>4

LEMMA ReturnRefines ==
  ASSUME TypeOK, Flights, NEW p \in Caller, Land(p) \/ Wake(p)
  PROVE  Service!Tell(p) \/ Service!Fail(p)
<1>1. /\ pc[p] \in {"landing", "woken"} /\ asked[p] \in Question
      /\ cache' = cache /\ asked' = asked /\ Received(p)
  BY DEF Land, Wake, Flights, HasQuestion
<1>2. \A w \in Caller : pc'[w] = "idle" <=> pc[w] = "idle" \/ w = p
  BY DEF Land, Wake, Waiters, Goto, TypeOK
<1>3. /\ asking[p] = asked[p] /\ asking[p] # NoQuestion
      /\ asking' = [asking EXCEPT ![p] = NoQuestion]
  BY <1>1, <1>2, ResolverAssumption DEF asking
<1>4. CASE result[p] = NoAnswer
  BY <1>1, <1>3, <1>4 DEF Received, Service!Fail, asking
<1>5. CASE result[p] # NoAnswer
  <2>1. cache[asked[p]] = result[p]
    BY <1>1, <1>5 DEF Flights, Settled
  <2> QED
    BY <1>1, <1>3, <1>5, <2>1 DEF Received, Service!Tell, asking
<1> QED
  BY <1>4, <1>5

LEMMA StepRefines == TypeOK /\ Flights /\ [Next]_vars => [Service!Next]_(Service!vars)
<1> SUFFICES ASSUME TypeOK, Flights, [Next]_vars PROVE [Service!Next]_(Service!vars)
  OBVIOUS
<1>1. CASE Cancel \/ UNCHANGED vars
  BY <1>1 DEF Cancel, vars, exchange, stats, history, Service!vars
<1>2. ASSUME NEW p \in Caller, Lookup(p) PROVE Service!Next
  BY <1>2, LookupRefines DEF Lookup, Service!Next
<1>3. ASSUME NEW p \in Caller, Proceed(p) PROVE [Service!Next]_(Service!vars)
  <2>1. CASE Store(p)
    BY <2>1, StoreRefines DEF Service!Next
  <2>2. CASE Land(p) \/ Wake(p)
    BY <2>2, ReturnRefines DEF Service!Next
  <2> QED
    BY <1>3, <2>1, <2>2, QuietStep DEF Proceed, Service!vars, asking
<1> QED
  BY <1>1, <1>2, <1>3 DEF Next

\* The resolver is a lookup service: whatever the interleaving, each question has
\* one answer, told to everyone who asks and never taken back.
THEOREM ServiceImplemented == Spec => ImplementsService
<1>1. Init => Service!Init
  BY DEF Init, Service!Init
<1> QED
  BY <1>1, InitTypeOK, InitFlights, StepFlights, StepRefines, PTL
  DEF Spec, ImplementsService, Service!Spec

LEMMA StepTold == TypeOK /\ ToldFromCache /\ [Service!Next]_(Service!vars) => ToldFromCache'
<1> SUFFICES ASSUME TypeOK, ToldFromCache, [Service!Next]_(Service!vars) PROVE ToldFromCache'
  OBVIOUS
<1>1. \A t \in told : t[1] \in Question /\ cache[t[1]] = t[2] /\ t[2] # NoAnswer
  BY ResolverAssumption DEF TypeOK, ToldFromCache
<1>2. ASSUME NEW p \in Caller, NEW q \in Question, Service!Ask(p, q) \/ Service!Recall(p, q)
      PROVE  ToldFromCache'
  BY <1>1, <1>2 DEF ToldFromCache, Service!Ask, Service!Recall
<1>3. ASSUME NEW q \in Question, NEW a \in Answer, Service!Settle(q, a)
      PROVE  ToldFromCache'
  BY <1>1, <1>3 DEF ToldFromCache, Service!Settle, TypeOK
<1>4. ASSUME NEW p \in Caller, Service!Tell(p) \/ Service!Fail(p)
      PROVE  ToldFromCache'
  BY <1>1, <1>4 DEF ToldFromCache, Service!Tell, Service!Fail
<1>5. CASE UNCHANGED Service!vars
  BY <1>5 DEF ToldFromCache, Service!vars
<1> QED
  BY <1>2, <1>3, <1>4, <1>5 DEF Service!Next

\* All detectors of a scan see the same answer to the same question.
THEOREM OneAnswer == Spec => []Agreement
<1>1. ToldFromCache => Agreement
  BY DEF ToldFromCache, Agreement
<1> QED
  BY <1>1, InitTypeOK, InitFlights, StepFlights, StepRefines, StepTold, PTL DEF Spec

-----------------------------------------------------------------------------
\* A slot is taken by entering an exchange and given back by leaving it, on each
\* of its ways out.
LEMMA StepSlots == TypeOK /\ SlotsHeld /\ [Next]_vars => SlotsHeld'
<1> SUFFICES ASSUME TypeOK, SlotsHeld, [Next]_vars PROVE SlotsHeld'
  OBVIOUS
<1>1. IsFiniteSet(holders) /\ Cardinality(holders) \in Nat
  BY ResolverAssumption, FS_Subset, FS_CardinalityType DEF TypeOK
<1>2. ASSUME NEW p \in Caller, p \in holders, holders' = holders \ {p}
      PROVE  Cardinality(holders') <= Concurrency
  <2>1. Cardinality(holders') = Cardinality(holders) - 1
    BY <1>1, <1>2, FS_RemoveElement
  <2> QED
    BY <1>1, <2>1, ResolverAssumption DEF SlotsHeld
<1>3. ASSUME NEW p \in Caller, Acquire(p) PROVE SlotsHeld'
  <2>1. p \notin holders /\ Cardinality(holders) < Concurrency /\ holders' = holders \cup {p}
    BY <1>3 DEF Acquire, SlotsHeld, Exchanging
  <2>2. Cardinality(holders') = Cardinality(holders) + 1
    BY <1>1, <2>1, FS_AddElement
  <2>3. Cardinality(holders') <= Concurrency
    BY <1>1, <2>1, <2>2, ResolverAssumption
  <2>4. holders' = {w \in Caller : pc'[w] \in Exchanging}
    BY <1>3, <2>1 DEF Acquire, Goto, SlotsHeld, TypeOK, Exchanging
  <2> QED
    BY <2>3, <2>4 DEF SlotsHeld, Exchanging
<1>4. ASSUME NEW p \in Caller, NEW a, NEW label \in {"landing", "storing"},
             pc[p] \in Exchanging, Leave(p, a, label)
      PROVE  SlotsHeld'
  <2>1. p \in holders /\ holders' = holders \ {p}
    BY <1>4 DEF Leave, SlotsHeld
  <2>2. holders' = {w \in Caller : pc'[w] \in Exchanging}
    BY <1>4, <2>1 DEF Leave, Goto, SlotsHeld, TypeOK, Exchanging
  <2> QED
    BY <1>2, <2>1, <2>2 DEF SlotsHeld, Exchanging
<1>5. ASSUME NEW p \in Caller, NEW label, Goto(p, label), UNCHANGED holders,
             pc[p] \in Exchanging <=> label \in Exchanging
      PROVE  SlotsHeld'
  BY <1>5 DEF Goto, SlotsHeld, TypeOK, Exchanging
<1>6. ASSUME NEW p \in Caller, GiveUp(p) PROVE SlotsHeld'
  BY <1>4, <1>6 DEF GiveUp, Exchanging
<1>7. ASSUME NEW p \in Caller, NEW client \in {"udp", "tcp"}, NEW r \in Replies, Judge(p, r, client),
             pc[p] \in Exchanging
      PROVE  SlotsHeld'
  BY <1>4, <1>5, <1>7 DEF Judge, Exchanging
<1>8. ASSUME NEW p \in Caller, UdpReply(p) \/ TcpReply(p) PROVE SlotsHeld'
  BY <1>5, <1>7, <1>8 DEF UdpReply, TcpReply, Exchanging
<1>9. ASSUME NEW p \in Caller,
             Lead(p) \/ Follow(p) \/ Recheck(p) \/ Store(p) \/ Wake(p) \/ Abandon(p) \/ Send(p)
      PROVE  SlotsHeld'
  BY <1>5, <1>9 DEF Lead, Follow, Recheck, Store, Wake, Abandon, Send, exchange, Exchanging
<1>10. ASSUME NEW p \in Caller, Land(p) PROVE SlotsHeld'
  BY <1>10 DEF Land, Waiters, SlotsHeld, TypeOK, exchange, Exchanging
<1>11. ASSUME NEW p \in Caller, Lookup(p) PROVE SlotsHeld'
  BY <1>5, <1>11 DEF Lookup, Hit, Miss, SlotsHeld, exchange, Exchanging
<1>12. CASE Cancel \/ UNCHANGED vars
  BY <1>12 DEF Cancel, SlotsHeld, vars, exchange
<1> QED
  BY <1>3, <1>6, <1>8, <1>9, <1>10, <1>11, <1>12 DEF Next, Proceed

\* The cap on simultaneous queries holds and no slot is ever leaked.
THEOREM SlotsNeverLeak == Spec => []SlotsHeld
<1>1. Init => SlotsHeld
  <2>1. Init => holders = {p \in Caller : pc[p] \in Exchanging}
    BY DEF Init, Exchanging
  <2>2. Init => Cardinality(holders) <= Concurrency
    BY FS_EmptySet, ResolverAssumption DEF Init
  <2> QED
    BY <2>1, <2>2 DEF SlotsHeld
<1> QED
  BY <1>1, StepSlots, TypeCorrect, PTL DEF Spec

-----------------------------------------------------------------------------
(***************************************************************************)
(* The cache holds answers.  What the leader of a flight is about to store *)
(* came from an upstream that did not fail, and whole if it came over UDP. *)
(***************************************************************************)
Good(a) == a.cut # "udp" /\ a.rcode \notin {"SERVFAIL", "REFUSED"}

AnswersGood ==
  /\ CacheHoldsAnswers
  /\ \A p \in Caller : pc[p] = "storing" => Good(result[p])

LEMMA InitAnswersGood == Init => AnswersGood
BY DEF Init, AnswersGood, CacheHoldsAnswers

LEMMA JudgeAnswersGood ==
  ASSUME TypeOK, AnswersGood, NEW p \in Caller, NEW r \in Replies, NEW client \in {"udp", "tcp"},
         r.truncated => client = "tcp", Judge(p, r, client), cache' = cache
  PROVE  AnswersGood'
<1>1. r.rcode \notin {"NOREPLY", "SERVFAIL", "REFUSED"} => Good(Parse(r, client))
  BY DEF Parse, Good
<1> QED
  BY <1>1 DEF Judge, Leave, Goto, Yield, TypeOK, AnswersGood, CacheHoldsAnswers

LEMMA StepAnswersGood == TypeOK /\ HasQuestion /\ AnswersGood /\ [Next]_vars => AnswersGood'
<1> SUFFICES ASSUME TypeOK, HasQuestion, AnswersGood, [Next]_vars PROVE AnswersGood'
  OBVIOUS
<1>1. ASSUME NEW p \in Caller, NEW label, label # "storing", Goto(p, label), cache' = cache,
             \A w \in Caller : w # p => result'[w] = result[w]
      PROVE  AnswersGood'
  BY <1>1 DEF Goto, TypeOK, AnswersGood, CacheHoldsAnswers
<1>2. ASSUME NEW p \in Caller,
             Lead(p) \/ Follow(p) \/ Recheck(p) \/ Wake(p) \/ Acquire(p) \/ Abandon(p)
               \/ Send(p) \/ GiveUp(p)
      PROVE  AnswersGood'
  <2>1. cache' = cache /\ \A w \in Caller : w # p => result'[w] = result[w]
    BY <1>2 DEF Lead, Follow, Recheck, Wake, Acquire, Abandon, Send, GiveUp, Leave, Yield, TypeOK
  <2> QED
    BY <1>1, <1>2, <2>1 DEF Lead, Follow, Recheck, Wake, Acquire, Abandon, Send, GiveUp, Leave
<1>3. ASSUME NEW p \in Caller, Store(p) PROVE AnswersGood'
  BY <1>3 DEF Store, Goto, TypeOK, HasQuestion, AnswersGood, CacheHoldsAnswers, Good
<1>4. ASSUME NEW p \in Caller, Land(p) PROVE AnswersGood'
  BY <1>4 DEF Land, Waiters, TypeOK, AnswersGood, CacheHoldsAnswers
<1>5. ASSUME NEW p \in Caller, UdpReply(p) \/ TcpReply(p) PROVE AnswersGood'
  BY <1>1, <1>5, JudgeAnswersGood DEF UdpReply, TcpReply
<1>6. ASSUME NEW p \in Caller, Lookup(p) PROVE AnswersGood'
  BY <1>1, <1>6 DEF Lookup, Hit, Miss, AnswersGood, CacheHoldsAnswers
<1>7. CASE Cancel \/ UNCHANGED vars
  BY <1>7 DEF Cancel, vars, AnswersGood, CacheHoldsAnswers
<1> QED
  BY <1>2, <1>3, <1>4, <1>5, <1>6, <1>7 DEF Next, Proceed

\* No failure of one upstream becomes the answer of the scan, and no message that UDP
\* truncated.
THEOREM FailuresNeverCached == Spec => []CacheHoldsAnswers
<1>1. AnswersGood => CacheHoldsAnswers
  BY DEF AnswersGood
<1>2. Flights => HasQuestion
  BY DEF Flights
<1> QED
  BY <1>1, <1>2, InitTypeOK, InitFlights, StepFlights, InitAnswersGood, StepAnswersGood, PTL
  DEF Spec

-----------------------------------------------------------------------------
(***************************************************************************)
(* Upstreams in turn.  The upstreams that an exchange has asked are those  *)
(* from its start on, so a new attempt asks a new one as long as there is  *)
(* one left.                                                               *)
(***************************************************************************)
Turn(p, i) == (start[p] + i) % NumServers

AtMost(m, n) == IF m < n THEN m ELSE n

InTurnOf(p) ==
  /\ pc[p] \in {"missed", "leading", "waiting", "queued"} => tried[p] = {}
  /\ pc[p] \in Exchanging =>
       /\ tried[p] = {Turn(p, i) : i \in 0 .. tries[p] - 1}
       /\ Cardinality(tried[p]) = AtMost(tries[p], NumServers)
  /\ pc[p] \in {"udp", "tcp", "storing"} => tried[p] # {}

InTurn == \A p \in Caller : InTurnOf(p)

LEMMA ModSmall ==
  ASSUME NEW n \in Nat \ {0}, NEW a \in 0 .. n + n - 1
  PROVE  a % n = IF a < n THEN a ELSE a - n
OBVIOUS

\* Before the list of upstreams is through, the next one has not been asked.
LEMMA NextIsNew ==
  ASSUME TypeOK, NEW p \in Caller, tries[p] < NumServers
  PROVE  Turn(p, tries[p]) \notin {Turn(p, i) : i \in 0 .. tries[p] - 1}
<1>1. start[p] \in 0 .. NumServers - 1 /\ tries[p] \in Nat /\ NumServers \in Nat \ {0}
  BY ResolverAssumption DEF TypeOK
<1>2. SUFFICES ASSUME NEW i \in 0 .. tries[p] - 1, Turn(p, i) = Turn(p, tries[p]) PROVE FALSE
  OBVIOUS
<1>3. /\ (start[p] + i) \in 0 .. NumServers + NumServers - 1
      /\ (start[p] + tries[p]) \in 0 .. NumServers + NumServers - 1
  BY <1>1, <1>2
<1> DEFINE a == start[p] + i
           b == start[p] + tries[p]
<1>4. /\ a % NumServers = IF a < NumServers THEN a ELSE a - NumServers
      /\ b % NumServers = IF b < NumServers THEN b ELSE b - NumServers
  BY <1>1, <1>3, ModSmall
<1>5. a % NumServers = b % NumServers
  BY <1>2 DEF Turn
<1>6. a < b /\ b - a < NumServers
  BY <1>1, <1>2
<1> QED
  BY <1>1, <1>3, <1>4, <1>5, <1>6

\* After it, every upstream has.
LEMMA AllAsked ==
  ASSUME TypeOK, NEW p \in Caller, tries[p] >= NumServers
  PROVE  {Turn(p, i) : i \in 0 .. tries[p] - 1} = 0 .. NumServers - 1
<1>1. start[p] \in 0 .. NumServers - 1 /\ tries[p] \in Nat /\ NumServers \in Nat \ {0}
  BY ResolverAssumption DEF TypeOK
<1>2. ASSUME NEW u \in 0 .. NumServers - 1
      PROVE  \E i \in 0 .. tries[p] - 1 : Turn(p, i) = u
  <2> DEFINE i == IF u >= start[p] THEN u - start[p] ELSE NumServers + u - start[p]
  <2>1. i \in 0 .. NumServers - 1 /\ (start[p] + i = u \/ start[p] + i = NumServers + u)
    BY <1>1
  <2>2. Turn(p, i) = u
    BY <1>1, <2>1, ModSmall DEF Turn
  <2> QED
    BY <1>1, <2>1, <2>2
<1>3. ASSUME NEW i \in 0 .. tries[p] - 1 PROVE Turn(p, i) \in 0 .. NumServers - 1
  BY <1>1, ModRange DEF Turn
<1> QED
  BY <1>2, <1>3

LEMMA SendInTurn ==
  ASSUME TypeOK, InTurn, NEW p \in Caller, Send(p)
  PROVE  InTurn'
<1>1. start[p] \in 0 .. NumServers - 1 /\ tries[p] \in Nat /\ NumServers \in Nat \ {0}
  BY ResolverAssumption DEF TypeOK
<1>2. /\ tried[p] = {Turn(p, i) : i \in 0 .. tries[p] - 1}
      /\ Cardinality(tried[p]) = AtMost(tries[p], NumServers)
  BY DEF Send, InTurn, InTurnOf, Exchanging
<1>3. /\ tries'[p] = tries[p] + 1 /\ start' = start
      /\ tried'[p] = tried[p] \cup {Turn(p, tries[p])}
  BY DEF Send, Upstream, Turn, TypeOK
<1>4. tried'[p] = {Turn(p, i)' : i \in 0 .. tries'[p] - 1}
  BY <1>1, <1>2, <1>3 DEF Turn
<1>5. IsFiniteSet(tried[p])
  <2>1. IsFiniteSet(0 .. NumServers - 1)
    BY <1>1, FS_Interval
  <2>2. tried[p] \in SUBSET (0 .. NumServers - 1)
    BY DEF TypeOK
  <2> QED
    BY <2>1, <2>2, FS_Subset
<1>6. Cardinality(tried'[p]) = AtMost(tries'[p], NumServers)
  <2>1. CASE tries[p] < NumServers
    <3>1. Turn(p, tries[p]) \notin tried[p]
      BY <1>2, <2>1, NextIsNew
    <3>2. Cardinality(tried'[p]) = Cardinality(tried[p]) + 1
      BY <1>3, <1>5, <3>1, FS_AddElement
    <3> QED
      BY <1>1, <1>2, <1>3, <2>1, <3>2 DEF AtMost
  <2>2. CASE tries[p] >= NumServers
    <3>1. tried[p] = 0 .. NumServers - 1
      BY <1>2, <2>2, AllAsked
    <3>2. Turn(p, tries[p]) \in 0 .. NumServers - 1
      BY <1>1, ModRange DEF Turn
    <3>3. tried'[p] = tried[p]
      BY <1>3, <3>1, <3>2
    <3>4. AtMost(tries[p], NumServers) = NumServers /\ AtMost(tries'[p], NumServers) = NumServers
      BY <1>1, <1>3, <2>2 DEF AtMost
    <3> QED
      BY <1>2, <3>3, <3>4
  <2> QED
    BY <1>1, <2>1, <2>2
<1>7. tried'[p] # {}
  BY <1>3
<1>8. \A w \in Caller : w # p => /\ pc'[w] = pc[w] /\ tries'[w] = tries[w]
                                 /\ tried'[w] = tried[w] /\ start'[w] = start[w]
  BY DEF Send, Goto, TypeOK
<1>9. pc'[p] = "udp"
  BY DEF Send, Goto, TypeOK
<1> QED
  <2>1. InTurnOf(p)'
    BY <1>4, <1>6, <1>7, <1>9 DEF InTurnOf, Turn
  <2>2. ASSUME NEW w \in Caller, w # p PROVE InTurnOf(w)'
    <3>1. InTurnOf(w)
      BY DEF InTurn
    <3> QED
      BY <1>8, <2>2, <3>1 DEF InTurnOf, Turn
  <2> QED
    BY <2>1, <2>2 DEF InTurn

LEMMA StepInTurn == TypeOK /\ InTurn /\ [Next]_vars => InTurn'
<1> SUFFICES ASSUME TypeOK, InTurn, [Next]_vars PROVE InTurn'
  OBVIOUS
<1>1. ASSUME NEW p \in Caller,
             Lead(p) \/ Follow(p) \/ Recheck(p) \/ Store(p) \/ Wake(p) \/ Abandon(p) \/ GiveUp(p)
      PROVE  InTurn'
  <2>1. UNCHANGED <<start, tries, tried>>
    BY <1>1 DEF Lead, Follow, Recheck, Store, Wake, Abandon, GiveUp, exchange, history
  <2>2. CASE Lead(p) \/ Follow(p) \/ Recheck(p)
    BY <2>1, <2>2 DEF Lead, Follow, Recheck, Goto, TypeOK, InTurn, InTurnOf, Turn, Exchanging
  <2>3. CASE Store(p) \/ Wake(p) \/ Abandon(p) \/ GiveUp(p)
    BY <2>1, <2>3 DEF Store, Wake, Abandon, GiveUp, Leave, Goto, TypeOK, InTurn, InTurnOf, Turn, Exchanging
  <2> QED
    BY <1>1, <2>2, <2>3
<1>2. ASSUME NEW p \in Caller, Land(p) PROVE InTurn'
  BY <1>2 DEF Land, Waiters, exchange, TypeOK, InTurn, InTurnOf, Turn, Exchanging
<1>3. ASSUME NEW p \in Caller, Acquire(p) PROVE InTurn'
  <2>1. /\ tried' = tried /\ tried[p] = {} /\ tries'[p] = 0 /\ pc'[p] = "trying"
        /\ \A w \in Caller : w # p => /\ pc'[w] = pc[w] /\ tries'[w] = tries[w]
                                      /\ start'[w] = start[w]
    BY <1>3 DEF Acquire, Goto, history, TypeOK, InTurn, InTurnOf
  <2>2. Cardinality({}) = AtMost(0, NumServers) /\ 0 .. 0 - 1 = {}
    BY FS_EmptySet, ResolverAssumption DEF AtMost
  <2>3. InTurnOf(p)'
    BY <2>1, <2>2 DEF InTurnOf, Turn, Exchanging
  <2>4. ASSUME NEW w \in Caller, w # p PROVE InTurnOf(w)'
    BY <2>1, <2>4 DEF InTurn, InTurnOf, Turn
  <2> QED
    BY <2>3, <2>4 DEF InTurn
<1>4. ASSUME NEW p \in Caller, Send(p) PROVE InTurn'
  BY <1>4, SendInTurn
<1>5. ASSUME NEW p \in Caller, UdpReply(p) \/ TcpReply(p) PROVE InTurn'
  <2>1. UNCHANGED <<start, tries, tried>>
    BY <1>5 DEF UdpReply, TcpReply, history
  <2>2. /\ pc[p] \in {"udp", "tcp"} /\ pc'[p] \in {"trying", "tcp", "storing"}
        /\ \A w \in Caller : w # p => pc'[w] = pc[w]
    BY <1>5 DEF UdpReply, TcpReply, Judge, Leave, Goto, TypeOK
  <2> QED
    BY <2>1, <2>2 DEF InTurn, InTurnOf, Turn, Exchanging
<1>6. ASSUME NEW p \in Caller, Lookup(p) PROVE InTurn'
  <2>1. ASSUME NEW q \in Question, Hit(p, q) PROVE InTurn'
    BY <2>1 DEF Hit, exchange, InTurn, InTurnOf, Turn
  <2>2. ASSUME NEW q \in Question, Miss(p, q) PROVE InTurn'
    BY <2>2 DEF Miss, Goto, exchange, TypeOK, InTurn, InTurnOf, Turn, Exchanging
  <2> QED
    BY <1>6, <2>1, <2>2 DEF Lookup
<1>7. CASE Cancel \/ UNCHANGED vars
  BY <1>7 DEF Cancel, vars, exchange, history, InTurn, InTurnOf, Turn
<1> QED
  BY <1>1, <1>2, <1>3, <1>4, <1>5, <1>6, <1>7 DEF Next, Proceed

LEMMA StepExhaustive ==
  TypeOK /\ Flights /\ InTurn /\ FailureIsExhaustive /\ [Next]_vars => FailureIsExhaustive'
<1> SUFFICES ASSUME TypeOK, Flights, InTurn, FailureIsExhaustive, [Next]_vars
             PROVE  FailureIsExhaustive'
  OBVIOUS
<1>1. ASSUME NEW p \in Caller, UNCHANGED cancelled,
             \A w \in Caller : w # p =>
               tried'[w] = tried[w] /\ (pc'[w] = "landing" => pc[w] = "landing" /\ result'[w] = result[w]),
             pc'[p] # "landing" \/ result'[p] # NoAnswer
      PROVE  FailureIsExhaustive'
  BY <1>1 DEF FailureIsExhaustive
<1>2. ASSUME NEW p \in Caller, Lead(p) \/ Follow(p) \/ Wake(p) \/ Acquire(p) \/ Send(p)
      PROVE  FailureIsExhaustive'
  BY <1>1, <1>2 DEF Lead, Follow, Wake, Acquire, Send, Goto, exchange, history, TypeOK
<1>3. ASSUME NEW p \in Caller, Recheck(p) \/ Store(p) PROVE FailureIsExhaustive'
  BY <1>1, <1>3 DEF Recheck, Store, Goto, Yield, history, TypeOK, Flights, Settled
<1>4. ASSUME NEW p \in Caller, Land(p) PROVE FailureIsExhaustive'
  BY <1>1, <1>4 DEF Land, Waiters, TypeOK
<1>5. ASSUME NEW p \in Caller, Abandon(p) PROVE FailureIsExhaustive'
  BY <1>5 DEF Abandon, history, FailureIsExhaustive
<1>6. ASSUME NEW p \in Caller, GiveUp(p) PROVE FailureIsExhaustive'
  <2>1. cancelled \/ Cardinality(tried[p]) = AtMost(Attempts, NumServers)
    BY <1>6 DEF GiveUp, InTurn, InTurnOf, Exchanging
  <2>2. UNCHANGED <<cancelled, tried>> /\ \A w \in Caller : w # p => pc'[w] = pc[w] /\ result'[w] = result[w]
    BY <1>6 DEF GiveUp, Leave, Goto, Yield, history, TypeOK
  <2> QED
    BY <2>1, <2>2 DEF FailureIsExhaustive, AtMost
<1>7. ASSUME NEW p \in Caller, UdpReply(p) \/ TcpReply(p) PROVE FailureIsExhaustive'
  <2>1. /\ UNCHANGED <<cancelled, tried>> /\ pc'[p] # "landing"
        /\ \A w \in Caller : w # p => pc'[w] = pc[w] /\ result'[w] = result[w]
    BY <1>7 DEF UdpReply, TcpReply, Judge, Leave, Goto, Yield, history, TypeOK
  <2> QED
    BY <1>1, <2>1
<1>8. ASSUME NEW p \in Caller, Lookup(p) PROVE FailureIsExhaustive'
  <2>1. ASSUME NEW q \in Question, Hit(p, q) PROVE FailureIsExhaustive'
    BY <2>1 DEF Hit, FailureIsExhaustive
  <2>2. ASSUME NEW q \in Question, Miss(p, q) PROVE FailureIsExhaustive'
    BY <1>1, <2>2 DEF Miss, Goto, TypeOK
  <2> QED
    BY <1>8, <2>1, <2>2 DEF Lookup
<1>9. CASE Cancel \/ UNCHANGED vars
  BY <1>9 DEF Cancel, vars, history, FailureIsExhaustive
<1> QED
  BY <1>2, <1>3, <1>4, <1>5, <1>6, <1>7, <1>8, <1>9 DEF Next, Proceed

\* With any number of upstreams and attempts, an uncancelled lookup fails only after as
\* many different upstreams as there are attempts, or after all of them.
THEOREM FailsAfterAll == Spec => []FailureIsExhaustive
<1>1. Init => InTurn /\ FailureIsExhaustive
  BY DEF Init, InTurn, InTurnOf, FailureIsExhaustive, Exchanging
<1> QED
  BY <1>1, InitTypeOK, InitFlights, StepFlights, StepInTurn, StepExhaustive, PTL DEF Spec

-----------------------------------------------------------------------------
(***************************************************************************)
(* Statistics.  A leader whose second look found the answer was counted    *)
(* then and returns later.                                                 *)
(***************************************************************************)
Due == {p \in Caller : pc[p] = "landing" /\ result[p] # NoAnswer /\ tried[p] = {}}

HitsCoverDue == hits >= saved + Cardinality(Due)

LEMMA DueFinite == IsFiniteSet(Due) /\ Cardinality(Due) \in Nat
BY ResolverAssumption, FS_Subset, FS_CardinalityType DEF Due

LEMMA StepHits ==
  TypeOK /\ Flights /\ InTurn /\ HitsCoverDue /\ [Next]_vars => HitsCoverDue'
<1> SUFFICES ASSUME TypeOK, Flights, InTurn, HitsCoverDue, [Next]_vars PROVE HitsCoverDue'
  OBVIOUS
<1> USE DEF HitsCoverDue
<1>1. ASSUME Due' = Due, UNCHANGED <<hits, saved>> PROVE HitsCoverDue'
  BY <1>1
<1>2. ASSUME NEW p \in Caller, Lead(p) \/ Follow(p) \/ Acquire(p) \/ Send(p) PROVE HitsCoverDue'
  <2>1. Due' = Due
    BY <1>2 DEF Lead, Follow, Acquire, Send, Goto, history, TypeOK, Due
  <2> QED
    BY <1>1, <1>2, <2>1 DEF Lead, Follow, Acquire, Send, stats, history
<1>3. ASSUME NEW p \in Caller, Abandon(p) \/ GiveUp(p) PROVE HitsCoverDue'
  <2>1. Due' = Due
    BY <1>3 DEF Abandon, GiveUp, Leave, Goto, Yield, history, TypeOK, Due
  <2> QED
    BY <1>1, <1>3, <2>1 DEF Abandon, GiveUp, stats, history
<1>4. ASSUME NEW p \in Caller, Store(p) PROVE HitsCoverDue'
  <2>1. Due' = Due
    BY <1>4 DEF Store, Goto, history, TypeOK, InTurn, InTurnOf, Due
  <2> QED
    BY <1>1, <1>4, <2>1 DEF Store, stats, history
<1>5. ASSUME NEW p \in Caller, Recheck(p) PROVE HitsCoverDue'
  <2>1. CASE cache[asked[p]] = NoAnswer
    <3>1. Due' = Due /\ UNCHANGED <<hits, saved>>
      BY <1>5, <2>1 DEF Recheck, Goto, history, TypeOK, Due
    <3> QED
      BY <1>1, <3>1
  <2>2. CASE cache[asked[p]] # NoAnswer
    <3>1. p \notin Due /\ Due' = Due \cup {p}
      BY <1>5, <2>2 DEF Recheck, Goto, Yield, history, TypeOK, InTurn, InTurnOf, Due
    <3>2. Cardinality(Due') = Cardinality(Due) + 1
      BY <3>1, DueFinite, FS_AddElement
    <3>3. hits' = hits + 1 /\ saved' = saved
      BY <1>5, <2>2 DEF Recheck, history
    <3> QED
      BY <3>2, <3>3, DueFinite DEF TypeOK
  <2> QED
    BY <2>1, <2>2
<1>6. ASSUME NEW p \in Caller, Land(p) PROVE HitsCoverDue'
  <2>1. Due' = Due \ {p} /\ hits' >= hits /\ hits' \in Nat
    BY <1>6 DEF Land, Waiters, TypeOK, Due
  <2>2. saved' = IF p \in Due THEN saved + 1 ELSE saved
    BY <1>6 DEF Land, Due
  <2>3. Cardinality(Due') = IF p \in Due THEN Cardinality(Due) - 1 ELSE Cardinality(Due)
    BY <2>1, DueFinite, FS_RemoveElement
  <2> QED
    BY <2>1, <2>2, <2>3, DueFinite DEF TypeOK
<1>7. ASSUME NEW p \in Caller, Wake(p) PROVE HitsCoverDue'
  <2>1. Due' = Due
    BY <1>7 DEF Wake, Goto, TypeOK, Due
  <2> QED
    BY <1>7, <2>1, DueFinite DEF Wake, TypeOK
<1>8. ASSUME NEW p \in Caller, UdpReply(p) \/ TcpReply(p) PROVE HitsCoverDue'
  <2>1. /\ pc[p] # "landing" /\ pc'[p] # "landing" /\ tried' = tried
        /\ \A w \in Caller : w # p => pc'[w] = pc[w] /\ result'[w] = result[w]
    BY <1>8 DEF UdpReply, TcpReply, Judge, Leave, Goto, Yield, history, TypeOK
  <2>2. Due' = Due
    BY <2>1 DEF Due
  <2> QED
    BY <1>1, <1>8, <2>2 DEF UdpReply, TcpReply, stats, history
<1>9. ASSUME NEW p \in Caller, Lookup(p) PROVE HitsCoverDue'
  <2>1. ASSUME NEW q \in Question, Hit(p, q) PROVE HitsCoverDue'
    <3>1. Due' = Due /\ hits' = hits + 1 /\ saved' = saved + 1
      BY <2>1 DEF Hit, Due
    <3> QED
      BY <3>1, DueFinite DEF TypeOK
  <2>2. ASSUME NEW q \in Question, Miss(p, q) PROVE HitsCoverDue'
    <3>1. Due' = Due
      BY <2>2 DEF Miss, Goto, TypeOK, Due
    <3> QED
      BY <1>1, <2>2, <3>1 DEF Miss, stats
  <2> QED
    BY <1>9, <2>1, <2>2 DEF Lookup
<1>10. CASE Cancel \/ UNCHANGED vars
  <2>1. Due' = Due
    BY <1>10 DEF Cancel, vars, history, Due
  <2> QED
    BY <1>1, <1>10, <2>1 DEF Cancel, vars, stats, history
<1> QED
  BY <1>2, <1>3, <1>4, <1>5, <1>6, <1>7, <1>8, <1>9, <1>10 DEF Next, Proceed

\* No path to an answer without a query of its own forgets to count the hit.
THEOREM HitsCounted == Spec => []HitsCoverSaved
<1>1. Init => InTurn /\ HitsCoverDue
  <2>1. Init => InTurn
    BY DEF Init, InTurn, InTurnOf, Exchanging
  <2>2. Init => Due = {}
    BY DEF Init, Due
  <2> QED
    BY <2>1, <2>2, FS_EmptySet DEF Init, HitsCoverDue
<1>2. TypeOK /\ HitsCoverDue => HitsCoverSaved
  BY DueFinite DEF TypeOK, HitsCoverDue, HitsCoverSaved
<1> QED
  BY <1>1, <1>2, InitTypeOK, InitFlights, StepFlights, StepInTurn, StepHits, PTL DEF Spec

=============================================================================
