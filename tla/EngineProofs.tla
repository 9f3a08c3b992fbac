----------------------------- MODULE EngineProofs -----------------------------
(***************************************************************************)
(* Theorems about Engine, for any detectors, workers, messages and room in *)
(* the channels.  The finding set is the one of FindingSetProofs: every    *)
(* step of the engine is a step of it or leaves it alone.                  *)
(***************************************************************************)
EXTENDS Engine, FindingSetProofs

Content(s) == {s[i] : i \in DOMAIN s}

LEMMA AppendContent ==
  ASSUME NEW S, NEW s \in Seq(S), NEW x \in S
  PROVE  /\ Append(s, x) \in Seq(S) /\ Len(Append(s, x)) = Len(s) + 1
         /\ Content(Append(s, x)) = Content(s) \cup {x}
<1>1. /\ Append(s, x) \in Seq(S) /\ Len(Append(s, x)) = Len(s) + 1
      /\ DOMAIN Append(s, x) = 1 .. Len(s) + 1 /\ DOMAIN s = 1 .. Len(s) /\ Len(s) \in Nat
  OBVIOUS
<1>2. Append(s, x)[Len(s) + 1] = x /\ \A i \in 1 .. Len(s) : Append(s, x)[i] = s[i]
  OBVIOUS
<1>3. \A i \in 1 .. Len(s) + 1 : i \in 1 .. Len(s) \/ i = Len(s) + 1
  BY <1>1
<1>4. Len(s) + 1 \in 1 .. Len(s) + 1 /\ \A i \in 1 .. Len(s) : i \in 1 .. Len(s) + 1
  BY <1>1
<1> QED
  BY <1>1, <1>2, <1>3, <1>4 DEF Content

LEMMA TailContent ==
  ASSUME NEW S, NEW s \in Seq(S), s # <<>>
  PROVE  /\ Head(s) \in S /\ Tail(s) \in Seq(S) /\ Len(Tail(s)) = Len(s) - 1
         /\ Content(s) = Content(Tail(s)) \cup {Head(s)}
<1>1. /\ Head(s) \in S /\ Tail(s) \in Seq(S) /\ Len(Tail(s)) = Len(s) - 1 /\ Len(s) \in Nat \ {0}
      /\ DOMAIN Tail(s) = 1 .. Len(s) - 1 /\ DOMAIN s = 1 .. Len(s)
  OBVIOUS
<1>2. Head(s) = s[1] /\ \A i \in 1 .. Len(s) - 1 : Tail(s)[i] = s[i + 1]
  OBVIOUS
<1>3. \A i \in 1 .. Len(s) : i = 1 \/ (i - 1 \in 1 .. Len(s) - 1 /\ s[i] = Tail(s)[i - 1])
  BY <1>1, <1>2
<1>4. 1 \in 1 .. Len(s) /\ \A i \in 1 .. Len(s) - 1 : i + 1 \in 1 .. Len(s)
  BY <1>1
<1>5. ASSUME NEW i \in 1 .. Len(s) PROVE s[i] \in Content(Tail(s)) \cup {Head(s)}
  <2>1. CASE i = 1
    BY <1>2, <2>1
  <2>2. CASE i - 1 \in 1 .. Len(s) - 1 /\ s[i] = Tail(s)[i - 1]
    BY <1>1, <2>2 DEF Content
  <2> QED
    BY <1>3, <2>1, <2>2
<1>6. Content(Tail(s)) \cup {Head(s)} \subseteq Content(s)
  BY <1>1, <1>2, <1>4 DEF Content
<1> QED
  BY <1>1, <1>5, <1>6 DEF Content

-----------------------------------------------------------------------------
(***************************************************************************)
(* The part of the engine around the finding set.  A worker runs only      *)
(* while its detector waits for it, the channels are closed when every     *)
(* detector has returned, and a collector ends on an empty channel.        *)
(***************************************************************************)
ChannelTypes ==
  /\ main \in {"spawning", "waiting", "closed", "returned"}
  /\ state \in [Goroutine -> {"unborn", "running", "fanned", "joined", "failing", "done"}]
  /\ held \in [Goroutine -> SUBSET Message]
  /\ failure \in [Detector -> Complaint \cup {NoComplaint}]
  /\ findings \in Seq(Reports) /\ warnings \in Seq(Complaint)
  /\ collecting \subseteq {"findings", "warnings"}

Lifecycle ==
  /\ closed <=> main \in {"closed", "returned"}
  /\ closed => DetectorsReturned
  /\ \A w \in Worker :
       state[w] \in {"unborn", "done"} \/ (state[w] = "running" /\ state[Owner[w]] = "fanned")
  /\ \A d \in Detector : state[d] = "failing" => failure[d] \in {ErrorOf[d], PanicOf[d]}
  /\ "findings" \notin collecting => closed /\ findings = <<>>
  /\ "warnings" \notin collecting => closed /\ warnings = <<>>
  /\ main = "returned" => collecting = {}
  /\ \A g \in Goroutine : held[g] # {} => state[g] \in {"running", "joined"}

EngineInv == ChannelTypes /\ Lifecycle

LEMMA InitEngineInv == EngineInit => EngineInv
BY DEF EngineInit, EngineInv, ChannelTypes, Lifecycle, Goroutine

LEMMA OwnerType == \A w \in Worker : Owner[w] \in Detector /\ Owner[w] \notin Worker
BY EngineAssumption

\* What runs can still send: then nothing is closed.
LEMMA ActiveOpen ==
  ASSUME EngineInv, NEW g \in Goroutine, Active(g) \/ held[g] # {} \/ state[g] = "failing"
  PROVE  ~closed /\ main # "returned" /\ "findings" \in collecting /\ "warnings" \in collecting
BY OwnerType DEF EngineInv, Lifecycle, Active, DetectorsReturned, Goroutine

LEMMA SendEngineInv ==
  ASSUME EngineInv, NEW g \in Goroutine, Send(g)
  PROVE  EngineInv'
<1>1. PICK m \in Message : held' = [held EXCEPT ![g] = {m}]
  BY DEF Send
<1>2. /\ state[g] \in {"running", "joined"}
      /\ UNCHANGED <<main, state, failure, findings, warnings, closed, collecting>>
  BY DEF Send, Active, channels
<1>3. held' \in [Goroutine -> SUBSET Message] /\ \A h \in Goroutine \ {g} : held'[h] = held[h]
  BY <1>1 DEF EngineInv, ChannelTypes
<1> QED
  BY <1>2, <1>3 DEF EngineInv, ChannelTypes, Lifecycle, DetectorsReturned

\* What a send puts into its channel.
LEMMA Passed ==
  ASSUME EngineInv, NEW g \in Goroutine
  PROVE  /\ Emit(g) => \E f \in Reports : findings' = Append(findings, f) /\ reported' = reported \cup {f}
         /\ Warn(g) => \E c \in Complaint : /\ warnings' = Append(warnings, c)
                                            /\ complained' = complained \cup {c}
<1>1. held[g] \subseteq Message
  BY DEF EngineInv, ChannelTypes
<1>2. \A m \in Message : /\ m.to = "findings" => m.body \in Reports
                         /\ m.to = "warnings" => m.body \in Complaint
  BY DEF Message
<1> QED
  BY <1>1, <1>2 DEF Emit, Warn

LEMMA PassEngineInv ==
  ASSUME EngineInv, NEW g \in Goroutine, Emit(g) \/ Warn(g)
  PROVE  EngineInv'
<1>1. /\ held[g] # {} /\ held' = [held EXCEPT ![g] = {}]
      /\ UNCHANGED <<main, state, failure, closed, collecting>>
  BY DEF Emit, Warn
<1>2. "findings" \in collecting /\ "warnings" \in collecting
  BY <1>1, ActiveOpen
<1>3. findings' \in Seq(Reports) /\ warnings' \in Seq(Complaint)
  <2>1. findings \in Seq(Reports) /\ warnings \in Seq(Complaint)
    BY DEF EngineInv, ChannelTypes
  <2>2. \A f \in Reports : Append(findings, f) \in Seq(Reports)
    BY <2>1, AppendContent
  <2>3. \A c \in Complaint : Append(warnings, c) \in Seq(Complaint)
    BY <2>1, AppendContent
  <2>4. findings' = findings \/ \E f \in Reports : findings' = Append(findings, f)
    BY Passed DEF Emit, Warn
  <2>5. warnings' = warnings \/ \E c \in Complaint : warnings' = Append(warnings, c)
    BY Passed DEF Emit, Warn
  <2> QED
    BY <2>1, <2>2, <2>3, <2>4, <2>5
<1>4. /\ held' \in [Goroutine -> SUBSET Message]
      /\ \A h \in Goroutine : held'[h] # {} => held[h] # {}
  BY <1>1 DEF EngineInv, ChannelTypes
<1> QED
  BY <1>1, <1>2, <1>3, <1>4 DEF EngineInv, ChannelTypes, Lifecycle, DetectorsReturned

LEMMA FanEngineInv ==
  ASSUME EngineInv, NEW d \in Detector, FanOut(d) \/ Join(d)
  PROVE  EngineInv'
<1>1. /\ d \in Goroutine /\ d \notin Worker /\ state[d] # "done"
      /\ UNCHANGED <<main, held, failure, findings, warnings, closed, collecting>>
  BY EngineAssumption DEF FanOut, Join, Goroutine, channels
<1>2. ~closed
  BY <1>1 DEF EngineInv, Lifecycle, DetectorsReturned
<1>3. CASE FanOut(d)
  <2>1. state' = [g \in Goroutine |-> IF g = d THEN "fanned"
                                      ELSE IF g \in WorkersOf(d) THEN "running" ELSE state[g]]
    BY <1>3 DEF FanOut
  <2>2. held[d] = {}
    BY <1>3 DEF FanOut, Active
  <2>3. ChannelTypes'
    BY <1>1, <2>1 DEF EngineInv, ChannelTypes
  <2>4. \A w \in Worker : \/ state'[w] \in {"unborn", "done"}
                          \/ state'[w] = "running" /\ state'[Owner[w]] = "fanned"
    BY <1>1, <2>1, OwnerType DEF WorkersOf, Goroutine, EngineInv, Lifecycle
  <2>5. \A g \in Goroutine : held'[g] # {} => state'[g] \in {"running", "joined"}
    BY <1>1, <2>1, <2>2 DEF EngineInv, Lifecycle
  <2>6. \A e \in Detector : state'[e] = "failing" => failure'[e] \in {ErrorOf[e], PanicOf[e]}
    BY <1>1, <2>1 DEF Goroutine, EngineInv, Lifecycle
  <2> QED
    BY <1>1, <1>2, <2>3, <2>4, <2>5, <2>6 DEF EngineInv, Lifecycle
<1>4. CASE Join(d)
  BY <1>1, <1>2, <1>4, OwnerType
  DEF Join, Becomes, WorkersOf, Goroutine, EngineInv, ChannelTypes, Lifecycle
<1> QED
  BY <1>3, <1>4

LEMMA ReturnEngineInv ==
  ASSUME EngineInv, NEW g \in Goroutine, Return(g)
  PROVE  EngineInv'
<1>1. /\ Active(g) /\ state' = [state EXCEPT ![g] = "done"]
      /\ UNCHANGED <<main, held, failure, findings, warnings, closed, collecting>>
  BY DEF Return, Becomes, channels
<1>2. ~closed /\ state[g] # "fanned" /\ held[g] = {}
  BY <1>1, ActiveOpen DEF Active
<1> QED
  BY <1>1, <1>2, OwnerType DEF EngineInv, ChannelTypes, Lifecycle, Goroutine

LEMMA FailEngineInv ==
  ASSUME EngineInv, NEW d \in Detector, Fail(d) \/ SendFailure(d)
  PROVE  EngineInv'
<1>1. /\ d \in Goroutine /\ d \notin Worker /\ state[d] # "fanned"
      /\ ~closed /\ "warnings" \in collecting /\ main # "returned"
      /\ UNCHANGED <<main, held, findings, closed, collecting>>
  BY EngineAssumption, ActiveOpen DEF Fail, SendFailure, Active, Goroutine, channels
<1>2. CASE Fail(d)
  <2>1. PICK c \in {ErrorOf[d], PanicOf[d]} : failure' = [failure EXCEPT ![d] = c]
    BY <1>2 DEF Fail
  <2>2. state' = [state EXCEPT ![d] = "failing"] /\ warnings' = warnings
    BY <1>2 DEF Fail, Becomes, channels
  <2>3. ChannelTypes'
    <3>1. c \in Complaint
      BY EngineAssumption
    <3>2. failure' \in [Detector -> Complaint \cup {NoComplaint}]
      BY <2>1, <3>1 DEF EngineInv, ChannelTypes
    <3>3. state' \in [Goroutine -> {"unborn", "running", "fanned", "joined", "failing", "done"}]
      BY <1>1, <2>2 DEF EngineInv, ChannelTypes
    <3> QED
      BY <1>1, <2>2, <3>2, <3>3 DEF EngineInv, ChannelTypes
  <2>4. \A e \in Detector : state'[e] = "failing" => failure'[e] \in {ErrorOf[e], PanicOf[e]}
    BY <2>1, <2>2 DEF EngineInv, ChannelTypes, Lifecycle, Goroutine
  <2>5. \A w \in Worker : \/ state'[w] \in {"unborn", "done"}
                          \/ state'[w] = "running" /\ state'[Owner[w]] = "fanned"
    BY <1>1, <2>2, OwnerType DEF EngineInv, ChannelTypes, Lifecycle, Goroutine
  <2>6. \A g \in Goroutine : held'[g] # {} => state'[g] \in {"running", "joined"}
    <3>1. held[d] = {}
      BY <1>2 DEF Fail, Active
    <3> QED
      BY <1>1, <2>2, <3>1 DEF EngineInv, ChannelTypes, Lifecycle
  <2> QED
    BY <1>1, <2>3, <2>2, <2>4, <2>5, <2>6 DEF EngineInv, Lifecycle
<1>3. CASE SendFailure(d)
  <2>1. failure[d] \in Complaint
    BY <1>3, EngineAssumption DEF SendFailure, EngineInv, Lifecycle
  <2>2. warnings' \in Seq(Complaint)
    BY <1>3, <2>1, AppendContent DEF SendFailure, EngineInv, ChannelTypes
  <2> QED
    BY <1>1, <1>3, <2>2, OwnerType
    DEF SendFailure, Becomes, EngineInv, ChannelTypes, Lifecycle, Goroutine
<1> QED
  BY <1>2, <1>3

LEMMA CollectEngineInv ==
  ASSUME EngineInv, Collect
  PROVE  EngineInv'
<1>1. UNCHANGED <<main, state, held, failure, closed>>
  BY DEF Collect, CollectFinding, CollectWarning, CollectorDone
<1>2. CASE CollectFinding
  <2>1. findings' \in Seq(Reports)
    BY <1>2, TailContent DEF CollectFinding, EngineInv, ChannelTypes
  <2> QED
    BY <1>1, <1>2, <2>1 DEF CollectFinding, EngineInv, ChannelTypes, Lifecycle, DetectorsReturned
<1>3. CASE CollectWarning
  <2>1. warnings' \in Seq(Complaint)
    BY <1>3, TailContent DEF CollectWarning, EngineInv, ChannelTypes
  <2> QED
    BY <1>1, <1>3, <2>1 DEF CollectWarning, EngineInv, ChannelTypes, Lifecycle, DetectorsReturned
<1>4. CASE CollectorDone("findings", findings) \/ CollectorDone("warnings", warnings)
  BY <1>1, <1>4 DEF CollectorDone, channels, EngineInv, ChannelTypes, Lifecycle, DetectorsReturned
<1> QED
  BY <1>2, <1>3, <1>4 DEF Collect

LEMMA MainEngineInv ==
  ASSUME EngineInv, MainStep
  PROVE  EngineInv'
<1>1. UNCHANGED <<held, failure, findings, warnings, collecting>>
  BY DEF MainStep, Spawn, CloseChannels, ReturnResult, channels
<1>2. ASSUME NEW d \in Detector, Spawn(d) PROVE EngineInv'
  <2>1. d \in Goroutine /\ d \notin Worker /\ ~closed /\ closed' = closed
    BY <1>2, EngineAssumption DEF Spawn, Goroutine, EngineInv, Lifecycle
  <2> QED
    BY <1>1, <1>2, <2>1, OwnerType
    DEF Spawn, Becomes, Goroutine, EngineInv, ChannelTypes, Lifecycle
<1>3. CASE CloseChannels
  BY <1>1, <1>3 DEF CloseChannels, EngineInv, ChannelTypes, Lifecycle, DetectorsReturned
<1>4. CASE ReturnResult
  BY <1>1, <1>4 DEF ReturnResult, EngineInv, ChannelTypes, Lifecycle, DetectorsReturned
<1> QED
  BY <1>2, <1>3, <1>4 DEF MainStep

LEMMA StepEngineInv == EngineInv /\ [EngineNext]_evars => EngineInv'
<1> SUFFICES ASSUME EngineInv, [EngineNext]_evars PROVE EngineInv'
  OBVIOUS
<1>1. ASSUME NEW d \in Detector, DetectorStep(d) PROVE EngineInv'
  BY <1>1, SendEngineInv, PassEngineInv, FanEngineInv, ReturnEngineInv, FailEngineInv
  DEF DetectorStep, Goroutine
<1>2. ASSUME NEW w \in Worker, WorkerStep(w) PROVE EngineInv'
  BY <1>2, SendEngineInv, PassEngineInv, ReturnEngineInv DEF WorkerStep, Goroutine
<1>3. ASSUME NEW w \in Worker, WorkerPanic(w) PROVE EngineInv'
  BY <1>3 DEF WorkerPanic, channels, EngineInv, ChannelTypes, Lifecycle, DetectorsReturned
<1>4. CASE UNCHANGED evars
  BY <1>4 DEF evars, channels, EngineInv, ChannelTypes, Lifecycle, DetectorsReturned
<1> QED
  BY <1>1, <1>2, <1>3, <1>4, MainEngineInv, CollectEngineInv DEF EngineNext

\* However many detectors, workers and messages: nobody can send on a closed channel.
THEOREM ClosedForGood == EngineSpec => []SendersGone
<1>1. EngineInv => SendersGone
  BY OwnerType DEF EngineInv, Lifecycle, DetectorsReturned, SendersGone, Goroutine
<1> QED
  BY <1>1, InitEngineInv, StepEngineInv, PTL DEF EngineSpec

-----------------------------------------------------------------------------
(***************************************************************************)
(* Delivery.  What was sent is in its channel or was collected; the        *)
(* failure of a detector is about to be sent or was sent.                  *)
(***************************************************************************)
Delivery ==
  /\ added \cup Content(findings) = reported
  /\ errors \cup Content(warnings) = complained
  /\ \A d \in failed : /\ d \in Detector
                       /\ state[d] = "failing" \/ {ErrorOf[d], PanicOf[d]} \cap complained # {}

LEMMA InitDelivery == EngineInit => Delivery
BY DEF EngineInit, Init, Delivery, Content

LEMMA PassDelivery ==
  ASSUME EngineInv, Delivery, NEW g \in Goroutine, Emit(g) \/ Warn(g)
  PROVE  Delivery'
<1>1. findings \in Seq(Reports) /\ warnings \in Seq(Complaint)
  BY DEF EngineInv, ChannelTypes
<1>2. \A f \in Reports : Content(Append(findings, f)) = Content(findings) \cup {f}
  BY <1>1, AppendContent
<1>3. \A c \in Complaint : Content(Append(warnings, c)) = Content(warnings) \cup {c}
  BY <1>1, AppendContent
<1>4. CASE Emit(g)
  <2>1. PICK f \in Reports : findings' = Append(findings, f) /\ reported' = reported \cup {f}
    BY <1>4, Passed
  <2>2. UNCHANGED <<state, warnings, added, errors, complained, failed>>
    BY <1>4 DEF Emit, collected
  <2> QED
    BY <1>2, <2>1, <2>2 DEF Delivery
<1>5. CASE Warn(g)
  <2>1. PICK c \in Complaint : warnings' = Append(warnings, c) /\ complained' = complained \cup {c}
    BY <1>5, Passed
  <2>2. UNCHANGED <<state, findings, added, errors, reported, failed>>
    BY <1>5 DEF Warn, collected
  <2> QED
    BY <1>3, <2>1, <2>2 DEF Delivery
<1> QED
  BY <1>4, <1>5

LEMMA FailDelivery ==
  ASSUME EngineInv, Delivery, NEW d \in Detector, Fail(d) \/ SendFailure(d)
  PROVE  Delivery'
<1>1. CASE Fail(d)
  <2>1. /\ UNCHANGED <<findings, warnings, added, errors, reported, complained>>
        /\ failed' = failed \cup {d} /\ state' = [state EXCEPT ![d] = "failing"]
    BY <1>1 DEF Fail, Becomes, channels, collected
  <2>2. state'[d] = "failing" /\ \A e \in Detector : state[e] = "failing" => state'[e] = "failing"
    BY <2>1 DEF EngineInv, ChannelTypes, Goroutine
  <2> QED
    BY <2>1, <2>2 DEF Delivery
<1>2. CASE SendFailure(d)
  <2>1. /\ UNCHANGED <<findings, added, errors, reported, failed>>
        /\ warnings' = Append(warnings, failure[d]) /\ complained' = complained \cup {failure[d]}
        /\ state' = [state EXCEPT ![d] = "done"]
    BY <1>2 DEF SendFailure, Becomes, collected, history
  <2>2. failure[d] \in {ErrorOf[d], PanicOf[d]} /\ failure[d] \in Complaint
    BY <1>2, EngineAssumption DEF SendFailure, EngineInv, Lifecycle
  <2>3. Content(warnings') = Content(warnings) \cup {failure[d]}
    BY <2>1, <2>2, AppendContent DEF EngineInv, ChannelTypes
  <2>4. \A e \in Detector : e # d => state'[e] = state[e]
    BY <2>1 DEF EngineInv, ChannelTypes
  <2>5. {ErrorOf[d], PanicOf[d]} \cap complained' # {}
    BY <2>1, <2>2
  <2> QED
    BY <2>1, <2>3, <2>4, <2>5 DEF Delivery
<1> QED
  BY <1>1, <1>2

LEMMA CollectDelivery ==
  ASSUME EngineInv, Delivery, Collect
  PROVE  Delivery'
<1>1. CASE CollectFinding
  <2>1. Content(findings) = Content(findings') \cup {Head(findings)}
    BY <1>1, TailContent DEF CollectFinding, EngineInv, ChannelTypes
  <2>2. added' = added \cup {Head(findings)}
    BY <1>1 DEF CollectFinding, Add
  <2> QED
    BY <1>1, <2>1, <2>2 DEF CollectFinding, history, Delivery
<1>2. CASE CollectWarning
  <2>1. Content(warnings) = Content(warnings') \cup {Head(warnings)}
    BY <1>2, TailContent DEF CollectWarning, EngineInv, ChannelTypes
  <2> QED
    BY <1>2, <2>1 DEF CollectWarning, history, Delivery
<1>3. CASE CollectorDone("findings", findings) \/ CollectorDone("warnings", warnings)
  BY <1>3 DEF CollectorDone, channels, collected, history, Delivery
<1> QED
  BY <1>1, <1>2, <1>3 DEF Collect

LEMMA StepDelivery == EngineInv /\ Delivery /\ [EngineNext]_evars => Delivery'
<1> SUFFICES ASSUME EngineInv, Delivery, [EngineNext]_evars PROVE Delivery'
  OBVIOUS
<1>1. ASSUME UNCHANGED <<findings, warnings, added, errors, reported, complained, failed>>,
             \A d \in Detector : state[d] = "failing" => state'[d] = "failing"
      PROVE  Delivery'
  BY <1>1 DEF Delivery
<1>2. ASSUME NEW d \in Detector, FanOut(d) \/ Join(d) PROVE Delivery'
  <2>1. \A e \in Detector : state[e] = "failing" => state'[e] = "failing"
    BY <1>2, EngineAssumption
    DEF FanOut, Join, Becomes, WorkersOf, Goroutine, EngineInv, ChannelTypes
  <2> QED
    BY <1>1, <1>2, <2>1 DEF FanOut, Join, channels, collected, history
<1>3. ASSUME NEW g \in Goroutine, Send(g) \/ Return(g) PROVE Delivery'
  <2>1. \A e \in Detector : state[e] = "failing" => state'[e] = "failing"
    BY <1>3 DEF Send, Return, Becomes, Active, Goroutine, EngineInv, ChannelTypes
  <2> QED
    BY <1>1, <1>3, <2>1 DEF Send, Return, channels, collected, history
<1>4. ASSUME NEW d \in Detector, DetectorStep(d) PROVE Delivery'
  BY <1>2, <1>3, <1>4, PassDelivery, FailDelivery DEF DetectorStep, Goroutine
<1>5. ASSUME NEW w \in Worker, WorkerStep(w) \/ WorkerPanic(w) PROVE Delivery'
  BY <1>1, <1>3, <1>5, PassDelivery
  DEF WorkerStep, WorkerPanic, channels, collected, history, Goroutine
<1>6. CASE MainStep
  <2>1. \A e \in Detector : state[e] = "failing" => state'[e] = "failing"
    BY <1>6
    DEF MainStep, Spawn, CloseChannels, ReturnResult, Becomes, Goroutine, EngineInv, ChannelTypes
  <2> QED
    BY <1>1, <1>6, <2>1
    DEF MainStep, Spawn, CloseChannels, ReturnResult, channels, collected, history
<1>7. CASE UNCHANGED evars
  BY <1>1, <1>7 DEF evars, channels, collected, history
<1> QED
  BY <1>4, <1>5, <1>6, <1>7, CollectDelivery DEF EngineNext

LEMMA AllCollected ==
  ASSUME EngineInv, Delivery, collecting = {}
  PROVE  added = reported /\ errors = complained
<1>1. findings = <<>> /\ warnings = <<>>
  BY DEF EngineInv, Lifecycle
<1>2. Content(<<>>) = {}
  BY DEF Content
<1> QED
  BY <1>1, <1>2 DEF Delivery

\* Every detector that failed or panicked has left its warning in the result.
THEOREM FailuresReach == EngineSpec => []FailureReported
<1>1. EngineInv /\ Delivery => FailureReported
  <2> SUFFICES ASSUME EngineInv, Delivery, main = "returned", NEW d \in failed
               PROVE  {ErrorOf[d], PanicOf[d]} \cap errors # {}
    BY DEF FailureReported
  <2>1. collecting = {} /\ closed /\ d \in Detector
    BY DEF EngineInv, Lifecycle, Delivery
  <2>2. state[d] = "done"
    BY <2>1 DEF EngineInv, Lifecycle, DetectorsReturned
  <2> QED
    BY <2>1, <2>2, AllCollected DEF Delivery
<1> QED
  BY <1>1, InitEngineInv, StepEngineInv, InitDelivery, StepDelivery, PTL DEF EngineSpec

-----------------------------------------------------------------------------
(***************************************************************************)
(* The refinement.  The collector is the only one who adds to the finding  *)
(* set, so the set keeps its invariants, and when the result is returned   *)
(* it holds all that was sent.                                             *)
(***************************************************************************)
SetInv == TypeOK /\ Accounts /\ Grades

LEMMA EngineStepsAdd == EngineInv /\ [EngineNext]_evars => [Next]_vars
<1> SUFFICES ASSUME EngineInv, [EngineNext]_evars PROVE [Next]_vars
  OBVIOUS
<1>1. CASE CollectFinding
  <2>1. Head(findings) \in Reports
    BY <1>1, TailContent DEF CollectFinding, EngineInv, ChannelTypes
  <2> QED
    BY <1>1, <2>1 DEF CollectFinding, Next
<1>2. CASE Collect /\ ~CollectFinding
  BY <1>2 DEF Collect, CollectorDone, CollectWarning, collected, vars
<1>3. ASSUME NEW d \in Detector, DetectorStep(d) PROVE UNCHANGED vars
  BY <1>3
  DEF DetectorStep, Send, Emit, Warn, FanOut, Join, Return, Fail, SendFailure, collected, vars
<1>4. ASSUME NEW w \in Worker, WorkerStep(w) \/ WorkerPanic(w) PROVE UNCHANGED vars
  BY <1>4 DEF WorkerStep, WorkerPanic, Send, Emit, Warn, Return, collected, vars
<1>5. CASE MainStep \/ UNCHANGED evars
  BY <1>5 DEF MainStep, Spawn, CloseChannels, ReturnResult, evars, collected, vars
<1> QED
  BY <1>1, <1>2, <1>3, <1>4, <1>5 DEF EngineNext

LEMMA SameGrade == \A F : Published!Grade(F) = Grade(F)
BY DEF Published!Grade, Grade, Published!SeveralMethods, SeveralMethods

LEMMA VerdictsAgree ==
  ASSUME SetInv, added = reported
  PROVE  [k \in DOMAIN byVendor |-> Verdict(k)] = Published!Verdicts(reported)
<1>1. DOMAIN byVendor = {Key[f.vendor] : f \in reported}
  BY DEF SetInv, Accounts
<1>2. ASSUME NEW k \in DOMAIN byVendor
      PROVE  Verdict(k) = LET about == {f \in reported : Key[f.vendor] = k}
                          IN  [confidence |-> Published!Grade(about),
                               contested  |-> \A f \in about : f.contested,
                               labels     |-> UNION {f.labels : f \in about},
                               evidence   |-> UNION {f.evidence : f \in about}]
  BY SameGrade DEF SetInv, Accounts, Accounted, Grades, Contributions, Verdict
<1> QED
  BY <1>1, <1>2 DEF Published!Verdicts

LEMMA StepPublished ==
  EngineInv /\ Delivery /\ SetInv /\ [EngineNext]_evars => [Published!Next]_(Published!vars)
<1> SUFFICES ASSUME EngineInv, Delivery, SetInv, [EngineNext]_evars
             PROVE  [Published!Next]_(Published!vars)
  OBVIOUS
<1>1. ASSUME UNCHANGED <<main, reported, complained>>, main # "returned"
      PROVE  UNCHANGED Published!vars
  BY <1>1 DEF Published!vars
<1>2. ASSUME NEW g \in Goroutine, Emit(g) \/ Warn(g) PROVE Published!Next
  <2>1. main # "returned" /\ main' = main
    BY <1>2, ActiveOpen DEF Emit, Warn
  <2>2. \/ \E f \in Reports : reported' = reported \cup {f} /\ complained' = complained
        \/ \E c \in Complaint : complained' = complained \cup {c} /\ reported' = reported
    BY <1>2, Passed DEF Emit, Warn
  <2> QED
    BY <2>1, <2>2 DEF Published!Next, Published!Report, Published!Complain
<1>3. ASSUME NEW d \in Detector, FanOut(d) \/ Join(d) \/ Fail(d) PROVE UNCHANGED Published!vars
  <2>1. ~closed
    BY <1>3, EngineAssumption, ActiveOpen
    DEF FanOut, Join, Fail, EngineInv, Lifecycle, DetectorsReturned, Goroutine
  <2>2. main # "returned" /\ UNCHANGED <<main, reported, complained>>
    BY <1>3, <2>1 DEF FanOut, Join, Fail, history, EngineInv, Lifecycle
  <2> QED
    BY <1>1, <2>2
<1>4. ASSUME NEW g \in Goroutine, Send(g) \/ Return(g) PROVE UNCHANGED Published!vars
  <2>1. main # "returned" /\ UNCHANGED <<main, reported, complained>>
    BY <1>4, ActiveOpen DEF Send, Return, history
  <2> QED
    BY <1>1, <2>1
<1>5. ASSUME NEW d \in Detector, SendFailure(d) PROVE Published!Next
  <2>1. main # "returned" /\ UNCHANGED <<main, reported>>
    BY <1>5, ActiveOpen DEF SendFailure, Goroutine
  <2>2. failure[d] \in Complaint /\ complained' = complained \cup {failure[d]}
    BY <1>5, EngineAssumption DEF SendFailure, EngineInv, Lifecycle
  <2> QED
    BY <2>1, <2>2 DEF Published!Next, Published!Complain
<1>6. CASE Collect
  <2>1. collecting # {} /\ UNCHANGED <<main, reported, complained>>
    BY <1>6 DEF Collect, CollectFinding, CollectWarning, CollectorDone, history
  <2>2. main # "returned"
    BY <2>1 DEF EngineInv, Lifecycle
  <2> QED
    BY <1>1, <2>1, <2>2
<1>7. CASE CloseChannels \/ \E d \in Detector : Spawn(d)
  <2>1. /\ main # "returned" /\ main' # "returned" /\ UNCHANGED <<reported, complained>>
    BY <1>7 DEF CloseChannels, Spawn, history
  <2> QED
    BY <2>1 DEF Published!vars
<1>8. CASE ReturnResult
  <2>1. /\ main = "closed" /\ main' = "returned" /\ collecting = {}
        /\ UNCHANGED <<byVendor, errors, reported, complained>>
    BY <1>8 DEF ReturnResult, collected, history
  <2>2. [k \in DOMAIN byVendor |-> Verdict(k)] = Published!Verdicts(reported) /\ errors = complained
    BY <2>1, AllCollected, VerdictsAgree
  <2>3. [k \in DOMAIN byVendor |-> Verdict(k)]' = [k \in DOMAIN byVendor |-> Verdict(k)]
    BY <2>1 DEF Verdict
  <2>4. Published!Publish
    BY <2>1, <2>2, <2>3 DEF Published!Publish
  <2> QED
    BY <2>4 DEF Published!Next
<1>9. ASSUME NEW w \in Worker, WorkerPanic(w) PROVE UNCHANGED Published!vars
  <2>1. main # "returned" /\ UNCHANGED <<main, reported, complained>>
    BY <1>9, ActiveOpen DEF WorkerPanic, history, Goroutine
  <2> QED
    BY <1>1, <2>1
<1>10. CASE UNCHANGED evars
  BY <1>10 DEF evars, collected, history, Published!vars, Verdict
<1> QED
  BY <1>2, <1>3, <1>4, <1>5, <1>6, <1>7, <1>8, <1>9, <1>10
  DEF EngineNext, DetectorStep, WorkerStep, MainStep, Goroutine

\* Run is a scan: with detectors that keep what the grade needs, its result lacks nothing
\* that was sent, shows nothing of the interleaving, and is final.
THEOREM ScanImplemented ==
  ASSUME CappedAtSource, EvidenceGiven, EvidenceDecides
  PROVE  EngineSpec => ImplementsScan
<1>1. EngineInit => SetInv /\ Published!Init
  <2>1. EngineInit => TypeOK /\ Accounts /\ Grades
    BY InitTypeOK, InitAccounts DEF EngineInit, Init, Grades
  <2> QED
    BY <2>1 DEF SetInv, EngineInit, Published!Init
<1>2. EngineInv /\ SetInv /\ [EngineNext]_evars => SetInv'
  BY EngineStepsAdd, AddTypeOK, AddAccounts, AddGrades DEF SetInv
<1> QED
  BY <1>1, <1>2, InitEngineInv, StepEngineInv, InitDelivery, StepDelivery, StepPublished, PTL
  DEF EngineSpec, ImplementsScan, Published!Spec

=============================================================================
