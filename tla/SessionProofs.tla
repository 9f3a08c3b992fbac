----------------------------- MODULE SessionProofs -----------------------------
(***************************************************************************)
(* Theorems about Session, for any commands, packs, answers and pages, and *)
(* whenever the scan is interrupted.                                       *)
(***************************************************************************)
EXTENDS Session, FiniteSetTheorems, SequenceTheorems, WellFoundedInduction, TLAPS

-----------------------------------------------------------------------------
(***************************************************************************)
(* Natural numbers.                                                        *)
(***************************************************************************)
LEMMA Least ==
  ASSUME NEW T \in SUBSET Nat, T # {}
  PROVE  \E x \in T : \A y \in T : x <= y
<1> DEFINE R == OpToRel(<, Nat)
<1>1. IsWellFoundedOn(R, Nat)
  BY NatLessThanWellFounded
<1>2. R = {pair \in Nat \X Nat : pair[1] < pair[2]}
  BY DEF OpToRel
<1> HIDE DEF R
<1>3. PICK x \in T : \A y \in T : <<y, x>> \notin R
  BY <1>1, WFMin
<1>4. ASSUME NEW y \in T PROVE x <= y
  <2>1. x \in Nat /\ y \in Nat
    OBVIOUS
  <2>2. ~(y < x)
    BY <1>2, <1>3, <2>1
  <2> QED
    BY <2>1, <2>2
<1> QED
  BY <1>4

LEMMA EarliestOf ==
  ASSUME NEW T \in SUBSET Nat, T # {}
  PROVE  Earliest(T) \in T
BY Least DEF Earliest

\* Induction up to a bound, for a set of numbers instead of a predicate.
LEMMA UpTo ==
  ASSUME NEW N \in Nat, NEW T, 0 \in T, \A n \in 1 .. N : n - 1 \in T => n \in T
  PROVE  0 .. N \subseteq T
<1> SUFFICES ASSUME (0 .. N) \ T # {} PROVE FALSE
  OBVIOUS
<1>0. (0 .. N) \ T \in SUBSET Nat
  OBVIOUS
<1>1. PICK x \in (0 .. N) \ T : \A y \in (0 .. N) \ T : x <= y
  BY <1>0, Least
<1>2. x \in 1 .. N /\ x - 1 \in 0 .. N /\ ~(x <= x - 1)
  BY <1>1
<1>3. x - 1 \in T
  BY <1>1, <1>2
<1> QED
  BY <1>1, <1>2, <1>3

-----------------------------------------------------------------------------
(***************************************************************************)
(* The loops: the function that each definition names exists, and what it  *)
(* has gathered so far.                                                    *)
(***************************************************************************)
KeptFrom(skip, out, n) == IF All[n] \in ToSet(skip.names) THEN out ELSE Append(out, All[n])

UnskippedLoop(skip, out, N) ==
  out = [n \in 0 .. N |-> IF n = 0 THEN <<>> ELSE KeptFrom(skip, out[n - 1], n)]

LEMMA UnskippedLoops ==
  ASSUME NEW skip, NEW N \in Nat
  PROVE  \E out : UnskippedLoop(skip, out, N)
<1> DEFINE T == {n \in 0 .. N : \E out : UnskippedLoop(skip, out, n)}
<1>1. 0 \in T
  <2>1. UnskippedLoop(skip, [n \in 0 .. 0 |-> <<>>], 0)
    BY DEF UnskippedLoop
  <2> QED
    BY <2>1
<1>2. ASSUME NEW n \in 1 .. N, n - 1 \in T PROVE n \in T
  <2>1. PICK out : UnskippedLoop(skip, out, n - 1)
    BY <1>2
  <2> DEFINE more == [m \in 0 .. n |-> IF m = n THEN KeptFrom(skip, out[n - 1], n) ELSE out[m]]
  <2>2. UnskippedLoop(skip, more, n)
    <3>1. ASSUME NEW m \in 0 .. n
          PROVE  more[m] = IF m = 0 THEN <<>> ELSE KeptFrom(skip, more[m - 1], m)
      <4>1. CASE m = n
        BY <4>1
      <4>2. CASE m # n
        BY <2>1, <4>2 DEF UnskippedLoop
      <4> QED
        BY <4>1, <4>2
    <3> QED
      BY <3>1 DEF UnskippedLoop
  <2> QED
    BY <2>2
<1>3. 0 .. N \subseteq T
  BY <1>1, <1>2, UpTo
<1> QED
  BY <1>3

LEMMA AppendSet ==
  ASSUME NEW S, NEW s \in Seq(S), NEW x
  PROVE  ToSet(Append(s, x)) = ToSet(s) \cup {x}
<1>1. DOMAIN s = 1 .. Len(s) /\ DOMAIN Append(s, x) = 1 .. Len(s) + 1 /\ Len(s) \in Nat
  OBVIOUS
<1>2. Append(s, x)[Len(s) + 1] = x /\ \A i \in 1 .. Len(s) : Append(s, x)[i] = s[i]
  OBVIOUS
<1> QED
  BY <1>1, <1>2 DEF ToSet

LEMMA UnskippedIs ==
  ASSUME NEW skip, All \in Seq(Detectors)
  PROVE  ToSet(Unskipped(skip)) = Detectors \ ToSet(skip.names)
<1> DEFINE N == Len(All)
           out == CHOOSE out : UnskippedLoop(skip, out, N)
           T == {n \in 0 .. N : /\ out[n] \in Seq(Detectors)
                                /\ ToSet(out[n]) = {All[i] : i \in 1 .. n} \ ToSet(skip.names)}
<1>0. N \in Nat
  OBVIOUS
<1>1. UnskippedLoop(skip, out, N)
  <2>1. \E o : UnskippedLoop(skip, o, N)
    BY <1>0, UnskippedLoops
  <2> QED
    BY <2>1
<1>2. Unskipped(skip) = out[N]
  BY DEF Unskipped, UnskippedLoop, KeptFrom
<1> HIDE DEF out
<1>3. 0 \in T
  <2>1. out[0] = <<>>
    BY <1>0, <1>1 DEF UnskippedLoop
  <2>2. ToSet(out[0]) = {} /\ {All[i] : i \in 1 .. 0} = {} /\ out[0] \in Seq(Detectors)
    BY <2>1 DEF ToSet
  <2> QED
    BY <1>0, <2>2
<1>4. ASSUME NEW n \in 1 .. N, n - 1 \in T PROVE n \in T
  <2>1. out[n] = KeptFrom(skip, out[n - 1], n) /\ All[n] \in Detectors
    BY <1>1 DEF UnskippedLoop
  <2>2. out[n - 1] \in Seq(Detectors)
        /\ ToSet(out[n - 1]) = {All[i] : i \in 1 .. n - 1} \ ToSet(skip.names)
    BY <1>4
  <2>3. {All[i] : i \in 1 .. n} = {All[i] : i \in 1 .. n - 1} \cup {All[n]}
    OBVIOUS
  <2>4. ToSet(Append(out[n - 1], All[n])) = ToSet(out[n - 1]) \cup {All[n]}
    BY <2>1, <2>2, AppendSet
  <2>5. out[n] \in Seq(Detectors)
    BY <2>1, <2>2 DEF KeptFrom
  <2>6. ToSet(out[n]) = {All[i] : i \in 1 .. n} \ ToSet(skip.names)
    BY <2>1, <2>2, <2>3, <2>4 DEF KeptFrom
  <2> QED
    BY <2>5, <2>6
<1>5. 0 .. N \subseteq T
  <2> HIDE DEF T, N
  <2> QED
    BY <1>0, <1>3, <1>4, UpTo
<1>6. N \in T
  <2> HIDE DEF T, N
  <2> QED
    BY <1>0, <1>5
<1>7. Detectors = {All[i] : i \in 1 .. N}
  BY DEF Detectors, ToSet
<1> QED
  BY <1>2, <1>6, <1>7

-----------------------------------------------------------------------------
(***************************************************************************)
(* Loading.  What the loop has gathered when it has been through the       *)
(* entries E; an error tells that the directory is not sound.              *)
(***************************************************************************)
Gathered(l, packs, E) ==
  /\ \A e \in E : Valid(EntryAt(packs, e))
  /\ \A d, e \in E : EntryAt(packs, d).id = EntryAt(packs, e).id => d = e
  /\ l.seen = {EntryAt(packs, e).id : e \in E}
  /\ l.sigs \in Seq(ToSet(l.sigs)) /\ l.disabled \in Seq(ToSet(l.disabled))
  /\ ToSet(l.sigs) = {Normalised(EntryAt(packs, e)) : e \in {d \in E : ~EntryAt(packs, d).disabled}}
  /\ ToSet(l.disabled) = {EntryAt(packs, e) : e \in {d \in E : EntryAt(packs, d).disabled}}
  /\ IsFiniteSet(ToSet(l.sigs)) /\ Len(l.sigs) = Cardinality(ToSet(l.sigs))

IsLoad(l) == DOMAIN l = {"sigs", "disabled", "seen", "failed"}

Loading(l, packs, E) ==
  /\ IsLoad(l) /\ l.failed \in BOOLEAN
  /\ IF l.failed THEN ~Sound(packs) ELSE Gathered(l, packs, E)

LEMMA PackTyped ==
  ASSUME NEW packs \in Seq(Pack), NEW k \in DOMAIN packs
  PROVE  /\ packs[k] \in Pack /\ packs[k].signatures \in Seq(Signature)
         /\ k \in Nat /\ k > 0 /\ Len(packs[k].signatures) \in Nat
         /\ DOMAIN packs[k].signatures = 1 .. Len(packs[k].signatures)
<1>1. packs[k] \in Pack /\ k \in Nat /\ k > 0
  OBVIOUS
<1>2. packs[k].signatures \in Seq(Signature)
  BY <1>1 DEF Pack
<1> QED
  BY <1>1, <1>2

LEMMA EntryKeepsId ==
  ASSUME NEW packs \in Seq(Pack), NEW e \in Entry(packs)
  PROVE  /\ e = <<e[1], e[2]>> /\ e[1] \in DOMAIN packs /\ e[2] \in DOMAIN packs[e[1]].signatures
         /\ Normalised(EntryAt(packs, e)).id = EntryAt(packs, e).id
<1>1. e = <<e[1], e[2]>> /\ e[1] \in DOMAIN packs /\ e[2] \in DOMAIN packs[e[1]].signatures
  BY DEF Entry
<1>2. packs[e[1]] \in Pack
  BY <1>1
<1>3. packs[e[1]].signatures[e[2]] \in Signature
  BY <1>1, <1>2 DEF Pack
<1> QED
  BY <1>1, <1>3 DEF Signature, EntryAt, Defaulted, Normalised

LEMMA FailedLoad ==
  ASSUME NEW packs, NEW E, NEW l, IsLoad(l), ~Sound(packs)
  PROVE  Loading([l EXCEPT !.failed = TRUE], packs, E)
BY DEF Loading, IsLoad

\* A signature that is accepted goes to one list or the other.
LEMMA Accepts ==
  ASSUME NEW l, IsLoad(l), ~l.failed, NEW sig, Valid(sig), sig.id \notin l.seen
  PROVE  LET after == LoadSignature(l, sig)
         IN  /\ IsLoad(after) /\ after.failed = l.failed
             /\ after.seen = l.seen \cup {sig.id}
             /\ after.sigs = IF sig.disabled THEN l.sigs ELSE Append(l.sigs, Normalised(sig))
             /\ after.disabled = IF sig.disabled THEN Append(l.disabled, sig) ELSE l.disabled
<1> DEFINE marked == [l EXCEPT !.seen = @ \cup {sig.id}]
<1>1. /\ IsLoad(marked) /\ marked.failed = l.failed /\ marked.seen = l.seen \cup {sig.id}
      /\ marked.sigs = l.sigs /\ marked.disabled = l.disabled
  BY DEF IsLoad
<1>2. LoadSignature(l, sig) =
        IF sig.disabled THEN [marked EXCEPT !.disabled = Append(@, sig)]
        ELSE [marked EXCEPT !.sigs = Append(@, Normalised(sig))]
  BY DEF LoadSignature
<1> HIDE DEF marked
<1>3. CASE sig.disabled
  BY <1>1, <1>2, <1>3 DEF IsLoad
<1>4. CASE ~sig.disabled
  BY <1>1, <1>2, <1>4 DEF IsLoad
<1> QED
  BY <1>3, <1>4

LEMMA LoadsEntry ==
  ASSUME NEW packs \in Seq(Pack), NEW E \in SUBSET Entry(packs), NEW e \in Entry(packs) \ E,
         NEW l, Loading(l, packs, E)
  PROVE  Loading(LoadSignature(l, EntryAt(packs, e)), packs, E \cup {e})
<1> DEFINE sig == EntryAt(packs, e)
<1>1. CASE l.failed
  BY <1>1, FailedLoad DEF Loading, LoadSignature
<1>2. CASE ~l.failed /\ ~Valid(sig)
  BY <1>2, FailedLoad DEF Loading, LoadSignature, Sound
<1>3. CASE ~l.failed /\ sig.id \in l.seen
  <2>1. PICK d \in E : EntryAt(packs, d).id = sig.id
    BY <1>3 DEF Loading, Gathered
  <2>2. ~Sound(packs)
    BY <2>1 DEF Sound
  <2> QED
    BY <1>3, <2>2, FailedLoad DEF Loading, LoadSignature
<1>4. CASE ~l.failed /\ Valid(sig) /\ sig.id \notin l.seen
  <2> DEFINE more == LoadSignature(l, sig)
  <2>0. Gathered(l, packs, E) /\ IsLoad(l)
    BY <1>4 DEF Loading
  <2>1. /\ \A d \in E \cup {e} : Valid(EntryAt(packs, d))
        /\ \A c, d \in E \cup {e} : EntryAt(packs, c).id = EntryAt(packs, d).id => c = d
        /\ l.seen \cup {sig.id} = {EntryAt(packs, d).id : d \in E \cup {e}}
    BY <1>4, <2>0 DEF Gathered
  <2>2. CASE sig.disabled
    <3>1. /\ IsLoad(more) /\ more.failed = l.failed /\ more.seen = l.seen \cup {sig.id}
          /\ more.sigs = l.sigs /\ more.disabled = Append(l.disabled, sig)
      BY <1>4, <2>0, <2>2, Accepts
    <3>2. ToSet(Append(l.disabled, sig)) = ToSet(l.disabled) \cup {sig}
      BY <2>0, AppendSet DEF Gathered
    <3>3. Append(l.disabled, sig) \in Seq(ToSet(Append(l.disabled, sig)))
      BY <2>0, <3>2 DEF Gathered
    <3>4. {d \in E \cup {e} : ~EntryAt(packs, d).disabled} = {d \in E : ~EntryAt(packs, d).disabled}
      BY <2>2
    <3>5. ToSet(Append(l.disabled, sig))
          = {EntryAt(packs, c) : c \in {d \in E \cup {e} : EntryAt(packs, d).disabled}}
      BY <2>0, <2>2, <3>2 DEF Gathered
    <3>6. Gathered(more, packs, E \cup {e})
      <4> HIDE DEF more, sig
      <4> QED
        BY <2>0, <2>1, <3>1, <3>3, <3>4, <3>5 DEF Gathered
    <3> QED
      BY <1>4, <3>1, <3>6 DEF Loading
  <2>3. CASE ~sig.disabled
    <3> DEFINE norm == Normalised(sig)
    <3>1. /\ IsLoad(more) /\ more.failed = l.failed /\ more.seen = l.seen \cup {sig.id}
          /\ more.sigs = Append(l.sigs, norm) /\ more.disabled = l.disabled
      BY <1>4, <2>0, <2>3, Accepts
    <3>2. ToSet(Append(l.sigs, norm)) = ToSet(l.sigs) \cup {norm}
      BY <2>0, AppendSet DEF Gathered
    <3>3. Append(l.sigs, norm) \in Seq(ToSet(Append(l.sigs, norm)))
          /\ Len(Append(l.sigs, norm)) = Len(l.sigs) + 1
      BY <2>0, <3>2 DEF Gathered
    <3>4. {d \in E \cup {e} : EntryAt(packs, d).disabled} = {d \in E : EntryAt(packs, d).disabled}
      BY <2>3
    <3>5. ToSet(Append(l.sigs, norm))
          = {Normalised(EntryAt(packs, c)) : c \in {d \in E \cup {e} : ~EntryAt(packs, d).disabled}}
      BY <2>0, <2>3, <3>2 DEF Gathered
    <3>6. norm \notin ToSet(l.sigs)
      <4>1. ASSUME NEW d \in E PROVE Normalised(EntryAt(packs, d)).id \in l.seen
        BY <2>0, EntryKeepsId DEF Gathered
      <4>2. norm.id = sig.id
        BY EntryKeepsId
      <4> QED
        BY <1>4, <2>0, <4>1, <4>2 DEF Gathered
    <3>7. /\ IsFiniteSet(ToSet(Append(l.sigs, norm)))
          /\ Cardinality(ToSet(Append(l.sigs, norm))) = Cardinality(ToSet(l.sigs)) + 1
      <4>1. IsFiniteSet(ToSet(l.sigs))
        BY <2>0 DEF Gathered
      <4>2. /\ IsFiniteSet(ToSet(l.sigs) \cup {norm})
            /\ Cardinality(ToSet(l.sigs) \cup {norm}) = Cardinality(ToSet(l.sigs)) + 1
        BY <3>6, <4>1, FS_AddElement
      <4> QED
        BY <3>2, <4>2
    <3>8. Gathered(more, packs, E \cup {e})
      <4> HIDE DEF more, sig, norm
      <4>1. Len(l.sigs) = Cardinality(ToSet(l.sigs))
        BY <2>0 DEF Gathered
      <4> QED
        BY <2>0, <2>1, <3>3, <3>4, <3>5, <3>1, <3>7, <4>1 DEF Gathered
    <3> QED
      BY <1>4, <3>1, <3>8 DEF Loading
  <2> QED
    BY <2>2, <2>3
<1> QED
  BY <1>1, <1>2, <1>3, <1>4 DEF Loading

\* The entries of the packs before pack k, and the first n of it.
Passed(packs, k, n) == {e \in Entry(packs) : e[1] < k \/ (e[1] = k /\ e[2] <= n)}

PackLoop(l, pack, upto, N) ==
  upto = [n \in 0 .. N |-> IF n = 0 THEN l
                           ELSE LoadSignature(upto[n - 1], Defaulted(pack.signatures[n], pack))]

LEMMA PackLoops ==
  ASSUME NEW l, NEW pack, NEW N \in Nat
  PROVE  \E upto : PackLoop(l, pack, upto, N)
<1> DEFINE T == {n \in 0 .. N : \E upto : PackLoop(l, pack, upto, n)}
           Next1(x, n) == LoadSignature(x, Defaulted(pack.signatures[n], pack))
<1>1. 0 \in T
  <2>1. PackLoop(l, pack, [n \in 0 .. 0 |-> l], 0)
    BY DEF PackLoop
  <2> QED
    BY <2>1
<1>2. ASSUME NEW n \in 1 .. N, n - 1 \in T PROVE n \in T
  <2>1. PICK upto : PackLoop(l, pack, upto, n - 1)
    BY <1>2
  <2> DEFINE more == [m \in 0 .. n |-> IF m = n THEN Next1(upto[n - 1], n) ELSE upto[m]]
  <2>2. PackLoop(l, pack, more, n)
    <3>1. ASSUME NEW m \in 0 .. n
          PROVE  more[m] = IF m = 0 THEN l ELSE Next1(more[m - 1], m)
      <4>1. CASE m = n
        BY <4>1
      <4>2. CASE m # n
        BY <2>1, <4>2 DEF PackLoop
      <4> QED
        BY <4>1, <4>2
    <3> QED
      BY <3>1 DEF PackLoop
  <2> QED
    BY <2>2
<1>3. 0 .. N \subseteq T
  <2> HIDE DEF T
  <2> QED
    BY <1>1, <1>2, UpTo
<1> QED
  BY <1>3

Readable(pack) == pack.readable /\ pack.version = 1 /\ pack.signatures # <<>>

LEMMA LoadsPack ==
  ASSUME NEW packs \in Seq(Pack), NEW k \in DOMAIN packs, NEW l, Loading(l, packs, Passed(packs, k, 0))
  PROVE  LET after == LoadPack(l, packs[k])
         IN  /\ Loading(after, packs, Passed(packs, k + 1, 0))
             /\ ~after.failed => ~l.failed /\ Readable(packs[k])
<1> DEFINE pack == packs[k]
           N == Len(pack.signatures)
           upto == CHOOSE upto : PackLoop(l, pack, upto, N)
           T == {n \in 0 .. N : Loading(upto[n], packs, Passed(packs, k, n))}
<1>0. pack \in Pack /\ pack.signatures \in Seq(Signature) /\ N \in Nat
  BY PackTyped
<1>1. CASE l.failed \/ ~Readable(pack)
  <2>1. ~Sound(packs)
    BY <1>1 DEF Loading, Sound, Readable
  <2>2. LoadPack(l, pack) = [l EXCEPT !.failed = TRUE]
    BY <1>1 DEF LoadPack, Readable
  <2> QED
    BY <2>1, <2>2, FailedLoad DEF Loading, IsLoad
<1>2. CASE ~l.failed /\ Readable(pack)
  <2>1. PackLoop(l, pack, upto, N)
    <3>1. \E u : PackLoop(l, pack, u, N)
      BY <1>0, PackLoops
    <3> QED
      BY <3>1
  <2>2. LoadPack(l, pack) = upto[N]
    BY <1>2 DEF LoadPack, PackLoop, Readable
  <2> HIDE DEF upto
  <2>3. 0 \in T
    BY <1>0, <2>1 DEF PackLoop
  <2>4. ASSUME NEW n \in 1 .. N, n - 1 \in T PROVE n \in T
    <3> DEFINE e == <<k, n>>
    <3>1. e \in Entry(packs) /\ EntryAt(packs, e) = Defaulted(pack.signatures[n], pack)
      <4>1. n \in DOMAIN packs[k].signatures
        BY PackTyped
      <4> QED
        BY <4>1 DEF Entry, EntryAt
    <3>2. upto[n] = LoadSignature(upto[n - 1], EntryAt(packs, e))
      <4>1. n \in 0 .. N /\ n # 0
        BY <1>0
      <4>2. upto[n] = LoadSignature(upto[n - 1], Defaulted(pack.signatures[n], pack))
        BY <2>1, <4>1 DEF PackLoop
      <4> QED
        BY <3>1, <4>2
    <3>3. e \notin Passed(packs, k, n - 1)
      BY <1>0 DEF Passed
    <3>4. Passed(packs, k, n) = Passed(packs, k, n - 1) \cup {e}
      <4>1. ASSUME NEW d \in Entry(packs)
            PROVE  d[2] \in Nat /\ (d[1] = k /\ d[2] = n => d = e)
        <5>1. d = <<d[1], d[2]>> /\ d[1] \in DOMAIN packs /\ d[2] \in DOMAIN packs[d[1]].signatures
          BY EntryKeepsId
        <5>2. packs[d[1]].signatures \in Seq(Signature)
          BY <5>1, PackTyped
        <5> QED
          BY <5>1, <5>2
      <4>2. n \in Nat /\ e[1] = k /\ e[2] = n
        BY <1>0
      <4>3. ASSUME NEW d \in Entry(packs)
            PROVE  (d[1] = k /\ d[2] <= n) <=> (d[1] = k /\ d[2] <= n - 1) \/ d = e
        <5> HIDE DEF e
        <5> QED
          BY <4>1, <4>2
      <4> HIDE DEF e
      <4>4. ASSUME NEW d \in Entry(packs)
            PROVE  d \in Passed(packs, k, n) <=> d \in Passed(packs, k, n - 1) \cup {e}
        BY <4>2, <4>3 DEF Passed
      <4>5. /\ Passed(packs, k, n) \subseteq Entry(packs)
            /\ Passed(packs, k, n - 1) \cup {e} \subseteq Entry(packs)
        BY <3>1 DEF Passed
      <4> QED
        BY <4>4, <4>5
    <3>5. Passed(packs, k, n - 1) \in SUBSET Entry(packs)
      BY DEF Passed
    <3>6. Loading(upto[n - 1], packs, Passed(packs, k, n - 1))
      BY <2>4
    <3>7. Loading(upto[n], packs, Passed(packs, k, n))
      <4> HIDE DEF e
      <4> QED
        BY <3>1, <3>2, <3>3, <3>4, <3>5, <3>6, LoadsEntry
    <3> QED
      BY <3>7
  <2>5. N \in T
    <3> HIDE DEF T, N
    <3>1. 0 .. N \subseteq T
      BY <1>0, <2>3, <2>4, UpTo
    <3> QED
      BY <1>0, <3>1
  <2>6. Passed(packs, k, N) = Passed(packs, k + 1, 0)
    <3>1. ASSUME NEW d \in Entry(packs)
          PROVE  d[1] \in Nat /\ d[2] \in Nat /\ d[2] > 0 /\ (d[1] = k => d[2] <= N)
      <4>1. d[1] \in DOMAIN packs /\ d[2] \in DOMAIN packs[d[1]].signatures
        BY EntryKeepsId
      <4>2. packs[d[1]].signatures \in Seq(Signature) /\ d[1] \in Nat
        BY <4>1, PackTyped
      <4> QED
        BY <4>1, <4>2
    <3> QED
      BY <1>0, <3>1 DEF Passed
  <2> QED
    BY <1>2, <2>2, <2>5, <2>6
<1> QED
  BY <1>1, <1>2

FSLoop(packs, upto, N) ==
  upto = [n \in 0 .. N |-> IF n = 0 THEN EmptyLoad ELSE LoadPack(upto[n - 1], packs[n])]

LEMMA FSLoops ==
  ASSUME NEW packs, NEW N \in Nat
  PROVE  \E upto : FSLoop(packs, upto, N)
<1> DEFINE T == {n \in 0 .. N : \E upto : FSLoop(packs, upto, n)}
<1>1. 0 \in T
  <2>1. FSLoop(packs, [n \in 0 .. 0 |-> EmptyLoad], 0)
    BY DEF FSLoop
  <2> QED
    BY <2>1
<1>2. ASSUME NEW n \in 1 .. N, n - 1 \in T PROVE n \in T
  <2>1. PICK upto : FSLoop(packs, upto, n - 1)
    BY <1>2
  <2> DEFINE more == [m \in 0 .. n |-> IF m = n THEN LoadPack(upto[n - 1], packs[n]) ELSE upto[m]]
  <2>2. FSLoop(packs, more, n)
    <3>1. ASSUME NEW m \in 0 .. n
          PROVE  more[m] = IF m = 0 THEN EmptyLoad ELSE LoadPack(more[m - 1], packs[m])
      <4>1. CASE m = n
        BY <4>1
      <4>2. CASE m # n
        BY <2>1, <4>2 DEF FSLoop
      <4> QED
        BY <4>1, <4>2
    <3> QED
      BY <3>1 DEF FSLoop
  <2> QED
    BY <2>2
<1>3. 0 .. N \subseteq T
  <2> HIDE DEF T
  <2> QED
    BY <1>1, <1>2, UpTo
<1> QED
  BY <1>3

LEMMA EmptyGathers ==
  ASSUME NEW packs
  PROVE  Loading(EmptyLoad, packs, {}) /\ ~EmptyLoad.failed
<1>1. EmptyLoad.sigs = <<>> /\ EmptyLoad.disabled = <<>> /\ EmptyLoad.seen = {}
      /\ EmptyLoad.failed = FALSE /\ IsLoad(EmptyLoad)
  BY DEF EmptyLoad, IsLoad
<1>2. ToSet(<<>>) = {} /\ <<>> \in Seq({}) /\ Len(<<>>) = 0 /\ IsFiniteSet({}) /\ Cardinality({}) = 0
  BY FS_EmptySet DEF ToSet
<1> HIDE DEF EmptyLoad
<1>3. Gathered(EmptyLoad, packs, {})
  BY <1>1, <1>2 DEF Gathered
<1> QED
  BY <1>1, <1>3 DEF Loading

\* Everything that LoadFS has gathered when no error ended it.
LEMMA LoadsFS ==
  ASSUME NEW packs \in Seq(Pack)
  PROVE  LET l == LoadFS(packs)
         IN  /\ l.failed \in BOOLEAN
             /\ l.failed <=> ~(packs # <<>> /\ Sound(packs))
             /\ ~l.failed => Gathered(l, packs, Entry(packs))
<1> DEFINE N == Len(packs)
           upto == CHOOSE upto : FSLoop(packs, upto, N)
           T == {n \in 0 .. N : /\ Loading(upto[n], packs, Passed(packs, n + 1, 0))
                                /\ ~upto[n].failed => \A k \in 1 .. n : Readable(packs[k])}
           last == upto[N]
           l == LoadFS(packs)
<1>0. N \in Nat /\ DOMAIN packs = 1 .. N
  OBVIOUS
<1>1. FSLoop(packs, upto, N)
  <2>1. \E u : FSLoop(packs, u, N)
    BY <1>0, FSLoops
  <2> QED
    BY <2>1
<1>2. l = [last EXCEPT !.failed = @ \/ packs = <<>> \/ last.sigs = <<>>]
  BY DEF LoadFS, FSLoop
<1> HIDE DEF upto
<1>3. 0 \in T
  <2>1. Passed(packs, 0 + 1, 0) = {}
    BY EntryKeepsId, PackTyped DEF Passed
  <2>2. upto[0] = EmptyLoad
    BY <1>0, <1>1 DEF FSLoop
  <2>3. Loading(upto[0], packs, Passed(packs, 0 + 1, 0))
    BY <2>1, <2>2, EmptyGathers
  <2>4. 1 .. 0 = {} /\ 0 \in 0 .. N
    BY <1>0
  <2> QED
    BY <2>3, <2>4
<1>4. ASSUME NEW n \in 1 .. N, n - 1 \in T PROVE n \in T
  <2>0. n \in 0 .. N /\ n # 0 /\ n \in DOMAIN packs /\ (n - 1) + 1 = n
    BY <1>0
  <2>1. upto[n] = LoadPack(upto[n - 1], packs[n])
    BY <1>1, <2>0 DEF FSLoop
  <2>2. Loading(upto[n - 1], packs, Passed(packs, n, 0))
    BY <1>4, <2>0
  <2>3. /\ Loading(upto[n], packs, Passed(packs, n + 1, 0))
        /\ ~upto[n].failed => ~upto[n - 1].failed /\ Readable(packs[n])
    BY <2>0, <2>1, <2>2, LoadsPack
  <2>4. ~upto[n].failed => \A k \in 1 .. n : Readable(packs[k])
    BY <1>0, <1>4, <2>3
  <2> QED
    BY <2>0, <2>3, <2>4
<1>5. N \in T
  <2> HIDE DEF T, N
  <2>1. 0 .. N \subseteq T
    BY <1>0, <1>3, <1>4, UpTo
  <2> QED
    BY <1>0, <2>1
<1>6. Passed(packs, N + 1, 0) = Entry(packs)
  BY <1>0, EntryKeepsId, PackTyped DEF Passed
<1>7. /\ Loading(last, packs, Entry(packs))
      /\ ~last.failed => \A k \in DOMAIN packs : Readable(packs[k])
  BY <1>0, <1>5, <1>6
<1> HIDE DEF last
<1>8. /\ l.failed \in BOOLEAN /\ (l.failed <=> (last.failed \/ packs = <<>> \/ last.sigs = <<>>))
      /\ l.sigs = last.sigs /\ l.disabled = last.disabled /\ l.seen = last.seen
  BY <1>2, <1>7 DEF Loading, IsLoad
<1> HIDE DEF l
<1> DEFINE Goal == /\ l.failed \in BOOLEAN
                   /\ l.failed <=> ~(packs # <<>> /\ Sound(packs))
                   /\ ~l.failed => Gathered(l, packs, Entry(packs))
<1>9. ASSUME last.failed PROVE Goal
  BY <1>7, <1>8, <1>9 DEF Loading
<1>10. ASSUME ~last.failed PROVE Goal
  <2>1. Gathered(last, packs, Entry(packs))
    BY <1>7, <1>10 DEF Loading
  <2>2. Gathered(l, packs, Entry(packs))
    BY <1>8, <2>1 DEF Gathered
  <2>3. last.sigs = <<>> <=> ~(\E e \in Entry(packs) : ~EntryAt(packs, e).disabled)
    <3>1. last.sigs = <<>> <=> ToSet(last.sigs) = {}
      <4>1. last.sigs \in Seq(ToSet(last.sigs))
        BY <2>1 DEF Gathered
      <4>2. last.sigs # <<>> => 1 \in DOMAIN last.sigs
        BY <4>1
      <4>3. last.sigs = <<>> => DOMAIN last.sigs = {}
        OBVIOUS
      <4> QED
        BY <4>2, <4>3 DEF ToSet
    <3> QED
      BY <2>1, <3>1 DEF Gathered
  <2>4. Sound(packs) <=> \E e \in Entry(packs) : ~EntryAt(packs, e).disabled
    BY <1>7, <1>10, <2>1 DEF Gathered, Sound, Readable
  <2> QED
    BY <1>8, <1>10, <2>2, <2>3, <2>4
<1>11. Goal
  BY <1>9, <1>10
<1> QED
  <2> USE DEF l
  <2> QED
    BY <1>11

-----------------------------------------------------------------------------
(***************************************************************************)
(* The inductive invariant.  Of a detector, what it owes for the step that *)
(* it has reached; of the sightings and the findings, what they owe each   *)
(* other at any time; and of the command, which of its phases may have     *)
(* changed what.                                                           *)
(***************************************************************************)
Shape ==
  /\ scan.sigs \in Seq(ToSet(scan.sigs))
  /\ DOMAIN pc = Instance /\ DOMAIN pending = Instance /\ DOMAIN tenantID = Instance
  /\ \A i \in Instance : pending[i] \subseteq Groups(scan)
  /\ IsFiniteSet(warnings)

Heard ==
  /\ \A q \in DOMAIN answer : answer[q] \in Answer /\ answer[q] # Failed
  /\ \A s \in seen : s = <<s[1], s[2], s[3]>>

GroupSettled(g) ==
  \/ <<"dns", g>> \in warnings
  \/ g \in DOMAIN answer /\ GroupReports(g, answer[g]) \subseteq reports

DmarcSettled ==
  LET question == <<"txt", DmarcName>> IN
  \/ <<"dmarc", question>> \in warnings
  \/ /\ question \in DOMAIN answer
     /\ \A host \in DmarcHosts(answer[question]) : DmarcReports(host) \subseteq reports

\* A detector that asks more than once: what it has asked for when it is where it is.
AskedForPolicy(i) ==
  /\ pc[i] = "running" => Asked(i, "sts") = {}
  /\ pc[i] \in {"policy", "done"} => Asked(i, "sts") # {}
  /\ pc[i] = "done" =>
       \A s \in Asked(i, "sts") : Tagged(s[2], "v=stsv1") # {} => Asked(i, "policy") # {}

AskedForTenant(i) ==
  /\ pc[i] \in {"realm", "domains", "done"} =>
       Asked(i, "openid") # {} /\ (tenantID[i] <=> TenantKnown(i))
  /\ pc[i] \in {"domains", "done"} => Asked(i, "realm") # {}
  /\ pc[i] = "done" => Asked(i, "domains") # {}
  /\ pc[i] # "done" => Asked(i, "domains") = {}
  /\ pc[i] = "running" => Asked(i, "openid") = {}
  /\ \A s \in Asked(i, "domains") : DomainReports(s[2], TenantKnown(i)) \subseteq reports

Owed(i) ==
  /\ scan.detectors[i] = "dns" =>
       /\ \A g \in Groups(scan) \ pending[i] : GroupSettled(g)
       /\ pc[i] = "done" => pending[i] = {}
  /\ scan.detectors[i] = "dmarc" /\ pc[i] = "done" => DmarcSettled
  /\ scan.detectors[i] = "bimi" /\ pc[i] = "done" => Asked(i, "bimi") # {}
  /\ scan.detectors[i] = "mta-sts" => AskedForPolicy(i)
  /\ scan.detectors[i] = "tenant" => AskedForTenant(i)

\* What a sighting leads to is reported, or warned of, in the same step.
SightReported(s) ==
  /\ s[1] = "bimi" => \A host \in BimiHosts(s[2]) : BimiReport(host) \subseteq reports
  /\ s[1] = "policy" =>
       /\ Authorised(s[2]) \subseteq reports
       /\ Kind(s[2]) # "ok" => <<"mta-sts", StsName>> \in warnings
  /\ s[1] = "openid" =>
       /\ TenantReports(s[2]) \subseteq reports
       /\ s[2] = Failed => <<"tenant", Domain>> \in warnings
  /\ s[1] = "realm" => RealmReports(s[2]) \subseteq reports

PostureInv ==
  /\ Shape /\ Heard
  /\ \A i \in Instance : Owed(i)
  /\ \A s \in seen : SightReported(s)
  /\ PostureBacked

LoadInv ==
  /\ phase = "parsed" => load = EmptyLoad
  /\ phase \notin {"parsed", "ended"} => load = LoadFS(Packs[Directory]) /\ ~load.failed
  /\ load = EmptyLoad \/ load = LoadFS(Packs[Directory])

Early == {"parsed", "loaded", "checked", "opened", "armed"}

Untouched ==
  /\ scan = Idle /\ pc = <<>> /\ pending = <<>> /\ tenantID = <<>> /\ answer = <<>>
  /\ reports = {} /\ warnings = {} /\ seen = {}

CommandInv ==
  /\ TypeOK
  /\ exit = NoExit <=> phase # "ended"
  /\ phase \in Early => Untouched
  /\ phase \in {"armed", "scanning", "reporting"} => handler # "default"
  /\ phase \in {"checked", "opened", "armed", "scanning", "reporting"} =>
       Selected(command.only, command.skip) # NoDetectors
  /\ phase \in {"scanning", "reporting"} =>
       scan.detectors = Running(Selected(command.only, command.skip))

Returned == result = [findings |-> reports, errors |-> warnings] /\ DetectorsDone

ReportInv ==
  /\ phase = "reporting" => Returned
  /\ output = "complete" => phase = "ended" /\ Returned /\ shown = ReportOf
  /\ phase \in Early \cup {"scanning", "reporting"} => output \notin {"partial", "complete"}
  /\ FoundIsShown

Inv == LoadInv /\ CommandInv /\ ReportInv /\ PostureInv

-----------------------------------------------------------------------------
(***************************************************************************)
(* The steps of a detector: what every one of them leaves as it is.        *)
(***************************************************************************)
Grows ==
  /\ scan' = scan
  /\ \A q \in DOMAIN answer : q \in DOMAIN answer' /\ answer'[q] = answer[q]
  /\ reports \subseteq reports' /\ warnings \subseteq warnings' /\ seen \subseteq seen'

Only(i) ==
  /\ \A j \in Instance \ {i} :
       pc'[j] = pc[j] /\ pending'[j] = pending[j] /\ tenantID'[j] = tenantID[j]
  /\ \A s \in seen' \ seen : s[3] = i

LEMMA Learned ==
  ASSUME Heard, NEW q, NEW a \in Outcomes(q), Learn(q, a)
  PROVE  /\ \A p \in DOMAIN answer : p \in DOMAIN answer' /\ answer'[p] = answer[p]
         /\ \A p \in DOMAIN answer' : answer'[p] \in Answer /\ answer'[p] # Failed
         /\ a # Failed => a \in Answer /\ q \in DOMAIN answer' /\ answer'[q] = a
<1>1. CASE a = Failed
  BY <1>1 DEF Learn, Heard
<1>2. CASE a # Failed
  <2>1. answer' = [p \in DOMAIN answer \cup {q} |-> IF p = q THEN a ELSE answer[p]]
    BY <1>2 DEF Learn
  <2>2. a \in Answer /\ (q \in DOMAIN answer => answer[q] = a)
    BY <1>2 DEF Outcomes, Heard
  <2> QED
    BY <1>2, <2>1, <2>2 DEF Heard
<1> QED
  BY <1>1, <1>2

LEMMA Saw ==
  ASSUME NEW i, NEW step, NEW page, See(i, step, page)
  PROVE  /\ seen \subseteq seen' /\ <<step, page, i>> \in seen'
         /\ \A s \in seen' \ seen : s = <<step, page, i>>
         /\ Asked(i, step)' = Asked(i, step) \cup {<<step, page, i>>}
         /\ \A other : other # step => Asked(i, other)' = Asked(i, other)
<1>1. seen' = seen \cup {<<step, page, i>>}
  BY DEF See
<1> DEFINE new == <<step, page, i>>
<1>2. new[1] = step /\ new[3] = i
  OBVIOUS
<1> HIDE DEF new
<1>3. seen' = seen \cup {new}
  BY <1>1 DEF new
<1>4. Asked(i, step)' = Asked(i, step) \cup {new}
  BY <1>2, <1>3 DEF Asked
<1>5. ASSUME NEW other, other # step PROVE Asked(i, other)' = Asked(i, other)
  BY <1>2, <1>3, <1>5 DEF Asked
<1> QED
  BY <1>3, <1>4, <1>5 DEF new

LEMMA Warned ==
  ASSUME NEW a, NEW w, WarnIfFailed(a, w), IsFiniteSet(warnings)
  PROVE  warnings \subseteq warnings' /\ IsFiniteSet(warnings') /\ (a = Failed => w \in warnings')
<1>1. IsFiniteSet(warnings \cup {w})
  BY FS_AddElement
<1> QED
  BY <1>1 DEF WarnIfFailed

LEMMA Went ==
  ASSUME Shape, NEW i \in Instance, NEW label, Goto(i, label)
  PROVE  /\ DOMAIN pc' = Instance /\ pc'[i] = label
         /\ \A j \in Instance \ {i} : pc'[j] = pc[j]
BY DEF Goto, Shape

Effect(i) == Grows /\ Only(i) /\ Shape' /\ Heard'

LEMMA GroupsEffect ==
  ASSUME Shape, Heard, NEW i \in Instance, NEW g \in pending[i], ResolveGroup(i, g)
  PROVE  Effect(i)
<1>1. PICK a \in Outcomes(g) : /\ Learn(g, a) /\ WarnIfFailed(a, <<"dns", g>>)
                               /\ reports' = reports \cup GroupReports(g, a)
  BY DEF ResolveGroup
<1>2. /\ pending' = [pending EXCEPT ![i] = @ \ {g}]
      /\ scan' = scan /\ pc' = pc /\ tenantID' = tenantID /\ seen' = seen
  BY DEF ResolveGroup
<1>3. warnings \subseteq warnings' /\ IsFiniteSet(warnings')
  BY <1>1, Warned DEF Shape
<1>4. Grows
  BY <1>1, <1>2, <1>3, Learned DEF Grows
<1>5. Only(i)
  BY <1>2 DEF Only, Shape
<1>6. Shape'
  <2>1. Groups(scan)' = Groups(scan) /\ Instance' = Instance
    BY <1>2 DEF Groups, Instance
  <2> QED
    BY <1>2, <1>3, <2>1 DEF Shape
<1>7. Heard'
  BY <1>1, <1>2, Learned DEF Heard
<1> QED
  BY <1>4, <1>5, <1>6, <1>7 DEF Effect

\* The steps that ask one question or fetch one page.
LEMMA StepEffect ==
  ASSUME Shape, Heard, NEW i \in Instance, NEW label, Goto(i, label),
         scan' = scan, pending' = pending, DOMAIN tenantID' = DOMAIN tenantID,
         \A j \in Instance \ {i} : tenantID'[j] = tenantID[j],
         reports \subseteq reports',
         \/ answer' = answer
         \/ \E q : \E a \in Outcomes(q) : Learn(q, a),
         \/ seen' = seen
         \/ \E step, page : See(i, step, page),
         \/ warnings' = warnings
         \/ \E a, w : WarnIfFailed(a, w)
  PROVE  Effect(i)
<1>1. /\ \A p \in DOMAIN answer : p \in DOMAIN answer' /\ answer'[p] = answer[p]
      /\ \A p \in DOMAIN answer' : answer'[p] \in Answer /\ answer'[p] # Failed
  <2>1. CASE answer' = answer
    BY <2>1 DEF Heard
  <2>2. CASE \E q : \E a \in Outcomes(q) : Learn(q, a)
    BY <2>2, Learned
  <2> QED
    BY <2>1, <2>2
<1>2. /\ seen \subseteq seen'
      /\ \A s \in seen' \ seen : s = <<s[1], s[2], i>>
  <2>1. CASE seen' = seen
    BY <2>1
  <2>2. ASSUME NEW step, NEW page, See(i, step, page)
        PROVE  seen \subseteq seen' /\ \A s \in seen' \ seen : s = <<s[1], s[2], i>>
    <3>1. seen \subseteq seen'
      BY <2>2, Saw
    <3>2. ASSUME NEW s \in seen' \ seen PROVE s = <<s[1], s[2], i>>
      <4>1. s = <<step, page, i>>
        BY <2>2, Saw
      <4> QED
        BY <4>1
    <3> QED
      BY <3>1, <3>2
  <2> QED
    BY <2>1, <2>2
<1>3. warnings \subseteq warnings' /\ IsFiniteSet(warnings')
  <2>1. CASE warnings' = warnings
    BY <2>1 DEF Shape
  <2>2. CASE \E a, w : WarnIfFailed(a, w)
    BY <2>2, Warned DEF Shape
  <2> QED
    BY <2>1, <2>2
<1>4. Grows
  BY <1>1, <1>2, <1>3 DEF Grows
<1>5. Only(i)
  BY <1>2, Went DEF Only
<1>6. Shape'
  <2>1. Groups(scan)' = Groups(scan) /\ Instance' = Instance
    BY DEF Groups, Instance
  <2>2. DOMAIN pc' = Instance
    BY Went
  <2> QED
    BY <1>3, <2>1, <2>2 DEF Shape
<1>7. Heard'
  <2>1. ASSUME NEW s \in seen' PROVE s = <<s[1], s[2], s[3]>>
    <3>1. CASE s \in seen
      BY <3>1 DEF Heard
    <3>2. CASE s \notin seen
      BY <1>2, <3>2
    <3> QED
      BY <3>1, <3>2
  <2> QED
    BY <1>1, <2>1 DEF Heard
<1> QED
  BY <1>4, <1>5, <1>6, <1>7 DEF Effect

LEMMA StepsEffect ==
  ASSUME Shape, Heard, NEW i \in Instance, DetectorStep(i)
  PROVE  Effect(i)
<1>1. ASSUME NEW g \in pending[i], ResolveGroup(i, g) PROVE Effect(i)
  BY <1>1, GroupsEffect
<1>2. CASE DnsReturns(i)
  BY <1>2, StepEffect DEF DnsReturns
<1>3. CASE Dmarc(i)
  <2>1. PICK a \in Outcomes(<<"txt", DmarcName>>) :
          /\ Learn(<<"txt", DmarcName>>, a) /\ WarnIfFailed(a, <<"dmarc", <<"txt", DmarcName>>>>)
          /\ reports \subseteq reports'
    BY <1>3 DEF Dmarc
  <2> QED
    BY <1>3, <2>1, StepEffect DEF Dmarc
<1>4. CASE Bimi(i)
  <2>1. PICK a \in Outcomes(<<"txt", BimiName>>) :
          Learn(<<"txt", BimiName>>, a) /\ See(i, "bimi", a) /\ reports \subseteq reports'
    BY <1>4 DEF Bimi
  <2> QED
    BY <1>4, <2>1, StepEffect DEF Bimi
<1>5. CASE StsRecord(i)
  <2>1. PICK a \in Outcomes(<<"txt", StsName>>), label \in {"policy", "done"} :
          Learn(<<"txt", StsName>>, a) /\ See(i, "sts", a) /\ Goto(i, label)
    BY <1>5 DEF StsRecord
  <2> QED
    BY <1>5, <2>1, StepEffect DEF StsRecord
<1>6. CASE StsPolicy(i)
  <2>1. /\ \E page : See(i, "policy", page)
        /\ \E a, w : WarnIfFailed(a, w)
        /\ reports \subseteq reports'
    BY <1>6 DEF StsPolicy
  <2> QED
    BY <1>6, <2>1, StepEffect DEF StsPolicy
<1>7. CASE OpenID(i)
  <2>1. /\ \E page : See(i, "openid", page)
        /\ \E a, w : WarnIfFailed(a, w)
        /\ reports \subseteq reports' /\ DOMAIN tenantID' = DOMAIN tenantID
        /\ \A j \in Instance \ {i} : tenantID'[j] = tenantID[j]
    BY <1>7 DEF OpenID, Shape
  <2> QED
    BY <1>7, <2>1, StepEffect DEF OpenID
<1>8. CASE UserRealm(i)
  <2>1. (\E page : See(i, "realm", page)) /\ reports \subseteq reports'
    BY <1>8 DEF UserRealm
  <2> QED
    BY <1>8, <2>1, StepEffect DEF UserRealm
<1>9. CASE FederatedDomains(i)
  <2>1. (\E page : See(i, "domains", page)) /\ reports \subseteq reports'
    BY <1>9 DEF FederatedDomains
  <2> QED
    BY <1>9, <2>1, StepEffect DEF FederatedDomains
<1> QED
  BY <1>1, <1>2, <1>3, <1>4, <1>5, <1>6, <1>7, <1>8, <1>9 DEF DetectorStep

-----------------------------------------------------------------------------
(***************************************************************************)
(* What was reported, learnt or warned of stays so.                        *)
(***************************************************************************)
LEMMA SameScan ==
  ASSUME scan' = scan
  PROVE  /\ Instance' = Instance /\ Groups(scan)' = Groups(scan)
         /\ \A t : ByType(t)' = ByType(t)
         /\ \A g, a : GroupReports(g, a)' = GroupReports(g, a)
         /\ \A host : DmarcReports(host)' = DmarcReports(host)
         /\ \A host : MatchingRua(host)' = MatchingRua(host)
         /\ \A host : Attributions(host)' = Attributions(host) /\ Hosting(host)' = Hosting(host)
         /\ \A host : BimiReport(host)' = BimiReport(host)
         /\ \A page : Authorised(page)' = Authorised(page)
         /\ \A page : RealmReports(page)' = RealmReports(page)
<1>1. Instance' = Instance /\ Groups(scan)' = Groups(scan)
  BY DEF Instance, Groups
<1>2. ASSUME NEW t PROVE ByType(t)' = ByType(t)
  BY DEF ByType
<1>3. ASSUME NEW g, NEW a PROVE GroupReports(g, a)' = GroupReports(g, a)
  BY DEF GroupReports, SigsOf, ByType
<1>4. ASSUME NEW host
      PROVE  MatchingRua(host)' = MatchingRua(host) /\ DmarcReports(host)' = DmarcReports(host)
  BY DEF DmarcReports, MatchingRua, ByType
<1>5. ASSUME NEW host
      PROVE  /\ Attributions(host)' = Attributions(host) /\ Attributed(host)' = Attributed(host)
             /\ Hosting(host)' = Hosting(host)
  BY DEF Attributions, Attributed, Hosting
<1>6. ASSUME NEW host PROVE BimiReport(host)' = BimiReport(host)
  BY <1>5 DEF BimiReport
<1>7. ASSUME NEW page PROVE Authorised(page)' = Authorised(page)
  BY DEF Authorised, ByType
<1>8. ASSUME NEW page PROVE RealmReports(page)' = RealmReports(page)
  <2> DEFINE host == Head(page.hosts)
  <2>1. Attributions(host)' = Attributions(host) /\ Attributed(host)' = Attributed(host)
    BY <1>5
  <2>2. Provider(page)' = Provider(page)
    <3>1. CASE page.hosts = <<>>
      BY <3>1 DEF Provider
    <3>2. CASE page.hosts # <<>> /\ Attributions(host) = {}
      BY <2>1, <3>2 DEF Provider
    <3>3. CASE page.hosts # <<>> /\ Attributions(host) # {}
      BY <2>1, <3>3 DEF Provider
    <3> QED
      BY <3>1, <3>2, <3>3
  <2> QED
    BY <2>2 DEF RealmReports
<1> QED
  BY <1>1, <1>2, <1>3, <1>4, <1>5, <1>6, <1>7, <1>8

LEMMA SettledStays ==
  ASSUME Grows
  PROVE  /\ \A g : GroupSettled(g) => GroupSettled(g)'
         /\ DmarcSettled => DmarcSettled'
         /\ \A s : SightReported(s) => SightReported(s)'
<1>1. scan' = scan
  BY DEF Grows
<1>2. ASSUME NEW g, GroupSettled(g) PROVE GroupSettled(g)'
  BY <1>1, <1>2, SameScan DEF Grows, GroupSettled
<1>3. ASSUME DmarcSettled PROVE DmarcSettled'
  BY <1>1, <1>3, SameScan DEF Grows, DmarcSettled
<1>4. ASSUME NEW s, SightReported(s) PROVE SightReported(s)'
  <2>1. s[1] = "bimi" => \A host \in BimiHosts(s[2]) : BimiReport(host)' \subseteq reports'
    BY <1>1, <1>4, SameScan DEF Grows, SightReported
  <2>2. s[1] = "realm" => RealmReports(s[2])' \subseteq reports'
    BY <1>1, <1>4, SameScan DEF Grows, SightReported
  <2>3. s[1] = "openid" =>
          /\ TenantReports(s[2]) \subseteq reports'
          /\ s[2] = Failed => <<"tenant", Domain>> \in warnings'
    BY <1>4 DEF Grows, SightReported
  <2>4. s[1] = "policy" =>
          /\ Authorised(s[2])' \subseteq reports'
          /\ Kind(s[2]) # "ok" => <<"mta-sts", StsName>> \in warnings'
    BY <1>1, <1>4, SameScan DEF Grows, SightReported
  <2> QED
    BY <2>1, <2>2, <2>3, <2>4 DEF SightReported
<1> QED
  BY <1>2, <1>3, <1>4

LEMMA OthersOwed ==
  ASSUME NEW i \in Instance, Grows, Only(i), NEW j \in Instance \ {i}, Owed(j)
  PROVE  Owed(j)'
<1>1. /\ scan' = scan /\ pc'[j] = pc[j] /\ pending'[j] = pending[j]
      /\ Groups(scan)' = Groups(scan)
  BY SameScan DEF Grows, Only
<1>2. /\ \A step : Asked(j, step)' = Asked(j, step)
      /\ TenantKnown(j)' = TenantKnown(j) /\ tenantID'[j] = tenantID[j]
  <2>1. \A step : Asked(j, step)' = Asked(j, step)
    BY DEF Asked, Grows, Only
  <2> QED
    BY <2>1 DEF TenantKnown, Only
<1>3. scan.detectors[j] = "dns" =>
        /\ \A g \in Groups(scan)' \ pending'[j] : GroupSettled(g)'
        /\ pc'[j] = "done" => pending'[j] = {}
  BY <1>1, SettledStays DEF Owed
<1>4. scan.detectors[j] = "dmarc" /\ pc'[j] = "done" => DmarcSettled'
  BY <1>1, SettledStays DEF Owed
<1>5. AskedForPolicy(j) => AskedForPolicy(j)'
  BY <1>1, <1>2 DEF AskedForPolicy
<1>6. AskedForTenant(j) => AskedForTenant(j)'
  BY <1>1, <1>2 DEF AskedForTenant, Grows
<1> QED
  BY <1>1, <1>2, <1>3, <1>4, <1>5, <1>6 DEF Owed

LEMMA ReadsNothing ==
  /\ Records(Failed) = <<>> /\ ToSet(Records(Failed)) = {}
  /\ \A tag : Tagged(Failed, tag) = {}
  /\ DmarcHosts(Failed) = {} /\ BimiHosts(Failed) = {}
<1>1. Records(Failed) = <<>> /\ DOMAIN Records(Failed) = {} /\ ToSet(Records(Failed)) = {}
  BY DEF Records, ToSet
<1>2. ASSUME NEW tag PROVE Tagged(Failed, tag) = {}
  BY <1>1 DEF Tagged
<1>3. DmarcHosts(Failed) = {}
  BY <1>2 DEF DmarcHosts
<1>4. BimiHosts(Failed) = {}
  BY <1>2 DEF BimiHosts
<1> QED
  BY <1>1, <1>2, <1>3, <1>4

\* What the detector that takes the step owes after it.
LEMMA OwnOwed ==
  ASSUME Shape, Heard, NEW i \in Instance, DetectorStep(i), Effect(i), Owed(i)
  PROVE  Owed(i)'
<1>0. scan' = scan /\ Groups(scan)' = Groups(scan) /\ Grows /\ Only(i)
  BY SameScan DEF Effect, Grows
<1> DEFINE Dns == /\ \A g \in Groups(scan) \ pending'[i] : GroupSettled(g)'
                  /\ pc'[i] = "done" => pending'[i] = {}
<1>1. ASSUME NEW g \in pending[i], ResolveGroup(i, g) PROVE Owed(i)'
  <2>1. scan.detectors[i] = "dns" /\ pc' = pc /\ pending' = [pending EXCEPT ![i] = @ \ {g}]
    BY <1>1 DEF ResolveGroup, Is
  <2>2. PICK a \in Outcomes(g) : /\ Learn(g, a) /\ WarnIfFailed(a, <<"dns", g>>)
                                 /\ reports' = reports \cup GroupReports(g, a)
    BY <1>1 DEF ResolveGroup
  <2>3. GroupSettled(g)'
    <3>1. CASE a = Failed
      BY <2>2, <3>1, Warned DEF GroupSettled, Shape
    <3>2. CASE a # Failed
      <4>1. g \in DOMAIN answer' /\ answer'[g] = a
        BY <2>2, <3>2, Learned
      <4> QED
        BY <1>0, <2>2, <4>1, SameScan DEF GroupSettled
    <3> QED
      BY <3>1, <3>2
  <2>4. pending'[i] = pending[i] \ {g}
    BY <2>1 DEF Shape
  <2>5. Dns
    BY <1>0, <1>1, <2>1, <2>3, <2>4, SettledStays DEF Owed
  <2> QED
    BY <1>0, <2>1, <2>5 DEF Owed
<1>2. CASE DnsReturns(i)
  <2>1. scan.detectors[i] = "dns" /\ pending' = pending /\ pending[i] = {}
    BY <1>2 DEF DnsReturns, Is
  <2>2. Dns
    BY <1>0, <2>1, SettledStays DEF Owed
  <2> QED
    BY <1>0, <2>1, <2>2 DEF Owed
<1>3. CASE Dmarc(i)
  <2> DEFINE question == <<"txt", DmarcName>>
  <2>1. scan.detectors[i] = "dmarc"
    BY <1>3 DEF Dmarc, Is
  <2>2. PICK a \in Outcomes(question) :
          /\ Learn(question, a) /\ WarnIfFailed(a, <<"dmarc", question>>)
          /\ reports' = reports \cup UNION {DmarcReports(host) : host \in DmarcHosts(a)}
    BY <1>3 DEF Dmarc
  <2>3. DmarcSettled'
    <3>1. CASE a = Failed
      <4>1. <<"dmarc", question>> \in warnings'
        BY <2>2, <3>1, Warned DEF Shape
      <4> QED
        BY <4>1 DEF DmarcSettled
    <3>2. CASE a # Failed
      <4>1. question \in DOMAIN answer' /\ answer'[question] = a
        BY <2>2, <3>2, Learned
      <4>2. \A host \in DmarcHosts(a) : DmarcReports(host)' \subseteq reports'
        BY <1>0, <2>2, SameScan
      <4> QED
        BY <4>1, <4>2 DEF DmarcSettled
    <3> QED
      BY <3>1, <3>2
  <2> QED
    BY <1>0, <2>1, <2>3 DEF Owed
<1>4. CASE Bimi(i)
  <2>1. PICK a : scan.detectors[i] = "bimi" /\ See(i, "bimi", a)
    BY <1>4 DEF Bimi, Is
  <2>2. <<"bimi", a, i>> \in Asked(i, "bimi")'
    BY <2>1, Saw
  <2> QED
    BY <1>0, <2>1, <2>2 DEF Owed
<1>5. CASE StsRecord(i)
  <2>1. scan.detectors[i] = "mta-sts" /\ Asked(i, "sts") = {}
    BY <1>5 DEF StsRecord, Is, Owed, AskedForPolicy
  <2>2. PICK a \in Outcomes(<<"txt", StsName>>) :
          /\ See(i, "sts", a)
          /\ Goto(i, IF Tagged(a, "v=stsv1") # {} THEN "policy" ELSE "done")
    BY <1>5 DEF StsRecord
  <2>3. pc'[i] = IF Tagged(a, "v=stsv1") # {} THEN "policy" ELSE "done"
    BY <2>2, Went
  <2>4. Asked(i, "sts")' # {} /\ \A s \in Asked(i, "sts")' : s[2] = a
    <3> DEFINE new == <<"sts", a, i>>
    <3>1. new[2] = a /\ Asked(i, "sts")' = Asked(i, "sts") \cup {new}
      BY <2>2, Saw
    <3> HIDE DEF new
    <3> QED
      BY <2>1, <3>1
  <2>5. AskedForPolicy(i)'
    BY <2>3, <2>4 DEF AskedForPolicy
  <2> QED
    BY <1>0, <2>1, <2>5 DEF Owed
<1>6. CASE StsPolicy(i)
  <2>1. scan.detectors[i] = "mta-sts" /\ Asked(i, "sts") # {}
    BY <1>6 DEF StsPolicy, Is, Owed, AskedForPolicy
  <2>2. PICK page : See(i, "policy", page)
    BY <1>6 DEF StsPolicy
  <2>3. pc'[i] = "done" /\ Asked(i, "policy")' # {} /\ Asked(i, "sts")' = Asked(i, "sts")
    <3>1. pc'[i] = "done"
      BY <1>6, Went DEF StsPolicy
    <3>2. <<"policy", page, i>> \in Asked(i, "policy")'
      BY <2>2, Saw
    <3>3. Asked(i, "sts")' = Asked(i, "sts")
      BY <2>2, Saw, ZenonT(20)
    <3> QED
      BY <3>1, <3>2, <3>3
  <2>4. AskedForPolicy(i)'
    BY <2>1, <2>3 DEF AskedForPolicy
  <2> QED
    BY <1>0, <2>1, <2>4 DEF Owed
<1>7. CASE OpenID(i)
  <2>1. /\ scan.detectors[i] = "tenant" /\ Asked(i, "openid") = {} /\ Asked(i, "domains") = {}
    BY <1>7 DEF OpenID, Is, Owed, AskedForTenant
  <2>2. PICK page : /\ See(i, "openid", page)
                    /\ tenantID' = [tenantID EXCEPT ![i] = Kind(page) = "tenant"]
    BY <1>7 DEF OpenID
  <2>3. pc'[i] = "realm"
    BY <1>7, Went DEF OpenID
  <2>4. /\ Asked(i, "openid")' = {<<"openid", page, i>>}
        /\ Asked(i, "domains")' = {}
    <3>1. Asked(i, "openid")' = Asked(i, "openid") \cup {<<"openid", page, i>>}
      BY <2>2, Saw, ZenonT(20)
    <3>2. Asked(i, "domains")' = Asked(i, "domains")
      BY <2>2, Saw, ZenonT(20)
    <3> QED
      BY <2>1, <3>1, <3>2
  <2>5. tenantID'[i] <=> TenantKnown(i)'
    <3>1. tenantID'[i] = (Kind(page) = "tenant")
      BY <2>2 DEF Shape
    <3>2. TenantKnown(i)' <=> Kind(page) = "tenant"
      <4> DEFINE new == <<"openid", page, i>>
      <4>1. new[2] = page /\ Asked(i, "openid")' = {new}
        BY <2>4
      <4> HIDE DEF new
      <4> QED
        BY <4>1 DEF TenantKnown
    <3> QED
      BY <3>1, <3>2
  <2>6. AskedForTenant(i)'
    BY <2>3, <2>4, <2>5 DEF AskedForTenant
  <2> QED
    BY <1>0, <2>1, <2>6 DEF Owed
<1>8. CASE UserRealm(i)
  <2>1. /\ scan.detectors[i] = "tenant" /\ Asked(i, "openid") # {} /\ Asked(i, "domains") = {}
        /\ tenantID[i] <=> TenantKnown(i)
    BY <1>8 DEF UserRealm, Is, Owed, AskedForTenant
  <2>2. PICK page : See(i, "realm", page)
    BY <1>8 DEF UserRealm
  <2>3. pc'[i] = "domains" /\ tenantID' = tenantID
    BY <1>8, Went DEF UserRealm
  <2>4. /\ Asked(i, "realm")' # {} /\ Asked(i, "domains")' = {}
        /\ Asked(i, "openid")' = Asked(i, "openid")
    <3> DEFINE new == <<"realm", page, i>>
    <3>1. Asked(i, "realm")' = Asked(i, "realm") \cup {new}
      BY <2>2, Saw, ZenonT(20)
    <3>2. Asked(i, "domains")' = Asked(i, "domains")
      BY <2>2, Saw, ZenonT(20)
    <3>3. Asked(i, "openid")' = Asked(i, "openid")
      BY <2>2, Saw, ZenonT(20)
    <3> HIDE DEF new
    <3> QED
      BY <2>1, <3>1, <3>2, <3>3
  <2>5. AskedForTenant(i)'
    BY <2>1, <2>3, <2>4 DEF AskedForTenant, TenantKnown
  <2> QED
    BY <1>0, <2>1, <2>5 DEF Owed
<1>9. CASE FederatedDomains(i)
  <2>1. /\ scan.detectors[i] = "tenant" /\ Asked(i, "openid") # {} /\ Asked(i, "realm") # {}
        /\ Asked(i, "domains") = {} /\ (tenantID[i] <=> TenantKnown(i))
    BY <1>9 DEF FederatedDomains, Is, Owed, AskedForTenant
  <2>2. PICK page : /\ See(i, "domains", page)
                    /\ reports' = reports \cup DomainReports(page, tenantID[i])
    BY <1>9 DEF FederatedDomains
  <2>3. pc'[i] = "done" /\ tenantID' = tenantID
    BY <1>9, Went DEF FederatedDomains
  <2>4. /\ Asked(i, "domains")' = {<<"domains", page, i>>}
        /\ Asked(i, "openid")' = Asked(i, "openid") /\ Asked(i, "realm")' = Asked(i, "realm")
    <3> DEFINE new == <<"domains", page, i>>
    <3>1. Asked(i, "domains")' = Asked(i, "domains") \cup {new}
      BY <2>2, Saw, ZenonT(20)
    <3>2. Asked(i, "openid")' = Asked(i, "openid") /\ Asked(i, "realm")' = Asked(i, "realm")
      BY <2>2, Saw, ZenonT(20)
    <3> HIDE DEF new
    <3>3. Asked(i, "domains")' = {new}
      BY <2>1, <3>1
    <3> QED
      BY <3>2, <3>3, Zenon DEF new
  <2>5. TenantKnown(i)' = TenantKnown(i)
    BY <2>4 DEF TenantKnown
  <2>6. DomainReports(page, TenantKnown(i)) \subseteq reports'
    <3>1. DomainReports(page, tenantID[i]) = DomainReports(page, TenantKnown(i))
      BY <2>1 DEF DomainReports
    <3> QED
      BY <2>2, <3>1
  <2>7. AskedForTenant(i)'
    <3>1. \A s \in Asked(i, "domains")' : DomainReports(s[2], TenantKnown(i)') \subseteq reports'
      BY <2>4, <2>5, <2>6
    <3>2. Asked(i, "domains")' # {} /\ (tenantID'[i] <=> TenantKnown(i)')
      BY <2>1, <2>3, <2>4, <2>5
    <3> QED
      BY <2>1, <2>3, <2>4, <3>1, <3>2 DEF AskedForTenant
  <2> QED
    BY <1>0, <2>1, <2>7 DEF Owed
<1> QED
  BY <1>1, <1>2, <1>3, <1>4, <1>5, <1>6, <1>7, <1>8, <1>9 DEF DetectorStep

LEMMA SightsReported ==
  ASSUME Shape, Heard, NEW i \in Instance, DetectorStep(i), Effect(i),
         \A s \in seen : SightReported(s)
  PROVE  \A s \in seen' : SightReported(s)'
<1>0. scan' = scan /\ Grows
  BY DEF Effect, Grows
<1>1. ASSUME NEW s \in seen' \ seen PROVE SightReported(s)'
  <2>1. CASE Bimi(i)
    <3>1. PICK a : See(i, "bimi", a) /\
                   reports' = reports \cup UNION {BimiReport(host) : host \in BimiHosts(a)}
      BY <2>1 DEF Bimi
    <3>2. s = <<"bimi", a, i>>
      BY <1>1, <3>1, Saw
    <3>3. \A host \in BimiHosts(a) : BimiReport(host)' \subseteq reports'
      BY <1>0, <3>1, SameScan
    <3> QED
      BY <3>2, <3>3 DEF SightReported
  <2>2. CASE StsRecord(i)
    <3>1. PICK a : See(i, "sts", a)
      BY <2>2 DEF StsRecord
    <3>2. s = <<"sts", a, i>>
      BY <1>1, <3>1, Saw
    <3> QED
      BY <3>2 DEF SightReported
  <2>3. CASE StsPolicy(i)
    <3>1. PICK page :
            /\ See(i, "policy", page)
            /\ reports' = reports \cup Authorised(page)
            /\ WarnIfFailed(IF Kind(page) = "ok" THEN page ELSE Failed, <<"mta-sts", StsName>>)
      BY <2>3 DEF StsPolicy
    <3>2. s = <<"policy", page, i>>
      BY <1>1, <3>1, Saw
    <3>3. Authorised(page)' \subseteq reports'
      BY <1>0, <3>1, SameScan
    <3>4. Kind(page) # "ok" => <<"mta-sts", StsName>> \in warnings'
      BY <3>1, Warned DEF Shape
    <3> QED
      BY <3>2, <3>3, <3>4 DEF SightReported
  <2>4. CASE OpenID(i)
    <3>1. PICK page :
            /\ See(i, "openid", page) /\ WarnIfFailed(page, <<"tenant", Domain>>)
            /\ reports' = reports \cup TenantReports(page)
      BY <2>4 DEF OpenID
    <3>2. s = <<"openid", page, i>>
      BY <1>1, <3>1, Saw
    <3>3. page = Failed => <<"tenant", Domain>> \in warnings'
      BY <3>1, Warned DEF Shape
    <3> QED
      BY <3>1, <3>2, <3>3 DEF SightReported
  <2>5. CASE UserRealm(i)
    <3>1. PICK page : See(i, "realm", page) /\ reports' = reports \cup RealmReports(page)
      BY <2>5 DEF UserRealm
    <3>2. s = <<"realm", page, i>>
      BY <1>1, <3>1, Saw
    <3>3. RealmReports(page)' \subseteq reports'
      BY <1>0, <3>1, SameScan
    <3> QED
      BY <3>2, <3>3 DEF SightReported
  <2>6. CASE FederatedDomains(i)
    <3>1. PICK page : See(i, "domains", page)
      BY <2>6 DEF FederatedDomains
    <3>2. s = <<"domains", page, i>>
      BY <1>1, <3>1, Saw
    <3> QED
      BY <3>2 DEF SightReported
  <2>7. CASE DnsReturns(i) \/ Dmarc(i) \/ \E g \in pending[i] : ResolveGroup(i, g)
    BY <1>1, <2>7 DEF DnsReturns, Dmarc, ResolveGroup
  <2> QED
    BY <2>1, <2>2, <2>3, <2>4, <2>5, <2>6, <2>7 DEF DetectorStep
<1>2. ASSUME NEW s \in seen PROVE SightReported(s)'
  BY <1>0, SettledStays
<1> QED
  BY <1>1, <1>2

-----------------------------------------------------------------------------
(***************************************************************************)
(* What backs a finding.                                                   *)
(***************************************************************************)
Backed(f) ==
  /\ \A id \in f.labels : \E sig \in ToSet(scan.sigs) : sig.id = id /\ <<sig.vendor>> = f.vendor
  /\ \A e \in f.evidence : Witnessed(f, e) /\ (f.labels = {} => Unattributed(f, e))

\* The signatures of a set that the finding cites.
Cited(f, sigs) == \E sig \in sigs : sig.id \in f.labels

\* Witnessed, one clause for each method.
DnsWitness(f, e) ==
  \E sig \in ByType(e.method) :
    /\ sig.id \in f.labels /\ <<e.method, e.fact[1]>> \in DOMAIN answer
    /\ Quotes(answer[<<e.method, e.fact[1]>>], sig.contains, e.fact[2])

HostWitness(f, e) ==
  \/ /\ e.method = "dmarc" /\ <<"txt", DmarcName>> \in DOMAIN answer
     /\ e.fact[1] \in DmarcHosts(answer[<<"txt", DmarcName>>])
     /\ f.labels = {} \/ Cited(f, MatchingRua(e.fact[1]))
  \/ /\ e.method = "bimi" /\ <<"txt", BimiName>> \in DOMAIN answer
     /\ e.fact[1] \in BimiHosts(answer[<<"txt", BimiName>>])
     /\ f.labels = {} \/ Cited(f, Hosting(e.fact[1]))

PolicyWitness(f, s) ==
  /\ s[1] = "policy" /\ Kind(s[2]) = "ok"
  /\ Cited(f, {sig \in ByType("mx") : sig.contains \in s[2].needles})

TenantWitness(f, e) ==
  /\ \E s \in seen : Says(s, e.fact)
  /\ f.labels = {} \/ (e.fact[2] = "federated" /\ Cited(f, Hosting(Head(e.fact[3]))))

LEMMA QuotesNothing == \A needle, texts : ~Quotes(Failed, needle, texts)
BY ReadsNothing DEF Quotes

LEMMA Witnesses ==
  ASSUME NEW f, NEW e
  PROVE  Witnessed(f, e) <=>
           \/ e.method \in DnsType /\ DnsWitness(f, e)
           \/ HostWitness(f, e)
           \/ e.method = "mta-sts" /\ \E s \in seen : PolicyWitness(f, s)
           \/ e.method = "tenant" /\ TenantWitness(f, e)
<1> DEFINE Had(question) == IF question \in DOMAIN answer THEN answer[question] ELSE Failed
           q == <<e.method, e.fact[1]>>
<1>1. ASSUME NEW needle, NEW texts
      PROVE  Quotes(Had(q), needle, texts) <=>
               q \in DOMAIN answer /\ Quotes(answer[q], needle, texts)
  BY QuotesNothing
<1>2. /\ e.fact[1] \in DmarcHosts(Had(<<"txt", DmarcName>>)) <=>
           /\ <<"txt", DmarcName>> \in DOMAIN answer
           /\ e.fact[1] \in DmarcHosts(answer[<<"txt", DmarcName>>])
      /\ e.fact[1] \in BimiHosts(Had(<<"txt", BimiName>>)) <=>
           /\ <<"txt", BimiName>> \in DOMAIN answer
           /\ e.fact[1] \in BimiHosts(answer[<<"txt", BimiName>>])
  BY ReadsNothing
<1> HIDE DEF Had
<1>3. Witnessed(f, e) <=>
        \/ /\ e.method \in DnsType
           /\ \E sig \in ByType(e.method) :
                sig.id \in f.labels /\ Quotes(Had(q), sig.contains, e.fact[2])
        \/ /\ e.method = "dmarc" /\ e.fact[1] \in DmarcHosts(Had(<<"txt", DmarcName>>))
           /\ f.labels = {} \/ Cited(f, MatchingRua(e.fact[1]))
        \/ /\ e.method = "bimi" /\ e.fact[1] \in BimiHosts(Had(<<"txt", BimiName>>))
           /\ f.labels = {} \/ Cited(f, Hosting(e.fact[1]))
        \/ e.method = "mta-sts" /\ \E s \in seen : PolicyWitness(f, s)
        \/ e.method = "tenant" /\ TenantWitness(f, e)
  BY DEF Witnessed, Had, Cited, PolicyWitness, TenantWitness
<1>4. (\E sig \in ByType(e.method) :
         sig.id \in f.labels /\ Quotes(Had(q), sig.contains, e.fact[2])) <=> DnsWitness(f, e)
  BY <1>1 DEF DnsWitness
<1> QED
  BY <1>2, <1>3, <1>4 DEF HostWitness

LEMMA WitnessesNext ==
  ASSUME NEW f, NEW e
  PROVE  Witnessed(f, e)' <=>
           \/ e.method \in DnsType /\ DnsWitness(f, e)'
           \/ HostWitness(f, e)'
           \/ e.method = "mta-sts" /\ \E s \in seen' : PolicyWitness(f, s)'
           \/ e.method = "tenant" /\ TenantWitness(f, e)'
<1> DEFINE Had(question) == IF question \in DOMAIN answer' THEN answer'[question] ELSE Failed
           q == <<e.method, e.fact[1]>>
<1>1. ASSUME NEW needle, NEW texts
      PROVE  Quotes(Had(q), needle, texts) <=>
               q \in DOMAIN answer' /\ Quotes(answer'[q], needle, texts)
  BY QuotesNothing
<1>2. /\ e.fact[1] \in DmarcHosts(Had(<<"txt", DmarcName>>)) <=>
           /\ <<"txt", DmarcName>> \in DOMAIN answer'
           /\ e.fact[1] \in DmarcHosts(answer'[<<"txt", DmarcName>>])
      /\ e.fact[1] \in BimiHosts(Had(<<"txt", BimiName>>)) <=>
           /\ <<"txt", BimiName>> \in DOMAIN answer'
           /\ e.fact[1] \in BimiHosts(answer'[<<"txt", BimiName>>])
  BY ReadsNothing
<1> HIDE DEF Had
<1>3. Witnessed(f, e)' <=>
        \/ /\ e.method \in DnsType
           /\ \E sig \in ByType(e.method)' :
                sig.id \in f.labels /\ Quotes(Had(q), sig.contains, e.fact[2])
        \/ /\ e.method = "dmarc" /\ e.fact[1] \in DmarcHosts(Had(<<"txt", DmarcName>>))
           /\ f.labels = {} \/ Cited(f, MatchingRua(e.fact[1])')
        \/ /\ e.method = "bimi" /\ e.fact[1] \in BimiHosts(Had(<<"txt", BimiName>>))
           /\ f.labels = {} \/ Cited(f, Hosting(e.fact[1])')
        \/ e.method = "mta-sts" /\ \E s \in seen' : PolicyWitness(f, s)'
        \/ e.method = "tenant" /\ TenantWitness(f, e)'
  BY DEF Witnessed, Had, Cited, PolicyWitness, TenantWitness
<1>4. (\E sig \in ByType(e.method)' :
         sig.id \in f.labels /\ Quotes(Had(q), sig.contains, e.fact[2])) <=> DnsWitness(f, e)'
  BY <1>1 DEF DnsWitness
<1> QED
  BY <1>2, <1>3, <1>4 DEF HostWitness

LEMMA WitnessedStays ==
  ASSUME Grows, NEW f, NEW e, Witnessed(f, e)
  PROVE  Witnessed(f, e)'
<1>0. /\ \A t : ByType(t)' = ByType(t)
      /\ \A host : MatchingRua(host)' = MatchingRua(host) /\ Hosting(host)' = Hosting(host)
      /\ seen \subseteq seen'
      /\ \A q \in DOMAIN answer : q \in DOMAIN answer' /\ answer'[q] = answer[q]
  BY SameScan DEF Grows
<1>1. DnsWitness(f, e) => DnsWitness(f, e)'
  BY <1>0 DEF DnsWitness
<1>2. HostWitness(f, e) => HostWitness(f, e)'
  BY <1>0 DEF HostWitness, Cited
<1>3. \A s \in seen : s \in seen' /\ PolicyWitness(f, s)' = PolicyWitness(f, s)
  BY <1>0 DEF PolicyWitness, Cited
<1>4. TenantWitness(f, e) => TenantWitness(f, e)'
  <2>1. ASSUME NEW i, TenantKnown(i) PROVE TenantKnown(i)'
    BY <1>0, <2>1 DEF TenantKnown, Asked
  <2>2. ASSUME NEW s \in seen, Says(s, e.fact) PROVE Says(s, e.fact)'
    BY <2>1, <2>2 DEF Says
  <2> QED
    BY <1>0, <2>2 DEF TenantWitness, Cited
<1> QED
  BY <1>1, <1>2, <1>3, <1>4, Witnesses, WitnessesNext

LEMMA BackedStays ==
  ASSUME Grows, NEW f, Backed(f)
  PROVE  Backed(f)'
<1>1. /\ scan' = scan
      /\ \A host : MatchingRua(host)' = MatchingRua(host) /\ Attributions(host)' = Attributions(host)
  BY SameScan DEF Grows
<1>2. \A e \in f.evidence : Witnessed(f, e)'
  BY WitnessedStays DEF Backed
<1>3. \A e \in f.evidence : Unattributed(f, e) => Unattributed(f, e)'
  BY <1>1 DEF Unattributed
<1> QED
  BY <1>1, <1>2, <1>3 DEF Backed

\* What a detector builds, by the method and the fact that it cites.
Cites(f, m, fact) ==
  \/ \E sig, c : f = SigReport(sig, c, m, fact)
  \/ \E vendor, category, c : f = Report(vendor, category, c, m, fact)

LEMMA Evidence ==
  ASSUME NEW f, NEW m, NEW fact, Cites(f, m, fact)
  PROVE  f.evidence = {[method |-> m, fact |-> fact]}
<1>1. ASSUME NEW sig, NEW c, f = SigReport(sig, c, m, fact)
      PROVE  f.evidence = {[method |-> m, fact |-> fact]}
  BY <1>1 DEF SigReport
<1>2. ASSUME NEW vendor, NEW category, NEW c, f = Report(vendor, category, c, m, fact)
      PROVE  f.evidence = {[method |-> m, fact |-> fact]}
  BY <1>2 DEF Report
<1> QED
  BY <1>1, <1>2 DEF Cites

LEMMA SigBacked ==
  ASSUME scan' = scan, NEW sig \in ToSet(scan.sigs), NEW c, NEW m, NEW fact,
         Witnessed(SigReport(sig, c, m, fact), [method |-> m, fact |-> fact])'
  PROVE  Backed(SigReport(sig, c, m, fact))'
<1> DEFINE f == SigReport(sig, c, m, fact)
<1>1. /\ f.labels = {sig.id} /\ f.vendor = <<sig.vendor>>
      /\ f.evidence = {[method |-> m, fact |-> fact]}
  BY DEF SigReport
<1> HIDE DEF f
<1>2. f = SigReport(sig, c, m, fact)
  BY DEF f
<1>3. Backed(f)'
  BY <1>1, <1>2 DEF Backed
<1> QED
  BY <1>2, <1>3

LEMMA LeadBacked ==
  ASSUME NEW vendor, NEW category, NEW c, NEW m, NEW fact,
         Witnessed(Report(vendor, category, c, m, fact), [method |-> m, fact |-> fact])',
         Unattributed(Report(vendor, category, c, m, fact), [method |-> m, fact |-> fact])'
  PROVE  Backed(Report(vendor, category, c, m, fact))'
<1> DEFINE f == Report(vendor, category, c, m, fact)
<1>1. f.labels = {} /\ f.evidence = {[method |-> m, fact |-> fact]}
  BY DEF Report
<1> HIDE DEF f
<1>2. f = Report(vendor, category, c, m, fact)
  BY DEF f
<1>3. Backed(f)'
  BY <1>1, <1>2 DEF Backed
<1> QED
  BY <1>2, <1>3

LEMMA AttributedLoaded ==
  ASSUME Shape, NEW host, Attributions(host) # {}
  PROVE  Attributed(host) \in ToSet(scan.sigs) /\ Attributed(host) \in Hosting(host)
<1>1. Attributions(host) \in SUBSET DOMAIN scan.sigs /\ DOMAIN scan.sigs \subseteq Nat
  BY DEF Attributions, Shape
<1>2. Earliest(Attributions(host)) \in Attributions(host)
  BY <1>1, EarliestOf
<1> QED
  BY <1>1, <1>2 DEF Attributed, Attributions, Hosting, ToSet

\* What is quoted for a needle holds it.
LEMMA QuotedHolds ==
  ASSUME NEW a \in Answer \cup {Failed}, NEW needle, JoinedHold(a, needle)
  PROVE  a # Failed /\ Quotes(a, needle, Quoted(a, needle))
<1>1. a # Failed
  BY ReadsNothing DEF JoinedHold, Holders
<1>2. CASE Holders(a, needle) # {}
  <2>1. Records(a) \in Seq(ToSet(Records(a)))
    <3>1. a \in Answer /\ Records(a) = a.records
      BY <1>1 DEF Records
    <3>2. a.records \in Seq(ToSet(a.records))
      BY <3>1, PostureAssumption
    <3> QED
      BY <3>1, <3>2
  <2>2. Holders(a, needle) \in SUBSET Nat
    BY <2>1 DEF Holders
  <2> DEFINE n == Earliest(Holders(a, needle))
  <2>3. n \in Holders(a, needle)
    BY <1>2, <2>2, EarliestOf
  <2>4. Quoted(a, needle) = <<Records(a)[n].text>>
    BY <1>2, <2>3 DEF Quoted, Texts, Holders
  <2>5. Records(a)[n] \in ToSet(Records(a)) /\ needle \in Records(a)[n].holds
    BY <2>3 DEF Holders, ToSet
  <2> HIDE DEF n
  <2> QED
    BY <1>1, <2>4, <2>5 DEF Quotes
<1>3. CASE Holders(a, needle) = {}
  BY <1>1, <1>3 DEF JoinedHold, Quoted, Quotes
<1> QED
  BY <1>1, <1>2, <1>3

LEMMA DnsBacked ==
  ASSUME Shape, Heard, scan' = scan, NEW g \in Groups(scan), NEW a \in Outcomes(g), Learn(g, a),
         NEW f \in GroupReports(g, a)
  PROVE  Backed(f)'
<1>1. PICK sig \in SigsOf(g) :
        /\ JoinedHold(a, sig.contains)
        /\ f = SigReport(sig, sig.confidence, g[1], <<g[2], Quoted(a, sig.contains)>>)
  BY DEF GroupReports
<1>2. g = <<g[1], g[2]>> /\ g[1] \in DnsType
  BY DEF Groups
<1>3. sig \in ToSet(scan.sigs) /\ sig \in ByType(g[1])'
  BY <1>1, SameScan DEF SigsOf, ByType
<1>4. a \in Answer \cup {Failed}
  BY DEF Outcomes, Heard
<1>5. a # Failed /\ Quotes(a, sig.contains, Quoted(a, sig.contains))
  BY <1>1, <1>4, QuotedHolds
<1>6. g \in DOMAIN answer' /\ answer'[g] = a
  BY <1>5, Learned
<1>7. sig.id \in f.labels
  BY <1>1 DEF SigReport
<1> DEFINE e == [method |-> g[1], fact |-> <<g[2], Quoted(a, sig.contains)>>]
<1>8. e.method = g[1] /\ e.fact[1] = g[2] /\ e.fact[2] = Quoted(a, sig.contains)
  OBVIOUS
<1> HIDE DEF e
<1>9. DnsWitness(f, e)'
  BY <1>2, <1>3, <1>5, <1>6, <1>7, <1>8 DEF DnsWitness
<1>10. Witnessed(f, e)'
  BY <1>2, <1>8, <1>9, WitnessesNext
<1> QED
  BY <1>1, <1>3, <1>10, SigBacked DEF e

LEMMA DmarcBacked ==
  ASSUME Heard, scan' = scan, NEW a \in Outcomes(<<"txt", DmarcName>>), Learn(<<"txt", DmarcName>>, a),
         NEW host \in DmarcHosts(a), NEW f \in DmarcReports(host)
  PROVE  Backed(f)'
<1> DEFINE e == [method |-> "dmarc", fact |-> <<host, "report destination">>]
<1>1. <<"txt", DmarcName>> \in DOMAIN answer' /\ answer'[<<"txt", DmarcName>>] = a
  BY Learned, ReadsNothing
<1>2. e.method = "dmarc" /\ e.fact[1] = host
  OBVIOUS
<1>3. MatchingRua(host)' = MatchingRua(host)
  BY SameScan
<1> HIDE DEF e
<1>4. CASE MatchingRua(host) # {}
  <2>1. PICK sig \in MatchingRua(host) :
          f = SigReport(sig, sig.confidence, "dmarc", <<host, "report destination">>)
    BY <1>4 DEF DmarcReports
  <2>2. sig \in ToSet(scan.sigs)
    BY DEF MatchingRua, ByType
  <2>3. f.labels = {sig.id}
    BY <2>1 DEF SigReport
  <2>4. HostWitness(f, e)'
    BY <1>1, <1>2, <1>3, <2>3 DEF HostWitness, Cited
  <2>5. Witnessed(f, e)'
    BY <2>4, WitnessesNext
  <2> QED
    BY <2>1, <2>2, <2>5, SigBacked DEF e
<1>5. CASE MatchingRua(host) = {}
  <2>1. /\ ~SameOrg(host, Domain) /\ scan.reportUnknown
        /\ f = Report(host, "Unidentified sender", "low", "dmarc", <<host, "report destination">>)
    BY <1>5 DEF DmarcReports
  <2>2. f.labels = {} /\ f.vendor = host /\ f.confidence = "low"
    BY <2>1 DEF Report
  <2>3. HostWitness(f, e)'
    BY <1>1, <1>2, <2>2 DEF HostWitness
  <2>4. Witnessed(f, e)' /\ Unattributed(f, e)'
    BY <1>2, <1>3, <1>5, <2>1, <2>2, <2>3, WitnessesNext DEF Unattributed
  <2> QED
    BY <2>1, <2>4, LeadBacked DEF e
<1> QED
  BY <1>4, <1>5

LEMMA BimiBacked ==
  ASSUME Shape, Heard, scan' = scan, NEW a \in Outcomes(<<"txt", BimiName>>),
         Learn(<<"txt", BimiName>>, a), NEW host \in BimiHosts(a), NEW f \in BimiReport(host)
  PROVE  Backed(f)'
<1> DEFINE e == [method |-> "bimi", fact |-> <<host, "indicator">>]
<1>1. <<"txt", BimiName>> \in DOMAIN answer' /\ answer'[<<"txt", BimiName>>] = a
  BY Learned, ReadsNothing
<1>2. e.method = "bimi" /\ e.fact[1] = host
  OBVIOUS
<1>3. Attributions(host)' = Attributions(host) /\ Hosting(host)' = Hosting(host)
  BY SameScan
<1> HIDE DEF e
<1>4. CASE Attributions(host) # {}
  <2>1. f = SigReport(Attributed(host), "high", "bimi", <<host, "indicator">>)
    BY <1>4 DEF BimiReport
  <2>2. f.labels = {Attributed(host).id}
    BY <2>1 DEF SigReport
  <2>3. Attributed(host) \in ToSet(scan.sigs) /\ Attributed(host) \in Hosting(host)'
    BY <1>3, <1>4, AttributedLoaded
  <2>4. HostWitness(f, e)'
    BY <1>1, <1>2, <2>2, <2>3 DEF HostWitness, Cited
  <2>5. Witnessed(f, e)'
    BY <2>4, WitnessesNext
  <2> QED
    BY <2>1, <2>3, <2>5, SigBacked DEF e
<1>5. CASE Attributions(host) = {}
  <2>1. /\ ~SameOrg(host, Domain)
        /\ f = Report(host, "Brand & Certificates", "low", "bimi", <<host, "indicator">>)
    BY <1>5 DEF BimiReport
  <2>2. f.labels = {} /\ f.vendor = host /\ f.confidence = "low"
    BY <2>1 DEF Report
  <2>3. HostWitness(f, e)'
    BY <1>1, <1>2, <2>2 DEF HostWitness
  <2>4. Witnessed(f, e)' /\ Unattributed(f, e)'
    BY <1>2, <1>3, <1>5, <2>1, <2>2, <2>3, WitnessesNext DEF Unattributed
  <2> QED
    BY <2>1, <2>4, LeadBacked DEF e
<1> QED
  BY <1>4, <1>5

LEMMA StsBacked ==
  ASSUME scan' = scan, NEW i, NEW page, See(i, "policy", page), NEW f \in Authorised(page)
  PROVE  Backed(f)'
<1> DEFINE e == [method |-> "mta-sts", fact |-> <<StsName, "policy">>]
           s == <<"policy", page, i>>
<1>1. PICK sig \in ByType("mx") : /\ sig.contains \in page.needles
                                  /\ f = SigReport(sig, sig.confidence, "mta-sts", <<StsName, "policy">>)
  BY DEF Authorised
<1>2. s \in seen' /\ Kind(page) = "ok"
  BY Saw DEF Authorised
<1>3. sig \in ToSet(scan.sigs) /\ sig \in ByType("mx")' /\ sig.id \in f.labels
  BY <1>1, SameScan DEF ByType, SigReport
<1>4. e.method = "mta-sts" /\ s[1] = "policy" /\ s[2] = page
  OBVIOUS
<1> HIDE DEF e, s
<1>5. PolicyWitness(f, s)'
  BY <1>1, <1>2, <1>3, <1>4 DEF PolicyWitness, Cited
<1>6. Witnessed(f, e)'
  BY <1>2, <1>4, <1>5, WitnessesNext
<1> QED
  BY <1>1, <1>3, <1>6, SigBacked DEF e

LEMMA MicrosoftBacked ==
  ASSUME NEW fact, NEW s \in seen', Says(s, fact)', fact[2] # "federated"
  PROVE  Backed(Microsoft(fact))'
<1> DEFINE e == [method |-> "tenant", fact |-> fact]
           f == Microsoft(fact)
<1>1. e.method = "tenant" /\ e.fact = fact
  OBVIOUS
<1>2. f.labels = {}
  BY DEF Microsoft, Report
<1> HIDE DEF e, f
<1>3. TenantWitness(f, e)'
  BY <1>1, <1>2 DEF TenantWitness
<1>4. Witnessed(f, e)' /\ Unattributed(f, e)'
  BY <1>1, <1>3, WitnessesNext DEF Unattributed
<1> QED
  BY <1>4, LeadBacked DEF e, f, Microsoft

LEMMA RealmBacked ==
  ASSUME Shape, scan' = scan, NEW i, NEW page, See(i, "realm", page), NEW f \in RealmReports(page)
  PROVE  Backed(f)'
<1> DEFINE s == <<"realm", page, i>>
<1>1. s \in seen' /\ s[1] = "realm" /\ s[2] = page
  BY Saw
<1> HIDE DEF s
<1>2. CASE Kind(page) = "managed"
  <2>1. f = Microsoft(<<Domain, "managed">>)
    BY <1>2 DEF RealmReports
  <2>2. Says(s, <<Domain, "managed">>)'
    BY <1>1, <1>2 DEF Says
  <2> QED
    BY <1>1, <2>1, <2>2, MicrosoftBacked
<1>3. CASE Kind(page) = "federated"
  <2> DEFINE fact == <<Domain, "federated", page.hosts>>
             e == [method |-> "tenant", fact |-> fact]
             host == Head(page.hosts)
  <2>0. f = Provider(page)
    BY <1>3 DEF RealmReports
  <2>1. /\ e.method = "tenant" /\ e.fact = fact
        /\ fact[2] = "federated" /\ fact[3] = page.hosts
    OBVIOUS
  <2>2. Says(s, fact)'
    BY <1>1, <1>3 DEF Says
  <2>3. Attributions(host)' = Attributions(host) /\ Hosting(host)' = Hosting(host)
    BY SameScan
  <2>4. ASSUME NEW vendor, f = Report(vendor, "Identity & Secrets", "high", "tenant", fact),
               page.hosts # <<>> => vendor = host /\ Attributions(host) = {}
        PROVE  Backed(f)'
    <3>1. f.labels = {} /\ f.vendor = vendor
      BY <2>4 DEF Report
    <3> HIDE DEF fact, e
    <3>2. TenantWitness(f, e)'
      BY <1>1, <2>1, <2>2, <3>1 DEF TenantWitness
    <3>3. Witnessed(f, e)' /\ Unattributed(f, e)'
      BY <2>1, <2>3, <2>4, <3>1, <3>2, WitnessesNext DEF Unattributed
    <3> QED
      BY <2>4, <3>3, LeadBacked DEF e
  <2>5. CASE page.hosts = <<>>
    BY <2>0, <2>4, <2>5 DEF Provider
  <2>6. CASE page.hosts # <<>> /\ Attributions(host) = {}
    BY <2>0, <2>4, <2>6 DEF Provider
  <2>7. CASE page.hosts # <<>> /\ Attributions(host) # {}
    <3>1. f = SigReport(Attributed(host), "high", "tenant", fact)
      BY <2>0, <2>7 DEF Provider
    <3>2. Attributed(host) \in ToSet(scan.sigs) /\ Attributed(host) \in Hosting(host)'
      BY <2>3, <2>7, AttributedLoaded
    <3>3. f.labels = {Attributed(host).id}
      BY <3>1 DEF SigReport
    <3> HIDE DEF fact, e
    <3>4. TenantWitness(f, e)'
      BY <1>1, <2>1, <2>2, <3>2, <3>3 DEF TenantWitness, Cited
    <3>5. Witnessed(f, e)'
      BY <2>1, <3>4, WitnessesNext
    <3> QED
      BY <3>1, <3>2, <3>5, SigBacked DEF e
  <2> QED
    BY <2>5, <2>6, <2>7
<1> QED
  BY <1>2, <1>3 DEF RealmReports

\* What the other two requests bring.
LEMMA TenantBacked ==
  ASSUME NEW i, NEW page, See(i, "openid", page), NEW f \in TenantReports(page)
  PROVE  Backed(f)'
<1> DEFINE s == <<"openid", page, i>>
<1>1. s \in seen' /\ s[1] = "openid" /\ s[2] = page
  BY Saw
<1> HIDE DEF s
<1>2. f = Microsoft(<<Domain, "tenant">>) /\ Kind(page) = "tenant"
  BY DEF TenantReports
<1>3. Says(s, <<Domain, "tenant">>)'
  BY <1>1, <1>2 DEF Says
<1> QED
  BY <1>1, <1>2, <1>3, MicrosoftBacked

LEMMA DomainsBacked ==
  ASSUME NEW i, NEW page, See(i, "domains", page), NEW named, named => TenantKnown(i)',
         NEW f \in DomainReports(page, named)
  PROVE  Backed(f)'
<1> DEFINE s == <<"domains", page, i>>
           fact == <<Domain, IF named THEN "domains of the tenant" ELSE "domains", Siblings(page)>>
<1>1. s \in seen' /\ s[1] = "domains" /\ s[2] = page /\ s[3] = i
  BY Saw
<1> HIDE DEF s
<1>2. f = Microsoft(fact) /\ Siblings(page) # {}
  BY DEF DomainReports
<1>3. Says(s, fact)' /\ fact[2] # "federated"
  <2>1. CASE named
    BY <1>1, <1>2, <2>1 DEF Says
  <2>2. CASE ~named
    BY <1>1, <1>2, <2>2 DEF Says
  <2> QED
    BY <2>1, <2>2
<1> HIDE DEF fact
<1> QED
  BY <1>1, <1>2, <1>3, MicrosoftBacked

LEMMA AllBacked ==
  ASSUME Shape, Heard, NEW i \in Instance, DetectorStep(i), Effect(i), Owed(i),
         \A f \in reports : Backed(f)
  PROVE  \A f \in reports' : Backed(f)'
<1>0. scan' = scan /\ \A f \in reports : Backed(f)'
  <2>1. Grows
    BY DEF Effect
  <2>2. \A f \in reports : Backed(f)'
    BY <2>1, BackedStays
  <2> QED
    BY <2>1, <2>2 DEF Grows
<1>1. ASSUME NEW g \in pending[i], ResolveGroup(i, g) PROVE \A f \in reports' : Backed(f)'
  <2>1. PICK a \in Outcomes(g) : Learn(g, a) /\ reports' = reports \cup GroupReports(g, a)
    BY <1>1 DEF ResolveGroup
  <2>2. g \in Groups(scan)
    BY <1>1 DEF Shape
  <2> QED
    BY <1>0, <2>1, <2>2, DnsBacked
<1>2. CASE Dmarc(i)
  <2>1. PICK a \in Outcomes(<<"txt", DmarcName>>) :
          /\ Learn(<<"txt", DmarcName>>, a)
          /\ reports' = reports \cup UNION {DmarcReports(host) : host \in DmarcHosts(a)}
    BY <1>2 DEF Dmarc
  <2> QED
    BY <1>0, <2>1, DmarcBacked
<1>3. CASE Bimi(i)
  <2>1. PICK a \in Outcomes(<<"txt", BimiName>>) :
          /\ Learn(<<"txt", BimiName>>, a)
          /\ reports' = reports \cup UNION {BimiReport(host) : host \in BimiHosts(a)}
    BY <1>3 DEF Bimi
  <2> QED
    BY <1>0, <2>1, BimiBacked
<1>4. CASE StsPolicy(i)
  <2>1. PICK page : See(i, "policy", page) /\ reports' = reports \cup Authorised(page)
    BY <1>4 DEF StsPolicy
  <2> QED
    BY <1>0, <2>1, StsBacked
<1>5. CASE OpenID(i)
  <2>1. PICK page : See(i, "openid", page) /\ reports' = reports \cup TenantReports(page)
    BY <1>5 DEF OpenID
  <2> QED
    BY <1>0, <2>1, TenantBacked
<1>6. CASE UserRealm(i)
  <2>1. PICK page : See(i, "realm", page) /\ reports' = reports \cup RealmReports(page)
    BY <1>6 DEF UserRealm
  <2> QED
    BY <1>0, <2>1, RealmBacked
<1>7. CASE FederatedDomains(i)
  <2>1. PICK page : /\ See(i, "domains", page)
                    /\ reports' = reports \cup DomainReports(page, tenantID[i])
    BY <1>7 DEF FederatedDomains
  <2>2. tenantID[i] => TenantKnown(i)
    BY <1>7 DEF FederatedDomains, Is, Owed, AskedForTenant
  <2>3. tenantID[i] => TenantKnown(i)'
    BY <2>1, <2>2, Saw DEF TenantKnown
  <2> QED
    BY <1>0, <2>1, <2>3, DomainsBacked
<1>8. CASE DnsReturns(i) \/ StsRecord(i)
  BY <1>0, <1>8 DEF DnsReturns, StsRecord
<1> QED
  BY <1>1, <1>2, <1>3, <1>4, <1>5, <1>6, <1>7, <1>8 DEF DetectorStep

LEMMA BackedIs ==
  /\ PostureBacked <=> \A f \in reports : Backed(f)
  /\ PostureBacked' <=> \A f \in reports' : Backed(f)'
BY DEF PostureBacked, Backed

\* A step of a detector keeps the invariant of the scan.
LEMMA PostureStep ==
  ASSUME PostureInv, NEW i \in Instance, DetectorStep(i)
  PROVE  PostureInv'
<1>1. Shape /\ Heard /\ Effect(i)
  BY StepsEffect DEF PostureInv
<1>2. Instance' = Instance /\ Grows /\ Only(i) /\ Shape' /\ Heard'
  BY <1>1, SameScan DEF Effect, Grows
<1>3. ASSUME NEW j \in Instance PROVE Owed(j)'
  <2>1. Owed(j)
    BY DEF PostureInv
  <2>2. CASE j = i
    BY <1>1, <2>1, <2>2, OwnOwed
  <2>3. CASE j # i
    BY <1>2, <2>1, <2>3, OthersOwed
  <2> QED
    BY <2>2, <2>3
<1>4. \A s \in seen' : SightReported(s)'
  BY <1>1, SightsReported DEF PostureInv
<1>5. PostureBacked'
  <2>1. Owed(i) /\ \A f \in reports : Backed(f)
    BY BackedIs DEF PostureInv
  <2> QED
    BY <1>1, <2>1, AllBacked, BackedIs
<1> QED
  BY <1>2, <1>3, <1>4, <1>5 DEF PostureInv

\* What every detector that is done has accounted for.
LEMMA DestinationSettled ==
  ASSUME NEW host, DmarcReports(host) \subseteq reports
  PROVE  DestinationReported(host)
<1> DEFINE fact == <<host, "report destination">>
<1>1. ASSUME NEW sig \in MatchingRua(host)
      PROVE  \E f \in reports : f.labels = {sig.id} /\ Shows(f, "dmarc", fact)
  <2> DEFINE f == SigReport(sig, sig.confidence, "dmarc", fact)
  <2>1. f \in reports
    BY DEF DmarcReports
  <2>2. f.labels = {sig.id} /\ Shows(f, "dmarc", fact)
    BY DEF SigReport, Shows
  <2> HIDE DEF f
  <2> QED
    BY <2>1, <2>2
<1>2. ASSUME MatchingRua(host) = {}, ~SameOrg(host, Domain), scan.reportUnknown
      PROVE  \E f \in reports : f.labels = {} /\ Shows(f, "dmarc", fact)
  <2> DEFINE f == Report(host, "Unidentified sender", "low", "dmarc", fact)
  <2>1. f \in reports
    BY <1>2 DEF DmarcReports
  <2>2. f.labels = {} /\ Shows(f, "dmarc", fact)
    BY DEF Report, Shows
  <2> HIDE DEF f
  <2> QED
    BY <2>1, <2>2
<1> QED
  BY <1>1, <1>2 DEF DestinationReported

LEMMA IndicatorSettled ==
  ASSUME NEW host, BimiReport(host) \subseteq reports
  PROVE  IndicatorReported(host)
<1> DEFINE fact == <<host, "indicator">>
           cited == SigReport(Attributed(host), "high", "bimi", fact)
           lead == Report(host, "Brand & Certificates", "low", "bimi", fact)
<1>1. cited.labels # {} /\ Shows(cited, "bimi", fact) /\ lead.labels = {} /\ Shows(lead, "bimi", fact)
  BY DEF SigReport, Report, Shows
<1>2. ~SameOrg(host, Domain) => IF Attributions(host) # {} THEN cited \in reports ELSE lead \in reports
  BY DEF BimiReport
<1> HIDE DEF cited, lead
<1> QED
  BY <1>1, <1>2 DEF IndicatorReported

LEMMA MatchSettled ==
  ASSUME NEW i \in Instance, \A g \in Groups(scan) : GroupSettled(g)
  PROVE  MatchReported(i)
<1> SUFFICES ASSUME NEW sig \in ToSet(scan.sigs), sig.type \in DnsType,
                    NEW name \in ExpandQueries(sig, scan.candidates) \ {<<>>},
                    <<"dns", <<sig.type, name>>>> \notin warnings
             PROVE  LET question == <<sig.type, name>> IN
                    /\ question \in DOMAIN answer
                    /\ JoinedHold(answer[question], sig.contains) =>
                         \E f \in reports : /\ f.labels = {sig.id} /\ f.confidence = sig.confidence
                                            /\ \E e \in f.evidence : /\ e.method = sig.type
                                                                     /\ e.fact[1] = name
  BY DEF MatchReported
<1> DEFINE g == <<sig.type, name>>
           a == answer[g]
           f == SigReport(sig, sig.confidence, g[1], <<g[2], Quoted(a, sig.contains)>>)
<1>1. g \in Groups(scan) /\ g[1] = sig.type /\ g[2] = name
  BY DEF Groups
<1>2. g \in DOMAIN answer /\ GroupReports(g, a) \subseteq reports
  BY <1>1 DEF GroupSettled
<1>3. ASSUME JoinedHold(a, sig.contains) PROVE f \in GroupReports(g, a)
  <2>1. sig \in SigsOf(g)
    BY <1>1 DEF SigsOf, ByType
  <2> QED
    BY <1>3, <2>1 DEF GroupReports
<1>4. /\ f.labels = {sig.id} /\ f.confidence = sig.confidence
      /\ \E e \in f.evidence : e.method = sig.type /\ e.fact[1] = name
  BY <1>1 DEF SigReport
<1> HIDE DEF f
<1> QED
  BY <1>2, <1>3, <1>4

LEMMA PolicySettled ==
  ASSUME NEW i \in Instance, AskedForPolicy(i), pc[i] = "done", \A s \in seen : SightReported(s)
  PROVE  PolicyReported(i)
<1>1. ASSUME NEW s \in Asked(i, "policy"), NEW sig \in ByType("mx"), Kind(s[2]) = "ok",
             sig.contains \in s[2].needles
      PROVE  \E f \in reports : f.labels = {sig.id} /\ Shows(f, "mta-sts", <<StsName, "policy">>)
  <2> DEFINE f == SigReport(sig, sig.confidence, "mta-sts", <<StsName, "policy">>)
  <2>1. f \in Authorised(s[2])
    BY <1>1 DEF Authorised
  <2>2. f.labels = {sig.id} /\ Shows(f, "mta-sts", <<StsName, "policy">>)
    BY DEF SigReport, Shows
  <2> HIDE DEF f
  <2> QED
    BY <2>1, <2>2 DEF Asked, SightReported
<1>2. ASSUME NEW s \in Asked(i, "policy"), Kind(s[2]) # "ok"
      PROVE  <<"mta-sts", StsName>> \in warnings
  BY <1>2 DEF Asked, SightReported
<1> QED
  BY <1>1, <1>2 DEF PolicyReported, AskedForPolicy

LEMMA ProviderShown ==
  ASSUME NEW page
  PROVE  Shows(Provider(page), "tenant", <<Domain, "federated", page.hosts>>)
<1> DEFINE fact == <<Domain, "federated", page.hosts>>
<1>1. Cites(Provider(page), "tenant", fact)
  BY DEF Provider, Cites
<1> HIDE DEF fact
<1>2. Shows(Provider(page), "tenant", fact)
  BY <1>1, Evidence DEF Shows
<1> QED
  BY <1>2 DEF fact

LEMMA TenantSettled ==
  ASSUME NEW i \in Instance, AskedForTenant(i), pc[i] = "done", \A s \in seen : SightReported(s)
  PROVE  TenantReported(i)
<1>1. \A step \in {"openid", "realm", "domains"} : Asked(i, step) # {}
  BY DEF AskedForTenant
<1>2. ASSUME NEW s \in Asked(i, "openid")
      PROVE  /\ s[2] = Failed => <<"tenant", Domain>> \in warnings
             /\ Kind(s[2]) = "tenant" => Microsoft(<<Domain, "tenant">>) \in reports
  BY DEF Asked, SightReported, TenantReports
<1>3. ASSUME NEW s \in Asked(i, "realm")
      PROVE  /\ Kind(s[2]) = "managed" => Microsoft(<<Domain, "managed">>) \in reports
             /\ Kind(s[2]) = "federated" =>
                  \E f \in reports : Shows(f, "tenant", <<Domain, "federated", s[2].hosts>>)
  <2>1. RealmReports(s[2]) \subseteq reports
    BY DEF Asked, SightReported
  <2>2. Kind(s[2]) = "managed" => Microsoft(<<Domain, "managed">>) \in reports
    BY <2>1 DEF RealmReports
  <2>3. Kind(s[2]) = "federated" => Provider(s[2]) \in reports
    BY <2>1 DEF RealmReports
  <2> QED
    BY <2>2, <2>3, ProviderShown
<1>4. ASSUME NEW s \in Asked(i, "domains"), Siblings(s[2]) # {}
      PROVE  Microsoft(<<Domain, IF TenantKnown(i) THEN "domains of the tenant" ELSE "domains",
                         Siblings(s[2])>>) \in reports
  <2>1. DomainReports(s[2], TenantKnown(i)) \subseteq reports
    BY DEF AskedForTenant
  <2> QED
    BY <1>4, <2>1 DEF DomainReports
<1> QED
  BY <1>1, <1>2, <1>3, <1>4 DEF TenantReported

LEMMA Accounting ==
  ASSUME PostureInv
  PROVE  PostureAccounted
<1> SUFFICES ASSUME NEW i \in Instance, pc[i] = "done"
             PROVE  /\ scan.detectors[i] = "dns" => MatchReported(i)
                    /\ scan.detectors[i] = "dmarc" => DestinationsReported(i)
                    /\ scan.detectors[i] = "bimi" => IndicatorsReported(i)
                    /\ scan.detectors[i] = "mta-sts" => PolicyReported(i)
                    /\ scan.detectors[i] = "tenant" => TenantReported(i)
  BY DEF PostureAccounted
<1>1. Owed(i) /\ \A s \in seen : SightReported(s)
  BY DEF PostureInv
<1>2. scan.detectors[i] = "dns" => MatchReported(i)
  BY <1>1, MatchSettled DEF Owed
<1>3. scan.detectors[i] = "dmarc" => DestinationsReported(i)
  BY <1>1, DestinationSettled DEF Owed, DmarcSettled, DestinationsReported
<1>4. scan.detectors[i] = "bimi" => IndicatorsReported(i)
  BY <1>1, IndicatorSettled DEF Owed, Asked, SightReported, IndicatorsReported
<1>5. scan.detectors[i] = "mta-sts" => PolicyReported(i)
  BY <1>1, PolicySettled DEF Owed
<1>6. scan.detectors[i] = "tenant" => TenantReported(i)
  BY <1>1, TenantSettled DEF Owed
<1> QED
  BY <1>2, <1>3, <1>4, <1>5, <1>6

-----------------------------------------------------------------------------
(***************************************************************************)
(* The command.                                                            *)
(***************************************************************************)
LEMMA DirectoryTyped ==
  ASSUME command \in Commands
  PROVE  Packs[Directory] \in Seq(Pack)
BY SessionAssumption DEF Directory

LEMMA SameCommand ==
  ASSUME command' = command
  PROVE  /\ Directory' = Directory /\ Format' = Format /\ Listing' = Listing /\ Counting' = Counting
         /\ Selected(command.only, command.skip)' = Selected(command.only, command.skip)
<1>1. Directory' = Directory /\ Format' = Format
  BY DEF Directory, Format
<1>2. Listing' = Listing
  BY <1>1 DEF Listing
<1>3. Counting' = Counting
  BY <1>1, <1>2 DEF Counting
<1> QED
  BY <1>1, <1>2, <1>3

LEMMA SamePosture ==
  ASSUME PostureInv, UNCHANGED <<scan, detectors, answer, reports, warnings, seen>>
  PROVE  PostureInv'
<1>1. /\ scan' = scan /\ pc' = pc /\ pending' = pending /\ tenantID' = tenantID
      /\ answer' = answer /\ reports' = reports /\ warnings' = warnings /\ seen' = seen
  BY DEF detectors
<1>2. Grows /\ Instance' = Instance /\ Groups(scan)' = Groups(scan)
  BY <1>1, SameScan DEF Grows
<1>3. Shape' /\ Heard'
  BY <1>1, <1>2 DEF PostureInv, Shape, Heard
<1>4. ASSUME NEW i \in Instance PROVE Owed(i)'
  <2>1. Owed(i) /\ (\A step : Asked(i, step)' = Asked(i, step)) /\ TenantKnown(i)' = TenantKnown(i)
    BY <1>1 DEF PostureInv, Asked, TenantKnown
  <2>2. /\ AskedForPolicy(i) => AskedForPolicy(i)'
        /\ AskedForTenant(i) => AskedForTenant(i)'
    BY <1>1, <2>1 DEF AskedForPolicy, AskedForTenant
  <2> QED
    BY <1>1, <1>2, <2>1, <2>2, SettledStays DEF Owed
<1>5. \A s \in seen' : SightReported(s)'
  BY <1>1, <1>2, SettledStays DEF PostureInv
<1>6. PostureBacked'
  BY <1>1, <1>2, BackedIs, BackedStays DEF PostureInv
<1> QED
  BY <1>2, <1>3, <1>4, <1>5, <1>6 DEF PostureInv

LEMMA NothingOwed ==
  ASSUME Untouched
  PROVE  PostureInv
<1>1. scan.sigs = <<>> /\ scan.detectors = <<>>
  BY DEF Untouched, Idle
<1>2. Instance = {} /\ DOMAIN pc = {} /\ DOMAIN pending = {} /\ DOMAIN tenantID = {}
      /\ DOMAIN answer = {}
  BY <1>1 DEF Instance, Untouched
<1>3. <<>> \in Seq(ToSet(<<>>)) /\ IsFiniteSet({})
  BY FS_EmptySet
<1>4. Shape
  BY <1>1, <1>2, <1>3 DEF Shape, Untouched
<1>5. Heard
  BY <1>2 DEF Heard, Untouched
<1> QED
  BY <1>2, <1>4, <1>5 DEF PostureInv, PostureBacked, Untouched

LEMMA Launched ==
  ASSUME Untouched, NEW config, config.sigs \in Seq(ToSet(config.sigs)), Launch(config),
         UNCHANGED <<answer, reports, warnings, seen>>
  PROVE  PostureInv'
<1>1. scan' = config /\ Instance' = DOMAIN config.detectors /\ Groups(scan)' = Groups(config)
  BY DEF Launch, Instance, Groups
<1>2. /\ pc' = [i \in Instance' |-> "running"]
      /\ pending' = [i \in Instance' |-> IF config.detectors[i] = "dns" THEN Groups(config) ELSE {}]
      /\ tenantID' = [i \in Instance' |-> FALSE]
  BY <1>1 DEF Launch
<1>3. /\ DOMAIN answer' = {} /\ reports' = {} /\ warnings' = {} /\ seen' = {}
  BY DEF Untouched
<1>4. Shape'
  <2>1. IsFiniteSet(warnings')
    BY <1>3, FS_EmptySet
  <2>2. (scan.sigs \in Seq(ToSet(scan.sigs)))'
    BY <1>1
  <2>3. \A i \in Instance' : pending'[i] \subseteq Groups(scan)'
    BY <1>1, <1>2
  <2> QED
    BY <1>2, <2>1, <2>2, <2>3 DEF Shape
<1>5. Heard'
  BY <1>3 DEF Heard
<1>6. ASSUME NEW i \in Instance' PROVE Owed(i)'
  <2>1. pc'[i] = "running" /\ \A step : Asked(i, step)' = {}
    BY <1>2, <1>3 DEF Asked
  <2>2. (scan.detectors[i])' = "dns" => pending'[i] = Groups(scan)'
    BY <1>1, <1>2
  <2>3. AskedForPolicy(i)' /\ AskedForTenant(i)'
    BY <2>1 DEF AskedForPolicy, AskedForTenant
  <2> QED
    BY <2>1, <2>2, <2>3 DEF Owed
<1>7. (\A s \in seen : SightReported(s))' /\ PostureBacked'
  BY <1>3 DEF PostureBacked
<1> QED
  BY <1>4, <1>5, <1>6, <1>7 DEF PostureInv

LEMMA InitInv == Init => Inv
<1> SUFFICES ASSUME Init PROVE Inv
  OBVIOUS
<1>1. Untouched
  BY DEF Init, Untouched
<1>2. PostureInv
  BY <1>1, NothingOwed
<1>3. LoadInv
  <2>1. ~EmptyLoad.failed
    BY DEF EmptyLoad
  <2> QED
    BY <2>1 DEF Init, LoadInv
<1>4. CommandInv
  BY <1>1 DEF Init, CommandInv, TypeOK, Early
<1>5. ReportInv
  BY DEF Init, ReportInv, FoundIsShown
<1> QED
  BY <1>2, <1>3, <1>4, <1>5 DEF Inv

LEMMA KeepsCommand == [Next]_vars => command' = command
BY DEF Next, Step, vars, main, Leave, LoadSignatures, Validate, Check, OpenOutput, NotifySignals,
       StartScan, DetectorsStep, Return, Render, Interrupt, Expire

LEMMA LoadStep ==
  ASSUME LoadInv, [Next]_vars
  PROVE  LoadInv'
<1>1. Directory' = Directory
  BY KeepsCommand, SameCommand
<1>2. CASE LoadSignatures
  BY <1>1, <1>2 DEF LoadSignatures, LoadInv, Exit
<1>3. CASE ~LoadSignatures
  <2>1. load' = load /\ (phase' = phase \/ (phase # "parsed" /\ phase' # "parsed") \/ phase' = "ended")
        /\ (phase = "ended" => phase' = "ended")
    BY <1>3 DEF Next, Step, vars, main, Leave, Validate, Check, OpenOutput, NotifySignals,
                StartScan, DetectorsStep, Return, Render, Interrupt, Expire, Exit
  <2> QED
    BY <1>1, <2>1 DEF LoadInv
<1> QED
  BY <1>2, <1>3

LEMMA ScanStep ==
  ASSUME PostureInv, LoadInv, CommandInv, [Next]_vars
  PROVE  PostureInv'
<1>1. CASE StartScan
  <2>1. phase = "armed" /\ Untouched
    BY <1>1 DEF StartScan, CommandInv, Early
  <2>2. CASE command.given = "blank"
    BY <1>1, <2>2, SamePosture DEF StartScan, pvars
  <2>3. CASE command.given # "blank"
    <3>1. Launch(Config) /\ UNCHANGED <<answer, reports, warnings, seen>>
      BY <1>1, <2>3 DEF StartScan
    <3>2. Config.sigs = load.sigs
      BY DEF Config
    <3>3. load.sigs \in Seq(ToSet(load.sigs))
      <4>1. Packs[Directory] \in Seq(Pack)
        BY DirectoryTyped DEF CommandInv, TypeOK
      <4>2. load = LoadFS(Packs[Directory]) /\ ~load.failed
        BY <2>1 DEF LoadInv
      <4> QED
        BY <4>1, <4>2, LoadsFS DEF Gathered
    <3> QED
      BY <2>1, <3>1, <3>2, <3>3, Launched
  <2> QED
    BY <2>2, <2>3
<1>2. CASE DetectorsStep
  BY <1>2, PostureStep DEF DetectorsStep
<1>3. CASE ~StartScan /\ ~DetectorsStep
  <2>1. UNCHANGED <<scan, detectors, answer, reports, warnings, seen>>
    BY <1>3 DEF Next, Step, vars, pvars, Leave, LoadSignatures, Validate, Check, OpenOutput,
                NotifySignals, Return, Render, Interrupt, Expire
  <2> QED
    BY <2>1, SamePosture
<1> QED
  BY <1>1, <1>2, <1>3

LEMMA CommandStep ==
  ASSUME CommandInv, [Next]_vars
  PROVE  CommandInv'
<1> USE DEF CommandInv, TypeOK, Early
<1>0. /\ command' = command
      /\ Selected(command.only, command.skip)' = Selected(command.only, command.skip)
  BY KeepsCommand, SameCommand
<1>1. CASE Leave
  BY <1>0, <1>1 DEF Leave, Exit, pvars, Killed, NoExit
<1>2. CASE LoadSignatures
  <2>1. Untouched' = Untouched
    BY <1>2 DEF LoadSignatures, Untouched, pvars, detectors
  <2> QED
    BY <1>0, <1>2, <2>1 DEF LoadSignatures, Exit, pvars, Killed, NoExit
<1>3. CASE Validate
  BY <1>0, <1>3 DEF Validate, Exit, pvars, Killed, NoExit
<1>4. CASE Check
  <2>1. Untouched' = Untouched
    BY <1>4 DEF Check, Untouched, pvars, detectors
  <2> QED
    BY <1>0, <1>4, <2>1 DEF Check, Refused, Exit, pvars, Killed, NoExit
<1>5. CASE OpenOutput
  <2>1. Untouched' = Untouched
    BY <1>5 DEF OpenOutput, Untouched, pvars, detectors
  <2> QED
    BY <1>0, <1>5, <2>1 DEF OpenOutput, Exit, pvars, Killed, NoExit
<1>6. CASE NotifySignals
  <2>1. Untouched' = Untouched
    BY <1>6 DEF NotifySignals, Untouched, pvars, detectors
  <2> QED
    BY <1>0, <1>6, <2>1 DEF NotifySignals, pvars
<1>7. CASE StartScan
  <2>1. CASE command.given = "blank"
    BY <1>0, <1>7, <2>1 DEF StartScan, Exit, pvars, Killed, NoExit
  <2>2. CASE command.given # "blank"
    <3>1. (scan.detectors)' = Running(Selected(command.only, command.skip))
      BY <1>7, <2>2 DEF StartScan, Launch, Config
    <3> QED
      BY <1>0, <1>7, <2>2, <3>1 DEF StartScan
  <2> QED
    BY <2>1, <2>2
<1>8. CASE DetectorsStep
  <2>1. UNCHANGED main /\ phase = "scanning"
    BY <1>8 DEF DetectorsStep
  <2>2. scan' = scan /\ cancelled' = cancelled
    BY <1>8 DEF DetectorsStep, DetectorStep, ResolveGroup, DnsReturns, Dmarc, Bimi, StsRecord,
                StsPolicy, OpenID, UserRealm, FederatedDomains
  <2> QED
    BY <1>0, <2>1, <2>2 DEF main
<1>9. CASE Return
  BY <1>0, <1>9 DEF Return, pvars
<1>10. CASE Render
  <2>1. exit' \in {0, 1} /\ phase' = "ended" /\ output' \in {output, "complete", "partial"}
    BY <1>10 DEF Render, Exit, ExitOfFailure
  <2> QED
    BY <1>0, <1>10, <2>1 DEF Render, pvars, NoExit
<1>11. CASE Interrupt
  <2>1. Untouched' = Untouched
    BY <1>11 DEF Interrupt, Untouched, detectors
  <2> QED
    <3>1. CASE handler = "default"
      BY <1>0, <1>11, <3>1 DEF Interrupt, Exit, Killed, NoExit
    <3>2. CASE handler # "default"
      <4>1. /\ handler' = "spent" /\ cancelled' = TRUE /\ scan' = scan
            /\ UNCHANGED <<phase, exit, output>>
        BY <1>11, <3>2 DEF Interrupt
      <4> QED
        BY <1>0, <2>1, <4>1
    <3> QED
      BY <3>1, <3>2
<1>12. CASE Expire
  <2>1. Untouched' = Untouched
    BY <1>12 DEF Expire, Untouched, detectors
  <2> QED
    BY <1>0, <1>12, <2>1 DEF Expire, main
<1>13. CASE UNCHANGED vars
  <2>1. Untouched' = Untouched
    BY <1>13 DEF vars, pvars, Untouched, detectors
  <2> QED
    BY <1>0, <1>13, <2>1 DEF vars, main, pvars
<1> QED
  BY <1>1, <1>2, <1>3, <1>4, <1>5, <1>6, <1>7, <1>8, <1>9, <1>10, <1>11, <1>12, <1>13
  DEF Next, Step

LEMMA ReportStep ==
  ASSUME ReportInv, CommandInv, [Next]_vars
  PROVE  ReportInv'
<1>0. /\ command' = command /\ Format' = Format /\ Listing' = Listing /\ Counting' = Counting
      /\ phase # "ended" => exit = NoExit
      /\ phase \in Early => reports = {}
      /\ phase \in {"parsed", "loaded", "checked", "opened", "armed", "scanning", "reporting", "ended"}
  BY KeepsCommand, SameCommand DEF CommandInv, TypeOK, Untouched
<1>1. CASE \/ Leave \/ LoadSignatures \/ Validate \/ Check \/ OpenOutput \/ NotifySignals
           \/ (StartScan /\ command.given = "blank")
  <2>1. /\ phase \in Early /\ UNCHANGED pvars /\ output' \in {output, "empty"}
        /\ phase' \in Early \cup {"ended"}
    BY <1>1 DEF Leave, LoadSignatures, Validate, Check, OpenOutput, NotifySignals, StartScan, Exit, Early
  <2>2. output \notin {"partial", "complete"} /\ reports' = {}
    BY <1>0, <2>1 DEF ReportInv, pvars
  <2> QED
    BY <1>0, <2>1, <2>2 DEF ReportInv, FoundIsShown, Early
<1>2. CASE (StartScan /\ command.given # "blank") \/ DetectorsStep
  <2>1. /\ phase \in {"armed", "scanning"} /\ phase' = "scanning"
        /\ exit' = exit /\ output' = output
    BY <1>2 DEF StartScan, DetectorsStep, main
  <2>2. output \notin {"partial", "complete"} /\ exit' = NoExit
    BY <1>0, <2>1 DEF ReportInv, Early
  <2> QED
    BY <2>1, <2>2 DEF ReportInv, FoundIsShown
<1>3. CASE Return
  <2>1. /\ phase = "scanning" /\ phase' = "reporting" /\ UNCHANGED <<output, exit>>
        /\ DetectorsDone /\ UNCHANGED pvars /\ result' = [findings |-> reports, errors |-> warnings]
    BY <1>3 DEF Return
  <2>2. Returned'
    BY <2>1 DEF Returned, DetectorsDone, Instance, pvars, detectors
  <2>3. output' \notin {"partial", "complete"} /\ exit' = NoExit
    BY <1>0, <2>1 DEF ReportInv, Early
  <2> QED
    BY <2>1, <2>2, <2>3 DEF ReportInv, FoundIsShown
<1>4. CASE Render
  <2>1. phase = "reporting" /\ phase' = "ended" /\ UNCHANGED <<result, pvars>>
    BY <1>4 DEF Render, Exit
  <2>2. Returned /\ output \notin {"partial", "complete"}
    BY <2>1 DEF ReportInv
  <2>3. Returned' /\ ReportOf' = ReportOf /\ reports' = reports
    BY <1>0, <2>1, <2>2 DEF Returned, ReportOf, DetectorsDone, Instance, pvars, detectors
  <2>4. \/ Format \notin {"cli", "json", "jsonl", "csv", "html"} /\ output' = output
        \/ output' = "complete" /\ shown' = ReportOf
        \/ output' = "partial"
    BY <1>4 DEF Render
  <2>5. ReportOf.findings = reports
    BY <2>2 DEF ReportOf, Returned
  <2>6. FoundIsShown'
    BY <1>0, <2>3, <2>4, <2>5 DEF FoundIsShown
  <2> QED
    BY <2>1, <2>2, <2>3, <2>4, <2>6 DEF ReportInv, Early
<1>5. CASE Interrupt
  <2>1. UNCHANGED <<output, result, shown, reports, warnings, scan, detectors>>
    BY <1>5 DEF Interrupt
  <2>2. CASE handler = "default"
    <3>1. phase' = "ended" /\ phase \in Early
      BY <1>0, <1>5, <2>2 DEF Interrupt, Exit, CommandInv, Early
    <3>2. reports' = {} /\ output' \notin {"partial", "complete"}
      BY <1>0, <2>1, <3>1 DEF ReportInv
    <3> QED
      BY <3>1, <3>2 DEF ReportInv, FoundIsShown, Early
  <2>3. CASE handler # "default"
    <3>1. UNCHANGED <<phase, exit>>
      BY <1>5, <2>3 DEF Interrupt
    <3>2. (Returned <=> Returned') /\ ReportOf' = ReportOf
      BY <1>0, <2>1 DEF Returned, ReportOf, DetectorsDone, Instance, detectors
    <3> QED
      BY <1>0, <2>1, <3>1, <3>2 DEF ReportInv, FoundIsShown
  <2> QED
    BY <2>2, <2>3
<1>6. CASE Expire \/ UNCHANGED vars
  <2>1. /\ UNCHANGED <<phase, exit, output, result, shown, reports, warnings, scan, detectors>>
    BY <1>6 DEF Expire, vars, main, pvars
  <2>2. (Returned <=> Returned') /\ ReportOf' = ReportOf
    BY <1>0, <2>1 DEF Returned, ReportOf, DetectorsDone, Instance, detectors
  <2> QED
    BY <1>0, <2>1, <2>2 DEF ReportInv, FoundIsShown
<1> QED
  BY <1>1, <1>2, <1>3, <1>4, <1>5, <1>6 DEF Next, Step

LEMMA Invariant == Spec => []Inv
<1>1. ASSUME Inv, [Next]_vars PROVE Inv'
  BY <1>1, LoadStep, CommandStep, ReportStep, ScanStep DEF Inv
<1> QED
  BY InitInv, <1>1, PTL DEF Spec

-----------------------------------------------------------------------------
(***************************************************************************)
(* Theorems.                                                               *)
(***************************************************************************)
\* Type correctness: every variable of the command keeps its type.
THEOREM TypeCorrect == Spec => []TypeOK
<1>1. Inv => TypeOK
  BY DEF Inv, CommandInv
<1> QED
  BY <1>1, Invariant, PTL

\* For any directory of packs, LoadFS takes it exactly when it is sound, and then
\* takes exactly its enabled signatures and parks the disabled ones.
THEOREM LoadsWhatIsSound == Spec => []LoadExact
<1>1. Inv => LoadExact
  <2> SUFFICES ASSUME Inv PROVE LoadExact
    OBVIOUS
  <2> DEFINE packs == Packs[Directory]
  <2>1. packs \in Seq(Pack)
    BY DirectoryTyped DEF Inv, CommandInv, TypeOK
  <2>2. phase = "loaded" => load = LoadFS(packs) /\ ~load.failed
    BY DEF Inv, LoadInv
  <2>3. load.failed => load = LoadFS(packs)
    <3>1. ~EmptyLoad.failed
      BY DEF EmptyLoad
    <3> QED
      BY <3>1 DEF Inv, LoadInv
  <2>4. ASSUME load = LoadFS(packs), ~load.failed
        PROVE  /\ packs # <<>> /\ Sound(packs)
               /\ ToSet(load.sigs) = Enabled(packs) /\ Len(load.sigs) = Cardinality(Enabled(packs))
               /\ ToSet(load.disabled) = Parked(packs)
    <3>1. packs # <<>> /\ Sound(packs) /\ Gathered(load, packs, Entry(packs))
      BY <2>1, <2>4, LoadsFS
    <3> QED
      BY <3>1 DEF Gathered, Enabled, Parked
  <2>5. ASSUME load = LoadFS(packs), load.failed PROVE ~(packs # <<>> /\ Sound(packs))
    BY <2>1, <2>5, LoadsFS
  <2> QED
    BY <2>2, <2>3, <2>4, <2>5 DEF LoadExact
<1> QED
  BY <1>1, Invariant, PTL

\* Whatever -only and -skip list, the detectors that run are those that they leave.
THEOREM SelectionHolds == Spec => []FlagsDecide
<1>1. Inv => FlagsDecide
  <2> SUFFICES ASSUME Inv, phase \in {"scanning", "reporting"} PROVE FlagsDecide
    BY DEF FlagsDecide
  <2> DEFINE only == command.only
             skip == command.skip
             running == {scan.detectors[i] : i \in Instance}
             chosen == Selected(only, skip)
  <2>1. chosen # NoDetectors /\ running = ToSet(Running(chosen))
    BY DEF Inv, CommandInv, Instance, ToSet
  <2>2. /\ only.given => Known(only) /\ chosen = only.names
        /\ ~only.given /\ skip.given => Known(skip) /\ chosen = Unskipped(skip)
        /\ ~only.given /\ ~skip.given => chosen = All /\ skip.names = <<>>
    BY <2>1, SessionAssumption DEF Selected, Inv, CommandInv, TypeOK
  <2>3. ToSet(<<>>) = {}
    BY DEF ToSet
  <2>4. ToSet(Unskipped(skip)) = Detectors \ ToSet(skip.names)
    <3>1. All \in Seq(Detectors)
      BY SelectionAssumption DEF Detectors, ToSet
    <3> QED
      BY <3>1, UnskippedIs
  <2> HIDE DEF chosen, running
  <2>5. only.given /\ only.names # <<>> => running = ToSet(only.names)
    BY <2>1, <2>2 DEF Running
  <2>6. /\ ~only.given /\ ~(Detectors \subseteq ToSet(skip.names))
        => running = Detectors \ ToSet(skip.names)
    <3>1. CASE skip.given
      BY <2>1, <2>2, <2>3, <2>4, <3>1 DEF Running
    <3>2. CASE ~skip.given
      BY <2>1, <2>2, <2>3, <3>2, SelectionAssumption DEF Running, Detectors
    <3> QED
      BY <3>1, <3>2
  <2> QED
    BY <2>2, <2>5, <2>6 DEF FlagsDecide, running
<1> QED
  BY <1>1, Invariant, PTL

\* Whoever interrupts the scan and whenever, what was found is in the report, unless
\* the report cannot be written.
THEOREM NothingFoundIsLost == Spec => []FoundIsShown
<1>1. Inv => FoundIsShown
  BY DEF Inv, ReportInv
<1> QED
  BY <1>1, Invariant, PTL

\* Of every detector of the scan, whatever it was answered: when it is done, it has asked
\* for everything that it should, what it was shown is reported, and what it could not look
\* up or fetch is warned of, where the code does not pass over the failure in silence.
THEOREM DetectorsAccount == Spec => []PostureAccounted
<1>1. Inv => PostureAccounted
  BY Accounting DEF Inv
<1> QED
  BY <1>1, Invariant, PTL

\* No finding is made up: each cites a loaded signature that matches what was seen, or is
\* a lead that names neither the organisation nor a host the signatures know, or says of
\* the tenant what a page said of it.
THEOREM FindingsBacked == Spec => []PostureBacked
<1>1. Inv => PostureBacked
  BY DEF Inv, PostureInv
<1> QED
  BY <1>1, Invariant, PTL

\* A question of dns or dmarc that was never answered, a policy of mta-sts that could not be
\* fetched and a tenant that could not be asked for its id are in every complete report
\* that has a place for warnings, listed or counted.
THEOREM LossIsTold == Spec => []LossTold
<1>1. Inv => LossTold
  <2> SUFFICES ASSUME Inv, output = "complete", Counting PROVE LossTold
    BY DEF LossTold
  <2> DEFINE lost == Lost
  <2>1. /\ DetectorsDone /\ result.errors = warnings /\ shown = ReportOf
        /\ IsFiniteSet(warnings) /\ \A s \in seen : SightReported(s)
    BY DEF Inv, ReportInv, Returned, PostureInv, Shape
  <2>2. lost \subseteq warnings
    <3>1. ASSUME NEW i \in Instance, NEW q \in LoudQuestions(i), q[2] \notin DOMAIN answer
          PROVE  q \in warnings
      <4>1. pc[i] = "done" /\ Owed(i)
        BY <2>1 DEF DetectorsDone, Inv, PostureInv
      <4>2. CASE scan.detectors[i] = "dns"
        <5>1. PICK g \in Groups(scan) : q = <<"dns", g>>
          BY <3>1, <4>2 DEF LoudQuestions
        <5>2. GroupSettled(g)
          BY <4>1, <4>2 DEF Owed
        <5> QED
          BY <3>1, <5>1, <5>2 DEF GroupSettled
      <4>3. CASE scan.detectors[i] = "dmarc"
        <5>1. q = <<"dmarc", <<"txt", DmarcName>>>>
          BY <3>1, <4>3 DEF LoudQuestions
        <5> QED
          BY <3>1, <4>1, <4>3, <5>1 DEF Owed, DmarcSettled
      <4> QED
        BY <3>1, <4>2, <4>3 DEF LoudQuestions
    <3>2. ASSUME NEW s \in seen, s[1] = "policy", Kind(s[2]) # "ok"
          PROVE  <<"mta-sts", StsName>> \in warnings
      BY <2>1, <3>2 DEF SightReported
    <3>3. ASSUME NEW s \in seen, s[1] = "openid", s[2] = Failed
          PROVE  <<"tenant", Domain>> \in warnings
      BY <2>1, <3>3 DEF SightReported
    <3> QED
      BY <3>1, <3>2, <3>3 DEF Lost
  <2>3. Cardinality(lost) \in Nat /\ Cardinality(warnings) \in Nat
        /\ Cardinality(lost) <= Cardinality(warnings)
    <3> HIDE DEF lost
    <3>1. IsFiniteSet(lost) /\ Cardinality(lost) <= Cardinality(warnings)
      BY <2>1, <2>2, FS_Subset
    <3> QED
      BY <2>1, <3>1, FS_CardinalityType
  <2>4. /\ Listing => shown.listed = warnings
        /\ shown.counted = Cardinality(warnings)
    BY <2>1 DEF ReportOf
  <2> HIDE DEF lost
  <2>5. (Listing => lost \subseteq shown.listed) /\ shown.counted >= Cardinality(lost)
    BY <2>2, <2>3, <2>4
  <2> QED
    BY <2>5 DEF LossTold, lost
<1> QED
  BY <1>1, Invariant, PTL

=============================================================================
