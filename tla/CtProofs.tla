------------------------------- MODULE CtProofs -------------------------------
(***************************************************************************)
(* Theorems about Ct, for any aggregators, listings and limit, whichever   *)
(* lookups fail and in whatever order they end.                            *)
(***************************************************************************)
EXTENDS Ct, FiniteSetTheorems, SequenceTheorems, WellFoundedInduction, TLAPS

-----------------------------------------------------------------------------
(***************************************************************************)
(* FirstNames: the beginning of the alphabet, all of it if there is room.  *)
(***************************************************************************)
Below(names, h) == {g \in names : g < h}

LEMMA BelowGrows ==
  ASSUME NEW names \in SUBSET Nat, IsFiniteSet(names), NEW g \in names, NEW h \in names, g <= h
  PROVE  Cardinality(Below(names, g)) <= Cardinality(Below(names, h))
<1>1. Below(names, g) \subseteq Below(names, h)
  <2>1. ASSUME NEW x \in names, x < g PROVE x < h
    <3>1. x \in Nat /\ g \in Nat /\ h \in Nat
      OBVIOUS
    <3> QED
      BY <2>1, <3>1
  <2> QED
    BY <2>1 DEF Below
<1>2. IsFiniteSet(Below(names, h))
  BY FS_Subset DEF Below
<1> QED
  BY <1>1, <1>2, FS_Subset

\* What lies below a name leaves out the name itself.
LEMMA BelowLess ==
  ASSUME NEW names \in SUBSET Nat, IsFiniteSet(names), NEW h \in names
  PROVE  /\ Cardinality(Below(names, h)) \in Nat /\ Cardinality(names) \in Nat
         /\ Cardinality(Below(names, h)) < Cardinality(names)
<1>1. /\ IsFiniteSet(names \ {h})
      /\ Cardinality(names \ {h}) = Cardinality(names) - 1
  BY FS_RemoveElement
<1>2. Below(names, h) \subseteq names \ {h}
  BY DEF Below
<1>3. IsFiniteSet(Below(names, h)) /\ Cardinality(Below(names, h)) <= Cardinality(names \ {h})
  BY <1>1, <1>2, FS_Subset
<1>4. Cardinality(Below(names, h)) \in Nat /\ Cardinality(names) \in Nat
  BY <1>3, FS_CardinalityType
<1> QED
  BY <1>1, <1>3, <1>4

LEMMA FirstNamesAll ==
  ASSUME NEW names \in SUBSET Nat, IsFiniteSet(names), NEW n \in Nat, Cardinality(names) <= n
  PROVE  FirstNames(names, n) = names
<1>1. ASSUME NEW h \in names PROVE Cardinality(Below(names, h)) < n
  BY BelowLess
<1> QED
  BY <1>1 DEF FirstNames, Below

LEMMA FirstNamesFirst ==
  ASSUME NEW names \in SUBSET Nat, IsFiniteSet(names), NEW n \in Nat,
         NEW h \in FirstNames(names, n), NEW g \in names \ FirstNames(names, n)
  PROVE  h < g /\ Cardinality(names) > n
<1>1. h \in names /\ Cardinality(Below(names, h)) < n
  BY DEF FirstNames, Below
<1>2. ~(Cardinality(Below(names, g)) < n)
  BY DEF FirstNames, Below
<1>3. ~(g <= h)
  <2> SUFFICES ASSUME g <= h PROVE FALSE
    OBVIOUS
  <2>1. Cardinality(Below(names, g)) <= Cardinality(Below(names, h))
    BY <1>1, BelowGrows
  <2>2. Cardinality(Below(names, g)) \in Nat /\ Cardinality(Below(names, h)) \in Nat
    BY <1>1, BelowLess
  <2> QED
    BY <1>1, <1>2, <2>1, <2>2
<1>4. g \in Nat /\ h \in Nat
  BY <1>1
<1>5. Cardinality(names) > n
  BY <1>2, BelowLess
<1> QED
  BY <1>3, <1>4, <1>5

-----------------------------------------------------------------------------
(***************************************************************************)
(* The names looked up, or still to be, are the first of the merge, and    *)
(* the warnings of the merge stay.                                         *)
(***************************************************************************)
Covered ==
  warnings = MergeWarnings /\ resolved \cup lost \cup waiting = FirstNames(Merged, Limit)

CoverInv ==
  /\ answers \in [Source -> SUBSET Own]
  /\ pc \in {"querying", "resolving", "returned"}
  /\ pc = "querying" => resolved = {} /\ lost = {} /\ waiting = {}
  /\ pc = "resolving" => Covered
  /\ pc = "returned" =>
       \/ warnings = {"skipped"} /\ resolved = {} /\ lost = {}
       \/ Covered /\ waiting = {}

LEMMA MergedType ==
  ASSUME CoverInv
  PROVE  Merged \in SUBSET Nat /\ IsFiniteSet(Merged)
<1>1. Merged \subseteq Logged
  <2>1. \A s \in Source : answers[s] \subseteq Own
    BY DEF CoverInv
  <2>2. Own \subseteq Logged
    BY CtAssumption
  <2> QED
    BY <2>1, <2>2 DEF Merged
<1> QED
  BY <1>1, CtAssumption, FS_Subset

LEMMA InitCoverInv == Init => CoverInv
BY DEF Init, CoverInv

LEMMA StepCoverInv == CoverInv /\ [Next]_vars => CoverInv'
<1> SUFFICES ASSUME CoverInv, [Next]_vars PROVE CoverInv'
  OBVIOUS
<1> USE DEF CoverInv
<1>1. ASSUME NEW s \in Source, Query(s) PROVE CoverInv'
  <2>1. \A listing : Collected(listing) \subseteq Own
    BY DEF Collected
  <2> QED
    BY <1>1, <2>1 DEF Query
<1>2. CASE Skip
  BY <1>2 DEF Skip
<1>3. CASE Merge
  BY <1>3 DEF Merge, Covered, Merged, MergeWarnings
<1>4. CASE Return
  BY <1>4 DEF Return, Covered, Merged, MergeWarnings
<1>5. ASSUME NEW h \in Own, LookupFails(h) \/ LookupEnds(h) PROVE CoverInv'
  <2>1. /\ pc = "resolving" /\ h \in waiting /\ UNCHANGED <<pc, answers, warnings>>
        /\ waiting' = waiting \ {h} /\ resolved' \cup lost' = resolved \cup lost \cup {h}
    BY <1>5 DEF LookupFails, LookupEnds, Running
  <2>2. resolved' \cup lost' \cup waiting' = resolved \cup lost \cup waiting
    BY <2>1
  <2> QED
    BY <2>1, <2>2 DEF Covered, Merged, MergeWarnings
<1>6. CASE Cancel \/ UNCHANGED vars
  BY <1>6 DEF Cancel, vars, Covered, Merged, MergeWarnings
<1> QED
  BY <1>1, <1>2, <1>3, <1>4, <1>5, <1>6 DEF Next, Step

LEMMA CoverInvHolds == Spec => []CoverInv
BY InitCoverInv, StepCoverInv, PTL DEF Spec

\* Silence means coverage: a detector that returns without a warning heard from every
\* aggregator and looked at every name that any of them listed.
THEOREM SilenceIsCoverage == Spec => []CoverageSaid
<1>1. CoverInv => CoverageSaid
  <2> SUFFICES ASSUME CoverInv, pc = "returned", warnings = {}, NEW s \in Source
               PROVE  answers[s] # {} /\ answers[s] \subseteq resolved \cup lost
    BY DEF CoverageSaid
  <2>1. MergeWarnings = {} /\ resolved \cup lost = FirstNames(Merged, Limit)
    BY DEF CoverInv, Covered
  <2>2. answers[s] # {} /\ ~(Cardinality(Merged) > Limit)
    BY <2>1 DEF MergeWarnings
  <2>3. Cardinality(Merged) \in Nat /\ Limit \in Nat
    BY MergedType, FS_CardinalityType, CtAssumption
  <2>4. FirstNames(Merged, Limit) = Merged
    BY <2>2, <2>3, MergedType, FirstNamesAll
  <2> QED
    BY <2>1, <2>2, <2>4 DEF Merged
<1> QED
  BY <1>1, CoverInvHolds, PTL

\* Whichever lookups end first or fail, the names that were never looked at are the tail
\* of the alphabet, and the report says that there is one.
THEOREM TailIsSaid == Spec => []TailDropped
<1>1. CoverInv => TailDropped
  <2> SUFFICES ASSUME CoverInv, NEW h \in resolved \cup lost, NEW g \in Merged,
                      g \notin resolved \cup lost \cup waiting
               PROVE  h < g /\ "truncated" \in warnings
    BY DEF TailDropped
  <2>1. Covered
    BY DEF CoverInv
  <2>2. h \in FirstNames(Merged, Limit) /\ g \in Merged \ FirstNames(Merged, Limit)
    BY <2>1 DEF Covered
  <2>3. h < g /\ Cardinality(Merged) > Limit
    BY <2>2, MergedType, FirstNamesFirst, CtAssumption
  <2> QED
    BY <2>1, <2>3 DEF Covered, MergeWarnings
<1> QED
  BY <1>1, CoverInvHolds, PTL

-----------------------------------------------------------------------------
(***************************************************************************)
(* Suffixes and provider keys.                                             *)
(***************************************************************************)
Ends(s, t) == Len(s) <= Len(t) /\ \A i \in 1 .. Len(s) : s[i] = t[Len(t) - Len(s) + i]

LEMMA SuffixEnds ==
  ASSUME NEW s \in Seq(Label), NEW t \in Seq(Label)
  PROVE  IsSuffix(s, t) <=> Ends(s, t)
<1> DEFINE m == Len(s)
           n == Len(t)
           rs == Reverse(s)
           rt == Reverse(t)
<1>0. m \in Nat /\ n \in Nat
  OBVIOUS
<1>1. /\ rs \in Seq(Label) /\ Len(rs) = m /\ \A i \in 1 .. m : rs[i] = s[m - i + 1]
      /\ rt \in Seq(Label) /\ Len(rt) = n /\ \A i \in 1 .. n : rt[i] = t[n - i + 1]
  <2>1. \A i \in 1 .. m : m - i + 1 \in 1 .. m /\ s[m - i + 1] \in Label
    BY <1>0
  <2>2. \A i \in 1 .. n : n - i + 1 \in 1 .. n /\ t[n - i + 1] \in Label
    BY <1>0
  <2>3. rs \in [1 .. m -> Label] /\ rt \in [1 .. n -> Label]
    BY <2>1, <2>2 DEF Reverse
  <2> QED
    BY <1>0, <2>3, IsASeq DEF Reverse
<1> HIDE DEF rs, rt
<1>2. IsSuffix(s, t) <=> m <= n /\ SubSeq(rs, 1, m) = SubSeq(rt, 1, m)
  BY <1>1 DEF IsSuffix, IsPrefix, rs, rt
<1>3. ASSUME m <= n
      PROVE  SubSeq(rs, 1, m) = SubSeq(rt, 1, m) <=> \A i \in 1 .. m : rs[i] = rt[i]
  <2>1. /\ SubSeq(rs, 1, m) \in Seq(Label) /\ Len(SubSeq(rs, 1, m)) = m
        /\ \A i \in 1 .. m : SubSeq(rs, 1, m)[i] = rs[i]
    BY <1>0, <1>1
  <2>2. /\ SubSeq(rt, 1, m) \in Seq(Label) /\ Len(SubSeq(rt, 1, m)) = m
        /\ \A i \in 1 .. m : SubSeq(rt, 1, m)[i] = rt[i]
    BY <1>0, <1>1, <1>3
  <2> QED
    BY <2>1, <2>2, SeqEqual
<1>4. ASSUME m <= n
      PROVE  (\A i \in 1 .. m : rs[i] = rt[i]) <=> \A i \in 1 .. m : s[i] = t[n - m + i]
  <2>1. ASSUME \A i \in 1 .. m : rs[i] = rt[i], NEW i \in 1 .. m PROVE s[i] = t[n - m + i]
    <3>1. m - i + 1 \in 1 .. m /\ m - i + 1 \in 1 .. n
      BY <1>0, <1>4
    <3>2. rs[m - i + 1] = s[m - (m - i + 1) + 1] /\ rt[m - i + 1] = t[n - (m - i + 1) + 1]
      BY <1>1, <3>1
    <3>3. m - (m - i + 1) + 1 = i /\ n - (m - i + 1) + 1 = n - m + i
      BY <1>0
    <3> QED
      BY <2>1, <3>1, <3>2, <3>3
  <2>2. ASSUME \A i \in 1 .. m : s[i] = t[n - m + i], NEW i \in 1 .. m PROVE rs[i] = rt[i]
    <3>1. m - i + 1 \in 1 .. m /\ i \in 1 .. n
      BY <1>0, <1>4
    <3>2. n - m + (m - i + 1) = n - i + 1
      BY <1>0
    <3> QED
      BY <1>1, <2>2, <3>1, <3>2
  <2> QED
    BY <2>1, <2>2
<1> QED
  BY <1>2, <1>3, <1>4 DEF Ends

KeyLength(x) == IF Len(x) <= 2 THEN Len(x) ELSE IF CountryCode(x) THEN 3 ELSE 2

LEMMA KeyLengths ==
  ASSUME NEW x
  PROVE  \/ Len(x) <= 2 /\ KeyLength(x) = Len(x)
         \/ ~(Len(x) <= 2) /\ CountryCode(x) /\ KeyLength(x) = 3
         \/ ~(Len(x) <= 2) /\ ~CountryCode(x) /\ KeyLength(x) = 2
<1>1. CASE Len(x) <= 2
  BY <1>1 DEF KeyLength
<1>2. CASE ~(Len(x) <= 2) /\ CountryCode(x)
  BY <1>2 DEF KeyLength
<1>3. CASE ~(Len(x) <= 2) /\ ~CountryCode(x)
  BY <1>3 DEF KeyLength
<1> QED
  BY <1>1, <1>2, <1>3

\* The key of a host is the suffix of that length.
LEMMA KeyShape ==
  ASSUME NEW x \in Hostname
  PROVE  /\ ProviderKey(x) \in Hostname
         /\ Len(ProviderKey(x)) = KeyLength(x) /\ Ends(ProviderKey(x), x)
<1>0. x \in Seq(Label) /\ Len(x) \in Nat /\ Len(x) > 0
  BY EmptySeq DEF Hostname
<1>1. CASE Len(x) <= 2
  <2>1. ProviderKey(x) = x /\ KeyLength(x) = Len(x)
    BY <1>1 DEF ProviderKey, KeyLength
  <2>2. Ends(x, x)
    BY <1>0 DEF Ends
  <2> QED
    BY <2>1, <2>2
<1>2. CASE ~(Len(x) <= 2)
  <2>1. PICK n \in {2, 3} : n = KeyLength(x) /\ ProviderKey(x) = SubSeq(x, Len(x) - n + 1, Len(x))
    BY <1>2 DEF ProviderKey, KeyLength, Trailing
  <2>2. Len(x) >= 3 /\ Len(x) - n + 1 \in 1 .. Len(x)
    BY <1>0, <1>2
  <2>3. /\ ProviderKey(x) \in Seq(Label) /\ Len(ProviderKey(x)) = n
        /\ \A i \in 1 .. n : ProviderKey(x)[i] = x[Len(x) - n + 1 + i - 1]
    <3>1. /\ SubSeq(x, Len(x) - n + 1, Len(x)) \in Seq(Label)
          /\ Len(SubSeq(x, Len(x) - n + 1, Len(x))) = Len(x) - (Len(x) - n + 1) + 1
          /\ \A i \in 1 .. Len(x) - (Len(x) - n + 1) + 1 :
               SubSeq(x, Len(x) - n + 1, Len(x))[i] = x[Len(x) - n + 1 + i - 1]
      BY <1>0, <2>2, SubSeqProperties
    <3>2. Len(x) - (Len(x) - n + 1) + 1 = n
      BY <1>0
    <3> QED
      BY <2>1, <3>1, <3>2
  <2>4. \A i \in 1 .. n : Len(x) - n + 1 + i - 1 = Len(x) - n + i
    BY <1>0
  <2>5. ProviderKey(x) # <<>>
    BY <2>3, EmptySeq
  <2>6. Ends(ProviderKey(x), x)
    BY <2>2, <2>3, <2>4, <1>0 DEF Ends
  <2> QED
    BY <2>1, <2>3, <2>5, <2>6 DEF Hostname
<1> QED
  BY <1>1, <1>2

LEMMA KeyUnique ==
  ASSUME NEW x \in Hostname, NEW k \in Hostname, Len(k) = KeyLength(x), Ends(k, x)
  PROVE  k = ProviderKey(x)
<1>1. k \in Seq(Label) /\ ProviderKey(x) \in Seq(Label) /\ Len(k) = Len(ProviderKey(x))
  BY KeyShape DEF Hostname
<1>2. \A i \in 1 .. Len(k) : k[i] = ProviderKey(x)[i]
  BY <1>1, KeyShape DEF Ends
<1> QED
  BY <1>1, <1>2, SeqEqual

\* The country code is in the last two labels.
LEMMA CountryOfSuffix ==
  ASSUME NEW k \in Hostname, NEW x \in Hostname, Ends(k, x), Len(k) >= 2
  PROVE  CountryCode(k) <=> CountryCode(x)
<1>1. Len(k) \in Nat /\ Len(x) \in Nat /\ Len(k) <= Len(x)
  BY DEF Hostname, Ends
<1>2. Len(k) \in 1 .. Len(k) /\ Len(k) - 1 \in 1 .. Len(k)
  BY <1>1
<1>3. Len(x) - Len(k) + Len(k) = Len(x) /\ Len(x) - Len(k) + (Len(k) - 1) = Len(x) - 1
  BY <1>1
<1>4. k[Len(k)] = x[Len(x)] /\ k[Len(k) - 1] = x[Len(x) - 1]
  BY <1>2, <1>3 DEF Ends
<1> QED
  BY <1>4 DEF CountryCode

\* Nobody can register what a key lies under: a host is covered by its own key.
LEMMA KeyCovers ==
  ASSUME NEW x \in Hostname
  PROVE  Covers(ProviderKey(x), x)
<1> DEFINE k == ProviderKey(x)
<1>1. k \in Hostname /\ Len(k) = KeyLength(x) /\ Ends(k, x)
  BY KeyShape
<1>2. CASE Len(x) <= 2
  BY <1>2 DEF ProviderKey, Covers
<1>3. CASE ~(Len(x) <= 2)
  <2>1. Len(k) \in {2, 3} /\ (Len(k) = 2 => ~CountryCode(x))
    BY <1>1, <1>3 DEF KeyLength
  <2>2. CountryCode(k) <=> CountryCode(x)
    BY <1>1, <2>1, CountryOfSuffix
  <2>3. Registrable(k)
    BY <2>1, <2>2 DEF Registrable
  <2>4. IsSuffix(k, x)
    BY <1>1, SuffixEnds DEF Hostname
  <2> QED
    BY <2>3, <2>4 DEF Covers
<1> QED
  BY <1>2, <1>3

\* And by no other key.
LEMMA CoverIsKey ==
  ASSUME NEW x \in Hostname, NEW y \in Hostname, Covers(ProviderKey(y), x)
  PROVE  ProviderKey(y) = ProviderKey(x)
<1>1. PICK k \in Hostname : k = ProviderKey(y) /\ Len(k) = KeyLength(y) /\ Ends(k, y)
  BY KeyShape
<1>2. /\ Len(x) \in Nat /\ Len(y) \in Nat /\ Len(x) > 0 /\ Len(y) > 0 /\ Len(k) \in Nat
      /\ x \in Seq(Label) /\ k \in Seq(Label)
  <2>1. ASSUME NEW h \in Hostname PROVE h \in Seq(Label) /\ Len(h) \in Nat /\ Len(h) > 0
    <3>1. h \in Seq(Label) /\ h # <<>>
      BY DEF Hostname
    <3> QED
      BY <3>1, EmptySeq
  <2>2. x \in Seq(Label) /\ Len(x) \in Nat /\ Len(x) > 0
    BY <2>1
  <2>3. y \in Seq(Label) /\ Len(y) \in Nat /\ Len(y) > 0
    BY <2>1
  <2>4. k \in Seq(Label) /\ Len(k) \in Nat
    BY <2>1
  <2> QED
    BY <2>2, <2>3, <2>4
<1>3. Len(k) \in {1, 2, 3} /\ (Len(k) = 3 => CountryCode(y))
  BY <1>1, <1>2, KeyLengths
<1>4. Len(k) = 3 => CountryCode(k)
  BY <1>1, <1>3, CountryOfSuffix
<1>5. Ends(k, x)
  <2>1. CASE x = k
    BY <1>2, <2>1 DEF Ends
  <2>2. CASE IsSuffix(k, x)
    BY <1>2, <2>2, SuffixEnds
  <2> QED
    BY <1>1, <2>1, <2>2 DEF Covers
<1>6. Len(k) <= Len(x)
  BY <1>5 DEF Ends
<1>7. Len(k) = 1 => x = k
  BY <1>1 DEF Covers, Registrable
<1>8. Len(k) = 2 => x = k \/ ~CountryCode(k)
  BY <1>1 DEF Covers, Registrable
<1>9. Len(k) >= 2 => (CountryCode(k) <=> CountryCode(x))
  BY <1>1, <1>5, CountryOfSuffix
<1>10. Len(k) = KeyLength(x)
  <2>1. CASE Len(k) = 1
    <3>1. Len(x) = 1
      BY <1>7, <2>1
    <3>2. Len(x) <= 2
      BY <3>1
    <3>3. KeyLength(x) = 1
      BY <3>1, <3>2 DEF KeyLength
    <3> QED
      BY <2>1, <3>3
  <2>2. CASE Len(k) = 2
    <3>1. Len(x) = 2 \/ ~CountryCode(x)
      BY <1>8, <1>9, <2>2
    <3>2. Len(x) = 2 \/ ~(Len(x) <= 2)
      BY <1>2, <1>6, <2>2
    <3>3. CASE Len(x) = 2
      <4>1. Len(x) <= 2
        BY <3>3
      <4>2. KeyLength(x) = 2
        BY <3>3, <4>1 DEF KeyLength
      <4> QED
        BY <2>2, <4>2
    <3>4. CASE ~(Len(x) <= 2) /\ ~CountryCode(x)
      <4>1. KeyLength(x) = 2
        BY <3>4 DEF KeyLength
      <4> QED
        BY <2>2, <4>1
    <3> QED
      BY <3>1, <3>2, <3>3, <3>4
  <2>3. CASE Len(k) = 3
    BY <1>2, <1>4, <1>6, <1>9, <2>3, KeyLengths
  <2> QED
    BY <1>3, <2>1, <2>2, <2>3
<1> QED
  BY <1>1, <1>5, <1>10, KeyUnique

-----------------------------------------------------------------------------
(***************************************************************************)
(* Loops over the names, and how many of them there are.                   *)
(***************************************************************************)
LEMMA Least ==
  ASSUME NEW T \in SUBSET Nat, T # {}
  PROVE  \E x \in T : \A y \in T : x <= y
<1> DEFINE R == OpToRel(<, Nat)
<1>1. IsWellFoundedOn(R, Nat)
  BY NatLessThanWellFounded
<1>2. R = {pair \in Nat \X Nat : pair[1] < pair[2]}
  BY DEF OpToRel
<1> HIDE DEF R
<1>3. PICK x \in T : \A y \in T : <<y, x>> \notin R
  BY <1>1, WFMin
<1>4. ASSUME NEW y \in T PROVE x <= y
  <2>1. x \in Nat /\ y \in Nat
    OBVIOUS
  <2>2. ~(y < x)
    BY <1>2, <1>3, <2>1
  <2> QED
    BY <2>1, <2>2
<1> QED
  BY <1>4

\* Induction up to a bound, for a set of numbers instead of a predicate.
LEMMA UpTo ==
  ASSUME NEW N \in Nat, NEW T, 0 \in T, \A n \in 1 .. N : n - 1 \in T => n \in T
  PROVE  0 .. N \subseteq T
<1> SUFFICES ASSUME (0 .. N) \ T # {} PROVE FALSE
  OBVIOUS
<1>0. (0 .. N) \ T \in SUBSET Nat
  OBVIOUS
<1>1. PICK x \in (0 .. N) \ T : \A y \in (0 .. N) \ T : x <= y
  BY <1>0, Least
<1>2. x \in 1 .. N /\ x - 1 \in 0 .. N /\ ~(x <= x - 1)
  BY <1>1
<1>3. x - 1 \in T
  BY <1>1, <1>2
<1> QED
  BY <1>1, <1>2, <1>3

LEMMA AppendSet ==
  ASSUME NEW S, NEW s \in Seq(S), NEW x
  PROVE  ToSet(Append(s, x)) = ToSet(s) \cup {x}
<1>1. DOMAIN s = 1 .. Len(s) /\ DOMAIN Append(s, x) = 1 .. Len(s) + 1 /\ Len(s) \in Nat
  OBVIOUS
<1>2. Append(s, x)[Len(s) + 1] = x /\ \A i \in 1 .. Len(s) : Append(s, x)[i] = s[i]
  OBVIOUS
<1> QED
  BY <1>1, <1>2 DEF ToSet

Distinct(s) == \A i, j \in 1 .. Len(s) : s[i] = s[j] => i = j

LEMMA AppendDistinct ==
  ASSUME NEW S, NEW s \in Seq(S), NEW x, Distinct(s), x \notin ToSet(s)
  PROVE  Distinct(Append(s, x))
<1> DEFINE t == Append(s, x)
<1>1. Len(s) \in Nat /\ Len(t) = Len(s) + 1 /\ DOMAIN s = 1 .. Len(s)
  OBVIOUS
<1>2. t[Len(s) + 1] = x /\ \A i \in 1 .. Len(s) : t[i] = s[i]
  OBVIOUS
<1>3. \A i \in 1 .. Len(s) : s[i] # x
  BY <1>1 DEF ToSet
<1> HIDE DEF t
<1>4. ASSUME NEW i \in 1 .. Len(t), NEW j \in 1 .. Len(t), t[i] = t[j] PROVE i = j
  <2>1. CASE i \in 1 .. Len(s) /\ j \in 1 .. Len(s)
    BY <1>2, <1>4, <2>1 DEF Distinct
  <2>2. CASE i \in 1 .. Len(s) /\ j = Len(s) + 1
    BY <1>2, <1>3, <1>4, <2>2
  <2>3. CASE j \in 1 .. Len(s) /\ i = Len(s) + 1
    BY <1>2, <1>3, <1>4, <2>3
  <2>4. CASE i = Len(s) + 1 /\ j = Len(s) + 1
    BY <2>4
  <2> QED
    BY <1>1, <2>1, <2>2, <2>3, <2>4
<1>5. Distinct(t)
  BY <1>4 DEF Distinct
<1> QED
  BY <1>5 DEF t

\* Names that are all different are as many as there are places.
LEMMA DistinctCount ==
  ASSUME NEW S, NEW s \in Seq(S), Distinct(s), NEW m \in 0 .. Len(s)
  PROVE  Cardinality({s[i] : i \in 1 .. m}) = m
<1> DEFINE To(n) == {s[i] : i \in 1 .. n}
           T == {n \in 0 .. m : IsFiniteSet(To(n)) /\ Cardinality(To(n)) = n}
<1>0. m \in Nat /\ Len(s) \in Nat
  OBVIOUS
<1>1. 0 \in T
  <2>1. To(0) = {}
    OBVIOUS
  <2> QED
    BY <1>0, <2>1, FS_EmptySet
<1>2. ASSUME NEW n \in 1 .. m, n - 1 \in T PROVE n \in T
  <2>1. IsFiniteSet(To(n - 1)) /\ Cardinality(To(n - 1)) = n - 1
    BY <1>2
  <2>2. To(n) = To(n - 1) \cup {s[n]}
    <3>1. 1 .. n = 1 .. n - 1 \cup {n}
      OBVIOUS
    <3> QED
      BY <3>1
  <2>3. s[n] \notin To(n - 1)
    <3>1. ASSUME NEW i \in 1 .. n - 1 PROVE s[i] # s[n]
      <4>1. i \in 1 .. Len(s) /\ n \in 1 .. Len(s) /\ i # n
        BY <1>0
      <4> QED
        BY <4>1 DEF Distinct
    <3> QED
      BY <3>1
  <2>4. IsFiniteSet(To(n)) /\ Cardinality(To(n)) = n - 1 + 1
    <3> HIDE DEF To
    <3>1. /\ IsFiniteSet(To(n - 1) \cup {s[n]})
          /\ Cardinality(To(n - 1) \cup {s[n]}) = Cardinality(To(n - 1)) + 1
      BY <2>1, <2>3, FS_AddElement
    <3> QED
      BY <2>1, <2>2, <3>1
  <2> QED
    BY <1>0, <2>4
<1> HIDE DEF T
<1>3. 0 .. m \subseteq T
  BY <1>0, <1>1, <1>2, UpTo
<1>4. m \in T
  BY <1>0, <1>3
<1> QED
  BY <1>4 DEF T

-----------------------------------------------------------------------------
(***************************************************************************)
(* A lead's loop over the names without a vendor.                          *)
(***************************************************************************)
HitsFrom(provider, hits, n) ==
  IF ProviderKey(points[unknown[n]]) = provider THEN Append(hits, unknown[n]) ELSE hits

HitsLoop(provider, hits, N) ==
  hits = [n \in 0 .. N |-> IF n = 0 THEN <<>> ELSE HitsFrom(provider, hits[n - 1], n)]

LEMMA HitsLoops ==
  ASSUME NEW provider, NEW N \in Nat
  PROVE  \E hits : HitsLoop(provider, hits, N)
<1> DEFINE T == {n \in 0 .. N : \E hits : HitsLoop(provider, hits, n)}
<1>1. 0 \in T
  <2>1. HitsLoop(provider, [n \in 0 .. 0 |-> <<>>], 0)
    BY DEF HitsLoop
  <2> QED
    BY <2>1
<1>2. ASSUME NEW n \in 1 .. N, n - 1 \in T PROVE n \in T
  <2>1. PICK hits : HitsLoop(provider, hits, n - 1)
    BY <1>2
  <2> DEFINE more == [m \in 0 .. n |->
                        IF m = n THEN HitsFrom(provider, hits[n - 1], n) ELSE hits[m]]
  <2>2. HitsLoop(provider, more, n)
    <3>1. ASSUME NEW m \in 0 .. n
          PROVE  more[m] = IF m = 0 THEN <<>> ELSE HitsFrom(provider, more[m - 1], m)
      <4>1. CASE m = n
        BY <4>1
      <4>2. CASE m # n
        BY <2>1, <4>2 DEF HitsLoop
      <4> QED
        BY <4>1, <4>2
    <3> QED
      BY <3>1 DEF HitsLoop
  <2> QED
    BY <2>2
<1>3. 0 .. N \subseteq T
  BY <1>1, <1>2, UpTo
<1> QED
  BY <1>3

\* The names that belong to a provider.
Hits(provider) == {h \in ToSet(unknown) : ProviderKey(points[h]) = provider}

LEMMA HitsAre ==
  ASSUME NEW provider, unknown \in Seq(Own), Distinct(unknown)
  PROVE  /\ HitsOf(provider) \in Seq(Own) /\ Distinct(HitsOf(provider))
         /\ ToSet(HitsOf(provider)) = Hits(provider)
<1> DEFINE N == Len(unknown)
           hits == CHOOSE hits : HitsLoop(provider, hits, N)
           Seen(n) == {h \in {unknown[i] : i \in 1 .. n} : ProviderKey(points[h]) = provider}
           T == {n \in 0 .. N : /\ hits[n] \in Seq(Own) /\ Distinct(hits[n])
                                /\ ToSet(hits[n]) = Seen(n)}
<1>0. N \in Nat
  OBVIOUS
<1>1. HitsLoop(provider, hits, N)
  <2>1. \E o : HitsLoop(provider, o, N)
    BY <1>0, HitsLoops
  <2> QED
    BY <2>1
<1>2. HitsOf(provider) = hits[N]
  BY DEF HitsOf, HitsLoop, HitsFrom
<1> HIDE DEF hits
<1>3. 0 \in T
  <2>1. hits[0] = <<>>
    BY <1>0, <1>1 DEF HitsLoop
  <2>2. ToSet(hits[0]) = {} /\ {unknown[i] : i \in 1 .. 0} = {} /\ hits[0] \in Seq(Own)
    BY <2>1 DEF ToSet
  <2>3. Distinct(hits[0])
    BY <2>1 DEF Distinct
  <2> QED
    BY <1>0, <2>2, <2>3
<1>4. ASSUME NEW n \in 1 .. N, n - 1 \in T PROVE n \in T
  <2>1. hits[n] = HitsFrom(provider, hits[n - 1], n) /\ unknown[n] \in Own
    BY <1>1 DEF HitsLoop
  <2>2. hits[n - 1] \in Seq(Own) /\ Distinct(hits[n - 1]) /\ ToSet(hits[n - 1]) = Seen(n - 1)
    BY <1>4
  <2>3. {unknown[i] : i \in 1 .. n} = {unknown[i] : i \in 1 .. n - 1} \cup {unknown[n]}
    <3>1. 1 .. n = 1 .. n - 1 \cup {n}
      OBVIOUS
    <3> QED
      BY <3>1
  <2>4. ToSet(Append(hits[n - 1], unknown[n])) = ToSet(hits[n - 1]) \cup {unknown[n]}
    BY <2>1, <2>2, AppendSet
  <2>5. unknown[n] \notin ToSet(hits[n - 1])
    <3>1. ASSUME NEW i \in 1 .. n - 1 PROVE unknown[i] # unknown[n]
      <4>1. i \in 1 .. N /\ n \in 1 .. N /\ i # n
        BY <1>0
      <4> QED
        BY <4>1 DEF Distinct
    <3> QED
      BY <2>2, <3>1
  <2>6. hits[n] \in Seq(Own)
    BY <2>1, <2>2 DEF HitsFrom
  <2>7. Distinct(hits[n])
    <3>1. Distinct(Append(hits[n - 1], unknown[n]))
      BY <2>2, <2>5, AppendDistinct
    <3> QED
      BY <2>1, <2>2, <3>1 DEF HitsFrom
  <2>8. ToSet(hits[n]) = Seen(n)
    BY <2>1, <2>2, <2>3, <2>4 DEF HitsFrom
  <2> QED
    BY <2>6, <2>7, <2>8
<1>5. 0 .. N \subseteq T
  <2> HIDE DEF T, N
  <2> QED
    BY <1>0, <1>3, <1>4, UpTo
<1>6. N \in T
  <2> HIDE DEF T, N
  <2> QED
    BY <1>0, <1>5
<1>7. Seen(N) = Hits(provider)
  BY DEF Hits, ToSet
<1> QED
  BY <1>2, <1>6, <1>7

-----------------------------------------------------------------------------
(***************************************************************************)
(* The names without a vendor are the strangers among those resolved, once *)
(* each, and the leads are made of them.                                   *)
(***************************************************************************)
LeadOf(p) ==
  /\ leads[p].count = Cardinality(Hits(p))
  /\ ToSet(leads[p].evidence) \subseteq Hits(p)
  /\ \/ ToSet(leads[p].evidence) = Hits(p)
     \/ Cardinality(ToSet(leads[p].evidence)) = MaxEvidence

LeadInv ==
  /\ points \in Estates
  /\ pc \in {"querying", "resolving", "returned"}
  /\ resolved \subseteq Own /\ waiting \cap resolved = {}
  /\ pc = "querying" => resolved = {}
  /\ unknown \in Seq(Own) /\ Distinct(unknown) /\ ToSet(unknown) \subseteq resolved
  /\ ReportUnknown => ToSet(unknown) = Strangers
  /\ DOMAIN leads = IF pc = "returned" THEN {ProviderKey(points[h]) : h \in ToSet(unknown)} ELSE {}
  /\ \A p \in DOMAIN leads : LeadOf(p)

LEMMA LeadIs ==
  ASSUME NEW provider, unknown \in Seq(Own), Distinct(unknown)
  PROVE  LET lead == Lead(HitsOf(provider))
         IN  /\ lead.count = Cardinality(Hits(provider))
             /\ ToSet(lead.evidence) \subseteq Hits(provider)
             /\ \/ ToSet(lead.evidence) = Hits(provider)
                \/ Cardinality(ToSet(lead.evidence)) = MaxEvidence
<1>1. PICK hits : /\ hits = HitsOf(provider) /\ hits \in Seq(Own) /\ Distinct(hits)
                  /\ ToSet(hits) = Hits(provider)
  BY HitsAre
<1> DEFINE n == Len(hits)
           m == IF n < MaxEvidence THEN n ELSE MaxEvidence
           quoted == SubSeq(hits, 1, m)
<1>2. n \in Nat /\ MaxEvidence \in Nat /\ m \in 0 .. n /\ DOMAIN hits = 1 .. n
  BY <1>1, CtAssumption
<1>3. Lead(HitsOf(provider)) = [count |-> n, evidence |-> quoted]
  BY <1>1 DEF Lead
<1>4. ToSet(hits) = {hits[i] : i \in 1 .. n}
  BY <1>2 DEF ToSet
<1>5. n = Cardinality(Hits(provider))
  <2>1. n \in 0 .. Len(hits)
    BY <1>2
  <2> QED
    BY <1>1, <1>4, <2>1, DistinctCount
<1>6. ToSet(quoted) = {hits[i] : i \in 1 .. m}
  <2> HIDE DEF m
  <2>1. DOMAIN quoted = 1 .. m /\ \A i \in 1 .. m : quoted[i] = hits[i]
    BY <1>1, <1>2
  <2> QED
    BY <2>1 DEF ToSet
<1>7. Cardinality(ToSet(quoted)) = m
  <2> HIDE DEF m
  <2> QED
    BY <1>1, <1>2, <1>6, DistinctCount
<1>8. ToSet(quoted) \subseteq Hits(provider)
  <2>1. 1 .. m \subseteq 1 .. n
    BY <1>2
  <2> HIDE DEF m, n
  <2> QED
    BY <1>1, <1>4, <1>6, <2>1
<1>9. ToSet(quoted) = Hits(provider) \/ Cardinality(ToSet(quoted)) = MaxEvidence
  <2>1. CASE n < MaxEvidence
    <3>1. m = n
      BY <2>1
    <3> HIDE DEF m, n
    <3> QED
      BY <1>1, <1>4, <1>6, <3>1
  <2>2. CASE ~(n < MaxEvidence)
    BY <1>7, <2>2
  <2> QED
    BY <2>1, <2>2
<1> HIDE DEF quoted, n
<1> QED
  BY <1>3, <1>5, <1>8, <1>9

LEMMA InitLeadInv == Init => LeadInv
<1> SUFFICES ASSUME Init PROVE LeadInv
  OBVIOUS
<1>1. unknown = <<>> /\ resolved = {} /\ waiting = {} /\ pc = "querying" /\ DOMAIN leads = {}
  BY DEF Init
<1>2. unknown \in Seq(Own) /\ Len(unknown) = 0 /\ ToSet(unknown) = {}
  BY <1>1 DEF ToSet
<1>3. Distinct(unknown)
  BY <1>2 DEF Distinct
<1>4. Strangers = {}
  BY <1>1 DEF Strangers
<1> QED
  BY <1>1, <1>2, <1>3, <1>4 DEF Init, LeadInv

\* A step that leaves the leads and what they are made of alone.
LEMMA LeadFrame ==
  ASSUME LeadInv, UNCHANGED <<points, unknown, leads, resolved>>,
         pc' = pc \/ (pc = "querying" /\ pc' = "resolving"),
         waiting' \subseteq waiting \/ resolved = {}
  PROVE  LeadInv'
<1>1. \A p : Hits(p)' = Hits(p)
  BY DEF Hits, ToSet
<1>2. \A p : LeadOf(p)' <=> LeadOf(p)
  BY <1>1 DEF LeadOf, ToSet
<1>3. Strangers' = Strangers /\ ToSet(unknown)' = ToSet(unknown)
  BY DEF Strangers, ToSet
<1>4. DOMAIN leads' = IF pc' = "returned" THEN {ProviderKey(points'[h]) : h \in ToSet(unknown)'} ELSE {}
  BY <1>3 DEF LeadInv
<1>5. waiting' \cap resolved' = {} /\ Distinct(unknown)'
  BY DEF LeadInv, Distinct
<1>6. (\A p \in DOMAIN leads : LeadOf(p))'
  BY <1>2 DEF LeadInv
<1>7. (ReportUnknown => ToSet(unknown) = Strangers)' /\ (ToSet(unknown) \subseteq resolved)'
  BY <1>3 DEF LeadInv
<1>8. points' \in Estates /\ pc' \in {"querying", "resolving", "returned"}
  BY DEF LeadInv
<1>9. /\ (resolved \subseteq Own)' /\ (pc = "querying" => resolved = {})'
      /\ unknown' \in Seq(Own)
  BY DEF LeadInv
<1> QED
  BY <1>3, <1>4, <1>5, <1>6, <1>7, <1>8, <1>9 DEF LeadInv

LEMMA EndsLeadInv ==
  ASSUME LeadInv, NEW h \in Own, LookupEnds(h)
  PROVE  LeadInv'
<1>1. /\ pc = "resolving" /\ h \in waiting /\ waiting' = waiting \ {h}
      /\ resolved' = resolved \cup {h} /\ UNCHANGED <<points, pc, leads>>
  BY DEF LookupEnds, Running
<1>2. h \notin resolved /\ h \notin ToSet(unknown)
  BY <1>1 DEF LeadInv
<1> DEFINE new == ThirdParty(h) /\ ~KnownVendor(h)
<1>3. (new /\ ReportUnknown /\ unknown' = Append(unknown, h))
      \/ (~(new /\ ReportUnknown) /\ unknown' = unknown)
  BY DEF LookupEnds, Kept
<1>4. /\ unknown \in Seq(Own) /\ Distinct(unknown) /\ ToSet(unknown) \subseteq resolved
      /\ (ReportUnknown => ToSet(unknown) = Strangers)
  BY DEF LeadInv
<1>5. Strangers' = IF new THEN Strangers \cup {h} ELSE Strangers
  BY <1>1 DEF Strangers, ThirdParty, SameOrg, KnownVendor
<1> HIDE DEF new
<1>6. CASE new /\ ReportUnknown /\ unknown' = Append(unknown, h)
  <2>1. /\ Append(unknown, h) \in Seq(Own) /\ Distinct(Append(unknown, h))
        /\ ToSet(Append(unknown, h)) = ToSet(unknown) \cup {h}
    BY <1>2, <1>4, AppendSet, AppendDistinct
  <2>2. unknown' \in Seq(Own) /\ Distinct(unknown)' /\ ToSet(unknown)' = ToSet(unknown) \cup {h}
    BY <1>6, <2>1 DEF Distinct, ToSet
  <2>3. DOMAIN leads = {}
    BY <1>1 DEF LeadInv
  <2>4. DOMAIN leads' = {} /\ pc' = "resolving"
    BY <1>1, <2>3
  <2>5. points' \in Estates /\ resolved' \subseteq Own /\ waiting' \cap resolved' = {}
    BY <1>1 DEF LeadInv
  <2>6. ToSet(unknown)' \subseteq resolved' /\ ToSet(unknown)' = Strangers'
    BY <1>1, <1>4, <1>5, <1>6, <2>2
  <2> QED
    BY <2>2, <2>4, <2>5, <2>6 DEF LeadInv
<1>7. CASE ~(new /\ ReportUnknown) /\ unknown' = unknown
  <2>1. unknown' \in Seq(Own) /\ Distinct(unknown)' /\ ToSet(unknown)' = ToSet(unknown)
    BY <1>4, <1>7 DEF Distinct, ToSet
  <2>2. DOMAIN leads = {}
    BY <1>1 DEF LeadInv
  <2>3. DOMAIN leads' = {} /\ pc' = "resolving"
    BY <1>1, <2>2
  <2>4. points' \in Estates /\ resolved' \subseteq Own /\ waiting' \cap resolved' = {}
    BY <1>1 DEF LeadInv
  <2>5. ToSet(unknown)' \subseteq resolved'
    BY <1>1, <1>4, <2>1
  <2>6. ReportUnknown => ToSet(unknown)' = Strangers'
    BY <1>4, <1>5, <1>7, <2>1
  <2> QED
    BY <2>1, <2>3, <2>4, <2>5, <2>6 DEF LeadInv
<1> QED
  BY <1>3, <1>6, <1>7

LEMMA ReturnLeadInv ==
  ASSUME LeadInv, Return
  PROVE  LeadInv'
<1>1. /\ pc' = "returned" /\ UNCHANGED <<points, waiting, unknown, resolved>>
      /\ leads' = [provider \in {ProviderKey(points[h]) : h \in ToSet(unknown)} |->
                     Lead(HitsOf(provider))]
  BY DEF Return
<1>2. /\ unknown \in Seq(Own) /\ Distinct(unknown) /\ points \in Estates /\ resolved \subseteq Own
      /\ waiting \cap resolved = {} /\ ToSet(unknown) \subseteq resolved
      /\ (ReportUnknown => ToSet(unknown) = Strangers)
  BY DEF LeadInv
<1>3. \A p : Hits(p)' = Hits(p)
  BY <1>1 DEF Hits, ToSet
<1>4. ASSUME NEW p \in DOMAIN leads' PROVE LeadOf(p)'
  <2>1. leads'[p] = Lead(HitsOf(p))
    BY <1>1
  <2>2. /\ leads'[p].count = Cardinality(Hits(p))
        /\ ToSet(leads'[p].evidence) \subseteq Hits(p)
        /\ \/ ToSet(leads'[p].evidence) = Hits(p)
           \/ Cardinality(ToSet(leads'[p].evidence)) = MaxEvidence
    BY <1>2, <2>1, LeadIs
  <2> QED
    BY <1>3, <2>2 DEF LeadOf, ToSet
<1>5. Strangers' = Strangers /\ ToSet(unknown)' = ToSet(unknown) /\ Distinct(unknown)'
  BY <1>1, <1>2 DEF Strangers, ToSet, Distinct
<1>6. DOMAIN leads' = {ProviderKey(points'[h]) : h \in ToSet(unknown)'}
  BY <1>1, <1>5
<1> QED
  BY <1>1, <1>2, <1>4, <1>5, <1>6 DEF LeadInv

LEMMA StepLeadInv == LeadInv /\ [Next]_vars => LeadInv'
<1> SUFFICES ASSUME LeadInv, [Next]_vars PROVE LeadInv'
  OBVIOUS
<1>1. ASSUME NEW s \in Source, Query(s) PROVE LeadInv'
  BY <1>1, LeadFrame DEF Query
<1>2. CASE Skip
  <2>1. /\ pc = "querying" /\ pc' = "returned"
        /\ UNCHANGED <<points, waiting, unknown, leads, resolved>>
    BY <1>2 DEF Skip
  <2>2. resolved = {} /\ ToSet(unknown) = {} /\ DOMAIN leads = {}
    BY <2>1 DEF LeadInv
  <2>3. Strangers' = Strangers /\ ToSet(unknown)' = {} /\ DOMAIN leads' = {}
    BY <2>1, <2>2 DEF Strangers, ToSet
  <2>4. Distinct(unknown)' /\ unknown' \in Seq(Own)
    BY <2>1 DEF LeadInv, Distinct
  <2>5. ReportUnknown => ToSet(unknown)' = Strangers'
    BY <2>2, <2>3 DEF LeadInv
  <2>6. points' \in Estates /\ resolved' = {}
    BY <2>1, <2>2 DEF LeadInv
  <2>7. {ProviderKey(points'[h]) : h \in ToSet(unknown)'} = {}
    BY <2>3
  <2> QED
    BY <2>1, <2>3, <2>4, <2>5, <2>6, <2>7 DEF LeadInv
<1>3. CASE Merge
  <2>1. resolved = {}
    BY <1>3 DEF Merge, LeadInv
  <2> QED
    BY <1>3, <2>1, LeadFrame DEF Merge
<1>4. CASE Return
  BY <1>4, ReturnLeadInv
<1>5. ASSUME NEW h \in Own, LookupFails(h) PROVE LeadInv'
  BY <1>5, LeadFrame DEF LookupFails
<1>6. ASSUME NEW h \in Own, LookupEnds(h) PROVE LeadInv'
  BY <1>6, EndsLeadInv
<1>7. CASE Cancel \/ UNCHANGED vars
  BY <1>7, LeadFrame DEF Cancel, vars
<1> QED
  BY <1>1, <1>2, <1>3, <1>4, <1>5, <1>6, <1>7 DEF Next, Step

LEMMA LeadInvHolds == Spec => []LeadInv
BY InitLeadInv, StepLeadInv, PTL DEF Spec

\* One lead per provider, however the lookups interleave: every stranger's target is
\* covered by exactly one, and each counts all the names whose target it covers and
\* quotes as many as fit.
THEOREM LeadsAreExact == Spec => []LeadsExact
<1>1. LeadInv => LeadsExact
  <2> SUFFICES ASSUME LeadInv, pc = "returned", ReportUnknown
               PROVE  /\ \A h \in Strangers :
                           Cardinality({p \in DOMAIN leads : Covers(p, points[h])}) = 1
                      /\ \A p \in DOMAIN leads :
                           LET there  == {h \in Strangers : Covers(p, points[h])}
                               quoted == ToSet(leads[p].evidence)
                           IN  /\ leads[p].count = Cardinality(there) /\ there # {}
                               /\ quoted \subseteq there
                               /\ quoted = there \/ Cardinality(quoted) = MaxEvidence
    BY DEF LeadsExact
  <2>1. /\ ToSet(unknown) = Strangers /\ Strangers \subseteq Own
        /\ DOMAIN leads = {ProviderKey(points[h]) : h \in Strangers}
        /\ \A p \in DOMAIN leads : LeadOf(p)
    BY DEF LeadInv, Strangers
  <2>2. \A h \in Strangers : points[h] \in Hostname
    <3>1. points \in [Own -> Hostname \cup {NoTarget}]
      BY CtAssumption DEF LeadInv
    <3> QED
      BY <2>1, <3>1 DEF Strangers
  <2>3. ASSUME NEW p \in DOMAIN leads, NEW h \in Strangers
        PROVE  Covers(p, points[h]) <=> p = ProviderKey(points[h])
    <3>1. PICK g \in Strangers : p = ProviderKey(points[g])
      BY <2>1
    <3>2. points[h] \in Hostname /\ points[g] \in Hostname
      BY <2>2
    <3> QED
      BY <3>1, <3>2, KeyCovers, CoverIsKey
  <2>4. ASSUME NEW h \in Strangers
        PROVE  Cardinality({p \in DOMAIN leads : Covers(p, points[h])}) = 1
    <3>1. {p \in DOMAIN leads : Covers(p, points[h])} = {ProviderKey(points[h])}
      BY <2>1, <2>3
    <3> QED
      BY <3>1, FS_Singleton
  <2>5. ASSUME NEW p \in DOMAIN leads
        PROVE  {h \in Strangers : Covers(p, points[h])} = Hits(p) /\ Hits(p) # {}
    <3>1. {h \in Strangers : Covers(p, points[h])} = Hits(p)
      BY <2>1, <2>3 DEF Hits
    <3>2. PICK g \in Strangers : p = ProviderKey(points[g])
      BY <2>1
    <3> QED
      BY <2>1, <3>1, <3>2 DEF Hits
  <2> QED
    BY <2>1, <2>4, <2>5 DEF LeadOf
<1> QED
  BY <1>1, LeadInvHolds, PTL

=============================================================================
