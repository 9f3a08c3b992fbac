------------------------------ MODULE Namespace ------------------------------
(***************************************************************************)
(* Whose tenant a page describes (internal/detect/namespace.go).  A title  *)
(* and the name of a vendor are texts: letters, or groups of letters that  *)
(* stay together, with blanks and marks between the words.  Punctuation at *)
(* the edges of a word is left out.                                        *)
(***************************************************************************)
EXTENDS Naturals, Sequences, SequencesExt

CONSTANTS
  Letter,
  Upper,              \* the upper-case ones
  Lower,              \* Lower[l]: its lower case
  Blank,
  Mark,               \* between the segments of a title, as "|" or ":"; or alone, as "!"
  Connectors,         \* words such as "of", in lower case
  GenericTitleWords,  \* words of ordinary page furniture, in lower case
  Brief               \* words of less than three characters

ASSUME NamespaceAssumption ==
  /\ DOMAIN Lower = Letter /\ Upper \subseteq Letter
  /\ Blank \notin Letter /\ Mark \notin Letter /\ Blank # Mark

Text == Seq(Letter \cup {Blank, Mark})

\* What Words makes of a text: the words, and the marks between them.
Word == Seq(Letter) \cup {<<Mark>>}

Fold(word) == [i \in DOMAIN word |-> Lower[word[i]]]

Capital   == {w \in Seq(Letter) : w # <<>> /\ w[1] \in Upper}
Connector == {w \in Seq(Letter) : Fold(w) \in Connectors}
Generic   == {w \in Seq(Letter) : Fold(w) \in GenericTitleWords}

\* Lower case, letters only.
Normalise(words) == Fold(FlattenSeq(words))

-----------------------------------------------------------------------------
\* FieldsFunc and Fields: a blank or a mark closes the word that is open.
Close(s) == IF s.open = <<>> THEN s.words ELSE Append(s.words, s.open)

Scanned(s, char) ==
  CASE char \in Letter -> [words |-> s.words, open |-> Append(s.open, char)]
    [] char = Mark     -> [words |-> Append(Close(s), <<Mark>>), open |-> <<>>]
    [] OTHER           -> [words |-> Close(s), open |-> <<>>]

Words(text) ==
  LET scan[n \in 0 .. Len(text)] ==
        IF n = 0 THEN [words |-> <<>>, open |-> <<>>] ELSE Scanned(scan[n - 1], text[n])
  IN  Close(scan[Len(text)])

Alike(a, b) == a = b \/ ({a, b} \subseteq Letter /\ Lower[a] = Lower[b])

At(form, text, i) ==
  /\ i + Len(form) - 1 <= Len(text)
  /\ \A k \in 1 .. Len(form) : Alike(form[k], text[i + k - 1])

\* What is left of the first n characters; the occurrence found last ends at end.
Passed(s, text, form, n) ==
  LET end == IF n > s.end /\ At(form, text, n) THEN n + Len(form) - 1 ELSE s.end
  IN  [left |-> Append(s.left, IF n <= end THEN Blank ELSE text[n]), end |-> end]

\* removeFold: from left to right, every occurrence becomes blank, also inside a word.
\* The code writes one blank for all of it, which makes the same words.
RemoveFold(text, form) ==
  LET pass[n \in 0 .. Len(text)] ==
        IF n = 0 THEN [left |-> <<>>, end |-> 0] ELSE Passed(pass[n - 1], text, form, n)
  IN  pass[Len(text)].left

\* vendorForms: the whole name, and then those of its words that tell something.
Telling(word) == word # <<Mark>> /\ word \notin Brief \cup Generic

\* Each form is taken out of what the ones before it have left.
Cleaned(title, vendor) ==
  LET words == Words(vendor)
      left[n \in 0 .. Len(words)] ==
        IF n = 0 THEN RemoveFold(title, vendor)
        ELSE IF Telling(words[n]) THEN RemoveFold(left[n - 1], words[n])
        ELSE left[n - 1]
  IN  left[Len(words)]

-----------------------------------------------------------------------------
(***************************************************************************)
(* properNounPhrases: the run of words so far, how many of them name       *)
(* something, and the phrases found.  A mark ends the run as any other     *)
(* word does that is no part of a name.                                    *)
(***************************************************************************)
Fresh == [run |-> <<>>, named |-> 0, phrases |-> {}]

\* Trailing connectors do not belong to a name.
Trimmed(run) == SubSeq(run, 1, SelectLastInSeq(run, LAMBDA w : w \notin Connector))

Flush(s) ==
  [run |-> <<>>, named |-> 0,
   phrases |-> IF s.named >= 2 /\ Len(Trimmed(s.run)) >= 2
               THEN s.phrases \cup {Trimmed(s.run)} ELSE s.phrases]

Read(s, w) ==
  IF w \in Capital
  THEN [s EXCEPT !.run = Append(@, w), !.named = IF w \in Generic THEN @ ELSE @ + 1]
  ELSE IF w \in Connector /\ s.run # <<>> THEN [s EXCEPT !.run = Append(@, w)]
  ELSE Flush(s)

ProperNounPhrases(words) ==
  LET read[n \in 0 .. Len(words)] == IF n = 0 THEN Fresh ELSE Read(read[n - 1], words[n])
  IN  Flush(read[Len(words)]).phrases

Within(a, b) == \E i \in 0 .. Len(b) - Len(a) : SubSeq(b, i + 1, i + Len(a)) = a

\* overlaps: either name contains the other.
Overlaps(a, b) == a # <<>> /\ b # <<>> /\ (Within(a, b) \/ Within(b, a))

\* Some phrase of the title is neither about the candidate nor about the domain.
ConflictingOrg(title, candidate, label, vendor) ==
  \E phrase \in ProperNounPhrases(Words(Cleaned(title, vendor))) :
    LET name == Normalise(phrase)
    IN  ~Overlaps(name, candidate) /\ ~Overlaps(name, label)

-----------------------------------------------------------------------------
(***************************************************************************)
(* Reference definition, without the loops.  A name is a stretch of words  *)
(* that begins with a capital, goes on with capitals and connectors, as    *)
(* far as it can on both sides, and ends with a word that is no connector; *)
(* two of the stretch's capitals say more than page furniture does.        *)
(***************************************************************************)
IsStretch(words, i, j) ==
  LET Goes(k) == words[k] \in Capital \cup Connector
  IN  /\ words[i] \in Capital /\ \A k \in i .. j : Goes(k)
      /\ j < Len(words) => ~Goes(j + 1)
      /\ ~\E h \in 1 .. i - 1 : words[h] \in Capital /\ \A k \in h .. i : Goes(k)

IsName(words, i, j) ==
  \E last \in j .. Len(words) :
    /\ IsStretch(words, i, last)
    /\ j > i /\ words[j] \notin Connector /\ \A k \in j + 1 .. last : words[k] \in Connector
    /\ \E g, h \in i .. last : g # h /\ {words[g], words[h]} \subseteq Capital \ Generic

Forms(vendor) == {vendor} \cup {w \in ToSet(Words(vendor)) : Telling(w)}

Covered(form, text, n) == \E i \in 1 .. n : At(form, text, i) /\ n <= i + Len(form) - 1

\* The title without its vendor: whatever spells the name or a word of it.
Blanked(title, vendor) ==
  [n \in 1 .. Len(title) |->
     IF \E form \in Forms(vendor) : Covered(form, title, n) THEN Blank ELSE title[n]]

\* The vendor's name is never a part of another word.
StandsAlone(title, vendor) ==
  /\ \A form \in Forms(vendor) : \A i \in 1 .. Len(title) :
       At(form, title, i) =>
         /\ i > 1 => title[i - 1] \notin Letter
         /\ i + Len(form) <= Len(title) => title[i + Len(form)] \notin Letter
  /\ \A i, j \in 1 .. Len(title) :
       At(vendor, title, i) /\ At(vendor, title, j) /\ i < j => i + Len(vendor) <= j

NamesOther(title, candidate, label, vendor) ==
  LET words == Words(Blanked(title, vendor))
  IN  \E i, j \in DOMAIN words :
        /\ IsName(words, i, j)
        /\ LET name == Normalise(SubSeq(words, i, j))
           IN  ~Overlaps(name, candidate) /\ ~Overlaps(name, label)

=============================================================================
