---------------------------- MODULE SignatureLoad ----------------------------
(***************************************************************************)
(* Signature packs and their loading (internal/signature): every pack is   *)
(* read in the order of its file name, its signatures take the defaults of *)
(* the pack, are validated, and must have ids of their own; a parked one   *)
(* is checked like the others and then put aside.                          *)
(*                                                                         *)
(* A query is a sequence of labels, with the placeholders as labels of     *)
(* their own; needles and ids are what the packs write.                    *)
(***************************************************************************)
EXTENDS Naturals, Sequences, SequencesExt

CONSTANTS
  Text,    \* what packs write
  NoText,  \* the empty string
  Lower    \* Lower[n]: the needle or label n in lower case

ASSUME SignatureLoadAssumption == Lower[NoText] = NoText

Type == {"txt", "cname", "mx", "ns", "vanity_a", "vanity_cname", "http", "spf_include",
         "dmarc_rua", "cname_target"}

VanityType == {"vanity_a", "vanity_cname"}

Confidence == {"low", "medium", "high"}

(***************************************************************************)
(* A signature as read: match is the set of the keys given under match, of *)
(* which contains is the value of the one that other types than http use;  *)
(* url says whether the query is an http or https URL.  A pack is either   *)
(* unreadable (a read error, a parse error, an unknown key) or a version,  *)
(* its defaults and its signatures.                                        *)
(***************************************************************************)
Signature ==
  [id : Text, vendor : Text, type : Text, query : Seq(Text), url : BOOLEAN,
   match : SUBSET {"contains", "present", "absent", "status"}, contains : Text,
   confidence : Text, category : Text, disabled : BOOLEAN]

Pack == [readable : BOOLEAN, version : Nat, category : Text, confidence : Text,
         signatures : Seq(Signature)]

NeedsCandidate(sig) == \E i \in DOMAIN sig.query : sig.query[i] = "{candidate}"

BareSuffix(query) ==
  /\ query[1] # "*"
  /\ \A i \in DOMAIN query : query[i] \notin {"{domain}", "{candidate}"}

Matches(sig, keys) == sig.match \cap keys # {}

Valid(sig) ==
  /\ sig.id # NoText /\ sig.vendor # NoText /\ sig.query # <<>>
  /\ sig.type \in Type /\ sig.confidence \in Confidence
  /\ CASE sig.type = "http" ->
            /\ sig.url
            /\ Matches(sig, {"present", "absent", "status"})
            /\ ~({"present", "absent"} \subseteq sig.match)
            /\ ~Matches(sig, {"contains"})
       [] sig.type \in VanityType ->
            NeedsCandidate(sig) /\ ~Matches(sig, {"contains", "present", "absent"})
       [] sig.type = "cname_target" ->
            BareSuffix(sig.query) /\ ~Matches(sig, {"contains", "present", "absent"})
       [] OTHER -> Matches(sig, {"contains"}) /\ ~Matches(sig, {"present", "absent"})

FirstGiven(s) == IF s[1] # NoText THEN s[1] ELSE s[2]

\* The defaults of the pack, and medium in the end.
Defaulted(sig, pack) ==
  [sig EXCEPT !.category = FirstGiven(<<@, pack.category>>),
              !.confidence = FirstGiven(<<FirstGiven(<<@, pack.confidence>>), "medium">>)]

Normalised(sig) == [sig EXCEPT !.contains = IF sig.type = "http" THEN @ ELSE Lower[@]]

-----------------------------------------------------------------------------
(***************************************************************************)
(* LoadFS.  A load is the set built so far, the ids seen and whether an    *)
(* error has ended it.                                                     *)
(***************************************************************************)
EmptyLoad == [sigs |-> <<>>, disabled |-> <<>>, seen |-> {}, failed |-> FALSE]

\* Mutant: a parked signature does not take its id.
LoadEnabledId(load, sig) ==
  IF load.failed \/ ~Valid(sig) \/ sig.id \in load.seen THEN [load EXCEPT !.failed = TRUE]
  ELSE IF sig.disabled THEN [load EXCEPT !.disabled = Append(@, sig)]
  ELSE [load EXCEPT !.sigs = Append(@, Normalised(sig)), !.seen = @ \cup {sig.id}]

LoadSignature(load, sig) ==
  IF load.failed \/ ~Valid(sig) \/ sig.id \in load.seen THEN [load EXCEPT !.failed = TRUE]
  ELSE LET marked == [load EXCEPT !.seen = @ \cup {sig.id}]
       IN  IF sig.disabled THEN [marked EXCEPT !.disabled = Append(@, sig)]
           ELSE [marked EXCEPT !.sigs = Append(@, Normalised(sig))]

LoadPack(load, pack) ==
  IF load.failed \/ ~pack.readable \/ pack.version # 1 \/ pack.signatures = <<>>
  THEN [load EXCEPT !.failed = TRUE]
  ELSE LET upto[n \in 0 .. Len(pack.signatures)] ==
             IF n = 0 THEN load ELSE LoadSignature(upto[n - 1], Defaulted(pack.signatures[n], pack))
       IN  upto[Len(pack.signatures)]

\* packs is the directory in the order of the file names.
LoadFS(packs) ==
  LET upto[n \in 0 .. Len(packs)] ==
        IF n = 0 THEN EmptyLoad ELSE LoadPack(upto[n - 1], packs[n])
      load == upto[Len(packs)]
  IN  [load EXCEPT !.failed = @ \/ packs = <<>> \/ load.sigs = <<>>]

-----------------------------------------------------------------------------
(***************************************************************************)
(* Reference definition, without the loop: a directory is sound when       *)
(* everything in it is, and what is loaded from a sound one.               *)
(***************************************************************************)
Entry(packs) == UNION {{<<i, j>> : j \in DOMAIN packs[i].signatures} : i \in DOMAIN packs}

EntryAt(packs, e) == Defaulted(packs[e[1]].signatures[e[2]], packs[e[1]])

Sound(packs) ==
  /\ \A i \in DOMAIN packs : /\ packs[i].readable /\ packs[i].version = 1
                             /\ packs[i].signatures # <<>>
  /\ \A e \in Entry(packs) : Valid(EntryAt(packs, e))
  /\ \A d, e \in Entry(packs) : EntryAt(packs, d).id = EntryAt(packs, e).id => d = e
  /\ \E e \in Entry(packs) : ~EntryAt(packs, e).disabled

Enabled(packs) ==
  {Normalised(EntryAt(packs, e)) : e \in {d \in Entry(packs) : ~EntryAt(packs, d).disabled}}

Parked(packs) == {EntryAt(packs, e) : e \in {d \in Entry(packs) : EntryAt(packs, d).disabled}}

=============================================================================
