-------------------------------- MODULE MCHttp --------------------------------
(***************************************************************************)
(* Http with one signature of each kind, of which one takes candidates: a  *)
(* short one, a long one and one that makes no URL.  Two goroutines, one   *)
(* slot, and pages longer than the cap, whose titles name the vendor, the  *)
(* organisation, another one, or nobody.                                   *)
(* Each site keeps the contract that match states for its signature        *)
(* (internal/signature/signature.go:80-89).                                *)
(***************************************************************************)
EXTENDS Http

MCLower ==
  [Acme |-> "acme", Corp |-> "corp", Atlantic |-> "atlantic", Beverage |-> "beverage",
   Holdings |-> "holdings", Box |-> "box", box |-> "box", car |-> "car", Rentals |-> "rentals",
   Sign |-> "sign", In |-> "in", at |-> "at", The |-> "the", of |-> "of"]

MCLetter == DOMAIN MCLower
MCUpper == MCLetter \ {"box", "car", "at", "of"}
MCConnectors == {<<"of">>, <<"the">>}
MCGenericTitleWords == {<<"holdings">>, <<"sign">>, <<"in">>}
MCBrief == {<<"In">>, <<"of">>, <<"at">>}

MCTitles ==
  [atlantic |-> <<"Atlantic", " ", "box", " ", "Beverage", " ", "Holdings", "|", "Sign", " ", "In">>,
   prose    |-> <<"Atlantic", " ", "at", " ", "Beverage", "|", "Box", " ", "The", "|", "Holdings">>,
   own      |-> <<"The", " ", "Acme", "Corp", " ", "Holdings", " ", "of", "|", "Box">>,
   boxcar   |-> <<"Box", "car", " ", "Rentals">>]

MCMisread == {<<>>, <<"Beverage", " ", "Holdings">>, MCTitles.atlantic}

MCVendor == <<"Box">>

MCSignatures ==
  <<[match |-> "present", status |-> {}, candidate |-> FALSE, confidence |-> "high",
     vendor |-> MCVendor],
    [match |-> "absent", status |-> {}, candidate |-> TRUE, confidence |-> "high",
     vendor |-> MCVendor],
    [match |-> "status", status |-> {403}, candidate |-> FALSE, confidence |-> "low",
     vendor |-> MCVendor]>>

MCCandidates == <<"abh", "acme%corp", "acmecorp">>

MCName == [c \in ToSet(MCCandidates) |-> IF c = "abh" THEN <<"abh">> ELSE <<"acme", "corp">>]
MCFirstLabel == <<"acme">>

\* Cutting the forms out in turn and reading the words in a loop finds what the reference
\* definition describes, in every title of up to four of these parts.
MCParts == {<<"Box">>, <<"car">>, <<" ">>, <<"|">>, <<"Rentals", " ">>, <<"Sign", " ", "of", " ">>}

MCHttpAssumption ==
  \A title \in {FlattenSeq(parts) : parts \in BoundedSeq(MCParts, 4)} :
    \A vendor \in {<<"Box">>, <<"Rentals", " ", "Box">>} :
      StandsAlone(title, vendor) =>
        (ConflictingOrg(title, MCFirstLabel, MCFirstLabel, vendor) <=>
           NamesOther(title, MCFirstLabel, MCFirstLabel, vendor))

ASSUME MCHttpAssumption

\* Inside a word the vendor's name hides another's: "Boxcar Rentals" is no stranger of Box.
MCHidden(vendor) == ~ConflictingOrg(MCTitles.boxcar, MCFirstLabel, MCFirstLabel, vendor)

ASSUME MCHiddenAssumption == MCHidden(MCVendor) /\ ~MCHidden(<<"Sign">>)

\* What the theorems about findings assume of the sites.
ASSUME MCTheoremAssumption == Honest /\ Recognisable

MCSite(tenant, status, content) == [tenant |-> tenant, status |-> status, content |-> content]

MCSites ==
  [p \in Probe |->
    CASE p[1] = 1 -> {MCSite(TRUE, 403, <<"atlantic", "marker">>),
                      MCSite(TRUE, 200, <<"text", "text", "marker">>), MCSite(FALSE, 200, <<"text">>)}
      [] p = <<2, 2>> -> {MCSite(FALSE, 200, <<"marker">>)}
      [] p = <<2, 1>> -> {MCSite(TRUE, 200, <<"text", "own">>), MCSite(FALSE, 404, <<>>)}
      [] p = <<2, 3>> -> {MCSite(TRUE, 200, <<"text", t>>) : t \in DOMAIN MCTitles}
                         \cup {MCSite(FALSE, 200, <<"text", "marker">>),
                               MCSite(TRUE, 200, <<"odd", "atlantic">>)}
      [] p[1] = 3 -> {MCSite(TRUE, 403, <<"text">>), MCSite(FALSE, 200, <<"text">>)}]

=============================================================================
