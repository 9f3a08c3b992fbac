-------------------------------- MODULE MCCt --------------------------------
(***************************************************************************)
(* Ct with three aggregators over four names of the organisation and one of  *)
(* a neighbour.  The targets are an internal alias, hosts of two known     *)
(* vendors, one of them matched by a glob, hosts of unknown providers,     *)
(* some of them under a country code, its second level itself, and a host  *)
(* whose name only ends like a vendor's.                                   *)
(***************************************************************************)
EXTENDS Ct

MCLabel == {"acme", "example", "www", "zendesk", "notzendesk", "com", "au", "cdn", "host",
            "mkto-*", "mkto-1"}

MCLength ==
  [l \in MCLabel |-> CASE l = "au" -> 2 [] l = "com" -> 3 [] l = "cdn" -> 3 [] l = "www" -> 3
                       [] OTHER -> 5]

MCFits == [l \in MCLabel |-> IF l = "mkto-*" THEN {"mkto-1"} ELSE {l}]

MCDomain == <<"acme", "example">>
MCPatterns == {<<"zendesk", "com">>, <<"mkto-*", "com">>}

Alias == <<"www", "acme", "example">>
Vendor == <<"acme", "zendesk", "com">>
Lookalike == <<"acme", "notzendesk", "com">>
Tracker == <<"mkto-1", "com">>
Cdn == <<"acme", "cdn", "host">>
CdnToo == <<"www", "cdn", "host">>
Australian == <<"acme", "cdn", "com", "au">>
AustralianToo == <<"www", "host", "com", "au">>
SecondLevel == <<"com", "au">>

MCEstates ==
  {<<Vendor, Cdn, CdnToo, Alias>>, <<Cdn, CdnToo, Cdn, NoTarget>>,
   <<Australian, AustralianToo, Lookalike, Vendor>>, <<Australian, SecondLevel, Cdn, SecondLevel>>,
   <<Tracker, Alias, NoTarget, Cdn>>}

\* Entry 12 is a wildcard under name 2, 14 name 4 in other letters.
MCEntry == {1, 2, 3, 4, 5, 12, 14}
MCNamed == [e \in MCEntry |-> IF e > 10 THEN e - 10 ELSE e]

MCListings == {{1, 12}, {2, 3, 14}, {1, 4, 5, 14}, {5}}

=============================================================================
