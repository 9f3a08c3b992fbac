-------------------------------- MODULE MCSpf --------------------------------
(***************************************************************************)
(* Every graph of three names whose records have up to two terms, and one  *)
(* name that publishes none.                                               *)
(***************************************************************************)
EXTENDS Spf

MCHost == {"acme.example", "a.example", "b.example", "mail.example"}
Senders == {"a.example", "b.example", "mail.example"}

MCTerms == {[host |-> h, recurse |-> r] : h \in Senders, r \in BOOLEAN}
           \cup {[host |-> "acme.example", recurse |-> TRUE]}

Include1 == {<<[host |-> h, recurse |-> TRUE]>> : h \in MCHost}

MCRecords == {<<s, t>> : s, t \in MCTerms}

MCPublications ==
  {[h \in MCHost |-> CASE h = "acme.example" -> r [] h = "a.example" -> a
                       [] h = "b.example" -> b [] OTHER -> NoRecord] :
     r \in MCRecords,
     a \in Include1 \cup {<<[host |-> "b.example", recurse |-> TRUE],
                            [host |-> "mail.example", recurse |-> FALSE]>>},
     b \in Include1 \cup {NoRecord, <<>>}}

=============================================================================
