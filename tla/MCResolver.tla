----------------------------- MODULE MCResolver -----------------------------
(***************************************************************************)
(* Resolver with two upstreams that answer differently, truncate, fail or  *)
(* stay silent.                                                            *)
(***************************************************************************)
EXTENDS Resolver, TLC

MCReply(rcode, truncated, records) ==
  [rcode |-> rcode, truncated |-> truncated, records |-> records]

MCReplies ==
  {MCReply("NOERROR", FALSE, "all"), MCReply("NXDOMAIN", FALSE, "none"),
   MCReply("NOERROR", TRUE, "some"), MCReply("SERVFAIL", FALSE, "none"),
   MCReply("NOREPLY", FALSE, "none")}

=============================================================================
