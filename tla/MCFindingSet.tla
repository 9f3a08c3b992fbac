---------------------------- MODULE MCFindingSet ----------------------------
(***************************************************************************)
(* Reports for FindingSet about three vendors.  "Zoom" and "ZOOM" are two  *)
(* spellings of one vendor in two signature packs.  Every report is one a  *)
(* detector can make: contested ones name a tenant after a candidate, the  *)
(* others quote a record of the scanned domain.                            *)
(***************************************************************************)
EXTENDS FindingSet

MCVendor == {"Okta", "Zoom", "ZOOM", "Atlassian"}
MCKey == [v \in MCVendor |-> CASE v = "Atlassian" -> 1 [] v = "Okta" -> 2 [] OTHER -> 3]
MCMethod == {"TXT", "MX", "SPF", "A", "CNAME", "HTTP"}
MCFact == {"zoom-token", "zoom-mail", "zoom-mail-2", "zoom-sender",
           "okta-tenant", "okta-login", "okta-alias", "okta-mail", "okta-token"}

Report(vendor, category, confidence, contested, label, method, fact) ==
  [vendor |-> vendor, category |-> category, confidence |-> confidence,
   contested |-> contested, labels |-> {label},
   evidence |-> {[method |-> method, fact |-> fact]}]

MCReports ==
  {Report("Zoom", "Meetings", "medium", FALSE, "txt-zoom", "TXT", "zoom-token"),
   \* a second signature that matches the same record
   Report("ZOOM", "Video", "medium", FALSE, "txt-zoom-2", "TXT", "zoom-token"),
   Report("Zoom", "Meetings", "low", FALSE, "mx-zoom", "MX", "zoom-mail"),
   Report("Zoom", "none", "low", FALSE, "mx-zoom", "MX", "zoom-mail-2"),
   Report("Zoom", "Meetings", "medium", FALSE, "spf-zoom", "SPF", "zoom-sender"),
   Report("Okta", "Identity", "medium", TRUE, "vanity-okta", "A", "okta-tenant"),
   Report("Okta", "Identity", "medium", TRUE, "http-okta", "HTTP", "okta-login"),
   Report("Okta", "Identity", "low", TRUE, "vanity-okta-2", "CNAME", "okta-alias"),
   Report("Okta", "Identity", "low", FALSE, "mx-okta", "MX", "okta-mail"),
   Report("Okta", "Identity", "high", FALSE, "txt-okta", "TXT", "okta-token"),
   Report("Atlassian", "Work", "medium", FALSE, "txt-atlassian", "TXT", "zoom-token")}

\* Reports of two signatures that match the same TXT record but disagree on its
\* worth, which the signature loader admits.
OverlapReports ==
  {Report("Zoom", "Meetings", "low", FALSE, "txt-zoom-3", "TXT", "zoom-token"),
   Report("Zoom", "Meetings", "low", FALSE, "mx-zoom", "MX", "zoom-mail"),
   Report("Zoom", "Meetings", "medium", FALSE, "txt-zoom", "TXT", "zoom-token")}

MCLabel == UNION {f.labels : f \in MCReports \cup OverlapReports}

ASSUME MCFindingSetAssumption ==
  Reports = MCReports => CappedAtSource /\ EvidenceGiven /\ EvidenceDecides

=============================================================================
