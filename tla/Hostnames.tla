------------------------------ MODULE Hostnames ------------------------------
(***************************************************************************)
(* What the detectors ask of host names: whose they are (sameOrg in        *)
(* internal/detect/detect.go), which vendor hosts them (hostMatchesSuffix) *)
(* and what provider to file them under (providerKey, both in              *)
(* internal/detect/ct.go).  A name is its sequence of labels, in lower     *)
(* case and without the final dot.                                         *)
(***************************************************************************)
EXTENDS Naturals, Sequences, SequencesExt

CONSTANTS
  Label,   \* the labels of host names, and those of patterns
  Length,  \* Length[l]: how many characters l has
  Fits     \* Fits[l]: the labels that l, as a label of a pattern, stands for

ASSUME HostnamesAssumption ==
  /\ Length \in [Label -> Nat]
  /\ Fits \in [Label -> SUBSET Label]

Hostname == Seq(Label) \ {<<>>}

\* Under a suffix, on a label boundary: "notzendesk.com" is not under "zendesk.com".
SameOrg(host, domain) == IsSuffix(domain, host)

Trailing(host, n) == SubSeq(host, Len(host) - n + 1, Len(host))

\* A glob in the pattern stands for labels, one each, never for a dot.
HostMatchesSuffix(host, pattern) ==
  /\ Len(host) >= Len(pattern)
  /\ LET tail == Trailing(host, Len(pattern))
     IN  \A i \in DOMAIN pattern : tail[i] \in Fits[pattern[i]]

\* A second level such as "com.au": a country code after a short label.
CountryCode(host) ==
  Length[host[Len(host)]] = 2 /\ Length[host[Len(host) - 1]] <= 3

ProviderKey(host) ==
  IF Len(host) <= 2 THEN host
  ELSE Trailing(host, IF CountryCode(host) THEN 3 ELSE 2)

=============================================================================
