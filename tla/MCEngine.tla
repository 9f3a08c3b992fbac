------------------------------ MODULE MCEngine ------------------------------
(***************************************************************************)
(* Engine with one detector that starts two workers and one that works by  *)
(* itself, on channels with room for one message.  The two reports are     *)
(* about one vendor and corroborate each other.                            *)
(***************************************************************************)
EXTENDS Engine

MCReports ==
  {[vendor |-> "Zoom", category |-> "Meetings", confidence |-> "medium", contested |-> FALSE,
    labels |-> {"txt-zoom"}, evidence |-> {[method |-> "TXT", fact |-> "token"]}],
   [vendor |-> "zoom", category |-> "Meetings", confidence |-> "low", contested |-> FALSE,
    labels |-> {"mx-zoom"}, evidence |-> {[method |-> "MX", fact |-> "mail"]}]}

MCKey == [v \in {"Zoom", "zoom"} |-> 1]
MCOwner == [w \in Worker |-> "dns"]
MCErrorOf == [d \in Detector |-> IF d = "dns" THEN "dns failed" ELSE "spf failed"]
MCPanicOf == [d \in Detector |-> IF d = "dns" THEN "dns: internal error" ELSE "spf failed"]

=============================================================================
