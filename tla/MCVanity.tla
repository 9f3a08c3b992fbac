------------------------------ MODULE MCVanity ------------------------------
(***************************************************************************)
(* Vanity with three signatures, two at a time, a short and a long         *)
(* candidate, and zones that deny strangers, answer them all alike or      *)
(* answer them in turns.                                                   *)
(***************************************************************************)
EXTENDS Vanity

MCSigConfidence == <<"medium", "high", "low">>
MCCandidateLists == {<<>>, <<"acmecorp">>, <<"abh", "acmecorp">>}

MCZone(unknown, abh, acmecorp) ==
  [unknown |-> unknown, tenant |-> [c \in Candidate |-> IF c = "abh" THEN abh ELSE acmecorp]]

MCZones ==
  {MCZone({"NXDOMAIN"}, {"t1"}, {}), MCZone({"w1"}, {}, {"t1", "t2"}),
   MCZone({"w1", "EMPTY"}, {"t1"}, {"EMPTY"})}

=============================================================================
