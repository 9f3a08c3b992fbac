------------------------------ MODULE Selection ------------------------------
(***************************************************************************)
(* Which detectors a command line runs: -only and -skip are split into     *)
(* names, SelectDetectors filters the full list by them, and Run takes an  *)
(* empty list to mean every detector (internal/engine/engine.go).          *)
(***************************************************************************)
EXTENDS Naturals, Sequences, SequencesExt

CONSTANTS
  All,         \* detect.All(), in order
  Name,        \* what a user may write between the commas
  NoDetectors  \* SelectDetectors returned an error

Detectors == ToSet(All)

\* A flag is the sequence of the names it lists, blanks dropped; given is FALSE
\* for the empty string, so "," is given and lists nothing.
Option == [given : BOOLEAN, names : Seq(Name)]

Unset == [given |-> FALSE, names |-> <<>>]

ASSUME SelectionAssumption == All \in Seq(Name) /\ All # <<>>

Known(option) == ToSet(option.names) \subseteq Detectors

Unskipped(skip) ==
  LET out[n \in 0 .. Len(All)] ==
        IF n = 0 THEN <<>>
        ELSE IF All[n] \in ToSet(skip.names) THEN out[n - 1] ELSE Append(out[n - 1], All[n])
  IN  out[Len(All)]

\* Mutant: -skip wins.
SelectedSkipFirst(only, skip) ==
  IF skip.given THEN IF Known(skip) THEN Unskipped(skip) ELSE NoDetectors
  ELSE IF only.given THEN IF Known(only) THEN only.names ELSE NoDetectors
  ELSE All

Selected(only, skip) ==
  IF only.given THEN IF Known(only) THEN only.names ELSE NoDetectors
  ELSE IF skip.given THEN IF Known(skip) THEN Unskipped(skip) ELSE NoDetectors
  ELSE All

\* What Run makes of its configuration.
Running(detectors) == IF detectors = <<>> THEN All ELSE detectors

=============================================================================
