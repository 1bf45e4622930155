---------------------------- MODULE FfiContract -----------------------------
(***************************************************************************)
(* What the analysis of a stub promises to the reader of its report, with  *)
(* no mention of how it is computed: alarms are never withdrawn, a run     *)
(* that breaks a rule of the OCaml interface breaks it under an alarm that *)
(* explains it, and the analysis only leaves a run behind with a message.  *)
(***************************************************************************)
CONSTANTS
  Message,  \* what a report is made of
  Breaking, \* the ways to break a rule of the interface
  Explains, \* the messages that explain each of them
  Final     \* the messages that stop the analysis of a path

VARIABLES
  report,   \* the messages so far
  outcome   \* of the run that is analysed

vars == <<report, outcome>>

Init == report = {} /\ outcome = "running"

Extend == report \subseteq report' /\ report' \subseteq Message

Analyse == Extend /\ UNCHANGED outcome

\* The run breaks a rule.
Break(b) ==
  /\ outcome = "running"
  /\ outcome' = b
  /\ Extend
  /\ report' \intersect Explains[b] # {}

\* The analysis stops following the run.
Abandon ==
  /\ outcome = "running"
  /\ outcome' = "abandoned"
  /\ Extend
  /\ report' \intersect Final # {}

\* The run ends, or leaves what the analysis makes claims about.
Finish ==
  /\ outcome = "running"
  /\ outcome' = "over"
  /\ Extend

Next == Analyse \/ (\E b \in Breaking : Break(b)) \/ Abandon \/ Finish

Spec == Init /\ [][Next]_vars
=============================================================================
