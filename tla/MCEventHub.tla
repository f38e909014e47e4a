----------------------------- MODULE MCEventHub -----------------------------
(* Instances of EventHub for TLC. *)
EXTENDS EventHub

TwoRuns == <<11, 3>>
=============================================================================
