----------------------------- MODULE MCThreads -----------------------------
(***************************************************************************)
(* Small instances of Threads.                                             *)
(***************************************************************************)
EXTENDS Threads, TLC

CONSTANTS p1, p2, r1

Say(status, turn) == [status |-> status, detail |-> status = "error", turn |-> turn]
TurnOf(p, state, response) == [provider |-> p, state |-> state, response |-> response]

(* The session is open, and nothing else is known of it. *)
OneReport == {Say(None, None)}

(* A session starts with nothing said, works on a turn, ends it. *)
FewReports == {Say("working", TurnOf(None, "running", None)),
               Say("idle", TurnOf(None, "completed", None))}

(* One of each kind of evidence, with and without provider turn ids. *)
RichReports ==
    {Say(None, None), Say("error", None), Say("idle", None),
     Say("working", TurnOf(p1, "running", None)),
     Say("idle", TurnOf(p1, "completed", r1)), Say(None, TurnOf(p2, "running", None)),
     Say("idle", TurnOf(None, "failed", None)),
     Say(None, TurnOf(p1, "unknown", None))}

(* Without the sweep, which only acts on terminals Open takes to be gone. *)
NoSweep == sweep = {} /\ verdict = NoVerdict

Symmetry == Permutations(ThreadIds) \cup Permutations(Terminals)
              \cup Permutations(Openers) \cup Permutations(Keys)
=============================================================================
