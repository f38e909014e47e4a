----------------------------- MODULE OwedCalls -----------------------------
(***************************************************************************)
(* What the Linear outbox promises (internal/integrations/linear,          *)
(* outbox.go): a call that is owed is made once, or Linear refuses it for  *)
(* good.  A call that was made is never made again, whatever is queued     *)
(* later; a refusal may be forgotten and the call owed anew.               *)
(***************************************************************************)
CONSTANT Calls

VARIABLE status

Init == status = [c \in Calls |-> "none"]

Move(c, from, to) ==
    /\ status[c] = from
    /\ status' = [status EXCEPT ![c] = to]

Owe(c) == Move(c, "none", "owed")
Make(c) == Move(c, "owed", "made")
Refuse(c) == Move(c, "owed", "refused")
Forget(cs) ==
    /\ \A c \in cs : status[c] = "refused"
    /\ status' = [c \in Calls |-> IF c \in cs THEN "none" ELSE status[c]]

Next ==
    \/ \E c \in Calls : Owe(c) \/ Make(c) \/ Refuse(c)
    \/ \E cs \in SUBSET Calls : Forget(cs)

Settle(c) == Make(c) \/ Refuse(c)

Spec == Init /\ [][Next]_status /\ \A c \in Calls : WF_status(Settle(c))
=============================================================================
