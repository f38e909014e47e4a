---------------------------- MODULE WebhookInbox ----------------------------
(***************************************************************************)
(* The durable webhook inbox (internal/webhooks/webhooks.go and            *)
(* internal/store/webhooks.go): deliveries are acknowledged once they are  *)
(* stored, processed by one worker, retried after a failure, and kept as   *)
(* receipts that recognise a redelivery until they are pruned.             *)
(*                                                                         *)
(* The sender is outside the repository: it may deliver anything again at  *)
(* any time, whether or not the answer reached it.  A redelivery of what   *)
(* is pending or has a receipt is acknowledged and changes nothing, like a *)
(* request that is rejected, or refused because the inbox is full, busy or *)
(* failing: none of them is a step.  The worker takes the due rows in any  *)
(* order (in the code: by their due time).  What processing does is the    *)
(* Integration's; see LinearRelay.                                         *)
(***************************************************************************)
EXTENDS Naturals, FiniteSets

CONSTANTS
    Deliveries,   \* the Integration's delivery identities
    Capacity,     \* bound on the pending deliveries (Options.Capacity)
    None,         \* nothing under way, no session, no thread
    MaxFaults,    \* bound: failed writes, attempts, calls and outages
    MaxCrashes    \* bound: server restarts

ASSUME InboxAssumption ==
    /\ Capacity \in Nat \ {0}
    /\ {MaxFaults, MaxCrashes} \subseteq Nat
    /\ None \notin Deliveries

VARIABLES
    inbox,     \* webhook_deliveries: the state of each delivery's row
    acked,     \* the deliveries that were answered "accepted"
    work,      \* the delivery the worker has in hand, and how far it is
    faults,    \* failures so far
    crashes    \* restarts so far

inboxVars == <<inbox, acked, work>>
bounds == <<faults, crashes>>

Idle == [delivery |-> None, phase |-> "idle"]

Pending == {d \in Deliveries : inbox[d] \in {"due", "backoff"}}

InboxTypeOK ==
    /\ inbox \in [Deliveries -> {"absent", "due", "backoff", "done"}]
    /\ Cardinality(Pending) <= Capacity
    /\ acked \in SUBSET Deliveries
    /\ work \in [delivery : Deliveries \cup {None},
                 phase : {"idle", "handling", "completing", "failing"}]
    /\ faults \in 0 .. MaxFaults
    /\ crashes \in 0 .. MaxCrashes

InboxInit ==
    /\ inbox = [d \in Deliveries |-> "absent"]
    /\ acked = {}
    /\ work = Idle
    /\ faults = 0
    /\ crashes = 0

Fault == faults < MaxFaults /\ faults' = faults + 1

(* Fault: the delivery itself is not counted against the capacity. *)
AcceptOffByOne(d) ==
    /\ inbox[d] = "absent"
    /\ Cardinality(Pending) <= Capacity
    /\ inbox' = [inbox EXCEPT ![d] = "due"]
    /\ acked' = acked \cup {d}
    /\ UNCHANGED <<work, bounds>>

(* Insert and capacity check are one transaction; then the answer. *)
Accept(d) ==
    /\ inbox[d] = "absent"
    /\ Cardinality(Pending) < Capacity
    /\ inbox' = [inbox EXCEPT ![d] = "due"]
    /\ acked' = acked \cup {d}
    /\ UNCHANGED <<work, bounds>>

(* The worker turns to a row that is due. *)
ProcessBegin(d) ==
    /\ work = Idle
    /\ inbox[d] = "due"
    /\ work' = [delivery |-> d, phase |-> "handling"]
    /\ UNCHANGED <<inbox, acked, bounds>>

(* Process took effect; past its deadline it is still a failed attempt. *)
ProcessHandled(d) ==
    /\ work = [delivery |-> d, phase |-> "handling"]
    /\ \/ work' = [work EXCEPT !.phase = "completing"] /\ UNCHANGED faults
       \/ work' = [work EXCEPT !.phase = "failing"] /\ Fault
    /\ UNCHANGED <<inbox, acked, crashes>>

(* Process returned an error and had no effect. *)
ProcessFails(d) ==
    /\ work = [delivery |-> d, phase |-> "handling"]
    /\ work' = [work EXCEPT !.phase = "failing"]
    /\ Fault
    /\ UNCHANGED <<inbox, acked, crashes>>

(* Complete or Fail is recorded, or the write fails and the row stays due. *)
ProcessRecorded(d) ==
    /\ work.delivery = d /\ work.phase \in {"completing", "failing"}
    /\ work' = Idle
    /\ \/ /\ inbox' = [inbox EXCEPT ![d] = IF work.phase = "completing"
                                           THEN "done" ELSE "backoff"]
          /\ UNCHANGED faults
       \/ UNCHANGED inbox /\ Fault
    /\ UNCHANGED <<acked, crashes>>

(* The time of the next attempt comes. *)
BackoffOver(d) ==
    /\ inbox[d] = "backoff"
    /\ inbox' = [inbox EXCEPT ![d] = "due"]
    /\ UNCHANGED <<acked, work, bounds>>

(* Fault: pruning does not look at the state of the row. *)
PruneAny(d) ==
    /\ inbox[d] # "absent" /\ work.delivery # d
    /\ inbox' = [inbox EXCEPT ![d] = "absent"]
    /\ UNCHANGED <<acked, work, bounds>>

(* A receipt that is old enough, or one too many, goes. *)
Prune(d) ==
    /\ inbox[d] = "done"
    /\ inbox' = [inbox EXCEPT ![d] = "absent"]
    /\ UNCHANGED <<acked, work, bounds>>
=============================================================================
