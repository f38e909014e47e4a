------------------------------ MODULE QueueStore ------------------------------
(***************************************************************************)
(* The queue tables of internal/store: the webhook inbox, the Linear       *)
(* sessions and their outbox, as the statements and transactions of their  *)
(* repositories leave them under the one writer.  Deliveries are named by  *)
(* their Integration-scoped identity, outbox rows by their key, which      *)
(* names the session.  Time is a clock the rows are stamped from.          *)
(***************************************************************************)
EXTENDS Naturals, FiniteSets, Functions

CONSTANTS
    DeliveryIds,   \* deliveries that may arrive, a sequence number each: the mint order of ids
    Sessions,      \* Linear sessions
    Capacity,      \* pending deliveries the inbox takes
    Keep,          \* receipts kept past the age limit's pruning
    Window,        \* age at which a receipt may go
    Batch,         \* rows a due listing returns at most
    MaxTime        \* bound: the clock

VARIABLES
    now,
    inbox,      \* webhook_deliveries: delivery -> [state, next, accepted, completed]
    sessions,   \* linear_sessions: session -> state
    outbox,     \* linear_outbox: session -> [state, next, at]
    aged,       \* history: receipts the last pruning removed by age
    owed        \* history: sessions whose report has been queued

queueVars == <<now, inbox, sessions, outbox, aged, owed>>

Ids(table) == DOMAIN table
Without(table, ids) == Restrict(table, DOMAIN table \ ids)
With(table, id, row) == [i \in DOMAIN table \cup {id} |-> IF i = id THEN row ELSE table[i]]
NoRows == [i \in {} |-> 0]

TypeOK ==
    /\ now \in 0 .. MaxTime
    /\ Ids(inbox) \subseteq DeliveryIds
    /\ \A d \in Ids(inbox) : inbox[d] \in [state : {"pending", "done"}, next : 0 .. MaxTime + 1,
                                           accepted : 0 .. MaxTime, completed : 0 .. MaxTime]
    /\ Ids(sessions) \subseteq Sessions /\ Range(sessions) \subseteq {"accepted", "started", "done"}
    /\ Ids(outbox) \subseteq Sessions
    /\ \A s \in Ids(outbox) : outbox[s] \in [state : {"pending", "sent", "failed"},
                                             next : 0 .. MaxTime + 1, at : 0 .. MaxTime]

Init ==
    /\ now = 0 /\ inbox = NoRows /\ sessions = NoRows /\ outbox = NoRows
    /\ aged = FALSE /\ owed = {}

Tick ==
    /\ now < MaxTime /\ now' = now + 1 /\ aged' = FALSE
    /\ UNCHANGED <<inbox, sessions, outbox, owed>>

-----------------------------------------------------------------------------
(* The inbox.                                                              *)

(* CountPendingWebhookDeliveries *)
Pending(table) == {d \in Ids(table) : table[d].state = "pending"}

(* Fault: counted before the insert, as if this one were in. *)
RoomFor(table) == Cardinality(Pending(table)) <= Capacity + 1

(* Counted with the new row in, inside the transaction. *)
Room(table) == Cardinality(Pending(table)) <= Capacity

(* Accept: the insert and the count; a known identity inserts nothing. *)
Accept(d) ==
    LET accepted == With(inbox, d, [state |-> "pending", next |-> now, accepted |-> now,
                                    completed |-> 0])
    IN
    /\ d \notin Ids(inbox) /\ Room(accepted)
    /\ inbox' = accepted /\ aged' = FALSE
    /\ UNCHANGED <<now, sessions, outbox, owed>>

(* ORDER BY next_attempt_at, accepted_at, id *)
DueBefore(d, e) ==
    LET r == inbox[d]
        q == inbox[e]
    IN  \/ r.next < q.next
        \/ r.next = q.next /\ r.accepted < q.accepted
        \/ r.next = q.next /\ r.accepted = q.accepted /\ d < e

(* Fault: in the order they were accepted. *)
ListDueByAge ==
    LET due == {d \in Pending(inbox) : inbox[d].next <= now} IN
    {d \in due : Cardinality({e \in due : e < d}) < Batch}

(* ListDueWebhookDeliveries *)
ListDue ==
    LET due == {d \in Pending(inbox) : inbox[d].next <= now} IN
    {d \in due : Cardinality({e \in due : DueBefore(e, d)}) < Batch}

(* Complete and Fail of a delivery that was listed. *)
CompleteDelivery(d) ==
    /\ d \in ListDue
    /\ inbox' = [inbox EXCEPT ![d].state = "done", ![d].completed = now] /\ aged' = FALSE
    /\ UNCHANGED <<now, sessions, outbox, owed>>

FailDelivery(d) ==
    /\ d \in ListDue
    /\ inbox' = [inbox EXCEPT ![d].next = now + 1] /\ aged' = FALSE
    /\ UNCHANGED <<now, sessions, outbox, owed>>

Receipts == {d \in Ids(inbox) : inbox[d].state = "done"}

PruneAged ==
    /\ inbox' = Without(inbox, {d \in Receipts : inbox[d].completed + Window < now})
    /\ aged' = TRUE
    /\ UNCHANGED <<now, sessions, outbox, owed>>

(* Fault: the rows past the limit go, whatever their state. *)
ExcessOfAll ==
    {d \in Ids(inbox) : Cardinality({e \in Ids(inbox) :
        inbox[e].completed > inbox[d].completed \/ (inbox[e].completed = inbox[d].completed /\ e > d)})
            >= Keep}

(* ORDER BY completed_at DESC, id DESC LIMIT -1 OFFSET keep *)
Excess ==
    {d \in Receipts : Cardinality({e \in Receipts :
        inbox[e].completed > inbox[d].completed \/ (inbox[e].completed = inbox[d].completed /\ e > d)})
            >= Keep}

(* Prune's second statement; the server may stop before it. *)
PruneExcess ==
    /\ aged /\ inbox' = Without(inbox, Excess) /\ aged' = FALSE
    /\ UNCHANGED <<now, sessions, outbox, owed>>

-----------------------------------------------------------------------------
(* Linear's sessions and outbox.                                           *)

(* ON CONFLICT (id) DO NOTHING *)
InsertOutbox(s) ==
    outbox' = IF s \in Ids(outbox) THEN outbox
              ELSE With(outbox, s, [state |-> "pending", next |-> now, at |-> now])

InsertSession(s) ==
    /\ s \notin Ids(sessions) /\ sessions' = With(sessions, s, "accepted") /\ aged' = FALSE
    /\ UNCHANGED <<now, inbox, outbox, owed>>

(* Fault: the rows are queued by a statement of their own, which may fail. *)
EnqueueAllOrNot(s) == InsertOutbox(s) \/ UNCHANGED outbox

(* enqueueAll, in the transaction of the session. *)
EnqueueAll(s) == InsertOutbox(s)

(* UpdateSession with the calls the change owes: none, or the report. *)
UpdateSession(s, state) ==
    /\ s \in Ids(sessions) /\ sessions[s] # "done" /\ sessions[s] # state
    /\ sessions' = [sessions EXCEPT ![s] = state] /\ aged' = FALSE
    /\ IF state = "done" THEN EnqueueAll(s) ELSE UNCHANGED outbox
    /\ owed' = owed \cup (Ids(outbox') \ Ids(outbox))
    /\ UNCHANGED <<now, inbox>>

(* ListDueLinearOutbox *)
OutboxDue == {s \in Ids(outbox) : outbox[s].state = "pending" /\ outbox[s].next <= now}

MarkSent(s) ==
    /\ s \in OutboxDue /\ aged' = FALSE
    /\ outbox' = [outbox EXCEPT ![s].state = "sent", ![s].at = now]
    /\ UNCHANGED <<now, inbox, sessions, owed>>

MarkFailed(s) ==
    /\ s \in OutboxDue /\ aged' = FALSE
    /\ outbox' = [outbox EXCEPT ![s].state = "failed"]
    /\ UNCHANGED <<now, inbox, sessions, owed>>

RetryOutbox(s) ==
    /\ s \in OutboxDue /\ aged' = FALSE
    /\ outbox' = [outbox EXCEPT ![s].next = now + 1]
    /\ UNCHANGED <<now, inbox, sessions, owed>>

OutboxReceipts == {s \in Ids(outbox) : outbox[s].state # "pending"}

PruneOutbox ==
    /\ outbox' = Without(outbox, {s \in OutboxReceipts : outbox[s].at + Window < now})
    /\ aged' = FALSE
    /\ UNCHANGED <<now, inbox, sessions, owed>>

Next ==
    \/ Tick \/ PruneAged \/ PruneExcess \/ PruneOutbox
    \/ \E d \in DeliveryIds : Accept(d) \/ CompleteDelivery(d) \/ FailDelivery(d)
    \/ \E s \in Sessions :
          \/ InsertSession(s) \/ \E state \in {"started", "done"} : UpdateSession(s, state)
          \/ MarkSent(s) \/ MarkFailed(s) \/ RetryOutbox(s)

Spec == Init /\ [][Next]_queueVars

-----------------------------------------------------------------------------
(* Properties.                                                             *)

(***************************************************************************)
(* The inbox never holds more pending deliveries than its capacity: the    *)
(* count and the insert are one transaction (Accept).                      *)
(***************************************************************************)
CapacityHeld == Cardinality(Pending(inbox)) <= Capacity

(***************************************************************************)
(* An accepted delivery leaves the inbox only as a receipt, and an owed    *)
(* call the outbox only sent or refused: no pruning takes them, at any age *)
(* and any number of receipts (Prune: "Pending deliveries are never        *)
(* pruned").                                                               *)
(***************************************************************************)
PendingKept ==
    /\ \A d \in Pending(inbox) : d \in Ids(inbox')
    /\ \A s \in Ids(outbox) : outbox[s].state = "pending" => s \in Ids(outbox')

(***************************************************************************)
(* A due listing that does not have room for all leaves out nobody whose   *)
(* attempt is older than one it has, so retries starve no delivery and no  *)
(* delivery its retries (ListDueWebhookDeliveries).                        *)
(***************************************************************************)
OldestDueFirst ==
    \A d \in Pending(inbox) \ ListDue, e \in ListDue : inbox[d].next >= inbox[e].next

(***************************************************************************)
(* A session is reported done only with the call that reports it queued,   *)
(* which is still there, or was sent or refused (UpdateSession).           *)
(***************************************************************************)
DoneIsReported == \A s \in Ids(sessions) : sessions[s] = "done" => s \in owed
=============================================================================
