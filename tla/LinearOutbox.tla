---------------------------- MODULE LinearOutbox ----------------------------
(***************************************************************************)
(* The sending side of the Linear integration (outbox.go, store/linear.go):*)
(* every call owed to Linear is a row under a key made of its session and  *)
(* its purpose.  A loop lists the rows that are due and sends the list,    *)
(* sessions side by side, a session's rows in order; what a row came to is *)
(* written after the answer.                                               *)
(*                                                                         *)
(* Linear is outside the repository: it applies an activity id once and    *)
(* answers a repetition as a duplicate.  Which failure a status code or a  *)
(* GraphQL error is, and the token renewal inside an attempt, come down to *)
(* the four outcomes send tells apart (LinearCredential has the renewal).  *)
(* Time is the order in which rows fall due.                               *)
(***************************************************************************)
EXTENDS Naturals, Sequences, FiniteSetTheorems, TLAPS

CONSTANTS
    AgentSessions, \* sessions of the Linear agent
    Queued,        \* the keys the service queues: <<session, purpose>>
    SendBatch,     \* rows one pass takes
    SendWorkers,   \* sessions sent at once
    MaxOutages,     \* bound: lost answers, outages, refusals, failed writes
    MaxRestarts     \* bound: restarts

VARIABLES
    due,       \* linear_outbox: pending rows that are due
    ahead,     \* which of them is listed before which: <<earlier, later>>
    later,     \* linear_outbox: pending rows whose retry time is to come
    sent,      \* linear_outbox: receipts of calls Linear accepted
    failed,    \* linear_outbox: rows Linear refused
    batch,     \* the pass: what is left to send of the rows it listed
    attempt,   \* the call a session's goroutine has made, and its answer
    posted,    \* Linear: what it applied, in order
    order,     \* history: the keys in the order they were first queued
    tried,     \* history: rows with a failed attempt
    unsaid,    \* history: results whose fallback was lost
    outages, restarts

rows == <<due, ahead, later, sent, failed>>
pass == <<batch, attempt>>
history == <<order, tried, unsaid>>
outboxVars == <<rows, pass, posted, history, outages, restarts>>

Fallback == "result-rejected"
Keys == Queued \cup {<<s, Fallback>> : s \in AgentSessions}
SessionOf(k) == k[1]

Pending == due \cup later
Known == Pending \cup sent \cup failed

Idle == [pc |-> "idle", key |-> <<>>, answer |-> "none"]

\* Sessions that have a worker's slot.
Busy == {s \in AgentSessions : attempt[s].pc # "idle"}

Attempts == [pc : {"idle", "posted", "fallback"}, key : Keys \cup {<<>>},
             answer : {"none", "accepted", "retry", "refused"}]

OutboxTypeOK ==
    /\ due \subseteq Keys /\ ahead \subseteq due \X due
    /\ later \subseteq Keys /\ sent \subseteq Keys /\ failed \subseteq Keys
    /\ due \cap later = {} /\ Pending \cap (sent \cup failed) = {} /\ sent \cap failed = {}
    /\ batch \in [AgentSessions -> SUBSET Keys]
    /\ attempt \in [AgentSessions -> Attempts]
    /\ Cardinality(Busy) <= SendWorkers
    /\ order \in Seq(Keys) /\ tried \subseteq Keys /\ unsaid \subseteq Keys

OutboxInit ==
    /\ due = {} /\ ahead = {} /\ later = {} /\ sent = {} /\ failed = {}
    /\ batch = [s \in AgentSessions |-> {}]
    /\ attempt = [s \in AgentSessions |-> Idle]
    /\ posted = <<>>
    /\ order = <<>> /\ tried = {} /\ unsaid = {}
    /\ outages = 0 /\ restarts = 0

Outage == outages < MaxOutages /\ outages' = outages + 1

-----------------------------------------------------------------------------
(* Queueing.                                                               *)

(* A row's time comes: it is listed after those whose time came before. *)
FallsDue(k) == due' = due \cup {k} /\ ahead' = ahead \cup (due \X {k})

(* It is not pending any more, or its time is yet to come. *)
Leaves(k) == due' = due \ {k} /\ ahead' = ahead \cap (due' \X due')

EverQueued == {order[i] : i \in 1 .. Len(order)}

(* A row under a key that is there already -- pending, sent or refused --  *)
(* stays as it is.                                                         *)
Insert(k) ==
    IF k \in Known
    THEN UNCHANGED <<due, ahead, order>>
    ELSE /\ FallsDue(k)
         /\ order' = IF k \in EverQueued THEN order ELSE Append(order, k)

(* The webhook handler or the session loop owes a call (perhaps again). *)
Enqueue(k) ==
    /\ Insert(k)
    /\ UNCHANGED <<later, sent, failed, pass, posted, tried, unsaid, outages, restarts>>

-----------------------------------------------------------------------------
(* Sending.                                                                *)

(* The rows due, in order, up to a batch. *)
Listed == {k \in due : Cardinality({j \in due : <<j, k>> \in ahead}) < SendBatch}

ForSession(listed, s) == {k \in listed : SessionOf(k) = s}

(* A pass lists the rows and sends each session's on its own. *)
SendDue ==
    /\ \A s \in AgentSessions : batch[s] = {} /\ attempt[s] = Idle
    /\ due # {}
    /\ batch' = [s \in AgentSessions |-> ForSession(Listed, s)]
    /\ UNCHANGED <<rows, attempt, posted, history, outages, restarts>>

(* Fault: a session's rows go out the last one first. *)
NextUpLast(listed, k) == \A j \in listed \ {k} : <<j, k>> \in ahead

(* A session's rows go out one after the other, in the order listed. *)
NextUp(listed, k) == \A j \in listed \ {k} : <<k, j>> \in ahead

(* Fault: an activity has a new id with every attempt. *)
ActivityIdOfAttempt(k) == <<k, outages>>

(* The id Linear deduplicates on derives from the key alone. *)
ActivityId(k) == k

\* What Linear shows.
Made == {posted[i].key : i \in 1 .. Len(posted)}

Applied(id) == \E i \in 1 .. Len(posted) : posted[i].id = id

(* A session's next row goes out, if a slot is free.  Linear applies it,   *)
(* or has it already; the answer is lost; Linear or a usable token cannot  *)
(* be had; or Linear refuses it for good.                                  *)
Post(s) == \E k \in batch[s] :
    LET id == ActivityId(k)
        answered(answer) == attempt' = [attempt EXCEPT ![s] =
                                [pc |-> "posted", key |-> k, answer |-> answer]]
        applied == posted' = IF Applied(id) THEN posted
                             ELSE Append(posted, [key |-> k, id |-> id])
    IN
    /\ NextUp(batch[s], k) /\ attempt[s] = Idle
    /\ Cardinality(Busy) < SendWorkers
    /\ \/ applied /\ answered("accepted") /\ UNCHANGED <<outages, tried>>
       \/ /\ answered("retry") /\ Outage /\ tried' = tried \cup {k}
          /\ applied \/ UNCHANGED posted
       \/ /\ ~Applied(id) /\ answered("refused") /\ Outage /\ UNCHANGED posted
          /\ tried' = tried \cup {k}
    /\ UNCHANGED <<rows, batch, order, unsaid, restarts>>

(* The row takes the place its answer gives it. *)
Accepted(k) == sent' = sent \cup {k} /\ UNCHANGED <<later, failed>>
Refused(k) == failed' = failed \cup {k} /\ UNCHANGED <<later, sent>>
Retried(k) == later' = later \cup {k} /\ UNCHANGED <<sent, failed>>

(* Fault: a call that nobody answered counts as sent. *)
OutcomeForgiving(k, answer) ==
    \/ answer \in {"accepted", "retry"} /\ Accepted(k)
    \/ answer = "refused" /\ Refused(k)

Outcome(k, answer) ==
    \/ answer = "accepted" /\ Accepted(k)
    \/ answer = "refused" /\ Refused(k)
    \/ answer = "retry" /\ Retried(k)

(* Fault: the refusal of a result is the end of it. *)
AfterRecordSilent(k, answer) == Idle

(* The answer itself was refused: something else is owed then. *)
AfterRecord(k, answer) ==
    IF answer = "refused" /\ k[2] = "result"
    THEN [pc |-> "fallback", key |-> k, answer |-> answer] ELSE Idle

(* What the attempt came to is written; if it cannot be, the row is due as *)
(* it was and the next pass sends it again.                                *)
Record(s) ==
    LET k == attempt[s].key
        answer == attempt[s].answer
    IN
    /\ attempt[s].pc = "posted"
    /\ \/ Outcome(k, answer) /\ Leaves(k) /\ UNCHANGED outages
       \/ Outage /\ UNCHANGED rows
    /\ attempt' = [attempt EXCEPT ![s] = AfterRecord(k, answer)]
    /\ batch' = [batch EXCEPT ![s] = @ \ {k}]
    /\ UNCHANGED <<posted, order, tried, unsaid, restarts>>

(* The user still learns that the run is over and where its answer is. *)
EnqueueFallback(s) ==
    /\ attempt[s].pc = "fallback"
    /\ \/ Insert(<<s, Fallback>>) /\ UNCHANGED <<outages, unsaid>>
       \/ Outage /\ unsaid' = unsaid \cup {attempt[s].key}
          /\ UNCHANGED <<due, ahead, order>>
    /\ attempt' = [attempt EXCEPT ![s] = Idle]
    /\ UNCHANGED <<later, sent, failed, batch, posted, tried, restarts>>

(* The time of a retry has come. *)
RetryDue(k) ==
    /\ k \in later
    /\ later' = later \ {k}
    /\ FallsDue(k)
    /\ UNCHANGED <<sent, failed, pass, posted, history, outages, restarts>>

(* Receipts old enough go; between passes. *)
Prune ==
    /\ \A s \in AgentSessions : batch[s] = {} /\ attempt[s] = Idle
    /\ \E old \in SUBSET (sent \cup failed) :
          old # {} /\ sent' = sent \ old /\ failed' = failed \ old
    /\ UNCHANGED <<due, ahead, later, pass, posted, history, outages, restarts>>

(* The server stops and starts again: the rows and Linear live on. *)
Restart ==
    /\ restarts < MaxRestarts
    /\ restarts' = restarts + 1
    /\ unsaid' = unsaid \cup {attempt[s].key :
                                s \in {w \in AgentSessions : attempt[w].pc = "fallback"}}
    /\ batch' = [s \in AgentSessions |-> {}]
    /\ attempt' = [s \in AgentSessions |-> Idle]
    /\ UNCHANGED <<rows, posted, order, tried, outages>>

SendStep(s) == Post(s) \/ Record(s) \/ EnqueueFallback(s)

OutboxNext ==
    \/ \E k \in Queued : Enqueue(k)
    \/ SendDue
    \/ \E s \in AgentSessions : SendStep(s)
    \/ \E k \in Keys : RetryDue(k)
    \/ Prune
    \/ Restart

OutboxSpec == OutboxInit /\ [][OutboxNext]_outboxVars

-----------------------------------------------------------------------------
(* Properties.                                                             *)

QueuedBefore(older, k) ==
    \E i, j \in 1 .. Len(order) : i < j /\ order[i] = older /\ order[j] = k

(***************************************************************************)
(* A session's story reads in sequence: Linear shows a call before an      *)
(* older one of the same session only if an attempt at the older one       *)
(* failed (sendDue).                                                       *)
(***************************************************************************)
StoryInOrder ==
    \A i, j \in 1 .. Len(posted) :
        LET k == posted[i].key
            older == posted[j].key
        IN  (i < j /\ SessionOf(k) = SessionOf(older) /\ QueuedBefore(older, k))
            => older \in tried

(***************************************************************************)
(* A call is never made twice -- after a lost answer, an unrecorded        *)
(* success, a crash, or a key queued again when its receipt was pruned     *)
(* (activity, send).                                                       *)
(***************************************************************************)
PostedOnce ==
    \A i, j \in 1 .. Len(posted) : posted[i].key = posted[j].key => i = j

(***************************************************************************)
(* When Linear refuses the result the user is told: its fallback is        *)
(* queued or about to be.  It is lost only by a crash or a failed write    *)
(* between the two writes (send).                                          *)
(***************************************************************************)
RefusalTold ==
    \A s \in AgentSessions : <<s, "result">> \in failed =>
        \/ <<s, Fallback>> \in Known \/ Applied(ActivityId(<<s, Fallback>>))
        \/ attempt[s].pc = "fallback"
        \/ <<s, "result">> \in unsaid
        \/ <<s, Fallback>> \in tried

(* What a user of Linear can rely on, through lost answers, refusals,      *)
(* failed writes and restarts (sendDue, send, activity, Enqueue, prune).   *)
OutboxHolds == OutboxTypeOK /\ StoryInOrder /\ PostedOnce /\ RefusalTold

(* Refinement: what the rows and Linear show of the promise. *)
CallStatus == [k \in Keys |->
    IF k \in Made THEN "made"
    ELSE IF k \in Pending THEN "owed"
    ELSE IF k \in failed THEN "refused" ELSE "none"]

Promise == INSTANCE OwedCalls WITH Calls <- Keys, status <- CallStatus

(* The outbox implements OwedCalls: an owed call is eventually made, once, *)
(* or refused for good (send, sendDue, retry, prune).                      *)
ImplementsOwedCalls == Promise!Spec

-----------------------------------------------------------------------------
(* Proofs, for any sessions, keys and sizes of a batch, and any number of  *)
(* failures and restarts: the properties above, and that every step is one *)
(* OwedCalls allows.                                                       *)

(* What the keys are like: the session, and what the call is for. *)
Keyed ==
    /\ Queued \subseteq AgentSessions \X STRING /\ IsFiniteSet(AgentSessions)
    /\ SendBatch \in Nat /\ SendWorkers \in Nat

(* What became of the rows: nothing is a receipt that Linear does not show *)
(* and nothing waits or was refused that no attempt failed for.            *)
RowsSound ==
    /\ IsFiniteSet(due)
    /\ sent \subseteq Made /\ failed \subseteq tried /\ later \subseteq tried

(* The rows due are listed in an order, and one that no attempt failed for *)
(* and Linear does not show is before all that were first queued after it. *)
AheadSound ==
    /\ \A k \in due : <<k, k>> \notin ahead
    /\ \A i, j, k \in due : <<i, j>> \in ahead /\ <<j, k>> \in ahead => <<i, k>> \in ahead
    /\ \A older, k \in due :
          QueuedBefore(older, k) => older \in tried \cup Made \/ <<older, k>> \in ahead

(* What was queued is still there, or was made or refused. *)
OrderSound ==
    /\ \A i, j \in 1 .. Len(order) : order[i] = order[j] => i = j
    /\ Known \cup Made \subseteq EverQueued
    /\ EverQueued \subseteq Known \cup Made \cup tried

PostedSound ==
    /\ posted \in Seq([key : Keys, id : Keys])
    /\ \A i \in 1 .. Len(posted) : posted[i].id = posted[i].key

(* What a session has left to send is due, and whatever is to be listed    *)
(* before one of it is part of it, unless it went out already.             *)
BatchSound(s) ==
    /\ \A k \in batch[s] : k \in due /\ SessionOf(k) = s
    /\ \A k \in batch[s], older \in due :
          (SessionOf(older) = s /\ <<older, k>> \in ahead)
          => older \in batch[s] \cup tried \cup Made

AttemptSound(s) ==
    \/ attempt[s] = Idle
    \/ /\ attempt[s].pc = "posted" /\ attempt[s].key \in batch[s]
       /\ \/ attempt[s].answer = "accepted" /\ attempt[s].key \in Made
          \/ attempt[s].answer = "retry" /\ attempt[s].key \in tried
          \/ attempt[s].answer = "refused" /\ attempt[s].key \in tried \ Made
    \/ attempt[s].pc = "fallback" /\ attempt[s].key = <<s, "result">>

(* What StoryInOrder comes to while the older call is still to be made. *)
StorySound ==
    \A k \in Made, older \in Keys \ Made :
        SessionOf(k) = SessionOf(older) /\ QueuedBefore(older, k) => older \in tried

OutboxInv ==
    /\ OutboxTypeOK /\ RowsSound /\ AheadSound /\ OrderSound /\ PostedSound
    /\ \A s \in AgentSessions : BatchSound(s) /\ AttemptSound(s)
    /\ StorySound /\ StoryInOrder /\ PostedOnce /\ RefusalTold

LEMMA KeysArePairs ==
    ASSUME Keyed
    PROVE  /\ \A k \in Keys : SessionOf(k) \in AgentSessions
           /\ \A k \in Keys, s \in AgentSessions : \A p : SessionOf(k) = s /\ k[2] = p => k = <<s, p>>
           /\ \A s \in AgentSessions : <<s, Fallback>> \in Keys
  BY DEF Keyed, Keys, SessionOf, Fallback

LEMMA AppliedIsMade == PostedSound => \A k \in Keys : Applied(k) <=> k \in Made
  BY DEF PostedSound, Applied, Made

(* Linear shows one call more. *)
LEMMA Posts ==
    ASSUME PostedSound, NEW k \in Keys, posted' = Append(posted, [key |-> k, id |-> k])
    PROVE  /\ PostedSound' /\ Made' = Made \cup {k}
           /\ Len(posted) \in Nat /\ Len(posted') = Len(posted) + 1
           /\ posted'[Len(posted')].key = k
           /\ \A i \in 1 .. Len(posted) : posted'[i] = posted[i]
  <1>1. /\ posted \in Seq([key : Keys, id : Keys]) /\ posted' \in Seq([key : Keys, id : Keys])
        /\ Len(posted) \in Nat /\ Len(posted') = Len(posted) + 1
        /\ posted'[Len(posted')] = [key |-> k, id |-> k]
        /\ \A i \in 1 .. Len(posted) : posted'[i] = posted[i]
    BY DEF PostedSound
  <1>2. \A i \in 1 .. Len(posted') : i \in 1 .. Len(posted) \/ i = Len(posted')
    BY <1>1
  <1>3. PostedSound'
    BY <1>1, <1>2 DEF PostedSound
  <1>4. Made' = Made \cup {k}
    <2>1. \A i \in 1 .. Len(posted') : posted'[i].key \in Made \cup {k}
      BY <1>1, <1>2 DEF Made
    <2>2. \A i \in 1 .. Len(posted) : i \in 1 .. Len(posted') /\ posted'[i].key = posted[i].key
      BY <1>1
    <2>3. Len(posted') \in 1 .. Len(posted') /\ posted'[Len(posted')].key = k
      BY <1>1
    <2> QED
      BY <2>1, <2>2, <2>3 DEF Made
  <1> QED
    BY <1>1, <1>3, <1>4

(* A key is queued for the first time. *)
LEMMA Queues ==
    ASSUME order \in Seq(Keys), NEW k \in Keys \ EverQueued, order' = Append(order, k),
           \A i, j \in 1 .. Len(order) : order[i] = order[j] => i = j
    PROVE  /\ order' \in Seq(Keys) /\ EverQueued' = EverQueued \cup {k}
           /\ \A i, j \in 1 .. Len(order') : order'[i] = order'[j] => i = j
           /\ \A a, b : QueuedBefore(a, b)' <=> QueuedBefore(a, b) \/ (a \in EverQueued /\ b = k)
  <1>1. /\ order' \in Seq(Keys) /\ Len(order) \in Nat /\ Len(order') = Len(order) + 1
        /\ order'[Len(order')] = k
        /\ \A i \in 1 .. Len(order) : order'[i] = order[i]
    OBVIOUS
  <1>2. /\ \A i \in 1 .. Len(order') : i \in 1 .. Len(order) \/ i = Len(order')
        /\ \A i \in 1 .. Len(order) : i \in 1 .. Len(order') /\ i < Len(order')
        /\ Len(order') \in 1 .. Len(order')
    BY <1>1
  <1>3. \A i \in 1 .. Len(order) : order[i] # k
    BY DEF EverQueued
  <1>4. EverQueued' = EverQueued \cup {k}
    <2>1. \A i \in 1 .. Len(order') : order'[i] \in EverQueued \cup {k}
      BY <1>1, <1>2 DEF EverQueued
    <2>2. \A i \in 1 .. Len(order) : i \in 1 .. Len(order') /\ order'[i] = order[i]
      BY <1>1, <1>2
    <2> QED
      BY <1>1, <1>2, <2>1, <2>2 DEF EverQueued
  <1>5. \A i, j \in 1 .. Len(order') : order'[i] = order'[j] => i = j
    BY <1>1, <1>2, <1>3
  <1>6. ASSUME NEW a, NEW b
        PROVE  QueuedBefore(a, b)' <=> QueuedBefore(a, b) \/ (a \in EverQueued /\ b = k)
    <2>1. QueuedBefore(a, b)' => QueuedBefore(a, b) \/ (a \in EverQueued /\ b = k)
      <3> SUFFICES ASSUME NEW i \in 1 .. Len(order'), NEW j \in 1 .. Len(order'),
                          i < j, order'[i] = a, order'[j] = b
                   PROVE  QueuedBefore(a, b) \/ (a \in EverQueued /\ b = k)
        BY DEF QueuedBefore
      <3>1. i \in 1 .. Len(order) /\ order[i] = a
        BY <1>1, <1>2
      <3>2. CASE j = Len(order')
        BY <1>1, <3>1, <3>2 DEF EverQueued
      <3>3. CASE j \in 1 .. Len(order)
        BY <1>1, <3>1, <3>3 DEF QueuedBefore
      <3> QED
        BY <1>2, <3>2, <3>3
    <2>2. QueuedBefore(a, b) => QueuedBefore(a, b)'
      BY <1>1, <1>2 DEF QueuedBefore
    <2>3. ASSUME a \in EverQueued, b = k PROVE QueuedBefore(a, b)'
      <3>1. PICK i \in 1 .. Len(order) : order[i] = a
        BY <2>3 DEF EverQueued
      <3>2. /\ i \in 1 .. Len(order') /\ Len(order') \in 1 .. Len(order') /\ i < Len(order')
            /\ order'[i] = a /\ order'[Len(order')] = b
        BY <1>1, <1>2, <2>3, <3>1
      <3> QED
        BY <3>2 DEF QueuedBefore
    <2> QED
      BY <2>1, <2>2, <2>3
  <1> QED
    BY <1>1, <1>4, <1>5, <1>6

(* What was queued before another is another, and was queued. *)
LEMMA Before ==
    ASSUME OrderSound, order \in Seq(Keys), NEW a, NEW b, QueuedBefore(a, b)
    PROVE  a # b /\ a \in EverQueued /\ b \in EverQueued
  BY DEF QueuedBefore, OrderSound, EverQueued

(* The status of the calls is what the rows and Linear make of it. *)
LEMMA SameStatus ==
    ASSUME Made' = Made, Pending' = Pending, failed' = failed
    PROVE  CallStatus' = CallStatus
  BY DEF CallStatus

(* A row falls due: it goes behind the others, and no batch has it. *)
LEMMA Joins ==
    ASSUME OutboxInv, NEW k \in Keys \ due, FallsDue(k), UNCHANGED <<batch, posted, tried>>
    PROVE  /\ IsFiniteSet(due') /\ due' \subseteq Keys /\ ahead' \subseteq due' \X due'
           /\ \A i \in due' : <<i, i>> \notin ahead'
           /\ \A i, j, l \in due' : <<i, j>> \in ahead' /\ <<j, l>> \in ahead' => <<i, l>> \in ahead'
           /\ \A j \in due : <<j, k>> \in ahead'
           /\ \A i, j \in due : <<i, j>> \in ahead' <=> <<i, j>> \in ahead
           /\ \A s \in AgentSessions : BatchSound(s)'
  <1>1. /\ due' = due \cup {k} /\ ahead' = ahead \cup (due \X {k})
        /\ ahead \subseteq due \X due /\ due \subseteq Keys /\ k \notin due
    BY DEF FallsDue, OutboxInv, OutboxTypeOK
  <1>2. IsFiniteSet(due')
    BY <1>1, FS_AddElement DEF OutboxInv, RowsSound
  <1>3. /\ \A j \in due : <<j, k>> \in ahead'
        /\ \A i, j \in due : <<i, j>> \in ahead' <=> <<i, j>> \in ahead
        /\ \A j \in due' : <<k, j>> \notin ahead'
        /\ ahead' \subseteq due' \X due'
    BY <1>1
  <1>4. /\ \A i \in due' : <<i, i>> \notin ahead'
        /\ \A i, j, l \in due' : <<i, j>> \in ahead' /\ <<j, l>> \in ahead' => <<i, l>> \in ahead'
    BY <1>1, <1>3 DEF OutboxInv, AheadSound
  <1>5. ASSUME NEW s \in AgentSessions PROVE BatchSound(s)'
    <2>1. BatchSound(s) /\ batch[s]' = batch[s] /\ Made' = Made /\ tried' = tried
      BY DEF OutboxInv, Made
    <2>2. \A b \in batch[s] : b \in due /\ SessionOf(b) = s
      BY <2>1 DEF BatchSound
    <2>3. ASSUME NEW b \in batch[s], NEW older \in due', SessionOf(older) = s,
                 <<older, b>> \in ahead'
          PROVE  older \in batch[s] \cup tried \cup Made
      <3>1. older \in due
        BY <1>1, <1>3, <2>2, <2>3
      <3> QED
        BY <1>3, <2>1, <2>2, <2>3, <3>1 DEF BatchSound
    <2> QED
      BY <1>1, <2>1, <2>2, <2>3 DEF BatchSound
  <1> QED
    BY <1>1, <1>2, <1>3, <1>4, <1>5

(* A key is queued, or is known already. *)
LEMMA Inserts ==
    ASSUME Keyed, OutboxInv, NEW k \in Keys, Insert(k),
           UNCHANGED <<later, sent, failed, batch, posted, tried>>
    PROVE  /\ due' \subseteq Keys /\ ahead' \subseteq due' \X due' /\ order' \in Seq(Keys)
           /\ due' \cap later' = {} /\ Pending' \cap (sent' \cup failed') = {}
           /\ RowsSound' /\ AheadSound' /\ OrderSound' /\ PostedSound'
           /\ (\A s \in AgentSessions : BatchSound(s)') /\ StorySound' /\ StoryInOrder' /\ PostedOnce'
           /\ Known' = Known \cup {k} /\ Made' = Made
           /\ [Promise!Next]_CallStatus
  <1>0. OutboxTypeOK /\ RowsSound /\ AheadSound /\ OrderSound /\ PostedSound /\ StorySound
        /\ StoryInOrder /\ PostedOnce
    BY DEF OutboxInv
  <1>1. Made' = Made /\ PostedSound' /\ PostedOnce'
    BY <1>0 DEF Made, PostedSound, PostedOnce
  <1>2. CASE k \in Known
    <2>1. UNCHANGED <<due, ahead, order>>
      BY <1>2 DEF Insert
    <2>2. Pending' = Pending /\ Known' = Known /\ EverQueued' = EverQueued
      BY <2>1 DEF Pending, Known, EverQueued
    <2>3. \A a, b : QueuedBefore(a, b)' <=> QueuedBefore(a, b)
      BY <2>1 DEF QueuedBefore
    <2>4. RowsSound' /\ AheadSound' /\ OrderSound' /\ StorySound' /\ StoryInOrder'
      BY <1>0, <1>1, <2>1, <2>2, <2>3
         DEF RowsSound, AheadSound, OrderSound, StorySound, StoryInOrder
    <2>5. \A s \in AgentSessions : BatchSound(s)'
      BY <1>1, <2>1 DEF OutboxInv, BatchSound
    <2>6. CallStatus' = CallStatus
      BY <1>1, <2>2, SameStatus
    <2> QED
      BY <1>0, <1>1, <1>2, <2>1, <2>2, <2>4, <2>5, <2>6 DEF OutboxTypeOK
  <1>3. CASE k \notin Known
    <2>1. /\ FallsDue(k) /\ k \notin due
          /\ order' = IF k \in EverQueued THEN order ELSE Append(order, k)
      BY <1>3 DEF Insert, Known, Pending
    <2>2. /\ Pending' = Pending \cup {k} /\ Known' = Known \cup {k} /\ due' = due \cup {k}
          /\ UNCHANGED <<later, sent, failed, batch, posted, tried>>
      BY <2>1 DEF FallsDue, Pending, Known
    <2>3. /\ order' \in Seq(Keys) /\ EverQueued' = EverQueued \cup {k}
          /\ \A i, j \in 1 .. Len(order') : order'[i] = order'[j] => i = j
          /\ \A a, b : QueuedBefore(a, b)' =>
                QueuedBefore(a, b) \/ (k \notin EverQueued /\ a \in EverQueued /\ b = k)
      <3>1. CASE k \in EverQueued
        <4>1. order' = order
          BY <2>1, <3>1
        <4> QED
          BY <1>0, <3>1, <4>1 DEF EverQueued, QueuedBefore, OutboxTypeOK, OrderSound
      <3>2. CASE k \notin EverQueued
        <4>1. order' = Append(order, k)
          BY <2>1, <3>2
        <4>2. \A i, j \in 1 .. Len(order) : order[i] = order[j] => i = j
          BY <1>0 DEF OrderSound
        <4> QED
          BY <1>0, <3>2, <4>1, <4>2, Queues DEF OutboxTypeOK
      <3> QED
        BY <3>1, <3>2
    <2>4. /\ IsFiniteSet(due') /\ due' \subseteq Keys /\ ahead' \subseteq due' \X due'
          /\ \A i \in due' : <<i, i>> \notin ahead'
          /\ \A i, j, l \in due' : <<i, j>> \in ahead' /\ <<j, l>> \in ahead' => <<i, l>> \in ahead'
          /\ \A j \in due : <<j, k>> \in ahead'
          /\ \A i, j \in due : <<i, j>> \in ahead' <=> <<i, j>> \in ahead
          /\ \A s \in AgentSessions : BatchSound(s)'
      BY <2>1, <2>2, Joins
    <2>5. RowsSound'
      BY <1>0, <1>1, <2>2, <2>4 DEF RowsSound
    <2>6. OrderSound'
      BY <1>0, <1>1, <2>2, <2>3 DEF OrderSound
    <2>7. AheadSound'
      <3>1. ASSUME NEW older \in due', NEW l \in due', QueuedBefore(older, l)'
            PROVE  older \in tried \cup Made \/ <<older, l>> \in ahead'
        <4>1. older # l
          BY <2>3, <2>6, <3>1, <1>0, Before DEF QueuedBefore
        <4>2. CASE l = k
          BY <2>2, <2>4, <4>1, <4>2
        <4>3. CASE l # k /\ older = k
          <5>1. QueuedBefore(k, l)
            BY <2>3, <3>1, <4>3
          <5>2. k \in EverQueued
            BY <1>0, <5>1, Before DEF OutboxTypeOK
          <5> QED
            BY <1>0, <1>3, <4>3, <5>2 DEF OrderSound
        <4>4. CASE l # k /\ older # k
          <5>1. QueuedBefore(older, l) /\ older \in due /\ l \in due
            BY <2>2, <2>3, <3>1, <4>4
          <5> QED
            BY <1>0, <2>4, <5>1 DEF AheadSound
        <4> QED
          BY <4>2, <4>3, <4>4
      <3> QED
        BY <1>1, <2>2, <2>4, <3>1 DEF AheadSound
    <2>9. \A a, b : QueuedBefore(a, b)' /\ b \in Made => QueuedBefore(a, b)
      BY <1>0, <2>3 DEF OrderSound
    <2>10. StorySound'
      BY <1>0, <1>1, <2>2, <2>9 DEF StorySound
    <2>11. StoryInOrder'
      <3>1. \A i \in 1 .. Len(posted) : posted[i].key \in Made
        BY DEF Made
      <3> QED
        BY <1>0, <2>2, <2>9, <3>1 DEF StoryInOrder
    <2>12. [Promise!Next]_CallStatus
      <3>1. CASE k \in Made
        <4>1. CallStatus' = CallStatus
          BY <1>1, <2>2, <3>1 DEF CallStatus
        <4> QED
          BY <4>1
      <3>2. CASE k \notin Made
        <4>1. CallStatus[k] = "none" /\ CallStatus' = [CallStatus EXCEPT ![k] = "owed"]
          BY <1>1, <1>3, <2>2, <3>2 DEF CallStatus, Known
        <4> QED
          BY <4>1 DEF Promise!Next, Promise!Owe, Promise!Move
      <3> QED
        BY <3>1, <3>2
    <2>13. due' \cap later' = {} /\ Pending' \cap (sent' \cup failed') = {}
      BY <1>0, <1>3, <2>2 DEF OutboxTypeOK, Known, Pending
    <2> QED
      BY <1>1, <2>2, <2>3, <2>4, <2>5, <2>6, <2>7, <2>10, <2>11, <2>12, <2>13
  <1> QED
    BY <1>2, <1>3

LEMMA EnqueueStep ==
    ASSUME Keyed, OutboxInv, NEW k \in Queued, Enqueue(k)
    PROVE  OutboxInv' /\ [Promise!Next]_CallStatus
  <1>1. /\ k \in Keys /\ Insert(k)
        /\ UNCHANGED <<later, sent, failed, pass, posted, tried, unsaid, outages, restarts>>
        /\ UNCHANGED <<batch, attempt>>
    BY DEF Enqueue, Keys, pass
  <1>2. /\ due' \subseteq Keys /\ ahead' \subseteq due' \X due' /\ order' \in Seq(Keys)
        /\ due' \cap later' = {} /\ Pending' \cap (sent' \cup failed') = {}
        /\ RowsSound' /\ AheadSound' /\ OrderSound' /\ PostedSound'
        /\ (\A s \in AgentSessions : BatchSound(s)') /\ StorySound' /\ StoryInOrder' /\ PostedOnce'
        /\ Known' = Known \cup {k} /\ Made' = Made /\ [Promise!Next]_CallStatus
    BY <1>1, Inserts
  <1>3. Busy' = Busy
    BY <1>1 DEF Busy
  <1>4. OutboxTypeOK'
    BY <1>1, <1>2, <1>3 DEF OutboxInv, OutboxTypeOK
  <1>5. \A s \in AgentSessions : AttemptSound(s)'
    BY <1>1, <1>2 DEF OutboxInv, AttemptSound
  <1>6. RefusalTold'
    <2>1. RefusalTold /\ Keys' = Keys
      BY DEF OutboxInv
    <2>2. \A c : Applied(c)' <=> Applied(c)
      BY <1>1 DEF Applied
    <2> QED
      BY <1>1, <1>2, <2>1, <2>2 DEF RefusalTold, ActivityId
  <1> QED
    BY <1>2, <1>4, <1>5, <1>6 DEF OutboxInv

LEMMA FallbackStep ==
    ASSUME Keyed, OutboxInv, NEW s \in AgentSessions, EnqueueFallback(s)
    PROVE  OutboxInv' /\ [Promise!Next]_CallStatus
  <1> DEFINE k == <<s, Fallback>>
  <1>1. /\ k \in Keys /\ attempt[s].pc = "fallback"
        /\ attempt' = [attempt EXCEPT ![s] = Idle]
        /\ UNCHANGED <<later, sent, failed, batch, posted, tried, restarts>>
        /\ attempt \in [AgentSessions -> Attempts] /\ attempt[s].key = <<s, "result">>
    <2>1. attempt[s].key = <<s, "result">>
      BY DEF OutboxInv, AttemptSound, Idle, EnqueueFallback
    <2> QED
      BY <2>1, KeysArePairs DEF EnqueueFallback, OutboxInv, OutboxTypeOK
  <1>2. /\ due' \subseteq Keys /\ ahead' \subseteq due' \X due' /\ order' \in Seq(Keys)
        /\ due' \cap later' = {} /\ Pending' \cap (sent' \cup failed') = {}
        /\ RowsSound' /\ AheadSound' /\ OrderSound' /\ PostedSound'
        /\ (\A w \in AgentSessions : BatchSound(w)') /\ StorySound' /\ StoryInOrder' /\ PostedOnce'
        /\ Known \subseteq Known' /\ Made' = Made /\ [Promise!Next]_CallStatus
        /\ unsaid \subseteq unsaid' /\ (k \in Known' \/ attempt[s].key \in unsaid')
        /\ unsaid' \subseteq unsaid \cup {attempt[s].key}
    <2>1. CASE Insert(k) /\ UNCHANGED <<outages, unsaid>>
      <3> HIDE DEF k
      <3> QED
        BY <1>1, <2>1, Inserts
    <2>2. CASE Outage /\ unsaid' = unsaid \cup {attempt[s].key} /\ UNCHANGED <<due, ahead, order>>
      <3>1. Pending' = Pending /\ Known' = Known /\ EverQueued' = EverQueued /\ Made' = Made
        BY <1>1, <2>2 DEF Pending, Known, EverQueued, Made
      <3>2. \A a, b : QueuedBefore(a, b)' <=> QueuedBefore(a, b)
        BY <2>2 DEF QueuedBefore
      <3>3. RowsSound' /\ AheadSound' /\ OrderSound' /\ StorySound' /\ StoryInOrder'
        BY <1>1, <2>2, <3>1, <3>2
           DEF OutboxInv, RowsSound, AheadSound, OrderSound, StorySound, StoryInOrder
      <3>4. PostedSound' /\ PostedOnce' /\ \A w \in AgentSessions : BatchSound(w)'
        BY <1>1, <2>2, <3>1 DEF OutboxInv, PostedSound, PostedOnce, BatchSound
      <3>5. CallStatus' = CallStatus
        BY <1>1, <3>1, SameStatus
      <3> QED
        BY <1>1, <2>2, <3>1, <3>3, <3>4, <3>5 DEF OutboxInv, OutboxTypeOK
    <2> QED
      BY <2>1, <2>2 DEF EnqueueFallback
  <1>3. attempt' \in [AgentSessions -> Attempts]
    BY <1>1 DEF Attempts, Idle
  <1>4. Cardinality(Busy') <= SendWorkers
    <2>1. Busy' \subseteq Busy /\ Busy \subseteq AgentSessions
      BY <1>1 DEF Busy, Idle
    <2>2. /\ IsFiniteSet(Busy) /\ Cardinality(Busy) <= SendWorkers /\ SendWorkers \in Nat
      BY <2>1, FS_Subset DEF Keyed, OutboxInv, OutboxTypeOK
    <2>3. IsFiniteSet(Busy') /\ Cardinality(Busy') <= Cardinality(Busy)
      BY <2>1, <2>2, FS_Subset
    <2>4. Cardinality(Busy') \in Nat /\ Cardinality(Busy) \in Nat
      BY <2>2, <2>3, FS_CardinalityType
    <2> QED
      BY <2>2, <2>3, <2>4
  <1>5. OutboxTypeOK'
    <2>1. later' \subseteq Keys /\ sent' \subseteq Keys /\ failed' \subseteq Keys
          /\ sent' \cap failed' = {} /\ batch' \in [AgentSessions -> SUBSET Keys]
          /\ tried' \subseteq Keys
      BY <1>1 DEF OutboxInv, OutboxTypeOK
    <2>2. unsaid' \subseteq Keys
      <3>1. attempt[s].key \in Keys
        BY <1>1 DEF Attempts
      <3> QED
        BY <1>2, <3>1 DEF OutboxInv, OutboxTypeOK
    <2> QED
      BY <1>2, <1>3, <1>4, <2>1, <2>2 DEF OutboxTypeOK
  <1>6. \A w \in AgentSessions : AttemptSound(w)'
    <2>1. AttemptSound(s)'
      BY <1>1 DEF AttemptSound
    <2>2. ASSUME NEW w \in AgentSessions, w # s PROVE AttemptSound(w)'
      <3>1. attempt'[w] = attempt[w] /\ AttemptSound(w)
        BY <1>1, <2>2 DEF OutboxInv
      <3> QED
        BY <1>1, <1>2, <3>1 DEF AttemptSound
    <2> QED
      BY <2>1, <2>2
  <1>7. RefusalTold'
    <2>1. \A c : Applied(c)' <=> Applied(c)
      BY <1>1 DEF Applied
    <2>2. ASSUME NEW w \in AgentSessions, <<w, "result">> \in failed
          PROVE  \/ <<w, Fallback>> \in Known' \/ Applied(ActivityId(<<w, Fallback>>))'
                 \/ attempt'[w].pc = "fallback" \/ <<w, "result">> \in unsaid'
                 \/ <<w, Fallback>> \in tried'
      <3>1. CASE w = s
        BY <1>1, <1>2, <3>1
      <3>2. CASE w # s
        <4>1. attempt'[w] = attempt[w]
          BY <1>1, <3>2
        <4> QED
          BY <1>1, <1>2, <2>1, <2>2, <4>1 DEF OutboxInv, RefusalTold, ActivityId
      <3> QED
        BY <3>1, <3>2
    <2> QED
      BY <1>1, <2>2 DEF RefusalTold
  <1> QED
    BY <1>2, <1>5, <1>6, <1>7 DEF OutboxInv

(* A batch is the first rows due: with one row it has those before it. *)
LEMMA SendDueStep ==
    ASSUME Keyed, OutboxInv, SendDue
    PROVE  OutboxInv' /\ [Promise!Next]_CallStatus
  <1>1. /\ batch' = [s \in AgentSessions |-> ForSession(Listed, s)]
        /\ UNCHANGED <<due, ahead, later, sent, failed, attempt, posted, order, tried, unsaid>>
        /\ \A s \in AgentSessions : attempt[s] = Idle
    BY DEF SendDue, rows, history
  <1>2. /\ Pending' = Pending /\ Known' = Known /\ EverQueued' = EverQueued /\ Made' = Made
        /\ Busy' = Busy
    BY <1>1 DEF Pending, Known, EverQueued, Made, Busy
  <1>3. \A a, b : QueuedBefore(a, b)' <=> QueuedBefore(a, b)
    BY <1>1 DEF QueuedBefore
  <1>4. RowsSound' /\ AheadSound' /\ OrderSound' /\ StorySound' /\ StoryInOrder'
    BY <1>1, <1>2, <1>3
       DEF OutboxInv, RowsSound, AheadSound, OrderSound, StorySound, StoryInOrder
  <1>5. PostedSound' /\ PostedOnce' /\ \A s \in AgentSessions : AttemptSound(s)'
    BY <1>1 DEF OutboxInv, PostedSound, PostedOnce, AttemptSound
  <1>6. CallStatus' = CallStatus
    BY <1>1, <1>2, SameStatus
  <1>7. OutboxTypeOK'
    <2>1. batch' \in [AgentSessions -> SUBSET Keys]
      BY <1>1 DEF ForSession, Listed, OutboxInv, OutboxTypeOK
    <2> QED
      BY <1>1, <1>2, <2>1 DEF OutboxInv, OutboxTypeOK
  <1>8. ASSUME NEW s \in AgentSessions PROVE BatchSound(s)'
    <2>1. batch'[s] = {k \in Listed : SessionOf(k) = s}
      BY <1>1 DEF ForSession
    <2>2. ASSUME NEW k \in Listed, NEW older \in due, <<older, k>> \in ahead
          PROVE  older \in Listed
      <3> DEFINE before(b) == {j \in due : <<j, b>> \in ahead}
      <3>1. k \in due /\ Cardinality(before(k)) < SendBatch
        BY DEF Listed
      <3>2. before(older) \subseteq before(k) /\ before(k) \subseteq due
        BY <2>2, <3>1 DEF OutboxInv, AheadSound
      <3>3. IsFiniteSet(before(k))
        BY <3>2, FS_Subset DEF OutboxInv, RowsSound
      <3>4. IsFiniteSet(before(older)) /\ Cardinality(before(older)) <= Cardinality(before(k))
        <4> HIDE DEF before
        <4> QED
          BY <3>2, <3>3, FS_Subset
      <3>5. Cardinality(before(older)) \in Nat /\ Cardinality(before(k)) \in Nat
        <4> HIDE DEF before
        <4> QED
          BY <3>3, <3>4, FS_CardinalityType
      <3>6. Cardinality(before(older)) < SendBatch
        <4> HIDE DEF before
        <4> QED
          BY <3>1, <3>4, <3>5 DEF Keyed
      <3> QED
        BY <3>6 DEF Listed
    <2>3. Listed \subseteq due
      BY DEF Listed
    <2> QED
      BY <1>1, <2>1, <2>2, <2>3 DEF BatchSound
  <1>9. RefusalTold'
    <2>1. \A c : Applied(c)' <=> Applied(c)
      BY <1>1 DEF Applied
    <2> QED
      BY <1>1, <1>2, <2>1 DEF OutboxInv, RefusalTold, ActivityId
  <1> QED
    BY <1>4, <1>5, <1>6, <1>7, <1>8, <1>9 DEF OutboxInv

(* No call of its session was queued before the one that goes out, is      *)
(* still to be made and was never tried.                                   *)
LEMMA FirstOut ==
    ASSUME OutboxInv, NEW s \in AgentSessions, NEW k \in batch[s], NextUp(batch[s], k),
           NEW older \in Keys \ Made, SessionOf(older) = s, QueuedBefore(older, k)
    PROVE  older \in tried
  <1> SUFFICES ASSUME older \notin tried PROVE FALSE
    OBVIOUS
  <1>1. older # k /\ older \in EverQueued
    BY Before DEF OutboxInv, OutboxTypeOK
  <1>2. older \in due /\ k \in due
    BY <1>1 DEF OutboxInv, OrderSound, RowsSound, BatchSound, Known, Pending
  <1>3. <<older, k>> \in ahead
    BY <1>2 DEF OutboxInv, AheadSound
  <1>4. older \in batch[s]
    BY <1>2, <1>3 DEF OutboxInv, BatchSound
  <1>5. <<k, older>> \in ahead
    BY <1>1, <1>4 DEF NextUp
  <1> QED
    BY <1>2, <1>3, <1>5 DEF OutboxInv, AheadSound

(* A slot more is taken. *)
LEMMA SlotTaken ==
    ASSUME Keyed, NEW s \in AgentSessions, Cardinality(Busy) < SendWorkers, s \notin Busy,
           Busy' = Busy \cup {s}
    PROVE  Cardinality(Busy') <= SendWorkers
  <1>1. IsFiniteSet(Busy)
    BY FS_Subset DEF Keyed, Busy
  <1>2. Cardinality(Busy) \in Nat /\ Cardinality(Busy') = Cardinality(Busy) + 1
    BY <1>1, FS_AddElement, FS_CardinalityType
  <1> QED
    BY <1>2 DEF Keyed

(* No slot more is taken. *)
LEMMA SlotsFreed ==
    ASSUME Keyed, OutboxInv, Busy' \subseteq Busy
    PROVE  Cardinality(Busy') <= SendWorkers
  <1>1. Busy \subseteq AgentSessions
    BY DEF Busy
  <1>2. /\ IsFiniteSet(Busy) /\ Cardinality(Busy) <= SendWorkers /\ SendWorkers \in Nat
    BY <1>1, FS_Subset DEF Keyed, OutboxInv, OutboxTypeOK
  <1>3. IsFiniteSet(Busy') /\ Cardinality(Busy') <= Cardinality(Busy)
    BY <1>2, FS_Subset
  <1>4. Cardinality(Busy') \in Nat /\ Cardinality(Busy) \in Nat
    BY <1>2, <1>3, FS_CardinalityType
  <1> QED
    BY <1>2, <1>3, <1>4

LEMMA PostStep ==
    ASSUME Keyed, OutboxInv, NEW s \in AgentSessions, Post(s)
    PROVE  OutboxInv' /\ [Promise!Next]_CallStatus
  <1>0. /\ OutboxTypeOK /\ RowsSound /\ AheadSound /\ OrderSound /\ PostedSound /\ StorySound
        /\ StoryInOrder /\ PostedOnce /\ RefusalTold
        /\ \A w \in AgentSessions : BatchSound(w) /\ AttemptSound(w)
    BY DEF OutboxInv
  <1>1. PICK k \in batch[s], answer \in {"accepted", "retry", "refused"} :
          /\ NextUp(batch[s], k) /\ attempt[s] = Idle /\ Cardinality(Busy) < SendWorkers
          /\ attempt' = [attempt EXCEPT ![s] = [pc |-> "posted", key |-> k, answer |-> answer]]
          /\ tried \subseteq tried' /\ tried' \subseteq tried \cup {k}
          /\ answer # "accepted" => k \in tried'
          /\ \/ /\ posted' = IF Applied(k) THEN posted
                             ELSE Append(posted, [key |-> k, id |-> k])
                /\ answer # "refused"
             \/ posted' = posted /\ answer # "accepted" /\ (answer = "refused" => ~Applied(k))
          /\ UNCHANGED <<due, ahead, later, sent, failed, batch, order, unsaid>>
    BY DEF Post, ActivityId, rows
  <1>2. k \in Keys /\ k \in due /\ SessionOf(k) = s
    BY <1>0, <1>1 DEF BatchSound, OutboxTypeOK
  <1>3. Applied(k) <=> k \in Made
    BY <1>0, <1>2, AppliedIsMade
  <1>4. \/ posted' = posted
        \/ k \notin Made /\ posted' = Append(posted, [key |-> k, id |-> k])
    BY <1>1, <1>3
  <1>5. /\ PostedSound' /\ Made \subseteq Made' /\ Made' \subseteq Made \cup {k}
        /\ posted' = posted \/ k \notin Made
        /\ posted' = posted => Made' = Made
    <2>1. CASE posted' = posted
      BY <1>0, <2>1 DEF PostedSound, Made
    <2>2. CASE k \notin Made /\ posted' = Append(posted, [key |-> k, id |-> k])
      BY <1>0, <1>2, <2>2, Posts
    <2> QED
      BY <1>4, <2>1, <2>2
  <1>6. answer = "accepted" => k \in Made'
    <2> SUFFICES ASSUME answer = "accepted" PROVE k \in Made'
      OBVIOUS
    <2>1. CASE k \in Made
      BY <1>5, <2>1
    <2>2. CASE k \notin Made
      <3>1. posted' = Append(posted, [key |-> k, id |-> k])
        BY <1>1, <1>3, <2>2
      <3> QED
        BY <1>0, <1>2, <3>1, Posts
    <2> QED
      BY <2>1, <2>2
  <1>7. answer = "refused" => k \notin Made'
    BY <1>1, <1>3, <1>5
  <1>8. Pending' = Pending /\ Known' = Known /\ EverQueued' = EverQueued
    BY <1>1 DEF Pending, Known, EverQueued
  <1>9. \A a, b : QueuedBefore(a, b)' <=> QueuedBefore(a, b)
    BY <1>1 DEF QueuedBefore
  <1>10. OutboxTypeOK'
    <2>1. attempt' \in [AgentSessions -> Attempts]
      BY <1>0, <1>1, <1>2 DEF OutboxTypeOK, Attempts
    <2>2. s \notin Busy /\ Busy' = Busy \cup {s}
      <3>1. \A w \in AgentSessions : attempt'[w] =
              IF w = s THEN [pc |-> "posted", key |-> k, answer |-> answer]
              ELSE attempt[w]
        BY <1>0, <1>1 DEF OutboxTypeOK
      <3> QED
        BY <1>1, <3>1 DEF Busy, Idle
    <2>3. Cardinality(Busy') <= SendWorkers
      BY <1>1, <2>2, SlotTaken
    <2> QED
      BY <1>0, <1>1, <1>2, <1>8, <2>1, <2>3 DEF OutboxTypeOK
  <1>11. RowsSound' /\ AheadSound' /\ OrderSound'
    <2>1. RowsSound'
      BY <1>0, <1>1, <1>5 DEF RowsSound
    <2>2. AheadSound'
      BY <1>0, <1>1, <1>5, <1>9 DEF AheadSound
    <2>3. k \in Known
      BY <1>2 DEF Known, Pending
    <2>4. OrderSound'
      BY <1>0, <1>1, <1>5, <1>8, <2>3 DEF OrderSound
    <2> QED
      BY <2>1, <2>2, <2>4
  <1>12. ASSUME NEW w \in AgentSessions PROVE BatchSound(w)' /\ AttemptSound(w)'
    <2>1. BatchSound(w)'
      BY <1>0, <1>1, <1>5 DEF BatchSound
    <2>2. CASE w = s
      <3>1. attempt'[w] = [pc |-> "posted", key |-> k, answer |-> answer]
        BY <1>0, <1>1, <2>2 DEF OutboxTypeOK
      <3> QED
        BY <1>1, <1>6, <1>7, <2>1, <2>2, <3>1 DEF AttemptSound
    <2>3. CASE w # s
      <3>1. attempt'[w] = attempt[w] /\ batch'[w] = batch[w] /\ AttemptSound(w)
        BY <1>0, <1>1, <2>3 DEF OutboxTypeOK
      <3>2. attempt[w].key \in batch[w] => attempt[w].key # k
        BY <1>0, <1>2, <2>3 DEF BatchSound
      <3> QED
        BY <1>1, <1>5, <2>1, <3>1, <3>2 DEF AttemptSound
    <2> QED
      BY <2>2, <2>3, <2>1
  <1>13. ASSUME NEW older \in Keys \ Made, SessionOf(older) = s, QueuedBefore(older, k)
         PROVE  older \in tried
    BY <1>1, <1>13, FirstOut
  <1>14. StorySound'
    <2> SUFFICES ASSUME NEW l \in Made', NEW older \in Keys \ Made',
                        SessionOf(l) = SessionOf(older), QueuedBefore(older, l)
                 PROVE  older \in tried'
      BY <1>9 DEF StorySound
    <2>1. older \in Keys \ Made
      BY <1>5
    <2>2. CASE l \in Made
      BY <1>0, <1>1, <2>1, <2>2 DEF StorySound
    <2>3. CASE l = k
      BY <1>1, <1>2, <1>13, <2>1, <2>3
    <2> QED
      BY <1>5, <2>2, <2>3
  <1>15. StoryInOrder' /\ PostedOnce'
    <2>1. CASE posted' = posted
      BY <1>0, <1>1, <1>9, <2>1 DEF StoryInOrder, PostedOnce
    <2>2. CASE k \notin Made /\ posted' = Append(posted, [key |-> k, id |-> k])
      <3>1. /\ Len(posted) \in Nat /\ Len(posted') = Len(posted) + 1
            /\ posted'[Len(posted')].key = k
            /\ \A i \in 1 .. Len(posted) : posted'[i] = posted[i]
        BY <1>0, <1>2, <2>2, Posts
      <3>2. /\ \A i \in 1 .. Len(posted') : i \in 1 .. Len(posted) \/ i = Len(posted')
            /\ \A i \in 1 .. Len(posted) : posted[i].key \in Made /\ i < Len(posted')
        BY <3>1 DEF Made
      <3>3. PostedOnce'
        BY <1>0, <2>2, <3>1, <3>2 DEF PostedOnce
      <3>4. StoryInOrder'
        <4> SUFFICES ASSUME NEW i \in 1 .. Len(posted'), NEW j \in 1 .. Len(posted'), i < j,
                            SessionOf(posted'[i].key) = SessionOf(posted'[j].key),
                            QueuedBefore(posted'[j].key, posted'[i].key)
                     PROVE  posted'[j].key \in tried'
          BY <1>9 DEF StoryInOrder
        <4>1. i \in 1 .. Len(posted)
          BY <3>1, <3>2
        <4>2. CASE j \in 1 .. Len(posted)
          BY <1>0, <1>1, <3>1, <4>1, <4>2 DEF StoryInOrder
        <4>3. CASE j = Len(posted')
          <5>1. posted'[j].key = k /\ posted'[i].key = posted[i].key /\ posted[i].key \in Made
            BY <3>1, <3>2, <4>1, <4>3
          <5>2. k \in Keys \ Made
            BY <1>2, <2>2
          <5> QED
            BY <1>0, <1>1, <5>1, <5>2 DEF StorySound
        <4> QED
          BY <3>2, <4>2, <4>3
      <3> QED
        BY <3>3, <3>4
    <2> QED
      BY <1>4, <2>1, <2>2
  <1>16. RefusalTold'
    <2>1. \A c \in Keys : Applied(c) => Applied(c)'
      <3>1. \A c \in Keys : Applied(c) <=> c \in Made
        BY <1>0, AppliedIsMade
      <3>2. \A c \in Keys : Applied(c)' <=> c \in Made'
        BY <1>5 DEF PostedSound, Applied, Made
      <3> QED
        BY <1>5, <3>1, <3>2
    <2>2. ASSUME NEW w \in AgentSessions, <<w, "result">> \in failed
          PROVE  \/ <<w, Fallback>> \in Known' \/ Applied(ActivityId(<<w, Fallback>>))'
                 \/ attempt'[w].pc = "fallback" \/ <<w, "result">> \in unsaid'
                 \/ <<w, Fallback>> \in tried'
      <3>1. attempt[w].pc = "fallback" => attempt'[w].pc = "fallback"
        BY <1>0, <1>1 DEF OutboxTypeOK, Idle
      <3>2. <<w, Fallback>> \in Keys
        BY KeysArePairs
      <3> QED
        BY <1>0, <1>1, <1>8, <2>1, <2>2, <3>1, <3>2 DEF RefusalTold, ActivityId
    <2> QED
      BY <1>1, <2>2 DEF RefusalTold
  <1>17. [Promise!Next]_CallStatus
    <2>1. CASE Made' = Made
      BY <1>1, <1>8, <2>1, SameStatus
    <2>2. CASE k \notin Made /\ Made' = Made \cup {k}
      <3>1. CallStatus[k] = "owed" /\ CallStatus' = [CallStatus EXCEPT ![k] = "made"]
        BY <1>1, <1>2, <1>8, <2>2 DEF CallStatus, Pending
      <3> QED
        BY <1>2, <3>1 DEF Promise!Next, Promise!Make, Promise!Move
    <2> QED
      BY <1>5, <2>1, <2>2
  <1> QED
    BY <1>5, <1>10, <1>11, <1>12, <1>14, <1>15, <1>16, <1>17 DEF OutboxInv

LEMMA RecordStep ==
    ASSUME Keyed, OutboxInv, NEW s \in AgentSessions, Record(s)
    PROVE  OutboxInv' /\ [Promise!Next]_CallStatus
  <1> DEFINE k == attempt[s].key
             answer == attempt[s].answer
  <1>0. /\ OutboxTypeOK /\ RowsSound /\ AheadSound /\ OrderSound /\ PostedSound /\ StorySound
        /\ StoryInOrder /\ PostedOnce /\ RefusalTold
        /\ \A w \in AgentSessions : BatchSound(w) /\ AttemptSound(w)
    BY DEF OutboxInv
  <1>1. /\ attempt[s].pc = "posted"
        /\ \/ Outcome(k, answer) /\ Leaves(k)
           \/ UNCHANGED <<due, ahead, later, sent, failed>>
        /\ attempt' = [attempt EXCEPT ![s] = AfterRecord(k, answer)]
        /\ batch' = [batch EXCEPT ![s] = @ \ {k}]
        /\ UNCHANGED <<posted, order, tried, unsaid>>
    BY DEF Record, rows
  <1>2. /\ k \in batch[s] /\ k \in due /\ k \in Keys /\ SessionOf(k) = s
        /\ \/ answer = "accepted" /\ k \in Made
           \/ answer = "retry" /\ k \in tried
           \/ answer = "refused" /\ k \in tried \ Made
    <2>1. /\ k \in batch[s]
          /\ \/ answer = "accepted" /\ k \in Made
             \/ answer = "retry" /\ k \in tried
             \/ answer = "refused" /\ k \in tried \ Made
      BY <1>0, <1>1 DEF AttemptSound, Idle
    <2> QED
      BY <1>0, <2>1 DEF BatchSound, OutboxTypeOK
  <1> HIDE DEF k, answer
  <1>3. /\ Made' = Made /\ EverQueued' = EverQueued /\ PostedSound' /\ PostedOnce'
        /\ \A c : Applied(c)' <=> Applied(c)
    BY <1>0, <1>1 DEF Made, EverQueued, PostedSound, PostedOnce, Applied
  <1>4. \A a, b : QueuedBefore(a, b)' <=> QueuedBefore(a, b)
    BY <1>1 DEF QueuedBefore
  <1>5. StorySound' /\ StoryInOrder'
    BY <1>0, <1>1, <1>3, <1>4 DEF StorySound, StoryInOrder
  (* The row moves to where its answer puts it, or stays. *)
  <1>6. /\ due' \subseteq due /\ due \subseteq due' \cup {k}
        /\ ahead' \subseteq due' \X due' /\ ahead' \subseteq ahead
        /\ \A a, b \in due' : <<a, b>> \in ahead => <<a, b>> \in ahead'
        /\ later' \subseteq Keys /\ sent' \subseteq Keys /\ failed' \subseteq Keys
        /\ due' \cap later' = {} /\ Pending' \cap (sent' \cup failed') = {}
        /\ sent' \cap failed' = {} /\ Known' = Known
        /\ sent' \subseteq Made /\ failed' \subseteq tried /\ later' \subseteq tried
        /\ failed' \subseteq failed \cup {k}
        /\ k \in failed' => (answer = "refused" \/ failed' = failed)
    <2>1. CASE UNCHANGED <<due, ahead, later, sent, failed>>
      BY <1>0, <2>1 DEF OutboxTypeOK, RowsSound, Known, Pending
    <2>2. CASE Outcome(k, answer) /\ Leaves(k)
      <3>1. /\ due' = due \ {k} /\ ahead' = ahead \cap (due' \X due')
            /\ k \notin later \cup sent \cup failed
        BY <1>0, <1>2, <2>2 DEF Leaves, OutboxTypeOK, Pending
      <3>2. /\ due' \subseteq due /\ due \subseteq due' \cup {k}
            /\ ahead' \subseteq due' \X due' /\ ahead' \subseteq ahead
            /\ \A a, b \in due' : <<a, b>> \in ahead => <<a, b>> \in ahead'
        BY <3>1
      <3>3. CASE answer = "accepted" /\ Accepted(k)
        BY <1>0, <1>2, <3>1, <3>2, <3>3 DEF Accepted, OutboxTypeOK, RowsSound, Known, Pending
      <3>4. CASE answer = "refused" /\ Refused(k)
        BY <1>0, <1>2, <3>1, <3>2, <3>4 DEF Refused, OutboxTypeOK, RowsSound, Known, Pending
      <3>5. CASE answer = "retry" /\ Retried(k)
        BY <1>0, <1>2, <3>1, <3>2, <3>5 DEF Retried, OutboxTypeOK, RowsSound, Known, Pending
      <3> QED
        BY <2>2, <3>3, <3>4, <3>5 DEF Outcome
    <2> QED
      BY <1>1, <2>1, <2>2
  <1>7. /\ \A w \in AgentSessions : w # s => attempt'[w] = attempt[w] /\ batch'[w] = batch[w]
        /\ attempt'[s] = AfterRecord(k, answer) /\ batch'[s] = batch[s] \ {k}
        /\ batch' \in [AgentSessions -> SUBSET Keys]
    BY <1>0, <1>1 DEF OutboxTypeOK
  <1>8. /\ attempt'[s] \in Attempts
        /\ \/ attempt'[s] = Idle
           \/ /\ attempt'[s].pc = "fallback" /\ attempt'[s].key = <<s, "result">>
        /\ (answer = "refused" /\ k = <<s, "result">>) => attempt'[s].pc = "fallback"
    <2>1. answer \in {"none", "accepted", "retry", "refused"}
      BY <1>2
    <2>2. CASE answer = "refused" /\ k[2] = "result"
      <3>1. k = <<s, "result">>
        BY <1>2, <2>2, KeysArePairs
      <3> QED
        BY <1>2, <1>7, <2>1, <2>2, <3>1 DEF AfterRecord, Attempts
    <2>3. CASE ~(answer = "refused" /\ k[2] = "result")
      <3>1. AfterRecord(k, answer) = Idle
        BY <2>3 DEF AfterRecord
      <3>2. Idle \in Attempts
        BY DEF Idle, Attempts
      <3>3. ~(answer = "refused" /\ k = <<s, "result">>)
        BY <2>3
      <3> QED
        BY <1>7, <3>1, <3>2, <3>3
    <2> QED
      BY <2>2, <2>3
  <1>9. OutboxTypeOK'
    <2>1. attempt' \in [AgentSessions -> Attempts]
      BY <1>0, <1>1, <1>7, <1>8 DEF OutboxTypeOK
    <2>2. Busy' \subseteq Busy
      BY <1>1, <1>7 DEF Busy
    <2>3. Cardinality(Busy') <= SendWorkers
      BY <2>2, SlotsFreed
    <2> QED
      BY <1>0, <1>1, <1>6, <1>7, <2>1, <2>3 DEF OutboxTypeOK
  <1>10. RowsSound' /\ AheadSound' /\ OrderSound'
    <2>1. IsFiniteSet(due')
      BY <1>0, <1>6, FS_Subset DEF RowsSound
    <2>2. RowsSound'
      BY <1>1, <1>3, <1>6, <2>1 DEF RowsSound
    <2>3. \A a, b, c \in due' : <<a, b>> \in ahead' /\ <<b, c>> \in ahead' => <<a, c>> \in ahead'
      BY <1>0, <1>6 DEF AheadSound
    <2>4. \A a, b \in due' : QueuedBefore(a, b)' => a \in tried \cup Made \/ <<a, b>> \in ahead'
      BY <1>0, <1>4, <1>6 DEF AheadSound
    <2>5. \A a \in due' : <<a, a>> \notin ahead'
      BY <1>0, <1>6 DEF AheadSound
    <2>6. AheadSound'
      BY <1>1, <1>3, <2>3, <2>4, <2>5 DEF AheadSound
    <2>7. OrderSound'
      BY <1>0, <1>1, <1>3, <1>6 DEF OrderSound
    <2> QED
      BY <2>2, <2>6, <2>7
  <1>11. ASSUME NEW w \in AgentSessions PROVE BatchSound(w)'
    <2>1. batch'[w] \subseteq batch[w] /\ k \notin batch'[w]
      BY <1>0, <1>2, <1>7 DEF BatchSound
    <2>2. \A b \in batch'[w] : b \in due' /\ SessionOf(b) = w
      BY <1>0, <1>6, <2>1 DEF BatchSound
    <2>3. \A b \in batch'[w], older \in due' :
            (SessionOf(older) = w /\ <<older, b>> \in ahead')
            => older \in batch[w] \cup tried \cup Made
      BY <1>0, <1>6, <2>1 DEF BatchSound
    <2>4. \A c \in batch[w] : c \in batch'[w] \/ c = k
      BY <1>7
    <2>5. k \in tried \cup Made
      BY <1>2
    <2> QED
      BY <1>1, <1>3, <2>2, <2>3, <2>4, <2>5 DEF BatchSound
  <1>12. ASSUME NEW w \in AgentSessions PROVE AttemptSound(w)'
    <2>1. CASE w = s
      BY <1>8, <2>1 DEF AttemptSound
    <2>2. CASE w # s
      <3>1. attempt'[w] = attempt[w] /\ batch'[w] = batch[w] /\ AttemptSound(w)
        BY <1>0, <1>7, <2>2
      <3> QED
        BY <1>1, <1>3, <3>1 DEF AttemptSound
    <2> QED
      BY <2>1, <2>2
  <1>13. RefusalTold'
    <2>1. ASSUME NEW w \in AgentSessions, <<w, "result">> \in failed'
          PROVE  \/ <<w, Fallback>> \in Known' \/ Applied(ActivityId(<<w, Fallback>>))'
                 \/ attempt'[w].pc = "fallback" \/ <<w, "result">> \in unsaid'
                 \/ <<w, Fallback>> \in tried'
      <3>1. CASE <<w, "result">> \in failed
        <4>1. attempt[w].pc = "fallback" => attempt'[w].pc = "fallback"
          BY <1>1, <1>7
        <4> QED
          BY <1>0, <1>1, <1>3, <1>6, <3>1, <4>1 DEF RefusalTold, ActivityId
      <3>2. CASE <<w, "result">> \notin failed
        <4>1. <<w, "result">> = k /\ answer = "refused"
          BY <1>6, <2>1, <3>2
        <4>2. w = s
          BY <1>2, <4>1 DEF SessionOf
        <4> QED
          BY <1>8, <4>1, <4>2
      <3> QED
        BY <3>1, <3>2
    <2> QED
      BY <2>1 DEF RefusalTold
  <1>14. [Promise!Next]_CallStatus
    <2>1. CASE UNCHANGED <<due, ahead, later, sent, failed>>
      <3>1. Pending' = Pending
        BY <2>1 DEF Pending
      <3> QED
        BY <1>3, <2>1, <3>1, SameStatus
    <2>2. CASE Outcome(k, answer) /\ Leaves(k)
      <3>1. due' = due \ {k}
        BY <2>2 DEF Leaves
      <3>2. CASE answer = "accepted" /\ Accepted(k)
        <4>1. k \in Made /\ Pending' \cup {k} = Pending \cup {k} /\ failed' = failed
          BY <1>2, <3>1, <3>2 DEF Accepted, Pending
        <4>2. CallStatus' = CallStatus
          BY <1>3, <4>1 DEF CallStatus
        <4> QED
          BY <4>2
      <3>3. CASE answer = "refused" /\ Refused(k)
        <4>1. k \in Pending /\ k \notin Made /\ k \notin Pending' /\ failed' = failed \cup {k}
          BY <1>0, <1>2, <3>1, <3>3 DEF Refused, Pending, OutboxTypeOK
        <4>2. Pending' = Pending \ {k}
          BY <1>0, <1>2, <3>1, <3>3 DEF Refused, Pending, OutboxTypeOK
        <4>3. CallStatus[k] = "owed" /\ CallStatus' = [CallStatus EXCEPT ![k] = "refused"]
          BY <1>2, <1>3, <4>1, <4>2 DEF CallStatus
        <4> QED
          BY <1>2, <4>3 DEF Promise!Next, Promise!Refuse, Promise!Move
      <3>4. CASE answer = "retry" /\ Retried(k)
        <4>1. Pending' = Pending /\ failed' = failed
          BY <1>2, <3>1, <3>4 DEF Retried, Pending
        <4> QED
          BY <1>3, <4>1, SameStatus
      <3> QED
        BY <2>2, <3>2, <3>3, <3>4 DEF Outcome
    <2> QED
      BY <1>1, <2>1, <2>2
  <1> QED
    BY <1>3, <1>5, <1>9, <1>10, <1>11, <1>12, <1>13, <1>14 DEF OutboxInv

LEMMA RetryDueStep ==
    ASSUME Keyed, OutboxInv, NEW k \in Keys, RetryDue(k)
    PROVE  OutboxInv' /\ [Promise!Next]_CallStatus
  <1>0. /\ OutboxTypeOK /\ RowsSound /\ AheadSound /\ OrderSound /\ PostedSound /\ StorySound
        /\ StoryInOrder /\ PostedOnce /\ RefusalTold
        /\ \A w \in AgentSessions : BatchSound(w) /\ AttemptSound(w)
    BY DEF OutboxInv
  <1>1. /\ k \in later /\ k \notin due /\ later' = later \ {k} /\ FallsDue(k)
        /\ due' = due \cup {k}
        /\ UNCHANGED <<sent, failed, batch, attempt, posted, order, tried, unsaid>>
    BY <1>0 DEF RetryDue, FallsDue, OutboxTypeOK, pass, history
  <1>2. /\ IsFiniteSet(due') /\ due' \subseteq Keys /\ ahead' \subseteq due' \X due'
        /\ \A i \in due' : <<i, i>> \notin ahead'
        /\ \A i, j, l \in due' : <<i, j>> \in ahead' /\ <<j, l>> \in ahead' => <<i, l>> \in ahead'
        /\ \A j \in due : <<j, k>> \in ahead'
        /\ \A i, j \in due : <<i, j>> \in ahead' <=> <<i, j>> \in ahead
        /\ \A s \in AgentSessions : BatchSound(s)'
    BY <1>1, Joins
  <1>3. /\ Pending' = Pending /\ Known' = Known /\ Made' = Made /\ EverQueued' = EverQueued
        /\ Busy' = Busy /\ \A c : Applied(c)' <=> Applied(c)
    BY <1>1 DEF Pending, Known, Made, EverQueued, Busy, Applied
  <1>4. \A a, b : QueuedBefore(a, b)' <=> QueuedBefore(a, b)
    BY <1>1 DEF QueuedBefore
  <1>5. OutboxTypeOK'
    <2>1. due' \cap later' = {} /\ later' \subseteq Keys
      BY <1>0, <1>1 DEF OutboxTypeOK
    <2> QED
      BY <1>0, <1>1, <1>2, <1>3, <2>1 DEF OutboxTypeOK
  <1>6. RowsSound' /\ OrderSound' /\ PostedSound' /\ StorySound' /\ StoryInOrder' /\ PostedOnce'
    BY <1>0, <1>1, <1>2, <1>3, <1>4
       DEF RowsSound, OrderSound, PostedSound, StorySound, StoryInOrder, PostedOnce
  <1>7. AheadSound'
    <2>1. ASSUME NEW older \in due', NEW l \in due', QueuedBefore(older, l)
          PROVE  older \in tried \cup Made \/ <<older, l>> \in ahead'
      <3>1. older # l
        BY <1>0, <2>1, Before DEF OutboxTypeOK
      <3>2. k \in tried
        BY <1>0, <1>1 DEF RowsSound
      <3> QED
        BY <1>0, <1>1, <1>2, <2>1, <3>1, <3>2 DEF AheadSound
    <2> QED
      BY <1>1, <1>2, <1>3, <1>4, <2>1 DEF AheadSound
  <1>8. \A s \in AgentSessions : AttemptSound(s)'
    BY <1>0, <1>1, <1>3 DEF AttemptSound
  <1>9. RefusalTold'
    BY <1>0, <1>1, <1>3 DEF RefusalTold, ActivityId
  <1>10. CallStatus' = CallStatus
    BY <1>1, <1>3, SameStatus
  <1> QED
    BY <1>2, <1>5, <1>6, <1>7, <1>8, <1>9, <1>10 DEF OutboxInv

(* A receipt that goes has left its trace: Linear shows the call, or an    *)
(* attempt failed for it.  A refusal that goes is forgotten.               *)
LEMMA PruneStep ==
    ASSUME Keyed, OutboxInv, Prune
    PROVE  OutboxInv' /\ [Promise!Next]_CallStatus
  <1>0. /\ OutboxTypeOK /\ RowsSound /\ AheadSound /\ OrderSound /\ PostedSound /\ StorySound
        /\ StoryInOrder /\ PostedOnce /\ RefusalTold
        /\ \A w \in AgentSessions : BatchSound(w) /\ AttemptSound(w)
    BY DEF OutboxInv
  <1>1. /\ sent' \subseteq sent /\ failed' \subseteq failed
        /\ UNCHANGED <<due, ahead, later, batch, attempt, posted, order, tried, unsaid>>
    BY DEF Prune, pass, history
  <1>2. /\ Pending' = Pending /\ Made' = Made /\ EverQueued' = EverQueued /\ Busy' = Busy
        /\ \A c : Applied(c)' <=> Applied(c)
    BY <1>1 DEF Pending, Made, EverQueued, Busy, Applied
  <1>3. \A a, b : QueuedBefore(a, b)' <=> QueuedBefore(a, b)
    BY <1>1 DEF QueuedBefore
  <1>4. Known' \subseteq Known /\ Known \subseteq Known' \cup Made \cup tried
    BY <1>0, <1>1, <1>2 DEF Known, RowsSound
  <1>5. OutboxTypeOK'
    BY <1>0, <1>1, <1>2 DEF OutboxTypeOK
  <1>6. RowsSound' /\ AheadSound' /\ StorySound' /\ StoryInOrder' /\ PostedSound' /\ PostedOnce'
    BY <1>0, <1>1, <1>2, <1>3
       DEF RowsSound, AheadSound, StorySound, StoryInOrder, PostedSound, PostedOnce
  <1>7. OrderSound'
    BY <1>0, <1>1, <1>2, <1>4 DEF OrderSound
  <1>8. \A s \in AgentSessions : BatchSound(s)' /\ AttemptSound(s)'
    BY <1>0, <1>1, <1>2 DEF BatchSound, AttemptSound
  <1>9. RefusalTold'
    <2>1. ASSUME NEW s \in AgentSessions, <<s, "result">> \in failed'
          PROVE  \/ <<s, Fallback>> \in Known' \/ Applied(ActivityId(<<s, Fallback>>))
                 \/ attempt[s].pc = "fallback" \/ <<s, "result">> \in unsaid
                 \/ <<s, Fallback>> \in tried
      <3>1. CASE <<s, Fallback>> \in Known
        <4>1. <<s, Fallback>> \in Known' \cup Made \cup tried /\ <<s, Fallback>> \in Keys
          BY <1>4, <3>1, KeysArePairs
        <4> QED
          BY <1>0, <4>1, AppliedIsMade DEF ActivityId
      <3> QED
        BY <1>0, <1>1, <2>1, <3>1 DEF RefusalTold
    <2> QED
      BY <1>1, <1>2, <2>1 DEF RefusalTold, ActivityId
  <1>10. [Promise!Next]_CallStatus
    <2> DEFINE cs == {c \in Keys : c \in failed /\ c \notin failed' /\ c \notin Made}
    <2>1. \A c \in cs : CallStatus[c] = "refused"
      BY <1>0 DEF CallStatus, OutboxTypeOK
    <2>2. \A c \in cs : c \notin Pending
      BY <1>0 DEF OutboxTypeOK
    <2>3. CallStatus' = [c \in Keys |-> IF c \in cs THEN "none" ELSE CallStatus[c]]
      BY <1>1, <1>2, <2>2 DEF CallStatus
    <2>4. Promise!Forget(cs) /\ cs \in SUBSET Keys
      <3> HIDE DEF cs
      <3>1. cs \in SUBSET Keys
        BY DEF cs
      <3> QED
        BY <2>1, <2>3, <3>1 DEF Promise!Forget
    <2> QED
      BY <2>4 DEF Promise!Next
  <1> QED
    BY <1>5, <1>6, <1>7, <1>8, <1>9, <1>10 DEF OutboxInv

(* What the server was about to do is lost, the rows are not. *)
LEMMA RestartStep ==
    ASSUME Keyed, OutboxInv, Restart
    PROVE  OutboxInv' /\ [Promise!Next]_CallStatus
  <1>0. /\ OutboxTypeOK /\ RowsSound /\ AheadSound /\ OrderSound /\ PostedSound /\ StorySound
        /\ StoryInOrder /\ PostedOnce /\ RefusalTold
        /\ \A w \in AgentSessions : BatchSound(w) /\ AttemptSound(w)
    BY DEF OutboxInv
  <1>1. /\ batch' = [s \in AgentSessions |-> {}] /\ attempt' = [s \in AgentSessions |-> Idle]
        /\ unsaid' = unsaid \cup {attempt[s].key :
                                    s \in {w \in AgentSessions : attempt[w].pc = "fallback"}}
        /\ UNCHANGED <<due, ahead, later, sent, failed, posted, order, tried>>
    BY DEF Restart, rows
  <1>2. /\ Pending' = Pending /\ Known' = Known /\ Made' = Made /\ EverQueued' = EverQueued
        /\ \A c : Applied(c)' <=> Applied(c)
    BY <1>1 DEF Pending, Known, Made, EverQueued, Applied
  <1>3. \A a, b : QueuedBefore(a, b)' <=> QueuedBefore(a, b)
    BY <1>1 DEF QueuedBefore
  <1>4. \A s \in AgentSessions : attempt[s].pc = "fallback" =>
            attempt[s].key = <<s, "result">> /\ attempt[s].key \in Keys
    <2> SUFFICES ASSUME NEW s \in AgentSessions, attempt[s].pc = "fallback"
                 PROVE  attempt[s].key = <<s, "result">> /\ attempt[s].key \in Keys
      OBVIOUS
    <2>1. attempt[s].key = <<s, "result">>
      BY <1>0 DEF AttemptSound, Idle
    <2>2. attempt[s].key \in Keys \cup {<<>>}
      BY <1>0 DEF OutboxTypeOK, Attempts
    <2> QED
      BY <2>1, <2>2
  <1>5. OutboxTypeOK'
    <2>1. attempt' \in [AgentSessions -> Attempts] /\ Busy' = {}
      BY <1>1 DEF Attempts, Idle, Busy
    <2>2. Cardinality(Busy') <= SendWorkers
      BY <2>1, SlotsFreed
    <2>3. unsaid' \subseteq Keys
      BY <1>0, <1>1, <1>4 DEF OutboxTypeOK
    <2>4. batch' \in [AgentSessions -> SUBSET Keys]
      BY <1>1
    <2> QED
      BY <1>0, <1>1, <1>2, <2>1, <2>2, <2>3, <2>4 DEF OutboxTypeOK
  <1>6. RowsSound' /\ AheadSound' /\ OrderSound' /\ StorySound' /\ StoryInOrder'
        /\ PostedSound' /\ PostedOnce'
    BY <1>0, <1>1, <1>2, <1>3
       DEF RowsSound, AheadSound, OrderSound, StorySound, StoryInOrder, PostedSound, PostedOnce
  <1>7. \A s \in AgentSessions : BatchSound(s)' /\ AttemptSound(s)'
    BY <1>1 DEF BatchSound, AttemptSound
  <1>8. RefusalTold'
    <2>1. unsaid \subseteq unsaid'
          /\ \A s \in AgentSessions : attempt[s].pc = "fallback" => <<s, "result">> \in unsaid'
      BY <1>1, <1>4
    <2> QED
      BY <1>0, <1>1, <1>2, <2>1 DEF RefusalTold, ActivityId
  <1>9. CallStatus' = CallStatus
    BY <1>1, <1>2, SameStatus
  <1> QED
    BY <1>5, <1>6, <1>7, <1>8, <1>9 DEF OutboxInv

LEMMA OutboxStutters ==
    ASSUME OutboxInv, UNCHANGED outboxVars
    PROVE  OutboxInv' /\ CallStatus' = CallStatus
  <1>1. UNCHANGED <<due, ahead, later, sent, failed, batch, attempt, posted, order, tried, unsaid>>
    BY DEF outboxVars, rows, pass, history
  <1>2. /\ Pending' = Pending /\ Known' = Known /\ Made' = Made /\ EverQueued' = EverQueued
        /\ Busy' = Busy /\ \A c : Applied(c)' <=> Applied(c)
    BY <1>1 DEF Pending, Known, Made, EverQueued, Busy, Applied
  <1>3. \A a, b : QueuedBefore(a, b)' <=> QueuedBefore(a, b)
    BY <1>1 DEF QueuedBefore
  <1>4. OutboxTypeOK' /\ RowsSound' /\ AheadSound' /\ OrderSound' /\ PostedSound'
    BY <1>1, <1>2, <1>3 DEF OutboxInv, OutboxTypeOK, RowsSound, AheadSound, OrderSound, PostedSound
  <1>5. StorySound' /\ StoryInOrder' /\ PostedOnce' /\ RefusalTold'
    BY <1>1, <1>2, <1>3
       DEF OutboxInv, StorySound, StoryInOrder, PostedOnce, RefusalTold, ActivityId
  <1>6. \A s \in AgentSessions : BatchSound(s)' /\ AttemptSound(s)'
    BY <1>1, <1>2 DEF OutboxInv, BatchSound, AttemptSound
  <1>7. CallStatus' = CallStatus
    BY <1>1, <1>2, SameStatus
  <1> QED
    BY <1>4, <1>5, <1>6, <1>7 DEF OutboxInv

LEMMA OutboxStep ==
    ASSUME Keyed, OutboxInv, [OutboxNext]_outboxVars
    PROVE  OutboxInv' /\ [Promise!Next]_CallStatus
  <1>1. CASE \E k \in Queued : Enqueue(k)
    BY <1>1, EnqueueStep
  <1>2. CASE SendDue
    BY <1>2, SendDueStep
  <1>3. ASSUME NEW s \in AgentSessions, SendStep(s)
        PROVE  OutboxInv' /\ [Promise!Next]_CallStatus
    BY <1>3, PostStep, RecordStep, FallbackStep DEF SendStep
  <1>4. CASE \E k \in Keys : RetryDue(k)
    BY <1>4, RetryDueStep
  <1>5. CASE Prune
    BY <1>5, PruneStep
  <1>6. CASE Restart
    BY <1>6, RestartStep
  <1>7. CASE UNCHANGED outboxVars
    BY <1>7, OutboxStutters
  <1> QED
    BY <1>1, <1>2, <1>3, <1>4, <1>5, <1>6, <1>7 DEF OutboxNext

LEMMA OutboxStarts ==
    ASSUME Keyed, OutboxInit
    PROVE  OutboxInv /\ Promise!Init
  <1>1. /\ due = {} /\ ahead = {} /\ later = {} /\ sent = {} /\ failed = {}
        /\ batch = [s \in AgentSessions |-> {}] /\ attempt = [s \in AgentSessions |-> Idle]
        /\ posted = <<>> /\ order = <<>> /\ tried = {} /\ unsaid = {}
    BY DEF OutboxInit
  <1>2. /\ Len(posted) = 0 /\ Len(order) = 0 /\ 1 .. 0 = {}
        /\ posted \in Seq([key : Keys, id : Keys]) /\ order \in Seq(Keys)
    BY <1>1
  <1>3. Pending = {} /\ Known = {} /\ Made = {} /\ EverQueued = {} /\ Busy = {}
    BY <1>1, <1>2 DEF Pending, Known, Made, EverQueued, Busy, Idle
  <1>4. OutboxTypeOK
    <2>1. attempt \in [AgentSessions -> Attempts]
      BY <1>1 DEF Attempts, Idle
    <2>2. Cardinality(Busy) <= SendWorkers
      BY <1>3, FS_EmptySet DEF Keyed
    <2> QED
      BY <1>1, <1>2, <1>3, <2>1, <2>2 DEF OutboxTypeOK
  <1>5. RowsSound /\ AheadSound /\ OrderSound /\ PostedSound
    BY <1>1, <1>2, <1>3, FS_EmptySet DEF RowsSound, AheadSound, OrderSound, PostedSound
  <1>6. StorySound /\ StoryInOrder /\ PostedOnce /\ RefusalTold
    BY <1>1, <1>2, <1>3 DEF StorySound, StoryInOrder, PostedOnce, RefusalTold
  <1>7. \A s \in AgentSessions : BatchSound(s) /\ AttemptSound(s)
    BY <1>1 DEF BatchSound, AttemptSound
  <1>8. Promise!Init
    BY <1>1, <1>3 DEF CallStatus, Promise!Init
  <1> QED
    BY <1>4, <1>5, <1>6, <1>7, <1>8 DEF OutboxInv

(* A session's calls reach Linear in the order they were owed unless one   *)
(* failed, none reaches it twice, and the refusal of a result is told:     *)
(* whatever the batches, the retries, the receipts that go (sendDue, send, *)
(* prune, Enqueue) and the restarts between a call and its record.         *)
THEOREM OutboxHeld == Keyed => (OutboxSpec => []OutboxHolds)
<1> SUFFICES ASSUME Keyed PROVE OutboxSpec => []OutboxHolds
  OBVIOUS
<1>1. OutboxInit => OutboxInv
  BY OutboxStarts
<1>2. OutboxInv /\ [OutboxNext]_outboxVars => OutboxInv'
  BY OutboxStep
<1>3. OutboxInv => OutboxHolds
  BY DEF OutboxInv, OutboxHolds
<1> QED
  BY <1>1, <1>2, <1>3, PTL DEF OutboxSpec

(* The safety half of ImplementsOwedCalls: every step of the rows and of   *)
(* Linear is one the promise allows.  No call is made that is not owed,    *)
(* none is unmade, and only a refusal is forgotten (Enqueue, send, prune). *)
THEOREM KeepsPromise == Keyed => (OutboxSpec => Promise!Init /\ [][Promise!Next]_CallStatus)
<1> SUFFICES ASSUME Keyed PROVE OutboxSpec => Promise!Init /\ [][Promise!Next]_CallStatus
  OBVIOUS
<1>1. OutboxInit => OutboxInv /\ Promise!Init
  BY OutboxStarts
<1>2. OutboxInv /\ [OutboxNext]_outboxVars => OutboxInv' /\ [Promise!Next]_CallStatus
  BY OutboxStep
<1> QED
  BY <1>1, <1>2, PTL DEF OutboxSpec
=============================================================================
