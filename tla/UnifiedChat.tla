----------------------------- MODULE UnifiedChat -----------------------------
(***************************************************************************)
(* A chat Thread of the unified-core prototype: core.Service keeps one     *)
(* foreground turn, the pending requests and one slot for the ACP writer;  *)
(* acp.Session is an adapter process with its own connection.  Prompts,    *)
(* answers and the recovery of the saved session (which main starts beside *)
(* the HTTP server) run concurrently; only the steps between Lock and      *)
(* Unlock are atomic, and opening an adapter takes long.                   *)
(*                                                                         *)
(* Every step under the lock also appends events and saves the whole state *)
(* (store.File.Save replaces one file); the events are left out, the save  *)
(* and its failure are not.                                                *)
(***************************************************************************)
EXTENDS Naturals, Sequences, FiniteSets

CONSTANTS
    Answerers,    \* concurrent callers of AnswerRequest
    MaxTurns,     \* bound on prompts
    MaxSessions,  \* bound on adapters started
    MaxAsked,     \* bound on the requests of one adapter
    MaxFaults,    \* bound on failing saves, opens and adapters
    MaxCrashes    \* bound on stops of the server

VARIABLES
    up,         \* the server runs
    record,     \* the ThreadRecord in memory
    disk,       \* the ThreadRecord in the state file
    slot,       \* Service.sessions[thread], 0 when there is none
    sessions,   \* the adapters, in the order they were started
    prompt,     \* the Prompt handler and its goroutine
    recovery,   \* RecoverChatSessions
    answers,    \* the AnswerRequest handlers
    delivered,  \* answers that reached an adapter: [shown, asked]
    stranded,   \* the turn a failed Prompt left active, 0 when there is none
    turns, faults, crashes

chatVars == <<up, record, disk, slot, sessions, prompt, recovery, answers,
              delivered, stranded, turns, faults, crashes>>

Activities == {"idle", "working", "needs_input", "unknown"}

\* A request as the core keeps it: the provider's reference for it, and the
\* question itself, named by the adapter that asked and its number there.
Questions == [session : 1..MaxSessions, number : 1..MaxAsked]
Requests == [ref : 1..MaxAsked, about : Questions]

NewRecord == [active |-> 0, foreground |-> "idle", background |-> "idle",
              requests |-> {}, provider |-> FALSE]

NewSession == [open |-> TRUE, dead |-> FALSE, turn |-> 0, pending |-> {},
               asked |-> 0]

NoPrompt == [pc |-> "idle", turn |-> 0, session |-> 0]
NoRecovery == [pc |-> "idle", session |-> 0]
NoAnswer == [pc |-> "idle", request |-> 0, session |-> 0, taken |-> 0]

Sessions == DOMAIN sessions

\* CombineActivity, reading the two activities background first.
CombineActivityLast(foreground, background, pending) ==
    IF pending THEN "needs_input"
    ELSE IF background # "unknown" THEN background ELSE foreground

CombineActivity(foreground, background, pending) ==
    IF pending THEN "needs_input"
    ELSE IF "working" \in {foreground, background} THEN "working"
    ELSE IF "unknown" \in {foreground, background} THEN "unknown"
    ELSE "idle"

Activity(r) == CombineActivity(r.foreground, r.background, r.requests # {})

\* The Thread is new, or was materialized before the server last stopped.
Init ==
    /\ up = FALSE
    /\ disk \in {NewRecord, [NewRecord EXCEPT !.provider = TRUE]}
    /\ record = disk
    /\ slot = 0 /\ sessions = <<>>
    /\ prompt = NoPrompt /\ recovery = NoRecovery
    /\ answers = [a \in Answerers |-> NoAnswer]
    /\ delivered = {} /\ stranded = 0
    /\ turns = 0 /\ faults = 0 /\ crashes = 0

-----------------------------------------------------------------------------

\* saveLocked: the whole state, or nothing.
Save(r, ok) ==
    /\ record' = r
    /\ disk' = IF ok THEN r ELSE disk
    /\ ok \/ faults < MaxFaults
    /\ faults' = IF ok THEN faults ELSE faults + 1

Usable(s) == sessions[s].open /\ ~sessions[s].dead

Close(s) == [sessions EXCEPT ![s].open = FALSE]

\* chat.Open: a new adapter process, after initialize, session/new or
\* session/load and the model selection.  A load answers with the identity
\* it was given, so the exactness checks of its callers do not fire.
Started == Append(sessions, NewSession)

Ended(r, t) ==
    IF r.active = t THEN [r EXCEPT !.active = 0, !.foreground = "idle"] ELSE r

\* Prompt, up to the first Unlock.  A failing save returns with the turn
\* still active.
Prompt(ok) ==
    /\ up /\ prompt = NoPrompt /\ turns < MaxTurns
    /\ record.active = 0
    /\ turns' = turns + 1
    /\ Save([record EXCEPT !.active = turns + 1, !.foreground = "working"], ok)
    /\ prompt' = IF ok THEN [pc |-> IF slot = 0 THEN "open" ELSE "ask",
                             turn |-> turns + 1, session |-> slot]
                 ELSE NoPrompt
    /\ stranded' = IF ok THEN stranded ELSE turns + 1
    /\ UNCHANGED <<up, slot, sessions, recovery, answers, delivered, crashes>>

PromptOpens ==
    /\ up /\ prompt.pc = "open" /\ Len(sessions) < MaxSessions
    /\ sessions' = Started
    /\ prompt' = [prompt EXCEPT !.pc = "install", !.session = Len(sessions) + 1]
    /\ UNCHANGED <<up, record, disk, slot, recovery, answers, delivered,
                   stranded, turns, faults, crashes>>

\* finishTurn, and a form that forgets the turn.
FinishForgets(r, t) == r
Finish(r, t) == Ended(r, t)

PromptOpenFails ==
    /\ up /\ prompt.pc = "open" /\ faults < MaxFaults
    /\ record' = Finish(record, prompt.turn) /\ disk' = record'
    /\ faults' = faults + 1
    /\ prompt' = NoPrompt
    /\ UNCHANGED <<up, slot, sessions, recovery, answers, delivered, stranded,
                   turns, crashes>>

\* The opened adapter goes into the slot, unless recovery filled it: then it
\* is closed, and the turn stays active with nobody to end it.
PromptInstall(ok) ==
    /\ up /\ prompt.pc = "install"
    /\ record.active = prompt.turn
    /\ IF slot # 0
       THEN /\ ok
            /\ UNCHANGED <<record, disk, faults, slot>>
            /\ sessions' = Close(prompt.session)
            /\ prompt' = NoPrompt /\ stranded' = prompt.turn
       ELSE /\ Save([record EXCEPT !.provider = TRUE], ok)
            /\ slot' = IF ok THEN prompt.session ELSE 0
            /\ sessions' = IF ok THEN sessions ELSE Close(prompt.session)
            /\ prompt' = IF ok THEN [prompt EXCEPT !.pc = "ask"] ELSE NoPrompt
            /\ stranded' = IF ok THEN stranded ELSE prompt.turn
    /\ UNCHANGED <<up, recovery, answers, delivered, turns, crashes>>

\* Session.Prompt sends session/prompt; a closed or dead adapter fails it.
PromptAsks ==
    /\ up /\ prompt.pc = "ask"
    /\ IF Usable(prompt.session)
       THEN /\ sessions' = [sessions EXCEPT ![prompt.session].turn = prompt.turn]
            /\ prompt' = [prompt EXCEPT !.pc = "wait"]
       ELSE /\ prompt' = [prompt EXCEPT !.pc = "finish"]
            /\ UNCHANGED sessions
    /\ UNCHANGED <<up, record, disk, slot, recovery, answers, delivered,
                   stranded, turns, faults, crashes>>

\* The answer to session/prompt, or the connection's end.
PromptReturns ==
    /\ up /\ prompt.pc = "wait"
    /\ sessions' = [sessions EXCEPT ![prompt.session].turn = 0]
    /\ prompt' = [prompt EXCEPT !.pc = "finish"]
    /\ UNCHANGED <<up, record, disk, slot, recovery, answers, delivered,
                   stranded, turns, faults, crashes>>

FinishTurn(ok) ==
    /\ up /\ prompt.pc = "finish"
    /\ Save(Finish(record, prompt.turn), ok)
    /\ prompt' = NoPrompt
    /\ UNCHANGED <<up, slot, sessions, recovery, answers, delivered, stranded,
                   turns, crashes>>

-----------------------------------------------------------------------------
(* RecoverChatSessions.                                                    *)

RecoverOpens ==
    /\ up /\ recovery.pc = "open" /\ Len(sessions) < MaxSessions
    /\ sessions' = Started
    /\ recovery' = [pc |-> "install", session |-> Len(sessions) + 1]
    /\ UNCHANGED <<up, record, disk, slot, prompt, answers, delivered,
                   stranded, turns, faults, crashes>>

RecoverFails ==
    /\ up /\ recovery.pc = "open" /\ faults < MaxFaults
    /\ record' = [record EXCEPT !.foreground = "unknown", !.background = "unknown"]
    /\ disk' = record'
    /\ faults' = faults + 1
    /\ recovery' = NoRecovery
    /\ UNCHANGED <<up, slot, sessions, prompt, answers, delivered, stranded,
                   turns, crashes>>

\* Whether a writer is in the slot already, and not looking.
TakenNever == FALSE
Taken == slot # 0

RecoverInstall(ok) ==
    /\ up /\ recovery.pc = "install"
    /\ IF Taken
       THEN ok /\ sessions' = Close(recovery.session)
            /\ UNCHANGED <<record, disk, faults, slot>>
       ELSE Save(record, ok) /\ slot' = recovery.session /\ UNCHANGED sessions
    /\ recovery' = NoRecovery
    /\ UNCHANGED <<up, prompt, answers, delivered, stranded, turns, crashes>>

-----------------------------------------------------------------------------
(* What an adapter sends.                                                  *)

\* The reference is the JSON-RPC id of the adapter's request, which every
\* adapter counts from one.
RefShared(number) == 1
Ref(number) == number

\* Service.Request: a reference that is pending already is taken for the
\* same request.
Requested(ref, q, ok) ==
    IF \E p \in record.requests : p.ref = ref
    THEN ok /\ UNCHANGED <<record, disk, faults>>
    ELSE Save([record EXCEPT !.requests = @ \cup {[ref |-> ref, about |-> q]}], ok)

\* session/request_permission: Session.request.
Asks(s, ok) ==
    /\ up /\ Usable(s) /\ sessions[s].asked < MaxAsked
    /\ LET n == sessions[s].asked + 1
           q == [session |-> s, number |-> n] IN
       /\ sessions' = [sessions EXCEPT
            ![s].asked = n,
            ![s].pending = {p \in @ : p.ref # Ref(n)} \cup {[ref |-> Ref(n), about |-> q]}]
       /\ Requested(Ref(n), q, ok)
    /\ UNCHANGED <<up, slot, prompt, recovery, answers, delivered, stranded,
                   turns, crashes>>

\* tool_call updates: trackTool, then BackgroundActivity.
Tools(s, activity, ok) ==
    /\ up /\ Usable(s) /\ activity \in {"idle", "working"}
    /\ record.background # activity
    /\ Save([record EXCEPT !.background = activity], ok)
    /\ UNCHANGED <<up, slot, sessions, prompt, recovery, answers, delivered,
                   stranded, turns, crashes>>

\* The connection ends: finish, then disconnected.
Dies(s) ==
    /\ up /\ Usable(s) /\ faults < MaxFaults
    /\ sessions' = [sessions EXCEPT ![s].dead = TRUE]
    /\ record' = [record EXCEPT !.background = "unknown"] /\ disk' = record'
    /\ faults' = faults + 1
    /\ UNCHANGED <<up, slot, prompt, recovery, answers, delivered, stranded,
                   turns, crashes>>

-----------------------------------------------------------------------------
(* AnswerRequest and Session.Answer.                                       *)

AnswerBegins(a, r) ==
    /\ up /\ answers[a].pc = "idle" /\ r \in record.requests /\ slot # 0
    /\ answers' = [answers EXCEPT ![a] =
                     [pc |-> "take", request |-> r, session |-> slot, taken |-> 0]]
    /\ UNCHANGED <<up, record, disk, slot, sessions, prompt, recovery,
                   delivered, stranded, turns, faults, crashes>>

\* The pending entry is removed before the answer is written, or after.
RemovedLate(s, ref) == sessions
Removed(s, ref) ==
    [sessions EXCEPT ![s].pending = {p \in @ : p.ref # ref}]

AnswerTakes(a) ==
    LET w == answers[a]
        found == {p \in sessions[w.session].pending : p.ref = w.request.ref} IN
    /\ up /\ w.pc = "take"
    /\ IF found = {}
       THEN answers' = [answers EXCEPT ![a] = NoAnswer] /\ UNCHANGED sessions
       ELSE \E p \in found :
              /\ answers' = [answers EXCEPT ![a].pc = "respond", ![a].taken = p]
              /\ sessions' = Removed(w.session, w.request.ref)
    /\ UNCHANGED <<up, record, disk, slot, prompt, recovery, delivered,
                   stranded, turns, faults, crashes>>

\* A write that fails puts the entry back.
AnswerResponds(a) ==
    LET w == answers[a] IN
    /\ up /\ w.pc = "respond"
    /\ IF Usable(w.session)
       THEN /\ delivered' = delivered \cup
                 {[shown |-> w.request.about, asked |-> w.taken.about, by |-> a]}
            /\ answers' = [answers EXCEPT ![a].pc = "record"]
            /\ UNCHANGED sessions
       ELSE /\ sessions' = [sessions EXCEPT ![w.session].pending = @ \cup {w.taken}]
            /\ answers' = [answers EXCEPT ![a] = NoAnswer]
            /\ UNCHANGED delivered
    /\ UNCHANGED <<up, record, disk, slot, prompt, recovery, stranded, turns,
                   faults, crashes>>

AnswerRecords(a, ok) ==
    /\ up /\ answers[a].pc = "record"
    /\ Save([record EXCEPT !.requests = @ \ {answers[a].request}], ok)
    /\ answers' = [answers EXCEPT ![a] = NoAnswer]
    /\ UNCHANGED <<up, slot, sessions, prompt, recovery, delivered, stranded,
                   turns, crashes>>

-----------------------------------------------------------------------------

\* The server is killed, or shuts down and closes its sessions; either way
\* the adapters end with it.
Stop ==
    /\ up /\ crashes < MaxCrashes
    /\ up' = FALSE /\ crashes' = crashes + 1
    /\ sessions' = [s \in Sessions |-> [sessions[s] EXCEPT !.open = FALSE, !.turn = 0]]
    /\ slot' = 0 /\ prompt' = NoPrompt /\ recovery' = NoRecovery
    /\ answers' = [a \in Answerers |-> NoAnswer]
    /\ stranded' = 0 /\ record' = disk
    /\ UNCHANGED <<disk, delivered, turns, faults>>

\* recoverInterruptedTurns: a turn the last server left active has failed.
Interrupted(r) ==
    IF r.active = 0 THEN r
    ELSE [r EXCEPT !.active = 0, !.foreground = "unknown", !.background = "unknown"]

\* New; the exact session is recovered beside the server.
Boot ==
    /\ ~up
    /\ up' = TRUE
    /\ record' = Interrupted(disk)
    /\ disk' = record'
    /\ recovery' = IF disk.provider THEN [pc |-> "open", session |-> 0] ELSE NoRecovery
    /\ UNCHANGED <<slot, sessions, prompt, answers, delivered, stranded, turns,
                   faults, crashes>>

Next ==
    \/ \E ok \in BOOLEAN :
         \/ Prompt(ok) \/ PromptInstall(ok) \/ FinishTurn(ok) \/ RecoverInstall(ok)
         \/ \E a \in Answerers : AnswerRecords(a, ok)
         \/ \E s \in Sessions : Asks(s, ok)
         \/ \E s \in Sessions, activity \in Activities : Tools(s, activity, ok)
    \/ PromptOpens \/ PromptOpenFails \/ PromptAsks \/ PromptReturns
    \/ RecoverOpens \/ RecoverFails
    \/ \E s \in Sessions : Dies(s)
    \/ \E a \in Answerers :
         \/ AnswerTakes(a) \/ AnswerResponds(a)
         \/ \E r \in record.requests : AnswerBegins(a, r)
    \/ Stop \/ Boot

Spec == Init /\ [][Next]_chatVars

-----------------------------------------------------------------------------

TypeOK ==
    /\ up \in BOOLEAN
    /\ \A r \in {record, disk} :
         /\ r.active \in 0..MaxTurns /\ r.provider \in BOOLEAN
         /\ r.foreground \in Activities /\ r.background \in Activities
         /\ r.requests \subseteq Requests
    /\ Len(sessions) <= MaxSessions /\ slot \in 0..Len(sessions)
    /\ \A s \in Sessions : /\ sessions[s].pending \subseteq Requests
                           /\ sessions[s].turn \in 0..MaxTurns
    /\ prompt.pc \in {"idle", "open", "install", "ask", "wait", "finish"}
    /\ recovery.pc \in {"idle", "open", "install"}
    /\ \A a \in Answerers : answers[a].pc \in {"idle", "take", "respond", "record"}
    /\ turns \in 0..MaxTurns /\ faults \in 0..MaxFaults /\ crashes \in 0..MaxCrashes

\* One writer: a turn runs only on the adapter in the slot, whatever recovery
\* opened beside it (core's session slot and the existing checks of Prompt
\* and RecoverChatSessions).
OneWriter ==
    \A s \in Sessions : sessions[s].turn # 0 => s = slot

\* An active turn has its Prompt still under way, which will end it.  The
\* exceptions are the turns a failed save or a writer conflict strands:
\* Prompt returns without finishTurn there, and the Thread refuses prompts
\* until the server restarts.
TurnOwned ==
    up /\ record.active \notin {0, stranded} =>
        prompt.pc # "idle" /\ prompt.turn = record.active

\* A request of an adapter is answered once, however many callers answer it
\* at the same time (Session.Answer takes the entry under its lock).
AnsweredOnce ==
    \A d, e \in delivered : d.asked = e.asked => d = e

\* An answer reaches the question that was shown, as long as the adapter that
\* asked it lives.  A request kept over a restart shares its reference with
\* one of the next adapter, and then the answer goes to that one: no more
\* than this is promised by comparing references alone.
AnswersItsQuestion ==
    \A d \in delivered :
        d.shown = d.asked \/ d.shown.session # d.asked.session

\* While a turn is active the Thread is never shown idle, in whatever order
\* tools, requests and recovery report (recomputeActivityLocked).
NeverIdleInTurn ==
    up /\ record.active # 0 => Activity(record) # "idle"

(***************************************************************************)
(* Chats hold: a turn runs on the one adapter in the slot, the Prompt that *)
(* began it will end it, a request is answered once and by its own answer, *)
(* and a Thread in a turn is not shown idle -- through recovery, failed    *)
(* saves and concurrent answers (Prompt, finishTurn, Answer,               *)
(* RecoverChatSessions, recomputeActivityLocked).                          *)
(***************************************************************************)
ChatsHold ==
    /\ TypeOK
    /\ OneWriter
    /\ TurnOwned
    /\ AnsweredOnce
    /\ AnswersItsQuestion
    /\ NeverIdleInTurn
=============================================================================
