------------------------------ MODULE T3Mirror ------------------------------
(***************************************************************************)
(* The T3 Code integration's mirror (t3code/service.go, create.go,         *)
(* response.go) and the part of the threads domain it drives: one          *)
(* connection subscribes to T3's shell stream, keeps a copy of it and      *)
(* feeds every conversation to the thread records; recoveries read final   *)
(* responses beside it; and a create records a conversation before T3      *)
(* knows it.                                                               *)
(*                                                                         *)
(* T3 is outside the repository: it keeps a log of what it shows of each   *)
(* conversation, answers a subscription with a replay or a snapshot and    *)
(* then its events in order, and runs a command it got to completion.      *)
(* Projects of T3, titles and metadata are left out.                       *)
(***************************************************************************)
EXTENDS ThreadRecord, Sequences, FiniteSets, SequencesExt

CONSTANTS
    Started,      \* the conversation ATC starts, if any; others are T3's own
    MaxEvents,    \* bound: events in T3's log
    MaxFaults,    \* bound: failed writes of a record
    MaxDrops,     \* bound: connections that end
    MaxCrashes    \* bound: restarts

VARIABLES
    log,        \* T3: its events, an event's sequence being its place
    command,    \* T3: what became of the create command
    shell,      \* the local copy: initialized, sequence, threads
    link,       \* the connection: pc, number, place in the log, mode
    todo,       \* what is left to do for the event being handled
    state,      \* connection.State
    record,     \* the thread records, by conversation
    id,         \* the number of the conversation's record; a new one is another
    held,       \* conversations the connection vouches for
    recovery,   \* the turn a recovery was started for, on this connection
    reads,      \* recoveries in flight
    create,     \* StartThread: where it is
    missed,     \* history: conversations whose last write failed
    kept,       \* history: the create was kept, or could not be discarded
    lost,       \* history: discarded after T3 had reported it
    faults, drops, crashes

t3 == <<log, command>>
mirror == <<shell, link, todo, state>>
domain == <<record, id, held>>
responses == <<recovery, reads>>
history == <<missed, kept, lost>>
bounds == <<faults, drops, crashes>>
mirrorVars == <<t3, mirror, domain, responses, create, history, bounds>>

-----------------------------------------------------------------------------
(* What T3 shows of a conversation.  A conversation's turns are numbered.  *)

Session == {"none", "running", "idle", "error", "other"}
Absent == [shown |-> "absent", session |-> "none", approvals |-> FALSE, turn |-> None]
Settled == [Absent EXCEPT !.shown = "settled"]
At(p, turnState, session, approvals) ==
    [shown |-> "active", session |-> session, approvals |-> approvals,
     turn |-> [provider |-> p, state |-> turnState]]
Views ==
    {Absent, Settled}
    \cup {At(p, "running", "running", a) : p \in ProviderTurns, a \in BOOLEAN}
    \cup {At(p, "completed", "idle", FALSE) : p \in ProviderTurns}
    \cup {At(p, "failed", "error", FALSE) : p \in ProviderTurns}

Shows(n) == [c \in Keys |->
    LET mine == {i \in 1 .. n : log[i].conv = c}
    IN IF mine = {} THEN Absent
       ELSE log[CHOOSE i \in mine : \A j \in mine : j <= i].view]

Now == Shows(Len(log))

(* threads.Rank: the strongest of coexisting evidence. *)
Ranks == [status \in Status |->
    CASE status = "error" -> 5 [] status = "waiting_for_input" -> 4
      [] status = "waiting_for_permission" -> 3 [] status = "working" -> 2
      [] status = "unknown" -> 1 [] status = "idle" -> 0]
Rank(evidence) ==
    IF evidence = {} THEN "unknown"
    ELSE CHOOSE s \in evidence : \A other \in evidence : Ranks[other] <= Ranks[s]

ProjectStatus(view) ==
    Rank((IF view.approvals THEN {"waiting_for_permission"} ELSE {})
         \cup {CASE view.session = "running" -> "working"
                 [] view.session = "error" -> "error"
                 [] view.session \in {"idle", "none"} -> "idle"
                 [] OTHER -> "unknown"})

(* The final response of a turn, as a model value: the turn's own id. *)
Observation(view) ==
    [status |-> ProjectStatus(view), detail |-> view.session = "error",
     turn |-> IF view.turn = None THEN None
              ELSE [provider |-> view.turn.provider, state |-> view.turn.state,
                    response |-> None]]

-----------------------------------------------------------------------------
(* The thread records.                                                     *)

Known(c) == record[c] # None
Fault == faults < MaxFaults /\ faults' = faults + 1

(* ATC's own turn ids: an observed turn's, and the submission's. *)
ObservedTurn == 1
SubmittedTurn == 2

(* Fault: a record that was archived stays archived. *)
ObservedArchived(c, report) ==
    ApplyStatus(IF Known(c) THEN record[c] ELSE NewRecord(c, None),
                report, TRUE, ObservedTurn)

(* A known conversation is brought into line and unarchived, an unknown    *)
(* one is minted.                                                          *)
Observed(c, report) ==
    [ApplyStatus(IF Known(c) THEN record[c] ELSE NewRecord(c, None),
                 report, TRUE, ObservedTurn) EXCEPT !.archived = FALSE]

ObserveExternal(c, report) ==
    /\ record' = [record EXCEPT ![c] = Observed(c, report)]
    /\ id' = IF Known(c) THEN id ELSE [id EXCEPT ![c] = @ + 1]
    /\ held' = held \cup {c}

(* The program dropped the conversation: archived, its claims withdrawn. *)
ArchiveExternalThread(c) ==
    /\ record' = IF ~Known(c) THEN record
                 ELSE [record EXCEPT ![c] = [CoerceRecord(@) EXCEPT !.archived = TRUE]]
    /\ held' = held \ {c}
    /\ UNCHANGED id

UnarchivedProviderIDs == {c \in Keys : Known(c) /\ ~record[c].archived}

(* Every hold goes, and the claims it backed; a record whose write fails   *)
(* keeps its claims.                                                       *)
ReleaseIntegration ==
    \E failing \in SUBSET {c \in held : Known(c) /\ ClaimsLive(record[c])} :
        /\ faults + Cardinality(failing) <= MaxFaults
        /\ faults' = faults + Cardinality(failing)
        /\ record' = [c \in Keys |-> IF c \in held \ failing /\ Known(c)
                                     THEN CoerceRecord(record[c]) ELSE record[c]]
        /\ missed' = missed \cup failing
        /\ held' = {}
        /\ UNCHANGED id

-----------------------------------------------------------------------------
NotLinked == [pc |-> "down", number |-> 0, pos |-> 0, mode |-> "none", marker |-> 0,
              schema |-> FALSE]
NoShell == [initialized |-> FALSE, sequence |-> 0, threads |-> [c \in Keys |-> Absent]]
NoCreate == [pc |-> "idle", client |-> 0, recorded |-> FALSE]

TypeOK ==
    /\ log \in Seq([conv : Keys, view : Views])
    /\ command \in {"none", "running", "committed", "refused"}
    /\ shell.initialized \in BOOLEAN /\ shell.sequence \in 0 .. Len(log)
    /\ shell.threads \in [Keys -> Views]
    /\ link.pc \in {"down", "open", "ending"} /\ link.number \in Nat
    /\ link.pos \in 0 .. Len(log)
    /\ link.mode \in {"none", "snapshot", "replay", "live"}
    /\ state \in {"connecting", "connected", "unavailable"}
    /\ record \in [Keys -> Record \cup {None}]
    /\ held \subseteq {c \in Keys : Known(c)}
    /\ recovery \in [Keys -> ProviderTurns \cup {None}]
    /\ reads \subseteq [conv : Keys, id : Nat, turn : ProviderTurns]
    /\ create.pc \in {"idle", "prepared", "recorded", "submitted", "sent",
                      "unanswered", "discarding", "done"}

Init ==
    /\ log = <<>> /\ command = "none"
    /\ shell = NoShell /\ link = NotLinked /\ todo = <<>> /\ state = "connecting"
    /\ record = [c \in Keys |-> None] /\ id = [c \in Keys |-> 0] /\ held = {}
    /\ recovery = [c \in Keys |-> None] /\ reads = {}
    /\ create = NoCreate
    /\ missed = {} /\ kept = FALSE /\ lost = FALSE
    /\ faults = 0 /\ drops = 0 /\ crashes = 0

-----------------------------------------------------------------------------
(* T3.                                                                     *)

(* A turn follows the one before it, and one that has ended stays ended. *)
Follows(c, turn) ==
    LET shown == {i \in 1 .. Len(log) : log[i].conv = c /\ log[i].view.turn # None}
        last == log[CHOOSE i \in shown : \A j \in shown : j <= i].view.turn
    IN turn # None =>
          IF shown = {} THEN turn.provider = 1
          ELSE \/ turn.provider = last.provider + 1
               \/ turn.provider = last.provider /\ (last.state = "running" \/ turn = last)

(* A conversation begins, goes on, is settled, comes back or is removed. *)
T3Change(c, view) ==
    /\ Len(log) < MaxEvents
    /\ view # Now[c] /\ Follows(c, view.turn)
    /\ c = Started => command = "committed"
    /\ log' = Append(log, [conv |-> c, view |-> view])
    /\ UNCHANGED <<command, mirror, domain, responses, create, history, bounds>>

(* The command T3 was asked for commits -- the thread and its first turn   *)
(* -- or is refused, with the thread it made rolled back or left.          *)
T3Runs ==
    /\ command = "running"
    /\ \/ /\ log' = Append(log, [conv |-> Started,
                                view |-> At(1, "running", "running", FALSE)])
          /\ command' \in {"committed", "refused"}
       \/ command' = "refused" /\ UNCHANGED log
    /\ UNCHANGED <<mirror, domain, responses, create, history, bounds>>

-----------------------------------------------------------------------------
(* The connection.                                                         *)

(* serve: a connection comes up and subscribes, after the sequence of the  *)
(* copy if there is one; T3 replays from there or sends a snapshot.        *)
Connect ==
    /\ link.pc = "down"
    /\ \E mode \in {"snapshot"} \cup (IF shell.initialized THEN {"replay"} ELSE {}) :
          link' = [pc |-> "open", number |-> link.number + 1, mode |-> mode,
                   pos |-> IF mode = "replay" THEN shell.sequence ELSE Len(log),
                   marker |-> Len(log), schema |-> FALSE]
    /\ recovery' = [c \in Keys |-> None]
    /\ UNCHANGED <<t3, shell, todo, state, domain, reads, create, history, bounds>>

(* A connection that cannot be made, or T3 not running: every hold goes. *)
ConnectFails ==
    /\ link.pc = "down" /\ held # {}
    /\ ReleaseIntegration
    /\ state' \in {"connecting", "unavailable"}
    /\ UNCHANGED <<t3, shell, link, todo, responses, create, kept, lost, drops, crashes>>

Observe(c) == <<"observe", c>>
Forget(c) == <<"forget", c>>
Establish == <<"establish", None>>
List == <<"list", None>>

(* reconcile: every conversation of the copy, in the order of their ids. *)
Reconcile(threads) ==
    SetToSeq({Observe(c) : c \in {k \in Keys : threads[k] # Absent}})

(* applySnapshot: the copy is replaced, every thread observed, and every   *)
(* unarchived record the snapshot lacks is archived.                       *)
ReceiveSnapshot ==
    /\ link.pc = "open" /\ link.mode = "snapshot" /\ todo = <<>>
    /\ shell' = [initialized |-> TRUE, sequence |-> Len(log), threads |-> Now]
    /\ todo' = Reconcile(Now) \o <<List, Establish>>
    /\ link' = [link EXCEPT !.mode = "live"]
    /\ UNCHANGED <<t3, state, domain, responses, create, history, bounds>>

(* Fault: a replay is taken to have every hold in place. *)
SynchronizedOnly ==
    /\ link.pc = "open" /\ link.mode = "replay" /\ link.pos = link.marker /\ todo = <<>>
    /\ todo' = <<Establish>>
    /\ link' = [link EXCEPT !.mode = "live"]
    /\ UNCHANGED <<t3, shell, state, domain, responses, create, history, bounds>>

(* Fault: only a snapshot establishes the connection. *)
SynchronizedUnestablished ==
    /\ link.pc = "open" /\ link.mode = "replay" /\ link.pos = link.marker /\ todo = <<>>
    /\ todo' = Reconcile(shell.threads)
    /\ link' = [link EXCEPT !.mode = "live"]
    /\ UNCHANGED <<t3, shell, state, domain, responses, create, history, bounds>>

(* "synchronized" ends a replay: the holds are taken up again. *)
Synchronized ==
    /\ link.pc = "open" /\ link.mode = "replay" /\ link.pos = link.marker /\ todo = <<>>
    /\ todo' = Reconcile(shell.threads) \o <<Establish>>
    /\ link' = [link EXCEPT !.mode = "live"]
    /\ UNCHANGED <<t3, shell, state, domain, responses, create, history, bounds>>

(* A replayed sequence at or below the last applied is ignored. *)
News(sequence) == sequence > shell.sequence

(* applyEvent: the next event of the stream. *)
ReceiveEvent ==
    LET sequence == link.pos + 1
        event == log[sequence]
    IN
    /\ link.pc = "open" /\ todo = <<>> /\ sequence <= Len(log)
    /\ link.mode = "live" \/ (link.mode = "replay" /\ link.pos < link.marker)
    /\ link' = [link EXCEPT !.pos = sequence]
    /\ IF News(sequence)
       THEN /\ shell' = [shell EXCEPT !.sequence = sequence,
                                      !.threads[event.conv] = event.view]
            /\ todo' = <<IF event.view = Absent THEN Forget(event.conv)
                                                ELSE Observe(event.conv)>>
            /\ recovery' = IF event.view = Absent
                           THEN [recovery EXCEPT ![event.conv] = None] ELSE recovery
       ELSE UNCHANGED <<shell, todo, recovery>>
    /\ UNCHANGED <<t3, state, domain, reads, create, history, bounds>>

(* recoverResponse, after an observation: a read of the ended turn whose   *)
(* response is missing, once for a turn and connection.                    *)
RecoverResponse(c, turn) ==
    IF /\ turn # None /\ Ended(turn.state) /\ recovery[c] # turn.provider
       /\ record'[c].pending = None /\ record'[c].turn # None
       /\ record'[c].turn.state # "running" /\ record'[c].turn.response = None
    THEN /\ recovery' = [recovery EXCEPT ![c] = turn.provider]
         /\ reads' = reads \cup {[conv |-> c, id |-> id'[c], turn |-> turn.provider]}
    ELSE UNCHANGED responses

(* One step of the handler.  A write that fails is logged; nothing tries   *)
(* it again before the next event, or the next connection, comes to it.    *)
Work ==
    /\ todo # <<>>
    /\ LET task == Head(todo)[1]
           c == Head(todo)[2]
           settled == task = "observe" /\ shell.threads[c].shown = "settled"
       IN
       \/ /\ task = "observe" /\ ~settled
          /\ todo' = Tail(todo) /\ UNCHANGED state
          /\ \/ /\ ObserveExternal(c, Observation(shell.threads[c]))
                /\ RecoverResponse(c, Observation(shell.threads[c]).turn)
                /\ missed' = missed \ {c} /\ UNCHANGED faults
             \/ Fault /\ missed' = missed \cup {c} /\ UNCHANGED <<domain, responses>>
       \/ /\ task = "forget" \/ settled
          /\ todo' = Tail(todo) /\ UNCHANGED <<state, responses>>
          /\ \/ ArchiveExternalThread(c) /\ missed' = missed \ {c} /\ UNCHANGED faults
             \/ /\ Known(c) /\ Fault
                /\ missed' = missed \cup {c} /\ UNCHANGED domain
       \/ /\ task = "list"
          /\ todo' = SetToSeq({Forget(k) : k \in {u \in UnarchivedProviderIDs :
                                  shell.threads[u] = Absent}}) \o Tail(todo)
          /\ UNCHANGED <<state, domain, responses, missed, faults>>
       \/ /\ task = "establish"
          /\ todo' = Tail(todo) /\ state' = "connected"
          /\ UNCHANGED <<domain, responses, missed, faults>>
    /\ UNCHANGED <<t3, shell, link, create, kept, lost, drops, crashes>>

(* The subscription ends; the client is gone, the holds go with the next   *)
(* step.                                                                   *)
Ends(schema) ==
    /\ link.pc = "open" /\ todo = <<>> /\ drops < MaxDrops
    /\ drops' = drops + 1
    /\ link' = [link EXCEPT !.pc = "ending", !.schema = schema]
    /\ UNCHANGED <<t3, shell, todo, state, domain, responses, create, history, faults, crashes>>

(* The socket drops or T3 ends the stream. *)
Drop == Ends(FALSE)

(* T3 sends an item that is not what it should be. *)
Unreadable == Ends(TRUE)

(* Fault: the holds of a connection outlive it. *)
ReleaseNothing ==
    /\ link.pc = "ending"
    /\ link' = [link EXCEPT !.pc = "down"]
    /\ shell' = IF link.schema THEN NoShell ELSE shell
    /\ state' = IF link.schema THEN "unavailable" ELSE "connecting"
    /\ UNCHANGED <<t3, todo, domain, responses, create, history, bounds>>

(* release, and the copy goes if it may be inconsistent. *)
Release ==
    /\ link.pc = "ending"
    /\ ReleaseIntegration
    /\ link' = [link EXCEPT !.pc = "down"]
    /\ shell' = IF link.schema THEN NoShell ELSE shell
    /\ state' = IF link.schema THEN "unavailable" ELSE "connecting"
    /\ UNCHANGED <<t3, todo, responses, create, kept, lost, drops, crashes>>

-----------------------------------------------------------------------------
(* Responses.                                                              *)

(* Fault: whatever turn is the latest gets the text. *)
AboutLatestAny(c, turn) == TRUE

(* The text is the latest turn's, which has ended. *)
AboutLatest(c, turn) == record[c].turn.provider = turn

(* A read ends: T3 has moved on or the reads give nothing; or the text is  *)
(* there and the record takes it, if it is still about its latest turn.    *)
ReadResponse(r) ==
    /\ r \in reads
    /\ reads' = reads \ {r}
    /\ \/ UNCHANGED record
       \/ /\ Known(r.conv) /\ id[r.conv] = r.id /\ record[r.conv].turn # None
          /\ \E i \in 1 .. Len(log) : /\ log[i].conv = r.conv
                                      /\ log[i].view.turn # None
                                      /\ log[i].view.turn.provider = r.turn
          /\ AboutLatest(r.conv, r.turn)
          /\ record' = [record EXCEPT ![r.conv].turn =
                            AdoptResponse(@, @.state, r.turn)]
    /\ UNCHANGED <<t3, mirror, id, held, recovery, create, history, bounds>>

-----------------------------------------------------------------------------
(* StartThread.                                                            *)

Create(pc) == create' = [create EXCEPT !.pc = pc]

(* PrepareThread: connected, and the client as it is now. *)
PrepareThread ==
    /\ create.pc = "idle" /\ state = "connected" /\ Started \in Keys
    /\ \E recorded \in BOOLEAN :
          create' = [pc |-> "prepared", recorded |-> recorded,
                     client |-> IF link.pc = "open" THEN link.number ELSE 0]
    /\ UNCHANGED <<t3, mirror, domain, responses, history, bounds>>

(* The conversation is recorded before T3 knows it. *)
PreCreate ==
    /\ create.pc = "prepared"
    /\ \/ /\ ObserveExternal(Started, [status |-> "unknown", detail |-> FALSE, turn |-> None])
          /\ Create("recorded") /\ UNCHANGED faults
       \/ Fault /\ Create("done") /\ UNCHANGED domain
    /\ UNCHANGED <<t3, mirror, responses, history, drops, crashes>>

(* SubmitTurn; without it, or without the caller's record, no dispatch. *)
SubmitTurn ==
    /\ create.pc = "recorded"
    /\ \/ /\ record' = [record EXCEPT
                ![Started].pending = [id |-> SubmittedTurn,
                    prior |-> IF record[Started].turn = None THEN None
                              ELSE record[Started].turn.provider],
                ![Started].status = "working", ![Started].detail = FALSE]
          /\ \/ Create("submitted") /\ UNCHANGED faults
             \/ create.recorded /\ Fault /\ Create("discarding")
       \/ Fault /\ Create("discarding") /\ UNCHANGED record
    /\ UNCHANGED <<t3, mirror, id, held, responses, history, drops, crashes>>

(* The command goes to the client the project was resolved on, if there    *)
(* was one and it is still up.                                             *)
Dispatch ==
    /\ create.pc = "submitted"
    /\ \/ create.client = 0 /\ Create("discarding") /\ UNCHANGED command
       \/ /\ create.client # 0 /\ (link.pc # "open" \/ link.number # create.client)
          /\ Create("unanswered") /\ UNCHANGED command
       \/ /\ create.client # 0 /\ link.pc = "open" /\ link.number = create.client
          /\ Create("sent") /\ command' = "running"
    /\ UNCHANGED <<log, mirror, domain, responses, history, bounds>>

(* T3 answers on that connection, or the caller gives up waiting. *)
Answer ==
    /\ create.pc = "sent"
    /\ \/ /\ link.pc = "open" /\ link.number = create.client
          /\ \/ command = "committed" /\ Create("done")
             \/ command = "refused" /\ Create("discarding")
       \/ Create("unanswered")
    /\ UNCHANGED <<t3, mirror, domain, responses, history, bounds>>

(* No answer: created if the shell has reported it by now; otherwise a     *)
(* recorded create keeps its record and another one discards it.           *)
Unanswered ==
    /\ create.pc = "unanswered"
    /\ \/ shell.threads[Started] # Absent /\ Create("done") /\ UNCHANGED kept
       \/ /\ shell.threads[Started] = Absent
          /\ Create(IF create.recorded THEN "done" ELSE "discarding")
          /\ kept' = create.recorded
    /\ UNCHANGED <<t3, mirror, domain, responses, missed, lost, bounds>>

(* DiscardExternal: the record goes, and its hold. *)
Discard ==
    /\ create.pc = "discarding"
    /\ Create("done")
    /\ \/ /\ record' = [record EXCEPT ![Started] = None]
          /\ held' = held \ {Started}
          /\ lost' = (shell.threads[Started] # Absent)
          /\ UNCHANGED <<faults, kept>>
       \/ Fault /\ kept' = TRUE /\ UNCHANGED <<record, held, lost>>
    /\ UNCHANGED <<t3, mirror, id, responses, missed, drops, crashes>>

-----------------------------------------------------------------------------
(* A restart: the records stay, with every live claim withdrawn. *)
Restart ==
    /\ crashes < MaxCrashes
    /\ crashes' = crashes + 1
    /\ shell' = NoShell /\ link' = [NotLinked EXCEPT !.number = link.number]
    /\ todo' = <<>> /\ state' = "connecting"
    /\ record' = [c \in Keys |-> IF Known(c) THEN CoerceRecord(record[c]) ELSE None]
    /\ held' = {}
    /\ recovery' = [c \in Keys |-> None] /\ reads' = {}
    /\ create' = [create EXCEPT !.pc = IF @ = "idle" THEN "idle" ELSE "done"]
    /\ missed' = {} /\ kept' = FALSE /\ lost' = FALSE
    /\ UNCHANGED <<t3, id, faults, drops>>

RunStep == ReceiveSnapshot \/ Synchronized \/ ReceiveEvent \/ Work \/ Release
CreateStep == PreCreate \/ SubmitTurn \/ Dispatch \/ Answer \/ Unanswered \/ Discard

Next ==
    \/ \E c \in Keys, view \in Views : T3Change(c, view)
    \/ T3Runs
    \/ Connect \/ ConnectFails \/ RunStep \/ Drop \/ Unreadable
    \/ \E r \in reads : ReadResponse(r)
    \/ PrepareThread \/ CreateStep
    \/ Restart

Spec == Init /\ [][Next]_mirrorVars

-----------------------------------------------------------------------------
(* Properties.                                                             *)

(* The record says of the conversation what T3 shows of it. *)
Mirrors(c) ==
    LET view == Now[c]
        report == Observation(view)
    IN CASE view.shown = "active" ->
              /\ Known(c) /\ ~record[c].archived /\ c \in held
              /\ record[c].status = report.status
              /\ record[c].turn.provider = report.turn.provider
              /\ record[c].turn.state = report.turn.state
         [] OTHER -> ~Known(c) \/ (record[c].archived /\ ~ClaimsLive(record[c]))

(* A create that is under way, or that nobody answered. *)
Starting(c) == c = Started /\ (create.pc \notin {"idle", "done"} \/ kept \/ lost)

CaughtUp == state = "connected" /\ link.pc = "open" /\ link.mode = "live"
            /\ todo = <<>> /\ shell.sequence = Len(log)

(***************************************************************************)
(* Whatever dropped, was replayed, restarted or came twice, and whatever a *)
(* create did beside it: once the connection is established and caught up  *)
(* the records are what T3 shows -- except a conversation whose last write *)
(* failed, or a create in flight or left unanswered (serve, applySnapshot, *)
(* applyEvent, reconcile).                                                 *)
(***************************************************************************)
MirrorsT3 == CaughtUp => \A c \in Keys \ missed : Mirrors(c) \/ Starting(c)

(***************************************************************************)
(* A record says work is going on only while a connection vouches for it;  *)
(* the create's own claim may stand without one, and a failed write leaves *)
(* one behind (ReleaseIntegration, SubmitTurn).                            *)
(***************************************************************************)
LiveOnlyWhileHeld ==
    \A c \in Keys : Known(c) /\ ClaimsLive(record[c]) =>
        \/ c \in held /\ link.pc # "down"
        \/ c \in missed \/ Starting(c)

(***************************************************************************)
(* A final response is that of the turn it is recorded on, however late    *)
(* its read finished (ObserveTurnResponse).                                *)
(***************************************************************************)
ResponseOfItsTurn ==
    \A c \in Keys : (Known(c) /\ record[c].turn # None)
        => record[c].turn.response \in {None, record[c].turn.provider}

(* The mirror comes to agree with T3 for good, once T3 and the connection  *)
(* come to rest (Run reconnects for as long as the server lives).          *)
InStep == CaughtUp /\ create.pc \in {"idle", "done"}
ComesToMirror == <>[]InStep
=============================================================================
