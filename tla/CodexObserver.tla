--------------------------- MODULE CodexObserver ----------------------------
(***************************************************************************)
(* What the Codex observer makes of one conversation                       *)
(* (internal/integrations/codex/observer.go, rpc.go): one connection to    *)
(* the shared app-server, whose notifications are queued for a dispatcher, *)
(* reads whose replies come back on goroutines of their own, and terminals *)
(* that come and go.  handleMu serializes what evidence does; the pairing, *)
(* the connection and the terminals change while it is applied.            *)
(*                                                                         *)
(* The record is the threads domain's (ThreadRecord); the app-server sends *)
(* its frames in the order of its own changes, so a frame is received in   *)
(* the step that causes it.  Titles are left out: reading one only delays  *)
(* the application it belongs to.                                          *)
(***************************************************************************)
EXTENDS Naturals, Sequences

CONSTANTS
    Conversation, \* the conversation's key
    Hosts,       \* ids of the terminals that host it
    Absent,      \* no record, no pairing, no terminal
    MaxTurns,    \* bound: turns of the conversation
    MaxConns,    \* bound: connections
    MaxFrames,   \* bound: frames received
    MaxLosses    \* bound: failed reads and writes

VARIABLES
    loaded, activity, \* the app-server's: the conversation is loaded; idle or working
    turns,            \* turns it has started
    seq,              \* frames received
    epoch,            \* connections made so far
    conn,             \* none, open, failing (closed, dispatcher not joined), joined
    queue,            \* notifications the dispatcher has yet to handle
    reads,            \* reads under way: their connection, and the reply if it is there
    busy,             \* the evidence being applied under handleMu, or Absent
    pair, pairs,      \* the conversation's pairing or Absent; pairings made so far
    terms,            \* terminal rows: unborn, creating, running, missing, exited, deleted
    removing,         \* deletions between the row, the cleanup and the threads domain
    record, holder,   \* the threads domain: the record or Absent, the holding terminal or Absent
    missed,           \* history: the last word on the status was lost to a failure, or is old
    cut,              \* history: resumed terminals unpaired by a thread/closed, and terminals
                      \* whose pairing was dropped or replaced while they were missing
    losses

observerVars == <<loaded, activity, turns, seq, epoch, conn, queue, reads, busy, pair, pairs,
                  terms, removing, record, holder, missed, cut, losses>>
serverVars == <<loaded, activity, turns>>
wireVars == <<seq, queue>>
threadVars == <<record, holder>>

Policy == INSTANCE ThreadRecord WITH
    Keys <- {Conversation}, Terminals <- Hosts, ProviderTurns <- 1 .. MaxTurns, Responses <- {},
    None <- Absent

(* A frame or a reply: closed and notLoaded end the session, a turn says    *)
(* how it goes and, when it starts, that the thread works.                 *)
HeardKinds == {"idle", "working", "unknown", "closed", "notLoaded", "turnStarted", "turnCompleted"}
Heard == [kind : HeardKinds, turn : 0 .. MaxTurns, seq : Nat, read : 0 .. MaxConns]

(* since: what is older than a resume is of the terminal before it. *)
Pairings == [id : Nat, terminal : Hosts, resumed : BOOLEAN, prompt : BOOLEAN,
             established : BOOLEAN, last : Policy!Status \cup {Absent}, seq : Nat, since : Nat]

ASSUME ObserverAssumption ==
    /\ MaxTurns \in Nat \ {0} /\ {MaxConns, MaxFrames, MaxLosses} \subseteq Nat
    /\ Absent \notin Hosts \cup Heard \cup Pairings \cup [evidence : Heard, pair : Pairings]
    /\ Absent \notin Policy!Status \cup Policy!Turn \cup Policy!TurnReport \cup Policy!Record

ObserverTypeOK ==
    /\ loaded \in BOOLEAN /\ activity \in {"idle", "working"} /\ turns \in 0 .. MaxTurns
    /\ seq \in Nat /\ epoch \in 0 .. MaxConns /\ conn \in {"none", "open", "failing", "joined"}
    /\ queue \in Seq(Heard)
    /\ reads \subseteq [conn : 1 .. MaxConns, reply : Heard \cup {Absent}]
    /\ pair \in Pairings \cup {Absent} /\ pairs \in Nat
    /\ busy \in [evidence : Heard, pair : Pairings] \cup {Absent}
    /\ terms \in [Hosts -> {"unborn", "creating", "running", "missing", "exited", "deleted"}]
    /\ removing \in [Hosts -> {"no", "forget", "converge"}]
    /\ record \in Policy!Record \cup {Absent} /\ holder \in Hosts \cup {Absent}
    /\ missed \in BOOLEAN /\ cut \subseteq Hosts /\ losses \in 0 .. MaxLosses

ObserverInit ==
    /\ loaded = FALSE /\ activity = "idle" /\ turns = 0 /\ seq = 0
    /\ epoch = 0 /\ conn = "none" /\ queue = <<>> /\ reads = {} /\ busy = Absent
    /\ pair = Absent /\ pairs = 0
    /\ terms = [t \in Hosts |-> "unborn"] /\ removing = [t \in Hosts |-> "no"]
    /\ record = Absent /\ holder = Absent /\ missed = FALSE /\ cut = {} /\ losses = 0

Lose == losses < MaxLosses /\ losses' = losses + 1

(* Its TUI runs: an inventory may have missed a session that is there.     *)
Up(t) == terms[t] \in {"running", "missing"}

(* What terminalLive takes for definitively gone.                          *)
NotLive(t) == terms[t] \in {"missing", "exited"}

-----------------------------------------------------------------------------
(* The app-server and the connection.                                      *)

(* The read loop stamps a frame and hands a notification to the dispatcher. *)
Notify(kinds, turn) ==
    IF conn # "open" THEN UNCHANGED wireVars
    ELSE /\ seq + Len(kinds) <= MaxFrames
         /\ queue' = queue \o [i \in 1 .. Len(kinds) |->
                         [kind |-> kinds[i], turn |-> turn, seq |-> seq + i, read |-> 0]]
         /\ seq' = seq + Len(kinds)

StartTurn ==
    /\ loaded /\ activity = "idle" /\ turns < MaxTurns
    /\ turns' = turns + 1 /\ activity' = "working"
    /\ Notify(<<"working", "turnStarted">>, turns')
    /\ UNCHANGED <<loaded, epoch, conn, reads, busy, pair, pairs, terms, removing, threadVars,
                   missed, cut, losses>>

EndTurn ==
    /\ loaded /\ activity = "working" /\ activity' = "idle"
    /\ Notify(<<"turnCompleted", "idle">>, turns)
    /\ UNCHANGED <<loaded, turns, epoch, conn, reads, busy, pair, pairs, terms, removing,
                   threadVars, missed, cut, losses>>

(* A resumed TUI loads the conversation. *)
Load(t) ==
    /\ ~loaded /\ record # Absent /\ Up(t)
    /\ loaded' = TRUE /\ Notify(<<"idle">>, 0)
    /\ UNCHANGED <<activity, turns, epoch, conn, reads, busy, pair, pairs, terms, removing,
                   threadVars, missed, cut, losses>>

(* The last TUI is gone: the server closes the conversation. *)
Unload ==
    /\ loaded /\ \A t \in Hosts : ~Up(t)
    /\ loaded' = FALSE /\ activity' = "idle" /\ Notify(<<"closed">>, 0)
    /\ UNCHANGED <<turns, epoch, conn, reads, busy, pair, pairs, terms, removing, threadVars,
                   missed, cut, losses>>

(* reconcile: the paired thread is read. *)
Reconciling(connection) == reads \cup {[conn |-> connection, reply |-> Absent]}

(* connect: the connection is installed and its reconcile spawned, which   *)
(* reads the paired thread.  ensureConnected waits a failed one out.       *)
Connect ==
    /\ conn = "none" /\ epoch < MaxConns
    /\ epoch' = epoch + 1 /\ conn' = "open"
    /\ reads' = IF pair = Absent THEN reads ELSE Reconciling(epoch')
    /\ UNCHANGED <<serverVars, wireVars, busy, pair, pairs, terms, removing, threadVars, missed,
                   cut, losses>>

(* fail: calls without a reply end, queued frames may or may not be handled. *)
Fail ==
    /\ conn = "open" /\ conn' = "failing"
    /\ reads' = {r \in reads : r.reply # Absent}
    /\ UNCHANGED <<serverVars, wireVars, epoch, busy, pair, pairs, terms, removing, threadVars,
                   missed, cut, losses>>

(* The dispatcher leaves its loop between two notifications. *)
Join ==
    /\ conn = "failing" /\ (busy # Absent => busy.evidence.read > 0)
    /\ conn' = "joined" /\ queue' = <<>>
    /\ UNCHANGED <<serverVars, seq, epoch, reads, busy, pair, pairs, terms, removing, threadVars,
                   missed, cut, losses>>

(* The read's reply: a frame like any other, in its place on the wire. *)
Answer(r) ==
    /\ r \in reads /\ r.reply = Absent /\ conn = "open" /\ r.conn = epoch
    /\ seq < MaxFrames /\ seq' = seq + 1
    /\ reads' = (reads \ {r}) \cup
          {[r EXCEPT !.reply = [kind |-> IF loaded THEN activity ELSE "notLoaded", turn |-> 0,
                                seq |-> seq', read |-> r.conn]]}
    /\ UNCHANGED <<serverVars, queue, epoch, conn, busy, pair, pairs, terms, removing, threadVars,
                   missed, cut, losses>>

(* The read is refused or times out: no evidence. *)
ReadFails(r) ==
    /\ r \in reads /\ r.reply = Absent /\ Lose
    /\ reads' = reads \ {r} /\ missed' = TRUE
    /\ UNCHANGED <<serverVars, wireVars, epoch, conn, busy, pair, pairs, terms, removing,
                   threadVars, cut>>

-----------------------------------------------------------------------------
(* The threads domain, each operation under its lock.                      *)

StatusOf(e) ==
    CASE e.kind \in {"idle", "working", "unknown"} -> e.kind
      [] e.kind = "turnStarted" -> "working"
      [] OTHER -> Absent

ReportOf(e) ==
    [status |-> StatusOf(e), detail |-> FALSE,
     turn |-> IF e.turn = 0 \/ e.kind \notin {"turnStarted", "turnCompleted"} THEN Absent
              ELSE [provider |-> e.turn, response |-> Absent,
                    state |-> IF e.kind = "turnStarted" THEN "running" ELSE "completed"]]

(* The session is observed in terminal t, whose row the link refers to. *)
SessionHeard(t, e) ==
    /\ Up(t) \/ NotLive(t)
    /\ record' = LET known == IF record = Absent THEN Policy!NewRecord(Conversation, t) ELSE record
                 IN  Policy!ApplyStatus([known EXCEPT !.terminal = t], ReportOf(e), TRUE, turns)
    /\ holder' = t

StatusHeard(e) ==
    /\ record' = IF record = Absent THEN Absent
                 ELSE Policy!ApplyStatus(record, ReportOf(e), holder # Absent, turns)
    /\ UNCHANGED holder

Released(t) ==
    IF holder # t THEN UNCHANGED threadVars
    ELSE record' = Policy!CoerceRecord(record) /\ holder' = Absent

-----------------------------------------------------------------------------
(* Evidence.                                                               *)

EndsSession(e) == e.kind \in {"closed", "notLoaded"}

(* Fault: only the wire's order is looked at, not the connection. *)
StaleByOrder(e) == e.seq < pair.seq

(* Fault: only the connection is looked at. *)
StaleByConn(e) == e.read # 0 /\ ~(conn \in {"open", "failing", "joined"} /\ e.read = epoch)

(* Older on the wire than what was applied, or a read of a connection that *)
(* is torn down.                                                           *)
Stale(e) ==
    \/ e.seq < pair.seq
    \/ e.read # 0 /\ ~(conn # "none" /\ e.read = epoch)

(* Fault: whatever ends a session drops a pairing that waits for one. *)
DropsHeldAny(e) == EndsSession(e)

(* A pairing nothing was recorded of is dropped by thread/closed only. *)
DropsHeld(e) == e.kind = "closed"

(* A fresh pairing is minted by its first prompt, not by being idle. *)
Mints(e) ==
    pair.established \/ pair.resumed \/ pair.prompt \/ e.kind \notin {"idle", "unknown"}

CutOff(t) == IF terms[t] = "missing" THEN cut \cup {t} ELSE cut

(* Under handleMu: the pairing, the staleness, the terminal, what the      *)
(* evidence means.  What is to be recorded stays in busy until Record.     *)
Begin(e) ==
    /\ busy = Absent
    /\ IF pair = Absent \/ Stale(e)
       THEN UNCHANGED <<busy, pair, threadVars, cut>>
       ELSE
       LET t == pair.terminal
           kept == [pair EXCEPT !.seq = IF e.seq > @ THEN e.seq ELSE @]
       IN
       \/ /\ terms[t] \in {"unborn", "creating", "deleted"}  \* no row: drop, unless it was there
          /\ pair' = IF pair.established THEN Absent ELSE kept
          /\ UNCHANGED <<busy, threadVars, cut>>
       \/ /\ NotLive(t)
          /\ IF pair.established THEN Released(t) ELSE UNCHANGED threadVars
          /\ pair' = Absent /\ cut' = CutOff(t) /\ UNCHANGED busy
       \/ /\ terms[t] = "running" /\ EndsSession(e)
          /\ IF pair.established
             THEN Released(t) /\ pair' = Absent
             ELSE pair' = (IF DropsHeld(e) THEN Absent ELSE kept) /\ UNCHANGED threadVars
          /\ cut' = IF pair.resumed /\ (pair.established \/ e.kind = "closed")
                    THEN cut \cup {t} ELSE cut
          /\ UNCHANGED busy
       \/ /\ terms[t] = "running" /\ ~EndsSession(e)
          /\ pair' = kept
          /\ busy' = IF Mints(e) THEN [evidence |-> e, pair |-> kept] ELSE Absent
          /\ UNCHANGED <<threadVars, cut>>

Dispatch ==
    /\ conn \in {"open", "failing"} /\ queue # <<>>
    /\ Begin(Head(queue)) /\ queue' = Tail(queue)
    /\ UNCHANGED <<serverVars, seq, epoch, conn, reads, pairs, terms, removing, missed, losses>>

ApplyRead(r) ==
    /\ r \in reads /\ r.reply # Absent
    /\ Begin(r.reply) /\ reads' = reads \ {r}
    /\ UNCHANGED <<serverVars, wireVars, epoch, conn, pairs, terms, removing, missed, losses>>

(* The observation, then the pairing that was looked up, if it still is    *)
(* the one held.  A failed write leaves both; the next evidence retries.   *)
Recorded ==
    LET e == busy.evidence
        p == busy.pair
    IN
    /\ busy # Absent /\ busy' = Absent
    /\ \/ /\ IF p.established THEN StatusHeard(e) ELSE SessionHeard(p.terminal, e)
          /\ pair' = IF pair = Absent \/ pair.id # p.id THEN pair
                     ELSE [pair EXCEPT !.established = TRUE,
                                       !.last = IF StatusOf(e) = Absent THEN @ ELSE StatusOf(e)]
          /\ missed' = IF StatusOf(e) = Absent THEN missed ELSE e.seq <= p.since /\ p.resumed
          /\ UNCHANGED losses
       \/ /\ ~p.established /\ terms[p.terminal] = "deleted"
          /\ missed' = TRUE /\ UNCHANGED <<pair, threadVars, losses>>
       \/ /\ Lose /\ missed' = TRUE /\ UNCHANGED <<pair, threadVars>>
    /\ UNCHANGED <<serverVars, wireVars, epoch, conn, reads, pairs, terms, removing, cut>>

(* Fault: what the pairing last forwarded is not looked at. *)
CoercesNothing == FALSE

(* A live status nobody observes any more is coerced. *)
Coerces == pair # Absent /\ pair.established /\ Policy!IsLive(pair.last)

Unknown == [kind |-> "unknown", turn |-> 0, seq |-> 0, read |-> 0]

(* teardown, once the dispatcher is gone. *)
Teardown ==
    /\ conn = "joined" /\ busy = Absent /\ conn' = "none"
    /\ IF ~Coerces THEN UNCHANGED <<pair, threadVars, missed, cut, losses>>
       ELSE \/ /\ terms[pair.terminal] = "running" /\ StatusHeard(Unknown)
               /\ pair' = [pair EXCEPT !.last = "unknown"] /\ UNCHANGED <<missed, cut, losses>>
            \/ /\ terms[pair.terminal] = "running" /\ Lose /\ missed' = TRUE
               /\ UNCHANGED <<pair, threadVars, cut>>
            \/ /\ NotLive(pair.terminal) /\ Released(pair.terminal) /\ pair' = Absent
               /\ cut' = CutOff(pair.terminal) /\ UNCHANGED <<missed, losses>>
            \/ /\ terms[pair.terminal] = "deleted" /\ pair' = Absent
               /\ UNCHANGED <<threadVars, missed, cut, losses>>
    /\ UNCHANGED <<serverVars, wireVars, epoch, reads, busy, pairs, terms, removing>>
-----------------------------------------------------------------------------
(* Terminals.                                                              *)

Pairing(t, resumed, prompt) ==
    /\ pairs' = pairs + 1
    /\ pair' = [id |-> pairs', terminal |-> t, resumed |-> resumed, prompt |-> prompt,
                established |-> FALSE, last |-> Absent, seq |-> 0,
                since |-> IF resumed THEN seq ELSE 0]

(* A fresh launch's window closes on its one candidate (CodexLaunch): the  *)
(* pairing is held and the thread read, if there is a connection.          *)
Bind(t) ==
    /\ pairs = 0 /\ terms[t] = "unborn" /\ terms' = [terms EXCEPT ![t] = "running"]
    /\ loaded' = TRUE
    /\ \E prompt \in BOOLEAN :
          /\ Pairing(t, FALSE, prompt)
          /\ turns' = IF prompt THEN 1 ELSE 0  \* the turn it was heard working on is over
    /\ reads' = IF conn # "open" THEN reads ELSE Reconciling(epoch)
    /\ UNCHANGED <<activity, wireVars, epoch, conn, busy, removing, threadVars, missed, cut,
                   losses>>

(* An open resumes the conversation, no terminal that is up by its row     *)
(* holding it: holdResume at Command, before the new row is there.         *)
HoldResume(t) ==
    /\ record # Absent /\ terms[t] = "unborn"
    /\ \A u \in Hosts : terms[u] \notin {"creating", "running"}
    /\ terms' = [terms EXCEPT ![t] = "creating"] /\ Pairing(t, TRUE, FALSE)
    /\ cut' = cut \cup {u \in Hosts : terms[u] = "missing"}
    /\ UNCHANGED <<serverVars, wireVars, epoch, conn, reads, busy, removing, threadVars, missed,
                   losses>>

(* The terminal is there and linked; or the create failed: forgetThread. *)
Created(t) ==
    /\ terms[t] = "creating"
    /\ \/ /\ terms' = [terms EXCEPT ![t] = "running"]
          /\ record' = [record EXCEPT !.terminal = t]
          /\ UNCHANGED <<holder, pair, losses>>
       \/ /\ busy = Absent /\ Lose /\ pair' = Absent
          /\ terms' = [terms EXCEPT ![t] = "deleted"] /\ UNCHANGED threadVars
    /\ UNCHANGED <<serverVars, wireVars, epoch, conn, reads, busy, pairs, removing, missed, cut>>

(* The session is gone for good (the row says exited, or stays missing).   *)
TerminalExits(t) ==
    /\ Up(t) /\ terms' = [terms EXCEPT ![t] = "exited"]
    /\ UNCHANGED <<serverVars, wireVars, epoch, conn, reads, busy, pair, pairs, removing,
                   threadVars, missed, cut, losses>>

(* An inventory that misses the session, and one that lists it again. *)
TerminalFlaps(t) ==
    /\ Up(t)
    /\ terms' = [terms EXCEPT ![t] = IF @ = "running" THEN "missing" ELSE "running"]
    /\ UNCHANGED <<serverVars, wireVars, epoch, conn, reads, busy, pair, pairs, removing,
                   threadVars, missed, cut, losses>>

(* The threads domain's sweep finds the terminal exited or missing. *)
Sweep(t) ==
    /\ NotLive(t) /\ holder = t /\ Released(t)
    /\ UNCHANGED <<serverVars, wireVars, epoch, conn, reads, busy, pair, pairs, terms, removing,
                   missed, cut, losses>>

(* A deletion: the row, then Forget, a barrier, then TerminalRemoved. *)
DeleteRow(t) ==
    /\ Up(t) \/ NotLive(t)
    /\ terms' = [terms EXCEPT ![t] = "deleted"]
    /\ removing' = [removing EXCEPT ![t] = "forget"]
    /\ UNCHANGED <<serverVars, wireVars, epoch, conn, reads, busy, pair, pairs, threadVars, missed,
                   cut, losses>>

(* Fault: Forget drops whatever pairing the conversation has. *)
ForgetsAny(t) == TRUE

Forgets(t) == pair # Absent /\ pair.terminal = t

Forget(t) ==
    /\ removing[t] = "forget" /\ busy = Absent
    /\ pair' = IF Forgets(t) THEN Absent ELSE pair
    /\ removing' = [removing EXCEPT ![t] = "converge"]
    /\ UNCHANGED <<serverVars, wireVars, epoch, conn, reads, busy, pairs, terms, threadVars, missed,
                   cut, losses>>

TerminalRemoved(t) ==
    /\ removing[t] = "converge" /\ removing' = [removing EXCEPT ![t] = "no"]
    /\ record' = IF record # Absent /\ record.terminal = t
                 THEN Policy!CoerceRecord([record EXCEPT !.terminal = Absent]) ELSE record
    /\ holder' = IF holder = t THEN Absent ELSE holder
    /\ UNCHANGED <<serverVars, wireVars, epoch, conn, reads, busy, pair, pairs, terms, missed, cut,
                   losses>>

ObserverNext ==
    \/ StartTurn \/ EndTurn \/ Unload \/ Connect \/ Fail \/ Join \/ Dispatch \/ Recorded
    \/ Teardown
    \/ \E r \in reads : Answer(r) \/ ReadFails(r) \/ ApplyRead(r)
    \/ \E t \in Hosts :
          \/ Load(t) \/ Bind(t) \/ HoldResume(t) \/ Created(t) \/ TerminalExits(t)
          \/ TerminalFlaps(t) \/ Sweep(t) \/ DeleteRow(t) \/ Forget(t) \/ TerminalRemoved(t)

ObserverSpec == ObserverInit /\ [][ObserverNext]_observerVars

-----------------------------------------------------------------------------
(* Properties.                                                             *)

Quiet == conn = "open" /\ queue = <<>> /\ reads = {} /\ busy = Absent

(***************************************************************************)
(* When everything received has been applied, the record says what the     *)
(* server says -- however a reconcile read crosses the notifications, the  *)
(* connection was lost meanwhile, and terminals came and went -- unless    *)
(* the last word was lost to a failed read or write, or is a word from     *)
(* before the resume whose pairing it reached (applyEvidence, holdResume). *)
(***************************************************************************)
TruthWhenQuiet ==
    (/\ Quiet /\ ~missed /\ loaded /\ holder # Absent
     /\ pair # Absent /\ pair.established /\ terms[pair.terminal] = "running")
        => record.status = activity

(***************************************************************************)
(* With no connection nothing is claimed that only an observation can      *)
(* back, save what a failed write left (teardown: "every established       *)
(* pairing in a live state coerces to unknown until a reconcile restores   *)
(* it"), so a read that outlived its connection restores nothing.  A       *)
(* resumed pairing that has forwarded no status yet may still show the     *)
(* status of the terminal before it.                                       *)
(***************************************************************************)
NothingLiveUnobserved ==
    (/\ conn = "none" /\ busy = Absent /\ ~missed /\ holder # Absent
     /\ pair # Absent /\ pair.terminal = holder /\ pair.last # Absent)
        => ~Policy!IsLive(record.status)

(***************************************************************************)
(* A terminal an open resumed the conversation in stays paired while it    *)
(* runs: a TUI that is still loading or another terminal's deletion do not *)
(* untrack it (applyEvidence, Forget).  What can: the end of the session,  *)
(* be it the end of the one before it; evidence, a lost connection or      *)
(* another open while its row said missing -- terminalLive takes a status  *)
(* that may be taken back for a definitive one, so a terminal that is seen *)
(* again runs the conversation unpaired.                                   *)
(***************************************************************************)
ResumeTracked ==
    \A t \in Hosts :
        (Up(t) /\ pairs > 1 /\ record.terminal = t /\ t \notin cut)
            => pair # Absent /\ pair.terminal = t

(***************************************************************************)
(* The observer tells the truth: with everything received applied the      *)
(* record says what the app-server says, without a connection nothing live *)
(* is claimed, and a resumed terminal stays paired -- however reconcile    *)
(* reads cross notifications, connections are lost and terminals come and  *)
(* go (applyEvidence, holdResume, teardown, Forget).                       *)
(***************************************************************************)
ObservesTruly ==
    /\ ObserverTypeOK
    /\ TruthWhenQuiet
    /\ NothingLiveUnobserved
    /\ ResumeTracked
=============================================================================
