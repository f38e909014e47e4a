---------------------------- MODULE LinearRelay ----------------------------
(***************************************************************************)
(* The Linear integration (internal/integrations/linear) behind the        *)
(* webhook inbox: a mention becomes a session row, the session loop starts *)
(* one T3 conversation for it through the coordinator's StartThread and    *)
(* watches the turn it submitted; what Linear is to be told is queued.     *)
(*                                                                         *)
(* Concurrent, as in the code: the inbox worker, the session loop (which   *)
(* works on a list it read earlier), one start per session on a goroutine  *)
(* of its own, T3, and a restart at any point.                             *)
(*                                                                         *)
(* Outside the repository: T3 Code and Linear.  Texts, links and the two   *)
(* kinds of waiting are one value each; a failed and an interrupted turn   *)
(* are one.  A missing setup file is an outage.  How queued calls reach    *)
(* Linear is not part of this module: a queued call stays known.           *)
(***************************************************************************)
EXTENDS WebhookInbox

CONSTANTS
    Sessions,    \* Linear agent sessions
    Threads,     \* ATC thread ids, each with its T3 conversation
    SessionOf,   \* the session a delivery is about
    KindOf       \* "mention", "bare" (nothing to act on) or "prompted"

ASSUME RelayAssumption ==
    /\ SessionOf \in [Deliveries -> Sessions]
    /\ KindOf \in [Deliveries -> {"mention", "bare", "prompted"}]
    /\ None \notin Sessions \cup Threads

VARIABLES
    session,    \* linear_sessions
    listed,     \* the rows the session loop read and has yet to act on
    start,      \* Service.starting and the goroutine's progress
    thread,     \* what threads.Get shows of the submitted turn
    conv,       \* T3: the conversation of a thread
    owed        \* linear_outbox: the purposes of the calls ever queued

relayVars == <<session, listed, start, thread, conv>>
vars == <<inboxVars, bounds, relayVars, owed>>

(* The keys of a session's calls: fixed purposes, and replies by delivery. *)
Purposes == {"ack", "refused", "waiting_t3", "started", "links", "uncertain",
             "failed", "notice", "result"} \cup Deliveries

Row == [state : {"accepted", "starting", "started", "done"},
        thread : Threads \cup {None}, noticed : BOOLEAN,
        completed : {"unseen", "seen", "graceOver"}]

ASSUME RowAssumption == None \notin Row

(* The turn as evaluate reads it; dropped: not over, and archived. *)
Reading == {"absent", "pending", "running", "waiting", "completed", "responded",
            "failed", "replaced", "dropped"}

NoStart == [pc |-> "none", thread |-> None, result |-> None]

TypeOK ==
    /\ InboxTypeOK
    /\ session \in [Sessions -> Row \cup {None}]
    /\ listed \in [Sessions -> Row \cup {None}]
    /\ start \in [Sessions -> [pc : {"none", "fresh", "preparing", "recording",
                                     "dispatching", "answering", "deciding"},
                               thread : Threads \cup {None},
                               result : {None, "ok", "uncertain", "offline", "failed"}]]
    /\ thread \in [Threads -> Reading]
    /\ conv \in [Threads -> {"none", "inflight", "held", "refused", "lost"}]
    /\ owed \in [Sessions -> SUBSET Purposes]

Init ==
    /\ InboxInit
    /\ session = [s \in Sessions |-> None]
    /\ listed = [s \in Sessions |-> None]
    /\ start = [s \in Sessions |-> NoStart]
    /\ thread = [h \in Threads |-> "absent"]
    /\ conv = [h \in Threads |-> "none"]
    /\ owed = [s \in Sessions |-> {}]

-----------------------------------------------------------------------------
(* Writes.                                                                 *)

(* Queue calls; a key that is there already stays as it is. *)
Enqueue(s, rows) == owed' = [owed EXCEPT ![s] = @ \cup rows]

(* Fault: the state is recorded and the calls that report it are not. *)
UpdateSessionAlone(s, row, rows) ==
    /\ session' = [session EXCEPT ![s] = row]
    /\ UNCHANGED owed

(* A session's state and the calls it owes are one transaction. *)
UpdateSession(s, row, rows) ==
    /\ session' = [session EXCEPT ![s] = row]
    /\ Enqueue(s, rows)

-----------------------------------------------------------------------------
(* The webhook handler.                                                    *)

NewRow(state) == [state |-> state, thread |-> None, noticed |-> FALSE,
                  completed |-> "unseen"]

(* A known session stays as it is; its first answer is owed all the same. *)
Created(s, state, purpose) ==
    UpdateSession(s, IF session[s] = None THEN NewRow(state) ELSE session[s],
                  {purpose})

Prompted(s, d) == Enqueue(s, {d}) /\ UNCHANGED session

Process(d) ==
    LET s == SessionOf[d] IN
    /\ ProcessHandled(d)
    /\ CASE KindOf[d] = "mention"  -> Created(s, "accepted", "ack")
         [] KindOf[d] = "bare"     -> Created(s, "done", "refused")
         [] KindOf[d] = "prompted" -> Prompted(s, d)
    /\ UNCHANGED <<listed, start, thread, conv>>

(* The inbox's other steps. *)
InboxStep(d) ==
    /\ \/ Accept(d) \/ ProcessBegin(d) \/ ProcessFails(d)
       \/ ProcessRecorded(d) \/ BackoffOver(d) \/ Prune(d)
    /\ UNCHANGED <<relayVars, owed>>

-----------------------------------------------------------------------------
(* The session loop.                                                       *)

(* A round begins with the list of open sessions. *)
LoopList ==
    /\ \A s \in Sessions : listed[s] = None
    /\ listed' = [s \in Sessions |->
                    IF session[s] # None /\ session[s].state # "done"
                    THEN session[s] ELSE None]
    /\ listed' # listed
    /\ UNCHANGED <<inboxVars, bounds, session, start, thread, conv, owed>>

(* What a reading of the watched thread makes of the row, and owes. *)
Finish(row) == [row |-> [row EXCEPT !.state = "done"], owed |-> {"result"}]
Nothing(row) == [row |-> row, owed |-> {}]

(* Fault: the response of a completed turn is waited for without end. *)
EvaluateUngraced(row) ==
    LET turn == thread[row.thread] IN
    CASE turn \in {"absent", "dropped", "replaced", "responded", "failed"} -> Finish(row)
      [] turn = "waiting" /\ ~row.noticed ->
            [row |-> [row EXCEPT !.noticed = TRUE], owed |-> {"notice"}]
      [] OTHER -> Nothing(row)

(* Only the exact turn counts; a completed one may still get its response. *)
Evaluate(row) ==
    LET turn == thread[row.thread] IN
    CASE turn \in {"absent", "dropped", "replaced", "responded", "failed"} -> Finish(row)
      [] turn = "completed" /\ row.completed = "graceOver" -> Finish(row)
      [] turn = "completed" /\ row.completed = "unseen" ->
            [row |-> [row EXCEPT !.completed = "seen"], owed |-> {}]
      [] turn = "waiting" /\ ~row.noticed ->
            [row |-> [row EXCEPT !.noticed = TRUE], owed |-> {"notice"}]
      [] OTHER -> Nothing(row)

(* Observation of a watched thread, written if it changes anything. *)
Observe(s, row) ==
    LET seen == Evaluate(row) IN
    /\ UpdateSession(s, seen.row, seen.owed)
    /\ listed' = [listed EXCEPT ![s] = None]
    /\ UNCHANGED start

Launch(s) ==
    /\ start' = [start EXCEPT ![s] = [NoStart EXCEPT !.pc = "fresh"]]
    /\ listed' = [listed EXCEPT ![s] = None]
    /\ UNCHANGED <<session, owed>>

(***************************************************************************)
(* A row left "starting" by a process that is gone: without a thread       *)
(* nothing was dispatched and the start is owed again; with one, T3 may    *)
(* hold the conversation, so that is recorded and then watched.            *)
(***************************************************************************)
Resume(s) ==
    LET resumed == [session[s] EXCEPT !.state = "started"] IN
    \/ session[s].thread = None /\ Launch(s)
    \/ /\ session[s].thread # None
       /\ UpdateSession(s, resumed, {"uncertain"})
       /\ listed' = [listed EXCEPT ![s] = resumed]
       /\ UNCHANGED start

(* The session of the list is left for the next round. *)
Pass(s) ==
    /\ listed' = [listed EXCEPT ![s] = None]
    /\ UNCHANGED <<session, owed, start>>

(* A row listed as "starting" with no start in flight: the fresh row counts. *)
Recheck(s) ==
    \/ session[s].state = "starting" /\ Resume(s)
    \/ session[s].state = "started" /\ Observe(s, session[s])
    \/ session[s].state \in {"accepted", "done"} /\ Pass(s)

(* One session of the list; a read or write that fails leaves it as it was. *)
LoopAct(s) ==
    LET row == listed[s] IN
    /\ row # None
    /\ \/ /\ row.state = "accepted" /\ start[s].pc = "none" /\ Launch(s)
          /\ UNCHANGED faults
       \/ /\ row.state # "started" /\ start[s].pc # "none" /\ Pass(s)
          /\ UNCHANGED faults
       \/ /\ row.state = "starting" /\ start[s].pc = "none" /\ Recheck(s)
          /\ UNCHANGED faults
       \/ /\ row.state = "started" /\ Observe(s, row)
          /\ UNCHANGED faults
       \/ /\ row.state # "accepted" /\ start[s].pc = "none" /\ Pass(s)
          /\ Fault
    /\ UNCHANGED <<inboxVars, crashes, thread, conv>>

(* The response of a completed turn has been waited for long enough. *)
GracePasses(s) ==
    /\ session[s] # None /\ session[s].state = "started"
    /\ session[s].completed = "seen"
    /\ session' = [session EXCEPT ![s].completed = "graceOver"]
    /\ listed' = [listed EXCEPT ![s] =
                     IF @ # None /\ @.completed = "seen" THEN session'[s] ELSE @]
    /\ UNCHANGED <<inboxVars, bounds, start, thread, conv, owed>>

-----------------------------------------------------------------------------
(* The start of a session's thread.                                        *)

At(s, pc) == start[s].pc = pc

(* Fault: a start that was recorded as under way is not owed any more. *)
OwedOnce(s) == session[s].state = "accepted"

(* Fault: the thread that was recorded is not looked at. *)
OwedWhileStarting(s) == session[s].state \in {"accepted", "starting"}

(* A start is still owed, by the fresh row. *)
Owed(s) ==
    \/ session[s].state = "accepted"
    \/ session[s].state = "starting" /\ session[s].thread = None

(* The attempt is recorded, or the start is off: nothing owed, no setup,   *)
(* or the row could not be read or written.                                *)
StartMark(s) ==
    /\ At(s, "fresh")
    /\ \/ /\ Owed(s)
          /\ session' = [session EXCEPT ![s].state = "starting", ![s].thread = None]
          /\ start' = [start EXCEPT ![s].pc = "preparing"]
          /\ UNCHANGED faults
       \/ /\ IF Owed(s) THEN Fault ELSE UNCHANGED faults
          /\ start' = [start EXCEPT ![s] = NoStart]
          /\ UNCHANGED session
    /\ UNCHANGED <<inboxVars, crashes, listed, thread, conv, owed>>

(***************************************************************************)
(* StartThread, up to the thread record and its submitted turn: T3 is not  *)
(* connected, the creation is refused for another reason, or it is ready.  *)
(***************************************************************************)
StartPrepare(s) ==
    /\ At(s, "preparing")
    /\ \/ /\ start' = [start EXCEPT ![s].pc = "deciding", ![s].result = "offline"]
          /\ Fault
          /\ UNCHANGED thread
       \/ /\ start' = [start EXCEPT ![s].pc = "deciding", ![s].result = "failed"]
          /\ UNCHANGED <<thread, faults>>
       \/ \E h \in Threads :
          /\ thread[h] = "absent" /\ conv[h] = "none"
          /\ \A r \in Sessions : start[r].thread # h
          /\ \A r \in Sessions : session[r] # None => session[r].thread # h
          /\ thread' = [thread EXCEPT ![h] = "pending"]
          /\ start' = [start EXCEPT ![s].pc = "recording", ![s].thread = h]
          /\ UNCHANGED faults
    /\ UNCHANGED <<inboxVars, crashes, session, listed, conv, owed>>

(* The record of a thread that will not be created goes, if it can. *)
Discard(h) == thread' = [thread EXCEPT ![h] = "absent"] \/ UNCHANGED thread

(* Fault: the ids are not persisted before the command goes out. *)
StartRecordLate(s) ==
    /\ At(s, "recording")
    /\ start' = [start EXCEPT ![s].pc = "dispatching"]
    /\ UNCHANGED <<inboxVars, bounds, session, listed, thread, conv, owed>>

(* The ids are persisted before the dispatch, or the create is discarded. *)
StartRecord(s) ==
    LET h == start[s].thread IN
    /\ At(s, "recording")
    /\ \/ /\ session' = [session EXCEPT ![s].thread = h]
          /\ start' = [start EXCEPT ![s].pc = "dispatching"]
          /\ UNCHANGED <<thread, faults>>
       \/ /\ Fault
          /\ Discard(h)
          /\ start' = [start EXCEPT ![s].pc = "deciding", ![s].result = "failed"]
          /\ UNCHANGED session
    /\ UNCHANGED <<inboxVars, crashes, listed, conv, owed>>

(* The command goes out, unless there is no connection to send it on. *)
StartDispatch(s) ==
    /\ At(s, "dispatching")
    /\ \/ /\ conv' = [conv EXCEPT ![start[s].thread] = "inflight"]
          /\ start' = [start EXCEPT ![s].pc = "answering"]
          /\ UNCHANGED <<thread, faults>>
       \/ /\ Fault
          /\ Discard(start[s].thread)
          /\ start' = [start EXCEPT ![s].pc = "deciding", ![s].result = "offline"]
          /\ UNCHANGED conv
    /\ UNCHANGED <<inboxVars, crashes, session, listed, owed>>

(* T3 answers, or does not: a refusal discards the thread, silence is      *)
(* uncertain (unless T3 has reported the thread meanwhile).                *)
StartAnswer(s) ==
    LET h == start[s].thread
        conclude(result) ==
            start' = [start EXCEPT ![s].pc = "deciding", ![s].result = result]
    IN
    /\ At(s, "answering")
    /\ \/ /\ conv[h] = "held"
          /\ conclude(IF thread[h] = "absent" THEN "failed" ELSE "ok")
          /\ UNCHANGED thread
       \/ conv[h] = "refused" /\ conclude("failed") /\ Discard(h)
       \/ conclude("uncertain") /\ UNCHANGED thread
    /\ UNCHANGED <<inboxVars, bounds, session, listed, conv, owed>>

(* What a start comes to. *)
Outcome(row, h, result) ==
    CASE result = "ok" -> [row |-> [row EXCEPT !.state = "started", !.thread = h],
                           owed |-> {"started", "links"}]
      [] result = "uncertain" -> [row |-> [row EXCEPT !.state = "started", !.thread = h],
                                  owed |-> {"uncertain"}]
      [] result = "offline" -> [row |-> [row EXCEPT !.state = "accepted", !.thread = None],
                                owed |-> {"waiting_t3"}]
      [] result = "failed" -> [row |-> [row EXCEPT !.state = "done", !.thread = h],
                               owed |-> {"failed"}]

(* The outcome is recorded with what it owes, or the row stays as it is. *)
StartDecide(s) ==
    LET outcome == Outcome(session[s], start[s].thread, start[s].result) IN
    /\ At(s, "deciding")
    /\ start' = [start EXCEPT ![s] = NoStart]
    /\ \/ UpdateSession(s, outcome.row, outcome.owed) /\ UNCHANGED faults
       \/ Fault /\ UNCHANGED <<session, owed>>
    /\ UNCHANGED <<inboxVars, crashes, listed, thread, conv>>

StartStep(s) ==
    \/ StartMark(s) \/ StartPrepare(s) \/ StartRecord(s) \/ StartDispatch(s)
    \/ StartAnswer(s) \/ StartDecide(s)

-----------------------------------------------------------------------------
(* T3 Code, and what the threads view shows of it.                         *)

(* The command arrives -- when its answer may no longer be waited for. *)
T3Decides(h) ==
    /\ conv[h] = "inflight"
    /\ \E c \in {"held", "refused", "lost"} : conv' = [conv EXCEPT ![h] = c]
    /\ UNCHANGED <<inboxVars, bounds, session, listed, start, thread, owed>>

(* The turn goes its way, as far as T3 reports it. *)
TurnMoves ==
    {<<"pending", "running">>, <<"pending", "failed">>, <<"running", "waiting">>,
     <<"waiting", "running">>, <<"running", "completed">>, <<"running", "responded">>,
     <<"running", "failed">>, <<"completed", "responded">>, <<"running", "replaced">>,
     <<"completed", "replaced">>, <<"dropped", "running">>}

T3Reports(h) ==
    /\ conv[h] = "held"
    /\ \E move \in TurnMoves :
          /\ thread[h] = move[1]
          /\ thread' = [thread EXCEPT ![h] = move[2]]
    /\ UNCHANGED <<inboxVars, bounds, session, listed, start, conv, owed>>

(* T3 does not report the thread (any more), or the user deletes it. *)
ThreadLost(h) ==
    /\ conv[h] # "inflight"
    /\ \/ /\ thread[h] \in {"pending", "running", "waiting"}
          /\ thread' = [thread EXCEPT ![h] = "dropped"]
       \/ /\ thread[h] # "absent"
          /\ thread' = [thread EXCEPT ![h] = "absent"]
    /\ UNCHANGED <<inboxVars, bounds, session, listed, start, conv, owed>>

-----------------------------------------------------------------------------
(* The server stops at any point; rows, T3 and Linear live on. *)
Restart ==
    /\ crashes < MaxCrashes
    /\ crashes' = crashes + 1
    /\ work' = Idle
    /\ listed' = [s \in Sessions |-> None]
    /\ start' = [s \in Sessions |-> NoStart]
    /\ UNCHANGED <<inbox, acked, faults, session, thread, conv, owed>>

Next ==
    \/ \E d \in Deliveries : InboxStep(d) \/ Process(d)
    \/ LoopList
    \/ \E s \in Sessions :
          \/ LoopAct(s) \/ GracePasses(s) \/ StartStep(s)
    \/ \E h \in Threads : T3Decides(h) \/ T3Reports(h) \/ ThreadLost(h)
    \/ Restart

Spec == Init /\ [][Next]_vars

(* The steps of the inbox alone. *)
Begins(d) == ProcessBegin(d) /\ UNCHANGED <<relayVars, owed>>
Records(d) == ProcessRecorded(d) /\ UNCHANGED <<relayVars, owed>>
Waited(d) == BackoffOver(d) /\ UNCHANGED <<relayVars, owed>>

(***************************************************************************)
(* The worker, the session loop and a start go on, and time passes.        *)
(* Failures are bounded, so whatever is tried again succeeds in the end;   *)
(* nothing is assumed of the sender, of T3 or of the user.                 *)
(***************************************************************************)
Fairness ==
    /\ \A d \in Deliveries :
          /\ WF_vars(Begins(d)) /\ WF_vars(Process(d))
          /\ WF_vars(Records(d)) /\ WF_vars(Waited(d))
    /\ WF_vars(LoopList)
    /\ \A s \in Sessions :
          /\ WF_vars(LoopAct(s)) /\ WF_vars(GracePasses(s)) /\ WF_vars(StartStep(s))

FairSpec == Spec /\ Fairness

-----------------------------------------------------------------------------
(* Properties.                                                             *)

(* The delivery did what it is there for. *)
TookEffect(d) ==
    IF KindOf[d] = "prompted" THEN d \in owed[SessionOf[d]]
                              ELSE session[SessionOf[d]] # None

(***************************************************************************)
(* An acknowledged delivery is never lost: it has taken effect, or it is   *)
(* pending -- through a full inbox, failed attempts and writes, pruning    *)
(* and restarts (serveDelivery, process, Prune, Process).                  *)
(***************************************************************************)
AckedNotLost == \A d \in acked : TookEffect(d) \/ d \in Pending

(* The conversations T3 holds, or may yet hold. *)
Dispatched == {h \in Threads : conv[h] \notin {"none", "refused"}}

(***************************************************************************)
(* A mention never becomes two conversations, and none is lost track of:   *)
(* every conversation T3 may hold is the one its session's row names --    *)
(* whatever is delivered again, whichever write fails, and wherever the    *)
(* server stops (start, reconcile, StartThread: "never start another").    *)
(***************************************************************************)
OneConversation ==
    \A h \in Dispatched : \E s \in Sessions :
        session[s] # None /\ session[s].thread = h

(***************************************************************************)
(* An acknowledged mention is acted on: its session is started, or done    *)
(* with an explanation (Process, reconcile, start).                        *)
(***************************************************************************)
Accepted(d) == d \in acked /\ KindOf[d] = "mention"
ActedOn(d) ==
    /\ session[SessionOf[d]] # None
    /\ session[SessionOf[d]].state \in {"started", "done"}
MentionActedOn == \A d \in Deliveries : Accepted(d) ~> ActedOn(d)

(***************************************************************************)
(* "A state is never recorded without the rows that report it"             *)
(* (UpdateSession): a recorded mention is answered, a started session has  *)
(* its start or its doubt announced, and a finished one its end.           *)
(***************************************************************************)
StateReported ==
    \A s \in Sessions : session[s] # None =>
        /\ owed[s] \cap {"ack", "refused"} # {}
        /\ session[s].state = "started" => owed[s] \cap {"started", "uncertain"} # {}
        /\ session[s].state = "done" => owed[s] \cap {"refused", "failed", "result"} # {}

(* The turn the session watches has ended, or can never end. *)
TurnOver(s) ==
    /\ session[s] # None /\ session[s].state = "started"
    /\ thread[session[s].thread] \in {"absent", "completed", "responded", "failed",
                                      "replaced"}

(***************************************************************************)
(* The user hears of the end: once the watched turn is over, its result is *)
(* owed to Linear, the response of a completed turn arriving or not        *)
(* (reconcile, observe, evaluate).                                         *)
(***************************************************************************)
ResultOwed(s) == "result" \in owed[s]
EndReported == \A s \in Sessions : TurnOver(s) ~> ResultOwed(s)

(***************************************************************************)
(* What Linear acknowledged is honoured: no accepted delivery is lost, a   *)
(* mention becomes one conversation and the session row names it, and a    *)
(* state is recorded only with the calls that report it -- through a full  *)
(* inbox, failed attempts and writes, pruning, repeated deliveries and     *)
(* restarts (serveDelivery, Process, start, reconcile, UpdateSession).     *)
(***************************************************************************)
MentionsHonoured ==
    /\ TypeOK
    /\ AckedNotLost
    /\ OneConversation
    /\ StateReported
=============================================================================
