----------------------------- MODULE Terminals -----------------------------
(***************************************************************************)
(* The terminals domain (internal/terminals): records persisted before     *)
(* their session starts, the reconciliation that derives a terminal's      *)
(* status from the session inventory and the monitor's report, deletion,   *)
(* the reaping of recordless sessions, and the spaces that own terminals.  *)
(*                                                                         *)
(* Concurrent here as in the code: one reconcile pass at a time            *)
(* (reconcileMu) in its phases -- inventory, decide, read reports, apply,  *)
(* reap -- against creates, deletes and space deletions, each in its own   *)
(* steps, and against the sessions themselves.                             *)
(*                                                                         *)
(* A terminal id is minted once (28^5 ids, and the insert re-rolls a taken *)
(* one), so the checks against an earlier incarnation of an id have no     *)
(* effect here.  Names, directories, the observed process and processes    *)
(* that outlive their session (Leftovers) are left out.                    *)
(***************************************************************************)
EXTENDS Naturals, FiniteSets

CONSTANTS
    Terminals,      \* terminal ids, which are also the session names
    Spaces,         \* space ids
    DefaultSpace,   \* the space the server owns
    None,           \* no record, no status, no evidence
    Hangs,          \* sessions may stop responding
    BirthInPass,    \* a session may appear after a pass took its inventory
    MaxFailures,    \* bound: failed database writes
    MaxCrashes      \* bound: server restarts

ASSUME TerminalsAssumption ==
    /\ DefaultSpace \in Spaces
    /\ {Hangs, BirthInPass} \subseteq BOOLEAN
    /\ {MaxFailures, MaxCrashes} \subseteq Nat

VARIABLES
    rows,        \* the terminals table
    view,        \* Service.view: the record
    status,      \* Service.view: the status
    settling,    \* Service.settling
    spaces,      \* the spaces table and Service.spaceView
    deleting,    \* Service.deletingSpaces
    session,     \* zmx: each session
    report,      \* the monitor's report file
    create,      \* the state of the create of each terminal
    delete,      \* the state of the delete of each terminal
    spaceDelete, \* the state of each DeleteSpace
    pass,        \* the reconcile pass under way
    failures,
    crashes,
    history      \* ghost: what creates saw and what overtook a pass

recordVars == <<rows, view, status, settling>>
spaceVars == <<spaces, deleting, spaceDelete>>
worldVars == <<session, report>>
bounds == <<failures, crashes>>
vars == <<rows, view, status, settling, spaces, deleting, session, report,
          create, delete, spaceDelete, pass, failures, crashes, history>>

Status == {"running", "unreachable", "exited", "missing"}

(* Exit evidence: no code, the program's own, or that of an ATC kill. *)
Exit == {"nocode", "own", "kill"}
Record == [space : Spaces, stop : BOOLEAN, exit : Exit \cup {None}]

ASSUME NoneAssumption == None \notin Spaces \cup Status \cup Exit \cup Record

SessionState == {"absent", "starting", "live", "hung"}

(* What a pass concluded about one terminal so far. *)
NoCandidate == [status |-> None, absent |-> FALSE, stop |-> FALSE, exit |-> None]
Candidate == [status : Status \cup {None}, absent : BOOLEAN, stop : BOOLEAN,
              exit : Exit \cup {None}]

NoPass == [phase |-> "idle", reap |-> FALSE, complete |-> FALSE, listed |-> {},
           hung |-> {}, todo |-> {}, orphans |-> {},
           found |-> [t \in Terminals |-> NoCandidate]]

TypeOK ==
    /\ rows \in [Terminals -> Record \cup {None}]
    /\ view \in [Terminals -> Record \cup {None}]
    /\ status \in [Terminals -> Status \cup {None}]
    /\ \A t \in Terminals : status[t] = None <=> view[t] = None
    /\ settling \in SUBSET {t \in Terminals : view[t] # None}
    /\ spaces \in SUBSET Spaces /\ DefaultSpace \in spaces
    /\ deleting \in SUBSET (spaces \ {DefaultSpace})
    /\ session \in [Terminals -> SessionState]
    /\ report \in [Terminals -> {None, "started", "own", "kill"}]
    /\ create \in [Terminals -> [pc : {"unminted", "preparing", "launching",
                                      "verifying", "over"},
                                space : Spaces \cup {None}]]
    /\ delete \in [Terminals -> [pc : {"none", "mark", "kill", "remove"},
                                bySpace : BOOLEAN]]
    /\ spaceDelete \in [Spaces -> [on : BOOLEAN, todo : SUBSET Terminals,
                                   failed : BOOLEAN]]
    /\ pass \in [phase : {"idle", "listed", "decided", "reaping"},
                 reap : BOOLEAN, complete : BOOLEAN,
                 listed : SUBSET Terminals, hung : SUBSET Terminals,
                 todo : SUBSET Terminals, orphans : SUBSET Terminals,
                 found : [Terminals -> Candidate]]
    /\ failures \in 0 .. MaxFailures
    /\ crashes \in 0 .. MaxCrashes
    /\ history \in [verified : SUBSET Terminals, overtaken : SUBSET Terminals]

NoDelete == [pc |-> "none", bySpace |-> FALSE]
NoSpaceDelete == [on |-> FALSE, todo |-> {}, failed |-> FALSE]

Init ==
    /\ rows = [t \in Terminals |-> None]
    /\ view = [t \in Terminals |-> None]
    /\ status = [t \in Terminals |-> None]
    /\ settling = {}
    /\ spaces = {DefaultSpace}
    /\ deleting = {}
    /\ session = [t \in Terminals |-> "absent"]
    /\ report = [t \in Terminals |-> None]
    /\ create = [t \in Terminals |-> [pc |-> "unminted", space |-> None]]
    /\ delete = [t \in Terminals |-> NoDelete]
    /\ spaceDelete = [s \in Spaces |-> NoSpaceDelete]
    /\ pass = NoPass
    /\ failures = 0
    /\ crashes = 0
    /\ history = [verified |-> {}, overtaken |-> {}]

Fails == failures < MaxFailures /\ failures' = failures + 1

(* A space a terminal may join or leave. *)
LiveSpace(s) == s \in spaces \ deleting

-----------------------------------------------------------------------------
(* Sessions and their monitors (zmx).                                      *)

(***************************************************************************)
(* The monitor reports the start; its report may also not be written.      *)
(* BirthInPass lets it appear between the inventory of a pass and what the *)
(* pass makes of it, as it may in the code: every run sets it.             *)
(***************************************************************************)
SessionBorn(t) ==
    /\ session[t] = "starting"
    /\ BirthInPass \/ pass.phase \in {"idle", "reaping"}
    /\ session' = [session EXCEPT ![t] = "live"]
    /\ \E r \in {"started", report[t]} : report' = [report EXCEPT ![t] = r]
    /\ UNCHANGED <<recordVars, spaceVars, create, delete, pass, bounds, history>>

(* The program ends by itself; evidence is written before the session goes. *)
SessionEnds(t) ==
    /\ session[t] \in {"starting", "live"}
    /\ session' = [session EXCEPT ![t] = "absent"]
    /\ \E r \in {"own", report[t]} : report' = [report EXCEPT ![t] = r]
    /\ UNCHANGED <<recordVars, spaceVars, create, delete, pass, bounds, history>>

SessionHangs(t) ==
    /\ Hangs
    /\ \/ session[t] = "live" /\ session' = [session EXCEPT ![t] = "hung"]
       \/ session[t] = "hung" /\ session' = [session EXCEPT ![t] = "live"]
    /\ UNCHANGED <<recordVars, spaceVars, report, create, delete, pass, bounds,
                   history>>

(***************************************************************************)
(* Driver.Kill: a present session dies, its monitor reporting the kill or  *)
(* nothing, or survives unverified; one still starting is not seen.        *)
(***************************************************************************)
Kill(t) ==
    \/ /\ session[t] \in {"live", "hung"}
       /\ session' = [session EXCEPT ![t] = "absent"]
       /\ \E r \in {"kill", report[t]} : report' = [report EXCEPT ![t] = r]
    \/ UNCHANGED <<session, report>>

-----------------------------------------------------------------------------
(* Create.                                                                 *)

NewRecord(s) == [space |-> s, stop |-> FALSE, exit |-> None]

(* The space is looked up, then the launch is prepared without a lock. *)
CreateBegin(t, s) ==
    /\ create[t].pc = "unminted"
    /\ LiveSpace(s)
    /\ create' = [create EXCEPT ![t] = [pc |-> "preparing", space |-> s]]
    /\ UNCHANGED <<recordVars, spaceVars, worldVars, delete, pass, bounds, history>>

(* Fault: under the commit lock only the foreign key looks at the space. *)
MayCommitUnchecked(s) == s \in spaces

(* The space must still be live under the commit lock. *)
MayCommit(s) == LiveSpace(s)

(* The record is persisted before the session starts. *)
CreateCommit(t) ==
    LET s == create[t].space IN
    /\ create[t].pc = "preparing"
    /\ MayCommit(s)
    /\ create' = [create EXCEPT ![t].pc = "launching"]
    /\ rows' = [rows EXCEPT ![t] = NewRecord(s)]
    /\ view' = [view EXCEPT ![t] = NewRecord(s)]
    /\ status' = [status EXCEPT ![t] = "unreachable"]
    /\ settling' = settling \cup {t}
    /\ report' = [report EXCEPT ![t] = None]
    /\ UNCHANGED <<spaceVars, session, delete, pass, bounds, history>>

(* The space went away meanwhile: refused, nothing minted. *)
CreateTurnedDown(t) ==
    /\ create[t].pc = "preparing"
    /\ ~MayCommit(create[t].space)
    /\ create' = [create EXCEPT ![t] = [pc |-> "unminted", space |-> None]]
    /\ UNCHANGED <<recordVars, spaceVars, worldVars, delete, pass, bounds, history>>

(* Fault: the settling mark outlives the record. *)
RemoveRecordKeepsMark(t) ==
  IF rows[t] = None THEN UNCHANGED <<recordVars, report>> ELSE
    /\ rows' = [rows EXCEPT ![t] = None]
    /\ view' = [view EXCEPT ![t] = None]
    /\ status' = [status EXCEPT ![t] = None]
    /\ report' = [report EXCEPT ![t] = None]
    /\ UNCHANGED settling

(* removeRecord: row, view, report and mark go as one, if still there. *)
RemoveRecord(t) ==
  IF rows[t] = None THEN UNCHANGED <<recordVars, report>> ELSE
    /\ rows' = [rows EXCEPT ![t] = None]
    /\ view' = [view EXCEPT ![t] = None]
    /\ status' = [status EXCEPT ![t] = None]
    /\ settling' = settling \ {t}
    /\ report' = [report EXCEPT ![t] = None]

(* Fault: a record that cannot be removed keeps its settling mark. *)
CreateRefusedKeepsMark(t) ==
    /\ create[t].pc = "launching"
    /\ create' = [create EXCEPT ![t].pc = "over"]
    /\ \/ RemoveRecord(t) /\ UNCHANGED failures
       \/ /\ rows[t] # None
          /\ Fails
          /\ UNCHANGED <<recordVars, report>>
    /\ UNCHANGED <<spaceVars, session, delete, pass, crashes, history>>

(* ErrNotLaunched: nothing ran, the record goes -- or lingers. *)
CreateRefused(t) ==
    /\ create[t].pc = "launching"
    /\ create' = [create EXCEPT ![t].pc = "over"]
    /\ \/ RemoveRecord(t) /\ UNCHANGED failures
       \/ /\ rows[t] # None
          /\ Fails
          /\ settling' = settling \ {t}
          /\ UNCHANGED <<rows, view, status, report>>
    /\ UNCHANGED <<spaceVars, session, delete, pass, crashes, history>>

(* Something was started: a session will be born, now or late, or not. *)
CreateLaunched(t) ==
    /\ create[t].pc = "launching"
    /\ create' = [create EXCEPT ![t].pc = "verifying"]
    /\ session' = [session EXCEPT ![t] = "starting"]
    /\ UNCHANGED <<recordVars, spaceVars, report, delete, pass, bounds, history>>

(***************************************************************************)
(* The verification window ends: the session was seen running, an exit was *)
(* recorded, or time ran out.  The settling mark clears; the create's own  *)
(* reconcile pass follows.                                                 *)
(***************************************************************************)
CreateSettles(t) ==
    /\ create[t].pc = "verifying"
    /\ create' = [create EXCEPT ![t].pc = "over"]
    /\ settling' = settling \ {t}
    /\ history' = IF session[t] = "live"
                  THEN [history EXCEPT !.verified = @ \cup {t}] ELSE history
    /\ UNCHANGED <<rows, view, status, spaceVars, worldVars, delete, pass, bounds>>

(* A move: both ends must be live. *)
Update(t, s) ==
    /\ view[t] # None
    /\ view[t].space # s
    /\ LiveSpace(view[t].space) /\ LiveSpace(s)
    /\ rows' = [rows EXCEPT ![t].space = s]
    /\ view' = [view EXCEPT ![t].space = s]
    /\ UNCHANGED <<status, settling, spaceVars, worldVars, create, delete, pass,
                   bounds, history>>

-----------------------------------------------------------------------------
(* Delete.                                                                 *)

(***************************************************************************)
(* Stop intent first, by a request for the terminal or for its space: the  *)
(* row takes it outside the commit lock.                                   *)
(***************************************************************************)
DeleteIntent(t, bySpace) ==
    /\ delete[t] = NoDelete
    /\ rows[t] # None
    /\ bySpace => \E s \in Spaces : t \in spaceDelete[s].todo
    /\ delete' = [delete EXCEPT ![t] = [pc |-> "mark", bySpace |-> bySpace]]
    /\ rows' = [rows EXCEPT ![t].stop = TRUE]
    /\ UNCHANGED <<view, status, settling, spaceVars, worldVars, create, pass, bounds,
                   history>>

(* Fault: the view never hears of the intent. *)
DeleteMarkNothing(t) ==
    /\ delete[t].pc = "mark"
    /\ delete' = [delete EXCEPT ![t].pc = "kill"]
    /\ UNCHANGED <<recordVars, spaceVars, worldVars, create, pass, bounds, history>>

(* The view takes it later, if it still has the terminal. *)
DeleteMark(t) ==
    /\ delete[t].pc = "mark"
    /\ delete' = [delete EXCEPT ![t].pc = "kill"]
    /\ view' = IF view[t] = None THEN view ELSE [view EXCEPT ![t].stop = TRUE]
    /\ history' = IF pass.phase = "decided"
                  THEN [history EXCEPT !.overtaken = @ \cup {t}] ELSE history
    /\ UNCHANGED <<rows, status, settling, spaceVars, worldVars, create, pass,
                   bounds>>

DeleteKill(t) ==
    /\ delete[t].pc = "kill"
    /\ delete' = [delete EXCEPT ![t].pc = "remove"]
    /\ Kill(t)
    /\ UNCHANGED <<recordVars, spaceVars, create, pass, bounds, history>>

(* A delete that failed is counted against the space it was asked for by. *)
CountFailure(t, bySpace) ==
    spaceDelete' = [s \in Spaces |->
        IF bySpace /\ t \in spaceDelete[s].todo
        THEN [spaceDelete[s] EXCEPT !.todo = @ \ {t}, !.failed = TRUE]
        ELSE spaceDelete[s]]

(* The intent cannot be persisted: the delete ends there. *)
DeleteUnrecorded(t) ==
    /\ delete[t] = NoDelete /\ rows[t] # None
    /\ \E s \in Spaces : t \in spaceDelete[s].todo
    /\ Fails
    /\ CountFailure(t, TRUE)
    /\ UNCHANGED <<recordVars, spaces, deleting, worldVars, create, delete, pass,
                   crashes, history>>

(* The record goes whether or not the kill was verified. *)
DeleteRemove(t) ==
    /\ delete[t].pc = "remove"
    /\ delete' = [delete EXCEPT ![t] = NoDelete]
    /\ \/ RemoveRecord(t) /\ UNCHANGED <<spaceDelete, failures>>
       \/ /\ rows[t] # None
          /\ Fails
          /\ CountFailure(t, delete[t].bySpace)
          /\ UNCHANGED <<recordVars, report>>
    /\ UNCHANGED <<spaces, deleting, session, create, pass, crashes, history>>

-----------------------------------------------------------------------------
(* Spaces.                                                                 *)

CreateSpace(s) ==
    /\ s \notin spaces
    /\ spaces' = spaces \cup {s}
    /\ UNCHANGED <<recordVars, deleting, spaceDelete, worldVars, create, delete,
                   pass, bounds, history>>

(* The mark goes up and the terminals to delete are counted as one step. *)
DeleteSpace(s) ==
    /\ s \in spaces \ {DefaultSpace}
    /\ ~spaceDelete[s].on
    /\ deleting' = deleting \cup {s}
    /\ spaceDelete' = [spaceDelete EXCEPT ![s] =
          [on |-> TRUE, failed |-> FALSE,
           todo |-> {t \in Terminals : view[t] # None /\ view[t].space = s}]]
    /\ UNCHANGED <<recordVars, spaces, worldVars, create, delete, pass, bounds,
                   history>>

(* One of its terminals is gone, by this deletion or by another. *)
SpaceTerminalGone(s, t) ==
    /\ t \in spaceDelete[s].todo
    /\ rows[t] = None /\ delete[t] = NoDelete
    /\ spaceDelete' = [spaceDelete EXCEPT ![s].todo = @ \ {t}]
    /\ UNCHANGED <<recordVars, spaces, deleting, worldVars, create, delete, pass,
                   bounds, history>>

(* The record goes last; a failure leaves the mark for a retry. *)
SpaceDeleted(s) ==
    LET owned == {t \in Terminals : rows[t] # None /\ rows[t].space = s} IN
    /\ spaceDelete[s].on /\ spaceDelete[s].todo = {}
    /\ spaceDelete' = [spaceDelete EXCEPT ![s] = NoSpaceDelete]
    /\ \/ /\ ~spaceDelete[s].failed /\ owned = {}
          /\ spaces' = spaces \ {s}
          /\ deleting' = deleting \ {s}
          /\ UNCHANGED failures
       \/ /\ \/ spaceDelete[s].failed /\ UNCHANGED failures
             \/ owned # {} /\ UNCHANGED failures
             \/ Fails
          /\ UNCHANGED <<spaces, deleting>>
    /\ UNCHANGED <<recordVars, worldVars, create, delete, pass, crashes, history>>

-----------------------------------------------------------------------------
(* The reconcile pass.                                                     *)

(* Inventory: taken without any lock, or unavailable. *)
PassInventory(reap) ==
    /\ pass.phase = "idle"
    /\ \E complete \in BOOLEAN :
          pass' = [NoPass EXCEPT
            !.phase = "listed", !.reap = reap, !.complete = complete,
            !.listed = {t \in Terminals : complete /\ session[t] \in {"live", "hung"}},
            !.hung = {t \in Terminals : complete /\ session[t] = "hung"}]
    /\ UNCHANGED <<recordVars, spaceVars, worldVars, create, delete, bounds, history>>

(* Fault: recorded exit evidence is not looked at first. *)
DecideFromInventory(t) ==
    IF ~pass.complete THEN "unreachable"
    ELSE IF t \in pass.hung THEN "unreachable"
    ELSE IF t \in pass.listed THEN "running" ELSE None

(* Fault: a terminal once missing is not looked at again. *)
DecideMissingIsFinal(t) ==
    IF view[t].exit # None THEN "exited"
    ELSE IF status[t] = "missing" THEN "missing"
    ELSE IF ~pass.complete THEN "unreachable"
    ELSE IF t \in pass.hung THEN "unreachable"
    ELSE IF t \in pass.listed THEN "running" ELSE None

(* The decision table, as far as it goes without reading reports. *)
Decide(t) ==
    IF view[t].exit # None THEN "exited"
    ELSE IF ~pass.complete THEN "unreachable"
    ELSE IF t \in pass.hung THEN "unreachable"
    ELSE IF t \in pass.listed THEN "running" ELSE None

(* Fault: a terminal that is still settling is taken for abandoned. *)
UnclaimedWhileSettling(t) == view[t] = None \/ t \in settling

(* No record claims the session. *)
Unclaimed(t) == view[t] = None

(* Phase 1: every terminal that is not settling, and the orphans. *)
PassDecide ==
    LET candidates == {t \in Terminals : view[t] # None} \ settling IN
    /\ pass.phase = "listed"
    /\ pass' = [pass EXCEPT
         !.phase = "decided",
         !.todo = {t \in candidates : Decide(t) = None},
         !.found = [t \in Terminals |->
            IF t \notin candidates THEN NoCandidate
            ELSE [status |-> Decide(t), absent |-> Decide(t) = None,
                  stop |-> view[t].stop, exit |-> None]],
         !.orphans = {t \in pass.listed \ pass.hung : pass.reap /\ Unclaimed(t)}]
    /\ UNCHANGED <<recordVars, spaceVars, worldVars, create, delete, bounds, history>>

(* Fault: the stop intent does not suppress the code. *)
EvidenceUnsuppressed(t) == report[t]

(* The evidence the report gives; an ATC-initiated stop hides the code. *)
Evidence(t) == IF pass.found[t].stop THEN "nocode" ELSE report[t]

(***************************************************************************)
(* Phase 2, one absent session at a time: its report is exit evidence, to  *)
(* be recorded now (first observation wins), or it is missing.             *)
(***************************************************************************)
PassRead(t) ==
    LET exited == report[t] \in {"own", "kill"}
        conclude(s, e) ==
            pass' = [pass EXCEPT !.todo = @ \ {t},
                                 !.found[t].status = s, !.found[t].exit = e]
    IN
    /\ pass.phase = "decided" /\ t \in pass.todo
    /\ \/ /\ exited
          /\ conclude("exited", Evidence(t))
          /\ rows' = IF rows[t] # None /\ rows[t].exit = None
                     THEN [rows EXCEPT ![t].exit = Evidence(t)] ELSE rows
          /\ UNCHANGED failures
       \/ exited /\ Fails /\ conclude(None, None) /\ UNCHANGED rows
       \/ ~exited /\ conclude("missing", None) /\ UNCHANGED <<rows, failures>>
    /\ UNCHANGED <<view, status, settling, spaceVars, worldVars, create, delete,
                   crashes, history>>

(* Phase 3: what is still there and not settling takes the conclusions. *)
PassApply ==
    LET applied == {t \in Terminals : view[t] # None} \ settling
        f == pass.found
    IN
    /\ pass.phase = "decided" /\ pass.todo = {}
    /\ status' = [t \in Terminals |->
          IF t \in applied /\ f[t].status # None THEN f[t].status ELSE status[t]]
    /\ view' = [t \in Terminals |->
          IF t \in applied /\ f[t].exit # None /\ view[t].exit = None
          THEN [view[t] EXCEPT !.exit = f[t].exit] ELSE view[t]]
    /\ pass' = IF pass.orphans = {} THEN NoPass
               ELSE [NoPass EXCEPT !.phase = "reaping", !.orphans = pass.orphans]
    /\ UNCHANGED <<rows, settling, spaceVars, worldVars, create, delete, bounds,
                   history>>

(* Fault: orphans are found and left alone. *)
PassReapNothing(t) ==
    /\ pass.phase = "reaping" /\ t \in pass.orphans
    /\ pass' = NoPass
    /\ UNCHANGED <<recordVars, spaceVars, worldVars, create, delete, bounds, history>>

(* The background pass then kills the orphans, one by one. *)
PassReap(t) ==
    /\ pass.phase = "reaping" /\ t \in pass.orphans
    /\ Kill(t)
    /\ pass' = IF pass.orphans = {t} THEN NoPass
               ELSE [pass EXCEPT !.orphans = @ \ {t}]
    /\ UNCHANGED <<recordVars, spaceVars, create, delete, bounds, history>>

-----------------------------------------------------------------------------
(***************************************************************************)
(* The server restarts: Load rebuilds the view from the rows; sessions and *)
(* reports live on.  What was in progress is not taken up again.           *)
(***************************************************************************)
Restart ==
    /\ crashes < MaxCrashes
    /\ crashes' = crashes + 1
    /\ view' = rows
    /\ status' = [t \in Terminals |->
          IF rows[t] = None THEN None
          ELSE IF rows[t].exit # None THEN "exited" ELSE "unreachable"]
    /\ settling' = {}
    /\ deleting' = {}
    /\ create' = [t \in Terminals |->
          IF create[t].pc = "unminted" THEN create[t]
          ELSE [pc |-> "over", space |-> None]]
    /\ delete' = [t \in Terminals |-> NoDelete]
    /\ spaceDelete' = [s \in Spaces |-> NoSpaceDelete]
    /\ pass' = NoPass
    /\ UNCHANGED <<rows, spaces, worldVars, failures, history>>

PassStep ==
    \/ PassDecide \/ PassApply
    \/ \E t \in Terminals : PassRead(t) \/ PassReap(t)

SpaceStep(s) == SpaceDeleted(s) \/ \E t \in Terminals : SpaceTerminalGone(s, t)

Next ==
    \/ \E t \in Terminals :
          \/ SessionBorn(t) \/ SessionEnds(t) \/ SessionHangs(t)
          \/ CreateCommit(t) \/ CreateTurnedDown(t) \/ CreateRefused(t)
          \/ CreateLaunched(t) \/ CreateSettles(t)
          \/ DeleteMark(t) \/ DeleteKill(t) \/ DeleteRemove(t) \/ DeleteUnrecorded(t)
          \/ \E bySpace \in BOOLEAN : DeleteIntent(t, bySpace)
          \/ \E s \in Spaces : CreateBegin(t, s) \/ Update(t, s)
    \/ \E s \in Spaces : CreateSpace(s) \/ DeleteSpace(s) \/ SpaceStep(s)
    \/ \E reap \in BOOLEAN : PassInventory(reap)
    \/ PassStep
    \/ Restart

Spec == Init /\ [][Next]_vars

Appears(t) == session[t] = "starting" /\ (SessionBorn(t) \/ SessionEnds(t))
Commits(t) == CreateCommit(t) \/ CreateTurnedDown(t)
Launches(t) == CreateRefused(t) \/ CreateLaunched(t)
WholePass == PassInventory(TRUE) /\ pass'.complete
Reaps(t) == PassReap(t) /\ session'[t] = "absent"

(***************************************************************************)
(* The reconcile ticker keeps firing, a pass under way goes on, and so do  *)
(* creates and (detached) deletes; a session that is starting shows up or  *)
(* ends.  An inventory that is tried again and again is at times complete, *)
(* and a kill that is tried again and again at times works.                *)
(***************************************************************************)
Fairness ==
    /\ WF_vars(PassStep)
    /\ SF_vars(WholePass)
    /\ \A t \in Terminals :
          /\ WF_vars(Appears(t)) /\ WF_vars(Commits(t)) /\ WF_vars(Launches(t))
          /\ WF_vars(CreateSettles(t))
          /\ WF_vars(DeleteMark(t)) /\ WF_vars(DeleteKill(t))
          /\ WF_vars(DeleteRemove(t))
          /\ SF_vars(Reaps(t))

FairSpec == Spec /\ Fairness

-----------------------------------------------------------------------------
(* Properties.                                                             *)

(***************************************************************************)
(* The view and the database agree on every record, but for two facts the  *)
(* database has first because they are written outside the commit lock:    *)
(* the stop intent of a delete that has not moved the view yet, and the    *)
(* exit evidence a pass has written and not yet applied (removeRecord,     *)
(* commitCreate, Delete, reconcile).                                       *)
(***************************************************************************)
ViewMatchesRows ==
    \A t \in Terminals :
        /\ view[t] = None <=> rows[t] = None
        /\ rows[t] # None =>
            /\ rows[t].space = view[t].space
            /\ \/ rows[t].stop = view[t].stop
               \/ rows[t].stop /\ delete[t].pc = "mark"
            /\ \/ rows[t].exit = view[t].exit
               \/ /\ pass.phase = "decided" /\ view[t].exit = None
                  /\ rows[t].exit = pass.found[t].exit

(***************************************************************************)
(* What the code does not keep, and no run checks: "database write, view   *)
(* change, and event publish move as one unit" (Service.ops).  Delete and  *)
(* the reconcile pass write the row without that lock.                     *)
(***************************************************************************)
MovesAsOne == view = rows

(***************************************************************************)
(* Evidence is durable truth: a terminal recorded as exited never shows    *)
(* another status again, whatever older inventory a pass still carries     *)
(* (reconcile).                                                            *)
(***************************************************************************)
ExitedIsFinal ==
    [][\A t \in Terminals : status[t] = "exited" => status'[t] \in {"exited", None}]_vars

(***************************************************************************)
(* A kill is not a meaningful program result: the code of a program ATC    *)
(* stopped is recorded as its exit code only when the intent overtook the  *)
(* pass, reaching the view after the pass had decided (reconcile, Delete). *)
(***************************************************************************)
KillCodeSuppressed ==
    \A t \in Terminals :
        (rows[t] # None /\ rows[t].exit = "kill") => t \in history.overtaken

(***************************************************************************)
(* Deleting a space is never blocked by a terminal that slipped in: once   *)
(* all of its terminals were deleted, nothing references it (DeleteSpace:  *)
(* "impossible while the deleting mark holds creates and moves off").      *)
(***************************************************************************)
SpaceDeleteUnblocked ==
    \A s \in Spaces :
        (spaceDelete[s].on /\ spaceDelete[s].todo = {} /\ ~spaceDelete[s].failed)
        => \A t \in Terminals : rows[t] = None \/ rows[t].space # s

(***************************************************************************)
(* Only what no record claims is reaped, although the pass decided it from *)
(* an inventory and a view that are old by then (reconcile).               *)
(***************************************************************************)
ReapsOnlyAbandoned ==
    [][\A t \in Terminals :
        (pass.phase = "reaping" /\ t \in pass.orphans /\ session'[t] # session[t])
        => rows[t] = None]_vars

(***************************************************************************)
(* A session whose creation was verified and that is still running is not  *)
(* turned missing: settling terminals are left alone so that they do not   *)
(* "flap to missing before the session appears" (Service.settling).        *)
(***************************************************************************)
NotFlapped ==
    \A t \in Terminals :
        (status'[t] = "missing" /\ status[t] # "missing")
        => ~(t \in history.verified /\ session[t] = "live")
NoFlapToMissing == [][NotFlapped]_vars

(***************************************************************************)
(* A session nobody has a record of does not stay: one that survived its   *)
(* delete, or was born after it, is reaped by the loop (reconcile).        *)
(***************************************************************************)
Orphaned(t) == session[t] = "live" /\ rows[t] = None
Gone(t) == session[t] = "absent"
OrphansReaped == \A t \in Terminals : Orphaned(t) ~> Gone(t)

(***************************************************************************)
(* A create always gives its terminal back to the passes: no terminal is   *)
(* left out of reconciliation for good (commitCreate).                     *)
(***************************************************************************)
Unsettled(t) == t \in settling
SettlingEnds == \A t \in Terminals : Unsettled(t) ~> ~Unsettled(t)

(***************************************************************************)
(* A terminal is eventually shown as it is, whatever older inventory made  *)
(* of it: what runs does not stay missing or unreachable, and what is gone *)
(* does not stay running or unreachable (reconcile).                       *)
(***************************************************************************)
Misshown(t) ==
    /\ view[t] # None
    /\ \/ session[t] = "live" /\ status[t] # "running"
       \/ session[t] = "absent" /\ status[t] \in {"running", "unreachable"}
ShownAsTheyAre == \A t \in Terminals : Misshown(t) ~> ~Misshown(t)

(***************************************************************************)
(* The records stay in step: the view and the database agree on every      *)
(* terminal but for an intent and evidence the view is about to take, the  *)
(* code of a kill is recorded only if its delete overtook the pass, and    *)
(* nothing slips into a space that is being deleted (commitCreate, Delete, *)
(* reconcile, removeRecord, DeleteSpace).                                  *)
(***************************************************************************)
RecordsInStep ==
    /\ TypeOK
    /\ ViewMatchesRows
    /\ KillCodeSuppressed
    /\ SpaceDeleteUnblocked

(***************************************************************************)
(* A pass works from an inventory and a view that are old by the time it   *)
(* acts, and yet a terminal recorded as exited keeps that status and only  *)
(* sessions no record claims are reaped (reconcile).                       *)
(***************************************************************************)
OnlyAdvances ==
    /\ ExitedIsFinal
    /\ ReapsOnlyAbandoned
=============================================================================
