--------------------------- MODULE TerminalsProofs ---------------------------
(***************************************************************************)
(* Proofs about Terminals, for every set of terminals and spaces and any   *)
(* number of failed writes and restarts: the view and the rows stay in     *)
(* step, a space's deletion is never blocked by a terminal that slipped    *)
(* in, and a reconcile pass, whatever happens between its phases, neither  *)
(* takes an exit back nor reaps what a record claims.                      *)
(*                                                                         *)
(* And about CodexObserver, which watches what runs in the terminals: for  *)
(* any of them, and any number of turns, connections, frames and losses,   *)
(* the record says what the app-server says.                               *)
(***************************************************************************)
EXTENDS Terminals, CodexObserver, TLAPS

-----------------------------------------------------------------------------
(* The terminals: the inductive invariant.                                 *)

(* The create of t has inserted its record; it started its session. *)
Committed(t) == create[t].pc \in {"launching", "verifying", "over"}
Started(t) == create[t].pc \in {"verifying", "over"}

(* Records, settling marks and sessions come from creates, in that order. *)
LifeSound ==
    \A t \in Terminals :
        /\ rows[t] # None => Committed(t)
        /\ t \in settling => create[t].pc \in {"launching", "verifying"}
        /\ session[t] # "absent" => Started(t)

(* The view lags behind the row by evidence found and not applied, at most *)
(* (and by a stop intent, which is KillsSound's).                          *)
InStep(t) ==
    /\ view[t] = None <=> rows[t] = None
    /\ rows[t] # None =>
        /\ rows[t].space = view[t].space
        /\ \/ rows[t].exit = view[t].exit
           \/ /\ pass.phase = "decided" /\ pass.found[t].exit # None
              /\ view[t].exit = None /\ rows[t].exit = pass.found[t].exit

(* A conclusion was drawn about t, or is about to be. *)
Considered(t) ==
    t \in pass.todo \/ pass.found[t].status # None \/ pass.found[t].exit # None

(* What a pass concluded stays compatible with the record it is about. *)
ConclusionSound(t) ==
    /\ Considered(t) => Committed(t) /\ t \notin settling
    /\ t \in pass.todo =>
          pass.found[t].exit = None /\ (view[t] # None => view[t].exit = None)
    /\ pass.found[t].exit # None => (rows[t] # None => rows[t].exit # None)
    /\ view[t] # None /\ view[t].exit # None => pass.found[t].status \in {None, "exited"}
    /\ pass.found[t].status = "exited" /\ view[t] # None =>
          view[t].exit # None \/ pass.found[t].exit # None

PassSound ==
    /\ \A t \in pass.listed : Started(t)
    /\ \A t \in pass.orphans : Started(t) /\ rows[t] = None
    /\ pass.phase = "decided" => \A t \in Terminals : ConclusionSound(t)

(* An exited status rests on evidence. *)
StatusSound == \A t \in Terminals : status[t] = "exited" => view[t].exit # None

(* What a space deletion has not counted is not in its space. *)
SpacesSound ==
    \A s \in Spaces : spaceDelete[s].on =>
        /\ s \in deleting
        /\ ~spaceDelete[s].failed =>
              \A t \in Terminals :
                  rows[t] # None /\ rows[t].space = s => t \in spaceDelete[s].todo

(* What the view knows of a stop when the row, a kill or a report does: the *)
(* row is ahead of it only until the delete marks it.                      *)
KillSound(t) ==
    /\ ~Committed(t) => delete[t].pc = "none" /\ report[t] # "kill"
    /\ view[t] # None =>
        /\ rows[t].stop = view[t].stop \/ (rows[t].stop /\ delete[t].pc = "mark")
        /\ delete[t].pc = "mark" => rows[t].stop
        /\ delete[t].pc \in {"kill", "remove"} => view[t].stop
        /\ report[t] = "kill" => view[t].stop

(* A pass that decided without the stop was overtaken by it. *)
DecisionSound(t) ==
    /\ pass.phase = "decided" /\ t \in pass.todo /\ view[t] # None =>
          pass.found[t].stop \/ ~view[t].stop \/ t \in history.overtaken
    /\ rows[t] # None /\ rows[t].exit = "kill" => t \in history.overtaken

KillsSound == \A t \in Terminals : KillSound(t) /\ DecisionSound(t)

RecordsInv ==
    /\ TypeOK /\ LifeSound /\ PassSound /\ StatusSound /\ SpacesSound
    /\ \A t \in Terminals : InStep(t)

-----------------------------------------------------------------------------
(* Type correctness, by groups of variables.                               *)

RecordTypes ==
    /\ rows \in [Terminals -> Record \cup {None}]
    /\ view \in [Terminals -> Record \cup {None}]
    /\ status \in [Terminals -> Status \cup {None}]
    /\ \A t \in Terminals : status[t] = None <=> view[t] = None
    /\ settling \in SUBSET {t \in Terminals : view[t] # None}

SpaceTypes ==
    /\ spaces \in SUBSET Spaces /\ DefaultSpace \in spaces
    /\ deleting \in SUBSET (spaces \ {DefaultSpace})
    /\ spaceDelete \in [Spaces -> [on : BOOLEAN, todo : SUBSET Terminals,
                                   failed : BOOLEAN]]

WorldTypes ==
    /\ session \in [Terminals -> SessionState]
    /\ report \in [Terminals -> {None, "started", "own", "kill"}]

FlowTypes ==
    /\ create \in [Terminals -> [pc : {"unminted", "preparing", "launching",
                                      "verifying", "over"},
                                space : Spaces \cup {None}]]
    /\ delete \in [Terminals -> [pc : {"none", "mark", "kill", "remove"},
                                bySpace : BOOLEAN]]

PassTypes ==
    pass \in [phase : {"idle", "listed", "decided", "reaping"},
              reap : BOOLEAN, complete : BOOLEAN,
              listed : SUBSET Terminals, hung : SUBSET Terminals,
              todo : SUBSET Terminals, orphans : SUBSET Terminals,
              found : [Terminals -> Candidate]]

BoundTypes ==
    /\ failures \in 0 .. MaxFailures
    /\ crashes \in 0 .. MaxCrashes
    /\ history \in [verified : SUBSET Terminals, overtaken : SUBSET Terminals]

(* The type invariant is the conjunction of the types of its groups. *)
LEMMA TypeParts ==
    ASSUME TypeOK
    PROVE  /\ RecordTypes /\ SpaceTypes /\ WorldTypes /\ FlowTypes
           /\ PassTypes /\ BoundTypes
    BY DEF TypeOK, RecordTypes, SpaceTypes, WorldTypes, FlowTypes, PassTypes, BoundTypes

(* A step that leaves a group of variables alone leaves it well typed. *)
LEMMA TypesKept ==
    ASSUME TypeOK
    PROVE  /\ UNCHANGED <<rows, view, status, settling>> => RecordTypes'
           /\ UNCHANGED <<spaces, deleting, spaceDelete>> => SpaceTypes'
           /\ UNCHANGED <<session, report>> => WorldTypes'
           /\ UNCHANGED <<create, delete>> => FlowTypes'
           /\ UNCHANGED pass => PassTypes'
           /\ UNCHANGED <<failures, crashes, history>> => BoundTypes'
    BY DEF TypeOK, RecordTypes, SpaceTypes, WorldTypes, FlowTypes, PassTypes, BoundTypes

(* What may be written into a record. *)
LEMMA RecordEdits ==
    ASSUME NEW r \in Record
    PROVE  /\ r # None
           /\ \A s \in Spaces : [r EXCEPT !.space = s] \in Record
           /\ [r EXCEPT !.stop = TRUE] \in Record
           /\ \A e \in Exit : [r EXCEPT !.exit = e] \in Record
    BY NoneAssumption DEF Record

(* The removal of a record, whether it was still there or not. *)
LEMMA RemoveFacts ==
    ASSUME TypeOK, NEW t \in Terminals, RemoveRecord(t), rows[t] = None => view[t] = None
    PROVE  /\ rows' = [rows EXCEPT ![t] = None]
           /\ view' = [view EXCEPT ![t] = None]
           /\ status' = [status EXCEPT ![t] = None]
           /\ settling' = settling \ {t}
           /\ report' \in {report, [report EXCEPT ![t] = None]}
           /\ RecordTypes'
    <1>1. RecordTypes
        BY TypeParts
    <1>2. CASE rows[t] = None
        BY <1>1, <1>2, TypesKept DEF RemoveRecord, recordVars, RecordTypes
    <1>3. CASE rows[t] # None
        BY <1>1, <1>3 DEF RemoveRecord, RecordTypes
    <1>4. QED BY <1>2, <1>3

(* A session starts: the types hold. *)
LEMMA TypeSessionBorn ==
    ASSUME TypeOK, NEW t \in Terminals, SessionBorn(t)
    PROVE  TypeOK'
    <1>1. RecordTypes /\ SpaceTypes /\ WorldTypes /\ FlowTypes /\ PassTypes /\ BoundTypes
        BY TypeParts
    <1>2. WorldTypes'
        BY <1>1, TerminalsAssumption, NoneAssumption DEF WorldTypes, SessionBorn, worldVars, SessionState
    <1>3. RecordTypes' /\ SpaceTypes' /\ FlowTypes' /\ PassTypes' /\ BoundTypes'
        BY TypesKept DEF SessionBorn, recordVars, spaceVars, worldVars, bounds
    <1>4. QED BY <1>2, <1>3
             DEF TypeOK, RecordTypes, SpaceTypes, WorldTypes, FlowTypes, PassTypes, BoundTypes

(* A session ends by itself: the types hold. *)
LEMMA TypeSessionEnds ==
    ASSUME TypeOK, NEW t \in Terminals, SessionEnds(t)
    PROVE  TypeOK'
    <1>1. RecordTypes /\ SpaceTypes /\ WorldTypes /\ FlowTypes /\ PassTypes /\ BoundTypes
        BY TypeParts
    <1>2. WorldTypes'
        BY <1>1, TerminalsAssumption, NoneAssumption DEF WorldTypes, SessionEnds, worldVars, SessionState
    <1>3. RecordTypes' /\ SpaceTypes' /\ FlowTypes' /\ PassTypes' /\ BoundTypes'
        BY TypesKept DEF SessionEnds, recordVars, spaceVars, worldVars, bounds
    <1>4. QED BY <1>2, <1>3
             DEF TypeOK, RecordTypes, SpaceTypes, WorldTypes, FlowTypes, PassTypes, BoundTypes

(* A session hangs or answers again: the types hold. *)
LEMMA TypeSessionHangs ==
    ASSUME TypeOK, NEW t \in Terminals, SessionHangs(t)
    PROVE  TypeOK'
    <1>1. RecordTypes /\ SpaceTypes /\ WorldTypes /\ FlowTypes /\ PassTypes /\ BoundTypes
        BY TypeParts
    <1>2. WorldTypes'
        BY <1>1, TerminalsAssumption, NoneAssumption DEF WorldTypes, SessionHangs, worldVars, SessionState
    <1>3. RecordTypes' /\ SpaceTypes' /\ FlowTypes' /\ PassTypes' /\ BoundTypes'
        BY TypesKept DEF SessionHangs, recordVars, spaceVars, worldVars, bounds
    <1>4. QED BY <1>2, <1>3
             DEF TypeOK, RecordTypes, SpaceTypes, WorldTypes, FlowTypes, PassTypes, BoundTypes

(* prepareCreate keeps the types. *)
LEMMA TypeCreateBegin ==
    ASSUME TypeOK, NEW t \in Terminals, NEW s \in Spaces, CreateBegin(t, s)
    PROVE  TypeOK'
    <1>1. RecordTypes /\ SpaceTypes /\ WorldTypes /\ FlowTypes /\ PassTypes /\ BoundTypes
        BY TypeParts
    <1>2. FlowTypes'
        BY <1>1, TerminalsAssumption, NoneAssumption DEF FlowTypes, CreateBegin, LiveSpace, NoDelete
    <1>3. RecordTypes' /\ SpaceTypes' /\ WorldTypes' /\ PassTypes' /\ BoundTypes'
        BY TypesKept DEF CreateBegin, recordVars, spaceVars, worldVars, bounds
    <1>4. QED BY <1>2, <1>3
             DEF TypeOK, RecordTypes, SpaceTypes, WorldTypes, FlowTypes, PassTypes, BoundTypes

(* commitCreate keeps the types. *)
LEMMA TypeCreateCommit ==
    ASSUME TypeOK, NEW t \in Terminals, CreateCommit(t)
    PROVE  TypeOK'
    <1>1. RecordTypes /\ SpaceTypes /\ WorldTypes /\ FlowTypes /\ PassTypes /\ BoundTypes
        BY TypeParts
    <1>2. RecordTypes'
        <2> DEFINE r == NewRecord(create[t].space)
        <2>1. create[t].space \in Spaces
            BY <1>1 DEF CreateCommit, MayCommit, LiveSpace, SpaceTypes
        <2>2. r \in Record
            BY <2>1 DEF NewRecord, Record
        <2>3. /\ rows' = [rows EXCEPT ![t] = r] /\ view' = [view EXCEPT ![t] = r]
              /\ status' = [status EXCEPT ![t] = "unreachable"]
              /\ settling' = settling \cup {t}
            BY DEF CreateCommit
        <2> HIDE DEF r
        <2>4. QED BY <1>1, <2>2, <2>3, NoneAssumption DEF RecordTypes, Status
    <1>3. WorldTypes'
        BY <1>1, TerminalsAssumption, NoneAssumption DEF WorldTypes, CreateCommit, worldVars, SessionState
    <1>4. FlowTypes'
        BY <1>1, TerminalsAssumption, NoneAssumption DEF FlowTypes, CreateCommit, NoDelete
    <1>5. SpaceTypes' /\ PassTypes' /\ BoundTypes'
        BY TypesKept DEF CreateCommit, recordVars, spaceVars, worldVars, bounds
    <1>6. QED BY <1>2, <1>3, <1>4, <1>5
             DEF TypeOK, RecordTypes, SpaceTypes, WorldTypes, FlowTypes, PassTypes, BoundTypes

(* A create that is turned down keeps the types. *)
LEMMA TypeCreateTurnedDown ==
    ASSUME TypeOK, NEW t \in Terminals, CreateTurnedDown(t)
    PROVE  TypeOK'
    <1>1. RecordTypes /\ SpaceTypes /\ WorldTypes /\ FlowTypes /\ PassTypes /\ BoundTypes
        BY TypeParts
    <1>2. FlowTypes'
        BY <1>1, TerminalsAssumption, NoneAssumption DEF FlowTypes, CreateTurnedDown, NoDelete
    <1>3. RecordTypes' /\ SpaceTypes' /\ WorldTypes' /\ PassTypes' /\ BoundTypes'
        BY TypesKept DEF CreateTurnedDown, recordVars, spaceVars, worldVars, bounds
    <1>4. QED BY <1>2, <1>3
             DEF TypeOK, RecordTypes, SpaceTypes, WorldTypes, FlowTypes, PassTypes, BoundTypes

(* A launch that is refused keeps the types. *)
LEMMA TypeCreateRefused ==
    ASSUME TypeOK, NEW t \in Terminals, rows[t] = None => view[t] = None,
           CreateRefused(t)
    PROVE  TypeOK'
    <1>1. RecordTypes /\ SpaceTypes /\ WorldTypes /\ FlowTypes /\ PassTypes /\ BoundTypes
        BY TypeParts
    <1>2. RecordTypes'
        <2>1. CASE RemoveRecord(t)
            BY <1>1, <2>1, RemoveFacts
        <2>2. CASE settling' = settling \ {t} /\ UNCHANGED <<rows, view, status>>
            BY <1>1, <2>2 DEF RecordTypes
        <2>3. QED BY <2>1, <2>2 DEF CreateRefused
    <1>3. WorldTypes'
        BY <1>1 DEF WorldTypes, CreateRefused, RemoveRecord
    <1>4. FlowTypes'
        BY <1>1, TerminalsAssumption, NoneAssumption DEF FlowTypes, CreateRefused, Fails, NoDelete
    <1>5. BoundTypes'
        BY <1>1, TerminalsAssumption, NoneAssumption DEF BoundTypes, CreateRefused, Fails, bounds
    <1>6. SpaceTypes' /\ PassTypes'
        BY TypesKept DEF CreateRefused, recordVars, spaceVars, worldVars, bounds
    <1>7. QED BY <1>2, <1>3, <1>4, <1>5, <1>6
             DEF TypeOK, RecordTypes, SpaceTypes, WorldTypes, FlowTypes, PassTypes, BoundTypes

(* A launch that succeeds keeps the types. *)
LEMMA TypeCreateLaunched ==
    ASSUME TypeOK, NEW t \in Terminals, CreateLaunched(t)
    PROVE  TypeOK'
    <1>1. RecordTypes /\ SpaceTypes /\ WorldTypes /\ FlowTypes /\ PassTypes /\ BoundTypes
        BY TypeParts
    <1>2. WorldTypes'
        BY <1>1, TerminalsAssumption, NoneAssumption DEF WorldTypes, CreateLaunched, worldVars, SessionState
    <1>3. FlowTypes'
        BY <1>1, TerminalsAssumption, NoneAssumption DEF FlowTypes, CreateLaunched, NoDelete
    <1>4. RecordTypes' /\ SpaceTypes' /\ PassTypes' /\ BoundTypes'
        BY TypesKept DEF CreateLaunched, recordVars, spaceVars, worldVars, bounds
    <1>5. QED BY <1>2, <1>3, <1>4
             DEF TypeOK, RecordTypes, SpaceTypes, WorldTypes, FlowTypes, PassTypes, BoundTypes

(* The verification of a launch keeps the types. *)
LEMMA TypeCreateSettles ==
    ASSUME TypeOK, NEW t \in Terminals, CreateSettles(t)
    PROVE  TypeOK'
    <1>1. RecordTypes /\ SpaceTypes /\ WorldTypes /\ FlowTypes /\ PassTypes /\ BoundTypes
        BY TypeParts
    <1>2. RecordTypes'
        BY <1>1, TerminalsAssumption, NoneAssumption DEF RecordTypes, CreateSettles, recordVars, Status
    <1>3. FlowTypes'
        BY <1>1, TerminalsAssumption, NoneAssumption DEF FlowTypes, CreateSettles, NoDelete
    <1>4. BoundTypes'
        BY <1>1, TerminalsAssumption, NoneAssumption DEF BoundTypes, CreateSettles, bounds
    <1>5. SpaceTypes' /\ WorldTypes' /\ PassTypes'
        BY TypesKept DEF CreateSettles, recordVars, spaceVars, worldVars, bounds
    <1>6. QED BY <1>2, <1>3, <1>4, <1>5
             DEF TypeOK, RecordTypes, SpaceTypes, WorldTypes, FlowTypes, PassTypes, BoundTypes

(* Update keeps the types. *)
LEMMA TypeUpdate ==
    ASSUME TypeOK, NEW t \in Terminals, NEW s \in Spaces, rows[t] = None <=> view[t] = None,
           Update(t, s)
    PROVE  TypeOK'
    <1>1. RecordTypes /\ SpaceTypes /\ WorldTypes /\ FlowTypes /\ PassTypes /\ BoundTypes
        BY TypeParts
    <1>2. RecordTypes'
        <2>1. rows[t] \in Record /\ view[t] \in Record
            BY <1>1 DEF RecordTypes, Update
        <2>2. [rows[t] EXCEPT !.space = s] \in Record /\ [view[t] EXCEPT !.space = s] \in Record
            BY <2>1, RecordEdits
        <2>3. /\ rows' = [rows EXCEPT ![t] = [rows[t] EXCEPT !.space = s]]
              /\ view' = [view EXCEPT ![t] = [view[t] EXCEPT !.space = s]]
              /\ UNCHANGED <<status, settling>>
            BY DEF Update
        <2>4. QED BY <1>1, <2>1, <2>2, <2>3, NoneAssumption DEF RecordTypes
    <1>3. SpaceTypes' /\ WorldTypes' /\ FlowTypes' /\ PassTypes' /\ BoundTypes'
        BY TypesKept DEF Update, recordVars, spaceVars, worldVars, bounds
    <1>4. QED BY <1>2, <1>3
             DEF TypeOK, RecordTypes, SpaceTypes, WorldTypes, FlowTypes, PassTypes, BoundTypes

(* The intent to delete keeps the types. *)
LEMMA TypeDeleteIntent ==
    ASSUME TypeOK, NEW t \in Terminals, NEW bySpace \in BOOLEAN, DeleteIntent(t, bySpace)
    PROVE  TypeOK'
    <1>1. RecordTypes /\ SpaceTypes /\ WorldTypes /\ FlowTypes /\ PassTypes /\ BoundTypes
        BY TypeParts
    <1>2. RecordTypes'
        <2>1. rows[t] \in Record
            BY <1>1 DEF RecordTypes, DeleteIntent
        <2>2. [rows[t] EXCEPT !.stop = TRUE] \in Record
            BY <2>1, RecordEdits
        <2>3. /\ rows' = [rows EXCEPT ![t] = [rows[t] EXCEPT !.stop = TRUE]]
              /\ UNCHANGED <<view, status, settling>>
            BY DEF DeleteIntent
        <2>4. QED BY <1>1, <2>2, <2>3 DEF RecordTypes
    <1>3. FlowTypes'
        BY <1>1 DEF FlowTypes, DeleteIntent
    <1>4. SpaceTypes' /\ WorldTypes' /\ PassTypes' /\ BoundTypes'
        BY TypesKept DEF DeleteIntent, recordVars, spaceVars, worldVars, bounds
    <1>5. QED BY <1>2, <1>3, <1>4
             DEF TypeOK, RecordTypes, SpaceTypes, WorldTypes, FlowTypes, PassTypes, BoundTypes

(* The mark of the view keeps the types. *)
LEMMA TypeDeleteMark ==
    ASSUME TypeOK, NEW t \in Terminals, DeleteMark(t)
    PROVE  TypeOK'
    <1>1. RecordTypes /\ SpaceTypes /\ WorldTypes /\ FlowTypes /\ PassTypes /\ BoundTypes
        BY TypeParts
    <1>2. RecordTypes'
        <2>1. view[t] # None => [view[t] EXCEPT !.stop = TRUE] \in Record
            BY <1>1, RecordEdits DEF RecordTypes
        <2>2. /\ \/ view' = view
                 \/ /\ view[t] # None
                    /\ view' = [view EXCEPT ![t] = [view[t] EXCEPT !.stop = TRUE]]
              /\ UNCHANGED <<rows, status, settling>>
            BY DEF DeleteMark
        <2>3. QED BY <1>1, <2>1, <2>2, NoneAssumption DEF RecordTypes
    <1>3. FlowTypes'
        BY <1>1 DEF FlowTypes, DeleteMark
    <1>4. BoundTypes'
        BY <1>1 DEF BoundTypes, DeleteMark, bounds
    <1>5. SpaceTypes' /\ WorldTypes' /\ PassTypes'
        BY TypesKept DEF DeleteMark, spaceVars, worldVars
    <1>6. QED BY <1>2, <1>3, <1>4, <1>5
             DEF TypeOK, RecordTypes, SpaceTypes, WorldTypes, FlowTypes, PassTypes, BoundTypes

(* The kill of a delete keeps the types. *)
LEMMA TypeDeleteKill ==
    ASSUME TypeOK, NEW t \in Terminals, DeleteKill(t)
    PROVE  TypeOK'
    <1>1. RecordTypes /\ SpaceTypes /\ WorldTypes /\ FlowTypes /\ PassTypes /\ BoundTypes
        BY TypeParts
    <1>2. WorldTypes'
        BY <1>1, TerminalsAssumption, NoneAssumption DEF WorldTypes, DeleteKill, Kill, worldVars, SessionState
    <1>3. FlowTypes'
        BY <1>1, TerminalsAssumption, NoneAssumption DEF FlowTypes, DeleteKill, Kill, NoDelete
    <1>4. RecordTypes' /\ SpaceTypes' /\ PassTypes' /\ BoundTypes'
        BY TypesKept DEF DeleteKill, recordVars, spaceVars, worldVars, bounds
    <1>5. QED BY <1>2, <1>3, <1>4
             DEF TypeOK, RecordTypes, SpaceTypes, WorldTypes, FlowTypes, PassTypes, BoundTypes

(* What is counted against a space keeps its types. *)
LEMMA TypeCountFailure ==
    ASSUME TypeOK, NEW t \in Terminals, NEW bySpace \in BOOLEAN, CountFailure(t, bySpace),
           UNCHANGED <<spaces, deleting>>
    PROVE  SpaceTypes'
    <1>1. SpaceTypes
        BY TypeParts
    <1>2. \A s \in Spaces : spaceDelete'[s] \in
             {spaceDelete[s], [spaceDelete[s] EXCEPT !.todo = @ \ {t}, !.failed = TRUE]}
        BY DEF CountFailure
    <1>3. spaceDelete' \in [Spaces -> [on : BOOLEAN, todo : SUBSET Terminals, failed : BOOLEAN]]
        BY <1>1, <1>2, ZenonT(30) DEF CountFailure, SpaceTypes
    <1>4. QED BY <1>1, <1>3 DEF SpaceTypes

(* An intent that cannot be recorded keeps the types. *)
LEMMA TypeDeleteUnrecorded ==
    ASSUME TypeOK, NEW t \in Terminals, DeleteUnrecorded(t)
    PROVE  TypeOK'
    <1>1. BoundTypes
        BY TypeParts
    <1>2. SpaceTypes'
        BY TypeCountFailure DEF DeleteUnrecorded
    <1>3. BoundTypes'
        BY <1>1, TerminalsAssumption DEF BoundTypes, DeleteUnrecorded, Fails
    <1>4. RecordTypes' /\ WorldTypes' /\ FlowTypes' /\ PassTypes'
        BY TypesKept DEF DeleteUnrecorded, recordVars, worldVars
    <1>5. QED BY <1>2, <1>3, <1>4
             DEF TypeOK, RecordTypes, SpaceTypes, WorldTypes, FlowTypes, PassTypes, BoundTypes

(* removeRecord keeps the types. *)
LEMMA TypeDeleteRemove ==
    ASSUME TypeOK, NEW t \in Terminals, rows[t] = None => view[t] = None,
           DeleteRemove(t)
    PROVE  TypeOK'
    <1>1. RecordTypes /\ SpaceTypes /\ WorldTypes /\ FlowTypes /\ PassTypes /\ BoundTypes
        BY TypeParts
    <1>2. RecordTypes'
        <2>1. CASE RemoveRecord(t)
            BY <1>1, <2>1, RemoveFacts
        <2>2. CASE UNCHANGED recordVars
            BY <2>2, TypesKept DEF recordVars
        <2>3. QED BY <2>1, <2>2 DEF DeleteRemove
    <1>3. SpaceTypes'
        <2>1. CASE UNCHANGED spaceDelete
            BY <2>1, TypesKept DEF DeleteRemove
        <2>2. CASE CountFailure(t, delete[t].bySpace)
            BY <1>1, <2>2, TypeCountFailure DEF FlowTypes, DeleteRemove
        <2>3. QED BY <2>1, <2>2 DEF DeleteRemove
    <1>4. WorldTypes'
        BY <1>1 DEF WorldTypes, DeleteRemove, RemoveRecord
    <1>5. FlowTypes'
        BY <1>1, TerminalsAssumption, NoneAssumption DEF FlowTypes, DeleteRemove, Fails, CountFailure, NoDelete
    <1>6. BoundTypes'
        <2>1. UNCHANGED <<crashes, history>>
              /\ (failures' = failures \/ (failures < MaxFailures /\ failures' = failures + 1))
            BY DEF DeleteRemove, Fails
        <2>2. QED BY <1>1, <2>1, TerminalsAssumption DEF BoundTypes
    <1>7. PassTypes'
        BY TypesKept DEF DeleteRemove, recordVars, spaceVars, worldVars, bounds
    <1>8. QED BY <1>2, <1>3, <1>4, <1>5, <1>6, <1>7
             DEF TypeOK, RecordTypes, SpaceTypes, WorldTypes, FlowTypes, PassTypes, BoundTypes

(* CreateSpace keeps the types. *)
LEMMA TypeCreateSpace ==
    ASSUME TypeOK, NEW s \in Spaces, CreateSpace(s)
    PROVE  TypeOK'
    <1>1. RecordTypes /\ SpaceTypes /\ WorldTypes /\ FlowTypes /\ PassTypes /\ BoundTypes
        BY TypeParts
    <1>2. SpaceTypes'
        BY <1>1, TerminalsAssumption, NoneAssumption DEF SpaceTypes, CreateSpace, spaceVars, NoSpaceDelete
    <1>3. RecordTypes' /\ WorldTypes' /\ FlowTypes' /\ PassTypes' /\ BoundTypes'
        BY TypesKept DEF CreateSpace, recordVars, spaceVars, worldVars, bounds
    <1>4. QED BY <1>2, <1>3
             DEF TypeOK, RecordTypes, SpaceTypes, WorldTypes, FlowTypes, PassTypes, BoundTypes

(* The start of DeleteSpace keeps the types. *)
LEMMA TypeDeleteSpace ==
    ASSUME TypeOK, NEW s \in Spaces, DeleteSpace(s)
    PROVE  TypeOK'
    <1>1. RecordTypes /\ SpaceTypes /\ WorldTypes /\ FlowTypes /\ PassTypes /\ BoundTypes
        BY TypeParts
    <1>2. SpaceTypes'
        BY <1>1, TerminalsAssumption, NoneAssumption DEF SpaceTypes, DeleteSpace, spaceVars, NoSpaceDelete
    <1>3. RecordTypes' /\ WorldTypes' /\ FlowTypes' /\ PassTypes' /\ BoundTypes'
        BY TypesKept DEF DeleteSpace, recordVars, spaceVars, worldVars, bounds
    <1>4. QED BY <1>2, <1>3
             DEF TypeOK, RecordTypes, SpaceTypes, WorldTypes, FlowTypes, PassTypes, BoundTypes

(* One terminal of a DeleteSpace keeps the types. *)
LEMMA TypeSpaceTerminalGone ==
    ASSUME TypeOK, NEW s \in Spaces, NEW t \in Terminals, SpaceTerminalGone(s, t)
    PROVE  TypeOK'
    <1>1. RecordTypes /\ SpaceTypes /\ WorldTypes /\ FlowTypes /\ PassTypes /\ BoundTypes
        BY TypeParts
    <1>2. SpaceTypes'
        BY <1>1, TerminalsAssumption, NoneAssumption DEF SpaceTypes, SpaceTerminalGone, spaceVars, NoSpaceDelete
    <1>3. RecordTypes' /\ WorldTypes' /\ FlowTypes' /\ PassTypes' /\ BoundTypes'
        BY TypesKept DEF SpaceTerminalGone, recordVars, spaceVars, worldVars, bounds
    <1>4. QED BY <1>2, <1>3
             DEF TypeOK, RecordTypes, SpaceTypes, WorldTypes, FlowTypes, PassTypes, BoundTypes

(* The end of DeleteSpace keeps the types. *)
LEMMA TypeSpaceDeleted ==
    ASSUME TypeOK, NEW s \in Spaces, SpacesSound, SpaceDeleted(s)
    PROVE  TypeOK'
    <1>1. RecordTypes /\ SpaceTypes /\ WorldTypes /\ FlowTypes /\ PassTypes /\ BoundTypes
        BY TypeParts
    <1>2. SpaceTypes'
        <2>1. spaceDelete' = [spaceDelete EXCEPT ![s] = NoSpaceDelete]
              /\ \/ spaces' = spaces \ {s} /\ deleting' = deleting \ {s}
                 \/ UNCHANGED <<spaces, deleting>>
            BY DEF SpaceDeleted
        <2>2. s # DefaultSpace
            BY <1>1 DEF SpaceDeleted, SpacesSound, SpaceTypes
        <2>3. QED BY <1>1, <2>1, <2>2 DEF SpaceTypes, NoSpaceDelete
    <1>3. BoundTypes'
        BY <1>1, TerminalsAssumption, NoneAssumption DEF BoundTypes, SpaceDeleted, Fails, bounds
    <1>4. RecordTypes' /\ WorldTypes' /\ FlowTypes' /\ PassTypes'
        BY TypesKept DEF SpaceDeleted, recordVars, spaceVars, worldVars, bounds
    <1>5. QED BY <1>2, <1>3, <1>4
             DEF TypeOK, RecordTypes, SpaceTypes, WorldTypes, FlowTypes, PassTypes, BoundTypes

(* The inventory of a pass keeps the types. *)
LEMMA TypePassInventory ==
    ASSUME TypeOK, NEW reap \in BOOLEAN, PassInventory(reap)
    PROVE  TypeOK'
    <1>1. RecordTypes /\ SpaceTypes /\ WorldTypes /\ FlowTypes /\ PassTypes /\ BoundTypes
        BY TypeParts
    <1>2. PassTypes'
        <2>1. NoPass \in [phase : {"idle", "listed", "decided", "reaping"},
                          reap : BOOLEAN, complete : BOOLEAN,
                          listed : SUBSET Terminals, hung : SUBSET Terminals,
                          todo : SUBSET Terminals, orphans : SUBSET Terminals,
                          found : [Terminals -> Candidate]]
            BY DEF NoPass, NoCandidate, Candidate
        <2>2. \E complete \in BOOLEAN, listed, hung \in SUBSET Terminals :
                 pass' = [NoPass EXCEPT !.phase = "listed", !.reap = reap,
                            !.complete = complete, !.listed = listed, !.hung = hung]
            <3>1. PICK complete \in BOOLEAN :
                     pass' = [NoPass EXCEPT
                        !.phase = "listed", !.reap = reap, !.complete = complete,
                        !.listed = {t \in Terminals : complete /\ session[t] \in {"live", "hung"}},
                        !.hung = {t \in Terminals : complete /\ session[t] = "hung"}]
                BY DEF PassInventory
            <3>2. /\ {t \in Terminals : complete /\ session[t] \in {"live", "hung"}}
                        \in SUBSET Terminals
                  /\ {t \in Terminals : complete /\ session[t] = "hung"} \in SUBSET Terminals
                OBVIOUS
            <3>3. QED BY <3>1, <3>2
        <2>3. QED BY <2>1, <2>2 DEF PassTypes
    <1>3. RecordTypes' /\ SpaceTypes' /\ WorldTypes' /\ FlowTypes' /\ BoundTypes'
        BY TypesKept DEF PassInventory, recordVars, spaceVars, worldVars, bounds
    <1>4. QED BY <1>2, <1>3
             DEF TypeOK, RecordTypes, SpaceTypes, WorldTypes, FlowTypes, PassTypes, BoundTypes

(* The decisions of a pass keep the types. *)
LEMMA TypePassDecide ==
    ASSUME TypeOK, PassDecide
    PROVE  TypeOK'
    <1>1. RecordTypes /\ SpaceTypes /\ WorldTypes /\ FlowTypes /\ PassTypes /\ BoundTypes
        BY TypeParts
    <1>2. PassTypes'
        <2> DEFINE f == [t \in Terminals |->
               IF t \notin {u \in Terminals : view[u] # None} \ settling THEN NoCandidate
               ELSE [status |-> Decide(t), absent |-> Decide(t) = None,
                     stop |-> view[t].stop, exit |-> None]]
        <2>1. f \in [Terminals -> Candidate]
            <3>1. \A t \in Terminals : Decide(t) \in Status \cup {None}
                BY DEF Decide, Status
            <3>2. \A t \in Terminals : view[t] # None => view[t].stop \in BOOLEAN
                BY <1>1 DEF RecordTypes, Record
            <3>3. QED BY <3>1, <3>2 DEF Candidate, NoCandidate
        <2>2. \E todo, orphans \in SUBSET Terminals :
                 pass' = [pass EXCEPT !.phase = "decided", !.todo = todo, !.found = f,
                                      !.orphans = orphans]
            <3>1. /\ {t \in {u \in Terminals : view[u] # None} \ settling : Decide(t) = None}
                        \in SUBSET Terminals
                  /\ {t \in pass.listed \ pass.hung : pass.reap /\ Unclaimed(t)}
                        \in SUBSET Terminals
                BY <1>1 DEF PassTypes
            <3>2. QED BY <3>1 DEF PassDecide
        <2> HIDE DEF f
        <2>3. QED BY <1>1, <2>1, <2>2 DEF PassTypes
    <1>3. RecordTypes' /\ SpaceTypes' /\ WorldTypes' /\ FlowTypes' /\ BoundTypes'
        BY TypesKept DEF PassDecide, recordVars, spaceVars, worldVars, bounds
    <1>4. QED BY <1>2, <1>3
             DEF TypeOK, RecordTypes, SpaceTypes, WorldTypes, FlowTypes, PassTypes, BoundTypes

(* One report read by a pass keeps the types. *)
LEMMA TypePassRead ==
    ASSUME TypeOK, NEW t \in Terminals, PassRead(t)
    PROVE  TypeOK'
    <1>1. RecordTypes /\ SpaceTypes /\ WorldTypes /\ FlowTypes /\ PassTypes /\ BoundTypes
        BY TypeParts
    <1>2. RecordTypes'
        <2>1. \/ rows' = rows
              \/ /\ rows[t] # None /\ report[t] \in {"own", "kill"}
                 /\ rows' = [rows EXCEPT ![t] = [rows[t] EXCEPT !.exit = Evidence(t)]]
            BY DEF PassRead
        <2>2. report[t] \in {"own", "kill"} => Evidence(t) \in Exit
            BY DEF Evidence, Exit
        <2>3. rows[t] # None /\ report[t] \in {"own", "kill"} =>
                 [rows[t] EXCEPT !.exit = Evidence(t)] \in Record
            BY <1>1, <2>2, RecordEdits DEF RecordTypes
        <2>4. rows' \in [Terminals -> Record \cup {None}]
            BY <1>1, <2>1, <2>3 DEF RecordTypes
        <2>5. QED BY <1>1, <2>4 DEF RecordTypes, PassRead
    <1>3. PassTypes'
        <2>1. PICK c \in Status \cup {None}, e \in Exit \cup {None} :
                 pass' = [pass EXCEPT !.todo = @ \ {t}, !.found[t].status = c,
                                      !.found[t].exit = e]
            <3>1. report[t] \in {"own", "kill"} => Evidence(t) \in Exit \cup {None}
                BY DEF Evidence, Exit
            <3>2. \A c \in {"exited", "missing", None} : c \in Status \cup {None}
                BY DEF Status
            <3>3. QED BY <3>1, <3>2 DEF PassRead
        <2>2. pass' = [pass EXCEPT !.todo = pass.todo \ {t},
                         !.found = [pass.found EXCEPT ![t] =
                                       [pass.found[t] EXCEPT !.status = c, !.exit = e]]]
            BY <1>1, <2>1 DEF PassTypes, Candidate
        <2>3. [pass.found[t] EXCEPT !.status = c, !.exit = e] \in Candidate
            <3>1. pass.found[t] \in Candidate
                BY <1>1 DEF PassTypes
            <3>2. QED BY <3>1 DEF Candidate
        <2>4. [pass.found EXCEPT ![t] = [pass.found[t] EXCEPT !.status = c, !.exit = e]]
                 \in [Terminals -> Candidate]
            BY <1>1, <2>3 DEF PassTypes
        <2>5. QED BY <1>1, <2>2, <2>4 DEF PassTypes
    <1>4. BoundTypes'
        BY <1>1, TerminalsAssumption, NoneAssumption DEF BoundTypes, PassRead, Fails, Evidence, bounds
    <1>5. SpaceTypes' /\ WorldTypes' /\ FlowTypes'
        BY TypesKept DEF PassRead, recordVars, spaceVars, worldVars, bounds
    <1>6. QED BY <1>2, <1>3, <1>4, <1>5
             DEF TypeOK, RecordTypes, SpaceTypes, WorldTypes, FlowTypes, PassTypes, BoundTypes

(* The application of a pass keeps the types. *)
LEMMA TypePassApply ==
    ASSUME TypeOK, PassApply
    PROVE  TypeOK'
    <1>1. RecordTypes /\ SpaceTypes /\ WorldTypes /\ FlowTypes /\ PassTypes /\ BoundTypes
        BY TypeParts
    <1>2. RecordTypes'
        <2>1. ASSUME NEW t \in Terminals
              PROVE  /\ view'[t] \in Record \cup {None} /\ (view'[t] = None <=> view[t] = None)
                     /\ status'[t] \in Status \cup {None}
                     /\ status'[t] = None <=> status[t] = None
            <3>1. pass.found[t].status \in Status \cup {None}
                  /\ pass.found[t].exit \in Exit \cup {None}
                BY <1>1 DEF PassTypes, Candidate
            <3>2. view[t] # None => \A e \in Exit : [view[t] EXCEPT !.exit = e] \in Record
                BY <1>1, RecordEdits DEF RecordTypes
            <3>3. \/ view'[t] = view[t]
                  \/ /\ view[t] # None /\ pass.found[t].exit # None
                     /\ view'[t] = [view[t] EXCEPT !.exit = pass.found[t].exit]
                BY DEF PassApply
            <3>4. \/ status'[t] = status[t]
                  \/ view[t] # None /\ pass.found[t].status # None
                     /\ status'[t] = pass.found[t].status
                BY DEF PassApply
            <3>5. QED BY <1>1, <3>1, <3>2, <3>3, <3>4, NoneAssumption DEF RecordTypes
        <2>2. /\ view' = [t \in Terminals |-> view'[t]]
              /\ status' = [t \in Terminals |-> status'[t]]
              /\ UNCHANGED <<rows, settling>>
            BY DEF PassApply
        <2>3. QED BY <1>1, <2>1, <2>2 DEF RecordTypes
    <1>3. PassTypes'
        BY <1>1, TerminalsAssumption, NoneAssumption DEF PassTypes, PassApply, Candidate, NoCandidate, NoPass, RecordTypes, Record, Exit, Status
    <1>4. SpaceTypes' /\ WorldTypes' /\ FlowTypes' /\ BoundTypes'
        BY TypesKept DEF PassApply, recordVars, spaceVars, worldVars, bounds
    <1>5. QED BY <1>2, <1>3, <1>4
             DEF TypeOK, RecordTypes, SpaceTypes, WorldTypes, FlowTypes, PassTypes, BoundTypes

(* One orphan killed by a pass keeps the types. *)
LEMMA TypePassReap ==
    ASSUME TypeOK, NEW t \in Terminals, PassReap(t)
    PROVE  TypeOK'
    <1>1. RecordTypes /\ SpaceTypes /\ WorldTypes /\ FlowTypes /\ PassTypes /\ BoundTypes
        BY TypeParts
    <1>2. WorldTypes'
        BY <1>1, TerminalsAssumption, NoneAssumption DEF WorldTypes, PassReap, Kill, worldVars, SessionState
    <1>3. PassTypes'
        BY <1>1, TerminalsAssumption, NoneAssumption DEF PassTypes, PassReap, Kill, Candidate, NoCandidate, NoPass, RecordTypes, Record, Exit, Status
    <1>4. RecordTypes' /\ SpaceTypes' /\ FlowTypes' /\ BoundTypes'
        BY TypesKept DEF PassReap, recordVars, spaceVars, worldVars, bounds
    <1>5. QED BY <1>2, <1>3, <1>4
             DEF TypeOK, RecordTypes, SpaceTypes, WorldTypes, FlowTypes, PassTypes, BoundTypes

(* A restart keeps the types. *)
LEMMA TypeRestart ==
    ASSUME TypeOK, Restart
    PROVE  TypeOK'
    <1>1. RecordTypes /\ SpaceTypes /\ WorldTypes /\ FlowTypes /\ PassTypes /\ BoundTypes
        BY TypeParts
    <1>2. RecordTypes'
        BY <1>1, TerminalsAssumption, NoneAssumption DEF RecordTypes, Restart, recordVars, Status
    <1>3. SpaceTypes'
        BY <1>1, TerminalsAssumption, NoneAssumption DEF SpaceTypes, Restart, spaceVars, NoSpaceDelete
    <1>4. FlowTypes'
        BY <1>1, TerminalsAssumption, NoneAssumption DEF FlowTypes, Restart, NoDelete
    <1>5. PassTypes'
        BY <1>1, TerminalsAssumption, NoneAssumption DEF PassTypes, Restart, Candidate, NoCandidate, NoPass, RecordTypes, Record, Exit, Status
    <1>6. BoundTypes'
        BY <1>1, TerminalsAssumption, NoneAssumption DEF BoundTypes, Restart, bounds
    <1>7. WorldTypes'
        BY TypesKept DEF Restart, recordVars, spaceVars, worldVars, bounds
    <1>8. QED BY <1>2, <1>3, <1>4, <1>5, <1>6, <1>7
             DEF TypeOK, RecordTypes, SpaceTypes, WorldTypes, FlowTypes, PassTypes, BoundTypes

-----------------------------------------------------------------------------
(* The records and a pass that looks at them.                              *)

(* What a step outside the passes does to the record of t: nothing, remove *)
(* it, edit its space or stop intent, or insert it for its create.         *)
Edited(t) ==
    /\ create[t].pc = "preparing" => rows[t] = None
    /\ \/ rows'[t] = rows[t] /\ view'[t] = view[t] /\ status'[t] = status[t]
       \/ rows'[t] = None /\ view'[t] = None /\ status'[t] = None
       \/ /\ rows[t] # None /\ view[t] # None /\ status'[t] = status[t]
          /\ \E s \in Spaces, b, c \in BOOLEAN :
                /\ rows'[t] = [rows[t] EXCEPT !.space = s, !.stop = b]
                /\ view'[t] = [view[t] EXCEPT !.space = s, !.stop = c]
       \/ /\ create[t].pc = "preparing" /\ status'[t] = "unreachable"
          /\ rows'[t] = view'[t] /\ view'[t] \in Record /\ view'[t].exit = None

(* Creates go forward. *)
GoesForward(t) ==
    /\ Committed(t) => Committed(t)'
    /\ Started(t) => Started(t)'
    /\ t \in settling' => t \in settling \/ create[t].pc = "preparing"

(* Such a step keeps records in step, and what a pass concluded sound. *)
LEMMA RecordsKept ==
    ASSUME RecordsInv, TypeOK', pass' = pass,
           \A t \in Terminals : Edited(t) /\ GoesForward(t)
    PROVE  PassSound' /\ StatusSound' /\ \A t \in Terminals : InStep(t)'
    <1>1. ASSUME NEW t \in Terminals
          PROVE  /\ InStep(t)'
                 /\ status'[t] = "exited" => view'[t].exit # None
                 /\ pass.phase = "decided" => ConclusionSound(t)'
        <2>1. /\ view[t] \in Record \cup {None} /\ rows[t] \in Record \cup {None}
              /\ InStep(t) /\ Edited(t) /\ GoesForward(t)
              /\ (status[t] = "exited" => view[t].exit # None)
              /\ (pass.phase = "decided" => ConclusionSound(t))
              /\ pass.found[t] \in Candidate
            BY <1>1 DEF RecordsInv, TypeOK, StatusSound, PassSound
        <2>2. CASE rows'[t] = rows[t] /\ view'[t] = view[t] /\ status'[t] = status[t]
            <3>1. InStep(t)' /\ (status'[t] = "exited" => view'[t].exit # None)
                BY <2>1, <2>2 DEF InStep
            <3>2. Considered(t)' <=> Considered(t)
                BY DEF Considered
            <3>3. ASSUME pass.phase = "decided"
                  PROVE  ConclusionSound(t)'
                <4>1. ConclusionSound(t)
                    BY <2>1, <3>3
                <4>2. Considered(t)' => Committed(t)' /\ t \notin settling'
                    BY <2>1, <3>2, <4>1 DEF ConclusionSound, GoesForward, Committed
                <4>3. QED BY <2>2, <4>1, <4>2 DEF ConclusionSound
            <3>4. QED BY <3>1, <3>3
        <2>3. CASE rows'[t] = None /\ view'[t] = None /\ status'[t] = None
            <3>1. InStep(t)' /\ status'[t] # "exited"
                BY <2>3, NoneAssumption DEF InStep, Status
            <3>2. ASSUME pass.phase = "decided"
                  PROVE  ConclusionSound(t)'
                <4>1. ConclusionSound(t)
                    BY <2>1, <3>2
                <4>2. Considered(t)' => Committed(t)' /\ t \notin settling'
                    BY <2>1, <4>1 DEF ConclusionSound, Considered, GoesForward, Committed
                <4>3. QED BY <2>3, <4>1, <4>2 DEF ConclusionSound
            <3>3. QED BY <3>1, <3>2
        <2>4. ASSUME NEW s \in Spaces, NEW b \in BOOLEAN, NEW c \in BOOLEAN,
                     rows[t] # None, view[t] # None,
                     status'[t] = status[t],
                     rows'[t] = [rows[t] EXCEPT !.space = s, !.stop = b],
                     view'[t] = [view[t] EXCEPT !.space = s, !.stop = c]
              PROVE  /\ InStep(t)'
                     /\ status'[t] = "exited" => view'[t].exit # None
                     /\ pass.phase = "decided" => ConclusionSound(t)'
            <3>1. /\ rows[t] \in Record /\ view[t] \in Record
                  /\ rows'[t] \in Record /\ view'[t] \in Record
                  /\ rows'[t].exit = rows[t].exit /\ view'[t].exit = view[t].exit
                  /\ rows'[t].space = view'[t].space
                BY <2>1, <2>4 DEF Record
            <3>2. rows'[t] # None /\ view'[t] # None
                BY <3>1, NoneAssumption
            <3>3. InStep(t)'
                BY <2>1, <2>4, <3>1, <3>2 DEF InStep
            <3>4. QED BY <2>1, <2>4, <3>1, <3>2, <3>3
                     DEF ConclusionSound, Considered, GoesForward, Committed
        <2>5. CASE /\ create[t].pc = "preparing" /\ status'[t] = "unreachable"
                   /\ rows'[t] = view'[t] /\ view'[t] \in Record /\ view'[t].exit = None
            <3>1. InStep(t)' /\ status'[t] # "exited"
                BY <2>5 DEF InStep
            <3>2. ASSUME pass.phase = "decided"
                  PROVE  ConclusionSound(t)'
                <4>1. ~Considered(t)
                    BY <2>1, <2>5, <3>2 DEF ConclusionSound, Committed
                <4>2. "exited" # None
                    BY NoneAssumption DEF Status
                <4>3. QED BY <2>5, <4>1, <4>2 DEF ConclusionSound, Considered
            <3>3. QED BY <3>1, <3>2
        <2>6. QED BY <2>1, <2>2, <2>3, <2>4, <2>5 DEF Edited
    <1>2. StatusSound'
        BY <1>1 DEF StatusSound
    <1>3. ASSUME NEW t \in pass.orphans
          PROVE  Started(t)' /\ rows'[t] = None
        <2>1. /\ t \in Terminals /\ Started(t) /\ rows[t] = None /\ GoesForward(t)
              /\ Edited(t) /\ InStep(t)
            BY <1>3 DEF RecordsInv, PassSound, TypeOK
        <2>2. QED BY <2>1 DEF GoesForward, Edited, Started
    <1>4. \A t \in pass.listed : Started(t)'
        BY DEF RecordsInv, PassSound, TypeOK, GoesForward
    <1>5. PassSound'
        BY <1>1, <1>3, <1>4 DEF PassSound
    <1>6. QED BY <1>1, <1>2, <1>5

(* No step but a create's insert or a move brings a record to a space. *)
LEMMA SpacesKept ==
    ASSUME RecordsInv, spaceDelete' = spaceDelete, deleting' = deleting,
           \A t \in Terminals :
              \/ rows'[t] = None
              \/ rows[t] # None /\ rows'[t].space = rows[t].space
              \/ rows'[t].space \notin deleting
    PROVE  SpacesSound'
    BY DEF RecordsInv, SpacesSound

-----------------------------------------------------------------------------
(* Every action keeps the invariant.                                       *)

(* Steps of sessions and of creates that leave the records alone. *)
LEMMA QuietKeeps ==
    ASSUME RecordsInv, TypeOK', UNCHANGED <<recordVars, spaceVars, pass>>,
           \A t \in Terminals : /\ Committed(t) => Committed(t)'
                                /\ Started(t) => Started(t)'
                                /\ create[t].pc = "launching" =>
                                      create'[t].pc \in {"launching", "verifying"}
                                /\ create[t].pc = "verifying" => create'[t].pc = "verifying"
                                /\ session'[t] # "absent" =>
                                      session[t] # "absent" \/ Started(t)'
    PROVE  RecordsInv'
    <1>1. LifeSound'
        <2>1. ASSUME NEW t \in Terminals
              PROVE  /\ rows'[t] # None => Committed(t)'
                     /\ t \in settling' => create'[t].pc \in {"launching", "verifying"}
                     /\ session'[t] # "absent" => Started(t)'
            BY <2>1 DEF RecordsInv, LifeSound, recordVars
        <2>2. QED BY <2>1 DEF LifeSound
    <1>2. \A t \in Terminals : Edited(t) /\ GoesForward(t)
        BY DEF RecordsInv, LifeSound, Edited, GoesForward, Committed, recordVars
    <1>3. PassSound' /\ StatusSound' /\ \A t \in Terminals : InStep(t)'
        BY <1>2, RecordsKept
    <1>4. SpacesSound'
        BY SpacesKept DEF recordVars, spaceVars
    <1>5. QED BY <1>1, <1>3, <1>4 DEF RecordsInv

(* Sessions that start, end and hang keep the invariant. *)
LEMMA SessionKeeps ==
    ASSUME RecordsInv, NEW t \in Terminals,
           \/ SessionBorn(t) \/ SessionEnds(t) \/ SessionHangs(t)
           \/ DeleteKill(t) \/ CreateLaunched(t) \/ CreateTurnedDown(t)
           \/ \E s \in Spaces : CreateBegin(t, s)
    PROVE  RecordsInv'
    <1>1. TypeOK /\ TypeOK'
        BY TypeSessionBorn, TypeSessionEnds, TypeSessionHangs, TypeDeleteKill,
           TypeCreateLaunched, TypeCreateTurnedDown, TypeCreateBegin DEF RecordsInv
    <1>2. UNCHANGED <<recordVars, spaceVars, pass>>
        BY DEF SessionBorn, SessionEnds, SessionHangs, DeleteKill, CreateLaunched,
               CreateTurnedDown, CreateBegin
    <1>3. ASSUME NEW u \in Terminals
          PROVE  /\ \/ create'[u] = create[u]
                    \/ create[u].pc = "launching" /\ create'[u].pc = "verifying"
                    \/ /\ create[u].pc \in {"unminted", "preparing"}
                       /\ create'[u].pc \in {"unminted", "preparing"}
                 /\ session'[u] # "absent" =>
                       session[u] # "absent" \/ create'[u].pc = "verifying"
        <2>1. create \in [Terminals -> [pc : {"unminted", "preparing", "launching",
                                      "verifying", "over"}, space : Spaces \cup {None}]]
              /\ session \in [Terminals -> SessionState]
            BY <1>1 DEF TypeOK
        <2>2. CASE SessionBorn(t) \/ SessionEnds(t) \/ SessionHangs(t)
            BY <2>1, <2>2 DEF SessionBorn, SessionEnds, SessionHangs
        <2>3. CASE DeleteKill(t)
            BY <2>1, <2>3 DEF DeleteKill, Kill
        <2>4. CASE CreateLaunched(t)
            BY <2>1, <2>4 DEF CreateLaunched
        <2>5. CASE CreateTurnedDown(t) \/ \E s \in Spaces : CreateBegin(t, s)
            BY <2>1, <2>5 DEF CreateTurnedDown, CreateBegin, worldVars
        <2>6. QED BY <2>2, <2>3, <2>4, <2>5
    <1>4. QED BY <1>1, <1>2, <1>3, QuietKeeps DEF Committed, Started

(* The insert of a record, in a space that is live under the commit lock. *)
LEMMA CommitKeeps ==
    ASSUME RecordsInv, NEW t \in Terminals, CreateCommit(t)
    PROVE  RecordsInv'
    <1> DEFINE r == NewRecord(create[t].space)
    <1>1. TypeOK /\ TypeOK' /\ LifeSound /\ SpacesSound
        BY TypeCreateCommit DEF RecordsInv
    <1>2. /\ create[t].pc = "preparing" /\ create[t].space \in spaces \ deleting
          /\ create' = [create EXCEPT ![t].pc = "launching"]
          /\ rows' = [rows EXCEPT ![t] = r] /\ view' = [view EXCEPT ![t] = r]
          /\ status' = [status EXCEPT ![t] = "unreachable"]
          /\ settling' = settling \cup {t}
          /\ UNCHANGED <<spaces, deleting, spaceDelete, session, pass>>
        BY DEF CreateCommit, MayCommit, LiveSpace, spaceVars
    <1>3. r \in Record /\ r.exit = None /\ r.space \notin deleting
        BY <1>1, <1>2 DEF NewRecord, Record, TypeOK
    <1> HIDE DEF r
    <1>4. ASSUME NEW u \in Terminals
          PROVE  /\ Edited(u) /\ GoesForward(u)
                 /\ rows'[u] # None => Committed(u)'
                 /\ u \in settling' => create'[u].pc \in {"launching", "verifying"}
                 /\ session'[u] # "absent" => Started(u)'
                 /\ rows'[u] = rows[u] \/ rows'[u].space \notin deleting
        <2>1. CASE u = t
            <3>1. /\ rows'[t] = r /\ view'[t] = r /\ status'[t] = "unreachable"
                  /\ create'[t].pc = "launching" /\ session'[t] = session[t]
                BY <1>1, <1>2 DEF TypeOK
            <3>2. /\ rows[t] = None /\ session[t] = "absent"
                BY <1>1, <1>2 DEF LifeSound, Committed, Started
            <3>3. Edited(t) /\ GoesForward(t)
                BY <1>2, <1>3, <3>1, <3>2 DEF Edited, GoesForward, Committed, Started
            <3>4. QED BY <1>3, <2>1, <3>1, <3>2, <3>3 DEF Committed
        <2>2. CASE u # t
            BY <1>1, <1>2, <2>2 DEF Edited, GoesForward, Committed, Started, LifeSound, TypeOK
        <2>3. QED BY <2>1, <2>2
    <1>5. PassSound' /\ StatusSound' /\ \A u \in Terminals : InStep(u)'
        BY <1>1, <1>2, <1>4, RecordsKept
    <1>6. SpacesSound'
        BY <1>2, <1>4, SpacesKept
    <1>7. LifeSound'
        BY <1>4 DEF LifeSound
    <1>8. QED BY <1>1, <1>5, <1>6, <1>7 DEF RecordsInv

(* Steps of one terminal's create, delete or record that a pass, and the *)
(* deletion of its space, may meet at any point.                         *)
LEMMA EditKeeps ==
    ASSUME RecordsInv, TypeOK', NEW t \in Terminals, pass' = pass, session' = session,
           UNCHANGED <<deleting, spaceDelete>>,
           Committed(t) => Committed(t)', Started(t) => Started(t)',
           settling' \in {settling, settling \ {t}},
           t \in settling' => create'[t].pc \in {"launching", "verifying"},
           Edited(t), rows'[t] # None => rows[t] # None,
           rows'[t] # None => rows'[t].space \in {rows[t].space} \cup (Spaces \ deleting),
           \A u \in Terminals \ {t} :
              /\ rows'[u] = rows[u] /\ view'[u] = view[u] /\ status'[u] = status[u]
              /\ create'[u] = create[u]
    PROVE  RecordsInv'
    <1>1. ASSUME NEW u \in Terminals
          PROVE  /\ Edited(u) /\ GoesForward(u)
                 /\ rows'[u] # None => Committed(u)'
                 /\ u \in settling' => create'[u].pc \in {"launching", "verifying"}
                 /\ session'[u] # "absent" => Started(u)'
                 /\ \/ rows'[u] = None
                    \/ rows[u] # None /\ rows'[u].space = rows[u].space
                    \/ rows'[u].space \notin deleting
        <2>1. /\ rows[u] # None => Committed(u)
              /\ u \in settling => create[u].pc \in {"launching", "verifying"}
              /\ session[u] # "absent" => Started(u)
            BY DEF RecordsInv, LifeSound
        <2>2. CASE u = t
            BY <2>1, <2>2 DEF GoesForward
        <2>3. CASE u # t
            BY <2>1, <2>3 DEF Edited, GoesForward, Committed, Started
        <2>4. QED BY <2>2, <2>3
    <1>2. PassSound' /\ StatusSound' /\ \A u \in Terminals : InStep(u)'
        BY <1>1, RecordsKept
    <1>3. SpacesSound'
        BY <1>1, SpacesKept
    <1>4. LifeSound'
        BY <1>1 DEF LifeSound
    <1>5. QED BY <1>2, <1>3, <1>4 DEF RecordsInv

(* The end of a create keeps the invariant. *)
LEMMA CreateEndKeeps ==
    ASSUME RecordsInv, NEW t \in Terminals, CreateRefused(t) \/ CreateSettles(t)
    PROVE  RecordsInv'
    <1>1. /\ TypeOK /\ InStep(t) /\ (rows[t] # None => Committed(t))
          /\ (rows[t] = None => view[t] = None)
        BY DEF RecordsInv, LifeSound, InStep
    <1>2. TypeOK'
        BY <1>1, TypeCreateRefused, TypeCreateSettles
    <1>3. /\ pass' = pass /\ session' = session /\ UNCHANGED <<deleting, spaceDelete>>
          /\ create' = [create EXCEPT ![t].pc = "over"]
          /\ create[t].pc \in {"launching", "verifying"}
        BY DEF CreateRefused, CreateSettles, spaceVars, worldVars
    <1>4. /\ settling' = settling \ {t}
          /\ \/ UNCHANGED <<rows, view, status>>
             \/ /\ rows' = [rows EXCEPT ![t] = None] /\ view' = [view EXCEPT ![t] = None]
                /\ status' = [status EXCEPT ![t] = None]
        BY <1>1, RemoveFacts DEF CreateRefused, CreateSettles
    <1>5. /\ create'[t].pc = "over"
          /\ \A u \in Terminals \ {t} : create'[u] = create[u]
        BY <1>1, <1>3 DEF TypeOK
    <1>6. \/ UNCHANGED <<rows, view, status>>
          \/ /\ rows'[t] = None /\ view'[t] = None /\ status'[t] = None
             /\ \A u \in Terminals \ {t} :
                   rows'[u] = rows[u] /\ view'[u] = view[u] /\ status'[u] = status[u]
        BY <1>1, <1>4 DEF TypeOK
    <1>7. Edited(t)
        BY <1>1, <1>3, <1>6 DEF Edited
    <1>8. QED BY <1>2, <1>3, <1>4, <1>5, <1>6, <1>7, EditKeeps DEF Committed, Started

(* Update, the intent to delete and the mark of the view keep the invariant. *)
LEMMA UpdateKeeps ==
    ASSUME RecordsInv, NEW t \in Terminals,
           \/ \E s \in Spaces : Update(t, s)
           \/ \E bySpace \in BOOLEAN : DeleteIntent(t, bySpace)
           \/ DeleteMark(t) /\ view[t] # None
    PROVE  RecordsInv'
    <1>1. /\ TypeOK /\ InStep(t) /\ (rows[t] # None => Committed(t))
          /\ (t \in settling => create[t].pc \in {"launching", "verifying"})
          /\ (rows[t] = None <=> view[t] = None)
          /\ (rows[t] # None => rows[t].space = view[t].space)
        BY DEF RecordsInv, LifeSound, InStep
    <1>2. TypeOK'
        BY <1>1, TypeUpdate, TypeDeleteIntent, TypeDeleteMark
    <1>3. UNCHANGED <<pass, session, deleting, spaceDelete, create, settling, status>>
        BY DEF Update, DeleteIntent, DeleteMark, spaceVars, worldVars
    <1>4. /\ rows[t] \in Record /\ view[t] \in Record
          /\ rows[t] # None /\ view[t] # None
        BY <1>1, NoneAssumption DEF TypeOK, Update, DeleteIntent
    <1>5. \A r \in Record, x \in Spaces :
             /\ [r EXCEPT !.space = x] = [r EXCEPT !.space = x, !.stop = r.stop]
             /\ r.stop \in BOOLEAN
        BY DEF Record
    <1>6. PICK s \in Spaces, b \in BOOLEAN, c \in BOOLEAN :
             /\ rows' = [rows EXCEPT ![t] = [rows[t] EXCEPT !.space = s, !.stop = b]]
             /\ view' = [view EXCEPT ![t] = [view[t] EXCEPT !.space = s, !.stop = c]]
             /\ s = rows[t].space \/ s \in Spaces \ deleting
        <2>1. ASSUME NEW s \in Spaces, Update(t, s)
              PROVE  /\ rows' = [rows EXCEPT ![t] = [rows[t] EXCEPT !.space = s,
                                                                    !.stop = rows[t].stop]]
                     /\ view' = [view EXCEPT ![t] = [view[t] EXCEPT !.space = s,
                                                                    !.stop = view[t].stop]]
                     /\ s \in Spaces \ deleting
            BY <1>4, <1>5, <2>1 DEF Update, LiveSpace
        <2>2. ASSUME NEW bySpace \in BOOLEAN, DeleteIntent(t, bySpace)
              PROVE  /\ rows' = [rows EXCEPT ![t] = [rows[t] EXCEPT
                                            !.space = rows[t].space, !.stop = TRUE]]
                     /\ view' = [view EXCEPT ![t] = [view[t] EXCEPT
                                            !.space = rows[t].space, !.stop = view[t].stop]]
            <3>1. view' = view /\ view = [view EXCEPT ![t] = view[t]]
                BY <1>1, <2>2 DEF DeleteIntent, TypeOK
            <3>2. /\ [rows[t] EXCEPT !.stop = TRUE]
                        = [rows[t] EXCEPT !.space = rows[t].space, !.stop = TRUE]
                  /\ view[t] = [view[t] EXCEPT !.space = rows[t].space, !.stop = view[t].stop]
                BY <1>1, <1>4 DEF Record
            <3>3. rows' = [rows EXCEPT ![t] = [rows[t] EXCEPT !.stop = TRUE]]
                BY <2>2 DEF DeleteIntent
            <3>4. QED BY <3>1, <3>2, <3>3
        <2>3. ASSUME DeleteMark(t), view[t] # None
              PROVE  /\ rows' = [rows EXCEPT ![t] = [rows[t] EXCEPT
                                            !.space = rows[t].space, !.stop = rows[t].stop]]
                     /\ view' = [view EXCEPT ![t] = [view[t] EXCEPT
                                            !.space = rows[t].space, !.stop = TRUE]]
            <3>1. rows' = rows /\ rows = [rows EXCEPT ![t] = rows[t]]
                BY <1>1, <2>3 DEF DeleteMark, TypeOK
            <3>2. /\ [view[t] EXCEPT !.stop = TRUE]
                        = [view[t] EXCEPT !.space = rows[t].space, !.stop = TRUE]
                  /\ rows[t] = [rows[t] EXCEPT !.space = rows[t].space, !.stop = rows[t].stop]
                BY <1>1, <1>4 DEF Record
            <3>3. view' = [view EXCEPT ![t] = [view[t] EXCEPT !.stop = TRUE]]
                BY <2>3 DEF DeleteMark
            <3>4. QED BY <3>1, <3>2, <3>3
        <2>4. /\ rows[t].space \in Spaces /\ rows[t].stop \in BOOLEAN
              /\ view[t].stop \in BOOLEAN
            BY <1>4 DEF Record
        <2> DEFINE Edits(s, b, c) ==
               /\ rows' = [rows EXCEPT ![t] = [rows[t] EXCEPT !.space = s, !.stop = b]]
               /\ view' = [view EXCEPT ![t] = [view[t] EXCEPT !.space = s, !.stop = c]]
               /\ s = rows[t].space \/ s \in Spaces \ deleting
        <2>5. \/ \E s \in Spaces : Edits(s, rows[t].stop, view[t].stop)
              \/ Edits(rows[t].space, TRUE, view[t].stop)
              \/ Edits(rows[t].space, rows[t].stop, TRUE)
            BY <1>4, <2>1, <2>2, <2>3
        <2> HIDE DEF Edits
        <2>6. \E s \in Spaces, b \in BOOLEAN, c \in BOOLEAN : Edits(s, b, c)
            BY <2>4, <2>5
        <2>7. QED BY <2>6 DEF Edits
    <1>7. /\ rows'[t] = [rows[t] EXCEPT !.space = s, !.stop = b]
          /\ view'[t] = [view[t] EXCEPT !.space = s, !.stop = c]
          /\ rows'[t].space = s
          /\ \A u \in Terminals \ {t} : rows'[u] = rows[u] /\ view'[u] = view[u]
        BY <1>1, <1>4, <1>6 DEF TypeOK, Record
    <1>8. create[t].pc # "preparing"
        BY <1>1, <1>4 DEF Committed
    <1>9. Edited(t)
        BY <1>3, <1>4, <1>7, <1>8 DEF Edited
    <1>10. QED BY <1>1, <1>2, <1>3, <1>4, <1>6, <1>7, <1>9, EditKeeps DEF Committed, Started

(* The mark of a terminal that is gone changes nothing here. *)
LEMMA MarkKeeps ==
    ASSUME RecordsInv, NEW t \in Terminals, DeleteMark(t)
    PROVE  RecordsInv'
    <1>1. CASE view[t] # None
        BY <1>1, UpdateKeeps
    <1>2. CASE view[t] = None
        <2>1. TypeOK'
            BY TypeDeleteMark DEF RecordsInv
        <2>2. UNCHANGED <<recordVars, spaceVars, pass, create, session>>
            BY <1>2 DEF DeleteMark, recordVars, worldVars
        <2>3. QED BY <2>1, <2>2, QuietKeeps DEF Committed, Started
    <1>3. QED BY <1>1, <1>2

(* A failed delete, counted against its space, keeps the invariant. *)
LEMMA FailureKeeps ==
    ASSUME RecordsInv, TypeOK', NEW t \in Terminals, NEW bySpace \in BOOLEAN,
           CountFailure(t, bySpace),
           UNCHANGED <<recordVars, pass, session, create, spaces, deleting>>
    PROVE  RecordsInv'
    <1>1. TypeOK /\ SpacesSound
        BY DEF RecordsInv
    <1>2. \A u \in Terminals : Edited(u) /\ GoesForward(u)
        BY DEF RecordsInv, LifeSound, Edited, GoesForward, Committed, Started, recordVars
    <1>3. PassSound' /\ StatusSound' /\ \A u \in Terminals : InStep(u)'
        BY <1>2, RecordsKept
    <1>4. ASSUME NEW s \in Spaces, spaceDelete'[s].on
          PROVE  /\ s \in deleting
                 /\ ~spaceDelete'[s].failed =>
                       \A u \in Terminals : rows[u] # None /\ rows[u].space = s
                                                => u \in spaceDelete'[s].todo
        <2>1. spaceDelete[s] \in [on : BOOLEAN, todo : SUBSET Terminals, failed : BOOLEAN]
            BY <1>1 DEF TypeOK
        <2>2. \/ spaceDelete'[s] = spaceDelete[s]
              \/ spaceDelete'[s] = [spaceDelete[s] EXCEPT !.todo = @ \ {t}, !.failed = TRUE]
            BY DEF CountFailure
        <2>3. CASE spaceDelete'[s] = spaceDelete[s]
            BY <1>1, <1>4, <2>3 DEF SpacesSound
        <2>4. CASE spaceDelete'[s] = [spaceDelete[s] EXCEPT !.todo = @ \ {t}, !.failed = TRUE]
            <3>1. spaceDelete'[s].failed = TRUE /\ spaceDelete'[s].on = spaceDelete[s].on
                BY <2>1, <2>4
            <3>2. QED BY <1>1, <1>4, <3>1 DEF SpacesSound
        <2>5. QED BY <2>2, <2>3, <2>4
    <1>5. SpacesSound'
        BY <1>4 DEF SpacesSound, recordVars
    <1>6. LifeSound'
        BY DEF RecordsInv, LifeSound, Committed, Started, recordVars
    <1>7. QED BY <1>3, <1>5, <1>6 DEF RecordsInv

(* An intent that cannot be recorded keeps the invariant. *)
LEMMA UnrecordedKeeps ==
    ASSUME RecordsInv, NEW t \in Terminals, DeleteUnrecorded(t)
    PROVE  RecordsInv'
    <1>1. TypeOK'
        BY TypeDeleteUnrecorded DEF RecordsInv
    <1>2. QED BY <1>1, FailureKeeps DEF DeleteUnrecorded, worldVars

(* removeRecord keeps the invariant. *)
LEMMA DeleteRemoveKeeps ==
    ASSUME RecordsInv, NEW t \in Terminals, DeleteRemove(t)
    PROVE  RecordsInv'
    <1>1. /\ TypeOK /\ InStep(t) /\ SpacesSound
          /\ (rows[t] # None => Committed(t))
          /\ (t \in settling => create[t].pc \in {"launching", "verifying"})
          /\ (rows[t] = None => view[t] = None)
        BY DEF RecordsInv, LifeSound, InStep
    <1>2. TypeOK'
        BY <1>1, TypeDeleteRemove
    <1>3. UNCHANGED <<pass, session, create, spaces, deleting>>
        BY DEF DeleteRemove
    <1>4. CASE RemoveRecord(t) /\ UNCHANGED spaceDelete
        <2>1. /\ settling' = settling \ {t}
              /\ rows' = [rows EXCEPT ![t] = None] /\ view' = [view EXCEPT ![t] = None]
              /\ status' = [status EXCEPT ![t] = None]
            BY <1>1, <1>4, RemoveFacts
        <2>2. /\ rows'[t] = None /\ view'[t] = None /\ status'[t] = None
              /\ \A u \in Terminals \ {t} :
                    rows'[u] = rows[u] /\ view'[u] = view[u] /\ status'[u] = status[u]
            BY <1>1, <2>1 DEF TypeOK
        <2>3. Edited(t)
            BY <1>1, <2>2 DEF Edited, Committed
        <2>4. QED BY <1>2, <1>3, <1>4, <2>1, <2>2, <2>3, EditKeeps DEF Committed, Started
    <1>5. CASE CountFailure(t, delete[t].bySpace) /\ UNCHANGED recordVars
        <2>1. delete[t].bySpace \in BOOLEAN
            BY <1>1 DEF TypeOK
        <2>2. QED BY <1>2, <1>3, <1>5, <2>1, FailureKeeps
    <1>6. QED BY <1>4, <1>5 DEF DeleteRemove

(* The steps of spaces: the mark and the count go up together. *)
LEMMA SpaceKeeps ==
    ASSUME RecordsInv, NEW s \in Spaces,
           \/ CreateSpace(s) \/ DeleteSpace(s) \/ SpaceDeleted(s)
           \/ \E t \in Terminals : SpaceTerminalGone(s, t)
    PROVE  RecordsInv'
    <1>1. TypeOK /\ SpacesSound /\ \A t \in Terminals : InStep(t)
        BY DEF RecordsInv
    <1>2. TypeOK'
        BY <1>1, TypeCreateSpace, TypeDeleteSpace, TypeSpaceDeleted, TypeSpaceTerminalGone
    <1>3. UNCHANGED <<recordVars, session, create, pass>>
        BY DEF CreateSpace, DeleteSpace, SpaceDeleted, SpaceTerminalGone, worldVars
    <1>4. PassSound' /\ StatusSound' /\ \A t \in Terminals : InStep(t)'
        <2>1. \A t \in Terminals : Edited(t) /\ GoesForward(t)
            BY <1>3
               DEF RecordsInv, LifeSound, Edited, GoesForward, Committed, Started, recordVars
        <2>2. QED BY <1>2, <1>3, <2>1, RecordsKept
    <1>5. LifeSound'
        BY <1>3 DEF RecordsInv, LifeSound, Committed, Started, recordVars
    <1>6. SpacesSound'
        <2>1. spaceDelete \in [Spaces -> [on : BOOLEAN, todo : SUBSET Terminals,
                                          failed : BOOLEAN]]
              /\ UNCHANGED <<rows, view>>
            BY <1>1, <1>3 DEF TypeOK, recordVars
        <2>2. CASE CreateSpace(s)
            BY <1>1, <2>1, <2>2 DEF CreateSpace, SpacesSound
        <2>3. CASE DeleteSpace(s)
            <3>1. /\ deleting' = deleting \cup {s}
                  /\ spaceDelete' = [spaceDelete EXCEPT ![s] =
                        [on |-> TRUE, failed |-> FALSE,
                         todo |-> {t \in Terminals : view[t] # None /\ view[t].space = s}]]
                BY <2>3 DEF DeleteSpace
            <3>2. \A t \in Terminals : rows[t] # None =>
                     view[t] # None /\ view[t].space = rows[t].space
                BY <1>1 DEF InStep
            <3>3. QED BY <1>1, <2>1, <3>1, <3>2 DEF SpacesSound
        <2>4. CASE SpaceDeleted(s)
            <3>1. /\ spaceDelete' = [spaceDelete EXCEPT ![s] = NoSpaceDelete]
                  /\ deleting \ {s} \subseteq deleting'
                BY <2>4 DEF SpaceDeleted
            <3>2. QED BY <1>1, <2>1, <3>1 DEF SpacesSound, NoSpaceDelete
        <2>5. ASSUME NEW t \in Terminals, SpaceTerminalGone(s, t)
              PROVE  SpacesSound'
            <3>1. /\ spaceDelete' = [spaceDelete EXCEPT ![s] =
                                        [spaceDelete[s] EXCEPT !.todo = @ \ {t}]]
                  /\ rows[t] = None /\ deleting' = deleting
                BY <2>5 DEF SpaceTerminalGone
            <3>2. ASSUME NEW x \in Spaces
                  PROVE  /\ spaceDelete'[x].on = spaceDelete[x].on
                         /\ spaceDelete'[x].failed = spaceDelete[x].failed
                         /\ spaceDelete[x].todo \ {t} \subseteq spaceDelete'[x].todo
                BY <2>1, <3>1
            <3>3. QED BY <1>1, <2>1, <3>1, <3>2 DEF SpacesSound
        <2>6. QED BY <2>2, <2>3, <2>4, <2>5
    <1>7. QED BY <1>2, <1>4, <1>5, <1>6 DEF RecordsInv

-----------------------------------------------------------------------------
(* The pass.                                                               *)

(* A pass step that does not touch the records, outside the decided phase. *)
LEMMA PassMoves ==
    ASSUME RecordsInv, TypeOK', pass.phase # "decided", pass'.phase # "decided",
           UNCHANGED <<recordVars, spaceVars, create>>,
           \A t \in Terminals : session'[t] # "absent" => session[t] # "absent",
           \A t \in pass'.listed : t \in pass.listed \/ session[t] # "absent",
           pass'.orphans \subseteq pass.orphans
    PROVE  RecordsInv'
    <1>1. LifeSound'
        BY DEF RecordsInv, LifeSound, Committed, Started, recordVars
    <1>2. StatusSound' /\ SpacesSound'
        BY DEF RecordsInv, StatusSound, SpacesSound, recordVars, spaceVars
    <1>3. \A t \in Terminals : InStep(t)'
        BY DEF RecordsInv, InStep, recordVars
    <1>4. PassSound'
        <2>1. \A t \in pass'.listed : Started(t)'
            BY DEF RecordsInv, PassSound, LifeSound, Started, TypeOK
        <2>2. \A t \in pass'.orphans : Started(t)' /\ rows'[t] = None
            BY DEF RecordsInv, PassSound, Started, recordVars
        <2>3. QED BY <2>1, <2>2 DEF PassSound
    <1>5. QED BY <1>1, <1>2, <1>3, <1>4 DEF RecordsInv

(* The inventory of a pass keeps the invariant. *)
LEMMA InventoryKeeps ==
    ASSUME RecordsInv, NEW reap \in BOOLEAN, PassInventory(reap)
    PROVE  RecordsInv'
    <1>1. TypeOK'
        BY TypePassInventory DEF RecordsInv
    <1>2. PICK complete \in BOOLEAN :
             pass' = [NoPass EXCEPT
                !.phase = "listed", !.reap = reap, !.complete = complete,
                !.listed = {t \in Terminals : complete /\ session[t] \in {"live", "hung"}},
                !.hung = {t \in Terminals : complete /\ session[t] = "hung"}]
        BY DEF PassInventory
    <1>3. /\ pass.phase = "idle" /\ pass'.phase = "listed" /\ pass'.orphans = {}
          /\ \A t \in pass'.listed : session[t] # "absent"
        BY <1>2 DEF PassInventory, NoPass
    <1>4. UNCHANGED <<recordVars, spaceVars, create, session>>
        BY DEF PassInventory, worldVars
    <1>5. QED BY <1>1, <1>3, <1>4, PassMoves

(* The kill of an orphan keeps the invariant. *)
LEMMA ReapKeeps ==
    ASSUME RecordsInv, NEW t \in Terminals, PassReap(t)
    PROVE  RecordsInv'
    <1>1. TypeOK /\ TypeOK'
        BY TypePassReap DEF RecordsInv
    <1>2. /\ pass.phase = "reaping" /\ pass'.phase \in {"reaping", "idle"}
          /\ pass'.orphans \subseteq pass.orphans /\ pass'.listed \subseteq pass.listed
        BY <1>1 DEF PassReap, NoPass, TypeOK
    <1>3. \A u \in Terminals : session'[u] # "absent" => session[u] # "absent"
        BY <1>1 DEF PassReap, Kill, TypeOK
    <1>4. UNCHANGED <<recordVars, spaceVars, create>>
        BY DEF PassReap
    <1>5. QED BY <1>1, <1>2, <1>3, <1>4, PassMoves

(* The decisions of a pass keep the invariant. *)
LEMMA DecideKeeps ==
    ASSUME RecordsInv, PassDecide
    PROVE  RecordsInv'
    <1>1. TypeOK /\ TypeOK' /\ LifeSound /\ \A t \in Terminals : InStep(t)
        BY TypePassDecide DEF RecordsInv
    <1>2. UNCHANGED <<recordVars, spaceVars, create, session>> /\ pass.phase = "listed"
        BY DEF PassDecide, worldVars
    <1>3. \A t \in Terminals : /\ view[t] # None => rows[t] # None
                              /\ rows[t] # None => view[t] # None
        BY <1>1 DEF InStep
    <1> DEFINE candidates == {t \in Terminals : view[t] # None} \ settling
    <1>4. /\ pass'.phase = "decided" /\ pass'.listed = pass.listed
          /\ pass'.todo = {t \in candidates : Decide(t) = None}
          /\ pass'.orphans \subseteq {t \in pass.listed : Unclaimed(t)}
          /\ pass'.found = [t \in Terminals |->
               IF t \notin candidates THEN NoCandidate
               ELSE [status |-> Decide(t), absent |-> Decide(t) = None,
                     stop |-> view[t].stop, exit |-> None]]
        BY <1>1 DEF PassDecide, TypeOK
    <1>5. ASSUME NEW t \in Terminals
          PROVE  ConclusionSound(t)'
        <2>1. /\ pass'.found[t].exit = None
              /\ pass'.found[t].status = IF t \in candidates THEN Decide(t) ELSE None
              /\ t \in pass'.todo <=> t \in candidates /\ Decide(t) = None
            BY <1>4 DEF NoCandidate
        <2>2. /\ view[t].exit # None => Decide(t) = "exited"
              /\ Decide(t) = "exited" => view[t].exit # None
            BY NoneAssumption DEF Decide, Status
        <2>3. t \in candidates => view[t] # None /\ t \notin settling /\ Committed(t)
            <3>1. rows[t] # None => Committed(t)
                BY <1>1 DEF LifeSound
            <3>2. ASSUME t \in candidates
                  PROVE  view[t] # None /\ t \notin settling
                BY <3>2
            <3>3. view[t] # None => rows[t] # None
                BY <1>1 DEF InStep
            <3>4. QED BY <3>1, <3>2, <3>3
        <2>4. "exited" # None
            BY NoneAssumption DEF Status
        <2> HIDE DEF candidates
        <2>5. Considered(t)' => Committed(t)' /\ t \notin settling'
            BY <1>2, <2>1, <2>3 DEF Considered, Committed, recordVars
        <2>6. QED BY <1>2, <2>1, <2>2, <2>4, <2>5 DEF ConclusionSound, recordVars
    <1>6. PassSound'
        <2>1. \A t \in pass'.listed : Started(t)'
            BY <1>2, <1>4 DEF RecordsInv, PassSound, Started
        <2>2. ASSUME NEW t \in pass'.orphans
              PROVE  Started(t)' /\ rows'[t] = None
            <3>1. t \in pass.listed /\ view[t] = None
                BY <1>4 DEF Unclaimed
            <3>2. t \in Terminals /\ Started(t)
                BY <3>1 DEF RecordsInv, PassSound, TypeOK
            <3>3. QED BY <1>2, <1>3, <3>1, <3>2 DEF Started, recordVars
        <2>3. QED BY <1>5, <2>1, <2>2 DEF PassSound
    <1>7. LifeSound' /\ StatusSound' /\ SpacesSound' /\ \A t \in Terminals : InStep(t)'
        BY <1>1, <1>2, <1>3 DEF RecordsInv, LifeSound, StatusSound, SpacesSound, InStep,
                               Committed, Started, recordVars, spaceVars
    <1>8. QED BY <1>1, <1>6, <1>7 DEF RecordsInv

(* A report read keeps the invariant. *)
LEMMA ReadKeeps ==
    ASSUME RecordsInv, NEW t \in Terminals, PassRead(t)
    PROVE  RecordsInv'
    <1>1. TypeOK /\ TypeOK' /\ LifeSound /\ SpacesSound /\ \A u \in Terminals : InStep(u)
        BY TypePassRead DEF RecordsInv
    <1>2. UNCHANGED <<view, status, settling, spaceVars, create, session>>
          /\ pass.phase = "decided" /\ t \in pass.todo
        BY DEF PassRead, worldVars
    <1>3. PICK c \in {"exited", "missing", None}, e \in Exit \cup {None} :
             /\ pass' = [pass EXCEPT !.todo = @ \ {t}, !.found[t].status = c,
                                     !.found[t].exit = e]
             /\ c = "exited" <=> e # None
             /\ \/ rows' = rows
                \/ /\ e # None /\ rows[t] # None /\ rows[t].exit = None
                   /\ rows' = [rows EXCEPT ![t] = [rows[t] EXCEPT !.exit = e]]
             /\ e # None /\ rows[t] # None =>
                   \/ rows[t].exit # None
                   \/ rows' = [rows EXCEPT ![t] = [rows[t] EXCEPT !.exit = e]]
        <2>1. report[t] \in {"own", "kill"} => Evidence(t) \in Exit /\ Evidence(t) # None
            BY NoneAssumption DEF Evidence, Exit
        <2>2. "exited" # None /\ "missing" # None
            BY NoneAssumption DEF Status
        <2>3. CASE /\ report[t] \in {"own", "kill"}
                   /\ pass' = [pass EXCEPT !.todo = @ \ {t}, !.found[t].status = "exited",
                                           !.found[t].exit = Evidence(t)]
                   /\ rows' = IF rows[t] # None /\ rows[t].exit = None
                              THEN [rows EXCEPT ![t].exit = Evidence(t)] ELSE rows
            BY <2>1, <2>2, <2>3
        <2>4. CASE /\ pass' = [pass EXCEPT !.todo = @ \ {t}, !.found[t].status = None,
                                           !.found[t].exit = None]
                   /\ rows' = rows
            BY <2>2, <2>4
        <2>5. CASE /\ pass' = [pass EXCEPT !.todo = @ \ {t}, !.found[t].status = "missing",
                                           !.found[t].exit = None]
                   /\ rows' = rows
            BY <2>2, <2>5
        <2>6. QED BY <2>3, <2>4, <2>5 DEF PassRead
    <1>4. /\ pass'.phase = "decided" /\ pass'.listed = pass.listed
          /\ pass'.orphans = pass.orphans /\ pass'.todo = pass.todo \ {t}
          /\ pass'.found[t].status = c /\ pass'.found[t].exit = e
          /\ \A u \in Terminals \ {t} : pass'.found[u] = pass.found[u]
        BY <1>1, <1>2, <1>3 DEF TypeOK, Candidate
    <1>5. \A u \in Terminals : ConclusionSound(u)
        BY <1>2 DEF RecordsInv, PassSound
    <1>6. /\ view[t] = None <=> rows[t] = None
          /\ rows[t] # None => /\ rows[t] \in Record /\ rows[t].space = view[t].space
                               /\ rows[t].exit = None /\ view[t].exit = None
        <2>1. pass.found[t].exit = None
            BY <1>2, <1>5 DEF ConclusionSound
        <2>2. QED BY <1>1, <1>2, <1>5, <2>1 DEF ConclusionSound, TypeOK, InStep
    <1>7. /\ \A u \in Terminals \ {t} : rows'[u] = rows[u]
          /\ \/ rows'[t] = rows[t] /\ (e # None => rows[t] = None)
             \/ /\ e # None /\ rows[t] # None
                /\ rows'[t] = [rows[t] EXCEPT !.exit = e]
        BY <1>1, <1>3, <1>6 DEF TypeOK
    <1>8. /\ rows[t] # None => rows'[t] # None
          /\ rows'[t] # None => /\ rows[t] # None /\ rows'[t].space = rows[t].space
                                /\ e # None => rows'[t].exit = e
        BY <1>6, <1>7, NoneAssumption DEF Record
    <1>9. ASSUME NEW u \in Terminals
          PROVE  InStep(u)' /\ ConclusionSound(u)'
        <2>1. InStep(u) /\ ConclusionSound(u)
            BY <1>1, <1>5
        <2>2. CASE u # t
            <3>1. /\ view'[u] = view[u] /\ rows'[u] = rows[u] /\ pass'.found[u] = pass.found[u]
                  /\ u \in pass'.todo <=> u \in pass.todo
                BY <1>2, <1>4, <1>7, <2>2
            <3>2. InStep(u)'
                BY <1>2, <1>4, <2>1, <3>1 DEF InStep
            <3>3. Considered(u)' => Committed(u)' /\ u \notin settling'
                BY <1>2, <2>1, <3>1 DEF Considered, Committed, ConclusionSound
            <3>4. QED BY <2>1, <3>1, <3>2, <3>3 DEF ConclusionSound
        <2>3. CASE u = t
            <3>1. InStep(t)'
                <4>1. view'[t] = None <=> rows'[t] = None
                    BY <1>2, <1>6, <1>8
                <4>2. CASE rows'[t] = rows[t]
                    BY <1>2, <1>6, <4>1, <4>2 DEF InStep
                <4>3. CASE e # None /\ rows[t] # None /\ rows'[t] = [rows[t] EXCEPT !.exit = e]
                    BY <1>2, <1>4, <1>6, <1>8, <4>1, <4>3 DEF InStep
                <4>4. QED BY <1>7, <4>2, <4>3
            <3>2. Committed(t)' /\ t \notin settling'
                BY <1>2, <1>5 DEF ConclusionSound, Considered, Committed
            <3>3. view'[t] # None => view'[t].exit = None
                BY <1>2, <1>6
            <3>4. QED BY <1>3, <1>4, <1>8, <2>3, <3>1, <3>2, <3>3 DEF ConclusionSound
        <2>4. QED BY <2>2, <2>3
    <1>10. PassSound'
        <2>1. \A u \in pass.orphans : rows'[u] = None
            BY <1>1, <1>7, <1>8 DEF RecordsInv, PassSound, TypeOK
        <2>2. QED BY <1>2, <1>4, <1>9, <2>1 DEF RecordsInv, PassSound, Started
    <1>11. SpacesSound'
        <2>1. \A u \in Terminals :
                 \/ rows'[u] = None
                 \/ rows[u] # None /\ rows'[u].space = rows[u].space
            BY <1>7, <1>8
        <2>2. QED BY <1>2, <2>1, SpacesKept DEF spaceVars
    <1>12. LifeSound' /\ StatusSound'
        <2>1. \A u \in Terminals : rows'[u] # None => rows[u] # None
            BY <1>7, <1>8
        <2>2. QED BY <1>2, <2>1 DEF RecordsInv, LifeSound, StatusSound, Committed, Started
    <1>13. QED BY <1>1, <1>9, <1>10, <1>11, <1>12 DEF RecordsInv

(* The application of a pass keeps the invariant. *)
LEMMA ApplyKeeps ==
    ASSUME RecordsInv, PassApply
    PROVE  RecordsInv'
    <1>1. TypeOK /\ TypeOK' /\ LifeSound /\ \A t \in Terminals : InStep(t)
        BY TypePassApply DEF RecordsInv
    <1>2. UNCHANGED <<rows, settling, spaceVars, create, session>>
          /\ pass.phase = "decided"
        BY DEF PassApply, worldVars
    <1>3. /\ pass'.phase # "decided" /\ pass'.orphans \subseteq pass.orphans
          /\ pass'.listed = {}
        BY <1>1 DEF PassApply, NoPass
    <1>4. ASSUME NEW t \in Terminals
          PROVE  /\ view'[t] = None <=> rows[t] = None
                 /\ rows[t] # None => /\ rows[t].space = view'[t].space
                                      /\ rows[t].exit = view'[t].exit
                 /\ status'[t] = "exited" => view'[t].exit # None
        <2>1. /\ ConclusionSound(t) /\ InStep(t) /\ view[t] \in Record \cup {None}
              /\ (status[t] = "exited" => view[t].exit # None)
              /\ (status[t] = None <=> view[t] = None)
              /\ pass.found[t].exit \in Exit \cup {None}
            BY <1>1, <1>2 DEF RecordsInv, PassSound, StatusSound, TypeOK, Candidate
        <2>2. /\ view'[t] = IF t \notin settling /\ view[t] # None
                               /\ pass.found[t].exit # None /\ view[t].exit = None
                            THEN [view[t] EXCEPT !.exit = pass.found[t].exit] ELSE view[t]
              /\ status'[t] = IF t \notin settling /\ view[t] # None
                                 /\ pass.found[t].status # None
                              THEN pass.found[t].status ELSE status[t]
            BY DEF PassApply
        <2>3. /\ view'[t] = None <=> rows[t] = None
              /\ rows[t] # None => /\ rows[t].space = view'[t].space
                                   /\ rows[t].exit = view'[t].exit
            <3>1. CASE view'[t] = view[t]
                <4>1. pass.found[t].exit # None => t \notin settling /\
                        (rows[t] # None => rows[t].exit # None)
                    BY <2>1 DEF ConclusionSound, Considered
                <4>2. QED BY <2>1, <2>2, <3>1, <4>1 DEF InStep, Record
            <3>2. CASE /\ view[t] # None /\ pass.found[t].exit # None /\ view[t].exit = None
                       /\ view'[t] = [view[t] EXCEPT !.exit = pass.found[t].exit]
                <4>1. rows[t] # None => rows[t].exit # None
                    BY <2>1, <3>2 DEF ConclusionSound
                <4>2. /\ view'[t].space = view[t].space /\ view'[t].exit = pass.found[t].exit
                      /\ view'[t] # None
                    BY <2>1, <3>2, NoneAssumption DEF Record
                <4>3. QED BY <2>1, <3>2, <4>1, <4>2 DEF InStep
            <3>3. QED BY <2>2, <3>1, <3>2
        <2>4. view[t] # None /\ view[t].exit # None => view'[t].exit # None
            BY <2>2
        <2>5. ASSUME status'[t] = "exited"
              PROVE  view'[t].exit # None
            <3>1. "exited" # None
                BY NoneAssumption DEF Status
            <3>2. view[t] # None
                BY <2>1, <2>2, <2>5, <3>1
            <3>3. CASE status[t] = "exited"
                BY <2>1, <2>4, <3>2, <3>3
            <3>4. CASE status[t] # "exited"
                <4>1. t \notin settling /\ pass.found[t].status = "exited"
                    BY <2>2, <2>5, <3>4
                <4>2. view[t].exit # None \/ pass.found[t].exit # None
                    BY <2>1, <3>2, <4>1 DEF ConclusionSound
                <4>3. QED BY <2>1, <2>2, <2>4, <3>2, <4>1, <4>2 DEF Record
            <3>5. QED BY <3>3, <3>4
        <2>6. QED BY <2>3, <2>5
    <1>5. (\A t \in Terminals : InStep(t)') /\ StatusSound'
        BY <1>2, <1>4 DEF InStep, StatusSound
    <1>6. PassSound'
        BY <1>2, <1>3 DEF RecordsInv, PassSound, Started
    <1>7. LifeSound' /\ SpacesSound'
        BY <1>2 DEF RecordsInv, LifeSound, SpacesSound, Committed, Started, spaceVars
    <1>8. QED BY <1>1, <1>5, <1>6, <1>7 DEF RecordsInv

(* A restart keeps the invariant. *)
LEMMA RestartKeeps ==
    ASSUME RecordsInv, Restart
    PROVE  RecordsInv'
    <1>1. TypeOK /\ TypeOK' /\ LifeSound
        BY TypeRestart DEF RecordsInv
    <1>2. /\ view' = rows /\ rows' = rows /\ session' = session /\ settling' = {}
          /\ pass' = NoPass /\ spaceDelete' = [s \in Spaces |-> NoSpaceDelete]
        BY DEF Restart, worldVars
    <1>3. ASSUME NEW t \in Terminals
          PROVE  /\ status'[t] = "exited" => view'[t].exit # None
                 /\ create[t].pc = "unminted" => create'[t] = create[t]
                 /\ create[t].pc # "unminted" => create'[t].pc = "over"
        <2>1. "exited" # None
            BY NoneAssumption DEF Status
        <2>2. QED BY <1>2, <2>1 DEF Restart
    <1>4. StatusSound' /\ \A t \in Terminals : InStep(t)'
        BY <1>2, <1>3 DEF StatusSound, InStep
    <1>5. PassSound'
        BY <1>2 DEF PassSound, NoPass
    <1>6. LifeSound'
        BY <1>1, <1>2, <1>3 DEF LifeSound, Committed, Started
    <1>7. SpacesSound'
        BY <1>2 DEF SpacesSound, NoSpaceDelete
    <1>8. QED BY <1>1, <1>4, <1>5, <1>6, <1>7 DEF RecordsInv

-----------------------------------------------------------------------------
(* The theorems.                                                           *)

(* The invariant holds when the server first starts. *)
LEMMA RecordsInit ==
    ASSUME Init
    PROVE  RecordsInv
    <1>1. TypeOK
        <2>1. NoPass \in [phase : {"idle", "listed", "decided", "reaping"},
                          reap : BOOLEAN, complete : BOOLEAN,
                          listed : SUBSET Terminals, hung : SUBSET Terminals,
                          todo : SUBSET Terminals, orphans : SUBSET Terminals,
                          found : [Terminals -> Candidate]]
            BY DEF NoPass, NoCandidate, Candidate
        <2>2. QED BY <2>1, TerminalsAssumption
                 DEF Init, TypeOK, NoDelete, NoSpaceDelete, SessionState
    <1>2. LifeSound /\ PassSound /\ StatusSound /\ SpacesSound
        <2>1. "exited" # None
            BY NoneAssumption DEF Status
        <2>2. QED BY <2>1 DEF Init, LifeSound, PassSound, StatusSound, SpacesSound, NoPass,
                              NoSpaceDelete
    <1>3. \A t \in Terminals : InStep(t)
        BY DEF Init, InStep
    <1>4. QED BY <1>1, <1>2, <1>3 DEF RecordsInv

(* Every step keeps the invariant. *)
LEMMA RecordsNext ==
    ASSUME RecordsInv, [Next]_vars
    PROVE  RecordsInv'
    <1>1. CASE UNCHANGED vars
        <2>1. TypeOK'
            BY <1>1 DEF RecordsInv, TypeOK, vars
        <2>2. QED BY <1>1, <2>1
                 DEF RecordsInv, LifeSound, PassSound, StatusSound, SpacesSound, InStep,
                     ConclusionSound, Considered, Committed, Started, vars
    <1>2. CASE Next
        BY <1>2, SessionKeeps, CommitKeeps, CreateEndKeeps, UpdateKeeps, MarkKeeps,
           UnrecordedKeeps, DeleteRemoveKeeps,
           SpaceKeeps, InventoryKeeps, DecideKeeps, ReadKeeps, ApplyKeeps, ReapKeeps,
           RestartKeeps DEF Next, SpaceStep, PassStep
    <1>3. QED BY <1>1, <1>2

(* What a terminal's stop, kill and evidence are about stays as it was. *)
Untouched(t) ==
    /\ Committed(t)' <=> Committed(t)
    /\ delete'[t] = delete[t] /\ report'[t] \in {report[t], None, "started", "own"}
    /\ rows'[t] = rows[t] /\ view'[t] = view[t]

(* No decision is changed: one that stands was taken before this step. *)
Undecided ==
    /\ pass'.phase = "decided" => pass'.found = pass.found /\ pass'.phase = pass.phase
                                    /\ pass'.todo \subseteq pass.todo
    /\ history.overtaken \subseteq history'.overtaken

(* A terminal a step does not touch stays sound. *)
LEMMA UntouchedSound ==
    ASSUME NEW t \in Terminals, KillSound(t), DecisionSound(t), Untouched(t), Undecided,
           None # "kill"
    PROVE  KillSound(t)' /\ DecisionSound(t)'
    BY DEF KillSound, DecisionSound, Untouched, Undecided

(* So does one whose record is gone. *)
LEMMA RemovedSound ==
    ASSUME NEW t \in Terminals, Committed(t)', rows'[t] = None, view'[t] = None
    PROVE  KillSound(t)' /\ DecisionSound(t)'
    BY DEF KillSound, DecisionSound

(* The steps of sessions, spaces and creates that touch no stop. *)
LEMMA StopsAlone ==
    ASSUME RecordsInv, KillsSound,
           \/ \E t \in Terminals :
                 \/ SessionBorn(t) \/ SessionEnds(t) \/ SessionHangs(t)
                 \/ CreateTurnedDown(t) \/ CreateLaunched(t) \/ CreateSettles(t)
                 \/ DeleteUnrecorded(t)
                 \/ \E s \in Spaces : CreateBegin(t, s)
           \/ \E s \in Spaces : CreateSpace(s) \/ DeleteSpace(s) \/ SpaceStep(s)
           \/ \E reap \in BOOLEAN : PassInventory(reap)
    PROVE  KillsSound'
    <1>1. TypeOK /\ None # "kill"
        BY NoneAssumption DEF RecordsInv, Exit
    <1>2. UNCHANGED <<rows, view, delete>> /\ history.overtaken \subseteq history'.overtaken
        <2>1. UNCHANGED <<rows, view, delete>>
            BY DEF SessionBorn, SessionEnds, SessionHangs, CreateTurnedDown, CreateLaunched,
                CreateSettles, DeleteUnrecorded, CreateBegin, CreateSpace, DeleteSpace,
                SpaceStep, SpaceDeleted, SpaceTerminalGone, PassInventory, recordVars
        <2>2. history'.overtaken = history.overtaken
            <3>1. \/ history' = history
                  \/ \E t \in Terminals :
                        history' = [history EXCEPT !.verified = @ \cup {t}]
                BY DEF SessionBorn, SessionEnds, SessionHangs, CreateTurnedDown,
                    CreateLaunched, CreateSettles, DeleteUnrecorded, CreateBegin,
                    CreateSpace, DeleteSpace, SpaceStep, SpaceDeleted, SpaceTerminalGone,
                    PassInventory
            <3>2. QED BY <1>1, <3>1 DEF TypeOK
        <2>3. QED BY <2>1, <2>2
    <1>3. pass' = pass \/ pass'.phase = "listed"
        BY DEF SessionBorn, SessionEnds, SessionHangs, CreateTurnedDown, CreateLaunched,
            CreateSettles, DeleteUnrecorded, CreateBegin, CreateSpace, DeleteSpace, SpaceStep,
            SpaceDeleted, SpaceTerminalGone, PassInventory, NoPass
    <1>4. ASSUME NEW u \in Terminals
          PROVE  Untouched(u)
        <2>1. report'[u] \in {report[u], "started", "own"}
            <3>1. \/ report' = report
                  \/ \E t \in Terminals, r \in {"started", "own"} :
                        report' = [report EXCEPT ![t] = r]
                <4>1. ASSUME NEW t \in Terminals, SessionBorn(t) \/ SessionEnds(t)
                      PROVE  \/ report' = report
                             \/ \E r \in {"started", "own"} : report' = [report EXCEPT ![t] = r]
                    <5>1. report = [report EXCEPT ![t] = report[t]]
                        BY <1>1 DEF TypeOK
                    <5>2. \E r \in {"started", "own", report[t]} :
                             report' = [report EXCEPT ![t] = r]
                        BY <4>1 DEF SessionBorn, SessionEnds
                    <5>3. QED BY <5>1, <5>2
                <4>2. CASE report' = report
                    BY <4>2
                <4>3. QED BY <4>1, <4>2
                         DEF SessionHangs, CreateTurnedDown, CreateLaunched, CreateSettles,
                             DeleteUnrecorded, CreateBegin, CreateSpace, DeleteSpace, SpaceStep,
                             SpaceDeleted, SpaceTerminalGone, PassInventory, worldVars
            <3>2. QED BY <1>1, <3>1 DEF TypeOK
        <2>2. Committed(u)' <=> Committed(u)
            <3>1. ASSUME NEW t \in Terminals, CreateLaunched(t) \/ CreateSettles(t)
                  PROVE  Committed(u)' <=> Committed(u)
                <4>1. create[t].pc \in {"launching", "verifying"}
                    BY <3>1 DEF CreateLaunched, CreateSettles
                <4>2. \E pc \in {"verifying", "over"} : create' = [create EXCEPT ![t].pc = pc]
                    BY <3>1 DEF CreateLaunched, CreateSettles
                <4>3. create'[u].pc = create[u].pc \/ (u = t /\ create'[u].pc \in {"verifying", "over"})
                    BY <1>1, <4>2 DEF TypeOK
                <4>4. QED BY <4>1, <4>3 DEF Committed
            <3>2. ASSUME NEW t \in Terminals, \/ CreateTurnedDown(t)
                                              \/ \E s \in Spaces : CreateBegin(t, s)
                  PROVE  Committed(u)' <=> Committed(u)
                <4>1. /\ create[t].pc \in {"unminted", "preparing"}
                      /\ \E r : create' = [create EXCEPT ![t] = r]
                            /\ r.pc \in {"unminted", "preparing"}
                    BY <3>2 DEF CreateTurnedDown, CreateBegin
                <4>2. QED BY <1>1, <4>1 DEF Committed, TypeOK
            <3>3. CASE create' = create
                BY <3>3 DEF Committed
            <3>4. create' = create \/ \E t \in Terminals :
                     \/ CreateTurnedDown(t) \/ CreateLaunched(t) \/ CreateSettles(t)
                     \/ \E s \in Spaces : CreateBegin(t, s)
                BY DEF SessionBorn, SessionEnds, SessionHangs, DeleteUnrecorded, CreateSpace,
                       DeleteSpace, SpaceStep, SpaceDeleted, SpaceTerminalGone, PassInventory
            <3>5. QED BY <3>1, <3>2, <3>3, <3>4
        <2>3. QED BY <1>2, <2>1, <2>2 DEF Untouched
    <1>5. Undecided
        BY <1>2, <1>3 DEF Undecided
    <1>6. QED BY <1>1, <1>4, <1>5, UntouchedSound DEF KillsSound

(* The insert of a record: nothing was asked of it or told of it yet. *)
LEMMA StopsCommit ==
    ASSUME RecordsInv, KillsSound, NEW t \in Terminals, CreateCommit(t)
    PROVE  KillsSound'
    <1>1. TypeOK /\ None # "kill"
        BY NoneAssumption DEF RecordsInv, Exit
    <1>2. /\ create[t].pc = "preparing" /\ create' = [create EXCEPT ![t].pc = "launching"]
          /\ rows' = [rows EXCEPT ![t] = NewRecord(create[t].space)]
          /\ view' = [view EXCEPT ![t] = NewRecord(create[t].space)]
          /\ report' = [report EXCEPT ![t] = None]
          /\ UNCHANGED <<delete, pass, history>>
        BY DEF CreateCommit, bounds
    <1>3. ASSUME NEW u \in Terminals
          PROVE  KillSound(u)' /\ DecisionSound(u)'
        <2>1. CASE u # t
            <3>1. Untouched(u) /\ Undecided
                BY <1>1, <1>2, <2>1 DEF Untouched, Undecided, Committed, TypeOK
            <3>2. QED BY <1>1, <3>1, UntouchedSound DEF KillsSound
        <2>2. CASE u = t
            <3>1. /\ rows'[t] = NewRecord(create[t].space) /\ view'[t] = rows'[t]
                  /\ report'[t] = None
                BY <1>1, <1>2 DEF TypeOK
            <3>2. delete'[t].pc = "none" /\ Committed(t)'
                <4>1. create'[t].pc = "launching"
                    BY <1>1, <1>2 DEF TypeOK
                <4>2. ~Committed(t) /\ Committed(t)'
                    BY <1>2, <4>1 DEF Committed
                <4>3. delete[t].pc = "none"
                    BY <4>2 DEF KillsSound, KillSound
                <4>4. QED BY <1>2, <4>2, <4>3
            <3>3. rows'[t].stop = FALSE /\ rows'[t].exit = None
                BY <3>1 DEF NewRecord
            <3>4. QED BY <1>1, <2>2, <3>1, <3>2, <3>3 DEF KillSound, DecisionSound
        <2>3. QED BY <2>1, <2>2
    <1>4. QED BY <1>3 DEF KillsSound

(* A removal, by a delete or by a create whose session never ran. *)
LEMMA StopsRemove ==
    ASSUME RecordsInv, KillsSound, NEW t \in Terminals, CreateRefused(t) \/ DeleteRemove(t)
    PROVE  KillsSound'
    <1>1. TypeOK /\ None # "kill" /\ InStep(t)
        BY NoneAssumption DEF RecordsInv, Exit
    <1>2. /\ UNCHANGED <<pass, history>>
          /\ \/ create' = create
             \/ create[t].pc = "launching" /\ create' = [create EXCEPT ![t].pc = "over"]
          /\ delete' = delete \/ delete' = [delete EXCEPT ![t] = NoDelete]
        BY DEF CreateRefused, DeleteRemove
    <1>3. \A u \in Terminals : Committed(u)' <=> Committed(u)
        BY <1>1, <1>2 DEF Committed, TypeOK
    <1>4. Undecided
        BY <1>2 DEF Undecided
    <1>5. CASE UNCHANGED <<rows, view, report>>
        <2>1. ASSUME NEW u \in Terminals
              PROVE  KillSound(u)' /\ DecisionSound(u)'
            <3>1. CASE delete'[u] = delete[u]
                BY <1>1, <1>3, <1>4, <1>5, <3>1, UntouchedSound DEF Untouched, KillsSound
            <3>2. CASE delete'[u] # delete[u]
                <4>1. u = t /\ delete'[u].pc = "none" /\ DeleteRemove(t)
                    BY <1>1, <1>2, <3>2 DEF NoDelete, TypeOK, CreateRefused
                <4>2. delete[u].pc = "remove"
                    BY <4>1 DEF DeleteRemove
                <4>3. QED BY <1>2, <1>3, <1>5, <4>1, <4>2
                         DEF KillsSound, KillSound, DecisionSound
            <3>3. QED BY <3>1, <3>2
        <2>2. QED BY <2>1 DEF KillsSound
    <1>6. CASE rows[t] # None /\ RemoveRecord(t)
        <2>1. /\ rows' = [rows EXCEPT ![t] = None] /\ view' = [view EXCEPT ![t] = None]
              /\ report' = [report EXCEPT ![t] = None] /\ Committed(t)
            BY <1>6 DEF RemoveRecord, RecordsInv, LifeSound
        <2>2. ASSUME NEW u \in Terminals
              PROVE  KillSound(u)' /\ DecisionSound(u)'
            <3>1. CASE u = t
                BY <1>1, <1>3, <2>1, <3>1, RemovedSound DEF TypeOK
            <3>2. CASE u # t
                <4>1. Untouched(u)
                    BY <1>1, <1>2, <1>3, <2>1, <3>2 DEF Untouched, TypeOK
                <4>2. QED BY <1>1, <1>4, <4>1, UntouchedSound DEF KillsSound
            <3>3. QED BY <3>1, <3>2
        <2>3. QED BY <2>2 DEF KillsSound
    <1>7. QED BY <1>5, <1>6 DEF CreateRefused, DeleteRemove, RemoveRecord, recordVars

(* A move, the intent to delete, its mark and its kill. *)
LEMMA StopsEdit ==
    ASSUME RecordsInv, KillsSound, NEW t \in Terminals,
           \/ \E s \in Spaces : Update(t, s)
           \/ \E bySpace \in BOOLEAN : DeleteIntent(t, bySpace)
           \/ DeleteMark(t) \/ DeleteKill(t)
    PROVE  KillsSound'
    <1>1. /\ TypeOK /\ None # "kill" /\ InStep(t) /\ (rows[t] # None => Committed(t))
          /\ KillSound(t) /\ DecisionSound(t)
          /\ view[t] \in Record \cup {None} /\ rows[t] \in Record \cup {None}
        BY NoneAssumption DEF RecordsInv, Exit, LifeSound, TypeOK, KillsSound
    <1>2. UNCHANGED <<create, pass>> /\ history.overtaken \subseteq history'.overtaken
        BY <1>1 DEF Update, DeleteIntent, DeleteMark, DeleteKill, TypeOK
    <1>3. \A u \in Terminals \ {t} :
             /\ rows'[u] = rows[u] /\ view'[u] = view[u] /\ delete'[u] = delete[u]
             /\ report'[u] = report[u]
        BY <1>1 DEF Update, DeleteIntent, DeleteMark, DeleteKill, Kill, worldVars,
                    recordVars, TypeOK
    <1>4. ASSUME NEW u \in Terminals \ {t}
          PROVE  KillSound(u)' /\ DecisionSound(u)'
        <2>1. Untouched(u) /\ Undecided
            BY <1>2, <1>3 DEF Untouched, Undecided, Committed
        <2>2. QED BY <1>1, <2>1, UntouchedSound DEF KillsSound
    <1>5. KillSound(t)' /\ DecisionSound(t)'
        <2>1. ASSUME NEW s \in Spaces, Update(t, s)
              PROVE  KillSound(t)' /\ DecisionSound(t)'
            <3>1. /\ rows[t] \in Record /\ view[t] \in Record
                  /\ rows'[t] = [rows[t] EXCEPT !.space = s]
                  /\ view'[t] = [view[t] EXCEPT !.space = s]
                  /\ UNCHANGED <<delete, report, history>>
                BY <1>1, <2>1 DEF Update, TypeOK, InStep, worldVars
            <3>2. /\ rows'[t].stop = rows[t].stop /\ view'[t].stop = view[t].stop
                  /\ rows'[t].exit = rows[t].exit /\ rows[t] # None /\ view[t] # None
                BY <1>1, <2>1, <3>1, NoneAssumption DEF Record
            <3>3. QED BY <1>1, <1>2, <3>1, <3>2 DEF KillSound, DecisionSound, Committed
        <2>2. ASSUME NEW bySpace \in BOOLEAN, DeleteIntent(t, bySpace)
              PROVE  KillSound(t)' /\ DecisionSound(t)'
            <3>1. /\ rows[t] \in Record /\ rows'[t] = [rows[t] EXCEPT !.stop = TRUE]
                  /\ delete'[t].pc = "mark" /\ UNCHANGED <<view, report, history>>
                  /\ delete[t].pc = "none" /\ rows[t] # None
                BY <1>1, <2>2 DEF DeleteIntent, TypeOK, NoDelete, worldVars
            <3>2. rows'[t].stop = TRUE /\ rows'[t].exit = rows[t].exit
                BY <3>1 DEF Record
            <3>3. QED BY <1>1, <1>2, <3>1, <3>2 DEF KillSound, DecisionSound, Committed
        <2>3. CASE DeleteMark(t)
            <3>1. /\ delete[t].pc = "mark" /\ delete'[t].pc = "kill"
                  /\ UNCHANGED <<rows, report>>
                  /\ pass.phase = "decided" => t \in history'.overtaken
                BY <1>1, <2>3 DEF DeleteMark, TypeOK, worldVars
            <3>2. CASE view[t] = None
                BY <1>1, <1>2, <2>3, <3>1, <3>2 DEF DeleteMark, KillSound, DecisionSound,
                                                   Committed, InStep
            <3>3. CASE view[t] # None
                <4>1. view'[t] = [view[t] EXCEPT !.stop = TRUE] /\ view[t] \in Record
                    BY <1>1, <2>3, <3>3 DEF DeleteMark, TypeOK
                <4>2. view'[t].stop = TRUE
                    BY <4>1 DEF Record
                <4>3. rows[t].stop = TRUE
                    BY <1>1, <3>1, <3>3 DEF KillSound, InStep, Record
                <4>4. QED BY <1>1, <1>2, <3>1, <3>3, <4>2, <4>3
                         DEF KillSound, DecisionSound, Committed
            <3>4. QED BY <3>2, <3>3
        <2>4. CASE DeleteKill(t)
            <3>1. /\ delete[t].pc = "kill" /\ delete'[t].pc = "remove"
                  /\ UNCHANGED <<rows, view, history>>
                BY <1>1, <2>4 DEF DeleteKill, recordVars, TypeOK
            <3>2. QED BY <1>1, <1>2, <3>1 DEF KillSound, DecisionSound, Committed
        <2>5. QED BY <2>1, <2>2, <2>3, <2>4
    <1>6. QED BY <1>4, <1>5 DEF KillsSound

(* The steps of a pass, and a restart. *)
LEMMA StopsPass ==
    ASSUME RecordsInv, KillsSound,
           PassDecide \/ PassApply \/ Restart \/ \E t \in Terminals : PassReap(t)
    PROVE  KillsSound'
    <1>1. /\ TypeOK /\ None # "kill"
          /\ \A t \in Terminals : /\ InStep(t) /\ (rows[t] # None => Committed(t))
                                  /\ KillSound(t) /\ DecisionSound(t)
                                  /\ view[t] \in Record \cup {None}
                                  /\ pass.found[t] \in Candidate
        BY NoneAssumption DEF RecordsInv, Exit, LifeSound, TypeOK, KillsSound
    <1>2. UNCHANGED <<rows, history>>
        BY DEF PassDecide, PassApply, Restart, PassReap, recordVars
    <1>3. CASE PassDecide
        <2>1. UNCHANGED <<view, create, delete, report>>
            BY <1>3 DEF PassDecide, recordVars, worldVars
        <2>2. \A t \in pass'.todo : view[t] # None /\ pass'.found[t].stop = view[t].stop
            BY <1>1, <1>3 DEF PassDecide, TypeOK
        <2>3. QED BY <1>1, <1>2, <2>1, <2>2 DEF KillsSound, KillSound, DecisionSound, Committed
    <1>4. CASE PassApply
        <2>1. UNCHANGED <<create, delete, report>> /\ pass'.phase # "decided"
            BY <1>4 DEF PassApply, worldVars, NoPass
        <2>2. ASSUME NEW t \in Terminals
              PROVE  view'[t] # None => view[t] # None /\ view'[t].stop = view[t].stop
            <3>1. \/ view'[t] = view[t]
                  \/ view[t] # None /\ view'[t] = [view[t] EXCEPT !.exit = pass.found[t].exit]
                BY <1>4 DEF PassApply
            <3>2. QED BY <1>1, <3>1 DEF Record
        <2>3. QED BY <1>1, <1>2, <2>1, <2>2 DEF KillsSound, KillSound, DecisionSound, Committed
    <1>5. CASE Restart
        <2>1. /\ view' = rows /\ report' = report /\ pass'.phase = "idle"
              /\ \A t \in Terminals : delete'[t].pc = "none" /\ (Committed(t) => Committed(t)')
            <3>1. view' = rows /\ report' = report /\ pass'.phase = "idle"
                BY <1>5 DEF Restart, worldVars, NoPass
            <3>2. ASSUME NEW t \in Terminals
                  PROVE  delete'[t].pc = "none"
                BY <1>5 DEF Restart, NoDelete
            <3>3. ASSUME NEW t \in Terminals
                  PROVE  Committed(t) => Committed(t)'
                <4>1. create'[t] = IF create[t].pc = "unminted" THEN create[t]
                                      ELSE [pc |-> "over", space |-> None]
                    BY <1>1, <1>5 DEF Restart, TypeOK
                <4>2. QED BY <4>1 DEF Committed
            <3>4. QED BY <3>1, <3>2, <3>3
        <2>2. QED BY <1>1, <1>2, <2>1 DEF KillsSound, KillSound, DecisionSound, InStep
    <1>6. ASSUME NEW t \in Terminals, PassReap(t)
          PROVE  KillsSound'
        <2>1. UNCHANGED <<view, create, delete>> /\ pass'.phase # "decided"
              /\ rows[t] = None /\ Committed(t)
            BY <1>1, <1>6 DEF PassReap, recordVars, NoPass, RecordsInv, PassSound, TypeOK,
                             Started, Committed
        <2>2. \A u \in Terminals \ {t} : report'[u] = report[u]
            BY <1>1, <1>6 DEF PassReap, Kill, TypeOK
        <2>3. QED BY <1>1, <1>2, <2>1, <2>2
                 DEF KillsSound, KillSound, DecisionSound, Committed, InStep
    <1>7. QED BY <1>3, <1>4, <1>5, <1>6

(* A report read: the code of a kill is recorded only if it overtook the pass. *)
LEMMA StopsRead ==
    ASSUME RecordsInv, KillsSound, NEW t \in Terminals, PassRead(t)
    PROVE  KillsSound'
    <1>1. /\ TypeOK /\ None # "kill" /\ InStep(t) /\ KillSound(t) /\ DecisionSound(t)
          /\ rows[t] \in Record \cup {None} /\ pass.found \in [Terminals -> Candidate]
        BY NoneAssumption DEF RecordsInv, Exit, TypeOK, KillsSound
    <1>2. UNCHANGED <<view, create, delete, report, history>>
          /\ pass.phase = "decided" /\ t \in pass.todo
        BY DEF PassRead, worldVars
    <1>3. /\ pass'.todo = pass.todo \ {t}
          /\ \A u \in Terminals \ {t} : pass'.found[u] = pass.found[u] /\ rows'[u] = rows[u]
        <2>1. /\ \E c, e : pass' = [pass EXCEPT !.todo = @ \ {t}, !.found[t].status = c,
                                               !.found[t].exit = e]
              /\ rows' = rows \/ \E r : rows' = [rows EXCEPT ![t] = r]
            BY DEF PassRead
        <2>2. QED BY <1>1, <2>1 DEF TypeOK
    <1>4. \/ rows'[t] = rows[t]
          \/ /\ rows[t] # None /\ report[t] \in {"own", "kill"}
             /\ rows'[t] = [rows[t] EXCEPT !.exit = Evidence(t)]
        BY <1>1 DEF PassRead, TypeOK
    <1>5. KillSound(t)' /\ DecisionSound(t)'
        <2>1. CASE rows'[t] = rows[t]
            BY <1>1, <1>2, <1>3, <2>1 DEF KillSound, DecisionSound, Committed
        <2>2. CASE /\ rows[t] # None /\ report[t] \in {"own", "kill"}
                   /\ rows'[t] = [rows[t] EXCEPT !.exit = Evidence(t)]
            <3>1. rows'[t].stop = rows[t].stop /\ rows'[t].exit = Evidence(t)
                BY <1>1, <2>2 DEF Record
            <3>2. Evidence(t) = "kill" => report[t] = "kill" /\ ~pass.found[t].stop
                BY DEF Evidence
            <3>3. view[t] # None
                BY <1>1, <2>2 DEF InStep
            <3>4. Evidence(t) = "kill" => t \in history.overtaken
                BY <1>1, <1>2, <3>2, <3>3 DEF KillSound, DecisionSound
            <3>5. QED BY <1>1, <1>2, <1>3, <2>2, <3>1, <3>3, <3>4
                     DEF KillSound, DecisionSound, Committed
        <2>3. QED BY <1>4, <2>1, <2>2
    <1>6. ASSUME NEW u \in Terminals \ {t}
          PROVE  KillSound(u)' /\ DecisionSound(u)'
        BY <1>1, <1>2, <1>3 DEF KillsSound, KillSound, DecisionSound, Committed, TypeOK
    <1>7. QED BY <1>5, <1>6 DEF KillsSound

(* Every step keeps it. *)
LEMMA KillsNext ==
    ASSUME RecordsInv, KillsSound, [Next]_vars
    PROVE  KillsSound'
    <1>1. CASE UNCHANGED vars
        BY <1>1 DEF KillsSound, KillSound, DecisionSound, Committed, vars
    <1>2. CASE Next
        BY <1>2, StopsAlone, StopsCommit, StopsRemove, StopsEdit, StopsPass, StopsRead
           DEF Next, PassStep
    <1>3. QED BY <1>1, <1>2

(***************************************************************************)
(* The view and the rows stay in step but for what the database has first, *)
(* the code of a kill is recorded only if its delete overtook the pass,    *)
(* and the deletion of a space is never blocked by a terminal that slipped *)
(* in (commitCreate, Update, Delete, reconcile, removeRecord,              *)
(* DeleteSpace), whatever fails and whenever the server stops.             *)
(***************************************************************************)
THEOREM InStepAlways == Spec => []RecordsInStep
    <1>1. Init => RecordsInv /\ KillsSound
        <2>1. ASSUME Init
              PROVE  KillsSound
            <3>1. None # "kill"
                BY NoneAssumption DEF Exit
            <3>2. QED BY <2>1, <3>1 DEF Init, KillsSound, KillSound, DecisionSound, NoDelete
        <2>2. QED BY <2>1, RecordsInit
    <1>2. RecordsInv /\ KillsSound /\ [Next]_vars => RecordsInv' /\ KillsSound'
        BY RecordsNext, KillsNext
    <1>3. RecordsInv /\ KillsSound => RecordsInStep
        <2>1. ASSUME RecordsInv, KillsSound
              PROVE  ViewMatchesRows /\ SpaceDeleteUnblocked /\ KillCodeSuppressed
            BY <2>1 DEF RecordsInv, InStep, SpacesSound, ViewMatchesRows, KillsSound,
                        KillSound, DecisionSound, KillCodeSuppressed, SpaceDeleteUnblocked
        <2>2. QED BY <2>1 DEF RecordsInv, RecordsInStep
    <1>4. QED BY <1>1, <1>2, <1>3, PTL DEF Spec

(* An exited status goes only with its record. *)
LEMMA ExitedStays ==
    ASSUME RecordsInv, [Next]_vars, NEW t \in Terminals, status[t] = "exited"
    PROVE  status'[t] \in {"exited", None}
    <1>1. /\ TypeOK /\ InStep(t) /\ view[t] # None /\ view[t].exit # None
          /\ (rows[t] # None => Committed(t))
        <2>1. "exited" # None
            BY NoneAssumption DEF Status
        <2>2. QED BY <2>1 DEF RecordsInv, StatusSound, TypeOK, LifeSound
    <1>2. CASE UNCHANGED status
        BY <1>2
    <1>3. ASSUME NEW u \in Terminals, CreateCommit(u)
          PROVE  status'[t] \in {"exited", None}
        <2>1. u # t
            BY <1>1, <1>3 DEF CreateCommit, Committed, InStep
        <2>2. QED BY <1>1, <1>3, <2>1 DEF CreateCommit, TypeOK
    <1>4. ASSUME NEW u \in Terminals, RemoveRecord(u)
          PROVE  status'[t] \in {"exited", None}
        BY <1>1, <1>4 DEF RemoveRecord, recordVars, TypeOK
    <1>5. CASE PassApply
        <2>1. ConclusionSound(t)
            BY <1>5 DEF PassApply, RecordsInv, PassSound
        <2>2. QED BY <1>1, <1>5, <2>1 DEF PassApply, ConclusionSound
    <1>6. CASE Restart
        <2>1. rows[t] # None /\ rows[t].exit # None
            BY <1>1 DEF InStep
        <2>2. QED BY <1>1, <1>6, <2>1 DEF Restart
    <1>7. CASE \E s \in Spaces : CreateSpace(s) \/ DeleteSpace(s) \/ SpaceStep(s)
        BY <1>2, <1>7 DEF CreateSpace, DeleteSpace, SpaceStep, SpaceDeleted,
                          SpaceTerminalGone, recordVars
    <1>8. CASE \E u \in Terminals :
                  \/ SessionBorn(u) \/ SessionEnds(u) \/ SessionHangs(u)
                  \/ CreateTurnedDown(u) \/ CreateLaunched(u) \/ CreateSettles(u)
                  \/ DeleteMark(u) \/ DeleteKill(u) \/ DeleteUnrecorded(u)
                  \/ PassRead(u) \/ PassReap(u)
                  \/ \E bySpace \in BOOLEAN : DeleteIntent(u, bySpace)
                  \/ \E s \in Spaces : CreateBegin(u, s) \/ Update(u, s)
        BY <1>2, <1>8 DEF SessionBorn, SessionEnds, SessionHangs, CreateTurnedDown,
            CreateLaunched, CreateSettles, DeleteMark, DeleteKill, DeleteUnrecorded, PassRead,
            PassReap, DeleteIntent, CreateBegin, Update, recordVars
    <1>9. CASE \E u \in Terminals : CreateRefused(u) \/ DeleteRemove(u)
        BY <1>2, <1>4, <1>9 DEF CreateRefused, DeleteRemove, recordVars
    <1>10. CASE PassDecide \/ (\E reap \in BOOLEAN : PassInventory(reap)) \/ UNCHANGED vars
        BY <1>2, <1>10 DEF PassDecide, PassInventory, recordVars, vars
    <1>11. QED BY <1>3, <1>5, <1>6, <1>7, <1>8, <1>9, <1>10 DEF Next, PassStep

(***************************************************************************)
(* A pass works from an inventory and a view that are old by the time it   *)
(* acts, and yet never takes an exit back nor kills a session that a       *)
(* record claims (reconcile), however creates, deletes and restarts fall   *)
(* between its phases.                                                     *)
(***************************************************************************)
THEOREM Advances == Spec => OnlyAdvances
    <1>1. Init => RecordsInv
        BY RecordsInit
    <1>2. RecordsInv /\ [Next]_vars => RecordsInv'
        BY RecordsNext
    <1>3. RecordsInv /\ [Next]_vars =>
             [\A t \in Terminals : status[t] = "exited" => status'[t] \in {"exited", None}]_vars
        BY ExitedStays
    <1>4. RecordsInv =>
             [\A t \in Terminals :
                 (pass.phase = "reaping" /\ t \in pass.orphans /\ session'[t] # session[t])
                 => rows[t] = None]_vars
        BY DEF RecordsInv, PassSound
    <1>5. QED BY <1>1, <1>2, <1>3, <1>4, PTL
             DEF Spec, OnlyAdvances, ExitedIsFinal, ReapsOnlyAbandoned
-----------------------------------------------------------------------------
(* The Codex observer: the inductive invariant.                            *)

(* Evidence of the connection there is that is yet to be recorded.         *)
InQueue == {queue[i] : i \in 1 .. Len(queue)}
Replies == {r.reply : r \in {q \in reads : q.conn = epoch /\ q.reply # Absent}}
Applied == IF busy = Absent THEN {} ELSE {busy.evidence}
Pending == InQueue \cup Replies \cup Applied

(* A read will be answered; the server's last word is on its way.          *)
Awaited == \E r \in reads : r.conn = epoch /\ r.reply = Absent
NewestPending == \E e \in Pending : e.seq = seq

Tells(e) == IF loaded THEN StatusOf(e) = activity ELSE EndsSession(e)

(* Frames come in order, and the end of a turn is followed by a status.    *)
WireSound ==
    /\ conn \notin {"open", "failing"} => queue = <<>>
    /\ conn # "none" => epoch # 0
    /\ \A i \in 1 .. Len(queue) : queue[i].read = 0 /\ queue[i].seq \in 1 .. seq
    /\ \A i \in 1 .. Len(queue) : queue[i].kind = "turnCompleted" =>
          /\ i + 1 \in 1 .. Len(queue) /\ queue[i + 1].kind # "turnCompleted"
          /\ queue[i + 1].seq = queue[i].seq + 1
    /\ \A r \in reads : r.conn <= epoch
    /\ \A r \in reads : r.reply # Absent =>
          r.reply.read = r.conn /\ r.reply.seq \in 1 .. seq /\ r.reply.kind # "turnCompleted"

(* The last frame says how the server stands.                              *)
ServerSound ==
    /\ ~loaded => activity = "idle"
    /\ conn = "open" => \A e \in Pending : e.seq = seq => Tells(e)

(* Before the first pairing there is nothing.                              *)
FreshSound == pairs = 0 =>
    /\ pair = Absent /\ record = Absent /\ holder = Absent /\ busy = Absent
    /\ queue = <<>> /\ reads = {} /\ ~loaded
    /\ \A t \in Hosts : terms[t] = "unborn"

(* An established pairing's terminal is the record's, if any is.           *)
EstablishedSound ==
    pair # Absent /\ pair.established =>
        /\ record # Absent /\ record.terminal \in {Absent, pair.terminal}
        /\ holder \in {Absent, pair.terminal}
        /\ terms[pair.terminal] \notin {"unborn", "creating"}

(* The pairing is the latest; no frame that ends a turn is just where it   *)
(* was resumed.                                                            *)
PairSound ==
    pair # Absent =>
        /\ pair.id = pairs /\ pair.seq <= seq /\ pair.since <= seq
        /\ (pair.resumed <=> pairs > 1) /\ (~pair.resumed => pair.since = 0)
        /\ ~pair.established => pair.last = Absent
        /\ terms[pair.terminal] # "unborn" /\ removing[pair.terminal] # "converge"
        /\ \A e \in InQueue \cup Applied : e.kind = "turnCompleted" => e.seq # pair.since

TermsSound ==
    /\ \A t \in Hosts : terms[t] = "creating" => pair # Absent /\ pair.terminal = t /\ pair.resumed
    /\ \A t \in Hosts : removing[t] # "no" => terms[t] = "deleted"
    /\ pairs > 1 => record # Absent
    /\ holder # Absent => record # Absent

(* What is being applied was the newest when it was looked at; a pairing   *)
(* replaced since was of a terminal that is gone.                          *)
BusySound ==
    busy # Absent =>
        LET e == busy.evidence
            p == busy.pair
        IN
        /\ pair # Absent /\ conn # "none"
        /\ e.seq \in 1 .. seq /\ e.seq = p.seq /\ ~EndsSession(e)
        /\ e.read = 0 \/ e.read = epoch
        /\ e.read = 0 => conn \in {"open", "failing"}
        /\ e.kind = "turnCompleted" =>
              /\ e.read = 0 /\ queue # <<>> /\ queue[1].kind # "turnCompleted"
              /\ queue[1].seq = e.seq + 1
        /\ terms[p.terminal] \notin {"unborn", "creating"} /\ removing[p.terminal] # "converge"
        /\ p.established => record # Absent
        /\ \/ pair = p
           \/ /\ p.id < pair.id /\ e.seq <= pair.since /\ ~pair.established /\ pair.resumed
              /\ terms[p.terminal] \in {"exited", "deleted"} \/ p.terminal \in cut

(* While something not yet applied counts, so does the last word.          *)
NewestSound ==
    conn = "open" /\ pair # Absent =>
        \A e \in Pending : e.seq >= pair.seq /\ e.seq > pair.since => NewestPending

(* A word from before the resume is still to be applied.                   *)
OldWord == pair.resumed /\ \E e \in Pending : /\ e.kind # "turnCompleted"
                             /\ pair.seq <= e.seq /\ e.seq <= pair.since

TruthSound ==
    (/\ conn = "open" /\ ~missed /\ loaded /\ holder # Absent
     /\ pair # Absent /\ pair.established)
        => Awaited \/ NewestPending \/ OldWord \/ record.status = activity

LiveSound ==
    pair # Absent =>
        /\ pair.last # Absent /\ Policy!IsLive(record.status) => Policy!IsLive(pair.last)
        /\ conn = "none" /\ ~missed => ~Policy!IsLive(pair.last)

ObserverInv ==
    /\ ObserverTypeOK /\ WireSound /\ ServerSound /\ FreshSound /\ EstablishedSound /\ PairSound
    /\ TermsSound /\ BusySound /\ NewestSound /\ TruthSound /\ LiveSound /\ ResumeTracked

-----------------------------------------------------------------------------
(* The Codex observer: what the operators do.                              *)

(* The latest turn: minted, updated, left with a late response, settled.   *)
LEMMA TurnUpdated ==
    ASSUME NEW turn \in Policy!Turn, NEW p \in Policy!TurnReport
    PROVE  Policy!UpdateTurn(turn, p) \in Policy!Turn
    <1> DEFINE over == Policy!Ended(p.state)
               answer == IF over THEN p.response ELSE Absent
    <1>1. over \in BOOLEAN /\ answer \in {} \cup {Absent} /\ p.state \in Policy!TurnState
        BY DEF Policy!Ended, Policy!TurnReport
    <1>2. Policy!UpdateTurn(turn, p) =
            [turn EXCEPT !.state = p.state, !.completed = over, !.response = answer]
        BY Zenon DEF Policy!UpdateTurn
    <1> HIDE DEF over, answer
    <1> QED
        BY <1>1, <1>2 DEF Policy!Turn

LEMMA TurnMinted ==
    ASSUME NEW id \in Nat, NEW p \in Policy!TurnReport
    PROVE  Policy!MintTurn(id, p) \in Policy!Turn
    <1>1. [id |-> id, provider |-> p.provider, state |-> "unknown", completed |-> FALSE,
           response |-> Absent] \in Policy!Turn
        BY DEF Policy!Turn, Policy!TurnReport, Policy!TurnState
    <1> QED
        BY <1>1, TurnUpdated DEF Policy!MintTurn

LEMMA TurnSettled ==
    ASSUME NEW turn \in Policy!Turn, NEW v \in {"failed", "unknown"}, NEW c \in BOOLEAN
    PROVE  [turn EXCEPT !.state = v, !.completed = c] \in Policy!Turn
    BY DEF Policy!Turn, Policy!TurnState, Policy!EndedState

(* A record under another latest turn.                                     *)
LEMMA RecordUnderTurn ==
    ASSUME NEW r \in Policy!Record, NEW turn \in Policy!Turn,
           NEW q \in {r.pending, Absent}
    PROVE  LET s == [r EXCEPT !.turn = turn, !.pending = q] IN
           s \in Policy!Record /\ s.terminal = r.terminal /\ s.status = r.status
    BY DEF Policy!Record

LEMMA TurnClaimed ==
    ASSUME NEW r \in Policy!Record, NEW p \in Policy!TurnReport \cup {Absent},
           NEW held \in BOOLEAN, NEW fresh \in Nat
    PROVE  LET s == Policy!ClaimTurn(r, p, held, fresh) IN
           s \in Policy!Record /\ s.terminal = r.terminal /\ s.status = r.status
    <1> DEFINE s == Policy!ClaimTurn(r, p, held, fresh)
    <1>1. CASE p = Absent \/ (p.state = "running" /\ ~held)
        BY <1>1 DEF Policy!ClaimTurn
    <1>2. CASE ~(p = Absent \/ (p.state = "running" /\ ~held))
        <2>1. p \in Policy!TurnReport /\ s = Policy!ApplyTurn(r, p, fresh)
            BY <1>2 DEF Policy!ClaimTurn
        <2>2. /\ r.turn \in Policy!Turn \cup {Absent}
              /\ r.pending # Absent => r.pending.id \in Nat
            BY DEF Policy!Record, Policy!Pending
        <2>3. \E turn \in Policy!Turn, q \in {r.pending, Absent} :
                s = [r EXCEPT !.turn = turn, !.pending = q]
            <3>1. CASE Policy!Binds(r, p)
                <4>1. s = [r EXCEPT !.turn = Policy!MintTurn(r.pending.id, p),
                                    !.pending = Absent]
                    BY <2>1, <3>1 DEF Policy!ApplyTurn
                <4>2. Policy!MintTurn(r.pending.id, p) \in Policy!Turn
                    BY <2>1, <2>2, <3>1, TurnMinted DEF Policy!Binds
                <4> QED
                    BY <4>1, <4>2
            <3>2. CASE ~Policy!Binds(r, p) /\ r.turn # Absent /\ Policy!SameTurn(r.turn, p)
                <4> DEFINE turn == IF Policy!Ended(r.turn.state)
                                   THEN Policy!AdoptResponse(r.turn, p.state, p.response)
                                   ELSE Policy!UpdateTurn(r.turn, p)
                <4>1. s = [r EXCEPT !.turn = turn, !.pending = r.pending]
                    BY <2>1, <3>2 DEF Policy!ApplyTurn, Policy!Record
                <4>2. Policy!AdoptResponse(r.turn, p.state, p.response) \in Policy!Turn
                    BY <2>1, <2>2, <3>2
                       DEF Policy!AdoptResponse, Policy!Turn, Policy!TurnReport
                <4>3. turn \in Policy!Turn
                    BY <2>1, <2>2, <3>2, <4>2, TurnUpdated
                <4> HIDE DEF turn, s
                <4> QED
                    BY <4>1, <4>3
            <3>3. CASE ~Policy!Binds(r, p) /\ ~(r.turn # Absent /\ Policy!SameTurn(r.turn, p))
                <4>1. s = [r EXCEPT !.turn = Policy!MintTurn(fresh, p), !.pending = r.pending]
                    BY <2>1, <3>3 DEF Policy!ApplyTurn, Policy!Record
                <4>2. Policy!MintTurn(fresh, p) \in Policy!Turn
                    BY <2>1, TurnMinted
                <4> HIDE DEF s
                <4> QED
                    BY <4>1, <4>2
            <3> QED
                BY <3>1, <3>2, <3>3
        <2> HIDE DEF s
        <2>4. s \in Policy!Record /\ s.terminal = r.terminal /\ s.status = r.status
            <3>1. PICK turn \in Policy!Turn, q \in {r.pending, Absent} :
                    s = [r EXCEPT !.turn = turn, !.pending = q]
                BY <2>3
            <3> QED
                BY <3>1, RecordUnderTurn
        <2> QED
            BY <2>4 DEF s
    <1> QED
        BY <1>1, <1>2

LEMMA RunningSettled ==
    ASSUME NEW r \in Policy!Record, NEW p \in Policy!TurnReport \cup {Absent}
    PROVE  LET s == Policy!SettleRunning(r, p) IN
           s \in Policy!Record /\ s.terminal = r.terminal /\ s.status = r.status
    <1> DEFINE s == Policy!SettleRunning(r, p)
    <1>1. CASE s = r
        BY <1>1
    <1>2. CASE s # r
        <2>1. r.turn \in Policy!Turn
            BY <1>2 DEF Policy!SettleRunning, Policy!Record
        <2>2. PICK v \in {"failed", "unknown"}, c \in BOOLEAN :
                s = [r EXCEPT !.turn = [@ EXCEPT !.state = v, !.completed = c]]
            <3>1. CASE r.status = "error"
                <4>1. s = [r EXCEPT !.turn = [@ EXCEPT !.state = "failed", !.completed = TRUE]]
                    BY <1>2, <3>1 DEF Policy!SettleRunning, Policy!Record
                <4> QED
                    BY <4>1
            <3>2. CASE r.status # "error"
                <4>1. s = [r EXCEPT !.turn = [@ EXCEPT !.state = "unknown", !.completed = FALSE]]
                    BY <1>2, <3>2 DEF Policy!SettleRunning, Policy!Record
                <4> QED
                    BY <4>1
            <3> QED
                BY <3>1, <3>2
        <2> DEFINE turn == [r.turn EXCEPT !.state = v, !.completed = c]
        <2>3. turn \in Policy!Turn
            BY <2>1, TurnSettled
        <2>4. s = [r EXCEPT !.turn = turn, !.pending = r.pending]
            BY <2>2 DEF Policy!Record
        <2> HIDE DEF turn, s
        <2>5. s \in Policy!Record /\ s.terminal = r.terminal /\ s.status = r.status
            BY <2>3, <2>4, RecordUnderTurn
        <2> QED
            BY <2>5 DEF s
    <1> QED
        BY <1>1, <1>2

LEMMA PendingSettled ==
    ASSUME NEW r \in Policy!Record
    PROVE  LET s == Policy!SettlePending(r) IN
           s \in Policy!Record /\ s.terminal = r.terminal /\ s.status = r.status
    <1> DEFINE s == Policy!SettlePending(r)
               turn == [id |-> r.pending.id, provider |-> Absent, state |-> "failed",
                        completed |-> TRUE, response |-> Absent]
    <1>1. CASE r.pending = Absent \/ r.status # "error"
        BY <1>1 DEF Policy!SettlePending
    <1>2. CASE ~(r.pending = Absent \/ r.status # "error")
        <2>1. turn \in Policy!Turn
            BY <1>2 DEF Policy!Record, Policy!Pending, Policy!Turn, Policy!TurnState,
               Policy!EndedState
        <2>2. s = [r EXCEPT !.turn = turn, !.pending = Absent]
            BY <1>2 DEF Policy!SettlePending
        <2> HIDE DEF turn, s
        <2>3. s \in Policy!Record /\ s.terminal = r.terminal /\ s.status = r.status
            BY <2>1, <2>2, RecordUnderTurn
        <2> QED
            BY <2>3 DEF s
    <1> QED
        BY <1>1, <1>2

(* The policy: what a status claim leaves.                                 *)
LEMMA StatusApplied ==
    ASSUME NEW r \in Policy!Record, NEW p \in Policy!Report, NEW held \in BOOLEAN,
           NEW fresh \in Nat
    PROVE  LET s == Policy!ApplyStatus(r, p, held, fresh) IN
           /\ s \in Policy!Record /\ s.terminal = r.terminal
           /\ s.status = IF p.status = Absent \/ (Policy!IsLive(p.status) /\ ~held)
                         THEN r.status ELSE p.status
    <1> DEFINE a == Policy!ClaimStatus(r, p, held)
               b == Policy!ClaimTurn(a, p.turn, held, fresh)
               c == Policy!SettleRunning(b, p.turn)
               s == Policy!SettlePending(c)
    <1>0. p.turn \in Policy!TurnReport \cup {Absent}
        BY DEF Policy!Report
    <1>1. /\ a \in Policy!Record /\ a.terminal = r.terminal
          /\ a.status = IF p.status = Absent \/ (Policy!IsLive(p.status) /\ ~held)
                        THEN r.status ELSE p.status
        BY DEF Policy!ClaimStatus, Policy!Record, Policy!Report
    <1> HIDE DEF a
    <1>2. b \in Policy!Record /\ b.terminal = a.terminal /\ b.status = a.status
        BY <1>0, <1>1, TurnClaimed
    <1> HIDE DEF b
    <1>3. c \in Policy!Record /\ c.terminal = b.terminal /\ c.status = b.status
        BY <1>0, <1>2, RunningSettled
    <1> HIDE DEF c
    <1>4. s \in Policy!Record /\ s.terminal = c.terminal /\ s.status = c.status
        BY <1>3, PendingSettled
    <1>5. s = Policy!ApplyStatus(r, p, held, fresh)
        BY DEF Policy!ApplyStatus, Policy!SettleTurn, a, b, c
    <1> QED
        BY <1>1, <1>2, <1>3, <1>4, <1>5

LEMMA CoercedRecord ==
    ASSUME NEW r \in Policy!Record
    PROVE  LET s == Policy!CoerceRecord(r) IN
           /\ s \in Policy!Record /\ s.terminal = r.terminal
           /\ s.status = r.status \/ s.status = "unknown"
           /\ ~Policy!IsLive(s.status)
    <1> DEFINE a == IF Policy!IsLive(r.status) THEN [r EXCEPT !.status = "unknown"] ELSE r
               s == Policy!CoerceRecord(r)
    <1>1. /\ a \in Policy!Record /\ a.terminal = r.terminal /\ ~Policy!IsLive(a.status)
          /\ a.status = r.status \/ a.status = "unknown"
        BY DEF Policy!Record, Policy!Status, Policy!LiveStatus, Policy!IsLive
    <1>2. s = IF a.turn # Absent /\ a.turn.state = "running"
              THEN [a EXCEPT !.turn.state = "unknown", !.turn.completed = FALSE] ELSE a
        BY DEF Policy!CoerceRecord
    <1> HIDE DEF a, s
    <1>3. CASE s = a
        BY <1>1, <1>3 DEF s
    <1>4. CASE s # a
        <2> DEFINE turn == [a.turn EXCEPT !.state = "unknown", !.completed = FALSE]
        <2>1. a.turn \in Policy!Turn
            BY <1>1, <1>2, <1>4 DEF Policy!Record
        <2>2. turn \in Policy!Turn
            BY <2>1, TurnSettled
        <2>3. s = [a EXCEPT !.turn = turn, !.pending = a.pending]
            BY <1>1, <1>2, <1>4 DEF Policy!Record
        <2> HIDE DEF turn
        <2>4. s \in Policy!Record /\ s.terminal = a.terminal /\ s.status = a.status
            BY <1>1, <2>2, <2>3, RecordUnderTurn
        <2> QED
            BY <1>1, <2>4 DEF s
    <1> QED
        BY <1>3, <1>4

LEMMA FirstRecord ==
    ASSUME NEW t \in Hosts
    PROVE  LET s == Policy!NewRecord(Conversation, t) IN
           s \in Policy!Record /\ s.terminal = t /\ s.status = "unknown"
    BY DEF Policy!NewRecord, Policy!Record, Policy!Status

LEMMA Reported ==
    ASSUME NEW e \in Heard
    PROVE  /\ ReportOf(e) \in Policy!Report /\ ReportOf(e).status = StatusOf(e)
           /\ StatusOf(e) \in Policy!Status \cup {Absent}
    <1>1. StatusOf(e) \in Policy!Status \cup {Absent}
        BY DEF StatusOf, Heard, HeardKinds, Policy!Status, Policy!LiveStatus
    <1>2. ReportOf(e).turn \in Policy!TurnReport \cup {Absent}
        BY ObserverAssumption DEF ReportOf, Heard, Policy!TurnReport, Policy!TurnState, Policy!EndedState
    <1> QED
        BY <1>1, <1>2 DEF ReportOf, Policy!Report

(* The threads domain's operations.                                        *)
LEMMA SessionHeardFacts ==
    ASSUME ObserverTypeOK, NEW t \in Hosts, NEW e \in Heard, SessionHeard(t, e)
    PROVE  /\ record' \in Policy!Record /\ record'.terminal = t /\ holder' = t
           /\ terms[t] \in {"running", "missing", "exited"}
           /\ StatusOf(e) # Absent => record'.status = StatusOf(e)
           /\ StatusOf(e) = Absent =>
                record'.status = IF record = Absent THEN "unknown" ELSE record.status
    <1> DEFINE known == IF record = Absent THEN Policy!NewRecord(Conversation, t) ELSE record
               from == [known EXCEPT !.terminal = t]
    <1>1. known \in Policy!Record
        BY FirstRecord DEF ObserverTypeOK
    <1>2. from \in Policy!Record /\ from.terminal = t /\ from.status = known.status
        BY <1>1 DEF Policy!Record
    <1>3. known.status = IF record = Absent THEN "unknown" ELSE record.status
        BY FirstRecord
    <1>4. record' = Policy!ApplyStatus(from, ReportOf(e), TRUE, turns) /\ turns \in Nat
        BY ObserverAssumption DEF SessionHeard, ObserverTypeOK
    <1> DEFINE held == TRUE
               heard == ReportOf(e)
    <1>5. record' = Policy!ApplyStatus(from, heard, held, turns) /\ held \in BOOLEAN /\ held
        BY <1>4
    <1>6. heard \in Policy!Report /\ heard.status = StatusOf(e)
        BY Reported
    <1> HIDE DEF known, from, held, heard
    <1>7. LET s == Policy!ApplyStatus(from, heard, held, turns) IN
          /\ s \in Policy!Record /\ s.terminal = from.terminal
          /\ s.status = IF heard.status = Absent \/ (Policy!IsLive(heard.status) /\ ~held)
                        THEN from.status ELSE heard.status
        BY <1>2, <1>4, <1>5, <1>6, StatusApplied
    <1>8. /\ record' \in Policy!Record /\ record'.terminal = from.terminal
          /\ record'.status = IF heard.status = Absent THEN from.status ELSE heard.status
        BY <1>5, <1>7
    <1> QED
        BY <1>2, <1>3, <1>6, <1>8 DEF SessionHeard, Up, NotLive

LEMMA StatusHeardFacts ==
    ASSUME ObserverTypeOK, NEW e \in Heard, StatusHeard(e), record # Absent
    PROVE  /\ record' \in Policy!Record /\ record'.terminal = record.terminal
           /\ holder' = holder
           /\ record'.status = IF \/ StatusOf(e) = Absent
                                  \/ Policy!IsLive(StatusOf(e)) /\ holder = Absent
                               THEN record.status ELSE StatusOf(e)
    <1>1. record' = Policy!ApplyStatus(record, ReportOf(e), holder # Absent, turns)
          /\ turns \in Nat /\ (holder # Absent) \in BOOLEAN /\ record \in Policy!Record
        BY ObserverAssumption DEF StatusHeard, ObserverTypeOK
    <1> DEFINE held == holder # Absent
    <1>2. record' = Policy!ApplyStatus(record, ReportOf(e), held, turns)
          /\ (held <=> holder # Absent) /\ held \in BOOLEAN
        BY <1>1
    <1> HIDE DEF held
    <1> QED
        BY <1>1, <1>2, Reported, StatusApplied DEF StatusHeard

LEMMA ReleasedFacts ==
    ASSUME ObserverTypeOK, TermsSound, NEW t \in Hosts, Released(t)
    PROVE  /\ record' \in Policy!Record \cup {Absent}
           /\ record' = Absent <=> record = Absent
           /\ record # Absent =>
                /\ record'.terminal = record.terminal
                /\ Policy!IsLive(record'.status) => record'.status = record.status
           /\ holder' = IF holder = t THEN Absent ELSE holder
    <1>1. CASE holder # t
        BY <1>1 DEF Released, ObserverTypeOK, threadVars
    <1>2. CASE holder = t
        <2>1. record # Absent /\ record \in Policy!Record
            BY <1>2, ObserverAssumption DEF TermsSound, ObserverTypeOK
        <2> QED
            BY <1>2, <2>1, CoercedRecord, ObserverAssumption DEF Released
    <1> QED
        BY <1>1, <1>2

(* A terminal is removed: the record loses it, if it was its.              *)
LEMMA RemovedFacts ==
    ASSUME ObserverTypeOK, NEW t \in Hosts, TerminalRemoved(t)
    PROVE  /\ record' \in Policy!Record \cup {Absent}
           /\ record' = Absent <=> record = Absent
           /\ record # Absent =>
                /\ record'.terminal = IF record.terminal = t THEN Absent ELSE record.terminal
                /\ record.terminal # t => record' = record
                /\ Policy!IsLive(record'.status) => record'.status = record.status
           /\ holder' = IF holder = t THEN Absent ELSE holder
    <1>1. CASE record # Absent /\ record.terminal = t
        <2> DEFINE from == [record EXCEPT !.terminal = Absent]
        <2>1. from \in Policy!Record /\ from.terminal = Absent /\ from.status = record.status
            BY <1>1 DEF Policy!Record, ObserverTypeOK
        <2>2. record' = Policy!CoerceRecord(from)
            BY <1>1 DEF TerminalRemoved
        <2> HIDE DEF from
        <2>3. /\ record' \in Policy!Record /\ record'.terminal = Absent
              /\ Policy!IsLive(record'.status) => record'.status = record.status
            BY <2>1, <2>2, CoercedRecord
        <2> QED
            BY <1>1, <2>3, ObserverAssumption DEF TerminalRemoved
    <1>2. CASE ~(record # Absent /\ record.terminal = t)
        BY <1>2 DEF TerminalRemoved, ObserverTypeOK
    <1> QED
        BY <1>1, <1>2

(* The elements of two sequences put together.                             *)
LEMMA Joined ==
    ASSUME NEW S, NEW s \in Seq(S), NEW t \in Seq(S)
    PROVE  /\ s \o t \in Seq(S) /\ Len(s \o t) = Len(s) + Len(t)
           /\ \A j \in 1 .. Len(s) + Len(t) :
                 (s \o t)[j] = IF j <= Len(s) THEN s[j] ELSE t[j - Len(s)]
    OBVIOUS

(* The wire: one frame or two are appended.                                *)
LEMMA OneNotified ==
    ASSUME ObserverTypeOK, NEW kind \in HeardKinds, NEW turn \in 0 .. MaxTurns, conn = "open",
           Notify(<<kind>>, turn)
    PROVE  LET last == [kind |-> kind, turn |-> turn, seq |-> seq + 1, read |-> 0] IN
           /\ seq' = seq + 1 /\ queue' \in Seq(Heard) /\ last \in Heard
           /\ Len(queue') = Len(queue) + 1
           /\ \A i \in 1 .. Len(queue) : queue'[i] = queue[i]
           /\ queue'[Len(queue) + 1] = last
    <1> DEFINE last == [kind |-> kind, turn |-> turn, seq |-> seq + 1, read |-> 0]
               kinds == <<kind>>
               more == [i \in 1 .. Len(kinds) |->
                          [kind |-> kinds[i], turn |-> turn, seq |-> seq + i, read |-> 0]]
    <1>1. Len(kinds) = 1 /\ kinds[1] = kind
        OBVIOUS
    <1>2. last \in Heard
        BY ObserverAssumption DEF Heard, ObserverTypeOK
    <1>3. more = <<last>>
        BY <1>1
    <1>4. seq' = seq + 1 /\ queue' = queue \o more /\ queue \in Seq(Heard)
        BY <1>1 DEF Notify, ObserverTypeOK
    <1> HIDE DEF last, kinds, more
    <1>5. more \in Seq(Heard) /\ Len(more) = 1 /\ more[1] = last
        BY <1>2, <1>3
    <1>6. /\ queue' \in Seq(Heard) /\ Len(queue') = Len(queue) + 1
          /\ \A i \in 1 .. Len(queue) : queue'[i] = queue[i]
          /\ queue'[Len(queue) + 1] = last
        <2> DEFINE both == queue \o more
        <2>1. /\ both \in Seq(Heard) /\ Len(both) = Len(queue) + Len(more)
              /\ \A j \in 1 .. Len(queue) + Len(more) :
                    both[j] = IF j <= Len(queue) THEN queue[j] ELSE more[j - Len(queue)]
            BY <1>4, <1>5, Joined
        <2>2. queue' = both
            BY <1>4
        <2>3. Len(queue) \in Nat
            BY <1>4
        <2> HIDE DEF both
        <2> QED
            BY <1>5, <2>1, <2>2, <2>3
    <1> QED
        BY <1>2, <1>4, <1>6 DEF last

LEMMA TwoNotified ==
    ASSUME ObserverTypeOK, NEW first \in HeardKinds, NEW second \in HeardKinds,
           NEW turn \in 0 .. MaxTurns, conn = "open",
           Notify(<<first, second>>, turn)
    PROVE  LET one == [kind |-> first, turn |-> turn, seq |-> seq + 1, read |-> 0]
               two == [kind |-> second, turn |-> turn, seq |-> seq + 2, read |-> 0]
           IN
           /\ seq' = seq + 2 /\ queue' \in Seq(Heard) /\ one \in Heard /\ two \in Heard
           /\ Len(queue') = Len(queue) + 2
           /\ \A i \in 1 .. Len(queue) : queue'[i] = queue[i]
           /\ queue'[Len(queue) + 1] = one /\ queue'[Len(queue) + 2] = two
    <1> DEFINE one == [kind |-> first, turn |-> turn, seq |-> seq + 1, read |-> 0]
               two == [kind |-> second, turn |-> turn, seq |-> seq + 2, read |-> 0]
               kinds == <<first, second>>
               more == [i \in 1 .. Len(kinds) |->
                          [kind |-> kinds[i], turn |-> turn, seq |-> seq + i, read |-> 0]]
    <1>1. Len(kinds) = 2 /\ kinds[1] = first /\ kinds[2] = second
        OBVIOUS
    <1>2. one \in Heard /\ two \in Heard
        BY ObserverAssumption DEF Heard, ObserverTypeOK
    <1>3. more = <<one, two>>
        BY <1>1
    <1>4. seq' = seq + 2 /\ queue' = queue \o more /\ queue \in Seq(Heard)
        BY <1>1 DEF Notify, ObserverTypeOK
    <1> HIDE DEF one, two, kinds, more
    <1>5. more \in Seq(Heard) /\ Len(more) = 2 /\ more[1] = one /\ more[2] = two
        BY <1>2, <1>3
    <1>6. /\ queue' \in Seq(Heard) /\ Len(queue') = Len(queue) + 2
          /\ \A i \in 1 .. Len(queue) : queue'[i] = queue[i]
          /\ queue'[Len(queue) + 1] = one /\ queue'[Len(queue) + 2] = two
        <2> DEFINE both == queue \o more
        <2>1. /\ both \in Seq(Heard) /\ Len(both) = Len(queue) + Len(more)
              /\ \A j \in 1 .. Len(queue) + Len(more) :
                    both[j] = IF j <= Len(queue) THEN queue[j] ELSE more[j - Len(queue)]
            BY <1>4, <1>5, Joined
        <2>2. queue' = both
            BY <1>4
        <2>3. Len(queue) \in Nat
            BY <1>4
        <2> HIDE DEF both
        <2> QED
            BY <1>5, <2>1, <2>2, <2>3
    <1> QED
        BY <1>2, <1>4, <1>6 DEF one, two

-----------------------------------------------------------------------------
(* The Codex observer: what the steps do.                                  *)

(* The server changes and tells so: the last frame says how it stands.     *)
ServerMoves == StartTurn \/ EndTurn \/ Unload \/ \E t \in Hosts : Load(t)

Told ==
    /\ seq' > seq /\ Len(queue') > Len(queue)
    /\ \A i \in 1 .. Len(queue) : queue'[i] = queue[i]
    /\ \A i \in Len(queue) + 1 .. Len(queue') :
          /\ queue'[i].read = 0 /\ queue'[i].seq \in seq + 1 .. seq'
          /\ queue'[i].kind = "turnCompleted" =>
                /\ i < Len(queue') /\ queue'[i + 1].kind # "turnCompleted"
                /\ queue'[i + 1].seq = queue'[i].seq + 1
          /\ queue'[i].seq = seq' =>
                IF loaded' THEN StatusOf(queue'[i]) = activity' ELSE EndsSession(queue'[i])
    /\ queue'[Len(queue')].seq = seq'

LEMMA ServerMovesFacts ==
    ASSUME ObserverTypeOK, ServerSound, FreshSound, ServerMoves
    PROVE  /\ UNCHANGED <<epoch, conn, reads, busy, pair, pairs, terms, removing, threadVars, missed,
                          cut, losses>>
           /\ loaded' \in BOOLEAN /\ activity' \in {"idle", "working"} /\ turns' \in 0 .. MaxTurns
           /\ seq' \in Nat /\ queue' \in Seq(Heard)
           /\ pairs # 0 /\ (~loaded' => activity' = "idle")
           /\ IF conn = "open" THEN Told ELSE UNCHANGED wireVars
    <1>0. seq \in Nat /\ queue \in Seq(Heard) /\ Len(queue) \in Nat /\ turns \in 0 .. MaxTurns
          /\ activity \in {"idle", "working"} /\ MaxTurns \in Nat
        BY ObserverAssumption DEF ObserverTypeOK
    <1>1. CASE StartTurn
        <2>1. turns + 1 \in 0 .. MaxTurns /\ loaded /\ loaded' = loaded /\ turns' = turns + 1
              /\ activity' = "working" /\ Notify(<<"working", "turnStarted">>, turns + 1)
            BY <1>0, <1>1 DEF StartTurn
        <2>2. CASE conn = "open"
            <3>1. "working" \in HeardKinds /\ "turnStarted" \in HeardKinds
                BY DEF HeardKinds
            <3>2. LET one == [kind |-> "working", turn |-> turns + 1, seq |-> seq + 1, read |-> 0]
                      two == [kind |-> "turnStarted", turn |-> turns + 1, seq |-> seq + 2, read |-> 0]
                  IN
                  /\ seq' = seq + 2 /\ queue' \in Seq(Heard) /\ Len(queue') = Len(queue) + 2
                  /\ \A i \in 1 .. Len(queue) : queue'[i] = queue[i]
                  /\ queue'[Len(queue) + 1] = one /\ queue'[Len(queue) + 2] = two
                BY <2>1, <2>2, <3>1, TwoNotified
            <3>3. /\ seq' = seq + 2 /\ Len(queue') = Len(queue) + 2
                  /\ \A i \in 1 .. Len(queue) : queue'[i] = queue[i]
                  /\ queue'[Len(queue) + 1].kind = "working"
                  /\ queue'[Len(queue) + 1].seq = seq + 1 /\ queue'[Len(queue) + 1].read = 0
                  /\ queue'[Len(queue) + 2].kind = "turnStarted"
                  /\ queue'[Len(queue) + 2].seq = seq + 2 /\ queue'[Len(queue) + 2].read = 0
                BY <3>2
            <3>4. StatusOf(queue'[Len(queue) + 2]) = "working"
                BY <3>3 DEF StatusOf
            <3>5. \A i \in Len(queue) + 1 .. Len(queue') : i \in {Len(queue) + 1, Len(queue) + 2}
                BY <1>0, <3>3
            <3>6. Told
                BY <1>0, <2>1, <3>3, <3>4, <3>5 DEF Told
            <3> QED
                BY <1>0, <1>1, <2>1, <2>2, <3>2, <3>6 DEF StartTurn, FreshSound
        <2>3. CASE conn # "open"
            BY <1>0, <1>1, <2>1, <2>3 DEF StartTurn, FreshSound, Notify, wireVars
        <2> QED
            BY <2>2, <2>3
    <1>2. CASE EndTurn
        <2>1. loaded /\ loaded' = loaded /\ turns' = turns
              /\ activity' = "idle" /\ Notify(<<"turnCompleted", "idle">>, turns)
            BY <1>0, <1>2 DEF EndTurn
        <2>2. CASE conn = "open"
            <3>1. "idle" \in HeardKinds /\ "turnCompleted" \in HeardKinds
                BY DEF HeardKinds
            <3>2. LET one == [kind |-> "turnCompleted", turn |-> turns, seq |-> seq + 1, read |-> 0]
                      two == [kind |-> "idle", turn |-> turns, seq |-> seq + 2, read |-> 0]
                  IN
                  /\ seq' = seq + 2 /\ queue' \in Seq(Heard) /\ Len(queue') = Len(queue) + 2
                  /\ \A i \in 1 .. Len(queue) : queue'[i] = queue[i]
                  /\ queue'[Len(queue) + 1] = one /\ queue'[Len(queue) + 2] = two
                BY <1>0, <2>1, <2>2, <3>1, TwoNotified
            <3>3. /\ queue'[Len(queue) + 1].kind = "turnCompleted"
                  /\ queue'[Len(queue) + 1].seq = seq + 1 /\ queue'[Len(queue) + 1].read = 0
                  /\ queue'[Len(queue) + 2].kind = "idle"
                  /\ queue'[Len(queue) + 2].seq = seq + 2 /\ queue'[Len(queue) + 2].read = 0
                  /\ StatusOf(queue'[Len(queue) + 2]) = "idle"
                BY <3>2 DEF StatusOf
            <3>4. \A i \in Len(queue) + 1 .. Len(queue') : i \in {Len(queue) + 1, Len(queue) + 2}
                BY <1>0, <3>2
            <3> DEFINE Fits(i) ==
                    /\ queue'[i].read = 0 /\ queue'[i].seq \in seq + 1 .. seq'
                    /\ queue'[i].kind = "turnCompleted" =>
                          /\ i < Len(queue') /\ queue'[i + 1].kind # "turnCompleted"
                          /\ queue'[i + 1].seq = queue'[i].seq + 1
                    /\ queue'[i].seq = seq' =>
                          IF loaded' THEN StatusOf(queue'[i]) = activity'
                                     ELSE EndsSession(queue'[i])
            <3>5. seq' = seq + 2 /\ Len(queue') = Len(queue) + 2
                  /\ \A i \in 1 .. Len(queue) : queue'[i] = queue[i]
                BY <3>2
            <3>6. Fits(Len(queue) + 1)
                <4>1. Len(queue) + 1 + 1 = Len(queue) + 2
                    BY <1>0
                <4> QED
                    BY <1>0, <3>3, <3>5, <4>1
            <3>7. Fits(Len(queue) + 2)
                BY <1>0, <2>1, <3>3, <3>5
            <3> HIDE DEF Fits
            <3>8. \A i \in Len(queue) + 1 .. Len(queue') : Fits(i)
                BY <3>4, <3>6, <3>7
            <3>9. seq' > seq /\ Len(queue') > Len(queue) /\ queue'[Len(queue')].seq = seq'
                BY <1>0, <3>3, <3>5
            <3>10. Told
                BY <3>5, <3>8, <3>9 DEF Told, Fits
            <3> QED
                BY <1>0, <1>2, <2>1, <2>2, <3>2, <3>10 DEF EndTurn, FreshSound
        <2>3. CASE conn # "open"
            BY <1>0, <1>2, <2>1, <2>3 DEF EndTurn, FreshSound, Notify, wireVars
        <2> QED
            BY <2>2, <2>3
    <1>3. CASE Unload
        <2>1. loaded /\ ~loaded' /\ turns' = turns /\ loaded' = FALSE
              /\ activity' = "idle" /\ Notify(<<"closed">>, 0)
            BY <1>0, <1>3 DEF Unload
        <2>2. CASE conn = "open"
            <3>1. "closed" \in HeardKinds /\ 0 \in 0 .. MaxTurns
                BY <1>0 DEF HeardKinds
            <3>2. LET last == [kind |-> "closed", turn |-> 0, seq |-> seq + 1, read |-> 0] IN
                  /\ seq' = seq + 1 /\ queue' \in Seq(Heard) /\ Len(queue') = Len(queue) + 1
                  /\ \A i \in 1 .. Len(queue) : queue'[i] = queue[i]
                  /\ queue'[Len(queue) + 1] = last
                BY <2>1, <2>2, <3>1, OneNotified
            <3>3. Told
                <4>1. /\ queue'[Len(queue) + 1].kind = "closed"
                      /\ queue'[Len(queue) + 1].seq = seq + 1 /\ queue'[Len(queue) + 1].read = 0
                      /\ seq' = seq + 1 /\ Len(queue') = Len(queue) + 1
                      /\ \A i \in 1 .. Len(queue) : queue'[i] = queue[i]
                    BY <3>2
                <4>2. EndsSession(queue'[Len(queue) + 1])
                    BY <4>1 DEF EndsSession
                <4>3. \A i \in Len(queue) + 1 .. Len(queue') : i = Len(queue) + 1
                    BY <1>0, <4>1
                <4> QED
                    BY <1>0, <2>1, <4>1, <4>2, <4>3 DEF Told
            <3>4. loaded' \in BOOLEAN /\ activity' \in {"idle", "working"}
                BY <2>1
            <3>5. turns' \in 0 .. MaxTurns /\ seq' \in Nat /\ queue' \in Seq(Heard)
                BY <1>0, <2>1, <3>2
            <3>6. pairs # 0
                BY <2>1 DEF FreshSound
            <3> QED
                BY <1>3, <2>1, <2>2, <3>3, <3>4, <3>5, <3>6, Zenon DEF Unload
        <2>3. CASE conn # "open"
            BY <1>0, <1>3, <2>1, <2>3 DEF Unload, FreshSound, Notify, wireVars
        <2> QED
            BY <2>2, <2>3
    <1>4. ASSUME NEW t \in Hosts, Load(t)
          PROVE  /\ UNCHANGED <<epoch, conn, reads, busy, pair, pairs, terms, removing, threadVars,
                                missed, cut, losses>>
                 /\ loaded' \in BOOLEAN /\ activity' \in {"idle", "working"}
                 /\ turns' \in 0 .. MaxTurns
                 /\ seq' \in Nat /\ queue' \in Seq(Heard)
                 /\ pairs # 0 /\ (~loaded' => activity' = "idle")
                 /\ IF conn = "open" THEN Told ELSE UNCHANGED wireVars
        <2>1. ~loaded /\ loaded' /\ turns' = turns /\ loaded' = TRUE /\ activity' = activity
              /\ activity = "idle" /\ Notify(<<"idle">>, 0) /\ record # Absent
            BY <1>0, <1>4 DEF Load, ServerSound
        <2>2. CASE conn = "open"
            <3>1. "idle" \in HeardKinds /\ 0 \in 0 .. MaxTurns
                BY <1>0 DEF HeardKinds
            <3>2. LET last == [kind |-> "idle", turn |-> 0, seq |-> seq + 1, read |-> 0] IN
                  /\ seq' = seq + 1 /\ queue' \in Seq(Heard) /\ Len(queue') = Len(queue) + 1
                  /\ \A i \in 1 .. Len(queue) : queue'[i] = queue[i]
                  /\ queue'[Len(queue) + 1] = last
                BY <2>1, <2>2, <3>1, OneNotified
            <3>3. Told
                <4>1. /\ queue'[Len(queue) + 1].kind = "idle"
                      /\ queue'[Len(queue) + 1].seq = seq + 1 /\ queue'[Len(queue) + 1].read = 0
                      /\ seq' = seq + 1 /\ Len(queue') = Len(queue) + 1
                      /\ \A i \in 1 .. Len(queue) : queue'[i] = queue[i]
                    BY <3>2
                <4>2. StatusOf(queue'[Len(queue) + 1]) = "idle"
                    BY <4>1 DEF StatusOf
                <4>3. \A i \in Len(queue) + 1 .. Len(queue') : i = Len(queue) + 1
                    BY <1>0, <4>1
                <4> QED
                    BY <1>0, <2>1, <4>1, <4>2, <4>3 DEF Told
            <3> QED
                BY <1>0, <1>4, <2>1, <2>2, <3>2, <3>3 DEF Load, FreshSound
        <2>3. CASE conn # "open"
            BY <1>0, <1>4, <2>1, <2>3 DEF Load, FreshSound, Notify, wireVars
        <2> QED
            BY <2>2, <2>3
    <1> QED
        BY <1>1, <1>2, <1>3, <1>4 DEF ServerMoves

(* Evidence is ignored, ends the pairing, or moves it on.                  *)
Ignored(e) ==
    /\ pair = Absent \/ Stale(e)
    /\ busy' = Absent /\ UNCHANGED <<pair, threadVars, cut>>

Ended(e) ==
    /\ pair # Absent /\ ~Stale(e) /\ pair' = Absent /\ busy' = Absent
    /\ terms[pair.terminal] # "creating"
    /\ cut \subseteq cut' /\ cut' \subseteq cut \cup {pair.terminal}
    /\ Up(pair.terminal) /\ pair.resumed => pair.terminal \in cut'
    /\ record' \in Policy!Record \cup {Absent} /\ (record' = Absent <=> record = Absent)
    /\ record # Absent => record'.terminal = record.terminal
    /\ holder' \in {holder, Absent}

Moved(e) ==
    /\ pair # Absent /\ ~Stale(e) /\ pair' = [pair EXCEPT !.seq = e.seq]
    /\ UNCHANGED <<threadVars, cut>>
    /\ \/ busy' = Absent /\ ~pair.established
       \/ /\ busy' = [evidence |-> e, pair |-> pair']
          /\ terms[pair.terminal] = "running" /\ ~EndsSession(e)

LEMMA BeginFacts ==
    ASSUME ObserverTypeOK, EstablishedSound, TermsSound, NEW e \in Heard, Begin(e)
    PROVE  busy = Absent /\ (Ignored(e) \/ Ended(e) \/ Moved(e))
    <1>1. CASE pair = Absent \/ Stale(e)
        BY <1>1 DEF Begin, Ignored
    <1>2. CASE ~(pair = Absent \/ Stale(e))
        <2> DEFINE t == pair.terminal
                   kept == [pair EXCEPT !.seq = IF e.seq > @ THEN e.seq ELSE @]
        <2>1. pair \in Pairings /\ t \in Hosts /\ e.seq \in Nat /\ pair.seq \in Nat
            BY <1>2 DEF ObserverTypeOK, Pairings, Heard
        <2>2. e.seq >= pair.seq
            BY <1>2, <2>1 DEF Stale
        <2>3. kept = [pair EXCEPT !.seq = e.seq]
            <3>1. CASE e.seq > pair.seq
                BY <3>1
            <3>2. CASE ~(e.seq > pair.seq)
                <4>1. e.seq = pair.seq
                    BY <2>1, <2>2, <3>2
                <4> QED
                    BY <2>1, <4>1 DEF Pairings
            <3> QED
                BY <3>1, <3>2
        <2>4. busy = Absent
            BY DEF Begin
        <2>5. \/ /\ terms[t] \in {"unborn", "creating", "deleted"}
                 /\ pair' = IF pair.established THEN Absent ELSE kept
                 /\ UNCHANGED <<busy, threadVars, cut>>
              \/ /\ terms[t] \in {"missing", "exited"}
                 /\ IF pair.established THEN Released(t) ELSE UNCHANGED threadVars
                 /\ pair' = Absent /\ cut' = CutOff(t) /\ UNCHANGED busy
              \/ /\ terms[t] = "running" /\ EndsSession(e)
                 /\ IF pair.established
                    THEN Released(t) /\ pair' = Absent
                    ELSE pair' = (IF DropsHeld(e) THEN Absent ELSE kept) /\ UNCHANGED threadVars
                 /\ cut' = IF pair.resumed /\ (pair.established \/ e.kind = "closed")
                           THEN cut \cup {t} ELSE cut
                 /\ UNCHANGED busy
              \/ /\ terms[t] = "running" /\ ~EndsSession(e)
                 /\ pair' = kept
                 /\ busy' = IF Mints(e) THEN [evidence |-> e, pair |-> kept] ELSE Absent
                 /\ UNCHANGED <<threadVars, cut>>
            BY <1>2 DEF Begin, NotLive
        <2> HIDE DEF t, kept
        <2>6. /\ Released(t) => /\ record' \in Policy!Record \cup {Absent}
                                /\ record' = Absent <=> record = Absent
                                /\ record # Absent => record'.terminal = record.terminal
                                /\ holder' \in {holder, Absent}
              /\ UNCHANGED threadVars => /\ record' \in Policy!Record \cup {Absent}
                                         /\ record' = record /\ holder' = holder
            BY <2>1, ReleasedFacts DEF ObserverTypeOK, threadVars
        <2>7. CASE terms[t] \in {"unborn", "creating", "deleted"}
            <3>1. CASE pair.established
                BY <1>2, <2>4, <2>5, <2>6, <2>7, <3>1 DEF Ended, EstablishedSound, Up, t
            <3>2. CASE ~pair.established
                BY <1>2, <2>3, <2>4, <2>5, <2>7, <3>2 DEF Moved
            <3> QED
                BY <3>1, <3>2
        <2>8. CASE terms[t] \in {"missing", "exited"}
            <3>1. /\ cut \subseteq cut' /\ cut' \subseteq cut \cup {t}
                  /\ terms[t] = "missing" => t \in cut'
                BY <2>5, <2>8 DEF CutOff
            <3> QED
                BY <1>2, <2>4, <2>5, <2>6, <2>8, <3>1 DEF Ended, Up, t
        <2>9. CASE terms[t] = "running" /\ EndsSession(e)
            <3>1. CASE pair.established \/ DropsHeld(e)
                BY <1>2, <2>4, <2>5, <2>6, <2>9, <3>1 DEF Ended, DropsHeld, Up, t
            <3>2. CASE ~(pair.established \/ DropsHeld(e))
                BY <1>2, <2>3, <2>4, <2>5, <2>9, <3>2 DEF Moved, DropsHeld
            <3> QED
                BY <3>1, <3>2
        <2>10. CASE terms[t] = "running" /\ ~EndsSession(e)
            <3>1. ~Mints(e) => ~pair.established
                BY DEF Mints
            <3> QED
                BY <1>2, <2>3, <2>4, <2>5, <2>10, <3>1 DEF Moved, t
        <2> QED
            BY <2>4, <2>5, <2>7, <2>8, <2>9, <2>10
    <1> QED
        BY <1>1, <1>2

(* A frame of the dispatcher's or a reply is applied.                      *)
Takes(e) ==
    /\ e \in Heard /\ e.seq \in 1 .. seq /\ busy = Absent
    /\ Ignored(e) \/ Ended(e) \/ Moved(e)
    /\ UNCHANGED <<serverVars, seq, epoch, conn, pairs, terms, removing, missed, losses>>
    /\ InQueue' \subseteq InQueue /\ reads' \subseteq reads /\ (Awaited' <=> Awaited)
    /\ Replies' \subseteq Replies /\ (busy' # Absent => e \in InQueue \cup Replies)
    /\ \/ Ignored(e) /\ Pending' = Pending
       \/ e \in Pending /\ Pending \subseteq Pending' \cup {e}
    /\ e.read = 0 \/ (e.read = epoch /\ conn # "none") \/ Ignored(e)
    /\ e.read = 0 => conn \in {"open", "failing"}
    /\ e.kind = "turnCompleted" =>
          /\ e.read = 0 /\ e \in InQueue /\ queue' # <<>> /\ queue'[1] \in InQueue'
          /\ queue'[1].kind # "turnCompleted" /\ queue'[1].seq = e.seq + 1

EvidenceStep == Dispatch \/ \E r \in reads : ApplyRead(r)

LEMMA EvidenceTaken ==
    ASSUME ObserverTypeOK, WireSound, EstablishedSound, TermsSound, EvidenceStep
    PROVE  \E e \in Heard : Takes(e)
    <1>1. CASE Dispatch
        <2> DEFINE e == Head(queue)
        <2>1. queue # <<>> /\ queue \in Seq(Heard) /\ seq \in Nat
            BY <1>1 DEF Dispatch, ObserverTypeOK
        <2>2. Len(queue) \in Nat \ {0} /\ 1 \in 1 .. Len(queue)
            BY <2>1
        <2>3. e = queue[1] /\ e \in Heard
            BY <2>1, <2>2
        <2>4. e.read = 0 /\ e.seq \in 1 .. seq
            BY <2>2, <2>3 DEF WireSound
        <2>5. /\ queue' = Tail(queue) /\ Begin(e) /\ conn \in {"open", "failing"}
              /\ UNCHANGED <<serverVars, seq, epoch, conn, reads, pairs, terms, removing, missed, losses>>
            BY <1>1 DEF Dispatch
        <2>6. /\ Len(queue') = Len(queue) - 1
              /\ \A i \in 1 .. Len(queue) - 1 : queue'[i] = queue[i + 1]
            BY <2>1, <2>2, <2>5
        <2> HIDE DEF e
        <2>7. busy = Absent /\ (Ignored(e) \/ Ended(e) \/ Moved(e))
            BY <2>3, <2>5, BeginFacts
        <2>8. InQueue' = {queue'[i] : i \in 1 .. Len(queue')}
            BY DEF InQueue
        <2>9. InQueue' \subseteq InQueue /\ InQueue \subseteq InQueue' \cup {e} /\ e \in InQueue
            <3>1. ASSUME NEW i \in 1 .. Len(queue'), NEW f, f = queue'[i] PROVE f \in InQueue
                <4>1. i + 1 \in 1 .. Len(queue) /\ f = queue[i + 1]
                    BY <2>2, <2>6, <3>1
                <4> QED
                    BY <4>1 DEF InQueue
            <3>2. ASSUME NEW i \in 1 .. Len(queue), NEW f, f = queue[i] PROVE f \in InQueue' \cup {e}
                <4>1. CASE i = 1
                    BY <2>3, <3>2, <4>1
                <4>2. CASE i # 1
                    <5>1. i - 1 \in 1 .. Len(queue') /\ queue'[i - 1] = f
                        BY <2>2, <2>6, <3>2, <4>2
                    <5> QED
                        BY <2>8, <5>1
                <4> QED
                    BY <4>1, <4>2
            <3> QED
                BY <2>2, <2>3, <2>8, <3>1, <3>2 DEF InQueue
        <2>10. Replies' = Replies /\ (Awaited' <=> Awaited) /\ reads' = reads
            BY <2>5 DEF Replies, Awaited
        <2>11. Applied = {}
            BY <2>7 DEF Applied
        <2>12. e \in Pending /\ Pending \subseteq Pending' \cup {e}
            BY <2>9, <2>10, <2>11 DEF Pending
        <2>13. e.kind = "turnCompleted" =>
                  /\ queue' # <<>> /\ queue'[1] \in InQueue'
                  /\ queue'[1].kind # "turnCompleted" /\ queue'[1].seq = e.seq + 1
            <3> SUFFICES ASSUME e.kind = "turnCompleted"
                         PROVE  /\ queue' # <<>> /\ queue'[1] \in InQueue'
                                /\ queue'[1].kind # "turnCompleted" /\ queue'[1].seq = e.seq + 1
                OBVIOUS
            <3>1. 1 + 1 \in 1 .. Len(queue) /\ queue[1 + 1].kind # "turnCompleted"
                  /\ queue[1 + 1].seq = e.seq + 1
                BY <2>2, <2>3 DEF WireSound
            <3>2. 1 \in 1 .. Len(queue') /\ queue'[1] = queue[1 + 1]
                BY <2>2, <2>6, <3>1
            <3>3. queue' # <<>>
                BY <3>2
            <3> QED
                BY <2>8, <3>1, <3>2, <3>3
        <2> QED
            BY <2>3, <2>4, <2>5, <2>7, <2>9, <2>10, <2>12, <2>13 DEF Takes
    <1>2. ASSUME NEW r \in reads, ApplyRead(r) PROVE \E e \in Heard : Takes(e)
        <2> DEFINE e == r.reply
        <2>1. /\ r.reply # Absent /\ Begin(e) /\ reads' = reads \ {r}
              /\ UNCHANGED <<serverVars, wireVars, epoch, conn, pairs, terms, removing, missed, losses>>
            BY <1>2 DEF ApplyRead
        <2>2. e \in Heard /\ r.conn \in 1 .. MaxConns /\ epoch \in 0 .. MaxConns
            BY <2>1 DEF ObserverTypeOK
        <2>3. e.read = r.conn /\ e.seq \in 1 .. seq /\ e.kind # "turnCompleted" /\ e.read # 0
            BY <2>1, <2>2 DEF WireSound
        <2>4. queue' = queue /\ seq' = seq
            BY <2>1 DEF wireVars
        <2> HIDE DEF e
        <2>5. busy = Absent /\ (Ignored(e) \/ Ended(e) \/ Moved(e))
            BY <2>1, <2>2, BeginFacts
        <2>6. InQueue' = InQueue /\ reads' \subseteq reads /\ (Awaited' <=> Awaited)
            BY <2>1, <2>4 DEF InQueue, Awaited
        <2>7. Replies' \subseteq Replies /\ Replies \subseteq Replies' \cup {e}
            BY <2>1 DEF Replies, e
        <2>8. r.conn = epoch => e \in Replies
            BY <2>1 DEF Replies, e
        <2>9. Applied = {} /\ (busy' = Absent => Applied' = {})
            BY <2>5 DEF Applied
        <2>10. e \in Pending => Pending \subseteq Pending' \cup {e}
            BY <2>6, <2>7, <2>9 DEF Pending
        <2>11. CASE r.conn = epoch /\ conn # "none"
            <3>1. e \in Pending
                BY <2>8, <2>11 DEF Pending
            <3> QED
                BY <2>1, <2>2, <2>3, <2>4, <2>5, <2>6, <2>7, <2>8, <2>10, <2>11, <3>1 DEF Takes
        <2>12. CASE ~(r.conn = epoch /\ conn # "none")
            <3>1. Stale(e)
                BY <2>3, <2>12 DEF Stale
            <3>2. Ignored(e)
                BY <2>5, <3>1 DEF Ended, Moved
            <3>3. CASE r.conn = epoch
                <4>1. e \in Pending
                    BY <2>8, <3>3 DEF Pending
                <4> QED
                    BY <2>1, <2>2, <2>3, <2>4, <2>5, <2>6, <2>7, <2>8, <2>10, <3>2, <3>3, <4>1
                       DEF Takes, Ignored
            <3>4. CASE r.conn # epoch
                <4>1. Replies' = Replies
                    BY <2>1, <3>4 DEF Replies
                <4>2. Pending' = Pending
                    BY <2>6, <2>9, <3>2, <4>1 DEF Pending, Ignored
                <4> QED
                    BY <2>1, <2>2, <2>3, <2>4, <2>5, <2>6, <2>7, <3>2, <4>2 DEF Takes, Ignored
            <3> QED
                BY <3>3, <3>4
        <2> QED
            BY <2>11, <2>12
    <1> QED
        BY <1>1, <1>2 DEF EvidenceStep

(* What was looked up is recorded, or lost.                                *)
Wrote(e, p) ==
    /\ record' \in Policy!Record
    /\ IF p.established THEN record'.terminal = record.terminal /\ holder' = holder
                        ELSE /\ record'.terminal = p.terminal /\ holder' = p.terminal
                             /\ terms[p.terminal] \in {"running", "missing", "exited"}
    /\ StatusOf(e) = Absent =>
          record'.status = IF ~p.established /\ record = Absent THEN "unknown" ELSE record.status
    /\ StatusOf(e) # Absent /\ record'.status # StatusOf(e) =>
          /\ p.established /\ holder = Absent /\ record'.status = record.status
          /\ Policy!IsLive(StatusOf(e))
    /\ pair' = IF pair = p THEN [pair EXCEPT !.established = TRUE,
                                   !.last = IF StatusOf(e) = Absent THEN @ ELSE StatusOf(e)]
               ELSE pair
    /\ missed' = IF StatusOf(e) = Absent THEN missed ELSE e.seq <= p.since /\ p.resumed
    /\ losses' = losses

LEMMA RecordedFacts ==
    ASSUME ObserverTypeOK, BusySound, PairSound, Recorded
    PROVE  LET e == busy.evidence
               p == busy.pair
           IN
           /\ busy # Absent /\ busy' = Absent /\ e \in Heard /\ p \in Pairings
           /\ UNCHANGED <<serverVars, wireVars, epoch, conn, reads, pairs, terms, removing, cut>>
           /\ \/ Wrote(e, p)
              \/ missed' = TRUE /\ losses' \in 0 .. MaxLosses /\ UNCHANGED <<pair, threadVars>>
    <1> DEFINE e == busy.evidence
               p == busy.pair
    <1>1. busy # Absent /\ busy \in [evidence : Heard, pair : Pairings]
        BY DEF Recorded, ObserverTypeOK
    <1>2. e \in Heard /\ p \in Pairings /\ p.terminal \in Hosts
        BY <1>1 DEF Pairings
    <1>3. pair # Absent /\ pair \in Pairings
          /\ (pair = p \/ (p.id < pair.id /\ ~pair.established))
          /\ (p.established => record # Absent)
        BY <1>1 DEF BusySound, ObserverTypeOK
    <1>4. pair = Absent \/ pair.id # p.id <=> pair # p
        BY <1>2, <1>3 DEF Pairings
    <1>5. /\ busy' = Absent
          /\ UNCHANGED <<serverVars, wireVars, epoch, conn, reads, pairs, terms, removing, cut>>
        BY DEF Recorded
    <1>6. \/ /\ IF p.established THEN StatusHeard(e) ELSE SessionHeard(p.terminal, e)
             /\ pair' = IF pair = Absent \/ pair.id # p.id THEN pair
                        ELSE [pair EXCEPT !.established = TRUE,
                                          !.last = IF StatusOf(e) = Absent THEN @ ELSE StatusOf(e)]
             /\ missed' = IF StatusOf(e) = Absent THEN missed ELSE e.seq <= p.since /\ p.resumed
             /\ UNCHANGED losses
          \/ missed' = TRUE /\ UNCHANGED <<pair, threadVars, losses>>
          \/ Lose /\ missed' = TRUE /\ UNCHANGED <<pair, threadVars>>
        BY DEF Recorded
    <1> HIDE DEF e, p
    <1>7. Lose => losses' \in 0 .. MaxLosses
        BY ObserverAssumption DEF Lose, ObserverTypeOK
    <1>8. losses \in 0 .. MaxLosses
        BY DEF ObserverTypeOK
    <1>9. ASSUME p.established, StatusHeard(e)
          PROVE  /\ record' \in Policy!Record
                 /\ record'.terminal = record.terminal /\ holder' = holder
                 /\ StatusOf(e) = Absent => record'.status = record.status
                 /\ StatusOf(e) # Absent /\ record'.status # StatusOf(e) =>
                       /\ holder = Absent /\ record'.status = record.status
                       /\ Policy!IsLive(StatusOf(e))
        BY <1>2, <1>3, <1>9, StatusHeardFacts
    <1>10. ASSUME SessionHeard(p.terminal, e)
          PROVE  /\ record' \in Policy!Record
                 /\ record'.terminal = p.terminal /\ holder' = p.terminal
                 /\ terms[p.terminal] \in {"running", "missing", "exited"}
                 /\ StatusOf(e) = Absent =>
                      record'.status = IF record = Absent THEN "unknown" ELSE record.status
                 /\ StatusOf(e) # Absent => record'.status = StatusOf(e)
        BY <1>2, <1>10, SessionHeardFacts
    <1>11. CASE /\ IF p.established THEN StatusHeard(e) ELSE SessionHeard(p.terminal, e)
                /\ pair' = IF pair = Absent \/ pair.id # p.id THEN pair
                           ELSE [pair EXCEPT !.established = TRUE,
                                             !.last = IF StatusOf(e) = Absent THEN @ ELSE StatusOf(e)]
                /\ missed' = IF StatusOf(e) = Absent THEN missed ELSE e.seq <= p.since /\ p.resumed
                /\ UNCHANGED losses
        <2>1. ASSUME p.established PROVE Wrote(e, p)
            BY <1>4, <1>9, <1>11, <2>1, Zenon DEF Wrote
        <2>2. ASSUME ~p.established PROVE Wrote(e, p)
            BY <1>4, <1>10, <1>11, <2>2, Zenon DEF Wrote
        <2> QED
            BY <1>1, <1>2, <1>5, <2>1, <2>2 DEF e, p
    <1> QED
        BY <1>1, <1>2, <1>5, <1>6, <1>7, <1>8, <1>11 DEF e, p

(* A pairing that moves on, is established, or has told a status.          *)
SamePairing(p, q) ==
    /\ q.id = p.id /\ q.terminal = p.terminal /\ (q.resumed <=> p.resumed) /\ q.since = p.since

LEMMA PairMoves ==
    ASSUME NEW p \in Pairings, NEW n \in Nat
    PROVE  LET q == [p EXCEPT !.seq = n] IN
           /\ q \in Pairings /\ q # Absent /\ SamePairing(p, q)
           /\ (q.established <=> p.established) /\ q.last = p.last /\ q.seq = n
    <1> DEFINE q == [p EXCEPT !.seq = n]
    <1>1. q \in Pairings
        BY DEF Pairings
    <1>2. q.resumed = p.resumed /\ q.established = p.established
        BY DEF Pairings
    <1>3. q.id = p.id /\ q.terminal = p.terminal /\ q.since = p.since /\ q.last = p.last /\ q.seq = n
        BY DEF Pairings
    <1> HIDE DEF q
    <1>4. q # Absent
        BY <1>1, ObserverAssumption
    <1> QED
        BY <1>1, <1>2, <1>3, <1>4, Zenon DEF q, SamePairing

LEMMA PairRecords ==
    ASSUME NEW p \in Pairings, NEW s \in Policy!Status \cup {Absent}
    PROVE  LET q == [p EXCEPT !.established = TRUE, !.last = s] IN
           /\ q \in Pairings /\ q # Absent /\ SamePairing(p, q)
           /\ q.established /\ q.last = s /\ q.seq = p.seq
    <1> DEFINE q == [p EXCEPT !.established = TRUE, !.last = s]
    <1>1. q \in Pairings
        BY DEF Pairings
    <1>2. q.resumed = p.resumed /\ q.established = TRUE
        BY DEF Pairings
    <1>3. q.id = p.id /\ q.terminal = p.terminal /\ q.since = p.since /\ q.last = s /\ q.seq = p.seq
        BY DEF Pairings
    <1> HIDE DEF q
    <1>4. q # Absent
        BY <1>1, ObserverAssumption
    <1> QED
        BY <1>1, <1>2, <1>3, <1>4, Zenon DEF q, SamePairing

LEMMA PairTold ==
    ASSUME NEW p \in Pairings, NEW s \in Policy!Status \cup {Absent}
    PROVE  LET q == [p EXCEPT !.last = s] IN
           /\ q \in Pairings /\ q # Absent /\ SamePairing(p, q)
           /\ (q.established <=> p.established) /\ q.last = s /\ q.seq = p.seq
    <1> DEFINE q == [p EXCEPT !.last = s]
    <1>1. q \in Pairings
        BY DEF Pairings
    <1>2. q.resumed = p.resumed /\ q.established = p.established
        BY DEF Pairings
    <1>3. q.id = p.id /\ q.terminal = p.terminal /\ q.since = p.since /\ q.last = s /\ q.seq = p.seq
        BY DEF Pairings
    <1> HIDE DEF q
    <1>4. q # Absent
        BY <1>1, ObserverAssumption
    <1> QED
        BY <1>1, <1>2, <1>3, <1>4, Zenon DEF q, SamePairing

(* What becomes of the pairing when evidence moves it on, and is recorded. *)
LEMMA MovedFacts ==
    ASSUME ObserverTypeOK, NEW e \in Heard, Moved(e)
    PROVE  /\ pair # Absent /\ pair \in Pairings /\ pair' \in Pairings /\ pair' # Absent
           /\ SamePairing(pair, pair') /\ (pair'.established <=> pair.established)
           /\ pair'.last = pair.last /\ pair'.seq = e.seq
    <1>1. pair # Absent /\ pair \in Pairings /\ e.seq \in Nat /\ pair' = [pair EXCEPT !.seq = e.seq]
        BY DEF Moved, ObserverTypeOK, Heard
    <1> QED
        BY <1>1, PairMoves

LEMMA WroteFacts ==
    ASSUME NEW e \in Heard, NEW p \in Pairings, Wrote(e, p)
    PROVE  /\ pair # p => pair' = pair
           /\ pair = p =>
                /\ pair' # Absent /\ SamePairing(p, pair') /\ pair'.established
                /\ pair'.seq = p.seq
                /\ pair'.last = IF StatusOf(e) = Absent THEN p.last ELSE StatusOf(e)
    <1>1. CASE pair # p
        BY <1>1 DEF Wrote
    <1>2. CASE pair = p
        <2> DEFINE last == IF StatusOf(e) = Absent THEN p.last ELSE StatusOf(e)
        <2>1. last \in Policy!Status \cup {Absent}
            BY Reported DEF Pairings
        <2>2. pair' = [p EXCEPT !.established = TRUE, !.last = last]
            BY <1>2 DEF Wrote
        <2> HIDE DEF last
        <2>3. /\ pair' # Absent /\ SamePairing(p, pair') /\ pair'.established
              /\ pair'.seq = p.seq /\ pair'.last = last
            BY <2>1, <2>2, PairRecords
        <2> QED
            BY <1>2, <2>3 DEF last
    <1> QED
        BY <1>1, <1>2

(* The connection is torn down: what it backed is given up, or missed.     *)
LEMMA TeardownFacts ==
    ASSUME ObserverTypeOK, EstablishedSound, PairSound, TermsSound, Teardown
    PROVE  /\ conn = "joined" /\ conn' = "none" /\ busy = Absent
           /\ UNCHANGED <<serverVars, wireVars, epoch, reads, busy, pairs, terms, removing>>
           /\ cut \subseteq cut' /\ cut' \subseteq Hosts
           /\ record' \in Policy!Record \cup {Absent} /\ (record' = Absent <=> record = Absent)
           /\ record # Absent => record'.terminal = record.terminal
           /\ holder' \in {holder, Absent} /\ losses' \in 0 .. MaxLosses
           /\ \/ UNCHANGED <<pair, threadVars>> /\ (missed' \/ ~Coerces)
                 /\ missed' \in {missed, TRUE}
              \/ /\ pair # Absent /\ pair.established /\ missed' = missed
                 /\ pair' = [pair EXCEPT !.last = "unknown"]
                 /\ pair' # Absent /\ SamePairing(pair, pair') /\ pair'.established
                 /\ pair'.last = "unknown" /\ pair'.seq = pair.seq
                 /\ record # Absent /\ record'.status = "unknown"
              \/ /\ pair # Absent /\ pair' = Absent /\ missed' = missed
                 /\ terms[pair.terminal] \in {"missing", "exited", "deleted"}
                 /\ terms[pair.terminal] = "missing" => pair.terminal \in cut'
    <1>1. /\ conn = "joined" /\ conn' = "none" /\ busy = Absent
          /\ UNCHANGED <<serverVars, wireVars, epoch, reads, busy, pairs, terms, removing>>
        BY DEF Teardown
    <1>2. record \in Policy!Record \cup {Absent} /\ losses \in 0 .. MaxLosses /\ cut \subseteq Hosts
        BY DEF ObserverTypeOK
    <1>3. Lose => losses' \in 0 .. MaxLosses
        BY ObserverAssumption DEF Lose, ObserverTypeOK
    <1>4. CASE ~Coerces
        BY <1>1, <1>2, <1>4 DEF Teardown, threadVars
    <1>5. CASE Coerces
        <2>1. pair # Absent /\ pair.established /\ pair \in Pairings /\ pair.terminal \in Hosts
              /\ record # Absent
            BY <1>5 DEF Coerces, ObserverTypeOK, Pairings, EstablishedSound
        <2>2. \/ /\ StatusHeard(Unknown)
                 /\ pair' = [pair EXCEPT !.last = "unknown"] /\ UNCHANGED <<missed, cut, losses>>
              \/ Lose /\ missed' = TRUE /\ UNCHANGED <<pair, threadVars, cut>>
              \/ /\ NotLive(pair.terminal) /\ Released(pair.terminal) /\ pair' = Absent
                 /\ cut' = CutOff(pair.terminal) /\ UNCHANGED <<missed, losses>>
              \/ /\ terms[pair.terminal] = "deleted" /\ pair' = Absent
                 /\ UNCHANGED <<threadVars, missed, cut, losses>>
            BY <1>5 DEF Teardown
        <2>3. CASE /\ StatusHeard(Unknown)
                   /\ pair' = [pair EXCEPT !.last = "unknown"] /\ UNCHANGED <<missed, cut, losses>>
            <3>1. Unknown \in Heard /\ StatusOf(Unknown) = "unknown" /\ "unknown" # Absent
                  /\ ~Policy!IsLive("unknown")
                <4>1. "unknown" \in Policy!Status
                    BY DEF Policy!Status
                <4> QED
                    BY <4>1, ObserverAssumption
                       DEF Unknown, Heard, HeardKinds, StatusOf, Policy!IsLive, Policy!LiveStatus
            <3>2. /\ record' \in Policy!Record /\ record'.terminal = record.terminal
                  /\ holder' = holder /\ record'.status = "unknown"
                BY <2>1, <2>3, <3>1, StatusHeardFacts
            <3>3. record' # Absent
                BY <3>2, ObserverAssumption
            <3>4. "unknown" \in Policy!Status \cup {Absent}
                BY DEF Policy!Status
            <3>5. /\ pair' # Absent /\ SamePairing(pair, pair') /\ pair'.established
                  /\ pair'.last = "unknown" /\ pair'.seq = pair.seq
                BY <2>1, <2>3, <3>4, PairTold
            <3> QED
                BY <1>1, <1>2, <2>1, <2>3, <3>2, <3>3, <3>5
        <2>4. CASE Lose /\ missed' = TRUE /\ UNCHANGED <<pair, threadVars, cut>>
            BY <1>1, <1>2, <1>3, <2>1, <2>4 DEF threadVars
        <2>5. CASE /\ NotLive(pair.terminal) /\ Released(pair.terminal) /\ pair' = Absent
                   /\ cut' = CutOff(pair.terminal) /\ UNCHANGED <<missed, losses>>
            <3>1. /\ record' \in Policy!Record \cup {Absent} /\ (record' = Absent <=> record = Absent)
                  /\ record # Absent => record'.terminal = record.terminal
                  /\ holder' \in {holder, Absent}
                BY <2>1, <2>5, ReleasedFacts
            <3>2. /\ cut \subseteq cut' /\ cut' \subseteq Hosts
                  /\ terms[pair.terminal] \in {"missing", "exited", "deleted"}
                  /\ terms[pair.terminal] = "missing" => pair.terminal \in cut'
                BY <1>2, <2>1, <2>5 DEF NotLive, CutOff
            <3> QED
                BY <1>1, <1>2, <2>1, <2>5, <3>1, <3>2
        <2>6. CASE /\ terms[pair.terminal] = "deleted" /\ pair' = Absent
                   /\ UNCHANGED <<threadVars, missed, cut, losses>>
            BY <1>1, <1>2, <2>1, <2>6 DEF threadVars
        <2> QED
            BY <2>2, <2>3, <2>4, <2>5, <2>6
    <1> QED
        BY <1>4, <1>5

LEMMA PairingFacts ==
    ASSUME ObserverTypeOK, NEW t \in Hosts, NEW resumed \in BOOLEAN, NEW prompt \in BOOLEAN,
           Pairing(t, resumed, prompt)
    PROVE  /\ pair' \in Pairings /\ pair' # Absent /\ pairs' = pairs + 1 /\ pairs' \in Nat
           /\ pair'.id = pairs' /\ pair'.terminal = t /\ pair'.resumed = resumed
           /\ ~pair'.established /\ pair'.last = Absent /\ pair'.seq = 0
           /\ pair'.since = IF resumed THEN seq ELSE 0
    <1>1. pairs \in Nat /\ seq \in Nat
        BY DEF ObserverTypeOK
    <1>2. (IF resumed THEN seq ELSE 0) \in Nat
        BY <1>1
    <1>3. /\ pairs' = pairs + 1
          /\ pair' = [id |-> pairs', terminal |-> t, resumed |-> resumed, prompt |-> prompt,
                      established |-> FALSE, last |-> Absent, seq |-> 0,
                      since |-> IF resumed THEN seq ELSE 0]
        BY DEF Pairing
    <1>4. pair' \in Pairings
        BY <1>1, <1>2, <1>3 DEF Pairings
    <1>5. pair' # Absent
        BY <1>4, ObserverAssumption
    <1>6. pair'.resumed = resumed /\ ~pair'.established
        BY <1>3, Zenon
    <1> QED
        BY <1>1, <1>3, <1>4, <1>5, <1>6

(* The flags, and the rest, of the type invariant.                         *)
FlagsOK == loaded \in BOOLEAN /\ missed \in BOOLEAN

PartsOK ==
    /\ activity \in {"idle", "working"} /\ turns \in 0 .. MaxTurns
    /\ seq \in Nat /\ epoch \in 0 .. MaxConns /\ conn \in {"none", "open", "failing", "joined"}
    /\ queue \in Seq(Heard)
    /\ reads \subseteq [conn : 1 .. MaxConns, reply : Heard \cup {Absent}]
    /\ pair \in Pairings \cup {Absent} /\ pairs \in Nat
    /\ busy \in [evidence : Heard, pair : Pairings] \cup {Absent}
    /\ terms \in [Hosts -> {"unborn", "creating", "running", "missing", "exited", "deleted"}]
    /\ removing \in [Hosts -> {"no", "forget", "converge"}]
    /\ record \in Policy!Record \cup {Absent} /\ holder \in Hosts \cup {Absent}
    /\ cut \subseteq Hosts /\ losses \in 0 .. MaxLosses

LEMMA TypesSplit == ObserverTypeOK <=> FlagsOK /\ PartsOK
    BY Zenon DEF ObserverTypeOK, FlagsOK, PartsOK

LEMMA FlagsStep ==
    ASSUME FlagsOK, ObserverTypeOK, ServerSound, FreshSound, BusySound, PairSound, EstablishedSound,
           TermsSound, WireSound, [ObserverNext]_observerVars
    PROVE  FlagsOK'
    <1>1. CASE ServerMoves
        BY <1>1, ServerMovesFacts DEF FlagsOK
    <1>2. CASE EvidenceStep
        BY <1>2, EvidenceTaken DEF FlagsOK, Takes, serverVars
    <1>3. CASE Recorded
        <2>1. loaded' = loaded
            BY <1>3 DEF Recorded, serverVars
        <2>2. missed' \in BOOLEAN
            <3> DEFINE old == busy.evidence.seq <= busy.pair.since /\ busy.pair.resumed
            <3>1. old \in BOOLEAN
                BY DEF old
            <3>2. missed' = (IF StatusOf(busy.evidence) = Absent THEN missed ELSE old) \/ missed' = TRUE
                BY <1>3, Zenon DEF Recorded
            <3> HIDE DEF old
            <3> QED
                BY <3>1, <3>2 DEF FlagsOK
        <2> QED
            BY <2>1, <2>2 DEF FlagsOK
    <1>4. CASE Teardown
        BY <1>4, TeardownFacts DEF FlagsOK, serverVars
    <1>5. CASE Connect \/ Fail \/ Join \/ UNCHANGED observerVars
        BY <1>5 DEF Connect, Fail, Join, FlagsOK, serverVars, observerVars
    <1>6. ASSUME NEW r \in reads, Answer(r) \/ ReadFails(r) PROVE FlagsOK'
        BY <1>6 DEF Answer, ReadFails, FlagsOK, serverVars
    <1>7. ASSUME NEW t \in Hosts,
                 \/ Bind(t) \/ HoldResume(t) \/ Created(t) \/ TerminalExits(t) \/ TerminalFlaps(t) \/ Sweep(t)
                 \/ DeleteRow(t) \/ Forget(t) \/ TerminalRemoved(t)
          PROVE  FlagsOK'
        BY <1>7 DEF Bind, HoldResume, Created, TerminalExits, TerminalFlaps, Sweep, DeleteRow, Forget,
           TerminalRemoved, FlagsOK, serverVars
    <1> QED
        BY <1>1, <1>2, <1>3, <1>4, <1>5, <1>6, <1>7 DEF ObserverNext, ServerMoves, EvidenceStep

LEMMA PartsStep ==
    ASSUME PartsOK, ObserverTypeOK, ServerSound, FreshSound, BusySound, PairSound, EstablishedSound,
           TermsSound, WireSound, [ObserverNext]_observerVars
    PROVE  PartsOK'
    <1>0. MaxConns \in Nat /\ MaxLosses \in Nat
        BY ObserverAssumption
    <1>1. CASE ServerMoves
        BY <1>1, ServerMovesFacts DEF PartsOK, threadVars
    <1>2. CASE EvidenceStep
        <2>1. PICK e \in Heard : Takes(e)
            BY <1>2, EvidenceTaken
        <2>2. queue' \in Seq(Heard)
            <3>1. CASE Dispatch
                BY <3>1 DEF Dispatch, PartsOK
            <3>2. CASE \E r \in reads : ApplyRead(r)
                BY <3>2 DEF ApplyRead, PartsOK, wireVars
            <3> QED
                BY <1>2, <3>1, <3>2 DEF EvidenceStep
        <2>3. /\ pair' \in Pairings \cup {Absent} /\ cut' \subseteq Hosts
              /\ busy' \in [evidence : Heard, pair : Pairings] \cup {Absent}
              /\ record' \in Policy!Record \cup {Absent} /\ holder' \in Hosts \cup {Absent}
            <3>1. CASE Ignored(e)
                BY <3>1 DEF Ignored, PartsOK, threadVars
            <3>2. CASE Ended(e)
                <4>1. pair.terminal \in Hosts
                    BY <3>2 DEF Ended, PartsOK, Pairings
                <4> QED
                    BY <3>2, <4>1 DEF Ended, PartsOK
            <3>3. CASE Moved(e)
                <4>1. pair \in Pairings /\ e.seq \in Nat
                    BY <3>3 DEF Moved, PartsOK, Heard
                <4>2. [pair EXCEPT !.seq = e.seq] \in Pairings
                    BY <4>1 DEF Pairings
                <4>3. pair' \in Pairings /\ UNCHANGED <<threadVars, cut>>
                    BY <3>3, <4>2 DEF Moved
                <4>4. busy' \in [evidence : Heard, pair : Pairings] \cup {Absent}
                    BY <3>3, <4>3 DEF Moved
                <4> QED
                    BY <4>3, <4>4 DEF PartsOK, threadVars
            <3> QED
                BY <2>1, <3>1, <3>2, <3>3 DEF Takes
        <2> QED
            BY <2>1, <2>2, <2>3 DEF Takes, PartsOK, serverVars
    <1>3. CASE Recorded
        <2> DEFINE e == busy.evidence
                   p == busy.pair
        <2>1. /\ busy # Absent /\ busy' = Absent /\ e \in Heard /\ p \in Pairings
              /\ UNCHANGED <<serverVars, wireVars, epoch, conn, reads, pairs, terms, removing, cut>>
              /\ \/ Wrote(e, p)
                 \/ missed' = TRUE /\ losses' \in 0 .. MaxLosses /\ UNCHANGED <<pair, threadVars>>
            BY <1>3, RecordedFacts
        <2> HIDE DEF e, p
        <2>2. CASE Wrote(e, p)
            <3>1. p.terminal \in Hosts /\ StatusOf(e) \in Policy!Status \cup {Absent}
                BY <2>1, Reported DEF Pairings
            <3>2. pair' \in Pairings \cup {Absent}
                <4>1. CASE pair = p
                    <5> DEFINE last == IF StatusOf(e) = Absent THEN p.last ELSE StatusOf(e)
                    <5>1. last \in Policy!Status \cup {Absent}
                        BY <2>1, <3>1 DEF Pairings
                    <5>2. pair' = [p EXCEPT !.established = TRUE, !.last = last]
                        BY <2>2, <4>1 DEF Wrote
                    <5> HIDE DEF last
                    <5> QED
                        BY <2>1, <5>1, <5>2 DEF Pairings
                <4>2. CASE pair # p
                    BY <2>2, <4>2 DEF Wrote, PartsOK
                <4> QED
                    BY <4>1, <4>2
            <3>3. record' \in Policy!Record \cup {Absent} /\ holder' \in Hosts \cup {Absent}
                  /\ losses' = losses
                BY <2>2, <3>1 DEF Wrote, PartsOK
            <3> QED
                BY <2>1, <3>2, <3>3 DEF PartsOK, serverVars, wireVars
        <2>3. CASE missed' = TRUE /\ losses' \in 0 .. MaxLosses /\ UNCHANGED <<pair, threadVars>>
            BY <2>1, <2>3 DEF PartsOK, serverVars, wireVars, threadVars
        <2> QED
            BY <2>1, <2>2, <2>3
    <1>4. CASE Teardown
        <2>1. /\ conn' = "none" /\ busy = Absent
              /\ UNCHANGED <<serverVars, wireVars, epoch, reads, busy, pairs, terms, removing>>
              /\ cut' \subseteq Hosts /\ record' \in Policy!Record \cup {Absent}
              /\ holder' \in {holder, Absent} /\ losses' \in 0 .. MaxLosses
            BY <1>4, TeardownFacts
        <2>2. pair' = pair \/ (pair # Absent /\ pair' = [pair EXCEPT !.last = "unknown"]) \/ pair' = Absent
            BY <1>4, TeardownFacts
        <2>3. pair' \in Pairings \cup {Absent}
            <3>1. "unknown" \in Policy!Status \cup {Absent}
                BY DEF Policy!Status
            <3>2. pair # Absent => pair \in Pairings
                BY DEF PartsOK
            <3> QED
                BY <2>2, <3>1, <3>2, PairTold DEF PartsOK
        <2> QED
            BY <2>1, <2>3 DEF PartsOK, serverVars, wireVars
    <1>5. CASE Connect
        <2>1. epoch + 1 \in 1 .. MaxConns
            BY <1>0, <1>5 DEF Connect, PartsOK
        <2>2. epoch' = epoch + 1 /\ reads' \subseteq reads \cup {[conn |-> epoch', reply |-> Absent]}
            BY <1>5 DEF Connect, Reconciling
        <2> QED
            BY <1>0, <1>5, <2>1, <2>2 DEF Connect, PartsOK, serverVars, wireVars, threadVars
    <1>6. CASE Fail \/ Join \/ UNCHANGED observerVars
        <2>1. CASE Fail
            BY <2>1 DEF Fail, PartsOK, serverVars, wireVars, threadVars
        <2>2. CASE Join
            BY <2>2 DEF Join, PartsOK, serverVars, threadVars
        <2>3. CASE UNCHANGED observerVars
            BY <2>3 DEF PartsOK, observerVars
        <2> QED
            BY <1>6, <2>1, <2>2, <2>3
    <1>7. ASSUME NEW r \in reads, Answer(r) PROVE PartsOK'
        <2> DEFINE reply == [kind |-> IF loaded THEN activity ELSE "notLoaded", turn |-> 0,
                             seq |-> seq', read |-> r.conn]
        <2>1. r.conn \in 1 .. MaxConns /\ seq' = seq + 1 /\ seq \in Nat
              /\ r = [conn |-> r.conn, reply |-> r.reply]
            BY <1>7 DEF Answer, PartsOK
        <2>2. (IF loaded THEN activity ELSE "notLoaded") \in HeardKinds
            BY DEF HeardKinds, PartsOK
        <2>3. reply \in Heard
            BY <1>0, <2>1, <2>2, ObserverAssumption DEF Heard
        <2>4. reads' = (reads \ {r}) \cup {[r EXCEPT !.reply = reply]}
            BY <1>7 DEF Answer
        <2> HIDE DEF reply
        <2>5. [r EXCEPT !.reply = reply] \in [conn : 1 .. MaxConns, reply : Heard \cup {Absent}]
            BY <2>1, <2>3
        <2> QED
            BY <1>7, <2>1, <2>4, <2>5 DEF Answer, PartsOK, serverVars, threadVars
    <1>8. ASSUME NEW r \in reads, ReadFails(r) PROVE PartsOK'
        BY <1>0, <1>8 DEF ReadFails, Lose, PartsOK, serverVars, wireVars, threadVars
    <1>9. ASSUME NEW t \in Hosts, Bind(t) PROVE PartsOK'
        <2>1. PICK prompt \in BOOLEAN : Pairing(t, FALSE, prompt) /\ turns' = IF prompt THEN 1 ELSE 0
            BY <1>9 DEF Bind
        <2>2. pair' \in Pairings /\ pairs' \in Nat
            BY <2>1, PairingFacts
        <2>3. turns' \in 0 .. MaxTurns
            BY <2>1, ObserverAssumption
        <2>4. reads' \subseteq [conn : 1 .. MaxConns, reply : Heard \cup {Absent}]
            BY <1>0, <1>9 DEF Bind, Reconciling, WireSound, PartsOK
        <2> QED
            BY <1>9, <2>2, <2>3, <2>4 DEF Bind, PartsOK, wireVars, threadVars
    <1>10. ASSUME NEW t \in Hosts, HoldResume(t) PROVE PartsOK'
        <2>1. pair' \in Pairings /\ pairs' \in Nat
            BY <1>10, PairingFacts DEF HoldResume
        <2>2. cut' \subseteq Hosts
            BY <1>10 DEF HoldResume, PartsOK
        <2> QED
            BY <1>10, <2>1, <2>2 DEF HoldResume, PartsOK, serverVars, wireVars, threadVars
    <1>11. ASSUME NEW t \in Hosts, Created(t) PROVE PartsOK'
        <2>1. record # Absent /\ record \in Policy!Record
            BY <1>11 DEF Created, TermsSound, PairSound, PartsOK
        <2>2. [record EXCEPT !.terminal = t] \in Policy!Record
            BY <2>1 DEF Policy!Record
        <2>3. /\ record' \in Policy!Record \cup {Absent} /\ holder' = holder
              /\ pair' \in Pairings \cup {Absent}
              /\ terms' \in [Hosts -> {"unborn", "creating", "running", "missing", "exited", "deleted"}]
            BY <1>11, <2>1, <2>2 DEF Created, PartsOK, threadVars
        <2>4. losses' \in 0 .. MaxLosses
            BY <1>0, <1>11 DEF Created, Lose, PartsOK
        <2> QED
            BY <1>11, <2>3, <2>4 DEF Created, PartsOK, serverVars, wireVars
    <1>12. ASSUME NEW t \in Hosts, TerminalExits(t) \/ TerminalFlaps(t) \/ DeleteRow(t) \/ Forget(t) PROVE PartsOK'
        BY <1>12 DEF TerminalExits, TerminalFlaps, DeleteRow, Forget, PartsOK, serverVars, wireVars, threadVars
    <1>13. ASSUME NEW t \in Hosts, Sweep(t) PROVE PartsOK'
        <2>1. record' \in Policy!Record \cup {Absent} /\ holder' \in Hosts \cup {Absent}
            BY <1>13, ReleasedFacts DEF Sweep, PartsOK
        <2> QED
            BY <1>13, <2>1 DEF Sweep, PartsOK, serverVars, wireVars
    <1>14. ASSUME NEW t \in Hosts, TerminalRemoved(t) PROVE PartsOK'
        <2>1. record' \in Policy!Record \cup {Absent} /\ holder' \in Hosts \cup {Absent}
            BY <1>14, RemovedFacts DEF PartsOK
        <2> QED
            BY <1>14, <2>1 DEF TerminalRemoved, PartsOK, serverVars, wireVars
    <1> QED
        BY <1>1, <1>2, <1>3, <1>4, <1>5, <1>6, <1>7, <1>8, <1>9, <1>10, <1>11, <1>12, <1>13, <1>14
           DEF ObserverNext, ServerMoves, EvidenceStep

LEMMA TypesStep ==
    ASSUME ObserverInv, [ObserverNext]_observerVars
    PROVE  ObserverTypeOK'
    <1>1. FlagsOK /\ PartsOK
        BY Zenon DEF ObserverInv, ObserverTypeOK, FlagsOK, PartsOK
    <1>2. FlagsOK' /\ PartsOK'
        BY <1>1, FlagsStep, PartsStep DEF ObserverInv
    <1> QED
        BY <1>2, Zenon DEF ObserverTypeOK, FlagsOK, PartsOK

(* The steps of a terminal's life that leave the wire and the reads alone. *)
TerminalStep(t) ==
    \/ HoldResume(t) \/ Created(t) \/ TerminalExits(t) \/ TerminalFlaps(t) \/ Sweep(t) \/ DeleteRow(t) \/ Forget(t)
    \/ TerminalRemoved(t)

LEMMA TerminalStepFrame ==
    ASSUME NEW t \in Hosts, TerminalStep(t)
    PROVE  UNCHANGED <<loaded, activity, turns, seq, queue, epoch, conn, reads, busy, missed>>
    BY DEF TerminalStep, HoldResume, Created, TerminalExits, TerminalFlaps, Sweep, DeleteRow, Forget,
       TerminalRemoved, serverVars, wireVars

LEMMA NextCases ==
    ASSUME [ObserverNext]_observerVars
    PROVE  \/ ServerMoves \/ Connect \/ Fail \/ Join \/ EvidenceStep \/ Recorded \/ Teardown
           \/ \E r \in reads : Answer(r) \/ ReadFails(r)
           \/ \E t \in Hosts : Bind(t) \/ TerminalStep(t)
           \/ UNCHANGED observerVars
    BY DEF ObserverNext, ServerMoves, EvidenceStep, TerminalStep

-----------------------------------------------------------------------------
(* The Codex observer: every step keeps every part of the invariant.       *)

LEMMA WireStep ==
    ASSUME ObserverInv, ObserverTypeOK', [ObserverNext]_observerVars
    PROVE  WireSound'
    <1>0. /\ ObserverTypeOK /\ WireSound /\ seq \in Nat /\ queue \in Seq(Heard) /\ Len(queue) \in Nat
          /\ epoch \in Nat
          /\ \A r \in reads : r.conn \in Nat \ {0}
        <2>1. ObserverTypeOK /\ WireSound
            BY Zenon DEF ObserverInv
        <2>2. seq \in Nat /\ queue \in Seq(Heard) /\ epoch \in Nat
            BY <2>1, ObserverAssumption DEF ObserverTypeOK
        <2>3. \A r \in reads : r.conn \in Nat \ {0}
            BY <2>1, ObserverAssumption DEF ObserverTypeOK
        <2> QED
            BY <2>1, <2>2, <2>3
    <1>1. CASE ServerMoves
        <2>1. /\ UNCHANGED <<epoch, conn, reads>> /\ queue' \in Seq(Heard) /\ seq' \in Nat
              /\ IF conn = "open" THEN Told ELSE UNCHANGED wireVars
            BY <1>1, ServerMovesFacts DEF ObserverInv
        <2>2. CASE conn # "open"
            BY <1>0, <2>1, <2>2 DEF WireSound, wireVars
        <2>3. CASE conn = "open"
            <3>0. Len(queue') \in Nat /\ Told
                BY <2>1, <2>3
            <3>1. \A i \in 1 .. Len(queue') : i \in 1 .. Len(queue) \/ i \in Len(queue) + 1 .. Len(queue')
                BY <1>0, <3>0 DEF Told
            <3>2. \A i \in 1 .. Len(queue') : queue'[i].read = 0 /\ queue'[i].seq \in 1 .. seq'
                BY <1>0, <2>1, <3>0, <3>1 DEF Told, WireSound
            <3>3. ASSUME NEW i \in 1 .. Len(queue'), queue'[i].kind = "turnCompleted"
                  PROVE  /\ i + 1 \in 1 .. Len(queue') /\ queue'[i + 1].kind # "turnCompleted"
                         /\ queue'[i + 1].seq = queue'[i].seq + 1
                <4>1. CASE i \in 1 .. Len(queue)
                    <5>1. /\ i + 1 \in 1 .. Len(queue) /\ queue[i + 1].kind # "turnCompleted"
                          /\ queue[i + 1].seq = queue[i].seq + 1
                        BY <3>0, <3>3, <4>1, <1>0 DEF Told, WireSound
                    <5>2. queue'[i] = queue[i] /\ queue'[i + 1] = queue[i + 1]
                          /\ i + 1 \in 1 .. Len(queue')
                        BY <1>0, <3>0, <4>1, <5>1 DEF Told
                    <5> QED
                        BY <5>1, <5>2
                <4>2. CASE i \in Len(queue) + 1 .. Len(queue')
                    BY <1>0, <3>0, <3>3, <4>2 DEF Told
                <4> QED
                    BY <3>1, <4>1, <4>2
            <3> QED
                BY <1>0, <2>1, <2>3, <3>0, <3>2, <3>3 DEF Told, WireSound
        <2> QED
            BY <2>2, <2>3
    <1>2. CASE Connect
        BY <1>0, <1>2 DEF Connect, Reconciling, WireSound, wireVars
    <1>3. CASE Fail
        BY <1>0, <1>3 DEF Fail, WireSound, wireVars
    <1>4. CASE Join
        BY <1>0, <1>4 DEF Join, WireSound
    <1>5. CASE EvidenceStep
        <2>1. CASE Dispatch
            <3>1. /\ queue # <<>> /\ queue' = Tail(queue) /\ conn \in {"open", "failing"}
                  /\ UNCHANGED <<seq, epoch, conn, reads>>
                BY <2>1 DEF Dispatch
            <3>2. /\ Len(queue') = Len(queue) - 1 /\ Len(queue') \in Nat
                  /\ \A i \in 1 .. Len(queue') : queue'[i] = queue[i + 1] /\ i + 1 \in 1 .. Len(queue)
                BY <1>0, <3>1
            <3>3. ASSUME NEW i \in 1 .. Len(queue'), queue'[i].kind = "turnCompleted"
                  PROVE  /\ i + 1 \in 1 .. Len(queue') /\ queue'[i + 1].kind # "turnCompleted"
                         /\ queue'[i + 1].seq = queue'[i].seq + 1
                <4>1. i + 1 + 1 \in 1 .. Len(queue) /\ queue[i + 1 + 1].kind # "turnCompleted"
                      /\ queue[i + 1 + 1].seq = queue[i + 1].seq + 1
                    BY <1>0, <3>2, <3>3 DEF WireSound
                <4>2. i + 1 \in 1 .. Len(queue')
                    BY <1>0, <3>2, <4>1
                <4> QED
                    BY <3>2, <4>1, <4>2
            <3> QED
                BY <1>0, <3>1, <3>2, <3>3 DEF WireSound
        <2>2. CASE \E r \in reads : ApplyRead(r)
            BY <1>0, <2>2 DEF ApplyRead, WireSound, wireVars
        <2> QED
            BY <1>5, <2>1, <2>2 DEF EvidenceStep
    <1>6. CASE Recorded
        BY <1>0, <1>6 DEF Recorded, WireSound, wireVars
    <1>7. CASE Teardown
        BY <1>0, <1>7 DEF Teardown, WireSound, wireVars
    <1>8. ASSUME NEW r \in reads, Answer(r) PROVE WireSound'
        <2>1. /\ seq' = seq + 1 /\ UNCHANGED <<queue, epoch, conn>>
              /\ reads' = (reads \ {r}) \cup
                    {[r EXCEPT !.reply = [kind |-> IF loaded THEN activity ELSE "notLoaded",
                                          turn |-> 0, seq |-> seq', read |-> r.conn]]}
            BY <1>8 DEF Answer
        <2>2. \A q \in reads' : q \in reads \/
                /\ q.conn = r.conn /\ q.reply.read = q.conn /\ q.reply.seq = seq + 1
                /\ q.reply.kind # "turnCompleted"
            BY <2>1, <1>0 DEF ObserverTypeOK
        <2> QED
            BY <1>0, <2>1, <2>2 DEF WireSound
    <1>9. ASSUME NEW r \in reads, ReadFails(r) PROVE WireSound'
        BY <1>0, <1>9 DEF ReadFails, WireSound, wireVars
    <1>10. ASSUME NEW t \in Hosts, Bind(t) PROVE WireSound'
        BY <1>0, <1>10 DEF Bind, Reconciling, WireSound, wireVars
    <1>11. ASSUME NEW t \in Hosts, TerminalStep(t) PROVE WireSound'
        BY <1>0, <1>11, TerminalStepFrame DEF WireSound
    <1>12. CASE UNCHANGED observerVars
        BY <1>0, <1>12 DEF WireSound, observerVars
    <1> QED
        BY <1>1, <1>2, <1>3, <1>4, <1>5, <1>6, <1>7, <1>8, <1>9, <1>10, <1>11, <1>12, NextCases

(* What is pending stays so, and is no newer, while nothing is received.   *)
LEMMA PendingKept ==
    ASSUME UNCHANGED <<queue, reads, epoch, busy>>
    PROVE  Pending' = Pending /\ InQueue' = InQueue /\ Replies' = Replies /\ Applied' = Applied
           /\ (Awaited' <=> Awaited)
    BY DEF Pending, InQueue, Replies, Applied, Awaited

LEMMA PendingFacts ==
    ASSUME ObserverTypeOK, WireSound, BusySound
    PROVE  \A e \in Pending : e \in Heard /\ e.seq \in 1 .. seq /\ e.read \in {0, epoch}
    <1>1. ASSUME NEW e \in InQueue PROVE e \in Heard /\ e.seq \in 1 .. seq /\ e.read \in {0, epoch}
        BY DEF InQueue, WireSound, ObserverTypeOK
    <1>2. ASSUME NEW e \in Replies PROVE e \in Heard /\ e.seq \in 1 .. seq /\ e.read \in {0, epoch}
        BY DEF Replies, WireSound, ObserverTypeOK
    <1>3. ASSUME NEW e \in Applied PROVE e \in Heard /\ e.seq \in 1 .. seq /\ e.read \in {0, epoch}
        BY DEF Applied, BusySound, ObserverTypeOK
    <1> QED
        BY <1>1, <1>2, <1>3 DEF Pending

(* The server told: what was pending is, and the last word with it.        *)
LEMMA ToldPending ==
    ASSUME ObserverTypeOK, ObserverTypeOK', WireSound, BusySound, Told, UNCHANGED <<reads, epoch, busy>>
    PROVE  /\ NewestPending'
           /\ \A e \in Pending' : e.seq = seq' =>
                IF loaded' THEN StatusOf(e) = activity' ELSE EndsSession(e)
           /\ \A e \in InQueue' : e \in InQueue \/ e.seq > seq
           /\ Replies' = Replies /\ Applied' = Applied
    <1>0. seq \in Nat /\ seq' \in Nat /\ Len(queue) \in Nat /\ Len(queue') \in Nat
        BY DEF ObserverTypeOK
    <1>1. Replies' = Replies /\ Applied' = Applied
        BY DEF Replies, Applied
    <1>2. InQueue' = {queue'[i] : i \in 1 .. Len(queue')}
        BY DEF InQueue
    <1>3. Len(queue') \in 1 .. Len(queue') /\ queue'[Len(queue')].seq = seq' /\ seq' > seq
        BY <1>0 DEF Told
    <1>4. queue'[Len(queue')] \in InQueue'
        BY <1>2, <1>3
    <1>5. NewestPending'
        BY <1>3, <1>4 DEF NewestPending, Pending
    <1>6. \A i \in 1 .. Len(queue') : i \in 1 .. Len(queue) \/ i \in Len(queue) + 1 .. Len(queue')
        BY <1>0, <1>3
    <1>7. ASSUME NEW e \in InQueue'
          PROVE  e \in InQueue \/
                   /\ e.seq > seq
                   /\ e.seq = seq' => IF loaded' THEN StatusOf(e) = activity' ELSE EndsSession(e)
        <2>1. PICK i \in 1 .. Len(queue') : e = queue'[i]
            BY <1>2
        <2>2. CASE i \in 1 .. Len(queue)
            BY <2>1, <2>2 DEF Told, InQueue
        <2>3. CASE i \in Len(queue) + 1 .. Len(queue')
            <3>1. queue'[i].seq \in seq + 1 .. seq'
                BY <2>3 DEF Told
            <3>2. e.seq > seq
                BY <1>0, <2>1, <3>1
            <3>3. e.seq = seq' => IF loaded' THEN StatusOf(e) = activity' ELSE EndsSession(e)
                BY <2>1, <2>3, Zenon DEF Told
            <3> QED
                BY <3>2, <3>3
        <2> QED
            BY <1>6, <2>2, <2>3
    <1>8. \A e \in Pending : e.seq \in 1 .. seq
        BY PendingFacts
    <1>9. ASSUME NEW e \in Pending', e.seq = seq'
          PROVE  IF loaded' THEN StatusOf(e) = activity' ELSE EndsSession(e)
        <2>1. e \notin Pending
            BY <1>0, <1>3, <1>8, <1>9
        <2>2. e \in InQueue' /\ e \notin InQueue
            BY <1>1, <2>1 DEF Pending
        <2> QED
            BY <1>7, <1>9, <2>2
    <1> QED
        BY <1>1, <1>5, <1>7, <1>9

LEMMA ServerStep ==
    ASSUME ObserverInv, ObserverTypeOK', [ObserverNext]_observerVars
    PROVE  ServerSound'
    <1>0. /\ ObserverTypeOK /\ WireSound /\ BusySound /\ ServerSound /\ FreshSound
          /\ \A e \in Pending : e.seq \in 1 .. seq
          /\ seq \in Nat /\ epoch \in Nat /\ activity \in {"idle", "working"}
        <2>1. ObserverTypeOK /\ WireSound /\ BusySound /\ ServerSound /\ FreshSound
            BY Zenon DEF ObserverInv
        <2>2. seq \in Nat /\ epoch \in Nat /\ activity \in {"idle", "working"}
            BY <2>1, ObserverAssumption DEF ObserverTypeOK
        <2>3. \A e \in Pending : e.seq \in 1 .. seq
            BY <2>1, PendingFacts
        <2> QED
            BY <2>1, <2>2, <2>3
    <1>1. CASE ServerMoves
        <2>1. /\ UNCHANGED <<epoch, conn, reads, busy>> /\ (~loaded' => activity' = "idle")
              /\ IF conn = "open" THEN Told ELSE UNCHANGED wireVars
            BY <1>0, <1>1, ServerMovesFacts
        <2>2. CASE conn = "open"
            BY <1>0, <2>1, <2>2, ToldPending DEF ServerSound, Tells
        <2>3. CASE conn # "open"
            BY <2>1, <2>3 DEF ServerSound
        <2> QED
            BY <2>2, <2>3
    <1>2. CASE Connect
        <2>1. conn = "none" /\ epoch' = epoch + 1 /\ queue' = queue /\ busy' = busy
              /\ loaded' = loaded /\ activity' = activity
              /\ reads' \subseteq reads \cup {[conn |-> epoch', reply |-> Absent]}
            BY <1>2 DEF Connect, Reconciling, serverVars, wireVars
        <2>2. busy = Absent /\ queue = <<>>
            BY <1>0, <2>1 DEF BusySound, WireSound
        <2>3. Replies' = {}
            BY <1>0, <2>1 DEF Replies, WireSound, ObserverTypeOK
        <2>4. Pending' = {}
            BY <2>1, <2>2, <2>3 DEF Pending, InQueue, Applied
        <2> QED
            BY <1>0, <2>1, <2>4 DEF ServerSound
    <1>3. CASE Fail \/ Join \/ Teardown
        BY <1>0, <1>3 DEF Fail, Join, Teardown, ServerSound, serverVars
    <1>4. CASE EvidenceStep
        <2>1. PICK e \in Heard : Takes(e)
            BY <1>4, EvidenceTaken DEF ObserverInv
        <2>2. Pending' \subseteq Pending
            BY <2>1 DEF Takes, Pending, Applied, Ignored, Ended, Moved
        <2> QED
            BY <1>0, <2>1, <2>2 DEF Takes, ServerSound, Tells, serverVars
    <1>5. CASE Recorded
        <2>1. /\ busy' = Absent /\ UNCHANGED <<loaded, activity, queue, seq, epoch, conn, reads>>
            BY <1>5 DEF Recorded, serverVars, wireVars
        <2>2. Pending' \subseteq Pending
            BY <2>1 DEF Pending, InQueue, Replies, Applied
        <2> QED
            BY <1>0, <2>1, <2>2 DEF ServerSound, Tells
    <1>6. ASSUME NEW r \in reads, Answer(r) PROVE ServerSound'
        <2>1. /\ seq' = seq + 1 /\ UNCHANGED <<loaded, activity, queue, epoch, conn, busy>>
              /\ reads' = (reads \ {r}) \cup
                    {[r EXCEPT !.reply = [kind |-> IF loaded THEN activity ELSE "notLoaded",
                                          turn |-> 0, seq |-> seq', read |-> r.conn]]}
            BY <1>6 DEF Answer, serverVars
        <2> DEFINE reply == [kind |-> IF loaded THEN activity ELSE "notLoaded",
                             turn |-> 0, seq |-> seq', read |-> r.conn]
        <2>2. Replies' \subseteq Replies \cup {reply}
            BY <1>0, <2>1 DEF Replies, ObserverTypeOK
        <2>3. Pending' \subseteq Pending \cup {reply}
            BY <2>1, <2>2 DEF Pending, InQueue, Applied
        <2>4. IF loaded THEN StatusOf(reply) = activity ELSE EndsSession(reply)
            BY <1>0 DEF StatusOf, EndsSession
        <2> HIDE DEF reply
        <2> QED
            BY <1>0, <2>1, <2>3, <2>4 DEF ServerSound, Tells
    <1>7. ASSUME NEW r \in reads, ReadFails(r) PROVE ServerSound'
        <2>1. /\ UNCHANGED <<loaded, activity, seq, queue, epoch, conn, busy>> /\ reads' \subseteq reads
            BY <1>7 DEF ReadFails, serverVars, wireVars
        <2>2. Pending' \subseteq Pending
            BY <2>1 DEF Pending, InQueue, Replies, Applied
        <2> QED
            BY <1>0, <2>1, <2>2 DEF ServerSound, Tells
    <1>8. ASSUME NEW t \in Hosts, Bind(t) PROVE ServerSound'
        <2>1. /\ pairs = 0 /\ loaded' = TRUE /\ UNCHANGED <<seq, queue, epoch, conn, busy>>
              /\ reads' \subseteq reads \cup {[conn |-> epoch, reply |-> Absent]}
            BY <1>8 DEF Bind, Reconciling, wireVars
        <2>2. queue = <<>> /\ reads = {} /\ busy = Absent
            BY <1>0, <2>1 DEF FreshSound
        <2>3. Pending' = {}
            BY <2>1, <2>2 DEF Pending, InQueue, Replies, Applied
        <2> QED
            BY <2>1, <2>3 DEF ServerSound
    <1>9. ASSUME NEW t \in Hosts, TerminalStep(t) PROVE ServerSound'
        BY <1>0, <1>9, TerminalStepFrame, PendingKept DEF ServerSound, Tells
    <1>10. CASE UNCHANGED observerVars
        BY <1>0, <1>10, PendingKept DEF ServerSound, Tells, observerVars
    <1> QED
        BY <1>1, <1>2, <1>3, <1>4, <1>5, <1>6, <1>7, <1>8, <1>9, <1>10, NextCases

LEMMA FreshStep ==
    ASSUME ObserverInv, ObserverTypeOK', [ObserverNext]_observerVars
    PROVE  FreshSound'
    <1>0. /\ ObserverTypeOK /\ WireSound /\ ServerSound /\ EstablishedSound /\ TermsSound
          /\ BusySound /\ PairSound /\ FreshSound /\ pairs \in Nat
        BY DEF ObserverInv, ObserverTypeOK
    <1> SUFFICES ASSUME pairs' = 0
                 PROVE  /\ pair' = Absent /\ record' = Absent /\ holder' = Absent /\ busy' = Absent
                        /\ queue' = <<>> /\ reads' = {} /\ ~loaded'
                        /\ \A t \in Hosts : terms'[t] = "unborn"
        BY DEF FreshSound
    <1>1. CASE ServerMoves
        BY <1>0, <1>1, ServerMovesFacts
    <1>2. CASE Connect \/ Fail \/ Join
        BY <1>0, <1>2 DEF Connect, Fail, Join, FreshSound, serverVars, wireVars, threadVars
    <1>3. CASE EvidenceStep
        <2>1. pairs = 0
            BY <1>0, <1>3, EvidenceTaken DEF Takes
        <2> QED
            BY <1>0, <1>3, <2>1 DEF EvidenceStep, Dispatch, ApplyRead, FreshSound
    <1>4. CASE Recorded \/ Teardown
        BY <1>0, <1>4 DEF Recorded, Teardown, Coerces, FreshSound, serverVars, wireVars, threadVars
    <1>5. ASSUME NEW r \in reads, Answer(r) \/ ReadFails(r) PROVE pairs' # 0
        BY <1>0, <1>5 DEF Answer, ReadFails, FreshSound
    <1>6. ASSUME NEW t \in Hosts, Bind(t) \/ TerminalStep(t) PROVE pairs' # 0
        BY <1>0, <1>6 DEF Bind, Pairing, TerminalStep, HoldResume, Created, TerminalExits, TerminalFlaps, Sweep,
           DeleteRow, Forget, TerminalRemoved, FreshSound, TermsSound, Up, NotLive
    <1>7. CASE UNCHANGED observerVars
        BY <1>0, <1>7 DEF FreshSound, observerVars
    <1> QED
        BY <1>1, <1>2, <1>3, <1>4, <1>5, <1>6, <1>7, NextCases

LEMMA EstablishedStep ==
    ASSUME ObserverInv, ObserverTypeOK', [ObserverNext]_observerVars
    PROVE  EstablishedSound'
    <1>0. /\ ObserverTypeOK /\ WireSound /\ ServerSound /\ FreshSound /\ EstablishedSound
          /\ TermsSound /\ BusySound /\ PairSound
          /\ pair # Absent => pair \in Pairings /\ pair.terminal \in Hosts
        BY DEF ObserverInv, ObserverTypeOK, Pairings
    <1>1. CASE ServerMoves
        BY <1>0, <1>1, ServerMovesFacts DEF EstablishedSound, threadVars
    <1>2. CASE Connect \/ Fail \/ Join
        BY <1>0, <1>2 DEF Connect, Fail, Join, EstablishedSound, threadVars
    <1>3. CASE EvidenceStep
        <2>1. PICK e \in Heard : Takes(e)
            BY <1>0, <1>3, EvidenceTaken
        <2> QED
            BY <1>0, <2>1 DEF Takes, Ignored, Ended, Moved, EstablishedSound, threadVars, Pairings
    <1>4. CASE Recorded
        <2> DEFINE e == busy.evidence
                   p == busy.pair
        <2>1. /\ busy # Absent /\ busy' = Absent /\ e \in Heard /\ p \in Pairings
              /\ UNCHANGED terms
              /\ \/ Wrote(e, p)
                 \/ missed' = TRUE /\ losses' \in 0 .. MaxLosses /\ UNCHANGED <<pair, threadVars>>
            BY <1>0, <1>4, RecordedFacts
        <2>2. pair = p \/ ~pair.established
            BY <2>1, <1>0 DEF BusySound
        <2>3. record' \in Policy!Record => record' # Absent
            BY ObserverAssumption
        <2> HIDE DEF e, p
        <2>4. CASE Wrote(e, p)
            <3>1. CASE pair = p
                <4>1. pair' # Absent /\ pair'.terminal = p.terminal /\ pair # Absent
                    BY <1>0, <2>1, <2>4, <3>1, WroteFacts DEF SamePairing, BusySound
                <4>2. CASE p.established
                    BY <1>0, <2>1, <2>3, <2>4, <3>1, <4>1, <4>2 DEF Wrote, EstablishedSound
                <4>3. CASE ~p.established
                    BY <1>0, <2>1, <2>3, <2>4, <3>1, <4>1, <4>3 DEF Wrote, EstablishedSound
                <4> QED
                    BY <4>2, <4>3
            <3>2. CASE pair # p
                BY <2>2, <2>4, <3>2 DEF Wrote, EstablishedSound
            <3> QED
                BY <3>1, <3>2
        <2>5. CASE UNCHANGED <<pair, threadVars>>
            BY <1>0, <2>1, <2>5 DEF EstablishedSound, threadVars
        <2> QED
            BY <2>1, <2>4, <2>5
    <1>5. CASE Teardown
        <2>1. /\ UNCHANGED terms
              /\ record' = Absent <=> record = Absent
              /\ record # Absent => record'.terminal = record.terminal
              /\ holder' \in {holder, Absent}
            BY <1>0, <1>5, TeardownFacts
        <2>2. pair' # Absent => pair # Absent /\ pair'.terminal = pair.terminal
                                /\ (pair'.established <=> pair.established)
            BY <1>0, <1>5, TeardownFacts DEF SamePairing
        <2> QED
            BY <1>0, <2>1, <2>2 DEF EstablishedSound
    <1>6. ASSUME NEW r \in reads, Answer(r) \/ ReadFails(r) PROVE EstablishedSound'
        BY <1>0, <1>6 DEF Answer, ReadFails, EstablishedSound, threadVars
    <1>7. ASSUME NEW t \in Hosts, Bind(t) \/ HoldResume(t) PROVE EstablishedSound'
        BY <1>0, <1>7, PairingFacts DEF Bind, HoldResume, EstablishedSound
    <1>8. ASSUME NEW t \in Hosts, Created(t) PROVE EstablishedSound'
        BY <1>0, <1>8 DEF Created, TermsSound, EstablishedSound
    <1>9. ASSUME NEW t \in Hosts, TerminalExits(t) \/ TerminalFlaps(t) \/ DeleteRow(t) \/ Forget(t) PROVE EstablishedSound'
        BY <1>0, <1>9 DEF TerminalExits, TerminalFlaps, DeleteRow, Forget, EstablishedSound, threadVars, ObserverTypeOK
    <1>10. ASSUME NEW t \in Hosts, Sweep(t) PROVE EstablishedSound'
        BY <1>0, <1>10, ReleasedFacts DEF Sweep, EstablishedSound
    <1>11. ASSUME NEW t \in Hosts, TerminalRemoved(t) PROVE EstablishedSound'
        <2>1. UNCHANGED <<pair, terms>>
            BY <1>11 DEF TerminalRemoved
        <2> QED
            BY <1>0, <1>11, <2>1, RemovedFacts DEF EstablishedSound
    <1>12. CASE UNCHANGED observerVars
        BY <1>0, <1>12 DEF EstablishedSound, observerVars
    <1> QED
        BY <1>1, <1>2, <1>3, <1>4, <1>5, <1>6, <1>7, <1>8, <1>9, <1>10, <1>11, <1>12, NextCases
           DEF TerminalStep

LEMMA TermsStep ==
    ASSUME ObserverInv, ObserverTypeOK', [ObserverNext]_observerVars
    PROVE  TermsSound'
    <1>0. /\ ObserverTypeOK /\ WireSound /\ ServerSound /\ FreshSound /\ EstablishedSound
          /\ TermsSound /\ BusySound /\ PairSound /\ pairs \in Nat
          /\ pair # Absent => pair \in Pairings /\ pair.terminal \in Hosts
        BY DEF ObserverInv, ObserverTypeOK, Pairings
    <1>1. CASE ServerMoves
        BY <1>0, <1>1, ServerMovesFacts DEF TermsSound, threadVars
    <1>2. CASE Connect \/ Fail \/ Join
        BY <1>0, <1>2 DEF Connect, Fail, Join, TermsSound, threadVars
    <1>3. CASE EvidenceStep
        <2>1. PICK e \in Heard : Takes(e)
            BY <1>0, <1>3, EvidenceTaken
        <2>2. CASE Ignored(e)
            BY <1>0, <2>1, <2>2 DEF Takes, Ignored, TermsSound, threadVars
        <2>3. CASE Ended(e)
            BY <1>0, <2>1, <2>3 DEF Takes, Ended, TermsSound
        <2>4. CASE Moved(e)
            <3>1. pair' # Absent /\ pair'.terminal = pair.terminal /\ (pair'.resumed <=> pair.resumed)
                BY <1>0, <2>1, <2>4, MovedFacts DEF SamePairing
            <3> QED
                BY <1>0, <2>1, <2>4, <3>1 DEF Takes, Moved, TermsSound, threadVars
        <2> QED
            BY <2>1, <2>2, <2>3, <2>4 DEF Takes
    <1>4. CASE Recorded
        <2> DEFINE e == busy.evidence
                   p == busy.pair
        <2>1. /\ busy # Absent /\ busy' = Absent /\ e \in Heard /\ p \in Pairings
              /\ UNCHANGED <<terms, removing, pairs>>
              /\ \/ Wrote(e, p)
                 \/ missed' = TRUE /\ losses' \in 0 .. MaxLosses /\ UNCHANGED <<pair, threadVars>>
            BY <1>0, <1>4, RecordedFacts
        <2>2. record' \in Policy!Record => record' # Absent
            BY ObserverAssumption
        <2>3. pair # Absent
            BY <1>0, <2>1 DEF BusySound
        <2> HIDE DEF e, p
        <2>4. CASE Wrote(e, p)
            <3>1. pair' # Absent /\ pair'.terminal = pair.terminal /\ (pair'.resumed <=> pair.resumed)
                BY <1>0, <2>1, <2>3, <2>4, WroteFacts DEF SamePairing
            <3>2. record' # Absent
                BY <2>2, <2>4 DEF Wrote
            <3> QED
                BY <1>0, <2>1, <3>1, <3>2 DEF TermsSound
        <2>5. CASE UNCHANGED <<pair, threadVars>>
            BY <1>0, <2>1, <2>5 DEF TermsSound, threadVars
        <2> QED
            BY <2>1, <2>4, <2>5
    <1>5. CASE Teardown
        <2>1. /\ UNCHANGED <<terms, removing, pairs>>
              /\ record' = Absent <=> record = Absent
              /\ holder' \in {holder, Absent}
            BY <1>0, <1>5, TeardownFacts
        <2>2. \/ pair' = pair
              \/ pair # Absent /\ pair' # Absent /\ SamePairing(pair, pair')
              \/ pair' = Absent /\ terms[pair.terminal] \in {"missing", "exited", "deleted"}
            BY <1>0, <1>5, TeardownFacts
        <2>3. ASSUME NEW t \in Hosts, terms[t] = "creating"
              PROVE  pair' # Absent /\ pair'.terminal = t /\ pair'.resumed
            BY <1>0, <2>2, <2>3 DEF TermsSound, SamePairing
        <2> QED
            BY <1>0, <2>1, <2>3 DEF TermsSound
    <1>6. ASSUME NEW r \in reads, Answer(r) \/ ReadFails(r) PROVE TermsSound'
        BY <1>0, <1>6 DEF Answer, ReadFails, TermsSound, threadVars
    <1>7. ASSUME NEW t \in Hosts, Bind(t) PROVE TermsSound'
        <2>1. pairs = 0 /\ pairs' = 1 /\ UNCHANGED <<removing, threadVars>>
              /\ terms' = [terms EXCEPT ![t] = "running"]
            BY <1>7 DEF Bind, Pairing
        <2>2. \A u \in Hosts : terms'[u] # "creating" /\ removing[u] = "no"
            BY <1>0, <2>1 DEF FreshSound, TermsSound, ObserverTypeOK
        <2> QED
            BY <1>0, <2>1, <2>2 DEF TermsSound, threadVars
    <1>8. ASSUME NEW t \in Hosts, HoldResume(t) PROVE TermsSound'
        <2>1. /\ pair' # Absent /\ pair'.terminal = t /\ pair'.resumed
            BY <1>0, <1>8, PairingFacts DEF HoldResume
        <2>2. /\ record # Absent /\ terms[t] = "unborn" /\ UNCHANGED <<removing, threadVars>>
              /\ \A u \in Hosts : terms[u] # "creating"
              /\ terms' = [terms EXCEPT ![t] = "creating"]
            BY <1>8 DEF HoldResume
        <2> QED
            BY <1>0, <2>1, <2>2 DEF TermsSound, threadVars, ObserverTypeOK
    <1>9. ASSUME NEW t \in Hosts, Created(t) PROVE TermsSound'
        <2>1. record # Absent /\ record \in Policy!Record
            BY <1>0, <1>9 DEF Created, TermsSound, PairSound, ObserverTypeOK
        <2>2. [record EXCEPT !.terminal = t] # Absent
            <3>1. [record EXCEPT !.terminal = t] \in Policy!Record
                BY <2>1 DEF Policy!Record
            <3> QED
                BY <3>1, ObserverAssumption
        <2>3. /\ terms[t] = "creating" /\ UNCHANGED <<removing, pairs, holder>>
              /\ record' # Absent
              /\ \/ terms' = [terms EXCEPT ![t] = "running"] /\ pair' = pair
                 \/ terms' = [terms EXCEPT ![t] = "deleted"]
            BY <1>9, <2>1, <2>2 DEF Created, threadVars
        <2>4. \A u \in Hosts : u # t => terms[u] # "creating"
            BY <1>0, <2>3 DEF TermsSound
        <2> QED
            BY <1>0, <2>3, <2>4 DEF TermsSound, ObserverTypeOK
    <1>10. ASSUME NEW t \in Hosts, TerminalExits(t) \/ TerminalFlaps(t) \/ DeleteRow(t) PROVE TermsSound'
        BY <1>0, <1>10 DEF TerminalExits, TerminalFlaps, DeleteRow, TermsSound, Up, NotLive,
                                threadVars, ObserverTypeOK
    <1>11. ASSUME NEW t \in Hosts, Forget(t) PROVE TermsSound'
        <2>1. /\ removing[t] = "forget" /\ terms[t] = "deleted" /\ UNCHANGED <<terms, pairs, threadVars>>
              /\ removing' = [removing EXCEPT ![t] = "converge"]
              /\ pair' = pair \/ pair.terminal = t
            BY <1>0, <1>11 DEF Forget, Forgets, TermsSound
        <2> QED
            BY <1>0, <2>1 DEF TermsSound, threadVars, ObserverTypeOK
    <1>12. ASSUME NEW t \in Hosts, Sweep(t) PROVE TermsSound'
        BY <1>0, <1>12, ReleasedFacts DEF Sweep, TermsSound
    <1>13. ASSUME NEW t \in Hosts, TerminalRemoved(t) PROVE TermsSound'
        <2>1. /\ UNCHANGED <<pair, pairs, terms>> /\ removing[t] = "converge"
              /\ removing' = [removing EXCEPT ![t] = "no"]
            BY <1>13 DEF TerminalRemoved
        <2> QED
            BY <1>0, <1>13, <2>1, RemovedFacts DEF TermsSound, ObserverTypeOK
    <1>14. CASE UNCHANGED observerVars
        BY <1>0, <1>14 DEF TermsSound, observerVars
    <1> QED
        BY <1>1, <1>2, <1>3, <1>4, <1>5, <1>6, <1>7, <1>8, <1>9, <1>10, <1>11, <1>12, <1>13, <1>14,
           NextCases DEF TerminalStep

LEMMA PairStep ==
    ASSUME ObserverInv, ObserverTypeOK', [ObserverNext]_observerVars
    PROVE  PairSound'
    <1>0. /\ ObserverTypeOK /\ WireSound /\ ServerSound /\ FreshSound /\ EstablishedSound
          /\ TermsSound /\ BusySound /\ PairSound
          /\ seq \in Nat /\ pairs \in Nat /\ queue \in Seq(Heard) /\ Len(queue) \in Nat
          /\ pair # Absent => /\ pair \in Pairings /\ pair.terminal \in Hosts
                              /\ pair.since \in Nat /\ pair.seq \in Nat
          /\ terms \in [Hosts -> {"unborn", "creating", "running", "missing", "exited", "deleted"}]
          /\ removing \in [Hosts -> {"no", "forget", "converge"}]
        <2>1. /\ ObserverTypeOK /\ WireSound /\ ServerSound /\ FreshSound /\ EstablishedSound
              /\ TermsSound /\ BusySound /\ PairSound
            BY Zenon DEF ObserverInv
        <2>2. /\ seq \in Nat /\ pairs \in Nat /\ queue \in Seq(Heard) /\ Len(queue) \in Nat
              /\ pair # Absent => /\ pair \in Pairings /\ pair.terminal \in Hosts
                                  /\ pair.since \in Nat /\ pair.seq \in Nat
              /\ terms \in [Hosts -> {"unborn", "creating", "running", "missing", "exited", "deleted"}]
              /\ removing \in [Hosts -> {"no", "forget", "converge"}]
            BY <2>1 DEF ObserverTypeOK, Pairings
        <2> QED
            BY <2>1, <2>2
    <1>1. CASE ServerMoves
        <2>1. /\ UNCHANGED <<epoch, reads, busy, pair, pairs, terms, removing>> /\ seq' \in Nat
              /\ IF conn = "open" THEN Told ELSE UNCHANGED wireVars
            BY <1>0, <1>1, ServerMovesFacts
        <2>2. CASE conn = "open"
            <3>1. (\A e \in InQueue' : e \in InQueue \/ e.seq > seq) /\ Applied' = Applied
                BY <1>0, <2>1, <2>2, ToldPending
            <3>2. seq' > seq
                BY <2>1, <2>2 DEF Told
            <3>3. ASSUME pair # Absent, NEW e \in InQueue' \cup Applied', e.kind = "turnCompleted"
                  PROVE  e.seq # pair.since
                BY <1>0, <3>1, <3>3 DEF PairSound
            <3> QED
                BY <1>0, <2>1, <3>2, <3>3 DEF PairSound
        <2>3. CASE conn # "open"
            BY <1>0, <2>1, <2>3, PendingKept DEF PairSound, wireVars
        <2> QED
            BY <2>2, <2>3
    <1>2. CASE Connect \/ Fail
        <2>1. UNCHANGED <<queue, seq, busy, pair, pairs, terms, removing>>
            BY <1>2 DEF Connect, Fail, wireVars
        <2>2. InQueue' = InQueue /\ Applied' = Applied
            BY <2>1 DEF InQueue, Applied
        <2> QED
            BY <1>0, <2>1, <2>2 DEF PairSound
    <1>3. CASE Join
        <2>1. queue' = <<>> /\ UNCHANGED <<seq, busy, pair, pairs, terms, removing>>
            BY <1>3 DEF Join
        <2>2. InQueue' = {} /\ Applied' = Applied
            BY <2>1 DEF InQueue, Applied
        <2> QED
            BY <1>0, <2>1, <2>2 DEF PairSound
    <1>4. CASE EvidenceStep
        <2>1. PICK e \in Heard : Takes(e)
            BY <1>0, <1>4, EvidenceTaken
        <2>2. InQueue' \subseteq InQueue /\ UNCHANGED <<seq, pairs, terms, removing>>
              /\ e.seq \in 1 .. seq
            BY <2>1 DEF Takes
        <2>3. CASE Ignored(e)
            <3>1. pair' = pair /\ Applied' = {}
                BY <2>3 DEF Ignored, Applied
            <3> QED
                BY <1>0, <2>2, <3>1 DEF PairSound
        <2>4. CASE Ended(e)
            BY <2>4 DEF Ended, PairSound
        <2>5. CASE Moved(e)
            <3>1. /\ pair # Absent /\ pair' # Absent /\ SamePairing(pair, pair') /\ pair'.seq = e.seq
                  /\ (pair'.established <=> pair.established) /\ pair'.last = pair.last
                BY <1>0, <2>5, MovedFacts
            <3>2. Applied' \subseteq {e} /\ (Applied' # {} => busy' # Absent)
                BY <2>5 DEF Moved, Applied
            <3>3. ASSUME NEW f \in InQueue' \cup Applied', f.kind = "turnCompleted"
                  PROVE  f \in InQueue
                BY <2>1, <2>2, <3>2, <3>3 DEF Takes
            <3> QED
                BY <1>0, <2>2, <3>1, <3>3 DEF PairSound, SamePairing
        <2> QED
            BY <2>1, <2>3, <2>4, <2>5 DEF Takes
    <1>5. CASE Recorded
        <2> DEFINE e == busy.evidence
                   p == busy.pair
        <2>1. /\ busy # Absent /\ busy' = Absent /\ e \in Heard /\ p \in Pairings
              /\ UNCHANGED <<queue, seq, terms, removing, pairs>>
              /\ \/ Wrote(e, p)
                 \/ missed' = TRUE /\ losses' \in 0 .. MaxLosses /\ UNCHANGED <<pair, threadVars>>
            BY <1>0, <1>5, RecordedFacts DEF wireVars
        <2>2. pair # Absent
            BY <1>0, <2>1 DEF BusySound
        <2>3. InQueue' = InQueue /\ Applied' = {}
            BY <2>1 DEF InQueue, Applied
        <2> HIDE DEF e, p
        <2>4. CASE Wrote(e, p)
            <3>1. pair' = pair \/ (pair' # Absent /\ SamePairing(pair, pair') /\ pair'.established
                                    /\ pair'.seq = pair.seq)
                BY <2>1, <2>4, WroteFacts
            <3> QED
                BY <1>0, <2>1, <2>2, <2>3, <3>1 DEF PairSound, SamePairing
        <2>5. CASE UNCHANGED <<pair, threadVars>>
            BY <1>0, <2>1, <2>3, <2>5 DEF PairSound
        <2> QED
            BY <2>1, <2>4, <2>5
    <1>6. CASE Teardown
        <2>1. UNCHANGED <<queue, seq, busy, pairs, terms, removing>>
            BY <1>6 DEF Teardown, wireVars
        <2>2. InQueue' = InQueue /\ Applied' = Applied
            BY <2>1 DEF InQueue, Applied
        <2>3. \/ pair' = pair \/ pair' = Absent
              \/ pair # Absent /\ SamePairing(pair, pair') /\ pair'.established /\ pair'.seq = pair.seq
            BY <1>0, <1>6, TeardownFacts
        <2> QED
            BY <1>0, <2>1, <2>2, <2>3 DEF PairSound, SamePairing
    <1>7. ASSUME NEW r \in reads, Answer(r) \/ ReadFails(r) PROVE PairSound'
        <2>1. UNCHANGED <<queue, busy, pair, pairs, terms, removing>> /\ seq' \in Nat /\ seq' >= seq
            BY <1>0, <1>7 DEF Answer, ReadFails, wireVars
        <2>2. InQueue' = InQueue /\ Applied' = Applied
            BY <2>1 DEF InQueue, Applied
        <2> QED
            BY <1>0, <2>1, <2>2 DEF PairSound
    <1>8. ASSUME NEW t \in Hosts, Bind(t) PROVE PairSound'
        <2>1. /\ pair' # Absent /\ pair'.id = pairs' /\ pairs' = 1 /\ pair'.terminal = t
              /\ ~pair'.resumed /\ ~pair'.established /\ pair'.last = Absent
              /\ pair'.seq = 0 /\ pair'.since = 0
            <3>1. PICK prompt \in BOOLEAN : Pairing(t, FALSE, prompt)
                BY <1>8 DEF Bind
            <3>2. pairs = 0
                BY <1>8 DEF Bind
            <3>3. /\ pair' # Absent /\ pairs' = pairs + 1 /\ pair'.id = pairs' /\ pair'.terminal = t
                  /\ pair'.resumed = FALSE /\ ~pair'.established /\ pair'.last = Absent
                  /\ pair'.seq = 0 /\ pair'.since = IF FALSE THEN seq ELSE 0
                BY <1>0, <3>1, PairingFacts
            <3>4. ~pair'.resumed /\ pair'.since = 0
                BY <3>3, Zenon
            <3> QED
                BY <3>2, <3>3, <3>4
        <2>2. /\ terms' = [terms EXCEPT ![t] = "running"] /\ terms[t] = "unborn"
              /\ UNCHANGED <<queue, seq, busy, removing>> /\ pairs = 0
            BY <1>8 DEF Bind, wireVars
        <2>3. removing[t] = "no"
            BY <1>0, <2>2 DEF TermsSound
        <2>4. InQueue' = {} /\ Applied' = {}
            BY <1>0, <2>2 DEF InQueue, Applied, FreshSound
        <2> QED
            BY <1>0, <2>1, <2>2, <2>3, <2>4 DEF PairSound
    <1>9. ASSUME NEW t \in Hosts, HoldResume(t) PROVE PairSound'
        <2>1. /\ pair' # Absent /\ pair'.id = pairs' /\ pairs' = pairs + 1 /\ pair'.terminal = t
              /\ pair'.resumed /\ ~pair'.established /\ pair'.last = Absent
              /\ pair'.seq = 0 /\ pair'.since = seq
            BY <1>0, <1>9, PairingFacts DEF HoldResume
        <2>2. /\ terms' = [terms EXCEPT ![t] = "creating"] /\ terms[t] = "unborn"
              /\ UNCHANGED <<queue, seq, busy, removing>> /\ record # Absent
            BY <1>9 DEF HoldResume, wireVars
        <2>3. removing[t] = "no" /\ pairs # 0
            BY <1>0, <2>2 DEF TermsSound, FreshSound
        <2>4. InQueue' = InQueue /\ Applied' = Applied
            BY <2>2 DEF InQueue, Applied
        <2>5. ASSUME NEW e \in InQueue, e.kind = "turnCompleted" PROVE e.seq # seq
            <3>1. PICK i \in 1 .. Len(queue) : e = queue[i]
                BY DEF InQueue
            <3>2. i + 1 \in 1 .. Len(queue) /\ queue[i + 1].seq = e.seq + 1
                BY <1>0, <2>5, <3>1 DEF WireSound
            <3>3. queue[i + 1].seq \in 1 .. seq /\ e.seq \in 1 .. seq
                BY <1>0, <3>1, <3>2 DEF WireSound
            <3> QED
                BY <1>0, <3>2, <3>3
        <2>6. ASSUME NEW e \in Applied, e.kind = "turnCompleted" PROVE e.seq # seq
            <3>1. busy # Absent /\ e = busy.evidence
                BY DEF Applied
            <3>2. queue # <<>> /\ queue[1].seq = e.seq + 1 /\ e.seq \in 1 .. seq
                BY <1>0, <2>6, <3>1 DEF BusySound
            <3>3. 1 \in 1 .. Len(queue)
                BY <1>0, <3>2
            <3>4. queue[1].seq \in 1 .. seq
                BY <1>0, <3>3 DEF WireSound
            <3> QED
                BY <1>0, <3>2, <3>4
        <2> QED
            BY <1>0, <2>1, <2>2, <2>3, <2>4, <2>5, <2>6 DEF PairSound
    <1>10. ASSUME NEW t \in Hosts,
                  Created(t) \/ TerminalExits(t) \/ TerminalFlaps(t) \/ Sweep(t) \/ DeleteRow(t) \/ TerminalRemoved(t)
           PROVE  PairSound'
        <2>1. UNCHANGED <<seq, queue, busy, pairs>> /\ (pair' = pair \/ pair' = Absent)
            BY <1>10 DEF Created, TerminalExits, TerminalFlaps, Sweep, DeleteRow, TerminalRemoved, wireVars
        <2>2. \A u \in Hosts : /\ terms[u] # "unborn" => terms'[u] # "unborn"
                               /\ removing[u] # "converge" => removing'[u] # "converge"
            BY <1>0, <1>10 DEF Created, TerminalExits, TerminalFlaps, Sweep, DeleteRow, TerminalRemoved
        <2>3. InQueue' = InQueue /\ Applied' = Applied
            BY <2>1 DEF InQueue, Applied
        <2> QED
            BY <1>0, <2>1, <2>2, <2>3 DEF PairSound
    <1>11. ASSUME NEW t \in Hosts, Forget(t) PROVE PairSound'
        <2>1. /\ UNCHANGED <<seq, queue, busy, pairs, terms>>
              /\ pair' = Absent \/ (pair' = pair /\ ~(pair # Absent /\ pair.terminal = t))
              /\ removing' = [removing EXCEPT ![t] = "converge"]
            BY <1>11 DEF Forget, Forgets, wireVars
        <2>2. InQueue' = InQueue /\ Applied' = Applied
            BY <2>1 DEF InQueue, Applied
        <2> QED
            BY <1>0, <2>1, <2>2 DEF PairSound
    <1>12. CASE UNCHANGED observerVars
        BY <1>0, <1>12, PendingKept DEF PairSound, observerVars
    <1> QED
        BY <1>1, <1>2, <1>3, <1>4, <1>5, <1>6, <1>7, <1>8, <1>9, <1>10, <1>11, <1>12, NextCases
           DEF TerminalStep

LEMMA BusyStep ==
    ASSUME ObserverInv, ObserverTypeOK', [ObserverNext]_observerVars
    PROVE  BusySound'
    <1>0. /\ ObserverTypeOK /\ WireSound /\ ServerSound /\ FreshSound /\ EstablishedSound
          /\ TermsSound /\ BusySound /\ PairSound
          /\ seq \in Nat /\ pairs \in Nat /\ queue \in Seq(Heard) /\ Len(queue) \in Nat
          /\ pair # Absent => /\ pair \in Pairings /\ pair.terminal \in Hosts
                              /\ pair.since \in Nat /\ pair.seq \in Nat /\ pair.id \in Nat
          /\ busy # Absent => /\ busy.evidence \in Heard /\ busy.pair \in Pairings
                              /\ busy.evidence.seq \in Nat
                              /\ busy.pair.terminal \in Hosts /\ busy.pair.id \in Nat
          /\ terms \in [Hosts -> {"unborn", "creating", "running", "missing", "exited", "deleted"}]
          /\ removing \in [Hosts -> {"no", "forget", "converge"}]
        <2>1. ObserverTypeOK
            BY DEF ObserverInv
        <2>2. /\ pair # Absent => pair \in Pairings
              /\ busy # Absent => busy.evidence \in Heard /\ busy.pair \in Pairings
            BY <2>1 DEF ObserverTypeOK
        <2>3. \A p \in Pairings : /\ p.terminal \in Hosts /\ p.since \in Nat /\ p.seq \in Nat
                                 /\ p.id \in Nat
            BY DEF Pairings
        <2>4. \A e \in Heard : e.seq \in Nat
            BY DEF Heard
        <2>5. /\ seq \in Nat /\ pairs \in Nat /\ queue \in Seq(Heard)
              /\ terms \in [Hosts -> {"unborn", "creating", "running", "missing", "exited", "deleted"}]
              /\ removing \in [Hosts -> {"no", "forget", "converge"}]
            BY <2>1 DEF ObserverTypeOK
        <2>6. Len(queue) \in Nat
            BY <2>5
        <2> QED
            BY <2>1, <2>2, <2>3, <2>4, <2>5, <2>6 DEF ObserverInv
    <1>1. CASE ServerMoves
        <2>1. /\ UNCHANGED <<epoch, conn, reads, busy, pair, pairs, terms, removing, record, holder, cut>>
              /\ seq' \in Nat /\ queue' \in Seq(Heard)
              /\ IF conn = "open" THEN Told ELSE UNCHANGED wireVars
            BY <1>0, <1>1, ServerMovesFacts DEF threadVars
        <2>2. seq' >= seq /\ (queue # <<>> => queue' # <<>> /\ queue'[1] = queue[1])
            <3>1. CASE conn = "open"
                <4>1. queue # <<>> => 1 \in 1 .. Len(queue)
                    BY <1>0
                <4>2. Len(queue') > Len(queue) => queue' # <<>>
                    BY <1>0
                <4> QED
                    BY <1>0, <2>1, <3>1, <4>1, <4>2 DEF Told
            <3>2. CASE conn # "open"
                BY <1>0, <2>1, <3>2 DEF wireVars
            <3> QED
                BY <3>1, <3>2
        <2> QED
            BY <1>0, <2>1, <2>2 DEF BusySound
    <1>2. CASE Connect
        BY <1>0, <1>2 DEF Connect, BusySound
    <1>3. CASE Fail
        BY <1>0, <1>3 DEF Fail, BusySound, wireVars, threadVars
    <1>4. CASE Join
        BY <1>0, <1>4 DEF Join, BusySound, wireVars, threadVars, Heard
    <1>5. CASE EvidenceStep
        <2>1. PICK e \in Heard : Takes(e)
            BY <1>0, <1>5, EvidenceTaken
        <2>2. CASE busy' = Absent
            BY <2>2 DEF BusySound
        <2>3. CASE busy' # Absent
            <3>1. Moved(e)
                BY <2>1, <2>3 DEF Takes, Ignored, Ended
            <3>2. /\ pair # Absent /\ pair' # Absent /\ SamePairing(pair, pair') /\ pair'.seq = e.seq
                  /\ (pair'.established <=> pair.established) /\ pair \in Pairings
                BY <1>0, <3>1, MovedFacts
            <3>3. /\ busy'.evidence = e /\ busy'.pair = pair' /\ terms[pair.terminal] = "running"
                  /\ ~EndsSession(e) /\ ~Stale(e) /\ UNCHANGED threadVars
                BY <2>3, <3>1 DEF Moved
            <3>4. /\ UNCHANGED <<seq, epoch, conn, terms, removing>> /\ e.seq \in 1 .. seq
                  /\ e.read = 0 \/ (e.read = epoch /\ conn # "none") \/ Ignored(e)
                  /\ e.read = 0 => conn \in {"open", "failing"}
                  /\ e.kind = "turnCompleted" =>
                        /\ e.read = 0 /\ queue' # <<>>
                        /\ queue'[1].kind # "turnCompleted" /\ queue'[1].seq = e.seq + 1
                BY <2>1 DEF Takes
            <3>5. (e.read = 0 \/ e.read = epoch) /\ conn # "none"
                BY <3>2, <3>3, <3>4 DEF Ignored
            <3>6. removing[pair.terminal] = "no"
                BY <1>0, <3>2, <3>3 DEF TermsSound
            <3>7. pair.established => record # Absent
                BY <1>0, <3>2 DEF EstablishedSound
            <3> QED
                BY <1>0, <3>2, <3>3, <3>4, <3>5, <3>6, <3>7 DEF BusySound, SamePairing, threadVars
        <2> QED
            BY <2>2, <2>3
    <1>6. CASE Recorded \/ Teardown
        BY <1>6 DEF Recorded, Teardown, BusySound
    <1>7. ASSUME NEW r \in reads, Answer(r) \/ ReadFails(r) PROVE BusySound'
        <2>1. /\ UNCHANGED <<queue, epoch, conn, busy, pair, terms, removing, record, cut>>
              /\ seq' \in Nat /\ seq' >= seq
            BY <1>0, <1>7 DEF Answer, ReadFails, wireVars, threadVars
        <2> QED
            BY <1>0, <2>1 DEF BusySound
    <1>8. ASSUME NEW t \in Hosts, Bind(t) PROVE BusySound'
        BY <1>0, <1>8 DEF Bind, BusySound, FreshSound
    <1>9. ASSUME NEW t \in Hosts, HoldResume(t) PROVE BusySound'
        <2>1. /\ pair' # Absent /\ pair'.id = pairs + 1 /\ pair'.resumed /\ ~pair'.established
              /\ pair'.since = seq
            BY <1>0, <1>9, PairingFacts DEF HoldResume
        <2>2. /\ terms' = [terms EXCEPT ![t] = "creating"] /\ terms[t] = "unborn"
              /\ \A u \in Hosts : terms[u] \notin {"creating", "running"}
              /\ cut' = cut \cup {u \in Hosts : terms[u] = "missing"}
              /\ UNCHANGED <<queue, seq, epoch, conn, busy, removing, record>>
            BY <1>9 DEF HoldResume, wireVars, threadVars
        <2>3. busy # Absent => busy.pair.id <= pairs
            BY <1>0 DEF BusySound, PairSound
        <2> QED
            BY <1>0, <2>1, <2>2, <2>3 DEF BusySound
    <1>10. ASSUME NEW t \in Hosts, Created(t) PROVE BusySound'
        <2>1. CASE busy = Absent
            BY <1>10, <2>1 DEF Created, BusySound
        <2>2. CASE busy # Absent
            <3>1. /\ terms[t] = "creating" /\ terms' = [terms EXCEPT ![t] = "running"]
                  /\ record' = [record EXCEPT !.terminal = t]
                  /\ UNCHANGED <<queue, seq, epoch, conn, busy, pair, removing, cut>>
                BY <1>10, <2>2 DEF Created, wireVars
            <3>2. record \in Policy!Record
                BY <1>0, <3>1 DEF TermsSound, PairSound, ObserverTypeOK
            <3>3. record' \in Policy!Record
                BY <3>1, <3>2 DEF Policy!Record
            <3>4. record' # Absent
                BY <3>3, ObserverAssumption
            <3> QED
                BY <1>0, <2>2, <3>1, <3>4 DEF BusySound
        <2> QED
            BY <2>1, <2>2
    <1>11. ASSUME NEW t \in Hosts, TerminalExits(t) \/ TerminalFlaps(t) \/ DeleteRow(t) PROVE BusySound'
        <2>1. /\ UNCHANGED <<queue, seq, epoch, conn, busy, pair, record, cut>>
              /\ \A u \in Hosts : /\ terms[u] \notin {"unborn", "creating"} =>
                                        terms'[u] \notin {"unborn", "creating"}
                                  /\ terms[u] \in {"exited", "deleted"} =>
                                        terms'[u] \in {"exited", "deleted"}
                                  /\ removing[u] # "converge" => removing'[u] # "converge"
            BY <1>0, <1>11 DEF TerminalExits, TerminalFlaps, DeleteRow, Up, NotLive, wireVars, threadVars
        <2> QED
            BY <1>0, <2>1 DEF BusySound
    <1>12. ASSUME NEW t \in Hosts, Forget(t) PROVE BusySound'
        BY <1>12 DEF Forget, BusySound
    <1>13. ASSUME NEW t \in Hosts, Sweep(t) \/ TerminalRemoved(t) PROVE BusySound'
        <2>1. /\ UNCHANGED <<queue, seq, epoch, conn, busy, pair, terms, cut>>
              /\ \A u \in Hosts : removing[u] # "converge" => removing'[u] # "converge"
            BY <1>0, <1>13 DEF Sweep, TerminalRemoved, wireVars
        <2>2. record # Absent => record' # Absent
            BY <1>0, <1>13, ReleasedFacts, RemovedFacts DEF Sweep
        <2> QED
            BY <1>0, <2>1, <2>2 DEF BusySound
    <1>14. CASE UNCHANGED observerVars
        BY <1>0, <1>14 DEF BusySound, observerVars
    <1> QED
        BY <1>1, <1>2, <1>3, <1>4, <1>5, <1>6, <1>7, <1>8, <1>9, <1>10, <1>11, <1>12, <1>13, <1>14,
           NextCases DEF TerminalStep

(* What is pending when evidence is taken, while the connection is open.   *)
LEMMA TakesPending ==
    ASSUME ObserverTypeOK, WireSound, BusySound, NEW e \in Heard, Takes(e), conn = "open"
    PROVE  /\ Pending' \subseteq Pending
           /\ busy' # Absent => Pending' = Pending
           /\ \/ Ignored(e) /\ Pending' = Pending
              \/ e \in Pending /\ Pending \subseteq Pending' \cup {e}
           /\ e \in Pending /\ Stale(e) => e.seq < pair.seq
    <1>1. Applied' \subseteq {e} /\ (Applied' # {} => busy' # Absent) /\ (busy' # Absent => e \in Applied')
        BY DEF Takes, Ignored, Ended, Moved, Applied
    <1>2. Applied = {}
        BY DEF Takes, Applied
    <1>3. Pending' \subseteq Pending
        BY <1>1 DEF Takes, Pending
    <1>4. busy' # Absent => Pending' = Pending
        BY <1>1, <1>3 DEF Takes, Pending
    <1>5. e \in Pending /\ Stale(e) => e.seq < pair.seq
        BY PendingFacts DEF Stale
    <1> QED
        BY <1>3, <1>4, <1>5 DEF Takes

(* The reply is the last word.                                             *)
LEMMA AnswerNewest ==
    ASSUME ObserverTypeOK, NEW r \in reads, Answer(r)
    PROVE  NewestPending'
    <1>0. seq \in Nat
        BY DEF ObserverTypeOK
    <1> DEFINE reply == [kind |-> IF loaded THEN activity ELSE "notLoaded",
                         turn |-> 0, seq |-> seq', read |-> r.conn]
               q == [r EXCEPT !.reply = reply]
    <1>1. /\ q \in reads' /\ r.conn = epoch /\ epoch' = epoch
          /\ r = [conn |-> r.conn, reply |-> r.reply]
        BY DEF Answer, ObserverTypeOK
    <1>2. q.conn = epoch' /\ q.reply = reply /\ reply.seq = seq'
        BY <1>1
    <1>3. q.reply # Absent
        <2>1. reply \in Heard
            <3>2. reply \in [kind : HeardKinds, turn : 0 .. MaxTurns, seq : Nat,
                             read : 0 .. MaxConns]
                <4>1. 0 \in 0 .. MaxTurns /\ seq' \in Nat /\ r.conn \in 0 .. MaxConns
                    BY <1>0, ObserverAssumption DEF ObserverTypeOK, Answer
                <4>2. (IF loaded THEN activity ELSE "notLoaded") \in HeardKinds
                    BY <1>0 DEF HeardKinds, ObserverTypeOK
                <4> QED
                    BY <4>1, <4>2
            <3> QED
                BY <3>2 DEF Heard
        <2> QED
            BY <1>2, <2>1, ObserverAssumption
    <1> HIDE DEF q
    <1>4. q.reply \in Replies'
        BY <1>1, <1>2, <1>3 DEF Replies
    <1> QED
        BY <1>2, <1>4 DEF NewestPending, Pending

LEMMA NewestStep ==
    ASSUME ObserverInv, ObserverTypeOK', [ObserverNext]_observerVars
    PROVE  NewestSound'
    <1>0. /\ ObserverTypeOK /\ WireSound /\ ServerSound /\ FreshSound /\ EstablishedSound
          /\ TermsSound /\ BusySound /\ PairSound /\ NewestSound
          /\ seq \in Nat /\ epoch \in Nat
          /\ \A e \in Pending : e.seq \in 1 .. seq
          /\ pair # Absent => pair \in Pairings /\ pair.since \in Nat /\ pair.seq \in Nat
        <2>1. /\ ObserverTypeOK /\ WireSound /\ ServerSound /\ FreshSound /\ EstablishedSound
              /\ TermsSound /\ BusySound /\ PairSound /\ NewestSound
            BY Zenon DEF ObserverInv
        <2>2. /\ seq \in Nat /\ epoch \in Nat
              /\ pair # Absent => pair \in Pairings /\ pair.since \in Nat /\ pair.seq \in Nat
            BY <2>1 DEF ObserverTypeOK, Pairings
        <2>3. \A e \in Pending : e.seq \in 1 .. seq
            BY <2>1, PendingFacts
        <2> QED
            BY <2>1, <2>2, <2>3
    <1>1. CASE ServerMoves
        <2>1. /\ UNCHANGED <<epoch, conn, reads, busy, pair>>
              /\ IF conn = "open" THEN Told ELSE UNCHANGED wireVars
            BY <1>0, <1>1, ServerMovesFacts
        <2>2. CASE conn = "open"
            BY <1>0, <2>1, <2>2, ToldPending DEF NewestSound
        <2>3. CASE conn # "open"
            BY <2>1, <2>3 DEF NewestSound
        <2> QED
            BY <2>2, <2>3
    <1>2. CASE Connect
        <2>1. conn = "none" /\ epoch' = epoch + 1 /\ queue' = queue /\ busy' = busy
              /\ reads' \subseteq reads \cup {[conn |-> epoch', reply |-> Absent]}
            BY <1>2 DEF Connect, Reconciling, wireVars
        <2>2. busy = Absent /\ queue = <<>>
            BY <1>0, <2>1 DEF BusySound, WireSound
        <2>3. Replies' = {}
            BY <1>0, <2>1 DEF Replies, WireSound, ObserverTypeOK
        <2>4. Pending' = {}
            BY <2>1, <2>2, <2>3 DEF Pending, InQueue, Applied
        <2> QED
            BY <2>4 DEF NewestSound
    <1>3. CASE Fail \/ Join \/ Teardown
        BY <1>3 DEF Fail, Join, Teardown, NewestSound
    <1>4. CASE EvidenceStep
        <2>1. PICK e \in Heard : Takes(e)
            BY <1>0, <1>4, EvidenceTaken
        <2>2. UNCHANGED <<seq, epoch, conn>> /\ e.seq \in 1 .. seq /\ e.seq \in Nat
            BY <1>0, <2>1 DEF Takes
        <2> SUFFICES ASSUME conn = "open", pair' # Absent,
                            NEW f \in Pending', f.seq >= pair'.seq, f.seq > pair'.since
                     PROVE  \E g \in Pending' : g.seq = seq
            BY <2>2 DEF NewestSound, NewestPending
        <2>3. /\ Pending' \subseteq Pending /\ f \in Pending /\ f.seq \in 1 .. seq
              /\ \/ Ignored(e) /\ Pending' = Pending
                 \/ e \in Pending /\ Pending \subseteq Pending' \cup {e}
              /\ e \in Pending /\ Stale(e) => e.seq < pair.seq
            BY <1>0, <2>1, TakesPending
        <2>4. CASE Ignored(e)
            <3>1. pair' = pair /\ pair # Absent /\ Stale(e)
                BY <2>4 DEF Ignored
            <3>2. PICK g \in Pending : g.seq = seq
                BY <1>0, <2>3, <3>1 DEF NewestSound, NewestPending
            <3>3. pair.seq <= seq
                BY <1>0, <3>1 DEF PairSound
            <3>4. CASE Pending' = Pending
                BY <3>2, <3>4
            <3>5. CASE e \in Pending /\ Pending \subseteq Pending' \cup {e}
                <4>1. e.seq < seq
                    BY <1>0, <2>2, <2>3, <3>1, <3>3, <3>5
                <4> QED
                    BY <1>0, <2>2, <3>2, <3>5, <4>1
            <3> QED
                BY <2>3, <3>4, <3>5
        <2>5. CASE Moved(e)
            <3>1. /\ pair # Absent /\ SamePairing(pair, pair') /\ pair'.seq = e.seq /\ ~Stale(e)
                  /\ pair \in Pairings
                BY <1>0, <2>5, MovedFacts DEF Moved
            <3>2. e.seq >= pair.seq
                BY <1>0, <2>2, <3>1 DEF Stale
            <3>3. f.seq >= pair.seq /\ f.seq > pair.since /\ f.seq >= e.seq
                BY <1>0, <2>2, <2>3, <3>1, <3>2 DEF SamePairing
            <3>4. PICK g \in Pending : g.seq = seq
                BY <1>0, <2>3, <3>1, <3>3 DEF NewestSound, NewestPending
            <3>5. e \in Pending /\ Pending \subseteq Pending' \cup {e}
                BY <2>3, <3>1 DEF Ignored
            <3>6. CASE g = e
                <4>1. f.seq = seq
                    BY <1>0, <2>2, <2>3, <3>3, <3>4, <3>6
                <4> QED
                    BY <4>1
            <3>7. CASE g # e
                BY <3>4, <3>5, <3>7
            <3> QED
                BY <3>6, <3>7
        <2> QED
            BY <2>1, <2>4, <2>5 DEF Takes, Ended
    <1>5. CASE Recorded
        <2> DEFINE e == busy.evidence
                   p == busy.pair
        <2>1. /\ busy # Absent /\ busy' = Absent /\ e \in Heard /\ p \in Pairings
              /\ UNCHANGED <<queue, seq, epoch, conn, reads>>
              /\ \/ Wrote(e, p)
                 \/ missed' = TRUE /\ losses' \in 0 .. MaxLosses /\ UNCHANGED <<pair, threadVars>>
            BY <1>0, <1>5, RecordedFacts DEF wireVars
        <2>2. pair # Absent /\ e.seq \in 1 .. seq /\ e.seq = p.seq /\ (pair = p \/ e.seq <= pair.since)
            BY <1>0, <2>1 DEF BusySound
        <2>3. Pending = Pending' \cup {e} /\ e \in Pending
            BY <2>1 DEF Pending, InQueue, Replies, Applied
        <2> HIDE DEF e, p
        <2>4. pair'.seq = pair.seq /\ pair'.since = pair.since
            BY <2>1, WroteFacts DEF SamePairing
        <2> SUFFICES ASSUME conn = "open", NEW f \in Pending', f.seq >= pair.seq, f.seq > pair.since
                     PROVE  \E g \in Pending' : g.seq = seq
            BY <2>1, <2>4 DEF NewestSound, NewestPending
        <2>5. f \in Pending /\ f.seq \in 1 .. seq
            BY <1>0, <2>3
        <2>6. PICK g \in Pending : g.seq = seq
            BY <1>0, <2>2, <2>5 DEF NewestSound, NewestPending
        <2>7. CASE g = e
            <3>1. f.seq = seq
                BY <1>0, <2>2, <2>5, <2>6, <2>7
            <3> QED
                BY <3>1
        <2>8. CASE g # e
            BY <2>3, <2>6, <2>8
        <2> QED
            BY <2>7, <2>8
    <1>6. ASSUME NEW r \in reads, Answer(r) PROVE NewestSound'
        <2>1. NewestPending'
            BY <1>0, <1>6, AnswerNewest
        <2> QED
            BY <2>1 DEF NewestSound
    <1>7. ASSUME NEW r \in reads, ReadFails(r) PROVE NewestSound'
        <2>1. /\ UNCHANGED <<queue, seq, epoch, conn, busy, pair>> /\ reads' = reads \ {r}
              /\ r.reply = Absent
            BY <1>7 DEF ReadFails, wireVars
        <2>2. Pending' = Pending
            BY <2>1 DEF Pending, InQueue, Replies, Applied
        <2> QED
            BY <1>0, <2>1, <2>2 DEF NewestSound, NewestPending
    <1>8. ASSUME NEW t \in Hosts, Bind(t) PROVE NewestSound'
        <2>1. /\ pairs = 0 /\ UNCHANGED <<queue, epoch, busy>>
              /\ reads' \subseteq reads \cup {[conn |-> epoch, reply |-> Absent]}
            BY <1>8 DEF Bind, Reconciling, wireVars
        <2>2. queue = <<>> /\ reads = {} /\ busy = Absent
            BY <1>0, <2>1 DEF FreshSound
        <2>3. Pending' = {}
            BY <2>1, <2>2 DEF Pending, InQueue, Replies, Applied
        <2> QED
            BY <2>3 DEF NewestSound
    <1>9. ASSUME NEW t \in Hosts, HoldResume(t) PROVE NewestSound'
        <2>1. pair'.since = seq /\ UNCHANGED <<seq, queue, reads, epoch, busy>>
            BY <1>0, <1>9, PairingFacts DEF HoldResume, wireVars
        <2>2. Pending' = Pending
            BY <2>1, PendingKept
        <2> QED
            BY <1>0, <2>1, <2>2 DEF NewestSound
    <1>10. ASSUME NEW t \in Hosts, Created(t) \/ TerminalExits(t) \/ TerminalFlaps(t) \/ Sweep(t) \/ DeleteRow(t)
                                    \/ Forget(t) \/ TerminalRemoved(t)
           PROVE  NewestSound'
        <2>1. UNCHANGED <<seq, queue, reads, epoch, conn, busy>> /\ (pair' = pair \/ pair' = Absent)
            BY <1>10 DEF Created, TerminalExits, TerminalFlaps, Sweep, DeleteRow, Forget, TerminalRemoved, wireVars
        <2>2. Pending' = Pending
            BY <2>1, PendingKept
        <2> QED
            BY <1>0, <2>1, <2>2 DEF NewestSound, NewestPending
    <1>11. CASE UNCHANGED observerVars
        BY <1>0, <1>11, PendingKept DEF NewestSound, NewestPending, observerVars
    <1> QED
        BY <1>1, <1>2, <1>3, <1>4, <1>5, <1>6, <1>7, <1>8, <1>9, <1>10, <1>11, NextCases
           DEF TerminalStep

LEMMA TruthStep ==
    ASSUME ObserverInv, ObserverTypeOK', [ObserverNext]_observerVars
    PROVE  TruthSound'
    <1>0. /\ ObserverTypeOK /\ WireSound /\ ServerSound /\ FreshSound /\ EstablishedSound
          /\ TermsSound /\ BusySound /\ PairSound /\ NewestSound /\ TruthSound
          /\ seq \in Nat /\ epoch \in Nat
          /\ \A e \in Pending : e.seq \in 1 .. seq
          /\ pair # Absent => pair \in Pairings /\ pair.since \in Nat /\ pair.seq \in Nat
        <2>1. /\ ObserverTypeOK /\ WireSound /\ ServerSound /\ FreshSound /\ EstablishedSound
              /\ TermsSound /\ BusySound /\ PairSound /\ NewestSound /\ TruthSound
            BY Zenon DEF ObserverInv
        <2>2. /\ seq \in Nat /\ epoch \in Nat
              /\ pair # Absent => pair \in Pairings /\ pair.since \in Nat /\ pair.seq \in Nat
            BY <2>1 DEF ObserverTypeOK, Pairings
        <2>3. \A e \in Pending : e.seq \in 1 .. seq
            BY <2>1, PendingFacts
        <2> QED
            BY <2>1, <2>2, <2>3
    <1>1. CASE ServerMoves
        <2>1. /\ UNCHANGED <<epoch, conn, reads, busy, pair>>
              /\ IF conn = "open" THEN Told ELSE UNCHANGED wireVars
            BY <1>0, <1>1, ServerMovesFacts
        <2>2. CASE conn = "open"
            BY <1>0, <2>1, <2>2, ToldPending DEF TruthSound
        <2>3. CASE conn # "open"
            BY <2>1, <2>3 DEF TruthSound
        <2> QED
            BY <2>2, <2>3
    <1>2. CASE Connect
        <2>1. CASE pair = Absent
            BY <1>2, <2>1 DEF Connect, TruthSound
        <2>2. CASE pair # Absent
            <3>1. [conn |-> epoch', reply |-> Absent] \in reads'
                BY <1>2, <2>2 DEF Connect, Reconciling
            <3>2. Awaited'
                BY <3>1 DEF Awaited
            <3> QED
                BY <3>2 DEF TruthSound
        <2> QED
            BY <2>1, <2>2
    <1>3. CASE Fail \/ Join \/ Teardown
        BY <1>3 DEF Fail, Join, Teardown, TruthSound
    <1>4. CASE EvidenceStep
        <2>1. PICK e \in Heard : Takes(e)
            BY <1>0, <1>4, EvidenceTaken
        <2>2. UNCHANGED <<loaded, activity, seq, epoch, conn, missed>> /\ (Awaited' <=> Awaited)
              /\ e.seq \in 1 .. seq /\ e.seq \in Nat
            BY <1>0, <2>1 DEF Takes, serverVars
        <2> SUFFICES ASSUME conn = "open", ~missed, loaded, holder' # Absent, pair' # Absent,
                            pair'.established
                     PROVE  Awaited \/ NewestPending' \/ OldWord' \/ record'.status = activity
            BY <2>2 DEF TruthSound
        <2>3. /\ busy' # Absent => Pending' = Pending
              /\ \/ Ignored(e) /\ Pending' = Pending
                 \/ e \in Pending /\ Pending \subseteq Pending' \cup {e}
              /\ e \in Pending /\ Stale(e) => e.seq < pair.seq
            BY <1>0, <2>1, TakesPending
        <2>4. CASE Ignored(e)
            <3>1. pair' = pair /\ pair # Absent /\ Stale(e) /\ record' = record /\ holder' = holder
                BY <2>4 DEF Ignored, threadVars
            <3>2. pair.seq <= seq /\ pair.seq \in Nat
                BY <1>0, <3>1 DEF PairSound
            <3>3. Awaited \/ NewestPending \/ OldWord \/ record.status = activity
                BY <1>0, <3>1 DEF TruthSound
            <3>4. \A g \in Pending : g.seq >= pair.seq => g \in Pending'
                <4>1. CASE Pending' = Pending
                    BY <4>1
                <4>2. CASE e \in Pending /\ Pending \subseteq Pending' \cup {e}
                    BY <2>2, <2>3, <3>1, <3>2, <4>2
                <4> QED
                    BY <2>3, <4>1, <4>2
            <3>5. NewestPending => NewestPending'
                BY <1>0, <2>2, <3>2, <3>4 DEF NewestPending
            <3>6. OldWord => OldWord'
                BY <1>0, <3>1, <3>2, <3>4 DEF OldWord
            <3> QED
                BY <3>1, <3>3, <3>5, <3>6
        <2>5. CASE Moved(e)
            <3>1. /\ pair # Absent /\ SamePairing(pair, pair') /\ pair'.seq = e.seq /\ ~Stale(e)
                  /\ pair.established /\ record' = record /\ holder' = holder
                BY <1>0, <2>5, MovedFacts DEF Moved, threadVars
            <3>2. e.seq >= pair.seq /\ pair.since \in Nat /\ pair.seq \in Nat
                BY <1>0, <2>2, <3>1 DEF Stale
            <3>3. busy' # Absent /\ Pending' = Pending
                <4>1. pair' \in Pairings /\ busy' = [evidence |-> e, pair |-> pair']
                    BY <1>0, <2>5, <3>1, MovedFacts DEF Moved
                <4>2. busy' \in [evidence : Heard, pair : Pairings]
                    BY <4>1
                <4>3. busy' # Absent
                    BY <4>2, ObserverAssumption
                <4> QED
                    BY <2>3, <4>3
            <3>4. e \in Pending
                BY <2>1, <3>3 DEF Takes, Pending
            <3>5. NewestPending => NewestPending'
                BY <2>2, <3>3 DEF NewestPending
            <3>6. CASE e.seq > pair.since
                BY <1>0, <3>1, <3>2, <3>4, <3>5, <3>6 DEF NewestSound
            <3>7. CASE e.seq <= pair.since
                <4>1. pair'.resumed /\ pair'.since = pair.since
                    BY <1>0, <2>2, <3>1, <3>7 DEF PairSound, SamePairing
                <4>2. CASE e.kind # "turnCompleted"
                    BY <2>2, <3>1, <3>3, <3>4, <3>7, <4>1, <4>2 DEF OldWord
                <4>3. CASE e.kind = "turnCompleted"
                    <5>1. /\ queue'[1] \in InQueue' /\ queue'[1].kind # "turnCompleted"
                          /\ queue'[1].seq = e.seq + 1 /\ e \in InQueue
                        BY <2>1, <4>3 DEF Takes
                    <5>2. e.seq # pair.since
                        BY <1>0, <3>1, <4>3, <5>1 DEF PairSound
                    <5>3. e.seq + 1 <= pair.since
                        BY <2>2, <3>2, <3>7, <5>2
                    <5>4. queue'[1] \in Pending'
                        BY <5>1 DEF Pending
                    <5> QED
                        BY <2>2, <3>1, <4>1, <5>1, <5>3, <5>4 DEF OldWord
                <4> QED
                    BY <4>2, <4>3
            <3> QED
                BY <2>2, <3>2, <3>6, <3>7
        <2> QED
            BY <2>1, <2>4, <2>5 DEF Takes, Ended
    <1>5. CASE Recorded
        <2> DEFINE e == busy.evidence
                   p == busy.pair
        <2>1. /\ busy # Absent /\ busy' = Absent /\ e \in Heard /\ p \in Pairings
              /\ UNCHANGED <<loaded, activity, queue, seq, epoch, conn, reads>>
              /\ \/ Wrote(e, p)
                 \/ missed' = TRUE /\ losses' \in 0 .. MaxLosses /\ UNCHANGED <<pair, threadVars>>
            BY <1>0, <1>5, RecordedFacts DEF wireVars, serverVars
        <2>2. /\ pair # Absent /\ e.seq \in 1 .. seq /\ e.seq = p.seq /\ ~EndsSession(e)
              /\ (pair = p \/ ~pair.established)
              /\ e.kind = "turnCompleted" =>
                    queue # <<>> /\ queue[1].kind # "turnCompleted" /\ queue[1].seq = e.seq + 1
            BY <1>0, <2>1 DEF BusySound
        <2>3. Pending = Pending' \cup {e} /\ e \in Pending /\ InQueue \subseteq Pending'
            BY <2>1 DEF Pending, InQueue, Replies, Applied
        <2>4. e \in Applied
            BY <2>1 DEF Applied
        <2> HIDE DEF e, p
        <2> SUFFICES ASSUME conn = "open", ~missed', loaded, holder' # Absent, pair' # Absent,
                            pair'.established
                     PROVE  NewestPending' \/ OldWord' \/ record'.status = activity
            BY <2>1 DEF TruthSound
        <2>5. Wrote(e, p) /\ pair = p
            BY <2>1, <2>2, WroteFacts
        <2>6. SamePairing(pair, pair') /\ pair'.seq = e.seq /\ pair.seq = e.seq
            BY <2>1, <2>2, <2>5, WroteFacts
        <2>7. pair.since \in Nat /\ pair.seq \in Nat /\ pair.since <= seq
            BY <1>0, <2>2 DEF PairSound
        <2>8. ASSUME NewestPending PROVE NewestPending' \/ e.seq = seq
            BY <2>1, <2>3, <2>8 DEF NewestPending
        <2>9. CASE StatusOf(e) # Absent
            <3>1. ~(e.seq <= p.since /\ p.resumed)
                BY <2>5, <2>9 DEF Wrote
            <3>2. e.seq > pair.since
                BY <1>0, <2>2, <2>5, <2>7, <3>1 DEF PairSound
            <3>3. NewestPending
                BY <1>0, <2>2, <2>3, <2>6, <2>7, <3>2 DEF NewestSound
            <3>4. CASE e.seq = seq
                <4>1. StatusOf(e) = activity
                    BY <1>0, <2>3, <3>4 DEF ServerSound, Tells
                <4>2. record'.status = StatusOf(e)
                    BY <2>5, <2>9 DEF Wrote
                <4> QED
                    BY <4>1, <4>2
            <3> QED
                BY <2>8, <3>3, <3>4
        <2>10. CASE StatusOf(e) = Absent
            <3>1. e.kind = "turnCompleted"
                <4>1. "idle" # Absent /\ "working" # Absent /\ "unknown" # Absent
                    BY ObserverAssumption DEF Policy!Status, Policy!LiveStatus
                <4> QED
                    BY <2>1, <2>2, <2>10, <4>1 DEF StatusOf, EndsSession, Heard, HeardKinds
            <3>2. queue # <<>> /\ queue[1].kind # "turnCompleted" /\ queue[1].seq = e.seq + 1
                BY <2>2, <3>1
            <3>3. queue[1] \in InQueue
                <4>1. 1 \in 1 .. Len(queue)
                    BY <1>0, <3>2 DEF ObserverTypeOK
                <4> QED
                    BY <4>1 DEF InQueue
            <3>4. queue[1] \in Pending' /\ queue[1] \in Pending
                BY <2>3, <3>3
            <3>5. CASE e.seq + 1 > pair.since
                <4>1. NewestPending
                    BY <1>0, <2>2, <2>6, <2>7, <3>2, <3>4, <3>5 DEF NewestSound
                <4>2. e.seq # seq
                    BY <1>0, <2>2, <3>2, <3>4
                <4> QED
                    BY <2>8, <4>1, <4>2
            <3>6. CASE e.seq + 1 <= pair.since
                <4>1. pair'.resumed /\ pair'.since = pair.since
                    BY <1>0, <2>2, <2>6, <2>7, <3>6 DEF PairSound, SamePairing
                <4> QED
                    BY <2>2, <2>6, <3>2, <3>4, <3>6, <4>1 DEF OldWord
            <3> QED
                BY <2>2, <2>7, <3>5, <3>6
        <2> QED
            BY <2>9, <2>10
    <1>6. ASSUME NEW r \in reads, Answer(r) PROVE TruthSound'
        BY <1>0, <1>6, AnswerNewest DEF TruthSound
    <1>7. ASSUME NEW r \in reads, ReadFails(r) PROVE TruthSound'
        BY <1>7 DEF ReadFails, TruthSound
    <1>8. ASSUME NEW t \in Hosts, Bind(t) \/ HoldResume(t) PROVE TruthSound'
        BY <1>0, <1>8, PairingFacts DEF Bind, HoldResume, TruthSound
    <1>9. ASSUME NEW t \in Hosts, Created(t) PROVE TruthSound'
        <2>1. pair' = Absent \/ (pair' = pair /\ pair # Absent /\ ~pair.established)
            BY <1>0, <1>9 DEF Created, TermsSound, EstablishedSound
        <2> QED
            BY <2>1 DEF TruthSound
    <1>10. ASSUME NEW t \in Hosts,
                  TerminalExits(t) \/ TerminalFlaps(t) \/ DeleteRow(t) \/ Forget(t) \/ Sweep(t) \/ TerminalRemoved(t)
           PROVE  TruthSound'
        <2>1. /\ UNCHANGED <<loaded, activity, seq, queue, reads, epoch, conn, busy, missed>>
              /\ pair' = pair \/ pair' = Absent
            BY <1>10 DEF TerminalExits, TerminalFlaps, DeleteRow, Forget, Sweep, TerminalRemoved, serverVars, wireVars
        <2>2. Pending' = Pending /\ (Awaited' <=> Awaited)
            BY <2>1, PendingKept
        <2>3. holder' = Absent \/ pair' = Absent \/ ~pair.established
                \/ (record' = record /\ holder' = holder)
            <3>1. CASE TerminalExits(t) \/ TerminalFlaps(t) \/ DeleteRow(t) \/ Forget(t)
                BY <3>1 DEF TerminalExits, TerminalFlaps, DeleteRow, Forget, threadVars
            <3>2. CASE Sweep(t)
                BY <1>0, <3>2, ReleasedFacts DEF Sweep
            <3>3. CASE TerminalRemoved(t)
                <4>1. removing[t] = "converge" /\ pair' = pair
                    BY <3>3 DEF TerminalRemoved
                <4>2. CASE pair # Absent /\ pair.established
                    <5>1. record # Absent /\ record.terminal # t
                        BY <1>0, <4>1, <4>2, ObserverAssumption DEF PairSound, EstablishedSound
                    <5> QED
                        BY <1>0, <3>3, <5>1, RemovedFacts
                <4> QED
                    BY <4>1, <4>2
            <3> QED
                BY <1>10, <3>1, <3>2, <3>3
        <2> QED
            BY <1>0, <2>1, <2>2, <2>3 DEF TruthSound, NewestPending, OldWord
    <1>11. CASE UNCHANGED observerVars
        BY <1>0, <1>11, PendingKept DEF TruthSound, NewestPending, OldWord, observerVars
    <1> QED
        BY <1>1, <1>2, <1>3, <1>4, <1>5, <1>6, <1>7, <1>8, <1>9, <1>10, <1>11, NextCases
           DEF TerminalStep

LEMMA LiveStep ==
    ASSUME ObserverInv, ObserverTypeOK', [ObserverNext]_observerVars
    PROVE  LiveSound'
    <1>0. /\ ObserverTypeOK /\ WireSound /\ ServerSound /\ FreshSound /\ EstablishedSound
          /\ TermsSound /\ BusySound /\ PairSound /\ LiveSound
          /\ record # Absent => record \in Policy!Record
        BY DEF ObserverInv, ObserverTypeOK
    <1>a. ~Policy!IsLive(Absent) /\ ~Policy!IsLive("unknown")
        BY ObserverAssumption DEF Policy!IsLive, Policy!LiveStatus, Policy!Status
    <1>b. pair # Absent /\ pair.last # Absent => pair.established /\ record # Absent
        BY <1>0 DEF PairSound, EstablishedSound
    <1>1. CASE ServerMoves
        <2>1. UNCHANGED <<conn, pair, record, missed>>
            BY <1>0, <1>1, ServerMovesFacts DEF threadVars
        <2> QED
            BY <1>0, <2>1 DEF LiveSound
    <1>2. CASE Connect \/ Fail \/ Join
        <2>1. UNCHANGED <<pair, record, missed>> /\ conn' # "none"
            BY <1>2 DEF Connect, Fail, Join, threadVars
        <2> QED
            BY <1>0, <2>1 DEF LiveSound
    <1>3. CASE EvidenceStep
        <2>1. PICK e \in Heard : Takes(e)
            BY <1>0, <1>3, EvidenceTaken
        <2>2. UNCHANGED <<conn, missed>>
            BY <2>1 DEF Takes
        <2>3. CASE Ignored(e)
            BY <1>0, <2>2, <2>3 DEF Ignored, LiveSound, threadVars
        <2>4. CASE Ended(e)
            BY <2>4 DEF Ended, LiveSound
        <2>5. CASE Moved(e)
            <3>1. pair # Absent /\ pair'.last = pair.last /\ record' = record
                BY <1>0, <2>5, MovedFacts DEF Moved, threadVars
            <3> QED
                BY <1>0, <2>2, <3>1 DEF LiveSound
        <2> QED
            BY <2>1, <2>3, <2>4, <2>5 DEF Takes
    <1>4. CASE Recorded
        <2> DEFINE e == busy.evidence
                   p == busy.pair
        <2>1. /\ busy # Absent /\ e \in Heard /\ p \in Pairings /\ conn' = conn
              /\ \/ Wrote(e, p)
                 \/ missed' = TRUE /\ losses' \in 0 .. MaxLosses /\ UNCHANGED <<pair, threadVars>>
            BY <1>0, <1>4, RecordedFacts
        <2>2. pair # Absent /\ conn # "none" /\ (pair = p \/ ~pair.established)
            BY <1>0, <2>1 DEF BusySound
        <2> HIDE DEF e, p
        <2>3. CASE Wrote(e, p) /\ pair = p
            <3>1. pair'.last = IF StatusOf(e) = Absent THEN pair.last ELSE StatusOf(e)
                BY <2>1, <2>3, WroteFacts
            <3>2. CASE StatusOf(e) = Absent
                <4>1. pair'.last = pair.last
                    BY <3>1, <3>2
                <4>2. pair.last # Absent => record'.status = record.status
                    BY <1>b, <2>2, <2>3, <3>2 DEF Wrote
                <4> QED
                    BY <1>0, <2>1, <2>2, <4>1, <4>2 DEF LiveSound
            <3>3. CASE StatusOf(e) # Absent
                <4>1. pair'.last = StatusOf(e)
                    BY <3>1, <3>3
                <4>2. record'.status = StatusOf(e) \/ Policy!IsLive(StatusOf(e))
                    BY <2>3, <3>3 DEF Wrote
                <4> QED
                    BY <2>1, <2>2, <4>1, <4>2 DEF LiveSound
            <3> QED
                BY <3>2, <3>3
        <2>4. CASE Wrote(e, p) /\ pair # p
            <3>1. pair' = pair /\ pair.last = Absent
                BY <1>b, <2>1, <2>2, <2>4, WroteFacts
            <3> QED
                BY <2>1, <2>2, <3>1 DEF LiveSound
        <2>5. CASE UNCHANGED <<pair, threadVars>>
            BY <1>0, <2>1, <2>2, <2>5 DEF LiveSound, threadVars
        <2> QED
            BY <2>1, <2>3, <2>4, <2>5
    <1>5. CASE Teardown
        <2>1. CASE /\ UNCHANGED <<pair, threadVars>> /\ (missed' \/ ~Coerces)
                   /\ missed' \in {missed, TRUE}
            <3>1. ~Coerces /\ pair # Absent => ~Policy!IsLive(pair.last)
                BY <1>a, <1>b DEF Coerces
            <3> QED
                BY <1>0, <2>1, <3>1 DEF LiveSound, threadVars
        <2>2. CASE pair'.last = "unknown" /\ record'.status = "unknown"
            BY <1>a, <2>2 DEF LiveSound
        <2>3. CASE pair' = Absent
            BY <2>3 DEF LiveSound
        <2> QED
            BY <1>0, <1>5, <2>1, <2>2, <2>3, TeardownFacts
    <1>6. ASSUME NEW r \in reads, Answer(r) \/ ReadFails(r) PROVE LiveSound'
        <2>1. UNCHANGED <<conn, pair, record>> /\ (missed' = missed \/ missed' = TRUE)
            BY <1>6 DEF Answer, ReadFails, threadVars
        <2> QED
            BY <1>0, <2>1 DEF LiveSound
    <1>7. ASSUME NEW t \in Hosts, Bind(t) \/ HoldResume(t) PROVE LiveSound'
        <2>1. pair'.last = Absent
            <3>1. CASE Bind(t)
                <4>1. PICK prompt \in BOOLEAN : Pairing(t, FALSE, prompt)
                    BY <3>1 DEF Bind
                <4> QED
                    BY <1>0, <4>1, PairingFacts
            <3>2. CASE HoldResume(t)
                BY <1>0, <3>2, PairingFacts DEF HoldResume
            <3> QED
                BY <1>7, <3>1, <3>2
        <2> QED
            BY <1>a, <2>1 DEF LiveSound
    <1>8. ASSUME NEW t \in Hosts, TerminalStep(t), ~HoldResume(t) PROVE LiveSound'
        <2>1. UNCHANGED <<conn, missed>>
            BY <1>8, TerminalStepFrame
        <2>2. pair' = pair \/ pair' = Absent
            BY <1>8 DEF TerminalStep, Created, TerminalExits, TerminalFlaps, Sweep, DeleteRow, Forget,
               TerminalRemoved
        <2>3. record # Absent /\ pair' # Absent /\ Policy!IsLive(record'.status)
                => record'.status = record.status
            <3>1. CASE Created(t)
                <4>1. record # Absent /\ pair' # Absent =>
                        record \in Policy!Record /\ record' = [record EXCEPT !.terminal = t]
                    BY <1>0, <3>1 DEF Created
                <4> QED
                    BY <4>1 DEF Policy!Record
            <3>2. CASE TerminalExits(t) \/ TerminalFlaps(t) \/ DeleteRow(t) \/ Forget(t)
                BY <3>2 DEF TerminalExits, TerminalFlaps, DeleteRow, Forget, threadVars
            <3>3. CASE Sweep(t)
                BY <1>0, <3>3, ReleasedFacts DEF Sweep
            <3>4. CASE TerminalRemoved(t)
                BY <1>0, <3>4, RemovedFacts
            <3> QED
                BY <1>8, <3>1, <3>2, <3>3, <3>4 DEF TerminalStep
        <2> QED
            BY <1>0, <1>b, <2>1, <2>2, <2>3 DEF LiveSound
    <1>9. CASE UNCHANGED observerVars
        BY <1>0, <1>9 DEF LiveSound, observerVars
    <1> QED
        BY <1>1, <1>2, <1>3, <1>4, <1>5, <1>6, <1>7, <1>8, <1>9, NextCases

LEMMA TrackedStep ==
    ASSUME ObserverInv, ObserverTypeOK', [ObserverNext]_observerVars
    PROVE  ResumeTracked'
    <1>0. /\ ObserverTypeOK /\ WireSound /\ ServerSound /\ FreshSound /\ EstablishedSound
          /\ TermsSound /\ BusySound /\ PairSound /\ ResumeTracked
          /\ record # Absent => record \in Policy!Record
          /\ terms \in [Hosts -> {"unborn", "creating", "running", "missing", "exited", "deleted"}]
          /\ pairs > 1 => record # Absent
        BY DEF ObserverInv, ObserverTypeOK, TermsSound
    <1>1. CASE ServerMoves
        <2>1. UNCHANGED <<pair, pairs, terms, record, cut>>
            BY <1>0, <1>1, ServerMovesFacts DEF threadVars
        <2> QED
            BY <1>0, <2>1 DEF ResumeTracked, Up
    <1>2. CASE \/ Connect \/ Fail \/ Join \/ UNCHANGED observerVars
               \/ \E r \in reads : Answer(r) \/ ReadFails(r)
        <2>1. UNCHANGED <<pair, pairs, terms, record, cut>>
            BY <1>2 DEF Connect, Fail, Join, Answer, ReadFails, observerVars, threadVars
        <2> QED
            BY <1>0, <2>1 DEF ResumeTracked, Up
    <1>3. CASE EvidenceStep
        <2>1. PICK e \in Heard : Takes(e)
            BY <1>0, <1>3, EvidenceTaken
        <2>2. UNCHANGED <<pairs, terms>>
            BY <2>1 DEF Takes
        <2>3. CASE Ignored(e)
            BY <1>0, <2>2, <2>3 DEF Ignored, ResumeTracked, Up, threadVars
        <2>4. CASE Ended(e)
            <3>1. ASSUME NEW t \in Hosts, Up(t), pairs > 1, record'.terminal = t,
                         t \notin cut'
                  PROVE  FALSE
                <4>1. record.terminal = t /\ t \notin cut
                    BY <1>0, <2>4, <3>1 DEF Ended
                <4>2. pair # Absent /\ pair.terminal = t
                    BY <1>0, <3>1, <4>1 DEF ResumeTracked, Up
                <4>3. pair.resumed
                    BY <1>0, <3>1, <4>2 DEF PairSound
                <4> QED
                    BY <2>4, <3>1, <4>2, <4>3 DEF Ended
            <3> QED
                BY <2>2, <3>1 DEF ResumeTracked, Up
        <2>5. CASE Moved(e)
            <3>1. /\ pair # Absent /\ pair' # Absent /\ pair'.terminal = pair.terminal
                  /\ record' = record /\ cut' = cut
                BY <1>0, <2>5, MovedFacts DEF Moved, SamePairing, threadVars
            <3> QED
                BY <1>0, <2>2, <3>1 DEF ResumeTracked, Up
        <2> QED
            BY <2>1, <2>3, <2>4, <2>5 DEF Takes
    <1>4. CASE Recorded
        <2> DEFINE e == busy.evidence
                   p == busy.pair
        <2>1. /\ busy # Absent /\ e \in Heard /\ p \in Pairings /\ UNCHANGED <<pairs, terms, cut>>
              /\ \/ Wrote(e, p)
                 \/ missed' = TRUE /\ losses' \in 0 .. MaxLosses /\ UNCHANGED <<pair, threadVars>>
            BY <1>0, <1>4, RecordedFacts
        <2>2. pair # Absent /\ (pair = p \/ ~Up(p.terminal) \/ p.terminal \in cut)
            BY <1>0, <2>1 DEF BusySound, Up
        <2> HIDE DEF e, p
        <2>3. CASE Wrote(e, p)
            <3>1. pair' # Absent /\ pair'.terminal = pair.terminal
                BY <2>1, <2>2, <2>3, WroteFacts DEF SamePairing
            <3>2. record'.terminal = record.terminal \/ record'.terminal = p.terminal
                BY <2>3 DEF Wrote
            <3> QED
                BY <1>0, <2>1, <2>2, <3>1, <3>2 DEF ResumeTracked, Up
        <2>4. CASE UNCHANGED <<pair, threadVars>>
            BY <1>0, <2>1, <2>4 DEF ResumeTracked, Up, threadVars
        <2> QED
            BY <2>1, <2>3, <2>4
    <1>5. CASE Teardown
        <2>1. /\ UNCHANGED <<pairs, terms>> /\ cut \subseteq cut'
              /\ record # Absent => record'.terminal = record.terminal
            BY <1>0, <1>5, TeardownFacts
        <2>2. \/ pair' = pair
              \/ pair # Absent /\ pair' # Absent /\ SamePairing(pair, pair')
              \/ pair # Absent /\ (~Up(pair.terminal) \/ pair.terminal \in cut')
            BY <1>0, <1>5, TeardownFacts DEF Up
        <2> QED
            BY <1>0, <2>1, <2>2 DEF ResumeTracked, SamePairing, Up
    <1>6. ASSUME NEW t \in Hosts, Bind(t) PROVE ResumeTracked'
        <2>1. pairs' = 1
            BY <1>6 DEF Bind, Pairing
        <2> QED
            BY <2>1 DEF ResumeTracked, Up
    <1>7. ASSUME NEW t \in Hosts, HoldResume(t) PROVE ResumeTracked'
        <2>1. \A u \in Hosts : Up(u)' => u \in cut'
            BY <1>0, <1>7 DEF HoldResume, Up
        <2> QED
            BY <2>1 DEF ResumeTracked, Up
    <1>8. ASSUME NEW t \in Hosts, Created(t) PROVE ResumeTracked'
        <2>1. terms[t] = "creating" /\ UNCHANGED <<pairs, cut>>
            BY <1>8 DEF Created
        <2>2. pair # Absent /\ pair.terminal = t /\ pair.resumed
            BY <1>0, <2>1 DEF TermsSound
        <2>3. record # Absent /\ record \in Policy!Record
            BY <1>0, <2>2 DEF PairSound
        <2>4. CASE pair' = pair /\ record' = [record EXCEPT !.terminal = t]
            <3>1. record'.terminal = t
                BY <2>3, <2>4 DEF Policy!Record
            <3> QED
                BY <2>2, <2>4, <3>1 DEF ResumeTracked, Up
        <2>5. CASE terms' = [terms EXCEPT ![t] = "deleted"] /\ record' = record
            BY <1>0, <2>1, <2>2, <2>5 DEF ResumeTracked, Up
        <2> QED
            BY <1>8, <2>4, <2>5 DEF Created, threadVars
    <1>9. ASSUME NEW t \in Hosts,
                 TerminalExits(t) \/ TerminalFlaps(t) \/ DeleteRow(t) \/ Forget(t) \/ Sweep(t) \/ TerminalRemoved(t)
          PROVE  ResumeTracked'
        <2>1. UNCHANGED <<pairs, cut>> /\ \A u \in Hosts : Up(u)' => Up(u)
            BY <1>0, <1>9 DEF Up, TerminalExits, TerminalFlaps, DeleteRow, Forget, Sweep, TerminalRemoved
        <2>2. pair' = pair \/ (pair.terminal = t /\ ~Up(t))
            BY <1>0, <1>9 DEF Up, TerminalExits, TerminalFlaps, DeleteRow, Forget, Forgets, Sweep, TerminalRemoved,
               TermsSound
        <2>3. record # Absent => record'.terminal \in {record.terminal, Absent}
            <3>1. CASE TerminalExits(t) \/ TerminalFlaps(t) \/ DeleteRow(t) \/ Forget(t)
                BY <3>1 DEF TerminalExits, TerminalFlaps, DeleteRow, Forget, threadVars
            <3>2. CASE Sweep(t)
                BY <1>0, <3>2, ReleasedFacts DEF Sweep
            <3>3. CASE TerminalRemoved(t)
                BY <1>0, <3>3, RemovedFacts
            <3> QED
                BY <1>9, <3>1, <3>2, <3>3
        <2>4. Absent \notin Hosts
            BY ObserverAssumption
        <2> QED
            BY <1>0, <2>1, <2>2, <2>3, <2>4 DEF ResumeTracked, Up
    <1> QED
        BY <1>1, <1>2, <1>3, <1>4, <1>5, <1>6, <1>7, <1>8, <1>9, NextCases DEF TerminalStep

LEMMA NothingObserved ==
    ASSUME ObserverInit
    PROVE  ObserverInv
    <1>0. pair = Absent /\ record = Absent /\ queue = <<>> /\ reads = {} /\ busy = Absent
        BY DEF ObserverInit
    <1>1. ObserverTypeOK
        <2>1. queue \in Seq(Heard)
            BY <1>0
        <2>2. /\ MaxTurns \in Nat /\ MaxConns \in Nat /\ MaxLosses \in Nat
              /\ 0 \in 0 .. MaxTurns /\ 0 \in 0 .. MaxConns /\ 0 \in 0 .. MaxLosses
            BY ObserverAssumption
        <2> QED
            BY <2>1, <2>2, Zenon DEF ObserverInit, ObserverTypeOK
    <1>2. InQueue = {} /\ Replies = {} /\ Applied = {}
        BY <1>0 DEF InQueue, Replies, Applied
    <1>3. WireSound
        BY <1>0 DEF ObserverInit, WireSound
    <1>4. ServerSound
        BY <1>2 DEF ObserverInit, ServerSound, Pending
    <1>5. FreshSound
        BY DEF ObserverInit, FreshSound
    <1>6. EstablishedSound /\ PairSound /\ NewestSound /\ TruthSound /\ LiveSound
        BY <1>0 DEF EstablishedSound, PairSound, NewestSound, TruthSound, LiveSound
    <1>7. TermsSound /\ BusySound /\ ResumeTracked
        BY DEF ObserverInit, TermsSound, BusySound, ResumeTracked, Up
    <1> QED
        BY <1>1, <1>3, <1>4, <1>5, <1>6, <1>7 DEF ObserverInv

LEMMA ObserverKept == ObserverInv /\ [ObserverNext]_observerVars => ObserverInv'
    <1> SUFFICES ASSUME ObserverInv, [ObserverNext]_observerVars
                 PROVE  ObserverInv'
        OBVIOUS
    <1>1. ObserverTypeOK'
        BY TypesStep
    <1> QED
        BY <1>1, WireStep, ServerStep, FreshStep, EstablishedStep, PairStep, TermsStep, BusyStep,
           NewestStep, TruthStep, LiveStep, TrackedStep, Zenon DEF ObserverInv

(* With everything applied nothing is pending, so the word has been told;  *)
(* what the pairing forwarded stands for what the record shows.            *)
LEMMA InvariantTells ==
    ASSUME ObserverInv
    PROVE  ObservesTruly
    <1>1. TruthWhenQuiet
        <2> SUFFICES ASSUME Quiet, ~missed, loaded, holder # Absent, pair # Absent,
                            pair.established
                     PROVE  record.status = activity
            BY DEF TruthWhenQuiet
        <2>1. conn = "open" /\ queue = <<>> /\ reads = {} /\ busy = Absent
            BY DEF Quiet
        <2>2. Pending = {} /\ ~Awaited
            BY <2>1 DEF Pending, InQueue, Replies, Applied, Awaited
        <2> QED
            BY <2>1, <2>2 DEF ObserverInv, TruthSound, NewestPending, OldWord
    <1>2. NothingLiveUnobserved
        BY DEF ObserverInv, LiveSound, NothingLiveUnobserved
    <1> QED
        BY <1>1, <1>2 DEF ObserverInv, ObservesTruly

(***************************************************************************)
(* The Codex observer tells the truth, however many terminals, turns,      *)
(* connections, frames and losses: with everything received applied the    *)
(* record says what the app-server says, without a connection nothing live *)
(* is claimed, and a terminal an open resumed the conversation in stays    *)
(* paired while it runs, but for what came while its row said missing      *)
(* (applyEvidence, holdResume, teardown, terminalLive, Forget).            *)
(***************************************************************************)
THEOREM ObserverTellsTruth == ObserverSpec => []ObservesTruly
    <1>1. ObserverInit => ObserverInv
        BY NothingObserved
    <1>2. ObserverInv /\ [ObserverNext]_observerVars => ObserverInv'
        BY ObserverKept
    <1>3. ObserverInv => ObservesTruly
        BY InvariantTells
    <1> QED
        BY <1>1, <1>2, <1>3, PTL DEF ObserverSpec
=============================================================================
