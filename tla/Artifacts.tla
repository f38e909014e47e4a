----------------------------- MODULE Artifacts ------------------------------
(***************************************************************************)
(* Published artifacts: internal/artifacts with the store's artifact rows, *)
(* and the reader of internal/documents.  A version is a row that names it *)
(* and a directory that holds its snapshots; neither store knows of the    *)
(* other, so the order of the steps is what keeps them together.           *)
(*                                                                         *)
(* A request handler is a process: it looks the publication up, checks the *)
(* base, stages the upload, and only then takes the service's mutex `ops', *)
(* here opsLock.                                                           *)
(* An artifact is a number, 0 where the source has "".  Snapshots are the  *)
(* publication that carried them.                                          *)
(***************************************************************************)
EXTENDS Naturals, FiniteSets, FiniteSetsExt

CONSTANTS
    Handlers,      \* requests the server handles at a time
    ArtifactIds,   \* the ids that can be minted
    MaxPubs,       \* bound: publication ids
    MaxVersions,   \* bound: versions of an artifact
    MaxFailures,   \* bound: writes, reads and syncs that fail
    MaxRestarts    \* bound: restarts

ASSUME ArtifactsAssumption ==
    /\ 0 \notin ArtifactIds /\ "free" \notin Handlers
    /\ MaxPubs \in Nat /\ MaxVersions \in Nat \ {0}

VARIABLES
    versions,   \* artifact_versions: [artifact, number, base, pub, snap]
    pubs,       \* artifact_publications: every id ever committed
    content,    \* version directories: [artifact, number, snap]
    durable,    \* the version directories that were synced
    opsLock,    \* Service.ops: its holder
    handler,    \* the requests in the server
    reader,     \* a page of the document origin: the version it resolved
    published,  \* how many publication ids were handed out
    deleted,    \* history: artifacts that were deleted
    leftover,   \* history: directories a failed sync or removal left
    missed,     \* history: the reader found no directory for its version
    failures, restarts

rows == <<versions, pubs>>
disk == <<content, durable>>
artifactVars == <<rows, disk, opsLock, handler, reader, published, deleted, leftover, missed,
                  failures, restarts>>

New == 0
Free == "free"
Versions == 1 .. MaxVersions
PublicationIds == 1 .. MaxPubs

Place(a, n) == [artifact |-> a, number |-> n]
PlaceOf(d) == Place(d.artifact, d.number)

NoRequest == [pc |-> "idle", pub |-> 0, target |-> New, base |-> 0, from |-> 0,
              at |-> Place(New, 0)]

Statuses == {"ok", "not_found", "conflict", "gone", "invalid", "failed"}

Stages == {"idle", "replay", "known", "early", "stage", "lock", "place", "row", "erase"}

Request == [pc : Stages \cup Statuses, pub : 0 .. MaxPubs, target : ArtifactIds \cup {New},
            base : 0 .. MaxVersions, from : 0 .. MaxVersions,
            at : [artifact : ArtifactIds \cup {New}, number : 0 .. MaxVersions]]

ArtifactsTypeOK ==
    /\ versions \subseteq [artifact : ArtifactIds, number : Versions, base : 0 .. MaxVersions,
                           pub : PublicationIds, snap : PublicationIds]
    /\ pubs \subseteq PublicationIds
    /\ content \subseteq [artifact : ArtifactIds, number : Versions, snap : PublicationIds]
    /\ durable \subseteq content
    /\ opsLock \in Handlers \cup {Free}
    /\ handler \in [Handlers -> Request]
    /\ published \in 0 .. MaxPubs

ArtifactsInit ==
    /\ versions = {} /\ pubs = {} /\ content = {} /\ durable = {}
    /\ opsLock = Free /\ handler = [h \in Handlers |-> NoRequest] /\ reader = Place(New, 0)
    /\ published = 0 /\ deleted = {} /\ leftover = {} /\ missed = FALSE
    /\ failures = 0 /\ restarts = 0

Failure == failures < MaxFailures /\ failures' = failures + 1
NoFailure == UNCHANGED failures

Live == {v.artifact : v \in versions}

(* MAX(number) of the artifact's rows. *)
CurrentVersion(a) == Max({0} \cup {v.number : v \in {w \in versions : w.artifact = a}})

(* The row of a version, and the directory of one. *)
VersionRow(a, n) == CHOOSE v \in versions : v.artifact = a /\ v.number = n
Dir(p) == {d \in content : PlaceOf(d) = p}

(* What a handler answers; a lock it holds goes with it. *)
Reply(h, status) ==
    /\ handler' = [handler EXCEPT ![h].pc = status]
    /\ opsLock' = IF opsLock = h THEN Free ELSE opsLock

Goto(h, pc) == handler' = [handler EXCEPT ![h].pc = pc] /\ UNCHANGED opsLock

-----------------------------------------------------------------------------
(* A publication.                                                          *)

(* A request arrives; a restoration names the version it takes its         *)
(* snapshots from and carries no archives.                                 *)
Receive(h, pub, target, base, from) ==
    /\ handler[h].pc = "idle"
    /\ handler' = [handler EXCEPT ![h] = [NoRequest EXCEPT !.pc = "replay", !.pub = pub,
                                          !.target = target, !.base = base, !.from = from]]

(* replay: an id already committed answers with what it committed, one     *)
(* whose artifact is gone with that.                                       *)
Committed(h) == \E v \in versions : v.pub = handler[h].pub
CommittedAs(h) == CHOOSE v \in versions : v.pub = handler[h].pub
Elsewhere(h) == \E v \in versions : /\ v.pub = handler[h].pub
                                    /\ handler[h].target \notin {New, v.artifact}
Gone(h) == handler[h].pub \in pubs /\ ~Committed(h)

Stale(h) == handler[h].base # CurrentVersion(handler[h].target)

Replays(h) == handler[h].pub \in pubs
ReplayAnswer(h) == IF Gone(h) THEN "gone" ELSE IF Elsewhere(h) THEN "conflict" ELSE "ok"

(* Answering from the checks: a replay carries the version committed.      *)
Refuse(h, status) ==
    /\ handler' = [handler EXCEPT ![h].pc = status,
                                  ![h].at = IF status = "ok" THEN PlaceOf(CommittedAs(h)) ELSE @]
    /\ UNCHANGED opsLock

(* The lookups before the upload is read, each a statement of its own: the *)
(* version of the publication, the publication, the artifact.              *)
Replay(h) ==
    /\ handler[h].pc = "replay"
    /\ \/ Committed(h) /\ Refuse(h, ReplayAnswer(h)) /\ NoFailure
       \/ ~Committed(h) /\ Goto(h, "known") /\ NoFailure
       \/ Failure /\ Reply(h, "failed")
    /\ UNCHANGED <<rows, disk, reader, published, deleted, leftover, missed, restarts>>

(* A publication without a version: its artifact has been deleted. *)
LookUpPublication(h) ==
    /\ handler[h].pc = "known"
    /\ \/ Replays(h) /\ Reply(h, "gone")
       \/ ~Replays(h) /\ Goto(h, IF handler[h].target = New THEN "stage" ELSE "early")
    /\ UNCHANGED <<rows, disk, reader, published, deleted, leftover, missed, failures, restarts>>

EarlyCheck(h) ==
    /\ handler[h].pc = "early"
    /\ \/ handler[h].target \notin Live /\ Reply(h, "not_found")
       \/ /\ handler[h].target \in Live
          /\ \/ Stale(h) /\ Reply(h, "conflict")
             \/ ~Stale(h) /\ Goto(h, IF handler[h].from = 0 THEN "stage" ELSE "lock")
    /\ UNCHANGED <<rows, disk, reader, published, deleted, leftover, missed, failures, restarts>>

(* What an upload can be refused for: archives with unsafe names, links,   *)
(* too many or too large files, no index page; or a disk that fails.       *)
Verdicts == {"invalid", "failed"}

(* Both archives validated into a staging directory, synced. *)
Stage(h) ==
    /\ handler[h].pc = "stage"
    /\ \/ Goto(h, "lock") /\ NoFailure
       \/ Failure /\ \E verdict \in Verdicts : Reply(h, verdict)
    /\ UNCHANGED <<rows, disk, reader, published, deleted, leftover, missed, restarts>>

(* Fault: the base checked before the lock is trusted. *)
RefusalOnlyMissing(h) ==
    IF Replays(h) THEN ReplayAnswer(h)
    ELSE IF handler[h].target \in Live \cup {New} THEN "none" ELSE "not_found"

(* The checks that count, under the lock. *)
Refusal(h) ==
    CASE Replays(h) -> ReplayAnswer(h)
      [] ~Replays(h) /\ handler[h].target = New -> "none"
      [] ~Replays(h) /\ handler[h].target # New /\ handler[h].target \notin Live -> "not_found"
      [] ~Replays(h) /\ handler[h].target \in Live /\ Stale(h) -> "conflict"
      [] ~Replays(h) /\ handler[h].target \in Live /\ ~Stale(h) -> "none"

Lock(h) ==
    /\ handler[h].pc = "lock" /\ opsLock = Free
    /\ \/ /\ Refusal(h) # "none" /\ Refuse(h, Refusal(h)) /\ NoFailure
       \/ /\ Refusal(h) = "none"
          /\ handler[h].target = New \/ CurrentVersion(handler[h].target) < MaxVersions
          /\ handler' = [handler EXCEPT ![h].pc = "place"] /\ opsLock' = h /\ NoFailure
       \/ Failure /\ Reply(h, "failed")
    /\ UNCHANGED <<rows, disk, reader, published, deleted, leftover, missed, restarts>>

(* The snapshots a version gets: the upload's, or copyVersion's. *)
Snapshot(h) ==
    IF handler[h].from = 0 THEN handler[h].pub
    ELSE VersionRow(handler[h].target, handler[h].from).snap

(* Where the version goes: the next number of its artifact, or version 1   *)
(* under an id just minted -- which another artifact may have.             *)
Minted == {Place(a, 1) : a \in ArtifactIds \ deleted}
Targets(h) ==
    IF handler[h].target = New THEN Minted
    ELSE {Place(handler[h].target, CurrentVersion(handler[h].target) + 1)}

(* Fault: the directories are not synced. *)
CommitUnsynced(h) ==
    /\ handler[h].pc = "place"
    /\ \E p \in Targets(h) :
          \/ /\ Dir(p) = {}
             /\ content' = content \cup {[artifact |-> p.artifact, number |-> p.number,
                                         snap |-> Snapshot(h)]}
             /\ handler' = [handler EXCEPT ![h].pc = "row", ![h].at = p]
             /\ UNCHANGED <<opsLock, durable, leftover>> /\ NoFailure
          \/ /\ Dir(p) # {} /\ Reply(h, "failed") /\ UNCHANGED <<content, durable, leftover>>
             /\ NoFailure
    /\ UNCHANGED <<rows, reader, published, deleted, missed, restarts>>

(* commit: one rename, which a directory already there refuses, then the   *)
(* directories synced.  A sync that fails leaves the directory.            *)
Commit(h) ==
    /\ handler[h].pc = "place"
    /\ \E p \in Targets(h) :
          LET dir == [artifact |-> p.artifact, number |-> p.number, snap |-> Snapshot(h)] IN
          \/ /\ Dir(p) = {} /\ content' = content \cup {dir} /\ durable' = durable \cup {dir}
             /\ handler' = [handler EXCEPT ![h].pc = "row", ![h].at = p]
             /\ UNCHANGED <<opsLock, leftover>> /\ NoFailure
          \/ /\ Dir(p) = {} /\ Failure /\ Reply(h, "failed")
             /\ \/ content' = content \cup {dir} /\ leftover' = leftover \cup {p}
                \/ UNCHANGED <<content, leftover>>
             /\ UNCHANGED durable
          \/ /\ Dir(p) # {} /\ Reply(h, "failed") /\ NoFailure
             /\ UNCHANGED <<content, durable, leftover>>
    /\ UNCHANGED <<rows, reader, published, deleted, missed, restarts>>

(* Fault: a version that got no rows stays on the disk. *)
RemoveNothing(p) == UNCHANGED disk

(* os.RemoveAll of a placed directory. *)
RemoveAll(p) ==
    /\ content' = content \ Dir(p) /\ durable' = durable \ Dir(p)

(* The rows: version and publication in one transaction.  Ids are unique   *)
(* there; a minted id that exists takes the content back.                  *)
AppendVersion(h) ==
    LET r == handler[h]
        row == [artifact |-> r.at.artifact, number |-> r.at.number, base |-> r.base,
                pub |-> r.pub, snap |-> Snapshot(h)]
        collides == r.target = New /\ r.at.artifact \in Live
    IN
    /\ r.pc = "row"
    /\ \/ /\ ~collides /\ r.pub \notin pubs
          /\ versions' = versions \cup {row} /\ pubs' = pubs \cup {r.pub}
          /\ \/ Reply(h, "ok") /\ NoFailure
             \/ Failure /\ Reply(h, "failed")
          /\ UNCHANGED <<disk, leftover>>
       \/ /\ collides /\ handler' = [handler EXCEPT ![h].pc = "place"] /\ RemoveAll(r.at)
          /\ UNCHANGED <<rows, opsLock, leftover>> /\ NoFailure
       \/ /\ Failure /\ Reply(h, "failed") /\ UNCHANGED rows
          /\ RemoveAll(r.at) /\ UNCHANGED leftover
       \/ /\ Failure /\ Reply(h, "failed") /\ UNCHANGED rows
          /\ UNCHANGED disk /\ leftover' = leftover \cup {r.at}
    /\ UNCHANGED <<reader, published, deleted, missed, restarts>>

-----------------------------------------------------------------------------
(* Deletion, the reader, and a restart.                                    *)

(* Delete: the rows, by the schema with every version's; the publications  *)
(* stay.                                                                   *)
DeleteRows(h, a) ==
    /\ handler[h].pc = "idle" /\ opsLock = Free /\ a \in Live
    /\ versions' = {v \in versions : v.artifact # a}
    /\ deleted' = deleted \cup {a}
    /\ opsLock' = h
    /\ handler' = [handler EXCEPT ![h] = [NoRequest EXCEPT !.pc = "erase", !.target = a]]
    /\ UNCHANGED <<pubs, disk, reader, published, leftover, missed, failures, restarts>>

(* Then the directories, which may fail. *)
Erase(h) ==
    LET dirs == {d \in content : d.artifact = handler[h].target} IN
    /\ handler[h].pc = "erase"
    /\ \/ content' = content \ dirs /\ durable' = durable \ dirs /\ UNCHANGED leftover /\ NoFailure
       \/ Failure /\ leftover' = leftover \cup {PlaceOf(d) : d \in dirs} /\ UNCHANGED disk
    /\ handler' = [handler EXCEPT ![h] = NoRequest] /\ opsLock' = Free
    /\ UNCHANGED <<rows, reader, published, deleted, missed, restarts>>

(* Fault: links are resolved against the directories. *)
ResolveListing ==
    /\ reader.artifact = New
    /\ \E d \in content : reader' = PlaceOf(d)
    /\ UNCHANGED <<rows, disk, opsLock, handler, published, deleted, leftover, missed, failures,
                   restarts>>

(* The reader resolves a main or a fixed link against the rows ... *)
Resolve ==
    /\ reader.artifact = New
    /\ \E v \in versions : reader' = Place(v.artifact, v.number)
    /\ UNCHANGED <<rows, disk, opsLock, handler, published, deleted, leftover, missed, failures,
                   restarts>>

(* ... and then opens the version's directory. *)
Serve ==
    /\ reader.artifact # New
    /\ missed' = (missed \/ (Dir(reader) = {} /\ reader.artifact \notin deleted))
    /\ reader' = Place(New, 0)
    /\ UNCHANGED <<rows, disk, opsLock, handler, published, deleted, leftover, failures, restarts>>

(* reconcile: directories without rows are removed. *)
Reconciled(dirs) == {d \in dirs : \E v \in versions : PlaceOf(v) = PlaceOf(d)}

(* The server dies and comes back; what was written is there, synced or    *)
(* not.  A power loss, which takes what is not synced and may roll back    *)
(* the last commits (WAL with synchronous(NORMAL)), is not modelled.       *)
ServiceRestart ==
    /\ restarts < MaxRestarts /\ restarts' = restarts + 1
    /\ content' = Reconciled(content) /\ durable' = Reconciled(durable)
    /\ opsLock' = Free /\ handler' = [h \in Handlers |-> NoRequest] /\ reader' = Place(New, 0)
    /\ leftover' = {}
    /\ UNCHANGED <<rows, published, deleted, missed, failures>>

(* A request for a restoration, under a publication id of its own.  *)
Restore(h) ==
    /\ published < MaxPubs /\ published' = published + 1
    /\ \E v \in versions : Receive(h, published', v.artifact, CurrentVersion(v.artifact), v.number)
    /\ UNCHANGED <<rows, disk, opsLock, reader, deleted, leftover, missed, failures, restarts>>

Work(h) ==
    \/ Replay(h) \/ LookUpPublication(h) \/ EarlyCheck(h) \/ Stage(h)
    \/ Lock(h) \/ Commit(h) \/ AppendVersion(h) \/ Erase(h)

ArtifactStep ==
    \/ \E h \in Handlers : Work(h) \/ Restore(h) \/ \E a \in ArtifactIds : DeleteRows(h, a)
    \/ Resolve \/ Serve

-----------------------------------------------------------------------------
(* Properties.                                                             *)

(***************************************************************************)
(* A row never outlives, precedes or mistakes the snapshots it names, and  *)
(* names none that was not synced before it committed ("the placement is   *)
(* durable before the row that names it commits"), whatever write, sync or *)
(* removal fails and whenever the server dies (commit before               *)
(* AppendVersion, rows before content in Delete, copyVersion).  It says    *)
(* nothing of a power loss that rolls a deletion's commit back.            *)
(***************************************************************************)
ContentBehindRows ==
    \A v \in versions : \E d \in durable : PlaceOf(d) = PlaceOf(v) /\ d.snap = v.snap

(***************************************************************************)
(* Optimistic concurrency: every version was published against the one     *)
(* right before it, though the base was checked before the upload was      *)
(* staged and others published meanwhile (Publish).                        *)
(***************************************************************************)
BasesChain == \A v \in versions : v.base = v.number - 1

(***************************************************************************)
(* Directories without rows are only there while the mutex is held,        *)
(* besides those a failed sync or removal left for the next start (Publish *)
(* takes a placed version back when its rows fail).                        *)
(***************************************************************************)
OrphansExplained ==
    opsLock = Free =>
        \A d \in content : PlaceOf(d) \in leftover \/ \E v \in versions : PlaceOf(v) = PlaceOf(d)

(***************************************************************************)
(* A link that resolved is served, unless its artifact was deleted         *)
(* meanwhile (Document, servePage, asset).                                 *)
(***************************************************************************)
ReaderFinds == ~missed
=============================================================================
