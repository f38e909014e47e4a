------------------------------ MODULE Projects ------------------------------
(***************************************************************************)
(* Projects and the threads that join them: internal/projects, and what    *)
(* internal/threads and the application coordinator do about projects.     *)
(* Two mutexes are involved.  A project is created or moved under the      *)
(* projects domain's own; threads are classified, backfilled and patched   *)
(* under the threads domain's, which a project's deletion takes first.     *)
(* The rows are shared.                                                    *)
(*                                                                         *)
(* A directory is a path: a sequence of names.                             *)
(***************************************************************************)
EXTENDS Naturals, Sequences, FiniteSets, SequencesExt

CONSTANTS
    ProjectIds,
    Origins,       \* thread -> the directory it was started in
    Directories,   \* the directories a project can have
    MaxChanges,    \* bound: project creations, moves, deletions and patches
    MaxFailedWrites \* bound: writes that fail

VARIABLES
    directory,   \* projects rows: the project's directory, or NoDir
    row,         \* threads rows: the thread's project, NoProject or Unknown
    view,        \* the same in memory
    ops,         \* threads.Service.ops: who has it
    found,       \* observation under way: what classify said
    doomed,      \* the project being deleted
    todo,        \* the backfill under way: assignments still to write
    rescans,     \* backfills the coordinator is about to run
    cleared,     \* history: threads a user or a deletion unassigned
    failed,      \* history: a backfill failed and none has run since
    changes, failedWrites

threadRows == <<row, view>>
projectVars == <<directory, threadRows, ops, found, doomed, todo, rescans, cleared, failed,
                 changes, failedWrites>>

ThreadIds == DOMAIN Origins
NoDir == << >>
NoProject == "none"
Unknown == "unknown"
Existing == {p \in ProjectIds : directory[p] # NoDir}

ProjectsTypeOK ==
    /\ directory \in [ProjectIds -> Directories \cup {NoDir}]
    /\ row \in [ThreadIds -> ProjectIds \cup {NoProject, Unknown}]
    /\ view \in [ThreadIds -> ProjectIds \cup {NoProject, Unknown}]
    /\ ops \in {"free", "observe", "backfill", "delete"}
    /\ found \subseteq ThreadIds \X (ProjectIds \cup {NoProject})
    /\ doomed \in ProjectIds \cup {NoProject}
    /\ \A a \in todo : a[1] \in ThreadIds /\ a[2] \in ProjectIds
    /\ rescans \in 0 .. MaxChanges /\ cleared \subseteq ThreadIds /\ failed \in BOOLEAN

ProjectsInit ==
    /\ directory = [p \in ProjectIds |-> NoDir]
    /\ row = [t \in ThreadIds |-> Unknown] /\ view = row
    /\ ops = "free" /\ found = {} /\ doomed = NoProject /\ todo = {} /\ rescans = 0
    /\ cleared = {} /\ failed = FALSE /\ changes = 0 /\ failedWrites = 0

FailedWrite == failedWrites < MaxFailedWrites /\ failedWrites' = failedWrites + 1
Change == changes < MaxChanges /\ changes' = changes + 1

(* contains, on path boundaries. *)
Encloses(root, dir) == IsPrefix(root, dir)

Containing(dir) == {p \in Existing : Encloses(directory[p], dir)}

(* mostSpecific: the deepest project that contains the directory. *)
MostSpecific(dir) ==
    IF Containing(dir) = {} THEN NoProject
    ELSE CHOOSE p \in Containing(dir) :
            \A q \in Containing(dir) : Len(directory[q]) <= Len(directory[p])

-----------------------------------------------------------------------------
(* The projects domain, under its own mutex.                               *)

(* Fault: directories are not compared. *)
UnclaimedAny(dir, except) == TRUE

(* unclaimed: no other project has the directory. *)
Unclaimed(dir, except) == \A p \in Existing \ {except} : directory[p] # dir

(* Create or Update with a directory; the coordinator owes a backfill. *)
Claim ==
    /\ Change
    /\ \E p \in ProjectIds, dir \in Directories :
          /\ directory[p] # dir /\ Unclaimed(dir, p)
          /\ directory' = [directory EXCEPT ![p] = dir]
    /\ rescans' = rescans + 1
    /\ UNCHANGED <<threadRows, ops, found, doomed, todo, cleared, failed, failedWrites>>

-----------------------------------------------------------------------------
(* The threads domain.                                                     *)

(* Fault: the containment is tested the wrong way round.                   *)
BeginBackfillReversed ==
    /\ rescans > 0 /\ ops = "free" /\ ops' = "backfill" /\ rescans' = rescans - 1
    /\ todo' = {a \in ThreadIds \X Existing :
                   view[a[1]] = NoProject /\ Encloses(Origins[a[1]], directory[a[2]])}
    /\ UNCHANGED <<directory, threadRows, found, doomed, cleared, failed, changes, failedWrites>>

(* Backfill: the unassigned threads against the projects there are now. *)
BeginBackfill ==
    /\ rescans > 0 /\ ops = "free"
    /\ rescans' = rescans - 1
    /\ \/ /\ ops' = "backfill"
          /\ todo' = {<<t, MostSpecific(Origins[t])>> : t \in {u \in ThreadIds :
                        view[u] = NoProject /\ MostSpecific(Origins[u]) # NoProject}}
          /\ UNCHANGED <<failed, failedWrites>>
       \/ FailedWrite /\ failed' = TRUE /\ UNCHANGED <<ops, todo>>
    /\ UNCHANGED <<directory, threadRows, found, doomed, cleared, changes>>

(* AssignProject, thread by thread: only while still unassigned. *)
Assign ==
    /\ ops = "backfill"
    /\ \/ /\ todo # {}
          /\ \E a \in todo :
                /\ todo' = todo \ {a}
                /\ row' = [row EXCEPT ![a[1]] = IF @ = NoProject THEN a[2] ELSE @]
                /\ view' = [view EXCEPT ![a[1]] = IF row[a[1]] = NoProject THEN a[2] ELSE @]
                /\ cleared' = cleared \ {a[1]}
          /\ UNCHANGED <<ops, failed, failedWrites>>
       \/ /\ todo = {} /\ ops' = "free" /\ failed' = FALSE
          /\ UNCHANGED <<threadRows, todo, cleared, failedWrites>>
       \/ /\ todo # {} /\ FailedWrite /\ todo' = {} /\ ops' = "free" /\ failed' = TRUE
          /\ UNCHANGED <<threadRows, cleared>>
    /\ UNCHANGED <<directory, found, doomed, rescans, changes>>

(* A first observation reads the projects ... *)
Classify ==
    /\ ops = "free" /\ ops' = "observe"
    /\ \E t \in ThreadIds : view[t] = Unknown /\ found' = {<<t, MostSpecific(Origins[t])>>}
    /\ UNCHANGED <<directory, threadRows, doomed, todo, rescans, cleared, failed, changes, failedWrites>>

(* ... and then writes the thread. *)
Insert ==
    /\ ops = "observe" /\ ops' = "free"
    /\ \/ /\ \E a \in found : /\ row' = [row EXCEPT ![a[1]] = a[2]]
                              /\ view' = [view EXCEPT ![a[1]] = a[2]]
          /\ UNCHANGED failedWrites
       \/ FailedWrite /\ UNCHANGED threadRows
    /\ found' = {}
    /\ UNCHANGED <<directory, doomed, todo, rescans, cleared, failed, changes>>

(* Update: the user assigns or clears. *)
Patch ==
    /\ ops = "free" /\ Change
    /\ \E t \in ThreadIds, p \in Existing \cup {NoProject} :
          /\ view[t] \notin {Unknown, p}
          /\ row' = [row EXCEPT ![t] = p] /\ view' = [view EXCEPT ![t] = p]
          /\ cleared' = IF p = NoProject THEN cleared \cup {t} ELSE cleared \ {t}
    /\ UNCHANGED <<directory, ops, found, doomed, todo, rescans, failed, failedWrites>>

(* Faults: the deletion does not wait for the threads domain, or the view  *)
(* keeps the project.                                                      *)
DeleteProjectUnlocked ==
    /\ Change
    /\ \E p \in Existing :
          /\ directory' = [directory EXCEPT ![p] = NoDir]
          /\ row' = [t \in ThreadIds |-> IF row[t] = p THEN NoProject ELSE row[t]]
          /\ view' = [t \in ThreadIds |-> IF view[t] = p THEN NoProject ELSE view[t]]
          /\ cleared' = cleared \cup {t \in ThreadIds : row[t] = p}
    /\ UNCHANGED <<ops, found, doomed, todo, rescans, failed, failedWrites>>

(* DeleteProject, under the threads domain's mutex: the row goes, the      *)
(* schema clears the threads' rows ...                                     *)
DeleteProject ==
    /\ ops = "free" /\ Change /\ ops' = "delete"
    /\ \E p \in Existing :
          /\ directory' = [directory EXCEPT ![p] = NoDir]
          /\ row' = [t \in ThreadIds |-> IF row[t] = p THEN NoProject ELSE row[t]]
          /\ cleared' = cleared \cup {t \in ThreadIds : row[t] = p}
          /\ doomed' = p
    /\ UNCHANGED <<view, found, todo, rescans, failed, failedWrites>>

(* ... and the view follows before the mutex is released. *)
ClearView ==
    /\ ops = "delete" /\ ops' = "free"
    /\ view' = [t \in ThreadIds |-> IF view[t] = doomed THEN NoProject ELSE view[t]]
    /\ doomed' = NoProject
    /\ UNCHANGED <<directory, row, found, todo, rescans, cleared, failed, changes, failedWrites>>

ProjectsNext ==
    \/ Claim \/ BeginBackfill \/ Assign \/ Classify \/ Insert \/ Patch \/ DeleteProject \/ ClearView

ProjectsSpec == ProjectsInit /\ [][ProjectsNext]_projectVars

-----------------------------------------------------------------------------
(* Properties.                                                             *)

(***************************************************************************)
(* While nobody has the threads domain's mutex, its view is what is        *)
(* stored, and no thread names a project that is gone (DeleteProject       *)
(* "before any observation or patch can copy the stale project id out of   *)
(* the view").                                                             *)
(***************************************************************************)
ThreadsNameProjects ==
    ops = "free" => view = row /\ \A t \in ThreadIds : view[t] \in Existing \cup {NoProject, Unknown}

(***************************************************************************)
(* No thread falls between its classification and a project's creation or  *)
(* move: once the backfills owed have run, and none failed, a thread          *)
(* without a project is in no project's directory, besides those a user or *)
(* a project's deletion left without one (classify, Backfill).             *)
(***************************************************************************)
NoThreadOverlooked ==
    (ops = "free" /\ rescans = 0 /\ ~failed) =>
        \A t \in ThreadIds : view[t] = NoProject => t \in cleared \/ Containing(Origins[t]) = {}

(***************************************************************************)
(* Projects never share a directory, so the most specific one is one       *)
(* (mostSpecific: "ties are impossible").                                  *)
(***************************************************************************)
NoTies == \A p, q \in Existing : directory[p] = directory[q] => p = q

(***************************************************************************)
(* Threads and projects agree, though they are kept by two domains under   *)
(* two mutexes: no thread names a project that is gone, none falls between *)
(* its classification and a project that is made or moved, and no          *)
(* directory is two projects' (classify, Backfill, DeleteProject,          *)
(* mostSpecific).                                                          *)
(***************************************************************************)
ProjectsHold ==
    /\ ProjectsTypeOK
    /\ ThreadsNameProjects
    /\ NoThreadOverlooked
    /\ NoTies
=============================================================================
