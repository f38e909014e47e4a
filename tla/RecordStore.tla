----------------------------- MODULE RecordStore -----------------------------
(***************************************************************************)
(* The record tables of internal/store: spaces, terminals, projects,       *)
(* threads with their identities, artifacts with their versions and        *)
(* publications, as the repositories' statements and transactions leave    *)
(* them.  There is one writer connection, so a statement or a transaction  *)
(* is one step; its arguments are whatever a caller still believes, so     *)
(* they may name rows that are gone.  A refused statement changes nothing. *)
(*                                                                         *)
(* A table is a function on the ids it has rows for.  Columns no constraint*)
(* and no other statement reads are left out.                              *)
(***************************************************************************)
EXTENDS Naturals, FiniteSets, FiniteSetsExt, Functions

CONSTANTS
    SpaceIds, TerminalIds, ProjectIds, ThreadIds, ArtifactIds,
    Conversations,   \* (integration, conversation) pairs
    Directories,     \* of projects
    Publications,    \* publication ids
    ExitCodes,       \* what a monitor may report
    MaxVersions,     \* bound: versions of an artifact
    Null             \* SQL's NULL

VARIABLES
    spaces,       \* id -> is_default
    terminals,    \* id -> [space, stop, exit]
    projects,     \* id -> directory
    threads,      \* id -> [project, terminal]
    identities,   \* conversation -> thread
    artifacts,    \* id -> project
    versions,     \* <<artifact, number>> -> publication
    committed     \* artifact_publications: publication -> <<artifact, number>>

recordVars == <<spaces, terminals, projects, threads, identities, artifacts, versions, committed>>

Ids(table) == DOMAIN table
Without(table, ids) == Restrict(table, DOMAIN table \ ids)
With(table, id, row) == [i \in DOMAIN table \cup {id} |-> IF i = id THEN row ELSE table[i]]

TypeOK ==
    /\ Ids(spaces) \subseteq SpaceIds /\ Ids(terminals) \subseteq TerminalIds
    /\ Ids(projects) \subseteq ProjectIds /\ Ids(threads) \subseteq ThreadIds
    /\ Ids(identities) \subseteq Conversations /\ Ids(artifacts) \subseteq ArtifactIds
    /\ Ids(versions) \subseteq ArtifactIds \X (1 .. MaxVersions)
    /\ Ids(committed) \subseteq Publications

NoRows == [i \in {} |-> Null]

Init ==
    /\ spaces = NoRows /\ terminals = NoRows /\ projects = NoRows /\ threads = NoRows
    /\ identities = NoRows /\ artifacts = NoRows /\ versions = NoRows /\ committed = NoRows

(* Fault: the pragma is missing, and SQLite ignores the references. *)
ForeignKeysOff == FALSE

(* PRAGMA foreign_keys, per connection *)
ForeignKeys == TRUE

(* What REFERENCES refuses, and what ON DELETE does: NULL or nothing. *)
Refers(id, table) == ForeignKeys => id \in Ids(table) \cup {Null}
Cleared(id, gone) == IF ForeignKeys /\ id = gone THEN Null ELSE id

-----------------------------------------------------------------------------
(* Spaces and terminals.                                                   *)

(* One default space: a partial unique index. *)
InsertSpace(s, default) ==
    /\ s \notin Ids(spaces) /\ (default => \A i \in Ids(spaces) : ~spaces[i])
    /\ spaces' = With(spaces, s, default)
    /\ UNCHANGED <<terminals, projects, threads, identities, artifacts, versions, committed>>

DeleteSpace(s) ==
    /\ s \in Ids(spaces)
    /\ ForeignKeys => \A t \in Ids(terminals) : terminals[t].space # s
    /\ spaces' = Without(spaces, {s})
    /\ UNCHANGED <<terminals, projects, threads, identities, artifacts, versions, committed>>

InsertTerminal(t, s) ==
    /\ t \notin Ids(terminals) /\ s # Null /\ Refers(s, spaces)
    /\ terminals' = With(terminals, t, [space |-> s, stop |-> FALSE, exit |-> Null])
    /\ UNCHANGED <<spaces, projects, threads, identities, artifacts, versions, committed>>

UpdateTerminal(t, s) ==
    /\ t \in Ids(terminals) /\ Refers(s, spaces)
    /\ terminals' = [terminals EXCEPT ![t].space = s]
    /\ UNCHANGED <<spaces, projects, threads, identities, artifacts, versions, committed>>

RecordTerminalStopIntent(t) ==
    /\ t \in Ids(terminals) /\ terminals' = [terminals EXCEPT ![t].stop = TRUE]
    /\ UNCHANGED <<spaces, projects, threads, identities, artifacts, versions, committed>>

(* Fault: the last observation wins. *)
RecordTerminalExitAgain(t, code) ==
    /\ t \in Ids(terminals) /\ terminals' = [terminals EXCEPT ![t].exit = code]
    /\ UNCHANGED <<spaces, projects, threads, identities, artifacts, versions, committed>>

(* The first observation of an exit wins. *)
RecordTerminalExit(t, code) ==
    /\ t \in Ids(terminals) /\ terminals[t].exit = Null
    /\ terminals' = [terminals EXCEPT ![t].exit = code]
    /\ UNCHANGED <<spaces, projects, threads, identities, artifacts, versions, committed>>

(* Threads forget their terminal: ON DELETE SET NULL. *)
DeleteTerminal(t) ==
    /\ t \in Ids(terminals) /\ terminals' = Without(terminals, {t})
    /\ threads' = [h \in Ids(threads) |->
                      [threads[h] EXCEPT !.terminal = Cleared(@, t)]]
    /\ UNCHANGED <<spaces, projects, identities, artifacts, versions, committed>>

-----------------------------------------------------------------------------
(* Projects and threads.                                                   *)

InsertProject(p, d) ==
    /\ p \notin Ids(projects) /\ d \notin Range(projects) /\ projects' = With(projects, p, d)
    /\ UNCHANGED <<spaces, terminals, threads, identities, artifacts, versions, committed>>

UpdateProject(p, d) ==
    /\ p \in Ids(projects) /\ d \notin {projects[q] : q \in Ids(projects) \ {p}}
    /\ projects' = [projects EXCEPT ![p] = d]
    /\ UNCHANGED <<spaces, terminals, threads, identities, artifacts, versions, committed>>

(* Threads and artifacts survive unassigned. *)
DeleteProject(p) ==
    /\ p \in Ids(projects) /\ projects' = Without(projects, {p})
    /\ threads' = [h \in Ids(threads) |-> [threads[h] EXCEPT !.project = Cleared(@, p)]]
    /\ artifacts' = [a \in Ids(artifacts) |-> Cleared(artifacts[a], p)]
    /\ UNCHANGED <<spaces, terminals, identities, versions, committed>>

InsertThread(h, p, t) ==
    /\ h \notin Ids(threads) /\ Refers(p, projects) /\ Refers(t, terminals)
    /\ threads' = With(threads, h, [project |-> p, terminal |-> t])

InsertThreadIdentity(h, k) ==
    /\ k \notin Ids(identities) /\ identities' = With(identities, k, h)

(* Fault: two statements, and the second may be refused. *)
InsertObservedSeparately(h, k, p, t) ==
    /\ InsertThread(h, p, t)
    /\ InsertThreadIdentity(h, k) \/ (k \in Ids(identities) /\ UNCHANGED identities)
    /\ UNCHANGED <<spaces, terminals, projects, artifacts, versions, committed>>

(* The row and its mapping in one transaction. *)
InsertObserved(h, k, p, t) ==
    /\ InsertThread(h, p, t) /\ InsertThreadIdentity(h, k)
    /\ UNCHANGED <<spaces, terminals, projects, artifacts, versions, committed>>

(* Every mutable column from the caller's record. *)
UpdateThread(h, p, t) ==
    /\ h \in Ids(threads) /\ Refers(p, projects) /\ Refers(t, terminals)
    /\ threads' = [threads EXCEPT ![h] = [project |-> p, terminal |-> t]]
    /\ UNCHANGED <<spaces, terminals, projects, identities, artifacts, versions, committed>>

AssignThreadProject(h, p) ==
    /\ h \in Ids(threads) /\ threads[h].project = Null /\ p # Null /\ Refers(p, projects)
    /\ threads' = [threads EXCEPT ![h].project = p]
    /\ UNCHANGED <<spaces, terminals, projects, identities, artifacts, versions, committed>>

(* The mapping goes with the thread: ON DELETE CASCADE. *)
DeleteThread(h) ==
    /\ h \in Ids(threads) /\ threads' = Without(threads, {h})
    /\ identities' = IF ForeignKeys THEN Without(identities, {k \in Ids(identities) :
                                                                  identities[k] = h})
                     ELSE identities
    /\ UNCHANGED <<spaces, terminals, projects, artifacts, versions, committed>>

-----------------------------------------------------------------------------
(* Artifacts.                                                              *)

(* MAX(number) *)
CurrentVersion(a) == Max({0} \cup {v[2] : v \in {w \in Ids(versions) : w[1] = a}})

(* insertVersion: the version and its publication, which outlives it. *)
InsertVersion(a, n, pub) ==
    /\ pub \notin Range(versions) /\ pub \notin Ids(committed)
    /\ versions' = With(versions, <<a, n>>, pub)
    /\ committed' = With(committed, pub, <<a, n>>)

CreateArtifact(a, pub) ==
    /\ a \notin Ids(artifacts) /\ artifacts' = With(artifacts, a, Null)
    /\ InsertVersion(a, 1, pub)
    /\ UNCHANGED <<spaces, terminals, projects, threads, identities>>

(* Fault: the base the caller read is trusted. *)
BaseCurrentAny(a, base) == a \in Ids(artifacts)

(* Read again inside the transaction. *)
BaseCurrent(a, base) == a \in Ids(artifacts) /\ CurrentVersion(a) = base

AppendVersion(a, base, pub) ==
    /\ base < MaxVersions /\ BaseCurrent(a, base)
    /\ InsertVersion(a, base + 1, pub)
    /\ UNCHANGED <<spaces, terminals, projects, threads, identities, artifacts>>

UpdateArtifact(a, p) ==
    /\ a \in Ids(artifacts) /\ Refers(p, projects) /\ artifacts' = [artifacts EXCEPT ![a] = p]
    /\ UNCHANGED <<spaces, terminals, projects, threads, identities, versions, committed>>

DeleteArtifact(a) ==
    /\ a \in Ids(artifacts) /\ artifacts' = Without(artifacts, {a})
    /\ versions' = IF ForeignKeys THEN Without(versions, {v \in Ids(versions) : v[1] = a})
                   ELSE versions
    /\ UNCHANGED <<spaces, terminals, projects, threads, identities, committed>>

Next ==
    \/ \E s \in SpaceIds : DeleteSpace(s) \/ \E default \in BOOLEAN : InsertSpace(s, default)
    \/ \E t \in TerminalIds :
          \/ \E s \in SpaceIds : InsertTerminal(t, s) \/ UpdateTerminal(t, s)
          \/ RecordTerminalStopIntent(t) \/ DeleteTerminal(t)
          \/ \E code \in ExitCodes : RecordTerminalExit(t, code)
    \/ \E p \in ProjectIds :
          DeleteProject(p) \/ \E d \in Directories : InsertProject(p, d) \/ UpdateProject(p, d)
    \/ \E h \in ThreadIds :
          \/ \E p \in ProjectIds \cup {Null}, t \in TerminalIds \cup {Null} :
                UpdateThread(h, p, t) \/ \E k \in Conversations : InsertObserved(h, k, p, t)
          \/ DeleteThread(h) \/ \E p \in ProjectIds : AssignThreadProject(h, p)
    \/ \E a \in ArtifactIds :
          \/ \E pub \in Publications :
                CreateArtifact(a, pub) \/ \E base \in 1 .. MaxVersions : AppendVersion(a, base, pub)
          \/ DeleteArtifact(a) \/ \E p \in ProjectIds \cup {Null} : UpdateArtifact(a, p)

Spec == Init /\ [][Next]_recordVars

-----------------------------------------------------------------------------
(* Properties.                                                             *)

(***************************************************************************)
(* No row names a row that is gone, whatever a caller with an old view     *)
(* writes and in whichever order rows are deleted (the schema, and the     *)
(* pragma without which SQLite does not look at it).                       *)
(***************************************************************************)
ReferencesHold ==
    /\ \A t \in Ids(terminals) : terminals[t].space \in Ids(spaces)
    /\ \A h \in Ids(threads) : /\ threads[h].project \in Ids(projects) \cup {Null}
                               /\ threads[h].terminal \in Ids(terminals) \cup {Null}
    /\ \A k \in Ids(identities) : identities[k] \in Ids(threads)
    /\ \A a \in Ids(artifacts) : artifacts[a] \in Ids(projects) \cup {Null}
    /\ \A v \in Ids(versions) : v[1] \in Ids(artifacts)

(***************************************************************************)
(* Every thread has its one mapping, "or the next observation of the       *)
(* conversation would mint a duplicate" (InsertObserved, and the cascade). *)
(***************************************************************************)
ThreadsMapped ==
    \A h \in Ids(threads) : Cardinality({k \in Ids(identities) : identities[k] = h}) = 1

(***************************************************************************)
(* An artifact's versions are 1 .. n without a gap, each remembered by its *)
(* publication; what is remembered without its version was deleted whole   *)
(* (AppendVersion, insertVersion, Publication).                            *)
(***************************************************************************)
VersionsDense ==
    /\ \A a \in Ids(artifacts) :
          {v[2] : v \in {w \in Ids(versions) : w[1] = a}} = 1 .. CurrentVersion(a)
    /\ \A v \in Ids(versions) : committed[versions[v]] = v

(***************************************************************************)
(* Exit evidence, once recorded, stays as it is while the row lasts, a     *)
(* later report, an update or a stop intent notwithstanding                *)
(* (RecordTerminalExit: "a re-reconcile never rewrites evidence").         *)
(***************************************************************************)
EvidenceKept ==
    \A t \in Ids(terminals) \cap Ids(terminals') :
        terminals[t].exit # Null => terminals'[t].exit = terminals[t].exit
=============================================================================
