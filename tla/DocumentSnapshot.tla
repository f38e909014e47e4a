-------------------------- MODULE DocumentSnapshot --------------------------
(***************************************************************************)
(* What is built and published of a working copy (internal/authoring,      *)
(* build.go and publish.go): the document's files are copied one by one    *)
(* while an editor may save them; a manifest of the tree is taken before   *)
(* and after, file by file too, and a copy the two disagree about is made  *)
(* again, three times at most.  The tools check and bundle the snapshot,   *)
(* both archives are made of it, and a publication freezes them into the   *)
(* pending package.  The process may be killed between any two steps.      *)
(*                                                                         *)
(* A build holds the platform it bundles with (AuthoringPlatform); the two *)
(* share no state.                                                         *)
(*                                                                         *)
(* A file's content and its modification time are one number, its number   *)
(* of saves.  What the tools make of a snapshot has its content.           *)
(***************************************************************************)
EXTENDS AuthoringPlatform

CONSTANTS
    Files,      \* the files of src/document, walked in this order: 1 .. n
    MaxSaves,   \* bound: saves of the editor
    Attempts,   \* snapshot's attempts
    MaxBuilds   \* bound: builds of the copy

VARIABLES
    document,   \* the file's saves
    before, copied, after,   \* what the walks have read so far
    step, reading,  \* the walk under way and the file it is at
    attempt,
    saves,
    moments,    \* history: every state the document has been in
    \* the scratch directory: what it holds of the two archives of a build,
    archives,   \* as they are built,
    staging,    \* on their way into the pending package,
    frozen,     \* and in it
    builds

scratchVars == <<archives, staging, frozen>>
snapshotVars ==
    <<document, before, copied, after, step, reading, attempt, saves, moments, scratchVars, builds>>

(* A copy starts with its example's files, and is snapshot and built at    *)
(* least once.                                                             *)
ASSUME SomethingToBuild ==
    Files \in Nat \ {0} /\ Attempts \in Nat \ {0} /\ MaxBuilds \in Nat \ {0} /\ MaxSaves \in Nat

FileIds == 1 .. Files
Unread == [f \in FileIds |-> 0]

(* The archives that are there: of the bundled document and of its source. *)
Package == [build : SUBSET [FileIds -> 0 .. MaxSaves], source : SUBSET [FileIds -> 0 .. MaxSaves]]
NoArchives == [build |-> {}, source |-> {}]

SnapshotTypeOK ==
    /\ {document, before, copied, after} \subseteq [FileIds -> 0 .. MaxSaves]
    /\ step \in {"before", "copy", "after", "check", "bundle", "build", "source", "built",
                "freezing", "placing", "over"}
    /\ reading \in FileIds /\ attempt \in 1 .. Attempts /\ saves \in 0 .. MaxSaves
    /\ {archives, staging, frozen} \subseteq Package /\ builds \in 1 .. MaxBuilds

SnapshotInit ==
    /\ document = Unread /\ before = Unread /\ copied = Unread /\ after = Unread
    /\ step = "before" /\ reading = 1 /\ attempt = 1 /\ saves = 0 /\ moments = {Unread}
    /\ archives = NoArchives /\ staging = NoArchives /\ frozen = NoArchives /\ builds = 1

(* The editor saves a file. *)
Save ==
    /\ saves < MaxSaves /\ saves' = saves + 1
    /\ \E f \in FileIds : document' = [document EXCEPT ![f] = @ + 1]
    /\ moments' = moments \cup {document'}
    /\ UNCHANGED <<before, copied, after, step, reading, attempt, scratchVars, builds>>

(* One file of a walk; the last one ends it. *)
Walk(walk, next) ==
    /\ step = walk
    /\ reading' = IF reading = Files THEN 1 ELSE reading + 1
    /\ step' = IF reading = Files THEN next ELSE walk

Manifest ==
    /\ Walk("before", "copy") /\ before' = [before EXCEPT ![reading] = document[reading]]
    /\ UNCHANGED <<document, copied, after, attempt, saves, moments, scratchVars, builds>>

CopyDocument ==
    /\ Walk("copy", "after") /\ copied' = [copied EXCEPT ![reading] = document[reading]]
    /\ UNCHANGED <<document, before, after, attempt, saves, moments, scratchVars, builds>>

(* Fault: the second manifest is only a formality. *)
SteadyAlways == TRUE

(* The manifests agree. *)
Steady == after' = before

(* The second manifest; when it is complete the copy is taken, made again, *)
(* or given up.                                                            *)
Verify ==
    /\ step = "after"
    /\ after' = [after EXCEPT ![reading] = document[reading]]
    /\ \/ /\ reading < Files /\ reading' = reading + 1 /\ UNCHANGED <<step, attempt>>
       \/ /\ reading = Files /\ reading' = 1
          /\ \/ Steady /\ step' = "check" /\ UNCHANGED attempt
             \/ ~Steady /\ attempt < Attempts /\ attempt' = attempt + 1 /\ step' = "before"
             \/ ~Steady /\ attempt = Attempts /\ step' = "over" /\ UNCHANGED attempt
    /\ UNCHANGED <<document, before, copied, saves, moments, scratchVars, builds>>

-----------------------------------------------------------------------------
(* The build of the snapshot.                                              *)

walked == <<document, before, copied, after, reading, attempt, saves, moments>>

(* A tool judges the source, or cannot run; the source is not to blame     *)
(* then, and the build ends all the same.                                  *)
RunTool(now, next) ==
    /\ step = now /\ step' \in {next, "over"}
    /\ UNCHANGED <<walked, scratchVars, builds>>

(* atc artifact check ends with the type check. *)
CheckTypes == RunTool("check", "bundle")

Bundle == RunTool("bundle", "build")

(* An archive is written over the one of an earlier build, or fails.       *)
ArchiveTree(now, next, package) ==
    /\ step = now
    /\ \/ archives' = package /\ step' = next
       \/ UNCHANGED archives /\ step' = "over"
    /\ UNCHANGED <<walked, staging, frozen, builds>>

BuildArchive == ArchiveTree("build", "source", [archives EXCEPT !.build = {copied}])

(* Fault: the source is archived from the working copy. *)
SourceArchiveLive == ArchiveTree("source", "built", [archives EXCEPT !.source = {document}])

(* "The source snapshot is the project as built." *)
SourceArchive == ArchiveTree("source", "built", [archives EXCEPT !.source = {copied}])

-----------------------------------------------------------------------------
(* The pending package of a publication.                                   *)

(* A package that is pending is resent as it was; there is none to freeze. *)
FreezeBuild ==
    /\ step = "built" /\ step' = "freezing" /\ frozen = NoArchives
    /\ staging' = [NoArchives EXCEPT !.build = archives.build]
    /\ archives' = [archives EXCEPT !.build = {}]
    /\ UNCHANGED <<walked, frozen, builds>>

FreezeSource ==
    /\ step = "freezing" /\ step' = "placing"
    /\ staging' = [staging EXCEPT !.source = archives.source]
    /\ archives' = [archives EXCEPT !.source = {}]
    /\ UNCHANGED <<walked, frozen, builds>>

PlacePending ==
    /\ step = "placing" /\ step' = "over" /\ frozen' = staging /\ staging' = NoArchives
    /\ UNCHANGED <<walked, archives, builds>>

FreezeFails ==
    /\ step = "freezing" /\ step' = "over" /\ staging' = NoArchives
    /\ UNCHANGED <<walked, archives, frozen, builds>>

(* The process is killed; what is in the scratch directory stays there.    *)
Killed ==
    /\ step # "over" /\ step' = "over"
    /\ UNCHANGED <<walked, scratchVars, builds>>

(* Another check, build or publication of the copy; what was pending may   *)
(* have had its answer since.                                              *)
Again ==
    /\ step \in {"built", "over"} /\ builds < MaxBuilds /\ builds' = builds + 1
    /\ step' = "before" /\ reading' = 1 /\ attempt' = 1
    /\ before' = Unread /\ copied' = Unread /\ after' = Unread
    /\ frozen' \in {frozen, NoArchives}
    /\ UNCHANGED <<document, saves, moments, archives, staging>>

SnapshotNext ==
    \/ Save \/ Manifest \/ CopyDocument \/ Verify
    \/ CheckTypes \/ Bundle \/ BuildArchive \/ SourceArchive
    \/ FreezeBuild \/ FreezeSource \/ PlacePending \/ FreezeFails
    \/ Killed \/ Again

SnapshotSpec == SnapshotInit /\ [][SnapshotNext]_snapshotVars

-----------------------------------------------------------------------------
(***************************************************************************)
(* What is built, and what is published, is the document as it was at one  *)
(* moment: never one file from before a save and another from after it,    *)
(* nor a bundle of one build with the source of another -- with saves      *)
(* during the copy, failures and kills on the way (snapshot,               *)
(* buildPrepared, freeze).                                                 *)
(***************************************************************************)
OneMoment(package) == package.build = package.source /\ package.build \subseteq moments
BuiltFromOneMoment == (step = "built" => OneMoment(archives)) /\ OneMoment(frozen)

(***************************************************************************)
(* What an author builds with and publishes is sound: a process uses a     *)
(* whole platform of its own version whatever others install, remove or    *)
(* abandon, the current link names a usable one, nobody waits for each     *)
(* other over the lock, and what is built and frozen for publishing is the *)
(* document as it was at one moment (ensurePlatform, switchCurrent,        *)
(* snapshot, buildPrepared, freeze).                                       *)
(***************************************************************************)
CopiesSound ==
    /\ PlatformTypeOK /\ UsersUndisturbed /\ CurrentUsable /\ NoStandoff
    /\ SnapshotTypeOK /\ BuiltFromOneMoment
=============================================================================
