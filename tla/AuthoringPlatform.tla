------------------------- MODULE AuthoringPlatform --------------------------
(***************************************************************************)
(* The private installation working copies are built with                  *)
(* (internal/authoring/platform.go): a runtime and the dependencies, each  *)
(* in a directory per version beside a link to the current one.  Processes *)
(* of the atc command use it under a shared file lock and change it under  *)
(* the exclusive one; after an upgrade two versions of atc run side by     *)
(* side.                                                                   *)
(*                                                                         *)
(* A directory is absent, whole, or torn: its essentials are there and     *)
(* other files are not.  Converting a flock is not atomic: the lock is     *)
(* given up and the new one waited for.                                    *)
(***************************************************************************)
EXTENDS Naturals, FiniteSets

CONSTANTS
    Processes,     \* atc processes
    Wants,         \* the version each process ships
    MaxUses,       \* bound: operations of all processes together
    MaxBreaks      \* bound: downloads and installs that fail, processes killed

VARIABLES
    tree,       \* component, version -> the state of its directory
    current,    \* component -> the version current points at, or NoVersion
    shared,     \* holders of LOCK_SH
    exclusive,  \* the holder of LOCK_EX, or NoProcess
    stage,      \* where a process is in ensurePlatform
    component,  \* the component it is at
    outrun,     \* history: processes another changed the installation for
                \*   between their install and their shared lock
    maimed,     \* history: directories whose removal was cut short
    uses, breaks

locks == <<shared, exclusive>>
platformVars == <<tree, current, locks, stage, component, outrun, maimed, uses, breaks>>

Components == {"runtime", "deps"}
AllVersions == {Wants[p] : p \in Processes}
NoVersion == "none"
NoProcess == "nobody"

ASSUME NoneOfThem == NoProcess \notin Processes /\ NoVersion \notin AllVersions

PlatformTypeOK ==
    /\ tree \in [Components -> [AllVersions -> {"absent", "whole", "torn"}]]
    /\ current \in [Components -> AllVersions \cup {NoVersion}]
    /\ shared \subseteq Processes /\ exclusive \in Processes \cup {NoProcess}
    /\ stage \in [Processes -> {"idle", "share", "check", "exclude", "recheck", "install",
                               "switch", "sweep", "settle", "using"}]
    /\ component \in [Processes -> Components]
    /\ outrun \subseteq Processes /\ maimed \subseteq Components \X AllVersions

PlatformInit ==
    /\ tree = [c \in Components |-> [v \in AllVersions |-> "absent"]]
    /\ current = [c \in Components |-> NoVersion]
    /\ shared = {} /\ exclusive = NoProcess
    /\ stage = [p \in Processes |-> "idle"] /\ component = [p \in Processes |-> "runtime"]
    /\ outrun = {} /\ maimed = {} /\ uses = 0 /\ breaks = 0

Break == breaks < MaxBreaks /\ breaks' = breaks + 1

(* linked: current names the version this process ships and its directory  *)
(* has the essentials.                                                     *)
Linked(p, c) == current[c] = Wants[p] /\ tree[c][Wants[p]] # "absent"

Enter(p, next) == stage' = [stage EXCEPT ![p] = next]

CanShare == exclusive = NoProcess
CanExclude(p) == exclusive = NoProcess /\ shared \subseteq {p}

-----------------------------------------------------------------------------
Begin(p) ==
    /\ stage[p] = "idle" /\ uses < MaxUses
    /\ uses' = uses + 1 /\ Enter(p, "share")
    /\ outrun' = outrun \ {p}
    /\ UNCHANGED <<tree, current, locks, component, maimed, breaks>>

(* The fast path: the shared lock and a complete installation. *)
LockShared(p) ==
    /\ stage[p] = "share" /\ CanShare
    /\ shared' = shared \cup {p} /\ Enter(p, "check")
    /\ UNCHANGED <<tree, current, exclusive, component, outrun, maimed, uses, breaks>>

(* Fault: the shared lock is kept while the exclusive one is waited for. *)
CheckKeeping(p) ==
    /\ stage[p] = "check"
    /\ Enter(p, IF \A c \in Components : Linked(p, c) THEN "using" ELSE "exclude")
    /\ UNCHANGED <<tree, current, locks, component, outrun, maimed, uses, breaks>>

Check(p) ==
    /\ stage[p] = "check"
    /\ \/ (\A c \in Components : Linked(p, c)) /\ Enter(p, "using") /\ UNCHANGED shared
       \/ /\ \E c \in Components : ~Linked(p, c)
          /\ shared' = shared \ {p} /\ Enter(p, "exclude")
    /\ UNCHANGED <<tree, current, exclusive, component, outrun, maimed, uses, breaks>>

LockExclusive(p) ==
    /\ stage[p] = "exclude" /\ CanExclude(p)
    /\ exclusive' = p /\ Enter(p, "recheck") /\ component' = [component EXCEPT ![p] = "runtime"]
    /\ UNCHANGED <<tree, current, shared, outrun, maimed, uses, breaks>>

(* Another process may have finished the same install meanwhile. *)
Needed(p) == ~Linked(p, component[p])

Following(p) == IF component[p] = "runtime" THEN "recheck" ELSE "settle"
Onwards(p) == Enter(p, Following(p)) /\ component' = [component EXCEPT ![p] = "deps"]

(* Fault: the link goes first. *)
CheckAgainSwitching(p) ==
    /\ stage[p] = "recheck"
    /\ \/ ~Needed(p) /\ Onwards(p)
       \/ Needed(p) /\ Enter(p, "switch") /\ UNCHANGED component
    /\ UNCHANGED <<tree, current, locks, outrun, maimed, uses, breaks>>

CheckAgain(p) ==
    /\ stage[p] = "recheck"
    /\ \/ /\ ~Needed(p) /\ Onwards(p)
       \/ /\ Needed(p) /\ UNCHANGED component
          /\ Enter(p, IF tree[component[p]][Wants[p]] = "absent" THEN "install" ELSE "switch")
    /\ UNCHANGED <<tree, current, locks, outrun, maimed, uses, breaks>>

(* Fault: an unverified tree is moved into place. *)
InstallUnverified(p) ==
    /\ stage[p] = "install"
    /\ \/ /\ tree' = [tree EXCEPT ![component[p]][Wants[p]] = "whole"] /\ Enter(p, "switch")
          /\ UNCHANGED <<exclusive, breaks>>
       \/ /\ Break /\ tree' = [tree EXCEPT ![component[p]][Wants[p]] = "torn"] /\ Enter(p, "switch")
          /\ UNCHANGED exclusive
    /\ UNCHANGED <<current, shared, component, outrun, maimed, uses>>

(* Downloaded or tree into a staging directory, verified, moved into  *)
(* place whole; a failure leaves everything as it was.                     *)
Install(p) ==
    /\ stage[p] = "install"
    /\ \/ /\ tree' = [tree EXCEPT ![component[p]][Wants[p]] = "whole"] /\ Enter(p, "switch")
          /\ UNCHANGED <<exclusive, breaks>>
       \/ Break /\ Enter(p, "idle") /\ exclusive' = NoProcess /\ UNCHANGED tree
    /\ UNCHANGED <<current, shared, component, outrun, maimed, uses>>

(* switchCurrent: the link is replaced atomically ... *)
Switch(p) ==
    /\ stage[p] = "switch"
    /\ current' = [current EXCEPT ![component[p]] = Wants[p]]
    /\ Enter(p, "sweep")
    /\ UNCHANGED <<tree, locks, component, outrun, maimed, uses, breaks>>

Others(p) == {v \in AllVersions \ {Wants[p]} : tree[component[p]][v] # "absent"}

(* ... and then the other versions are removed. *)
Sweep(p) ==
    /\ stage[p] = "sweep"
    /\ tree' = [tree EXCEPT ![component[p]] =
                   [v \in AllVersions |-> IF v = Wants[p] THEN @[v] ELSE "absent"]]
    /\ Onwards(p)
    /\ maimed' = maimed \ {<<component[p], v>> : v \in Others(p)}
    /\ UNCHANGED <<current, locks, outrun, uses, breaks>>

(* Fault: the exclusive lock is given up and nothing is held. *)
SettleUnlocked(p) ==
    /\ stage[p] = "settle" /\ exclusive = p
    /\ exclusive' = NoProcess /\ Enter(p, "using")
    /\ UNCHANGED <<tree, current, shared, component, outrun, maimed, uses, breaks>>

(* Back to the shared lock: at once, or after another took the exclusive   *)
(* one in between.  What it finds then is not looked at again.             *)
Settle(p) ==
    /\ stage[p] = "settle"
    /\ \/ /\ exclusive = p /\ exclusive' = NoProcess
          /\ \/ shared' = shared \cup {p} /\ Enter(p, "using")
             \/ UNCHANGED <<shared, stage>>
          /\ UNCHANGED outrun
       \/ /\ exclusive = NoProcess /\ shared' = shared \cup {p} /\ Enter(p, "using")
          /\ outrun' = IF \A c \in Components : Linked(p, c) THEN outrun ELSE outrun \cup {p}
          /\ UNCHANGED exclusive
    /\ UNCHANGED <<tree, current, component, maimed, uses, breaks>>

(* The caller is done: unlock. *)
Release(p) ==
    /\ stage[p] = "using"
    /\ shared' = shared \ {p} /\ Enter(p, "idle")
    /\ UNCHANGED <<tree, current, exclusive, component, outrun, maimed, uses, breaks>>

(* A process is killed: its lock goes with it; a removal it was at may     *)
(* have taken some files and left the essentials.                          *)
Kill(p) ==
    /\ stage[p] # "idle" /\ Break
    /\ shared' = shared \ {p}
    /\ exclusive' = IF exclusive = p THEN NoProcess ELSE exclusive
    /\ Enter(p, "idle")
    /\ \/ UNCHANGED <<tree, maimed>>
       \/ /\ stage[p] = "sweep"
          /\ \E v \in Others(p) :
                /\ tree' = [tree EXCEPT ![component[p]][v] = "torn"]
                /\ maimed' = maimed \cup {<<component[p], v>>}
    /\ UNCHANGED <<current, component, outrun, uses>>

Ensure(p) ==
    \/ LockShared(p) \/ Check(p) \/ LockExclusive(p) \/ CheckAgain(p) \/ Install(p)
    \/ Switch(p) \/ Sweep(p) \/ Settle(p)

PlatformNext == \E p \in Processes : Begin(p) \/ Ensure(p) \/ Release(p) \/ Kill(p)

PlatformSpec == PlatformInit /\ [][PlatformNext]_platformVars

-----------------------------------------------------------------------------
(* Properties.                                                             *)

(***************************************************************************)
(* Who uses the installation uses a whole one of its own version, whatever *)
(* other processes install, remove or abandon meanwhile -- unless another  *)
(* version's process got in between its install and its shared lock, or a  *)
(* killed process had left the directory torn (ensurePlatform, complete).  *)
(***************************************************************************)
UsersUndisturbed ==
    \A p \in Processes : (stage[p] = "using" /\ p \notin outrun) =>
        \A c \in Components :
            current[c] = Wants[p] /\ (tree[c][Wants[p]] = "whole" \/ <<c, Wants[p]>> \in maimed)

(***************************************************************************)
(* Whatever is interrupted, the current link names a directory that has    *)
(* its essentials (installRuntime, installDeps, switchCurrent).            *)
(***************************************************************************)
CurrentUsable == \A c \in Components : current[c] # NoVersion => tree[c][current[c]] # "absent"

(* Those that wait for a lock someone else has. *)
Waiting(p) ==
    \/ stage[p] = "share" /\ ~CanShare
    \/ stage[p] = "exclude" /\ ~CanExclude(p)
    \/ stage[p] = "settle" /\ exclusive \notin {p, NoProcess}

(***************************************************************************)
(* Processes that found the installation wanting under the shared lock do  *)
(* not wait for each other to give it up (the conversion of the flock in   *)
(* ensurePlatform).                                                        *)
(***************************************************************************)
NoStandoff ==
    (\E p \in Processes : stage[p] # "idle") => \E p \in Processes : stage[p] # "idle" /\ ~Waiting(p)
=============================================================================
