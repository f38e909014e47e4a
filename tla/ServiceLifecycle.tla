-------------------------- MODULE ServiceLifecycle --------------------------
(***************************************************************************)
(* The server as a supervised service (internal/service) and its upgrade   *)
(* (internal/upgrade): `atc server start | restart | stop | uninstall |    *)
(* status`, `atc upgrade` and the bootstrap of a remote picker, one command *)
(* at a time, against systemd or launchd, which relaunch the server when   *)
(* it exits and start it at boot.  A command may be killed between any two *)
(* of its steps.                                                           *)
(*                                                                         *)
(* Of a unit's content only the launch flag matters (the tailscale and     *)
(* webhooks flags behave alike): unset, on or off.  A process is the flag  *)
(* and the build it was started with; it answers its health check.  What   *)
(* is healthy by way of a foreground server on the port is left out: the   *)
(* preflight refuses one, wherever it may come from later.                 *)
(***************************************************************************)
EXTENDS Naturals

CONSTANTS
    MaxCommands,  \* bound: commands issued
    MaxFaults,    \* bound: failed supervisor commands, killed commands
    MaxCrashes,   \* bound: server crashes and reboots
    MaxBuilds,    \* bound: builds, the first one installed
    None          \* no unit, no process, no command

VARIABLES
    platform,     \* "linux" or "darwin"
    unit,         \* the unit file: None, or the launch flag in it
    loaded,       \* what the supervisor has loaded of it
    active,       \* the supervisor is to keep the process up
    enabled,      \* the unit is enabled (systemd)
    linger,       \* lingering is on (systemd)
    proc,         \* the server process: None or [flag, build]
    binary,       \* the installed executable: [build, runs, genuine]
    cmd,          \* the command under way, or None
    unsettled,    \* history: a restore, a relaunch or an uninstall came between the unit and
                  \* the process
    promised,     \* history: a start succeeded, and no uninstall began since
    removed,      \* history: an uninstall succeeded, and no start since
    current,      \* history: a restart succeeded, and no upgrade since
    orphaned,     \* history: a unit went and the supervisor was not told
    commands, faults, crashes

supervisorVars == <<loaded, active, enabled, linger, proc>>
lifeHistory == <<unsettled, promised, removed, current, orphaned>>
serviceVars == <<platform, unit, supervisorVars, binary, cmd, lifeHistory, commands, faults, crashes>>

Flags == {"unset", "on", "off"}
Steps == {"read", "decide", "enable", "linger", "write", "reload", "enabling", "launch", "unload",
          "load", "gate", "stop", "disable", "remove", "fetch", "prove", "promote", "check",
          "require", "probe", "await", "hear", "inspect", "report"}

Ops == {"start", "restart", "stop", "uninstall", "upgrade", "bootstrap", "status"}

(* flag: as supplied; existing: the unit read; content: the one to write;  *)
(* was: the settled launch at the decision; staged: the downloaded binary; *)
(* healthy, installed and shown: what a status found, shown the flag of    *)
(* the running launch or "unset".                                          *)
Binary == [runs : BOOLEAN, genuine : BOOLEAN]

Command == [op : Ops, step : Steps, flag : Flags,
            existing : Flags \cup {None}, content : Flags, was : Flags \cup {None},
            bounce : BOOLEAN, lingered : BOOLEAN, staged : Binary \cup {None},
            healthy : BOOLEAN, installed : BOOLEAN, shown : Flags]

TypeOK ==
    /\ platform \in {"linux", "darwin"} /\ unit \in Flags \cup {None}
    /\ loaded \in Flags \cup {None} /\ active \in BOOLEAN /\ enabled \in BOOLEAN
    /\ linger \in BOOLEAN /\ (proc = None \/ proc \in [flag : Flags, build : 1 .. MaxBuilds])
    /\ binary \in [build : 1 .. MaxBuilds, runs : BOOLEAN, genuine : BOOLEAN]
    /\ cmd = None \/ cmd \in Command
    /\ commands \in 0 .. MaxCommands /\ faults \in 0 .. MaxFaults /\ crashes \in 0 .. MaxCrashes

Init ==
    /\ platform \in {"linux", "darwin"} /\ unit = None /\ loaded = None /\ active = FALSE
    /\ enabled = FALSE /\ linger \in BOOLEAN /\ proc = None
    /\ binary = [build |-> 1, runs |-> TRUE, genuine |-> TRUE] /\ cmd = None
    /\ unsettled = FALSE /\ promised = FALSE /\ removed = FALSE /\ current = FALSE
    /\ orphaned = FALSE /\ commands = 0 /\ faults = 0 /\ crashes = 0

Fault == faults < MaxFaults /\ faults' = faults + 1
At(step) == cmd # None /\ (cmd # None => cmd.step = step)
Goto(step) == cmd' = [cmd EXCEPT !.step = step]
Launched(flag) == [flag |-> flag, build |-> binary.build]

(* supervisorRunning: a systemd unit that waits to be restarted is not     *)
(* active; a launchd agent is running when it is loaded.                   *)
Supervised == IF platform = "linux" THEN active /\ proc # None ELSE loaded # None

-----------------------------------------------------------------------------
(* The commands.                                                           *)

Issue(op, flag) ==
    /\ cmd = None /\ commands < MaxCommands /\ commands' = commands + 1
    /\ cmd' = [op |-> op, flag |-> flag, existing |-> None, content |-> "unset", was |-> None,
               bounce |-> op = "restart", lingered |-> FALSE, staged |-> None,
               healthy |-> FALSE, installed |-> FALSE, shown |-> "unset",
               step |-> CASE op \in {"start", "restart"} -> "read"
                          [] op = "stop" -> "stop"
                          [] op = "uninstall" -> "disable"
                          [] op = "upgrade" -> "fetch"
                          [] op = "bootstrap" -> "require"
                          [] op = "status" -> "hear"]
    /\ UNCHANGED <<platform, unit, supervisorVars, binary, lifeHistory, faults, crashes>>

ReadUnit ==
    /\ At("read") /\ cmd' = [cmd EXCEPT !.existing = unit, !.step = "decide"]
    /\ UNCHANGED <<platform, unit, supervisorVars, binary, lifeHistory, commands, faults, crashes>>

(* Fault: the running launch's flags are not carried over. *)
InheritNothing(flag, running) == flag

(* LaunchFlags.inherit: the running launch's, unless one is supplied. *)
Inherit(flag, running) == IF flag = "unset" THEN running ELSE flag

(* Fault: a changed unit is only installed. *)
BouncesAsked(unchanged) == cmd.bounce

(* A supervised server is bounced onto a unit that changed. *)
Bounces(unchanged) == cmd.bounce \/ (Supervised /\ ~unchanged)

(* Fault: a restart takes the early return, too. *)
SatisfiedAny(unchanged) == Supervised /\ unchanged /\ proc # None

(* A start of a healthy server on this unit has nothing to install. *)
Satisfied(unchanged) == Supervised /\ ~cmd.bounce /\ unchanged /\ proc # None

(* The flags, the comparison with the installed unit, the early returns:   *)
(* refused, already running and healthy, or on to the installation.        *)
Decide ==
    /\ At("decide")
    /\ LET flag == IF Supervised /\ cmd.existing # None THEN Inherit(cmd.flag, cmd.existing)
                   ELSE cmd.flag
           unchanged == cmd.existing = flag
       IN
       \/ cmd' = None  \* the unit unreadable, the port taken, the exposure invalid
       \/ /\ Supervised => cmd.existing # None
          /\ cmd' = [cmd EXCEPT
                !.content = flag, !.was = IF Supervised /\ proc # None /\ ~unsettled THEN proc.flag ELSE None,
                !.bounce = Bounces(unchanged),
                !.step = IF Satisfied(unchanged)
                         THEN (IF platform = "linux" THEN "enable" ELSE "gate")
                         ELSE IF platform = "linux" THEN "linger" ELSE "write"]
    /\ UNCHANGED <<platform, unit, supervisorVars, binary, lifeHistory, commands, faults, crashes>>

(* Fault: lingering is rolled back whoever turned it on. *)
RollbackLingeringAny(lingered) == linger' = FALSE

(* What this command turned on is turned off again. *)
RollbackLingering(lingered) == linger' = IF lingered THEN FALSE ELSE linger

(* The healthy server is left alone; lingering and enabling are asserted. *)
EnableOnly ==
    /\ At("enable")
    /\ \/ linger' = TRUE /\ enabled' = TRUE /\ Goto("gate") /\ UNCHANGED faults
       \/ RollbackLingering(~linger) /\ cmd' = None /\ Fault /\ UNCHANGED enabled
    /\ UNCHANGED <<platform, unit, loaded, active, proc, binary, lifeHistory, commands, crashes>>

EnableLingering ==
    /\ At("linger")
    /\ \/ /\ cmd' = [cmd EXCEPT !.lingered = ~linger, !.step = "write"]
          /\ linger' = TRUE /\ UNCHANGED faults
       \/ cmd' = None /\ Fault /\ UNCHANGED linger
    /\ UNCHANGED <<platform, unit, loaded, active, enabled, proc, binary, lifeHistory, commands,
                   crashes>>

(* writeUnit: a private sibling renamed into place. *)
WriteUnit ==
    /\ At("write") /\ removed' = FALSE
    /\ \/ /\ unit' = cmd.content /\ UNCHANGED <<linger, faults>>
          /\ Goto(IF platform = "linux" THEN "reload"
                  ELSE IF loaded # None THEN "unload" ELSE "load")
       \/ cmd' = None /\ Fault /\ RollbackLingering(cmd.lingered) /\ UNCHANGED unit
    /\ UNCHANGED <<platform, loaded, active, enabled, proc, binary, unsettled, promised, current,
                   orphaned, commands, crashes>>

Restored == cmd.existing

(* A supervisor's command failed: the previous unit is put back, or the    *)
(* first one removed.  The supervisor is not told.                         *)
RestoreUnit ==
    /\ Fault /\ unit' = Restored /\ RollbackLingering(cmd.lingered) /\ cmd' = None

(* The same once the supervisor may hold the unit enabled or started: with *)
(* a first unit goes what an uninstall would undo it by.                   *)
RestoreLaunched ==
    /\ RestoreUnit /\ unsettled' = TRUE
    /\ orphaned' = (orphaned \/ (platform = "linux" /\ Restored = None))

DaemonReload ==
    /\ At("reload")
    /\ \/ loaded' = unit /\ Goto("enabling") /\ UNCHANGED <<unit, linger, faults>>
       \/ RestoreUnit /\ UNCHANGED loaded
    /\ UNCHANGED <<platform, active, enabled, proc, binary, lifeHistory, commands, crashes>>

EnableUnit ==
    /\ At("enabling")
    /\ \/ enabled' = TRUE /\ Goto("launch") /\ UNCHANGED <<unit, linger, unsettled, orphaned, faults>>
       \/ RestoreLaunched /\ enabled' \in {enabled, TRUE}
    /\ UNCHANGED <<platform, loaded, active, proc, binary, promised, removed, current, commands,
                   crashes>>

(* systemctl start, which leaves an active unit alone, or restart.  A      *)
(* failed or interrupted call may have had its effect.                     *)
Launch ==
    /\ At("launch")
    /\ LET bounced == cmd.bounce \/ proc = None
           effect == /\ active' = TRUE /\ proc' = IF bounced THEN Launched(loaded) ELSE proc
       IN
       \/ /\ effect /\ Goto("gate") /\ unsettled' = (unsettled /\ ~bounced)
          /\ UNCHANGED <<unit, linger, orphaned, faults>>
       \/ RestoreLaunched /\ (effect \/ UNCHANGED <<active, proc>>)
    /\ UNCHANGED <<platform, loaded, enabled, binary, promised, removed, current, commands, crashes>>

(* launchd reads a unit only when it loads it. *)
Unload ==
    /\ At("unload")
    /\ \/ loaded' = None /\ active' = FALSE /\ proc' = None /\ Goto("load")
          /\ UNCHANGED <<unit, linger, faults>>
       \/ RestoreUnit /\ UNCHANGED <<loaded, active, proc>>
    /\ UNCHANGED <<platform, enabled, binary, lifeHistory, commands, crashes>>

LaunchdBootstrap ==
    /\ At("load")
    /\ \/ /\ loaded' = unit /\ active' = TRUE /\ proc' = Launched(unit) /\ Goto("gate")
          /\ unsettled' = FALSE /\ UNCHANGED <<unit, linger, faults>>
       \/ RestoreUnit /\ UNCHANGED <<loaded, active, proc, unsettled>>
    /\ UNCHANGED <<platform, enabled, binary, promised, removed, current, orphaned, commands, crashes>>

(* awaitHealthy: success, or a failure that leaves everything as it is. *)
Gate ==
    /\ At("gate")
    /\ \/ /\ proc # None /\ promised' = TRUE
          /\ current' = (current \/ cmd.op \in {"restart", "upgrade"})
          /\ IF cmd.op = "bootstrap" THEN Goto("await") ELSE cmd' = None
       \/ cmd' = None /\ UNCHANGED <<promised, current>>
    /\ UNCHANGED <<platform, unit, supervisorVars, binary, unsettled, removed, orphaned, commands,
                   faults, crashes>>

(* Stop: nothing to do without a unit; the unit stays enabled. *)
StopServer ==
    /\ At("stop") /\ cmd' = None
    /\ \/ /\ unit # None /\ active' = FALSE /\ proc' = None
          /\ loaded' = IF platform = "darwin" THEN None ELSE loaded
          /\ UNCHANGED faults
       \/ (unit = None \/ (platform = "darwin" /\ loaded = None))
          /\ UNCHANGED <<active, proc, loaded, faults>>
       \/ Fault /\ UNCHANGED <<active, proc, loaded>>
    /\ UNCHANGED <<platform, unit, enabled, linger, binary, lifeHistory, commands, crashes>>

(* Fault: a failed disable does not end the uninstall. *)
DisableFailsPast == "remove"

DisableFails == None

(***************************************************************************)
(* Uninstall: disable --now, where there is a unit, or the unload, and     *)
(* then the unit.  A supervisor that cannot be asked -- systemctl is not   *)
(* found, launchctl's print fails -- is passed over.                       *)
(***************************************************************************)
Disable ==
    /\ At("disable")
    /\ \/ /\ platform = "darwin" \/ unit # None
          /\ active' = FALSE /\ proc' = None /\ enabled' = FALSE
          /\ loaded' = IF platform = "darwin" THEN None ELSE loaded
          /\ orphaned' = FALSE
          /\ cmd' = [cmd EXCEPT !.existing = unit, !.step = "remove"] /\ UNCHANGED faults
       \/ /\ platform = "linux" /\ unit = None /\ Goto("remove")
          /\ UNCHANGED <<active, proc, enabled, loaded, orphaned, faults>>
       \/ /\ platform = "darwin" \/ unit # None
          /\ Fault /\ orphaned' = TRUE
          /\ cmd' = [cmd EXCEPT !.existing = unit, !.step = "remove"]
          /\ UNCHANGED <<active, proc, enabled, loaded>>
       \/ /\ platform = "darwin" \/ unit # None
          /\ Fault
          /\ IF DisableFails = None THEN cmd' = None ELSE Goto(DisableFails)
          /\ UNCHANGED <<active, proc, enabled, loaded, orphaned>>
    /\ promised' = FALSE
    /\ UNCHANGED <<platform, unit, linger, binary, unsettled, removed, current, commands, crashes>>

(* A unit that was there is taken from systemd, too, if systemd hears it;  *)
(* whether it does is not looked at.                                       *)
RemoveUnit ==
    /\ At("remove") /\ cmd' = None
    /\ \/ /\ unit' = None /\ removed' = TRUE /\ unsettled' = (unsettled \/ orphaned)
          /\ IF platform = "linux" /\ cmd.existing # None
             THEN (loaded' = None /\ UNCHANGED faults) \/ (Fault /\ UNCHANGED loaded)
             ELSE UNCHANGED <<loaded, faults>>
       \/ Fault /\ UNCHANGED <<unit, removed, unsettled, loaded>>
    /\ UNCHANGED <<platform, active, enabled, linger, proc, binary, promised, current, orphaned,
                   commands, crashes>>

-----------------------------------------------------------------------------
(* The upgrade.                                                            *)

(* What the channel's release is to this build; a dev build's is not known. *)
Releases == {"same", "other", "unreachable"}

(* What a download brings: whether it is the archive that was published,   *)
(* and the executable in it, which may not run on this machine.            *)
Archives == [intact : BOOLEAN, member : BOOLEAN, runs : BOOLEAN]

(* Fault: the executable of an archive is installed by its name. *)
VerifyNothing(archive) == TRUE

(* The checksum of an asset that was published for this platform.          *)
VerifyChecksum(archive) == archive.intact

ExtractBinary(archive) ==
    IF archive.member THEN [runs |-> archive.runs, genuine |-> archive.intact] ELSE None

(* Nothing to upgrade to, or a download that fails, or what it brought.    *)
Fetch ==
    /\ At("fetch")
    /\ \E release \in Releases, archive \in Archives :
          IF /\ release = "other"
             /\ VerifyChecksum(archive) /\ ExtractBinary(archive) # None
          THEN cmd' = [cmd EXCEPT !.staged = ExtractBinary(archive), !.step = "prove"]
          ELSE cmd' = None
    /\ UNCHANGED <<platform, unit, supervisorVars, binary, lifeHistory, commands, faults, crashes>>

(* Fault: the staged binary is not run. *)
ProvedAny == TRUE

(* binaryVersion: the staged binary is run before it replaces anything. *)
Proved == cmd.staged.runs

Prove ==
    /\ At("prove")
    /\ IF Proved THEN Goto("promote") ELSE cmd' = None
    /\ UNCHANGED <<platform, unit, supervisorVars, binary, lifeHistory, commands, faults, crashes>>

Promote ==
    /\ At("promote") /\ binary.build < MaxBuilds
    /\ binary' = [build |-> binary.build + 1, runs |-> cmd.staged.runs,
                genuine |-> cmd.staged.genuine]
    /\ current' = FALSE /\ Goto("check")
    /\ UNCHANGED <<platform, unit, supervisorVars, unsettled, promised, removed, orphaned, commands,
                   faults, crashes>>

(* decideRestart: the flags, or the user who is there to ask; a headless   *)
(* upgrade never restarts.                                                 *)
Restarts(mode, interactive, yes) == mode = "always" \/ (mode = "ask" /\ interactive /\ yes)

(* checkServer: a server of another build is restarted when that is wanted. *)
CheckServer ==
    /\ At("check")
    /\ \E mode \in {"always", "never", "ask"}, interactive, yes \in BOOLEAN :
          IF proc # None /\ proc.build # binary.build /\ Restarts(mode, interactive, yes)
          THEN cmd' = [cmd EXCEPT !.bounce = TRUE, !.step = "read"]
          ELSE cmd' = None
    /\ UNCHANGED <<platform, unit, supervisorVars, binary, lifeHistory, commands, faults, crashes>>

-----------------------------------------------------------------------------
(* The bootstrap of a remote picker, which starts a server that does not   *)
(* answer, and the status; neither writes configuration.                   *)

(* effective: the launch flag where one is supplied, config.toml otherwise. *)
Effective(flag, configured) == IF flag = "unset" THEN configured ELSE flag = "on"

(* requireTailnet: by the running launch's flag or by config.toml.         *)
RequireTailnet ==
    /\ At("require")
    /\ \E configured \in BOOLEAN :
          IF Effective(IF Supervised /\ unit # None THEN unit ELSE "unset", configured)
          THEN Goto("probe") ELSE cmd' = None
    /\ UNCHANGED <<platform, unit, supervisorVars, binary, lifeHistory, commands, faults, crashes>>

(* A server that answers is left alone; one that does not is started. *)
BootstrapProbe ==
    /\ At("probe")
    /\ \/ proc # None /\ Goto("await")
       \/ Goto("read")
    /\ UNCHANGED <<platform, unit, supervisorVars, binary, lifeHistory, commands, faults, crashes>>

(* The route is reported live and its address handed over, or it is not,   *)
(* within the bound.                                                       *)
AwaitTailnet ==
    /\ At("await") /\ cmd' = None
    /\ UNCHANGED <<platform, unit, supervisorVars, binary, lifeHistory, commands, faults, crashes>>

(* Status asks the server first, which may be too slow to answer, ...      *)
StatusProbe ==
    /\ At("hear")
    /\ \E healthy \in {FALSE, proc # None} :
          cmd' = [cmd EXCEPT !.healthy = healthy, !.step = "inspect"]
    /\ UNCHANGED <<platform, unit, supervisorVars, binary, lifeHistory, commands, faults, crashes>>

(* Fault: the flags of a stopped launch are shown, too. *)
ShownRecorded == IF unit # None THEN unit ELSE "unset"

(* "Only a running launch's flags count": a stopped one's are history.     *)
Shown == IF unit # None /\ Supervised THEN unit ELSE "unset"

(* ... and the unit and the supervisor then.                               *)
StatusInspect ==
    /\ At("inspect")
    /\ cmd' = [cmd EXCEPT !.installed = unit # None, !.shown = Shown, !.step = "report"]
    /\ UNCHANGED <<platform, unit, supervisorVars, binary, lifeHistory, commands, faults, crashes>>

ExitCode == IF cmd.healthy THEN 0 ELSE IF cmd.installed THEN 1 ELSE 2

StatusReport ==
    /\ At("report") /\ cmd' = None
    /\ UNCHANGED <<platform, unit, supervisorVars, binary, lifeHistory, commands, faults, crashes>>

-----------------------------------------------------------------------------
(* The environment.                                                        *)

(* The command is killed: what it did stays. *)
Killed ==
    /\ cmd # None /\ Fault /\ cmd' = None
    /\ unsettled' = (unsettled \/ cmd.step \in {"reload", "enabling", "launch", "unload", "load"})
    /\ UNCHANGED <<platform, unit, supervisorVars, binary, promised, removed, current, orphaned,
                   commands, crashes>>

Crash ==
    /\ proc # None /\ crashes < MaxCrashes /\ crashes' = crashes + 1 /\ proc' = None
    /\ UNCHANGED <<platform, unit, loaded, active, enabled, linger, binary, cmd, lifeHistory,
                   commands, faults>>

(* The supervisor relaunches what it has loaded. *)
Relaunch ==
    /\ active /\ proc = None /\ loaded # None /\ proc' = Launched(loaded)
    /\ unsettled' = (unsettled \/ unit # loaded \/ (cmd # None /\ cmd.op # "status"))
    /\ UNCHANGED <<platform, unit, loaded, active, enabled, linger, binary, cmd, promised, removed,
                   current, orphaned, commands, faults, crashes>>

(* The machine restarts: an enabled unit comes up, with lingering, before  *)
(* anybody logs in; a launch agent at the login.                           *)
Reboot ==
    /\ crashes < MaxCrashes /\ crashes' = crashes + 1 /\ cmd' = None
    /\ active' = (unit # None /\ (platform = "linux" => enabled /\ linger))
    /\ loaded' = IF platform = "linux" \/ active' THEN unit ELSE None
    /\ proc' = IF active' THEN Launched(unit) ELSE None
    /\ unsettled' = FALSE
    /\ UNCHANGED <<platform, unit, enabled, linger, binary, promised, removed, current, orphaned,
                   commands, faults>>

Next ==
    \/ \E op \in {"start", "restart"}, flag \in Flags : Issue(op, flag)
    \/ \E op \in Ops \ {"start", "restart"} : Issue(op, "unset")
    \/ ReadUnit \/ Decide \/ EnableOnly \/ EnableLingering \/ WriteUnit
    \/ DaemonReload \/ EnableUnit \/ Launch \/ Unload \/ LaunchdBootstrap \/ Gate
    \/ StopServer \/ Disable \/ RemoveUnit
    \/ Fetch \/ Prove \/ Promote \/ CheckServer
    \/ RequireTailnet \/ BootstrapProbe \/ AwaitTailnet
    \/ StatusProbe \/ StatusInspect \/ StatusReport
    \/ Killed \/ Crash \/ Relaunch \/ Reboot

Spec == Init /\ [][Next]_serviceVars

-----------------------------------------------------------------------------
(* Properties.                                                             *)

(***************************************************************************)
(* Between commands the unit describes the running launch (startOrRestart: *)
(* "The unit records the running launch's flags"), so that a relaunch, a   *)
(* reboot and the next restart all keep its flags -- unless a supervisor's *)
(* command failed after the reload, a command was killed, an uninstall     *)
(* left the server behind, or the supervisor relaunched the server under a *)
(* command: nothing tells the supervisor of a restored unit, and start     *)
(* leaves a relaunched server be.                                          *)
(***************************************************************************)
DescribedByUnit == (cmd = None /\ proc # None /\ ~unsettled) => unit = proc.flag

(***************************************************************************)
(* The same without the exceptions, as startOrRestart's comment has it.    *)
(* The code does not keep it: a restored unit is not reloaded.             *)
(***************************************************************************)
DescribedAlways == (cmd = None /\ proc # None) => unit = proc.flag

(***************************************************************************)
(* A start or restart without flags keeps the running launch's, which it   *)
(* knows only from the unit (LaunchFlags.inherit).                         *)
(***************************************************************************)
FlagsKept ==
    cmd # None =>
        ((cmd.was # None /\ cmd.flag = "unset") => cmd.content = cmd.was)

(***************************************************************************)
(* Once a start succeeded the server returns at boot, whatever a later     *)
(* command's failure rolls back (enableLingering, rollbackLingering).      *)
(***************************************************************************)
BootPersistent == (promised /\ platform = "linux" /\ cmd = None) => enabled /\ linger

(***************************************************************************)
(* uninstall is the total undo: when it succeeded nothing runs and nothing *)
(* returns, at a crash or a boot -- unless the uninstall could not ask the *)
(* supervisor, or found no unit to undo, because a first start had taken   *)
(* it away again when a command failed that systemd may have carried out   *)
(* (Uninstall, restoreUnit).                                               *)
(***************************************************************************)
UninstallTotal ==
    (removed /\ cmd = None /\ ~orphaned) => unit = None /\ proc = None /\ ~active /\ ~enabled

(***************************************************************************)
(* The same without the exceptions: "the one total undo for start's        *)
(* registration" (Uninstall).  The code does not keep it.                  *)
(***************************************************************************)
UninstallAlways ==
    (removed /\ cmd = None) => unit = None /\ proc = None /\ ~active /\ ~enabled

(***************************************************************************)
(* The installed executable always runs and is what a release published,   *)
(* killed upgrades and damaged downloads included (upgrade.Run: verified,  *)
(* staged, proved runnable, then renamed over the target).                 *)
(***************************************************************************)
BinaryRuns == binary.runs /\ binary.genuine

(***************************************************************************)
(* A restart that succeeded ends the version skew, by whichever path the   *)
(* unit took (startOrRestart, restartServer).                              *)
(***************************************************************************)
SkewEnds == (current /\ proc # None /\ cmd = None) => proc.build = binary.build

(***************************************************************************)
(* What status says stays true while it says it: the flags it shows are    *)
(* those of a launch that is up, and a server that was started is not      *)
(* called "not installed" -- the server crashing and being relaunched      *)
(* between the probe, the unit and the report (Status, renderStatus).      *)
(***************************************************************************)
StatusTruthful ==
    At("report") =>
        /\ cmd.shown # "unset" =>
               active /\ ((proc # None /\ ~unsettled) => cmd.shown = proc.flag)
        /\ ExitCode = 2 => ~promised
=============================================================================
