-------------------------- MODULE UnifiedTerminals --------------------------
(***************************************************************************)
(* The terminals of the unified-core prototype.  core.Service opens,       *)
(* terminates, reconciles and cleans up zmx sessions from concurrent HTTP  *)
(* handlers; an inventory is taken without the lock and applied under it.  *)
(* The workload of a session runs under child.Run, which leaves a marker   *)
(* file when it starts and when it exits: only that marker, or a stop that *)
(* was asked for, ends a terminal that is missing.                         *)
(***************************************************************************)
EXTENDS Naturals, FiniteSets

CONSTANTS
    Terminals,   \* one terminal for each TUI Thread, named by its id
    Orphans,     \* sessions in the private namespace that no record is the id of: without
                 \* a record, or under the name an older state file has for one
    Handlers,    \* concurrent HTTP handlers
    MaxCalls,    \* bound on the operations asked for
    MaxExits,    \* bound on workloads that exit by themselves
    MaxFaults    \* bound on failing saves, listings and kills, and on
                 \* sessions that vanish or stop answering

VARIABLES
    up,        \* the core runs
    mem,       \* the TerminalRecords (and their Threads' activity) in memory
    disk,      \* ... and in the state file
    session,   \* zmx: each name absent, reachable or unreachable
    child,     \* the workload of each session
    marker,    \* the exit marker at the terminal's ExitPath
    exits,     \* terminals that ever left an exit marker
    intent,    \* the last deliberate stop: none, asked, killed
    handler,   \* what each handler is doing
    calls, ends, faults

terminalVars == <<up, mem, disk, session, child, marker, exits, intent,
                  handler, calls, ends, faults>>

Names == Terminals \cup Orphans

NoRecord == [known |-> FALSE, lifecycle |-> "live", reachable |-> FALSE,
             stop |-> FALSE, background |-> "unknown", legacy |-> {}]

\* A record of an older state file, whose session has a name of its own.
Migrated(name, seen) ==
    [NoRecord EXCEPT !.known = TRUE, !.reachable = seen, !.legacy = {name}]

Nothing == [n \in Names |-> "absent"]
Idle == [pc |-> "idle", on |-> {}, seen |-> Nothing, failed |-> FALSE, old |-> {}]

Init ==
    /\ up = TRUE
    /\ mem \in [Terminals -> {NoRecord} \cup {Migrated(n, seen) : n \in Orphans, seen \in BOOLEAN}]
    /\ disk = mem
    /\ session = [n \in Names |-> IF n \in Orphans THEN "reachable" ELSE "absent"]
    /\ child = [t \in Terminals |-> "none"]
    /\ marker = [t \in Terminals |-> "none"] /\ exits = {}
    /\ intent = [t \in Terminals |-> "none"]
    /\ handler = [h \in Handlers |-> Idle]
    /\ calls = 0 /\ ends = 0 /\ faults = 0

Fails(ok) ==
    /\ ok \/ faults < MaxFaults
    /\ faults' = IF ok THEN faults ELSE faults + 1

Save(records, ok) ==
    /\ mem' = records
    /\ disk' = IF ok THEN records ELSE disk
    /\ Fails(ok)

Goto(h, pc) == handler' = [handler EXCEPT ![h].pc = pc]
Done(h) == handler' = [handler EXCEPT ![h] = Idle]

Begins(h) == up /\ handler[h].pc = "idle" /\ calls < MaxCalls /\ calls' = calls + 1
At(h, pc) == up /\ handler[h].pc = pc /\ UNCHANGED calls

-----------------------------------------------------------------------------
(* OpenTerminal and zmx.Open.                                              *)

\* A live, reachable record is returned as it is, without a look at zmx.
OpenBegin(h, t, ok) ==
    /\ Begins(h)
    /\ ~(mem[t].known /\ mem[t].legacy = {} /\ mem[t].lifecycle = "live" /\ mem[t].reachable)
    /\ Save([mem EXCEPT ![t].known = TRUE, ![t].lifecycle = "live",
                        ![t].reachable = FALSE, ![t].stop = FALSE], ok)
    /\ intent' = [intent EXCEPT ![t] = "none"]
    /\ handler' = [handler EXCEPT ![h] =
          IF ok THEN [Idle EXCEPT !.pc = IF mem[t].legacy = {} THEN "open" ELSE "legacy",
                                  !.on = {t}, !.old = mem[t].legacy]
          ELSE Idle]
    /\ UNCHANGED <<up, session, child, marker, exits, ends>>

\* The session under the older name is terminated first ...
OpenEndsLegacy(h, ok) ==
    /\ At(h, "legacy") /\ Fails(ok)
    /\ IF ok THEN Goto(h, "rename") ELSE Done(h)
    /\ session' = [n \in Names |-> IF ok /\ n \in handler[h].old THEN "absent" ELSE session[n]]
    /\ UNCHANGED <<up, mem, disk, child, marker, exits, intent, ends>>

\* ... and the name is forgotten, if it is still the record's.
OpenForgetsLegacy(h, ok) ==
    /\ At(h, "rename")
    /\ Save([t \in Terminals |->
               IF t \in handler[h].on /\ mem[t].legacy = handler[h].old
               THEN [mem[t] EXCEPT !.legacy = {}] ELSE mem[t]], ok)
    /\ IF ok THEN Goto(h, "open") ELSE Done(h)
    /\ UNCHANGED <<up, session, child, marker, exits, intent, ends>>

OpenFind(h, ok) ==
    /\ At(h, "open") /\ Fails(ok)
    /\ \E t \in handler[h].on :
         IF ok /\ session[t] = "absent" THEN Goto(h, "start") ELSE Done(h)
    /\ UNCHANGED <<up, mem, disk, session, child, marker, exits, intent, ends>>

\* zmx attach creates the session, or joins the one another handler created
\* since.
OpenStart(h) ==
    /\ At(h, "start")
    /\ \E t \in handler[h].on :
         IF session[t] = "absent"
         THEN /\ session' = [session EXCEPT ![t] = "reachable"]
              /\ child' = [child EXCEPT ![t] = "starting"]
         ELSE UNCHANGED <<session, child>>
    /\ Goto(h, "settle")
    /\ UNCHANGED <<up, mem, disk, marker, exits, intent, ends, faults>>

\* The poll sees the session reachable, or gives up.
OpenSettle(h, ok) ==
    /\ At(h, "settle") /\ Fails(ok)
    /\ \E t \in handler[h].on :
         IF ok /\ session[t] = "reachable" THEN Goto(h, "list") ELSE Done(h)
    /\ UNCHANGED <<up, mem, disk, session, child, marker, exits, intent, ends>>

-----------------------------------------------------------------------------
(* TerminateTerminal and zmx.Terminate.                                    *)

\* The intent kept in memory only.
TerminateUnsaved(h, t, ok) ==
    /\ Begins(h) /\ mem[t].known /\ ok
    /\ mem' = [mem EXCEPT ![t].stop = TRUE] /\ UNCHANGED <<disk, faults>>
    /\ intent' = [intent EXCEPT ![t] = "asked"]
    /\ handler' = [handler EXCEPT ![h] = [Idle EXCEPT !.pc = "find", !.on = {t}]]
    /\ UNCHANGED <<up, session, child, marker, exits, ends>>

TerminateBegin(h, t, ok) ==
    /\ Begins(h) /\ mem[t].known
    /\ Save([mem EXCEPT ![t].stop = TRUE], ok)
    /\ intent' = [intent EXCEPT ![t] = IF ok THEN "asked" ELSE @]
    /\ handler' = [handler EXCEPT ![h] = IF ok THEN [Idle EXCEPT !.pc = "find", !.on = {t}]
                                         ELSE Idle]
    /\ UNCHANGED <<up, session, child, marker, exits, ends>>

TerminateFind(h, ok) ==
    /\ At(h, "find") /\ Fails(ok)
    /\ \E t \in handler[h].on :
         IF ~ok THEN Done(h)
         ELSE Goto(h, IF session[t] = "absent" THEN "list" ELSE "kill")
    /\ UNCHANGED <<up, mem, disk, session, child, marker, exits, intent, ends>>

\* zmx kill ends the session; the wrapper is signalled with it and may or may
\* not write its exit marker.  A kill that fails is seen by the poll.
TerminateKill(h, ok, written) ==
    /\ At(h, "kill") /\ Fails(ok)
    /\ \E t \in handler[h].on :
         /\ IF ok
            THEN /\ session' = [session EXCEPT ![t] = "absent"]
                 /\ child' = [child EXCEPT ![t] = "none"]
                 /\ marker' = [marker EXCEPT ![t] = IF written THEN "exited" ELSE @]
                 /\ exits' = IF written THEN exits \cup {t} ELSE exits
                 /\ intent' = [intent EXCEPT ![t] = IF @ = "asked" THEN "killed" ELSE @]
            ELSE ~written /\ UNCHANGED <<session, child, marker, exits, intent>>
         /\ written => child[t] = "running"
    /\ Goto(h, "gone")
    /\ UNCHANGED <<up, mem, disk, ends>>

TerminateGone(h, ok) ==
    /\ At(h, "gone") /\ Fails(ok)
    /\ \E t \in handler[h].on :
         IF ok /\ session[t] = "absent" THEN Goto(h, "list") ELSE Done(h)
    /\ UNCHANGED <<up, mem, disk, session, child, marker, exits, intent, ends>>

-----------------------------------------------------------------------------
(* ReconcileTerminals: an inventory, then the records under the lock.      *)

ReconcileBegin(h) ==
    /\ Begins(h)
    /\ Goto(h, "list")
    /\ UNCHANGED <<up, mem, disk, session, child, marker, exits, intent, ends, faults>>

ReconcileList(h, ok) ==
    /\ At(h, "list") /\ Fails(ok)
    /\ handler' = [handler EXCEPT ![h].pc = "apply", ![h].seen = session,
                                  ![h].failed = ~ok]
    /\ UNCHANGED <<up, mem, disk, session, child, marker, exits, intent, ends>>

\* A terminal absent without evidence is missing, and never ended.
MissingEnds(r) == [r EXCEPT !.lifecycle = "ended", !.reachable = FALSE]
Missing(r) == [r EXCEPT !.reachable = FALSE]

Reconciled(r, seen, exited) ==
    CASE seen = "reachable" -> [r EXCEPT !.lifecycle = "live", !.reachable = TRUE]
      [] seen = "unreachable" -> [r EXCEPT !.reachable = FALSE]
      [] seen = "absent" /\ (exited \/ r.stop) ->
           [r EXCEPT !.lifecycle = "ended", !.reachable = FALSE]
      [] OTHER -> Missing(r)

\* An ended terminal's Threads are idle.
Quieted(r) == IF r.lifecycle = "ended" THEN [r EXCEPT !.background = "idle"] ELSE r

ReconcileApply(h, ok) ==
    LET w == handler[h] IN
    /\ At(h, "apply")
    /\ Save([t \in Terminals |->
               IF ~mem[t].known THEN mem[t]
               ELSE IF w.failed
               THEN IF mem[t].lifecycle = "ended" THEN mem[t] ELSE Missing(mem[t])
               ELSE Quieted(Reconciled(mem[t], w.seen[t], marker[t] = "exited"))], ok)
    /\ Done(h)
    /\ UNCHANGED <<up, session, child, marker, exits, intent, ends>>

-----------------------------------------------------------------------------
(* CleanupTerminals.                                                       *)

CleanupBegin(h) ==
    /\ Begins(h)
    /\ handler' = [handler EXCEPT ![h].pc = "sweep", ![h].seen = session]
    /\ UNCHANGED <<up, mem, disk, session, child, marker, exits, intent, ends, faults>>

\* The managed names: all the records, or only the live ones.
ManagedLive == {t \in Terminals : mem[t].known /\ mem[t].lifecycle = "live"}
Managed == {t \in Terminals : mem[t].known}

CleanupPick(h) ==
    /\ At(h, "sweep")
    /\ handler' = [handler EXCEPT ![h].pc = "terminate",
          ![h].on = {n \in Names : handler[h].seen[n] = "reachable"} \ Managed]
    /\ UNCHANGED <<up, mem, disk, session, child, marker, exits, intent, ends, faults>>

CleanupKill(h) ==
    /\ At(h, "terminate")
    /\ IF handler[h].on = {} THEN Done(h) /\ UNCHANGED <<session, child>>
       ELSE \E n \in handler[h].on :
              /\ session' = [session EXCEPT ![n] = "absent"]
              /\ child' = [t \in Terminals |-> IF t = n THEN "none" ELSE child[t]]
              /\ handler' = [handler EXCEPT ![h].on = @ \ {n}]
    /\ UNCHANGED <<up, mem, disk, marker, exits, intent, ends, faults>>

-----------------------------------------------------------------------------
(* The workload under child.Run, zmx and the hooks.                        *)

\* The marker is replaced when the workload starts, and says it exited at
\* once when it cannot be started.
ChildStarts(t) ==
    /\ child[t] = "starting"
    /\ child' = [child EXCEPT ![t] = "running"]
    /\ marker' = [marker EXCEPT ![t] = "running"]
    /\ UNCHANGED <<up, mem, disk, session, exits, intent, handler, calls, ends, faults>>

ChildExits(t) ==
    /\ child[t] \in {"starting", "running"} /\ ends < MaxExits
    /\ child' = [child EXCEPT ![t] = "exited"]
    /\ marker' = [marker EXCEPT ![t] = "exited"] /\ exits' = exits \cup {t}
    /\ ends' = ends + 1
    /\ UNCHANGED <<up, mem, disk, session, intent, handler, calls, faults>>

SessionEnds(t) ==
    /\ child[t] = "exited"
    /\ child' = [child EXCEPT ![t] = "none"]
    /\ session' = [session EXCEPT ![t] = "absent"]
    /\ UNCHANGED <<up, mem, disk, marker, exits, intent, handler, calls, ends, faults>>

\* A reboot or a killed daemon takes the session without a marker.
Vanish(t) ==
    /\ session[t] # "absent" /\ faults < MaxFaults
    /\ session' = [session EXCEPT ![t] = "absent"]
    /\ child' = [child EXCEPT ![t] = "none"] /\ faults' = faults + 1
    /\ UNCHANGED <<up, mem, disk, marker, exits, intent, handler, calls, ends>>

StopAnswering(t) ==
    /\ session[t] = "reachable" /\ faults < MaxFaults
    /\ session' = [session EXCEPT ![t] = "unreachable"] /\ faults' = faults + 1
    /\ UNCHANGED <<up, mem, disk, child, marker, exits, intent, handler, calls, ends>>

\* ApplyTerminalEvidence: a hook of the workload, however late it comes.
\* An ended terminal takes none.
RefusesNever(r) == FALSE
Refuses(r) == r.lifecycle = "ended"

Evidence(t, activity) ==
    /\ up /\ mem[t].known /\ child[t] # "none" /\ mem[t].background # activity
    /\ ~Refuses(mem[t])
    /\ Save([mem EXCEPT ![t].background = activity], TRUE)
    /\ UNCHANGED <<up, session, child, marker, exits, intent, handler, calls, ends>>

Crash ==
    /\ up /\ faults < MaxFaults
    /\ up' = FALSE /\ faults' = faults + 1
    /\ mem' = disk /\ handler' = [h \in Handlers |-> Idle]
    /\ UNCHANGED <<disk, session, child, marker, exits, intent, calls, ends>>

Boot ==
    /\ ~up /\ up' = TRUE
    /\ UNCHANGED <<mem, disk, session, child, marker, exits, intent, handler, calls, ends, faults>>

Next ==
    \/ \E h \in Handlers :
         \/ ReconcileBegin(h) \/ CleanupBegin(h) \/ CleanupPick(h) \/ CleanupKill(h)
         \/ OpenStart(h)
         \/ \E ok \in BOOLEAN :
              \/ OpenEndsLegacy(h, ok) \/ OpenForgetsLegacy(h, ok)
              \/ OpenFind(h, ok) \/ OpenSettle(h, ok)
              \/ TerminateFind(h, ok) \/ TerminateGone(h, ok)
              \/ ReconcileList(h, ok) \/ ReconcileApply(h, ok)
              \/ \E written \in BOOLEAN : TerminateKill(h, ok, written)
              \/ \E t \in Terminals : OpenBegin(h, t, ok) \/ TerminateBegin(h, t, ok)
    \/ \E t \in Terminals :
         \/ ChildStarts(t) \/ ChildExits(t) \/ SessionEnds(t)
         \/ Vanish(t) \/ StopAnswering(t)
         \/ \E activity \in {"idle", "working"} : Evidence(t, activity)
    \/ Crash \/ Boot

Spec == Init /\ [][Next]_terminalVars

-----------------------------------------------------------------------------

TypeOK ==
    /\ up \in BOOLEAN
    /\ \A t \in Terminals : \A r \in {mem[t], disk[t]} :
         /\ r.known \in BOOLEAN /\ r.reachable \in BOOLEAN /\ r.stop \in BOOLEAN
         /\ r.lifecycle \in {"live", "ended"}
         /\ r.background \in {"unknown", "idle", "working"} /\ r.legacy \subseteq Orphans
    /\ session \in [Names -> {"absent", "reachable", "unreachable"}]
    /\ child \in [Terminals -> {"none", "starting", "running", "exited"}]
    /\ marker \in [Terminals -> {"none", "running", "exited"}]
    /\ exits \subseteq Terminals /\ intent \in [Terminals -> {"none", "asked", "killed"}]
    /\ \A h \in Handlers : handler[h].on \subseteq Names
    /\ calls \in 0..MaxCalls /\ ends \in 0..MaxExits /\ faults \in 0..MaxFaults

\* A session that is named by a record's id is never swept away as an orphan:
\* the record is in place before its session can be in an inventory
\* (OpenTerminal, CleanupTerminals).
CleanupSpares ==
    \A h \in Handlers :
        handler[h].pc = "terminate" => \A t \in handler[h].on \cap Terminals : ~mem[t].known

\* The same of the session a record of an older state file has another name
\* for.  The code does not keep it: the managed names are the ids alone, and a
\* cleanup before the terminal is opened again sweeps that session
\* (CleanupTerminals: sessions "that have no persisted ATC Terminal").
LegacySpared ==
    \A h \in Handlers :
        handler[h].pc = "terminate" =>
            \A t \in Terminals : mem[t].known => mem[t].legacy \cap handler[h].on = {}

\* A terminal ends only on evidence: its stop was asked for, or its workload
\* left an exit marker.  A session lost in a reboot, or absent from an old
\* inventory, leaves it missing (ReconcileTerminals).
EndedExplained ==
    \A t \in Terminals :
        mem[t].lifecycle = "ended" => mem[t].stop \/ t \in exits

\* When a session is killed deliberately the intent is on disk already, so
\* that a crash before the reconcile still ends the terminal; only opening
\* it again takes the intent back (TerminateTerminal).
StopIsOnDisk ==
    \A t \in Terminals : intent[t] = "killed" => disk[t].stop

\* An ended terminal is never shown working, whatever hook arrives after the
\* reconcile that ended it (ApplyTerminalEvidence).
EndedIsQuiet ==
    \A t \in Terminals : mem[t].lifecycle = "ended" => mem[t].background # "working"
=============================================================================
