---------------------------- MODULE ZmxSupervisor ---------------------------
(***************************************************************************)
(* The zmx-supervisor experiment (experiments/zmx-supervisor): a host that *)
(* keeps records of the sessions it created in a file, while zmx keeps the *)
(* sessions themselves, a wrapper in each leaves evidence of its child's   *)
(* end, and the host may be gone at any moment.  Its commands are typed    *)
(* one after the other; what interleaves with them is the world.           *)
(***************************************************************************)
EXTENDS Naturals, FiniteSets

CONSTANTS
    Names,
    MaxSessions,  \* bound: sessions created
    MaxFaults, MaxCrashes

VARIABLES
    host,     \* the command at work and where it is, with what it has listed
    records,  \* the host's records, by id
    disk,     \* sessions.json
    session,  \* of each id, in zmx: absent, starting, up, mute; an attach's replacement
              \* is rising until zmx lists it, a phantom then
    child,    \* of each id: none, running, over
    marker,   \* of each id: none, started, exited
    late,     \* ids whose session came up when its create had given up
    overlooked, \* ids whose replacement was not listed yet when its attach looked
    swept,    \* an orphan was killed that the host has a record of
    last, faults, crashes

worldVars == <<session, child, marker, late, overlooked>>
zmxVars == <<host, records, disk, worldVars, swept, last, faults, crashes>>

Ids == 1 .. MaxSessions
States == {"running", "exited", "missing", "disconnected", "stale"}
Record == [name : Names, state : States, stop : BOOLEAN, absent : BOOLEAN]

NoCommand == [pc |-> "idle", op |-> "none", id |-> 0, seen |-> {}, mute |-> {}, orphans |-> {},
              forget |-> {}]
Commands == {"none", "list", "create", "stop", "cleanup", "attach"}

TypeOK ==
    /\ host \in [pc : {"gone", "idle", "launch", "settle", "list", "apply", "kill", "attach",
                       "check", "sweep", "forget"},
                 op : Commands, id : 0 .. MaxSessions, seen : SUBSET Ids, mute : SUBSET Ids,
                 orphans : SUBSET Ids, forget : SUBSET Ids]
    /\ \A table \in {records, disk} :
          DOMAIN table \subseteq Ids /\ \A i \in DOMAIN table : table[i] \in Record
    /\ session \in [Ids -> {"absent", "starting", "up", "mute", "rising", "phantom"}]
    /\ child \in [Ids -> {"none", "running", "over"}]
    /\ marker \in [Ids -> {"none", "started", "exited"}]
    /\ late \subseteq Ids /\ overlooked \subseteq Ids /\ swept \in BOOLEAN
    /\ last \in 0 .. MaxSessions /\ faults \in 0 .. MaxFaults /\ crashes \in 0 .. MaxCrashes

Nothing == [i \in {} |-> 0]

Init ==
    /\ host = NoCommand /\ records = Nothing /\ disk = Nothing
    /\ session = [i \in Ids |-> "absent"] /\ child = [i \in Ids |-> "none"]
    /\ marker = [i \in Ids |-> "none"] /\ late = {} /\ overlooked = {} /\ swept = FALSE
    /\ last = 0 /\ faults = 0 /\ crashes = 0

Fault == faults < MaxFaults /\ faults' = faults + 1
NoFault == UNCHANGED faults

(* store.Save replaces the file as a whole, or leaves it. *)
Save(to) == disk' = to /\ NoFault
SaveFails == UNCHANGED disk /\ Fault

Idle == host' = NoCommand
Goto(pc) == host' = [host EXCEPT !.pc = pc]
Begins(op, i, pc) ==
    /\ host.pc = "idle" /\ host' = [NoCommand EXCEPT !.pc = pc, !.op = op, !.id = i]

-----------------------------------------------------------------------------
(* Create and Zmx.Create.                                                  *)

(* Fault: the record is written when the session has settled. *)
RecordFirstLate(to) == UNCHANGED disk /\ NoFault

(* The record is on disk before anything is launched. *)
RecordFirst(to) == Save(to)

Create(name) ==
    LET i == last + 1
        new == [name |-> name, state |-> "missing", stop |-> FALSE, absent |-> FALSE]
        to == [j \in DOMAIN records \cup {i} |-> IF j = i THEN new ELSE records[j]]
    IN
    /\ i \in Ids /\ last' = i
    /\ \A j \in DOMAIN records : records[j].name # name
    /\ \/ Begins("create", i, "launch") /\ records' = to /\ RecordFirst(to)
       \/ host.pc = "idle" /\ SaveFails /\ UNCHANGED <<host, records>>
    /\ UNCHANGED <<worldVars, swept, crashes>>

Launch ==
    /\ host.pc = "launch"
    /\ \/ /\ session' = [session EXCEPT ![host.id] = "starting"] /\ Goto("settle") /\ NoFault
       \/ Fault /\ Idle /\ UNCHANGED session
    /\ UNCHANGED <<records, disk, child, marker, late, overlooked, swept, last, crashes>>

(* The poll sees the session answer, or ends without; the record stays.    *)
Settle ==
    /\ host.pc = "settle"
    /\ \/ session[host.id] = "up" /\ Goto("list") /\ NoFault
       \/ Fault /\ Idle
    /\ UNCHANGED <<records, disk, worldVars, swept, last, crashes>>

-----------------------------------------------------------------------------
(* reconcileLocked.                                                        *)

Present == {i \in Ids : session[i] \in {"up", "mute", "phantom"}}

Reconcile ==
    /\ Begins("list", 0, "list")
    /\ UNCHANGED <<records, disk, worldVars, swept, last, faults, crashes>>

Disconnected == [i \in DOMAIN records |-> [records[i] EXCEPT !.state = "disconnected"]]

(* Without an inventory every record is disconnected. *)
List ==
    /\ host.pc = "list"
    /\ \/ /\ host' = [host EXCEPT !.pc = "apply", !.seen = Present,
                                  !.mute = {i \in Present : session[i] = "mute"}]
          /\ UNCHANGED <<records, disk, faults>>
       \/ Fault /\ Idle /\ records' = Disconnected /\ disk' \in {disk, Disconnected}
    /\ UNCHANGED <<worldVars, swept, last, crashes>>

(* Fault: what the inventory does not list has exited. *)
EvidenceOfAbsence(i) == TRUE

(* Exited needs the wrapper's evidence, or a stop that was asked for. *)
Evidence(i) == marker[i] = "exited" \/ records[i].stop

(* long: the record has been absent for as long as staleAfter. *)
Judge(i, long) ==
    IF i \in host.seen \ host.mute
    THEN [records[i] EXCEPT !.state = "running", !.absent = FALSE]
    ELSE IF i \in host.mute THEN [records[i] EXCEPT !.state = "disconnected"]
    ELSE IF Evidence(i) THEN [records[i] EXCEPT !.state = "exited"]
    ELSE [records[i] EXCEPT !.state = IF long /\ records[i].absent THEN "stale" ELSE "missing",
                            !.absent = TRUE]

(* Fault: a session that was to be stopped is not looked after any more. *)
ManagedUnstopped(to) == {i \in DOMAIN to : ~to[i].stop}
Managed(to) == DOMAIN to

(* What the command goes on with once the records are judged: the unmanaged*)
(* that answer are orphans, the exited and the stale forgettable.          *)
Onwards(to) ==
    CASE host.op = "cleanup" ->
           host' = [host EXCEPT !.pc = "sweep",
                                !.orphans = host.seen \ (host.mute \cup Managed(to)),
                                !.forget = {i \in DOMAIN to : to[i].state \in {"exited", "stale"}}]
      [] host.op = "attach" /\ host.id \in DOMAIN to /\ to[host.id].state = "running" -> Goto("attach")
      [] OTHER -> Idle

Apply(long) ==
    LET to == [i \in DOMAIN records |-> Judge(i, long)] IN
    /\ host.pc = "apply" /\ records' = to
    /\ \/ Save(to) /\ Onwards(to)
       \/ SaveFails /\ Idle
    /\ UNCHANGED <<worldVars, swept, last, crashes>>

-----------------------------------------------------------------------------
(* Stop, Attach and Cleanup.                                               *)

(* The stop stays in memory when it could not be saved. *)
Stop(i) ==
    LET to == [records EXCEPT ![i].stop = TRUE] IN
    /\ host.pc = "idle" /\ records' = to
    /\ \/ Save(to) /\ Begins("stop", i, "kill")
       \/ SaveFails /\ UNCHANGED host
    /\ UNCHANGED <<worldVars, swept, last, crashes>>

(* Zmx.Kill: the session is gone from the inventory, or it is an error.    *)
(* The wrapper may live to see its child's end.                            *)
Killed(i) ==
    /\ session' = IF i \in Present THEN [session EXCEPT ![i] = "absent"] ELSE session
    /\ child' = IF i \in Present /\ child[i] = "running" THEN [child EXCEPT ![i] = "over"] ELSE child
    /\ marker' \in {marker} \cup
          IF i \in Present /\ child[i] = "running" THEN {[marker EXCEPT ![i] = "exited"]} ELSE {}

Kill ==
    /\ host.pc = "kill"
    /\ \/ Killed(host.id) /\ NoFault /\ Goto("list")
       \/ Fault /\ Idle /\ UNCHANGED <<session, child, marker>>
    /\ UNCHANGED <<records, disk, late, overlooked, swept, last, crashes>>

Attach(i) ==
    /\ Begins("attach", i, "list")
    /\ UNCHANGED <<records, disk, worldVars, swept, last, faults, crashes>>

(* zmx attach creates what is not there, which takes it a while; otherwise *)
(* the user is in until they detach.                                       *)
AttachStart ==
    /\ host.pc = "attach"
    /\ \/ /\ session[host.id] = "absent" /\ Goto("check")
          /\ session' = [session EXCEPT ![host.id] = "rising"]
       \/ session[host.id] # "absent" /\ Idle /\ UNCHANGED session
    /\ UNCHANGED <<records, disk, child, marker, late, overlooked, swept, last, faults, crashes>>

(* Fault: whatever answers under the name is the session. *)
ReplacedNever == FALSE

(* Another daemon than before answers. *)
Replaced == session[host.id] = "phantom"

(***************************************************************************)
(* The one look, a poll interval later.  A replacement that is listed is   *)
(* stopped; of one that is not, only the client is, with which it may or   *)
(* may not go; without an inventory it is left.                            *)
(***************************************************************************)
AttachCheck ==
    /\ host.pc = "check" /\ Idle
    /\ \/ /\ Replaced /\ session' = [session EXCEPT ![host.id] = "absent"] /\ NoFault
          /\ UNCHANGED overlooked
       \/ /\ ~Replaced /\ NoFault
          /\ \/ session[host.id] = "rising" /\ overlooked' = overlooked \cup {host.id}
                /\ session' \in {session, [session EXCEPT ![host.id] = "absent"]}
             \/ session[host.id] # "rising" /\ UNCHANGED <<session, overlooked>>
       \/ Fault /\ UNCHANGED <<session, overlooked>>
    /\ UNCHANGED <<records, disk, child, marker, late, swept, last, crashes>>

Cleanup ==
    /\ Begins("cleanup", 0, "list")
    /\ UNCHANGED <<records, disk, worldVars, swept, last, faults, crashes>>

Sweep ==
    /\ host.pc = "sweep"
    /\ \/ /\ host.orphans = {} /\ Goto("forget")
          /\ UNCHANGED <<session, child, marker, swept, faults>>
       \/ \E i \in host.orphans :
             /\ Killed(i) /\ NoFault /\ host' = [host EXCEPT !.orphans = @ \ {i}]
             /\ swept' = (swept \/ i \in DOMAIN disk)
       \/ host.orphans # {} /\ Fault /\ Idle /\ UNCHANGED <<session, child, marker, swept>>
    /\ UNCHANGED <<records, disk, late, overlooked, last, crashes>>

Without(table, ids) == [i \in DOMAIN table \ ids |-> table[i]]

(* The evidence is removed first, one id after the other; an error on the  *)
(* way keeps all the records.                                              *)
Forget ==
    LET to == Without(records, host.forget)
        cleared(ids) == [i \in Ids |-> IF i \in ids THEN "none" ELSE marker[i]]
    IN
    /\ host.pc = "forget" /\ Idle
    /\ \/ marker' = cleared(host.forget) /\ records' = to /\ (Save(to) \/ SaveFails)
       \/ \E ids \in SUBSET host.forget :
             ids # host.forget /\ marker' = cleared(ids) /\ Fault /\ UNCHANGED <<records, disk>>
    /\ UNCHANGED <<session, child, late, overlooked, swept, last, crashes>>

-----------------------------------------------------------------------------
(* The sessions, and the host's end.                                       *)

World == UNCHANGED <<host, records, disk, swept, last, crashes>>

(* The daemon answers and RunChild has started the command. *)
Up(i) ==
    /\ session[i] = "starting" /\ session' = [session EXCEPT ![i] = "up"]
    /\ child' = [child EXCEPT ![i] = "running"]
    /\ marker' = [marker EXCEPT ![i] = "started"]
    /\ late' = IF host.pc = "settle" /\ host.id = i THEN late ELSE late \cup {i}
    /\ UNCHANGED overlooked /\ NoFault /\ World

(* zmx lists the replacement. *)
Risen(i) ==
    /\ session[i] = "rising" /\ session' = [session EXCEPT ![i] = "phantom"]
    /\ UNCHANGED <<child, marker, late, overlooked>> /\ NoFault /\ World

(* The child ends; the wrapper says so and the daemon goes, or both are    *)
(* killed and say nothing.                                                 *)
ChildEnds(i) ==
    /\ child[i] = "running" /\ session[i] \in {"up", "mute"}
    /\ child' = [child EXCEPT ![i] = "over"] /\ session' = [session EXCEPT ![i] = "absent"]
    /\ \/ marker' = [marker EXCEPT ![i] = "exited"] /\ NoFault
       \/ UNCHANGED marker /\ Fault
    /\ UNCHANGED <<late, overlooked>> /\ World

(* The daemon does not answer for a while. *)
Mute(i) ==
    /\ \/ session[i] = "up" /\ Fault /\ session' = [session EXCEPT ![i] = "mute"]
       \/ session[i] = "mute" /\ NoFault /\ session' = [session EXCEPT ![i] = "up"]
    /\ UNCHANGED <<child, marker, late, overlooked>> /\ World

(* The host ends, anywhere, and another loads the file. *)
Crash ==
    /\ host.pc # "gone" /\ crashes < MaxCrashes /\ crashes' = crashes + 1
    /\ host' = [NoCommand EXCEPT !.pc = "gone"]
    /\ UNCHANGED <<records, disk, worldVars, swept, last, faults>>

Load ==
    /\ host.pc = "gone" /\ Idle /\ records' = disk
    /\ UNCHANGED <<disk, worldVars, swept, last, faults, crashes>>

Next ==
    \/ \E name \in Names : Create(name)
    \/ Launch \/ Settle \/ Reconcile \/ List \/ Kill \/ AttachStart \/ AttachCheck
    \/ \E long \in BOOLEAN : Apply(long)
    \/ \E i \in DOMAIN records : Stop(i) \/ Attach(i)
    \/ Cleanup \/ Sweep \/ Forget \/ Crash \/ Load
    \/ \E i \in Ids : Up(i) \/ Risen(i) \/ ChildEnds(i) \/ Mute(i)

Spec == Init /\ [][Next]_zmxVars

-----------------------------------------------------------------------------
(* Properties.                                                             *)

(***************************************************************************)
(* A session that came up while its create was looking is on record until  *)
(* it is over, whatever is saved or not, cleaned up, or crashed: it cannot *)
(* become an orphan that a cleanup kills (Create: "Keep the record",       *)
(* Cleanup).                                                               *)
(***************************************************************************)
NoStray == \A i \in Ids \ late : session[i] \in {"up", "mute"} => i \in DOMAIN disk

(***************************************************************************)
(* A record says exited only of a child that has ended, or that somebody   *)
(* asked to end: "absence from zmx inventory alone is never interpreted as *)
(* a clean exit" (reconcileLocked).                                        *)
(***************************************************************************)
ExitIsEvidence ==
    \A i \in DOMAIN records :
        records[i].state = "exited" => child[i] = "over" \/ records[i].stop

(***************************************************************************)
(* A cleanup kills nothing that is on record (Cleanup).                    *)
(***************************************************************************)
SweepsOrphans == ~swept

(***************************************************************************)
(* An attach leaves no session of its own making behind that zmx listed    *)
(* when it looked, unless what it asked failed or the host died in between *)
(* (Zmx.Attach: "stop the phantom replacement").                           *)
(***************************************************************************)
NoPhantom ==
    \A i \in Ids : session[i] = "phantom" =>
        (host.pc = "check" /\ host.id = i) \/ i \in overlooked \/ faults > 0 \/ crashes > 0

(***************************************************************************)
(* The same of every replacement.  The code does not keep it: it looks     *)
(* once, and a daemon that settles later stays, the next reconcile taking  *)
(* it for the session that is gone.                                        *)
(***************************************************************************)
NoPhantomAtAll ==
    \A i \in Ids : session[i] = "phantom" =>
        (host.pc = "check" /\ host.id = i) \/ faults > 0 \/ crashes > 0
=============================================================================
