------------------------------ MODULE Threads ------------------------------
(***************************************************************************)
(* The threads service for terminal-hosted conversations                   *)
(* (internal/threads/service.go): the persisted records and their in-memory *)
(* view, the identity mapping, the active projection (which thread a       *)
(* terminal has open), the sweep, and Open, which resolves a thread to one  *)
(* terminal while terminals and evidence change around it.                 *)
(*                                                                         *)
(* The lock ops makes each mutation one step: database write, view and     *)
(* events together.  What is not one step in the code is not one here:     *)
(* the sweep reads a terminal's status before it acts on it, a terminal is *)
(* deleted before the threads hear of it, and Open releases ops while the  *)
(* resume launches.  A step whose write fails and that changes nothing is  *)
(* a stuttering step; writes whose failure does have an effect fail        *)
(* explicitly, at most MaxFailures times.                                  *)
(***************************************************************************)
EXTENDS ThreadRecord, FiniteSets

CONSTANTS
    ThreadIds,       \* ids a new thread can be given (random in the code)
    Openers,         \* concurrent requests to open a thread
    Reports,         \* the observations the providers' hooks can make
    MaxTurns,        \* bound: turn ids minted
    MaxFailures,     \* bound: failed database writes and deletes
    MaxCrashes,      \* bound: server restarts
    LateSessions     \* a launch reported missing may yet come up

ASSUME ThreadsAssumption ==
    /\ None \notin ThreadIds
    /\ Reports \subseteq Report
    /\ {MaxTurns, MaxFailures, MaxCrashes} \subseteq Nat
    /\ LateSessions \in BOOLEAN

VARIABLES
    rows,        \* the threads table (with its identity row)
    view,        \* Service.view
    identities,  \* Service.identities and its inverse, keys
    active,      \* Service.active: terminal -> the thread it has open
    opening,     \* Service.opening: threads with a resume in flight
    terms,       \* the terminals domain: each terminal's recorded status
    removing,    \* terminals deleted, TerminalRemoved not called yet
    sweep,       \* the terminals the running sweep still has to look at
    verdict,     \* what the sweep read of one terminal and has yet to act on
    open,        \* the state of each Open call
    nextTurn,    \* the next unused turn id
    failures,    \* failed writes so far
    crashes,     \* restarts so far
    writer,      \* ghost: the conversation an Open resumed in a terminal
    stray,       \* ghost: resumed terminals that are out of Open's control
    untold       \* ghost: what changed and was not announced by an event

threadVars == <<rows, view, identities>>
openVars == <<opening, open>>
termVars == <<terms, removing>>
sweepVars == <<sweep, verdict>>
bounds == <<nextTurn, failures, crashes>>
ghosts == <<writer, stray>>
vars == <<rows, view, identities, active, opening, terms, removing, sweep,
          verdict, open, nextTurn, failures, crashes, writer, stray, untold>>

TermStatus == {"unborn", "running", "unreachable", "exited", "missing", "deleted"}
NoVerdict == [terminal |-> None, gone |-> FALSE]
Idle == [pc |-> "idle", thread |-> None, terminal |-> None]
OpenPc == {"idle", "deciding", "waiting", "launching", "linking",
           "discarding", "converging", "finishing"}

TypeOK ==
    /\ rows \in [ThreadIds -> Record \cup {None}]
    /\ view \in [ThreadIds -> Record \cup {None}]
    /\ identities \in [Keys -> ThreadIds \cup {None}]
    /\ active \in [Terminals -> ThreadIds \cup {None}]
    /\ opening \in SUBSET ThreadIds
    /\ terms \in [Terminals -> TermStatus]
    /\ removing \in SUBSET {t \in Terminals : terms[t] = "deleted"}
    /\ sweep \in SUBSET Terminals
    /\ verdict \in [terminal : Terminals \cup {None}, gone : BOOLEAN]
    /\ open \in [Openers -> [pc : OpenPc, thread : ThreadIds \cup {None},
                             terminal : Terminals \cup {None}]]
    /\ nextTurn \in Nat /\ nextTurn <= MaxTurns
    /\ failures \in 0 .. MaxFailures
    /\ crashes \in 0 .. MaxCrashes
    /\ writer \in [Terminals -> Keys \cup {None}]
    /\ stray \in SUBSET Terminals
    /\ untold \in SUBSET (ThreadIds \cup Terminals)

Init ==
    /\ rows = [id \in ThreadIds |-> None]
    /\ view = [id \in ThreadIds |-> None]
    /\ identities = [k \in Keys |-> None]
    /\ active = [t \in Terminals |-> None]
    /\ opening = {}
    /\ terms = [t \in Terminals |-> "unborn"]
    /\ removing = {}
    /\ sweep = {}
    /\ verdict = NoVerdict
    /\ open = [o \in Openers |-> Idle]
    /\ nextTurn = 0
    /\ failures = 0
    /\ crashes = 0
    /\ writer = [t \in Terminals |-> None]
    /\ stray = {}
    /\ untold = {}

-----------------------------------------------------------------------------
(* Helpers.                                                                *)

Known(id) == view[id] # None
HasRecord(t) == terms[t] \notin {"unborn", "deleted"}

(* The terminals that have the thread open (at most one, see ActiveOnce). *)
Holders(id) == {t \in Terminals : active[t] = id}
Held(id) == Holders(id) # {}

(* The foreign key: a row can only name a terminal that has a record. *)
Storable(record) ==
    record.terminal \in {None} \cup {t \in Terminals : HasRecord(t)}

MayFail == failures < MaxFailures

Overwrite(f, g) == [x \in DOMAIN f |-> IF x \in DOMAIN g THEN g[x] ELSE f[x]]

(* Fault: the view changes, the row does not. *)
PersistViewOnly(records) ==
    /\ UNCHANGED rows
    /\ view' = Overwrite(view, records)

(* Database first, then the view: one commit of the given records. *)
Persist(records) ==
    /\ rows' = Overwrite(rows, records)
    /\ view' = Overwrite(view, records)

(* A record that changed is written, if the store takes it; else no write. *)
Settle(id, record) ==
    \/ record = view[id] /\ UNCHANGED <<rows, view>>
    \/ record # view[id] /\ Storable(record) /\ Persist([x \in {id} |-> record])

(* What readers can see changed, less what this step's events announce. *)
Announce(published) ==
    untold' = (untold \cup {id \in ThreadIds : view'[id] # view[id]}
                      \cup {t \in Terminals : /\ active'[t] # active[t]
                                              /\ terms'[t] # "deleted"})
                \ published

(* terminalUp: anything but definitive absence counts as up. *)
Up(t) == terms[t] \in {"running", "unreachable"}

(* The writes of those records, of which those in failing are refused: the *)
(* foreign key refuses what is not storable, and any other write may fail. *)
Refused(records, failing) ==
    LET dangling == {x \in DOMAIN records : ~Storable(records[x])} IN
    /\ dangling \subseteq failing
    /\ \/ failing = dangling /\ UNCHANGED failures
       \/ failing # dangling /\ MayFail /\ failures' = failures + 1

Without(records, failing) == [x \in (DOMAIN records) \ failing |-> records[x]]

-----------------------------------------------------------------------------
(* Terminals: the threads service only reads their status.                 *)

(* A terminal created for anything but a resume. *)
CreateTerminal(t) ==
    /\ terms[t] = "unborn"
    /\ terms' = [terms EXCEPT ![t] = "running"]
    /\ UNCHANGED <<threadVars, active, openVars, removing, sweepVars, bounds,
                   ghosts, untold>>

(* A reconcile pass records another status; exited is final. *)
TerminalStatus(t) ==
    /\ \/ /\ terms[t] = "running"
          /\ terms' = [terms EXCEPT ![t] = "unreachable"]
       \/ /\ terms[t] = "unreachable"
          /\ terms' = [terms EXCEPT ![t] = "running"]
       \/ /\ Up(t)
          /\ \E s \in {"exited", "missing"} : terms' = [terms EXCEPT ![t] = s]
       \/ /\ LateSessions
          /\ terms[t] = "missing"
          /\ terms' = [terms EXCEPT ![t] = "running"]
    /\ UNCHANGED <<threadVars, active, openVars, removing, sweepVars, bounds,
                   ghosts, untold>>

(* The delete of the terminal's row; its foreign keys go to null. *)
DeleteRow(t) ==
    /\ terms' = [terms EXCEPT ![t] = "deleted"]
    /\ removing' = removing \cup {t}
    /\ rows' = [id \in ThreadIds |->
                  IF rows[id] # None /\ rows[id].terminal = t
                  THEN [rows[id] EXCEPT !.terminal = None] ELSE rows[id]]

DeleteTerminal(t) ==
    /\ HasRecord(t)
    /\ DeleteRow(t)
    /\ UNCHANGED <<view, identities, active, openVars, sweepVars, bounds,
                   ghosts, untold>>

-----------------------------------------------------------------------------
(* Observation.                                                            *)

(* The record of the thread, for an observation in terminal t. *)
Observed(record, t, report) ==
    ApplyStatus([record EXCEPT !.terminal = t, !.archived = FALSE],
                report, TRUE, nextTurn)

(* Fault: only the observing terminal is taken to have moved. *)
MovedHereOnly(t, id) == {x \in {t} : active[x] # id}

(* The terminals whose projection moves when t turns to thread id. *)
Moved(t, id) == {x \in Terminals : (x # t /\ active[x] = id)
                                   \/ (x = t /\ active[x] # id)}

(* Fault: another terminal that held the thread keeps it. *)
TakeOverKeeping(t, id) == [active EXCEPT ![t] = id]

(* Last observer wins: every other terminal lets go of the thread. *)
TakeOver(t, id) ==
    [x \in Terminals |-> IF x = t THEN id
                         ELSE IF active[x] = id THEN None ELSE active[x]]

(* The previous occupant of t, as it is coerced when it is displaced. *)
Displaced(t, id) ==
    [x \in {active[t]} \ {id, None} |-> CoerceRecord(view[x])]

(***************************************************************************)
(* A hook reports that terminal t has conversation k open: a known one     *)
(* reattaches to its thread, an unknown one gets a fresh id.  The          *)
(* displaced occupant's coercion is a write of its own and may fail, which *)
(* leaves it as it was.                                                    *)
(***************************************************************************)
ObserveSession(t, k, report) ==
    \E id \in ThreadIds :
    LET known == identities[k] = id
        record == Observed(IF known THEN view[id] ELSE NewRecord(k, t), t, report)
        displaced == Displaced(t, id)
    IN
    /\ known \/ (identities[k] = None /\ rows[id] = None)
    /\ terms[t] # "unborn"
    /\ Storable(record)
    /\ nextTurn' = NextTurnId(record, nextTurn) /\ nextTurn' <= MaxTurns
    /\ \E failing \in SUBSET DOMAIN displaced :
          /\ Refused(displaced, failing)
          /\ Persist([x \in {id} \cup (DOMAIN displaced \ failing) |->
                        IF x = id THEN record ELSE displaced[x]])
          /\ identities' = [identities EXCEPT ![k] = id]
          /\ active' = TakeOver(t, id)
          /\ UNCHANGED terms
          /\ Announce({id} \cup (DOMAIN displaced \ failing) \cup Moved(t, id))
    /\ writer' = [x \in Terminals |->
                    IF (x = t /\ writer[x] # k) \/ (x # t /\ writer[x] = k)
                    THEN None ELSE writer[x]]
    /\ UNCHANGED <<openVars, removing, sweepVars, crashes, stray>>

(* Status and turn evidence; live claims need a terminal holding the thread. *)
ObserveStatus(k, report) ==
    LET id == identities[k]
        record == ApplyStatus(view[id], report, Held(id), nextTurn)
    IN
    /\ id # None
    /\ Storable(record)
    /\ nextTurn' = NextTurnId(record, nextTurn) /\ nextTurn' <= MaxTurns
    /\ Persist([x \in {id} |-> record])
    /\ UNCHANGED <<identities, active, openVars, termVars, sweepVars, failures,
                   crashes, ghosts>>
    /\ Announce({id})

(***************************************************************************)
(* The conversation left terminal t.  If its coercion has to be written    *)
(* and cannot be, the active entry stays for the sweep (no step).          *)
(***************************************************************************)
CanDeactivate(t) ==
    /\ active[t] # None
    /\ LET record == CoerceRecord(view[active[t]])
       IN  record = view[active[t]] \/ Storable(record)

Deactivated(t) ==
    LET id == active[t] IN
    /\ active[t] # None
    /\ Settle(id, CoerceRecord(view[id]))
    /\ active' = [active EXCEPT ![t] = None]
    /\ UNCHANGED terms
    /\ Announce({id, t})

(* A hook reports the end of the session, or the TUI closing. *)
Deactivate(t) ==
    /\ Deactivated(t)
    /\ UNCHANGED <<identities, openVars, removing, sweepVars, bounds, ghosts>>

(***************************************************************************)
(* The threads hear of a deleted terminal: every record linked to it loses *)
(* the link and its live claims, one write per thread.  The active entry   *)
(* stays if the write of the thread it names failed.                       *)
(***************************************************************************)
Unlinked(t) ==
    [x \in {id \in ThreadIds : Known(id) /\ view[id].terminal = t} |->
        CoerceRecord([view[x] EXCEPT !.terminal = None])]

Removed(t) ==
    LET unlinked == Unlinked(t) IN
    \E failing \in SUBSET DOMAIN unlinked :
        /\ Refused(unlinked, failing)
        /\ Persist(Without(unlinked, failing))
        /\ active' = IF active[t] \in failing THEN active
                                              ELSE [active EXCEPT ![t] = None]
        /\ UNCHANGED terms
        /\ Announce(DOMAIN unlinked \ failing)

TerminalRemoved(t) ==
    /\ t \in removing
    /\ Removed(t)
    /\ removing' = removing \ {t}
    /\ UNCHANGED <<identities, openVars, sweepVars, nextTurn, crashes, ghosts>>

(***************************************************************************)
(* The sweep: a snapshot of the active terminals, then for each a read of  *)
(* its status and, in a later step, the reaction to what was read.         *)
(***************************************************************************)
SweepStart ==
    /\ sweep = {} /\ verdict = NoVerdict
    /\ sweep' = {t \in Terminals : active[t] # None}
    /\ sweep' # {}
    /\ UNCHANGED <<threadVars, active, openVars, termVars, verdict, bounds,
                   ghosts, untold>>

(* Fault: only a deleted terminal counts as having left. *)
SweepLookDeletedOnly(t) ==
    /\ t \in sweep /\ verdict = NoVerdict
    /\ sweep' = sweep \ {t}
    /\ verdict' = IF HasRecord(t) THEN NoVerdict
                  ELSE [terminal |-> t, gone |-> TRUE]
    /\ UNCHANGED <<threadVars, active, openVars, termVars, bounds, ghosts, untold>>

SweepLook(t) ==
    /\ t \in sweep /\ verdict = NoVerdict
    /\ sweep' = sweep \ {t}
    /\ verdict' = IF Up(t) THEN NoVerdict
                  ELSE [terminal |-> t, gone |-> ~HasRecord(t)]
    /\ UNCHANGED <<threadVars, active, openVars, termVars, bounds, ghosts, untold>>

(* Deactivate or TerminalRemoved; one without effect just moves on. *)
SweepAct ==
    LET t == verdict.terminal
        dead == verdict.gone
    IN
    /\ t # None
    /\ verdict' = NoVerdict
    /\ \/ /\ dead /\ Removed(t)
          /\ UNCHANGED <<identities, nextTurn, crashes>>
       \/ /\ ~dead /\ Deactivated(t)
          /\ UNCHANGED <<identities, bounds>>
       \/ /\ ~dead
          /\ \/ ~CanDeactivate(t) /\ UNCHANGED failures
             \/ CanDeactivate(t) /\ MayFail /\ failures' = failures + 1
          /\ UNCHANGED <<threadVars, active, terms, nextTurn, crashes, untold>>
    /\ UNCHANGED <<openVars, removing, sweep, ghosts>>

-----------------------------------------------------------------------------
(* PATCH and DELETE.                                                       *)

(* Archiving is refused while something holds the thread or is about to. *)
MayArchive(id) == ~Held(id) /\ id \notin opening

Update(id, archived) ==
    /\ Known(id)
    /\ view[id].archived # archived
    /\ archived => MayArchive(id)
    /\ Storable(view[id])
    /\ Persist([x \in {id} |-> [view[id] EXCEPT !.archived = archived]])
    /\ UNCHANGED <<identities, active, openVars, termVars, sweepVars, bounds,
                   ghosts>>
    /\ Announce({id})

(* Fault: the identity mapping is left behind. *)
DeleteKeepsIdentity(id) ==
    /\ Known(id)
    /\ ~Held(id) /\ id \notin opening
    /\ Persist([x \in {id} |-> None])
    /\ UNCHANGED <<identities, active, openVars, termVars, sweepVars, bounds, ghosts>>
    /\ Announce({id})

(* The record and its identity go; the conversation is not touched. *)
Delete(id) ==
    /\ Known(id)
    /\ ~Held(id) /\ id \notin opening
    /\ Persist([x \in {id} |-> None])
    /\ identities' = [k \in Keys |-> IF identities[k] = id THEN None
                                                           ELSE identities[k]]
    /\ UNCHANGED <<active, openVars, termVars, sweepVars, bounds, ghosts>>
    /\ Announce({id})

-----------------------------------------------------------------------------
(* Open.                                                                   *)

(* The terminal an Open reuses: the holder, or the last terminal unless    *)
(* another conversation holds it; only terminals that are up.              *)
Reusable(id) ==
    LET last == view[id].terminal
        holding == {t \in Holders(id) : Up(t)}
    IN  IF holding # {} THEN holding
        ELSE {t \in {last} \ {None} : active[t] \in {None, id} /\ Up(t)}

(* link: the association is recorded and the thread unarchived. *)
LinkTo(record, t) == [record EXCEPT !.terminal = t, !.archived = FALSE]

Linked(id, t) ==
    /\ Known(id)
    /\ Settle(id, LinkTo(view[id], t))
    /\ UNCHANGED <<active, terms>>
    /\ Announce({id})

At(o, pc) == open[o].pc = pc
Goto(o, pc) == open' = [open EXCEPT ![o].pc = pc]

OpenCall(o, id) ==
    /\ At(o, "idle")
    /\ open' = [open EXCEPT ![o] = [pc |-> "deciding", thread |-> id,
                                    terminal |-> None]]
    /\ UNCHANGED <<threadVars, active, opening, termVars, sweepVars, bounds,
                   ghosts, untold>>

Return(o) == open' = [open EXCEPT ![o] = Idle]

(* Found and linked, or refused: not found, or the link was not written. *)
OpenReuse(o) ==
    LET id == open[o].thread IN
    /\ At(o, "deciding")
    /\ Return(o)
    /\ \/ /\ Known(id)
          /\ \E t \in Reusable(id) : Linked(id, t)
          /\ UNCHANGED failures
       \/ /\ Known(id)
          /\ \E t \in Reusable(id) : LinkTo(view[id], t) # view[id]
          /\ MayFail /\ failures' = failures + 1
          /\ UNCHANGED <<rows, view, active, terms, untold>>
       \/ /\ ~Known(id)
          /\ UNCHANGED <<rows, view, active, terms, failures, untold>>
    /\ UNCHANGED <<identities, opening, removing, sweepVars, nextTurn, crashes,
                   ghosts>>

(* Fault: a resume in flight is not looked for. *)
OpenDormantAlone(o) ==
    LET id == open[o].thread IN
    /\ At(o, "deciding")
    /\ Known(id) /\ Reusable(id) = {}
    /\ Goto(o, "launching") /\ opening' = opening \cup {id}
    /\ UNCHANGED <<threadVars, active, termVars, sweepVars, bounds, ghosts, untold>>

(* Dormant: wait for the resume in flight, or own one. *)
OpenDormant(o) ==
    LET id == open[o].thread IN
    /\ At(o, "deciding")
    /\ Known(id) /\ Reusable(id) = {}
    /\ IF id \in opening
       THEN Goto(o, "waiting") /\ UNCHANGED opening
       ELSE Goto(o, "launching") /\ opening' = opening \cup {id}
    /\ UNCHANGED <<threadVars, active, termVars, sweepVars, bounds, ghosts, untold>>

(* A waiting client goes away. *)
OpenGiveUp(o) ==
    /\ At(o, "waiting")
    /\ Return(o)
    /\ UNCHANGED <<threadVars, active, opening, termVars, sweepVars, bounds,
                   ghosts, untold>>

(***************************************************************************)
(* The resume launches in a new terminal, with ops released: it comes up,  *)
(* ends at once, is not verified (missing), or is refused before a         *)
(* terminal exists.  If the conversation was meanwhile opened by hand in   *)
(* another terminal, the resume comes up beside it: no open can tell, and  *)
(* the ghost counts it as out of control.                                  *)
(***************************************************************************)
OpenResume(o) ==
    LET shown == {u \in Holders(open[o].thread) : Up(u)} IN
    /\ At(o, "launching")
    /\ \/ \E t \in Terminals, s \in {"running", "exited", "missing"} :
             /\ terms[t] = "unborn"
             /\ terms' = [terms EXCEPT ![t] = s]
             /\ writer' = [writer EXCEPT ![t] = view[open[o].thread].key]
             /\ stray' = IF shown = {} THEN stray ELSE stray \cup {t}
             /\ open' = [open EXCEPT ![o].pc = "linking", ![o].terminal = t]
       \/ /\ Goto(o, "finishing")
          /\ UNCHANGED <<terms, writer, stray>>
    /\ UNCHANGED <<threadVars, active, opening, removing, sweepVars, bounds,
                   untold>>

(* The association is written, or the terminal has to be discarded. *)
OpenLink(o) ==
    LET id == open[o].thread
        t == open[o].terminal
        written == LinkTo(view[id], t) # view[id]
    IN
    /\ At(o, "linking")
    /\ \/ /\ Linked(id, t)
          /\ Goto(o, "finishing")
          /\ UNCHANGED failures
       \/ /\ written
          /\ \/ ~HasRecord(t) /\ UNCHANGED failures
             \/ HasRecord(t) /\ MayFail /\ failures' = failures + 1
          /\ Goto(o, "discarding")
          /\ UNCHANGED <<rows, view, active, terms, untold>>
    /\ UNCHANGED <<identities, opening, removing, sweepVars, nextTurn, crashes,
                   ghosts>>

(***************************************************************************)
(* Compensation: the complete deletion of the terminal.  A terminal that   *)
(* is already deleted is not found, which is an error like any other.      *)
(***************************************************************************)
OpenDiscard(o) ==
    LET t == open[o].terminal IN
    /\ At(o, "discarding")
    /\ \/ /\ HasRecord(t)
          /\ DeleteRow(t)
          /\ Goto(o, "converging")
          /\ UNCHANGED <<failures, stray>>
       \/ /\ \/ ~HasRecord(t) /\ UNCHANGED failures
             \/ HasRecord(t) /\ MayFail /\ failures' = failures + 1
          /\ stray' = stray \cup {t}
          /\ Goto(o, "finishing")
          /\ UNCHANGED <<terms, removing, rows>>
    /\ UNCHANGED <<view, identities, active, opening, sweepVars, nextTurn,
                   crashes, writer, untold>>

(* The discard has told the threads. *)
OpenConverged(o) ==
    /\ At(o, "converging")
    /\ open[o].terminal \notin removing
    /\ Goto(o, "finishing")
    /\ UNCHANGED <<threadVars, active, opening, termVars, sweepVars, bounds,
                   ghosts, untold>>

(* Fault: the waiters are woken, the mark stays. *)
OpenFinishKeepsMark(o) ==
    LET id == open[o].thread IN
    /\ At(o, "finishing")
    /\ open' = [p \in Openers |->
                  IF p = o THEN Idle
                  ELSE IF At(p, "waiting") /\ open[p].thread = id
                  THEN [open[p] EXCEPT !.pc = "deciding"] ELSE open[p]]
    /\ UNCHANGED <<threadVars, active, opening, termVars, sweepVars, bounds,
                   ghosts, untold>>

(* The opening mark clears and everyone waiting on it decides afresh. *)
OpenFinish(o) ==
    LET id == open[o].thread IN
    /\ At(o, "finishing")
    /\ opening' = opening \ {id}
    /\ open' = [p \in Openers |->
                  IF p = o THEN Idle
                  ELSE IF At(p, "waiting") /\ open[p].thread = id
                  THEN [open[p] EXCEPT !.pc = "deciding"] ELSE open[p]]
    /\ UNCHANGED <<threadVars, active, termVars, sweepVars, bounds, ghosts, untold>>

-----------------------------------------------------------------------------
(* Fault: the last terminal is not loaded back. *)
LoadedWithoutLinks ==
    [id \in ThreadIds |-> IF rows[id] = None THEN None
                          ELSE [CoerceRecord(rows[id]) EXCEPT !.terminal = None]]

(* What Load makes of the rows: live claims go back to unknown. *)
Loaded ==
    [id \in ThreadIds |-> IF rows[id] = None THEN None ELSE CoerceRecord(rows[id])]

(***************************************************************************)
(* The server stops at any point and boots again: Load rebuilds the view   *)
(* from the rows and persists the coercion of every live claim.  A resume  *)
(* that was launched and not linked yet is lost track of.                  *)
(***************************************************************************)
Restart ==
    /\ crashes < MaxCrashes
    /\ crashes' = crashes + 1
    /\ rows' = Loaded
    /\ view' = Loaded
    /\ active' = [t \in Terminals |-> None]
    /\ opening' = {}
    /\ open' = [o \in Openers |-> Idle]
    /\ removing' = {}
    /\ sweep' = {} /\ verdict' = NoVerdict
    /\ stray' = stray \cup {open[o].terminal : o \in
                    {p \in Openers : open[p].pc \in {"linking", "discarding"}}}
    /\ untold' = {}
    /\ UNCHANGED <<identities, terms, nextTurn, failures, writer>>

OpenStep(o) ==
    \/ OpenReuse(o) \/ OpenDormant(o) \/ OpenResume(o) \/ OpenLink(o)
    \/ OpenDiscard(o) \/ OpenConverged(o) \/ OpenFinish(o)

Next ==
    \/ \E t \in Terminals :
          \/ CreateTerminal(t) \/ TerminalStatus(t) \/ DeleteTerminal(t)
          \/ TerminalRemoved(t) \/ Deactivate(t) \/ SweepLook(t)
          \/ \E k \in Keys, report \in Reports : ObserveSession(t, k, report)
    \/ \E k \in Keys, report \in Reports : ObserveStatus(k, report)
    \/ SweepStart \/ SweepAct
    \/ \E id \in ThreadIds :
          \/ Delete(id) \/ \E archived \in BOOLEAN : Update(id, archived)
    \/ \E o \in Openers :
          \/ OpenStep(o) \/ OpenGiveUp(o)
          \/ \E id \in ThreadIds : OpenCall(o, id)
    \/ Restart

Spec == Init /\ [][Next]_vars

(***************************************************************************)
(* The sweep's ticker keeps firing, a deletion goes on to TerminalRemoved  *)
(* (it runs detached), and an Open whose request is being served runs on.  *)
(***************************************************************************)
Fairness ==
    /\ WF_vars(SweepStart) /\ WF_vars(SweepAct)
    /\ \A t \in Terminals : WF_vars(SweepLook(t)) /\ WF_vars(TerminalRemoved(t))
    /\ \A o \in Openers : WF_vars(OpenStep(o))

FairSpec == Spec /\ Fairness

-----------------------------------------------------------------------------
(* Properties.                                                             *)

(***************************************************************************)
(* The view never advertises what the database does not hold ("every       *)
(* mutation persists before it changes the view"), across failed writes:   *)
(* the two differ at most in a link to a terminal that is deleted.         *)
(***************************************************************************)
ViewMatchesStore ==
    \A id \in ThreadIds :
        \/ view[id] = rows[id]
        \/ /\ Known(id) /\ view[id].terminal # None
           /\ terms[view[id].terminal] = "deleted"
           /\ rows[id] = [view[id] EXCEPT !.terminal = None]

(***************************************************************************)
(* A conversation has one thread and a thread one conversation: known      *)
(* identities reattach, and deleting a thread forgets its identity         *)
(* (ObserveSession, insert, remove, Load).                                 *)
(***************************************************************************)
OneThreadPerConversation ==
    /\ \A k \in Keys : identities[k] # None =>
          Known(identities[k]) /\ view[identities[k]].key = k
    /\ \A id \in ThreadIds : Known(id) => identities[view[id].key] = id

(***************************************************************************)
(* A thread is open in at most one terminal, and what is open, or about to *)
(* be, is neither deleted nor archived (commit, Update, Delete, Open).     *)
(***************************************************************************)
ActiveOnce ==
    /\ \A id \in ThreadIds : \A t, u \in Holders(id) : t = u
    /\ \A id \in ThreadIds : Held(id) => Known(id) /\ ~view[id].archived
    /\ \A id \in opening : Known(id)

(***************************************************************************)
(* Opening never puts a second writer on a conversation: of the terminals  *)
(* Open resumed a conversation in at most one is up (Open, decideOpen,     *)
(* link), however opens, deletions and lost linkage interleave.  Those are *)
(* not counted that another observation has since taken over, that came up *)
(* beside a terminal already showing the conversation, or that Open        *)
(* reported it could not discard.                                          *)
(***************************************************************************)
NoSecondResume ==
    \A k \in Keys : \A t, u \in Terminals \ stray :
        (writer[t] = k /\ writer[u] = k /\ Up(t) /\ Up(u)) => t = u

(***************************************************************************)
(* Every change a reader can see is announced by an event of its resource  *)
(* (commit, Deactivate, TerminalRemoved): the hub's clients rely on it.    *)
(***************************************************************************)
ChangesAnnounced == untold = {}

(***************************************************************************)
(* Every record is coherent whatever order evidence, coercion and boots    *)
(* come in: no running turn under a faulted session, a completion time     *)
(* exactly on an ended turn, a detail only on an error (turns.go).         *)
(***************************************************************************)
RecordsCoherent ==
    \A id \in ThreadIds : Known(id) => RecordCoherent(view[id])

(***************************************************************************)
(* An ended turn is final, whoever ended it: while the thread's latest     *)
(* turn keeps its id its outcome does not change (applyTurn).              *)
(***************************************************************************)
EndedTurnsFinal ==
    [][\A id \in ThreadIds :
        (/\ Known(id) /\ view[id].turn # None /\ Ended(view[id].turn.state)
         /\ Known(id)' /\ view[id].turn' # None
         /\ view[id].turn.id = view[id].turn.id')
        => view[id].turn.state' = view[id].turn.state]_vars

(***************************************************************************)
(* A live status or a running turn is backed by a terminal that holds the  *)
(* thread: delayed evidence never revives a thread nothing displays, and a *)
(* thread that is let go of is coerced (ObserveStatus, commit, Deactivate, *)
(* TerminalRemoved, Load).                                                 *)
(***************************************************************************)
ClaimsBacked ==
    \A id \in ThreadIds : Known(id) /\ ClaimsLive(view[id]) => Held(id)

(***************************************************************************)
(* Every Open comes back, once new requests stop overtaking it: nobody     *)
(* waits on a mark nobody clears (Open, finish).                           *)
(***************************************************************************)
OpenReturns ==
    <>[][\A o \in Openers : At(o, "idle") => At(o, "idle")']_open
      => \A o \in Openers : ~At(o, "idle") ~> At(o, "idle")

(***************************************************************************)
(* A thread in a terminal that is gone for good is let go of: the sweep    *)
(* retries what the hooks and TerminalRemoved did not do (Sweep).          *)
(***************************************************************************)
GoneTerminalsReleased ==
    \A t \in Terminals :
        (active[t] # None /\ terms[t] \in {"exited", "deleted"}) ~> (active[t] = None)
=============================================================================
