---------------------------- MODULE CodexLaunch -----------------------------
(***************************************************************************)
(* How a Codex terminal is bound to its conversation                       *)
(* (internal/integrations/codex/launch.go).  The shared app-server         *)
(* announces every new thread with its directory and nothing else, so      *)
(* launches in one directory take turns: a launch reserves the directory's *)
(* slot, arms a window, and is bound to the one thread announced in it; a  *)
(* second announcement leaves it untracked.  The model is of one           *)
(* directory; launches in different ones never meet.                       *)
(*                                                                         *)
(* Each terminal's TUI starts one thread, Strangers are threads started in *)
(* the same directory by others.  A thread is announced as "cli", or as    *)
(* "vscode" and told apart by a marker the TUI writes a little later.      *)
(***************************************************************************)
EXTENDS Naturals, FiniteSetTheorems, TLAPS

CONSTANTS
    Terminals,    \* terminals launched in the directory; also their threads
    Strangers,    \* threads of others
    MaxFaults     \* bound: creates that fail, announcements lost, deletions

VARIABLES
    pc,         \* a launch: idle, waiting, reserved, armed, done
    slot,       \* the launch that has the directory, or Nobody
    armed,      \* its window is open: slot.launch is set
    armedSeq,   \* the wire sequence at arming
    expired,    \* the window's time is over
    candidates, \* threads accepted for it
    live,       \* candidates heard working meanwhile
    seq,        \* the wire sequence
    started,    \* threads that exist
    announced,  \* threads announced, and when: their sequence
    polls,      \* announcements whose marker is waited for
    timers,     \* launches whose window timer has yet to fire
    bound,      \* terminal -> the thread it is bound to
    prompted,   \* bindings that know of a prompt
    overheard,  \* history: threads heard working while accepted
    confirmed,  \* history: terminals whose own thread was accepted for them
    early,      \* history: launches closed for no reason of theirs
    faults

launchVars == <<pc, slot, armed, armedSeq, expired, candidates, live, seq, started, announced,
                polls, timers, bound, prompted, overheard, confirmed, early, faults>>
windowVars == <<armed, armedSeq, expired, candidates, live>>
wireVars == <<seq, started, announced, overheard, confirmed>>

Nobody == "nobody"
ThreadIds == Terminals \cup Strangers

TypeOK ==
    /\ pc \in [Terminals -> {"idle", "waiting", "reserved", "armed", "done"}]
    /\ slot \in Terminals \cup {Nobody} /\ armed \in BOOLEAN /\ expired \in BOOLEAN
    /\ armedSeq \in 0 .. Cardinality(ThreadIds) /\ seq \in 0 .. Cardinality(ThreadIds)
    /\ candidates \subseteq ThreadIds /\ live \subseteq candidates
    /\ started \subseteq ThreadIds
    /\ announced \in [ThreadIds -> 0 .. Cardinality(ThreadIds)]
    /\ polls \subseteq ThreadIds /\ timers \subseteq Terminals
    /\ bound \in [Terminals -> ThreadIds \cup {Nobody}]
    /\ prompted \subseteq Terminals /\ early \subseteq Terminals

Init ==
    /\ pc = [t \in Terminals |-> "idle"]
    /\ slot = Nobody /\ armed = FALSE /\ armedSeq = 0 /\ expired = FALSE
    /\ candidates = {} /\ live = {} /\ seq = 0 /\ started = {}
    /\ announced = [c \in ThreadIds |-> 0] /\ polls = {} /\ timers = {}
    /\ bound = [t \in Terminals |-> Nobody] /\ prompted = {} /\ overheard = {} /\ confirmed = {}
    /\ early = {}
    /\ faults = 0

Fault == faults < MaxFaults /\ faults' = faults + 1
Goto(t, next) == pc' = [pc EXCEPT ![t] = next]

-----------------------------------------------------------------------------
(* A launch.                                                               *)

(* prepareLaunch: reserve waits while another launch has the directory. *)
Prepare(t) ==
    /\ pc[t] = "idle" /\ Goto(t, "waiting")
    /\ UNCHANGED <<slot, windowVars, wireVars, polls, timers, bound, prompted, early, faults>>

Reserve(t) ==
    /\ pc[t] = "waiting" /\ slot = Nobody
    /\ slot' = t /\ Goto(t, "reserved")
    /\ UNCHANGED <<windowVars, wireVars, polls, timers, bound, prompted, early, faults>>

(* Command arms the window: only frames received from now on count. *)
Arm(t) ==
    /\ pc[t] = "reserved" /\ slot = t
    /\ armed' = TRUE /\ armedSeq' = seq /\ expired' = FALSE /\ candidates' = {} /\ live' = {}
    /\ timers' = timers \cup {t} /\ Goto(t, "armed")
    /\ UNCHANGED <<slot, wireVars, polls, bound, prompted, early, faults>>

(* closeLaunch: one candidate binds, anything else does not; the directory *)
(* is free either way.                                                     *)
Close(t, binds) ==
    /\ slot' = Nobody /\ armed' = FALSE /\ armedSeq' = 0 /\ expired' = FALSE
    /\ candidates' = {} /\ live' = {} /\ Goto(t, "done")
    /\ IF binds
       THEN \E c \in candidates :
               /\ bound' = [bound EXCEPT ![t] = c]
               /\ prompted' = IF c \in live THEN prompted \cup {t} ELSE prompted
       ELSE UNCHANGED <<bound, prompted>>

(* Fault: the timer closes whatever launch has the directory. *)
ItsOwnAny(t) == armed

(* The launch the timer was set for is still the directory's. *)
ItsOwn(t) == armed /\ slot = t

(* The window's timer fires; it may find its launch closed already. *)
Timer(t) ==
    /\ t \in timers /\ (slot = t /\ armed) => expired
    /\ timers' = timers \ {t}
    /\ \/ /\ ItsOwn(t) /\ Close(slot, Cardinality(candidates) = 1)
          /\ early' = IF slot = t THEN early ELSE early \cup {slot}
       \/ /\ ~ItsOwn(t)
          /\ UNCHANGED <<slot, windowVars, pc, bound, prompted, early>>
    /\ UNCHANGED <<wireVars, polls, faults>>

Expire ==
    /\ armed /\ ~expired /\ expired' = TRUE
    /\ UNCHANGED <<pc, slot, armed, armedSeq, candidates, live, wireVars, polls, timers, bound,
                   prompted, early, faults>>

(* Fault: a launch that failed before its window was armed keeps the       *)
(* directory.                                                              *)
AbandonArmed(t) ==
    /\ slot = t /\ pc[t] \in {"reserved", "armed"} /\ Fault
    /\ IF armed THEN Close(t, FALSE)
       ELSE Goto(t, "done") /\ UNCHANGED <<slot, windowVars, bound, prompted>>
    /\ UNCHANGED <<wireVars, polls, timers, early>>

(* The create fails: abandon, before or after the window was armed.        *)
Abandon(t) ==
    /\ slot = t /\ pc[t] \in {"reserved", "armed"} /\ Fault
    /\ Close(t, FALSE)
    /\ UNCHANGED <<wireVars, polls, timers, early>>

(* The caller gives up while it waits for the directory. *)
StopWaiting(t) ==
    /\ pc[t] = "waiting" /\ Fault /\ Goto(t, "done")
    /\ UNCHANGED <<slot, windowVars, wireVars, polls, timers, bound, prompted, early>>

(* Forget: the terminal is deleted, its launch pending or bound. *)
Forget(t) ==
    /\ Fault
    /\ \/ slot = t /\ armed /\ Close(t, FALSE)
       \/ /\ bound[t] # Nobody /\ bound' = [bound EXCEPT ![t] = Nobody]
          /\ UNCHANGED <<slot, windowVars, pc, prompted>>
    /\ UNCHANGED <<wireVars, polls, timers, early>>

-----------------------------------------------------------------------------
(* The app-server's announcements.                                         *)

(* The terminal's TUI, once launched, or a stranger, starts its thread. *)
StartThread(c) ==
    /\ c \notin started
    /\ c \in Terminals => pc[c] \in {"armed", "done"}
    /\ started' = started \cup {c}
    /\ UNCHANGED <<pc, slot, windowVars, seq, announced, overheard, confirmed, polls, timers, bound,
                   prompted, early, faults>>

(* The announcement was received in the window that is open now. *)
Matches(at) == armed /\ at > armedSeq

(* Fault: a second candidate takes the first one's place. *)
AcceptLast(c, at) ==
    /\ candidates' = IF Matches(at) THEN {c} ELSE candidates
    /\ live' = live \cap candidates'
    /\ UNCHANGED <<slot, armed, armedSeq, expired, pc, bound, prompted>>

(* acceptCandidate: a second one ends the window. *)
Accept(c, at) ==
    \/ /\ Matches(at) /\ candidates # {}
       /\ Close(slot, FALSE)
    \/ /\ Matches(at) => candidates = {}
       /\ candidates' = IF Matches(at) THEN {c} ELSE candidates
       /\ UNCHANGED <<slot, armed, armedSeq, expired, live, pc, bound, prompted>>

(* The read loop receives thread/started: a "cli" announcement is accepted *)
(* at once, a "vscode" one when its marker is seen.  One that comes after  *)
(* the window's time is no candidate.                                      *)
Announce(c, source) ==
    /\ c \in started /\ announced[c] = 0
    /\ seq' = seq + 1
    /\ announced' = [announced EXCEPT ![c] = seq']
    /\ \/ /\ source = "cli" /\ ~expired /\ Accept(c, seq')
          /\ confirmed' = IF slot = c /\ armed THEN confirmed \cup {c} ELSE confirmed
          /\ UNCHANGED polls
       \/ /\ source = "vscode" \/ expired
          /\ polls' = IF source = "vscode" /\ armed /\ ~expired THEN polls \cup {c} ELSE polls
          /\ UNCHANGED <<slot, windowVars, pc, bound, prompted, confirmed>>
    /\ UNCHANGED <<started, overheard, timers, early, faults>>

(* The announcement is lost: the connection was down. *)
Lose(c) ==
    /\ c \in started /\ announced[c] = 0 /\ Fault
    /\ announced' = [announced EXCEPT ![c] = Cardinality(ThreadIds)]
    /\ UNCHANGED <<pc, slot, windowVars, seq, started, overheard, confirmed, polls, timers, bound,
                   prompted, early>>

(* The marker is there: the announcement is matched again, now. *)
Marker(c) ==
    /\ c \in polls /\ polls' = polls \ {c}
    /\ Accept(c, announced[c])
    /\ confirmed' = IF slot = c /\ Matches(announced[c]) THEN confirmed \cup {c} ELSE confirmed
    /\ UNCHANGED <<seq, started, announced, overheard, timers, early, faults>>

(* No marker within the grace, or the thread is no TUI's. *)
NoMarker(c) ==
    /\ c \in polls /\ polls' = polls \ {c}
    /\ c \in Strangers \/ faults < MaxFaults
    /\ faults' = IF c \in Strangers THEN faults ELSE faults + 1
    /\ UNCHANGED <<pc, slot, windowVars, wireVars, timers, bound, prompted, early>>

(* Fault: a prompt before the binding is lost. *)
HeardLiveNot(c) == live

(* candidateHeardLive. *)
HeardLive(c) == live \cup (candidates \cap {c})

(* A candidate is heard working: a prompt before the binding. *)
Working(c) ==
    /\ c \in candidates \ overheard
    /\ live' = HeardLive(c) /\ overheard' = overheard \cup {c}
    /\ UNCHANGED <<pc, slot, armed, armedSeq, expired, candidates, seq, started, announced,
                   confirmed, polls, timers, bound, prompted, early, faults>>

Next ==
    \/ \E t \in Terminals :
          Prepare(t) \/ Reserve(t) \/ Arm(t) \/ Timer(t) \/ Abandon(t) \/ StopWaiting(t) \/ Forget(t)
    \/ Expire
    \/ \E c \in ThreadIds :
          \/ StartThread(c) \/ Lose(c) \/ Marker(c) \/ NoMarker(c) \/ Working(c)
          \/ \E source \in {"cli", "vscode"} : Announce(c, source)

Spec == Init /\ [][Next]_launchVars

FairSpec ==
    /\ Spec
    /\ WF_launchVars(Expire)
    /\ \A t \in Terminals : /\ WF_launchVars(Reserve(t)) /\ WF_launchVars(Arm(t))
                             /\ WF_launchVars(Timer(t))

-----------------------------------------------------------------------------
(* Properties.                                                             *)

(***************************************************************************)
(* Two terminals are never bound to one thread, and a terminal whose own   *)
(* thread was accepted in its window is bound to no other -- though late   *)
(* announcements fall into the next launch's window and markers are polled *)
(* for across it (matchesPendingLaunch, acceptCandidate).                  *)
(***************************************************************************)
BindingsDistinct ==
    \A t \in Terminals : bound[t] # Nobody =>
        /\ \A u \in Terminals \ {t} : bound[u] # bound[t]
        /\ t \in confirmed => bound[t] = t

(***************************************************************************)
(* A launch's window is closed by its own timer, a second candidate, its   *)
(* abort or its terminal's deletion; never by the timer of the launch      *)
(* before it (closeLaunch "can all race to close the same launch").        *)
(***************************************************************************)
WindowHonoured == early = {}

(***************************************************************************)
(* A prompt typed before the binding is known to it, so that the thread is *)
(* recorded though its turn is over (candidateHeardLive).                  *)
(***************************************************************************)
PromptKnown == \A t \in Terminals : bound[t] \in overheard => t \in prompted

(***************************************************************************)
(* A launch waiting for the directory gets its turn, whatever becomes of   *)
(* the one before it (reserve, release).                                   *)
(***************************************************************************)
Waits(t) == pc[t] = "waiting"
TurnComes == \A t \in Terminals : Waits(t) ~> ~Waits(t)

(***************************************************************************)
(* Launches bind right: no two terminals to one thread and none to         *)
(* another's when its own was accepted, a window is closed only by its own *)
(* timer, and a prompt typed before the binding is known to it             *)
(* (matchesPendingLaunch, acceptCandidate, closeLaunch,                    *)
(* candidateHeardLive).                                                    *)
(***************************************************************************)
LaunchesBind ==
    /\ TypeOK
    /\ BindingsDistinct
    /\ WindowHonoured
    /\ PromptKnown

-----------------------------------------------------------------------------
(* Proofs, for any terminals and strangers and any number of failures.     *)

(* What the code's identifiers are like: finitely many at a time, and the  *)
(* empty one is nobody's.                                                  *)
Identifiers == IsFiniteSet(ThreadIds) /\ Nobody \notin ThreadIds

(* The inductive invariant.  A launch's progress says who has the          *)
(* directory and whether its window is open ...                            *)
SlotSound ==
    /\ \A t \in Terminals :
          /\ pc[t] = "reserved" => slot = t /\ ~armed
          /\ pc[t] = "armed" => slot = t /\ armed
          /\ pc[t] # "done" => bound[t] = Nobody
          /\ t \in confirmed => pc[t] \in {"armed", "done"}
    /\ slot # Nobody => pc[slot] \in {"reserved", "armed"}
    /\ armed => slot \in Terminals /\ pc[slot] = "armed"

(* ... and the wire sequence keeps the windows apart: what was heard or    *)
(* bound in an earlier one was announced before this one opened.           *)
Announced == {c \in ThreadIds : announced[c] # 0}

WindowSound ==
    /\ armedSeq <= seq
    /\ candidates # {} => armed
    /\ \A c \in candidates : announced[c] > armedSeq
    /\ armed /\ slot \in confirmed => candidates = {slot}
    /\ candidates \cap overheard \subseteq live
    /\ \A c \in overheard \cup polls \cup candidates : announced[c] \in 1 .. seq
    /\ armed => \A c \in overheard : announced[c] > armedSeq => c \in candidates
    /\ \A t \in Terminals : bound[t] # Nobody =>
          /\ announced[bound[t]] \in 1 .. seq
          /\ armed => announced[bound[t]] <= armedSeq

LaunchInv ==
    /\ LaunchesBind /\ SlotSound /\ WindowSound
    /\ overheard \subseteq ThreadIds /\ confirmed \subseteq Terminals
    /\ seq <= Cardinality(Announced)

(* What happens on the wire only adds to it. *)
WireGrows ==
    /\ seq' \in seq .. Cardinality(ThreadIds)
    /\ announced' \in [ThreadIds -> 0 .. Cardinality(ThreadIds)]
    /\ \A c \in ThreadIds : announced[c] # 0 => announced'[c] = announced[c]
    /\ seq' <= Cardinality(Announced)'
    /\ polls' \subseteq ThreadIds /\ \A c \in polls' : announced'[c] \in 1 .. seq'
    /\ started' \subseteq ThreadIds

(* A thread that was announced, stays so at the same place. *)
LEMMA WireTypes ==
    ASSUME Identifiers, LaunchInv
    PROVE  /\ seq \in Nat /\ armedSeq \in Nat /\ Cardinality(ThreadIds) \in Nat
           /\ seq <= Cardinality(ThreadIds)
           /\ \A c \in ThreadIds : announced[c] \in Nat
           /\ overheard \subseteq ThreadIds /\ candidates \subseteq ThreadIds
           /\ live \subseteq candidates
           /\ \A t \in Terminals : bound[t] \in ThreadIds \cup {Nobody}
           /\ Nobody \notin Terminals
  <1>1. Cardinality(ThreadIds) \in Nat
    BY FS_CardinalityType DEF Identifiers
  <1> QED
    BY <1>1 DEF LaunchInv, LaunchesBind, TypeOK, Identifiers, ThreadIds

(* Nothing on the wire moved. *)
LEMMA WireStays ==
    ASSUME Identifiers, LaunchInv, UNCHANGED <<seq, announced>>, polls' \subseteq polls,
           started' \subseteq ThreadIds
    PROVE  WireGrows
  <1>1. Announced' = Announced
    BY DEF Announced
  <1> QED
    BY <1>1, WireTypes DEF LaunchInv, LaunchesBind, TypeOK, WindowSound, WireGrows

(* A window, and what is bound, outlive what is added to the wire. *)
LEMMA WindowStays ==
    ASSUME Identifiers, LaunchInv, WireGrows,
           UNCHANGED <<slot, armed, armedSeq, candidates, live, overheard, confirmed, early>>,
           expired' \in BOOLEAN, timers' \subseteq Terminals, prompted' = prompted,
           pc' \in [Terminals -> {"idle", "waiting", "reserved", "armed", "done"}],
           \A t \in Terminals : pc'[t] # pc[t] =>
               /\ pc[t] \in {"idle", "waiting"}
               /\ pc'[t] \in {"waiting", "done"},
           bound' \in [Terminals -> ThreadIds \cup {Nobody}],
           \A t \in Terminals : bound'[t] \in {bound[t], Nobody}
    PROVE  LaunchInv'
  <1> USE WireTypes DEF LaunchInv, LaunchesBind
  <1>1. TypeOK'
    BY DEF TypeOK, WireGrows
  <1>2. BindingsDistinct'
    BY DEF BindingsDistinct
  <1>3. WindowHonoured' /\ PromptKnown'
    BY DEF WindowHonoured, PromptKnown, Identifiers
  <1>4. SlotSound'
    BY DEF SlotSound, TypeOK
  <1>5. WindowSound'
    <2>1. seq' \in Nat /\ seq <= seq'
      BY DEF WireGrows
    <2>2. \A c \in ThreadIds : announced[c] \in 1 .. seq => announced'[c] = announced[c]
      BY DEF WireGrows
    <2>3. \A c \in overheard \cup candidates : announced'[c] = announced[c] /\ announced[c] \in 1 .. seq
      BY <2>2 DEF WindowSound
    <2>4. \A c \in polls' : announced'[c] \in 1 .. seq'
      BY DEF WireGrows
    <2>5. \A t \in Terminals : bound'[t] # Nobody =>
             /\ bound'[t] = bound[t] /\ announced'[bound'[t]] = announced[bound[t]]
             /\ announced[bound[t]] \in 1 .. seq /\ (armed => announced[bound[t]] <= armedSeq)
      BY <2>2 DEF WindowSound
    <2> QED
      BY <2>1, <2>3, <2>4, <2>5 DEF WindowSound
  <1> QED
    BY <1>1, <1>2, <1>3, <1>4, <1>5 DEF WireGrows

(* What closing a launch's window does. *)
LEMMA Closed ==
    ASSUME Identifiers, LaunchInv, NEW t \in Terminals, NEW binds \in BOOLEAN, Close(t, binds)
    PROVE  /\ slot' = Nobody /\ armed' = FALSE /\ armedSeq' = 0 /\ expired' = FALSE
           /\ candidates' = {} /\ live' = {}
           /\ pc' = [pc EXCEPT ![t] = "done"]
           /\ pc'[t] = "done" /\ \A u \in Terminals \ {t} : pc'[u] = pc[u]
           /\ pc' \in [Terminals -> {"idle", "waiting", "reserved", "armed", "done"}]
           /\ ~binds => UNCHANGED <<bound, prompted>>
           /\ binds => \E c \in candidates :
                  /\ bound' = [bound EXCEPT ![t] = c]
                  /\ prompted' = IF c \in live THEN prompted \cup {t} ELSE prompted
    BY DEF Close, Goto, LaunchInv, LaunchesBind, TypeOK

(* A window that closes without a binding. *)
LEMMA ClosedUnbound ==
    ASSUME Identifiers, LaunchInv, NEW t \in Terminals, slot = t, Close(t, FALSE), WireGrows,
           UNCHANGED <<overheard, early>>, timers' \subseteq Terminals,
           confirmed' \subseteq confirmed \cup {t}
    PROVE  LaunchInv'
  <1> USE WireTypes DEF LaunchInv, LaunchesBind
  <1>1. /\ slot' = Nobody /\ armed' = FALSE /\ armedSeq' = 0 /\ expired' = FALSE
        /\ candidates' = {} /\ live' = {}
        /\ pc'[t] = "done" /\ (\A u \in Terminals \ {t} : pc'[u] = pc[u])
        /\ pc' \in [Terminals -> {"idle", "waiting", "reserved", "armed", "done"}]
        /\ UNCHANGED <<bound, prompted>>
    BY Closed
  <1>2. pc[t] \in {"reserved", "armed"} /\ bound[t] = Nobody
    BY DEF SlotSound
  <1>3. TypeOK'
    <2>1. armed' \in BOOLEAN /\ expired' \in BOOLEAN
      BY <1>1
    <2> QED
      BY <1>1, <2>1 DEF TypeOK, WireGrows
  <1>4. BindingsDistinct'
    BY <1>1, <1>2 DEF BindingsDistinct
  <1>5. WindowHonoured' /\ PromptKnown'
    BY <1>1 DEF WindowHonoured, PromptKnown
  <1>6. SlotSound'
    BY <1>1, <1>2 DEF SlotSound
  <1>7. WindowSound'
    <2>1. seq' \in Nat /\ seq <= seq'
      BY DEF WireGrows
    <2>2. \A c \in ThreadIds : announced[c] \in 1 .. seq => announced'[c] = announced[c]
      BY DEF WireGrows
    <2>3. \A c \in overheard : announced'[c] \in 1 .. seq'
      BY <2>1, <2>2 DEF WindowSound
    <2>4. \A c \in polls' : announced'[c] \in 1 .. seq'
      BY DEF WireGrows
    <2>5. \A u \in Terminals : bound'[u] # Nobody => announced'[bound'[u]] \in 1 .. seq'
      BY <1>1, <2>1, <2>2 DEF WindowSound
    <2> QED
      BY <1>1, <2>1, <2>3, <2>4, <2>5 DEF WindowSound
  <1> QED
    BY <1>1, <1>3, <1>4, <1>5, <1>6, <1>7 DEF WireGrows

(* An announcement in the open window is its first candidate; it was not   *)
(* heard before, and no terminal has it.                                   *)
LEMMA TakenFirst ==
    ASSUME Identifiers, LaunchInv, WireGrows, NEW c \in ThreadIds,
           armed, candidates = {}, candidates' = {c}, announced'[c] > armedSeq,
           announced'[c] \in 1 .. seq', announced[c] \in {0, announced'[c]},
           UNCHANGED <<slot, armed, armedSeq, expired, live, pc, bound, prompted, overheard,
                       early, timers>>,
           confirmed' = IF slot = c THEN confirmed \cup {c} ELSE confirmed
    PROVE  LaunchInv'
  <1> USE WireTypes DEF LaunchInv, LaunchesBind
  <1>1. live = {} /\ slot \in Terminals /\ pc[slot] = "armed" /\ bound[slot] = Nobody
        /\ slot \notin confirmed
    BY DEF SlotSound, WindowSound
  <1>2. TypeOK'
    BY <1>1 DEF TypeOK, WireGrows
  <1>3. seq' \in Nat /\ seq <= seq'
    BY DEF WireGrows
  <1>4. \A d \in ThreadIds : announced[d] \in 1 .. seq => announced'[d] = announced[d]
    BY DEF WireGrows
  <1>5. c \notin overheard
    BY <1>4 DEF WindowSound
  <1>6. BindingsDistinct'
    BY <1>1 DEF BindingsDistinct
  <1>7. WindowHonoured' /\ PromptKnown'
    BY DEF WindowHonoured, PromptKnown
  <1>8. SlotSound'
    BY <1>1 DEF SlotSound
  <1>9. WindowSound'
    <2>1. \A d \in overheard : announced'[d] = announced[d] /\ announced[d] \in 1 .. seq
      BY <1>4 DEF WindowSound
    <2>2. \A d \in polls' : announced'[d] \in 1 .. seq'
      BY DEF WireGrows
    <2>3. \A u \in Terminals : bound'[u] # Nobody =>
             announced'[bound'[u]] \in 1 .. seq' /\ announced'[bound'[u]] <= armedSeq
      BY <1>3, <1>4 DEF WindowSound
    <2> QED
      BY <1>1, <1>3, <1>5, <2>1, <2>2, <2>3 DEF WindowSound
  <1> QED
    BY <1>1, <1>2, <1>6, <1>7, <1>8, <1>9 DEF WireGrows

(* One more thread is known on the wire. *)
LEMMA AnnouncedCount ==
    ASSUME Identifiers, LaunchInv, NEW c \in ThreadIds, announced[c] = 0,
           NEW at \in 1 .. Cardinality(ThreadIds), announced' = [announced EXCEPT ![c] = at]
    PROVE  /\ Cardinality(Announced') = Cardinality(Announced) + 1
           /\ Cardinality(Announced) \in Nat
           /\ Cardinality(Announced') <= Cardinality(ThreadIds)
           /\ announced' \in [ThreadIds -> 0 .. Cardinality(ThreadIds)]
  <1> USE WireTypes
  <1>1. announced \in [ThreadIds -> 0 .. Cardinality(ThreadIds)]
    BY DEF LaunchInv, LaunchesBind, TypeOK
  <1>2. Announced' = Announced \cup {c} /\ c \notin Announced /\ Announced' \subseteq ThreadIds
    BY <1>1 DEF Announced
  <1>3. IsFiniteSet(Announced) /\ IsFiniteSet(Announced')
    BY <1>2, FS_Subset DEF Identifiers
  <1>4. Cardinality(Announced') = Cardinality(Announced) + 1 /\ Cardinality(Announced) \in Nat
    BY <1>2, <1>3, FS_AddElement, FS_CardinalityType
  <1>5. Cardinality(Announced') <= Cardinality(ThreadIds)
    BY <1>2, FS_Subset DEF Identifiers
  <1> QED
    BY <1>1, <1>4, <1>5

(* A thread's announcement comes. *)
LEMMA AnnounceKeeps ==
    ASSUME Identifiers, LaunchInv, NEW c \in ThreadIds, NEW source \in {"cli", "vscode"},
           Announce(c, source)
    PROVE  LaunchInv'
  <1> USE WireTypes
  <1>1. /\ announced[c] = 0 /\ seq' = seq + 1
        /\ announced' = [announced EXCEPT ![c] = seq']
        /\ UNCHANGED <<started, overheard, timers, early, faults>>
    BY DEF Announce
  <1>2. seq' \in 1 .. Cardinality(ThreadIds)
    <2>1. Announced \subseteq ThreadIds /\ c \notin Announced /\ IsFiniteSet(Announced \cup {c})
      BY <1>1, FS_Subset DEF Announced, Identifiers
    <2>2. IsFiniteSet(Announced) /\ Announced \cup {c} \subseteq ThreadIds
      BY <2>1, FS_Subset
    <2>3. /\ Cardinality(Announced \cup {c}) = Cardinality(Announced) + 1
          /\ Cardinality(Announced) \in Nat
          /\ Cardinality(Announced \cup {c}) <= Cardinality(ThreadIds)
      <3>1. Cardinality(Announced \cup {c}) = Cardinality(Announced) + 1
        BY <2>1, <2>2, FS_AddElement
      <3>2. Cardinality(Announced) \in Nat
        BY <2>2, FS_CardinalityType
      <3>3. Cardinality(Announced \cup {c}) <= Cardinality(ThreadIds)
        BY <2>2, FS_Subset DEF Identifiers
      <3> QED
        BY <3>1, <3>2, <3>3
    <2> QED
      BY <1>1, <2>3 DEF LaunchInv
  <1>3. /\ Cardinality(Announced') = Cardinality(Announced) + 1 /\ Cardinality(Announced) \in Nat
        /\ announced' \in [ThreadIds -> 0 .. Cardinality(ThreadIds)]
    BY <1>1, <1>2, AnnouncedCount
  <1>4. announced'[c] = seq' /\ \A d \in ThreadIds \ {c} : announced'[d] = announced[d]
    BY <1>1 DEF LaunchInv, LaunchesBind, TypeOK
  <1>5. polls' \subseteq polls \cup {c}
    BY DEF Announce
  <1>6. WireGrows
    <2>1. \A d \in polls : announced[d] \in 1 .. seq /\ d \in ThreadIds
      BY DEF LaunchInv, WindowSound, LaunchesBind, TypeOK
    <2>2. \A d \in polls' : announced'[d] \in 1 .. seq' /\ d \in ThreadIds
      BY <1>1, <1>2, <1>4, <1>5, <2>1
    <2>3. started' \subseteq ThreadIds
      BY <1>1 DEF LaunchInv, LaunchesBind, TypeOK
    <2>4. seq' <= Cardinality(Announced)'
      BY <1>1, <1>3 DEF LaunchInv
    <2> QED
      BY <1>1, <1>2, <1>3, <1>4, <2>2, <2>3, <2>4 DEF WireGrows
  <1>7. CASE /\ Accept(c, seq')
             /\ confirmed' = IF slot = c /\ armed THEN confirmed \cup {c} ELSE confirmed
    <2>1. armed => Matches(seq')
      BY <1>1 DEF Matches, LaunchInv, WindowSound
    <2>2. CASE armed /\ candidates # {}
      <3>1. Close(slot, FALSE)
        BY <1>7, <2>1, <2>2 DEF Accept
      <3>2. slot \in Terminals /\ confirmed' \subseteq confirmed \cup {slot}
        BY <1>7, <2>2 DEF LaunchInv, SlotSound
      <3> QED
        BY <1>1, <1>6, <3>1, <3>2, ClosedUnbound DEF LaunchInv, LaunchesBind, TypeOK
    <2>3. CASE armed /\ candidates = {}
      <3>1. candidates' = {c}
            /\ UNCHANGED <<slot, armed, armedSeq, expired, live, pc, bound, prompted>>
        BY <1>7, <2>1, <2>3 DEF Accept
      <3>2. confirmed' = IF slot = c THEN confirmed \cup {c} ELSE confirmed
        BY <1>7, <2>3
      <3>3. /\ announced'[c] > armedSeq /\ announced'[c] \in 1 .. seq'
            /\ announced[c] \in {0, announced'[c]}
        BY <1>1, <1>2, <1>4, <2>1, <2>3 DEF Matches
      <3> QED
        BY <1>1, <1>6, <2>3, <3>1, <3>2, <3>3, TakenFirst
    <2>4. CASE ~armed
      <3>1. UNCHANGED <<slot, armed, armedSeq, expired, candidates, live, pc, bound,
                           prompted, confirmed>>
        BY <1>7, <2>4 DEF Accept, Matches
      <3> QED
        BY <1>1, <1>6, <3>1, WindowStays DEF LaunchInv, LaunchesBind, TypeOK
    <2> QED
      BY <2>2, <2>3, <2>4
  <1>8. CASE UNCHANGED <<slot, windowVars, pc, bound, prompted, confirmed>>
    BY <1>1, <1>6, <1>8, WindowStays DEF LaunchInv, LaunchesBind, TypeOK, windowVars
  <1> QED
    BY <1>7, <1>8 DEF Announce

(* A marker is there: the announcement counts for the window it came in. *)
LEMMA MarkerKeeps ==
    ASSUME Identifiers, LaunchInv, NEW c \in ThreadIds, Marker(c)
    PROVE  LaunchInv'
  <1> USE WireTypes
  <1>1. /\ polls' \subseteq polls /\ Accept(c, announced[c])
        /\ confirmed' = IF slot = c /\ Matches(announced[c]) THEN confirmed \cup {c}
                        ELSE confirmed
        /\ UNCHANGED <<seq, started, announced, overheard, timers, early, faults>>
        /\ announced[c] \in 1 .. seq
    BY DEF Marker, LaunchInv, WindowSound
  <1>2. WireGrows
    BY <1>1, WireStays DEF LaunchInv, LaunchesBind, TypeOK
  <1>3. CASE Matches(announced[c]) /\ candidates # {}
    <2>1. slot \in Terminals /\ Close(slot, FALSE) /\ confirmed' \subseteq confirmed \cup {slot}
      BY <1>1, <1>3 DEF Accept, Matches, LaunchInv, SlotSound
    <2> QED
      BY <1>1, <1>2, <2>1, ClosedUnbound DEF LaunchInv, LaunchesBind, TypeOK
  <1>4. CASE Matches(announced[c]) /\ candidates = {}
    <2>1. /\ candidates' = {c} /\ armed
          /\ UNCHANGED <<slot, armed, armedSeq, expired, live, pc, bound, prompted>>
          /\ confirmed' = IF slot = c THEN confirmed \cup {c} ELSE confirmed
          /\ announced'[c] > armedSeq /\ announced'[c] \in 1 .. seq'
      BY <1>1, <1>4 DEF Accept, Matches
    <2> QED
      BY <1>1, <1>2, <1>4, <2>1, TakenFirst
  <1>5. CASE ~Matches(announced[c])
    <2>1. UNCHANGED <<slot, armed, armedSeq, expired, candidates, live, pc, bound,
                         prompted, confirmed>>
      BY <1>1, <1>5 DEF Accept
    <2> QED
      BY <1>1, <1>2, <2>1, WindowStays DEF LaunchInv, LaunchesBind, TypeOK
  <1> QED
    BY <1>3, <1>4, <1>5

(* The rest of what happens on the wire. *)
LEMMA LoseKeeps ==
    ASSUME Identifiers, LaunchInv, NEW c \in ThreadIds, Lose(c)
    PROVE  LaunchInv'
  <1> USE WireTypes
  <1> DEFINE last == Cardinality(ThreadIds)
  <1>1. /\ announced[c] = 0 /\ announced' = [announced EXCEPT ![c] = last]
        /\ UNCHANGED <<pc, slot, windowVars, seq, started, overheard, confirmed, polls, timers,
                       bound, prompted, early>>
    BY DEF Lose
  <1>2. last \in 1 .. Cardinality(ThreadIds)
    BY FS_EmptySet DEF Identifiers
  <1>3. /\ Cardinality(Announced') = Cardinality(Announced) + 1 /\ Cardinality(Announced) \in Nat
        /\ announced' \in [ThreadIds -> 0 .. Cardinality(ThreadIds)]
    BY <1>1, <1>2, AnnouncedCount
  <1>4. \A d \in ThreadIds \ {c} : announced'[d] = announced[d]
    BY <1>1 DEF LaunchInv, LaunchesBind, TypeOK
  <1>5. WireGrows
    <2>1. \A d \in polls' : announced'[d] \in 1 .. seq' /\ d \in ThreadIds
      BY <1>1, <1>4 DEF LaunchInv, WindowSound, LaunchesBind, TypeOK
    <2>2. started' \subseteq ThreadIds
      BY <1>1 DEF LaunchInv, LaunchesBind, TypeOK
    <2>3. seq' <= Cardinality(Announced)'
      BY <1>1, <1>3 DEF LaunchInv
    <2> QED
      BY <1>1, <1>3, <1>4, <2>1, <2>2, <2>3 DEF WireGrows
  <1> QED
    BY <1>1, <1>5, WindowStays DEF LaunchInv, LaunchesBind, TypeOK, windowVars

LEMMA OthersKeep ==
    ASSUME Identifiers, LaunchInv,
           \/ \E c \in ThreadIds : StartThread(c) \/ NoMarker(c)
           \/ Expire
           \/ \E t \in Terminals : Prepare(t) \/ StopWaiting(t)
           \/ UNCHANGED launchVars
    PROVE  LaunchInv'
  <1> USE WireTypes
  <1>1. /\ UNCHANGED <<slot, armed, armedSeq, candidates, live, seq, announced, overheard, confirmed,
                       early, timers, bound, prompted>>
        /\ polls' \subseteq polls /\ started' \subseteq ThreadIds
    BY DEF StartThread, NoMarker, Expire, Prepare, StopWaiting, launchVars, windowVars, wireVars,
           LaunchInv, LaunchesBind, TypeOK
  <1>2. expired' \in BOOLEAN
    <2>1. expired' = expired \/ expired' = TRUE
      BY DEF StartThread, NoMarker, Expire, Prepare, StopWaiting, launchVars, windowVars
    <2> QED
      BY <2>1 DEF LaunchInv, LaunchesBind, TypeOK
  <1>3. /\ pc' \in [Terminals -> {"idle", "waiting", "reserved", "armed", "done"}]
        /\ \A t \in Terminals : pc'[t] # pc[t] =>
               /\ pc[t] \in {"idle", "waiting"}
               /\ pc'[t] \in {"waiting", "done"}
    BY DEF StartThread, NoMarker, Expire, Prepare, StopWaiting, launchVars, Goto,
           LaunchInv, LaunchesBind, TypeOK
  <1>4. WireGrows
    BY <1>1, WireStays
  <1> QED
    BY <1>1, <1>2, <1>3, <1>4, WindowStays DEF LaunchInv, LaunchesBind, TypeOK

(* The directory is given to one launch at a time. *)
LEMMA ReserveKeeps ==
    ASSUME Identifiers, LaunchInv, NEW t \in Terminals, Reserve(t)
    PROVE  LaunchInv'
  <1> USE WireTypes DEF LaunchInv, LaunchesBind
  <1>1. /\ pc[t] = "waiting" /\ slot = Nobody /\ slot' = t /\ pc' = [pc EXCEPT ![t] = "reserved"]
        /\ UNCHANGED <<armed, armedSeq, expired, candidates, live, seq, started, announced, overheard,
                       confirmed, polls, timers, bound, prompted, early>>
    BY DEF Reserve, Goto, windowVars, wireVars
  <1>2. /\ pc'[t] = "reserved" /\ (\A u \in Terminals \ {t} : pc'[u] = pc[u])
        /\ pc' \in [Terminals -> {"idle", "waiting", "reserved", "armed", "done"}]
    BY <1>1 DEF TypeOK
  <1>3. ~armed
    BY <1>1 DEF SlotSound
  <1>4. TypeOK'
    BY <1>1, <1>2 DEF TypeOK
  <1>5. BindingsDistinct' /\ WindowHonoured' /\ PromptKnown'
    BY <1>1 DEF BindingsDistinct, WindowHonoured, PromptKnown
  <1>6. SlotSound'
    BY <1>1, <1>2, <1>3 DEF SlotSound
  <1>7. WindowSound' /\ seq' <= Cardinality(Announced)'
    BY <1>1, <1>3 DEF WindowSound, Announced
  <1> QED
    BY <1>1, <1>4, <1>5, <1>6, <1>7

(* The window opens after everything that was heard so far. *)
LEMMA ArmKeeps ==
    ASSUME Identifiers, LaunchInv, NEW t \in Terminals, Arm(t)
    PROVE  LaunchInv'
  <1> USE WireTypes DEF LaunchInv, LaunchesBind
  <1>1. /\ pc[t] = "reserved" /\ slot = t /\ pc' = [pc EXCEPT ![t] = "armed"]
        /\ armed' = TRUE /\ armedSeq' = seq /\ expired' = FALSE /\ candidates' = {} /\ live' = {}
        /\ timers' = timers \cup {t}
        /\ UNCHANGED <<slot, seq, started, announced, overheard, confirmed, polls, bound, prompted,
                       early>>
    BY DEF Arm, Goto, wireVars
  <1>2. /\ pc'[t] = "armed" /\ (\A u \in Terminals \ {t} : pc'[u] = pc[u])
        /\ pc' \in [Terminals -> {"idle", "waiting", "reserved", "armed", "done"}]
    BY <1>1 DEF TypeOK
  <1>3. TypeOK'
    <2>1. armed' \in BOOLEAN /\ expired' \in BOOLEAN
      BY <1>1
    <2> QED
      BY <1>1, <1>2, <2>1 DEF TypeOK
  <1>4. BindingsDistinct' /\ WindowHonoured' /\ PromptKnown'
    BY <1>1 DEF BindingsDistinct, WindowHonoured, PromptKnown
  <1>5. SlotSound' /\ t \notin confirmed
    BY <1>1, <1>2 DEF SlotSound
  <1>6. WindowSound'
    <2>1. armedSeq' <= seq' /\ armedSeq' = seq
      BY <1>1
    <2>2. \A c \in overheard \cup polls : announced[c] \in 1 .. seq
      BY DEF WindowSound
    <2>3. \A c \in overheard : ~(announced[c] > seq)
      BY <2>2
    <2>4. \A u \in Terminals : bound[u] # Nobody => announced[bound[u]] \in 1 .. seq
      BY DEF WindowSound
    <2> QED
      BY <1>1, <1>5, <2>1, <2>2, <2>3, <2>4 DEF WindowSound
  <1>7. seq' <= Cardinality(Announced)'
    BY <1>1 DEF Announced
  <1> QED
    BY <1>1, <1>3, <1>4, <1>5, <1>6, <1>7

(* The window's time is over: its one candidate, announced after all that  *)
(* is bound, is the terminal's.                                            *)
LEMMA TimerKeeps ==
    ASSUME Identifiers, LaunchInv, NEW t \in Terminals, Timer(t)
    PROVE  LaunchInv'
  <1> USE WireTypes DEF LaunchInv, LaunchesBind
  <1>1. /\ timers' \subseteq Terminals
        /\ UNCHANGED <<seq, started, announced, overheard, confirmed, polls>>
    BY DEF Timer, wireVars, TypeOK
  <1>2. WireGrows
    BY <1>1, WireStays DEF TypeOK
  <1>3. CASE UNCHANGED <<slot, windowVars, pc, bound, prompted, early>>
    BY <1>1, <1>2, <1>3, WindowStays DEF windowVars, TypeOK
  <1>4. CASE armed /\ slot = t /\ early' = early /\ Close(t, FALSE)
    BY <1>1, <1>2, <1>4, ClosedUnbound
  <1>5. CASE armed /\ slot = t /\ early' = early /\ Close(t, TRUE)
    <2>1. /\ slot' = Nobody /\ armed' = FALSE /\ armedSeq' = 0 /\ expired' = FALSE
          /\ candidates' = {} /\ live' = {}
          /\ pc'[t] = "done" /\ (\A u \in Terminals \ {t} : pc'[u] = pc[u])
          /\ pc' \in [Terminals -> {"idle", "waiting", "reserved", "armed", "done"}]
      BY <1>5, Closed
    <2>2. PICK c \in candidates :
             /\ bound' = [bound EXCEPT ![t] = c]
             /\ prompted' = IF c \in live THEN prompted \cup {t} ELSE prompted
      BY <1>5, Closed
    <2>3. /\ c \in ThreadIds /\ c # Nobody /\ announced[c] > armedSeq /\ announced[c] \in 1 .. seq
          /\ t \in confirmed => c = t
          /\ c \in overheard => c \in live
      BY <1>5 DEF WindowSound, Identifiers
    <2>4. /\ bound'[t] = c /\ (\A u \in Terminals \ {t} : bound'[u] = bound[u])
          /\ bound' \in [Terminals -> ThreadIds \cup {Nobody}]
      BY <2>2, <2>3 DEF TypeOK
    <2>5. \A u \in Terminals : bound[u] # c
      BY <1>5, <2>3 DEF WindowSound
    <2>6. TypeOK'
      <3>1. armed' \in BOOLEAN /\ expired' \in BOOLEAN
        BY <2>1
      <3>2. prompted' \subseteq Terminals
        BY <2>2 DEF TypeOK
      <3> QED
        BY <1>1, <1>5, <2>1, <2>4, <3>1, <3>2 DEF TypeOK, WireGrows
    <2>7. BindingsDistinct'
      BY <1>1, <2>3, <2>4, <2>5 DEF BindingsDistinct
    <2>8. WindowHonoured' /\ PromptKnown'
      BY <1>1, <1>5, <2>2, <2>3, <2>4 DEF WindowHonoured, PromptKnown
    <2>9. SlotSound'
      BY <1>1, <1>5, <2>1, <2>4 DEF SlotSound
    <2>10. WindowSound'
      <3>1. \A u \in Terminals : bound'[u] # Nobody => announced[bound'[u]] \in 1 .. seq
        BY <2>3, <2>4 DEF WindowSound
      <3> QED
        BY <1>1, <2>1, <3>1 DEF WindowSound
    <2>11. seq' <= Cardinality(Announced)'
      BY <1>1 DEF Announced
    <2> QED
      BY <1>1, <2>6, <2>7, <2>8, <2>9, <2>10, <2>11
  <1> QED
    <2>1. (Cardinality(candidates) = 1) \in BOOLEAN
      OBVIOUS
    <2>2. armed /\ slot = t /\ Close(t, Cardinality(candidates) = 1) =>
             Close(t, TRUE) \/ Close(t, FALSE)
      <3>1. CASE Cardinality(candidates) = 1
        BY <3>1 DEF Close
      <3>2. CASE Cardinality(candidates) # 1
        BY <3>2 DEF Close
      <3> QED
        BY <3>1, <3>2
    <2> QED
      BY <1>3, <1>4, <1>5, <2>2 DEF Timer, ItsOwn

(* The create fails, or the terminal is deleted. *)
LEMMA DropKeeps ==
    ASSUME Identifiers, LaunchInv, NEW t \in Terminals, Abandon(t) \/ Forget(t)
    PROVE  LaunchInv'
  <1> USE WireTypes
  <1>1. UNCHANGED <<seq, started, announced, overheard, confirmed, polls, timers, early>>
    BY DEF Abandon, Forget, wireVars
  <1>2. WireGrows
    BY <1>1, WireStays DEF LaunchInv, LaunchesBind, TypeOK
  <1>3. CASE slot = t /\ Close(t, FALSE)
    BY <1>1, <1>2, <1>3, ClosedUnbound DEF LaunchInv, LaunchesBind, TypeOK
  <1>4. CASE /\ bound' = [bound EXCEPT ![t] = Nobody]
             /\ UNCHANGED <<slot, windowVars, pc, prompted>>
    <2>1. /\ bound' \in [Terminals -> ThreadIds \cup {Nobody}]
          /\ \A u \in Terminals : bound'[u] \in {bound[u], Nobody}
      BY <1>4 DEF LaunchInv, LaunchesBind, TypeOK
    <2> QED
      BY <1>1, <1>2, <1>4, <2>1, WindowStays DEF windowVars, LaunchInv, LaunchesBind, TypeOK
  <1> QED
    BY <1>3, <1>4 DEF Abandon, Forget

(* A prompt to a candidate is kept for the binding. *)
LEMMA WorkingKeeps ==
    ASSUME Identifiers, LaunchInv, NEW c \in ThreadIds, Working(c)
    PROVE  LaunchInv'
  <1> USE WireTypes DEF LaunchInv, LaunchesBind
  <1>1. /\ c \in candidates /\ live' = live \cup {c} /\ overheard' = overheard \cup {c}
        /\ UNCHANGED <<pc, slot, armed, armedSeq, expired, candidates, seq, started, announced,
                       confirmed, polls, timers, bound, prompted, early>>
    BY DEF Working, HeardLive
  <1>2. \A u \in Terminals : bound[u] # c
    BY <1>1 DEF WindowSound, Identifiers
  <1>3. TypeOK'
    BY <1>1 DEF TypeOK
  <1>4. BindingsDistinct' /\ WindowHonoured'
    BY <1>1 DEF BindingsDistinct, WindowHonoured
  <1>5. PromptKnown'
    BY <1>1, <1>2 DEF PromptKnown
  <1>6. SlotSound'
    BY <1>1 DEF SlotSound
  <1>7. WindowSound'
    BY <1>1 DEF WindowSound
  <1>8. seq' <= Cardinality(Announced)'
    BY <1>1 DEF Announced
  <1> QED
    BY <1>1, <1>3, <1>4, <1>5, <1>6, <1>7, <1>8

(***************************************************************************)
(* Launches bind right, for any terminals and strangers in the directory   *)
(* and any failures: no two terminals to one thread, none to another's     *)
(* when its own was accepted, and no window closed by a timer that is not  *)
(* its own (matchesPendingLaunch, acceptCandidate, closeLaunch).           *)
(***************************************************************************)
THEOREM BindRight == Identifiers => (Spec => []LaunchesBind)
  <1> SUFFICES ASSUME Identifiers PROVE Spec => []LaunchesBind
    OBVIOUS
  <1>1. Init => LaunchInv
    <2> SUFFICES ASSUME Init PROVE LaunchInv
      OBVIOUS
    <2>1. Cardinality(ThreadIds) \in Nat /\ Cardinality(Announced) \in Nat
      <3>1. Announced = {}
        BY DEF Init, Announced
      <3> QED
        BY <3>1, FS_EmptySet, FS_CardinalityType DEF Identifiers
    <2>2. TypeOK
      <3>1. armed \in BOOLEAN /\ expired \in BOOLEAN
        BY DEF Init
      <3> QED
        BY <2>1, <3>1 DEF Init, TypeOK
    <2>3. LaunchesBind
      BY <2>2 DEF Init, LaunchesBind, BindingsDistinct, WindowHonoured, PromptKnown
    <2>4. SlotSound /\ WindowSound
      BY DEF Init, SlotSound, WindowSound
    <2> QED
      BY <2>1, <2>3, <2>4 DEF Init, LaunchInv
  <1>2. LaunchInv /\ [Next]_launchVars => LaunchInv'
    BY AnnounceKeeps, MarkerKeeps, LoseKeeps, OthersKeep, ReserveKeeps, ArmKeeps, TimerKeeps,
       DropKeeps, WorkingKeeps DEF Next
  <1>3. LaunchInv => LaunchesBind
    BY DEF LaunchInv
  <1> QED
    BY <1>1, <1>2, <1>3, PTL DEF Spec
=============================================================================
