---------------------------- MODULE RecordsProofs ----------------------------
(***************************************************************************)
(* Proofs about the components the record store serves, the copies that    *)
(* are published to it and the files it lives in, for every set of what    *)
(* they are about and any number of failures and restarts.                 *)
(*                                                                         *)
(* LinearRelay: what Linear acknowledged is honoured.  The worker, the     *)
(* session loop and every start know of the row they act on what their     *)
(* next write rests on, however old their reading of it is.                *)
(*                                                                         *)
(* Projects: threads and projects agree.  The invariant says what each     *)
(* holder of the threads domain's mutex has found out and not yet written, *)
(* and that a rescan is owed for what a new directory has made untrue.     *)
(*                                                                         *)
(* Publishing, with Artifacts: publications hold.  The server's half says  *)
(* what each request's place in its handler has established of the rows    *)
(* and directories; the copies' half ties a frozen package, the request    *)
(* sent for it, the version made of it and the record that follows.        *)
(*                                                                         *)
(* AuthoringPlatform and DocumentSnapshot: copies are sound.  What a       *)
(* process has established under the file lock stands while it has it; the *)
(* document at one moment lies between both manifests and the copy.        *)
(*                                                                         *)
(* StoreUpgrade and AuthToken: the files survive.  A run finds the         *)
(* database as it keeps it until its backup is whole; a token is handed    *)
(* out of the file, or into it.                                            *)
(***************************************************************************)
EXTENDS LinearRelay, Projects, Publishing, DocumentSnapshot, AuthToken, FiniteSetTheorems,
        WellFoundedInduction, TLAPS

-----------------------------------------------------------------------------
(* The inductive invariant of the relay.                                   *)

(* The delivery in hand is due; one that was completed took effect. *)
InboxSound ==
    /\ IsFiniteSet(Pending)
    /\ work # Idle => work.phase # "idle" /\ work.delivery \in Deliveries
                      /\ inbox[work.delivery] = "due"
    /\ work.phase = "completing" => TookEffect(work.delivery)
    /\ \A d \in Deliveries : inbox[d] = "done" => TookEffect(d)

(* A row names a thread as far as its state says. *)
RowSound(s) ==
    session[s] # None =>
        /\ session[s].state = "accepted" => session[s].thread = None
        /\ session[s].state = "started" => session[s].thread \in Threads

(* A listed session is there, and one that was listed as started is as     *)
(* the list has it: nobody but the loop writes a started row.              *)
ListSound(s) ==
    listed[s] # None =>
        /\ session[s] # None
        /\ listed[s].state = "started" => session[s] = listed[s]

(* The progress of a start, and what its session's row has of it.          *)
Named(s) == start[s].thread \in Threads /\ session[s].thread = start[s].thread
Unnamed(s) == start[s].thread = None /\ session[s].thread = None
Unsent(s) == start[s].thread \in Threads /\ conv[start[s].thread] = "none"

StartSound(s) ==
    /\ At(s, "none") => start[s] = NoStart
    /\ ~At(s, "none") => session[s] # None
    /\ start[s].pc \notin {"none", "fresh"} => session[s].state = "starting"
    /\ At(s, "fresh") => start[s].thread = None
    /\ At(s, "preparing") => Unnamed(s)
    /\ At(s, "recording") => Unsent(s) /\ session[s].thread = None
    /\ At(s, "dispatching") => Named(s) /\ Unsent(s)
    /\ At(s, "answering") => Named(s)
    /\ At(s, "deciding") =>
          /\ start[s].result \in {"ok", "uncertain", "offline", "failed"}
          /\ start[s].result \in {"ok", "uncertain"} => Named(s)
          /\ start[s].result = "offline" => Unnamed(s) \/ (Named(s) /\ Unsent(s))
          /\ start[s].result = "failed" => session[s].thread \in {None, start[s].thread}

(* Every start has a thread of its own. *)
OwnThread ==
    \A r, s \in Sessions : start[r].thread = start[s].thread /\ start[s].thread # None => r = s

RelaySound ==
    /\ \A s \in Sessions : RowSound(s) /\ ListSound(s) /\ StartSound(s)
    /\ OwnThread

RelayInv == MentionsHonoured /\ InboxSound /\ RelaySound

-----------------------------------------------------------------------------
(* The parts of the invariant that are about one session.                  *)

Reported(s) ==
    session[s] # None =>
        /\ owed[s] \cap {"ack", "refused"} # {}
        /\ session[s].state = "started" => owed[s] \cap {"started", "uncertain"} # {}
        /\ session[s].state = "done" => owed[s] \cap {"refused", "failed", "result"} # {}

SessionSound(s) == RowSound(s) /\ ListSound(s) /\ StartSound(s) /\ Reported(s)

RowTypes ==
    /\ session \in [Sessions -> Row \cup {None}]
    /\ listed \in [Sessions -> Row \cup {None}]

StartTypes ==
    start \in [Sessions -> [pc : {"none", "fresh", "preparing", "recording",
                                  "dispatching", "answering", "deciding"},
                            thread : Threads \cup {None},
                            result : {None, "ok", "uncertain", "offline", "failed"}]]

WorldTypes ==
    /\ thread \in [Threads -> Reading]
    /\ conv \in [Threads -> {"none", "inflight", "held", "refused", "lost"}]

OwedTypes == owed \in [Sessions -> SUBSET Purposes]

(* The invariant by its parts. *)
LEMMA InvParts ==
    ASSUME RelayInv
    PROVE  /\ InboxTypeOK /\ RowTypes /\ StartTypes /\ WorldTypes /\ OwedTypes
           /\ InboxSound /\ AckedNotLost /\ OneConversation /\ OwnThread
           /\ \A s \in Sessions : SessionSound(s)
    BY DEF RelayInv, MentionsHonoured, TypeOK, RowTypes, StartTypes, WorldTypes, OwedTypes,
           RelaySound, SessionSound, Reported, StateReported

(* The parts make the invariant of the next state. *)
LEMMA PartsInv ==
    ASSUME InboxTypeOK', RowTypes', StartTypes', WorldTypes', OwedTypes',
           InboxSound', AckedNotLost', OneConversation', OwnThread',
           \A s \in Sessions : SessionSound(s)'
    PROVE  RelayInv'
  <1>1. TypeOK'
    BY DEF TypeOK, RowTypes, StartTypes, WorldTypes, OwedTypes
  <1>2. StateReported'
    BY DEF SessionSound, Reported, StateReported
  <1>3. RelaySound'
    BY DEF SessionSound, RelaySound
  <1> QED
    BY <1>1, <1>2, <1>3 DEF RelayInv, MentionsHonoured

(* Rows are not None, and None is no thread. *)
LEMMA Distinct == None \notin Row /\ None \notin Threads /\ None \notin Deliveries
    BY RowAssumption, RelayAssumption, InboxAssumption

-----------------------------------------------------------------------------
(* What a delivery did stays done.                                         *)

EffectsKept ==
    \A s \in Sessions :
        /\ session[s] # None => session'[s] # None
        /\ owed[s] \subseteq owed'[s]

LEMMA EffectKept ==
    ASSUME EffectsKept, NEW d \in Deliveries, TookEffect(d)
    PROVE  TookEffect(d)'
    BY RelayAssumption DEF EffectsKept, TookEffect

(* A step of the relay that leaves the inbox alone. *)
LEMMA InboxKept ==
    ASSUME RelayInv, EffectsKept, UNCHANGED inboxVars,
           faults' \in 0 .. MaxFaults, crashes' \in 0 .. MaxCrashes
    PROVE  InboxTypeOK' /\ InboxSound' /\ AckedNotLost'
  <1>1. UNCHANGED <<inbox, acked, work>> /\ Pending' = Pending
    BY DEF inboxVars, Pending
  <1>2. InboxTypeOK'
    BY <1>1 DEF InboxTypeOK, RelayInv, MentionsHonoured, TypeOK
  <1>3. /\ acked \in SUBSET Deliveries /\ InboxSound /\ AckedNotLost
        /\ work \in [delivery : Deliveries \cup {None},
                     phase : {"idle", "handling", "completing", "failing"}]
    BY DEF InboxTypeOK, RelayInv, MentionsHonoured, TypeOK
  <1>4. AckedNotLost'
    BY <1>1, <1>3, EffectKept DEF AckedNotLost
  <1>5. \A d \in Deliveries : inbox[d] = "done" => TookEffect(d)'
    BY <1>3, EffectKept DEF InboxSound
  <1>6. ASSUME work.phase = "completing" PROVE TookEffect(work.delivery)'
    <2>1. work.delivery \in Deliveries
      BY <1>3, <1>6 DEF InboxSound, Idle
    <2>2. TookEffect(work.delivery)
      BY <1>3, <1>6 DEF InboxSound
    <2> QED
      <3>1. PICK d \in Deliveries : d = work.delivery
        BY <2>1
      <3>2. TookEffect(d)'
        BY <3>1, <2>2, EffectKept
      <3> QED
        BY <3>1, <3>2, <1>1 DEF TookEffect
  <1>7. InboxSound'
    BY <1>1, <1>3, <1>5, <1>6 DEF InboxSound, Idle, TookEffect
  <1> QED
    BY <1>2, <1>4, <1>7

(* Faults are counted up to their bound. *)
LEMMA FaultType ==
    ASSUME InboxTypeOK, Fault \/ UNCHANGED faults
    PROVE  faults' \in 0 .. MaxFaults
    BY InboxAssumption DEF InboxTypeOK, Fault

-----------------------------------------------------------------------------
(***************************************************************************)
(* A step that acts on one session.  It need only be sound for that        *)
(* session, and lose neither what it owes nor the name of its thread: the  *)
(* sessions share nothing else.                                            *)
(***************************************************************************)
Alone(s) ==
    \A r \in Sessions \ {s} :
        /\ session'[r] = session[r] /\ listed'[r] = listed[r]
        /\ start'[r] = start[r] /\ owed'[r] = owed[r]

(* Only the conversation of its own start may have been asked for. *)
SendsOwn(s) ==
    \A h \in Threads :
        \/ conv'[h] = conv[h]
        \/ /\ h = start[s].thread /\ conv'[h] = "inflight"
           /\ session'[s] # None /\ session'[s].thread = h

(* A thread that T3 may hold keeps the name it has. *)
NameKept(s) ==
    session[s] # None =>
        \/ session'[s].thread = session[s].thread
        \/ session[s].thread \notin Dispatched

(* A start gives up its thread, or has one that no start has. *)
TakesFree(s) ==
    \/ start'[s].thread \in {None, start[s].thread}
    \/ \A r \in Sessions : start[r].thread # start'[s].thread

LEMMA ActsAlone ==
    ASSUME RelayInv, NEW s \in Sessions, Alone(s), SendsOwn(s), NameKept(s), TakesFree(s),
           owed[s] \subseteq owed'[s], session[s] # None => session'[s] # None,
           RowTypes', StartTypes', WorldTypes', OwedTypes', SessionSound(s)'
    PROVE  /\ EffectsKept
           /\ OneConversation' /\ OwnThread'
           /\ \A r \in Sessions : SessionSound(r)'
  <1> USE InvParts, Distinct
  <1>1. EffectsKept
    BY DEF EffectsKept, Alone
  <1>2. OneConversation'
    <2> SUFFICES ASSUME NEW h \in Threads, conv'[h] \notin {"none", "refused"}
                 PROVE  \E r \in Sessions : session'[r] # None /\ session'[r].thread = h
      BY DEF OneConversation, Dispatched
    <2>1. CASE conv'[h] # conv[h]
      BY <2>1 DEF SendsOwn
    <2>2. CASE conv'[h] = conv[h]
      <3>1. h \in Dispatched
        BY <2>2 DEF Dispatched
      <3>2. PICK r \in Sessions : session[r] # None /\ session[r].thread = h
        BY <3>1 DEF OneConversation
      <3>3. CASE r = s
        BY <3>1, <3>2, <3>3 DEF NameKept
      <3>4. CASE r # s
        BY <3>2, <3>4 DEF Alone
      <3> QED
        BY <3>3, <3>4
    <2> QED
      BY <2>1, <2>2
  <1>3. OwnThread'
    BY DEF OwnThread, TakesFree, Alone
  <1>4. ASSUME NEW r \in Sessions, r # s PROVE SessionSound(r)'
    <2>1. /\ session'[r] = session[r] /\ listed'[r] = listed[r]
          /\ start'[r] = start[r] /\ owed'[r] = owed[r]
      BY <1>4 DEF Alone
    <2>2. SessionSound(r)
      OBVIOUS
    <2>3. Unsent(r) => Unsent(r)'
      <3> HAVE Unsent(r)
      <3>1. start[r].thread # start[s].thread
        BY <1>4 DEF OwnThread, Unsent
      <3> QED
        BY <2>1, <3>1 DEF Unsent, SendsOwn
    <2>4. RowSound(r)' /\ ListSound(r)' /\ Reported(r)'
      BY <2>1, <2>2 DEF SessionSound, RowSound, ListSound, Reported
    <2>5. StartSound(r)'
      BY <2>1, <2>2, <2>3 DEF SessionSound, StartSound, Named, Unnamed, At
    <2> QED
      BY <2>4, <2>5 DEF SessionSound
  <1> QED
    BY <1>1, <1>2, <1>3, <1>4

-----------------------------------------------------------------------------
(***************************************************************************)
(* What a step has to show when it acts on one session alone.              *)
(***************************************************************************)
ActsOn(s) ==
    /\ Alone(s) /\ SendsOwn(s) /\ NameKept(s) /\ TakesFree(s)
    /\ owed[s] \subseteq owed'[s]
    /\ session[s] # None => session'[s] # None
    /\ RowTypes' /\ StartTypes' /\ WorldTypes' /\ OwedTypes'
    /\ SessionSound(s)'

(* A step of the loop or of a start that acts on one session is sound.     *)
LEMMA ActsOnSound ==
    ASSUME RelayInv, NEW s \in Sessions, ActsOn(s), UNCHANGED inboxVars,
           Fault \/ UNCHANGED faults, crashes' = crashes
    PROVE  RelayInv'
  <1>1. /\ EffectsKept
        /\ OneConversation' /\ OwnThread'
        /\ \A r \in Sessions : SessionSound(r)'
    BY ActsAlone DEF ActsOn
  <1>2. faults' \in 0 .. MaxFaults /\ crashes' \in 0 .. MaxCrashes
    BY FaultType, InvParts DEF InboxTypeOK
  <1>3. InboxTypeOK' /\ InboxSound' /\ AckedNotLost'
    BY <1>1, <1>2, InboxKept
  <1> QED
    BY <1>1, <1>3, PartsInv DEF ActsOn

(* The transaction of a session's state and its calls. *)
LEMMA Updated ==
    ASSUME RowTypes, OwedTypes, NEW s \in Sessions, NEW entry \in Row,
           NEW calls \in SUBSET Purposes, UpdateSession(s, entry, calls)
    PROVE  /\ session'[s] = entry /\ owed'[s] = owed[s] \cup calls
           /\ \A r \in Sessions \ {s} : session'[r] = session[r] /\ owed'[r] = owed[r]
           /\ session' \in [Sessions -> Row \cup {None}] /\ OwedTypes'
  <1>1. session' = [session EXCEPT ![s] = entry] /\ owed' = [owed EXCEPT ![s] = @ \cup calls]
    BY DEF UpdateSession, Enqueue
  <1>2. owed[s] \cup calls \in SUBSET Purposes
    BY DEF OwedTypes
  <1> QED
    BY <1>1, <1>2 DEF RowTypes, OwedTypes

(* An observation keeps the thread, and finishes a row with its result.    *)
LEMMA EvaluateSound ==
    ASSUME NEW entry \in Row, entry.state = "started"
    PROVE  /\ Evaluate(entry).row \in Row
           /\ Evaluate(entry).row.thread = entry.thread
           /\ Evaluate(entry).owed \in SUBSET Purposes
           /\ \/ Evaluate(entry).row.state = "started"
              \/ Evaluate(entry).row.state = "done" /\ Evaluate(entry).owed = {"result"}
  <1> DEFINE turn == thread[entry.thread]
  <1>1. CASE turn \in {"absent", "dropped", "replaced", "responded", "failed"}
    <2>1. Evaluate(entry) = Finish(entry)
      BY <1>1 DEF Evaluate
    <2> QED
      BY <2>1 DEF Finish, Row, Purposes
  <1>2. CASE turn \notin {"absent", "dropped", "replaced", "responded", "failed"}
    <2>1. \/ Evaluate(entry) = Finish(entry)
          \/ Evaluate(entry) = [row |-> [entry EXCEPT !.completed = "seen"], owed |-> {}]
          \/ Evaluate(entry) = [row |-> [entry EXCEPT !.noticed = TRUE], owed |-> {"notice"}]
          \/ Evaluate(entry) = Nothing(entry)
      BY <1>2 DEF Evaluate
    <2>2. {} \in SUBSET Purposes /\ {"notice"} \in SUBSET Purposes /\ {"result"} \in SUBSET Purposes
      BY DEF Purposes
    <2>3. CASE Evaluate(entry) = [row |-> [entry EXCEPT !.completed = "seen"], owed |-> {}]
      BY <2>2, <2>3 DEF Row
    <2>4. CASE Evaluate(entry) = [row |-> [entry EXCEPT !.noticed = TRUE], owed |-> {"notice"}]
      <3> DEFINE noted == [entry EXCEPT !.noticed = TRUE]
      <3>1. noted \in Row
        BY DEF Row
      <3>2. noted.thread = entry.thread /\ noted.state = entry.state
        BY DEF Row
      <3>3. Evaluate(entry).row = noted /\ Evaluate(entry).owed = {"notice"}
        BY <2>4
      <3> HIDE DEF noted
      <3> QED
        BY <2>2, <3>1, <3>2, <3>3
    <2>5. CASE Evaluate(entry) = Finish(entry) \/ Evaluate(entry) = Nothing(entry)
      BY <2>2, <2>5 DEF Finish, Nothing, Row
    <2> QED
      BY <2>1, <2>3, <2>4, <2>5
  <1> QED
    BY <1>1, <1>2

-----------------------------------------------------------------------------
(* The session loop.                                                       *)

(* Of the session alone: nothing of the start, of T3 or of the world.      *)
LEMMA LoopWrites ==
    ASSUME RelayInv, NEW s \in Sessions, NEW entry \in Row, NEW calls \in SUBSET Purposes,
           NEW seen \in Row \cup {None},
           session[s] # None, UpdateSession(s, entry, calls),
           listed' = [listed EXCEPT ![s] = seen],
           UNCHANGED <<start, thread, conv>>,
           entry.thread = session[s].thread, start[s].pc \in {"none", "fresh"},
           entry.state = "started" => entry.thread \in Threads,
           entry.state # "accepted",
           entry.state = "started" => (owed[s] \cup calls) \cap {"started", "uncertain"} # {},
           entry.state = "done" => (owed[s] \cup calls) \cap {"refused", "failed", "result"} # {},
           seen # None => seen = entry
    PROVE  ActsOn(s)
  <1> USE InvParts, Distinct
  <1>1. /\ session'[s] = entry /\ owed'[s] = owed[s] \cup calls
        /\ \A r \in Sessions \ {s} : session'[r] = session[r] /\ owed'[r] = owed[r]
        /\ session' \in [Sessions -> Row \cup {None}] /\ OwedTypes'
    BY Updated
  <1>2. entry # None
    OBVIOUS
  <1>3. RowTypes'
    BY <1>1 DEF RowTypes
  <1>4. StartTypes' /\ WorldTypes'
    BY DEF StartTypes, WorldTypes
  <1>5. listed'[s] = seen /\ (\A r \in Sessions \ {s} : listed'[r] = listed[r])
    BY DEF RowTypes
  <1>6. Alone(s) /\ SendsOwn(s) /\ NameKept(s) /\ TakesFree(s)
    BY <1>1, <1>5 DEF Alone, SendsOwn, NameKept, TakesFree, StartTypes
  <1>7. SessionSound(s)'
    <2>1. SessionSound(s)
      OBVIOUS
    <2>2. RowSound(s)' /\ ListSound(s)'
      BY <1>1, <1>2, <1>5 DEF RowSound, ListSound
    <2>3. StartSound(s)'
      BY <1>1, <1>2, <2>1 DEF SessionSound, StartSound, At
    <2>4. Reported(s)'
      BY <1>1, <2>1 DEF SessionSound, Reported
    <2> QED
      BY <2>2, <2>3, <2>4 DEF SessionSound
  <1> QED
    BY <1>1, <1>2, <1>3, <1>4, <1>6, <1>7 DEF ActsOn

(* The loop leaves the session for the next round, or begins its start.    *)
LEMMA LoopLeaves ==
    ASSUME RelayInv, NEW s \in Sessions, listed[s] # None, Pass(s) \/ (At(s, "none") /\ Launch(s)),
           UNCHANGED <<thread, conv>>
    PROVE  ActsOn(s)
  <1> USE InvParts, Distinct
  <1>1. UNCHANGED <<session, owed>> /\ listed' = [listed EXCEPT ![s] = None]
    BY DEF Pass, Launch
  <1>2. \/ start' = start
        \/ At(s, "none") /\ start' = [start EXCEPT ![s] = [NoStart EXCEPT !.pc = "fresh"]]
    BY DEF Pass, Launch
  <1>3. SessionSound(s) /\ session[s] # None
    BY DEF SessionSound, ListSound
  <1>4. [NoStart EXCEPT !.pc = "fresh"] = [pc |-> "fresh", thread |-> None, result |-> None]
    BY DEF NoStart
  <1>5. RowTypes' /\ OwedTypes' /\ WorldTypes'
    BY <1>1 DEF RowTypes, OwedTypes, WorldTypes
  <1>6. StartTypes'
    BY <1>2, <1>4 DEF StartTypes
  <1>7. listed'[s] = None /\ (\A r \in Sessions \ {s} : listed'[r] = listed[r])
    BY <1>1 DEF RowTypes
  <1>8. /\ \A r \in Sessions \ {s} : start'[r] = start[r]
        /\ \/ start'[s] = start[s]
           \/ /\ At(s, "none")
              /\ start'[s] = [pc |-> "fresh", thread |-> None, result |-> None]
    BY <1>2, <1>4 DEF StartTypes
  <1>9. Alone(s) /\ SendsOwn(s) /\ NameKept(s) /\ TakesFree(s)
    BY <1>1, <1>7, <1>8 DEF Alone, SendsOwn, NameKept, TakesFree
  <1>10. RowSound(s)' /\ ListSound(s)' /\ Reported(s)'
    BY <1>1, <1>3, <1>7 DEF SessionSound, RowSound, ListSound, Reported
  <1>11. StartSound(s)'
    <2>1. CASE start'[s] = start[s]
      BY <1>1, <1>3, <2>1 DEF SessionSound, StartSound, At, Named, Unnamed, Unsent
    <2>2. CASE start'[s] = [pc |-> "fresh", thread |-> None, result |-> None]
      BY <1>1, <1>3, <2>2 DEF StartSound, At
    <2> QED
      BY <1>8, <2>1, <2>2
  <1> QED
    BY <1>1, <1>5, <1>6, <1>9, <1>10, <1>11 DEF ActsOn, SessionSound

(* What is observed of a started row is written with what it owes. *)
LEMMA LoopObserves ==
    ASSUME RelayInv, NEW s \in Sessions, session[s] # None, session[s].state = "started",
           Observe(s, session[s]), UNCHANGED <<thread, conv>>
    PROVE  ActsOn(s)
  <1> USE InvParts, Distinct
  <1> DEFINE entry == session[s]
             seen == Evaluate(entry)
  <1>1. entry \in Row /\ SessionSound(s)
    BY DEF RowTypes
  <1>2. /\ seen.row \in Row /\ seen.row.thread = entry.thread /\ seen.owed \in SUBSET Purposes
        /\ \/ seen.row.state = "started"
           \/ seen.row.state = "done" /\ seen.owed = {"result"}
    BY <1>1, EvaluateSound
  <1>3. /\ UpdateSession(s, seen.row, seen.owed)
        /\ listed' = [listed EXCEPT ![s] = None]
        /\ start' = start
    BY DEF Observe
  <1>4. start[s].pc \in {"none", "fresh"}
    BY <1>1 DEF SessionSound, StartSound
  <1>5. entry.thread \in Threads
    BY <1>1 DEF SessionSound, RowSound
  <1>6. owed[s] \cap {"started", "uncertain"} # {}
    BY <1>1 DEF SessionSound, Reported
  <1>7. /\ seen.row.state # "accepted"
        /\ (owed[s] \cup seen.owed) \cap {"started", "uncertain"} # {}
        /\ seen.row.state = "done" =>
              (owed[s] \cup seen.owed) \cap {"refused", "failed", "result"} # {}
    BY <1>2, <1>6
  <1> HIDE DEF seen
  <1> QED
    BY <1>1, <1>2, <1>3, <1>4, <1>5, <1>7, LoopWrites

(* A start that a process left behind is owed again, or in doubt. *)
LEMMA LoopResumes ==
    ASSUME RelayInv, NEW s \in Sessions, listed[s] # None, session[s].state = "starting",
           At(s, "none"), Resume(s), UNCHANGED <<thread, conv>>
    PROVE  ActsOn(s)
  <1> USE InvParts, Distinct
  <1> DEFINE resumed == [session[s] EXCEPT !.state = "started"]
  <1>1. session[s] # None /\ session[s] \in Row
    BY DEF SessionSound, ListSound, RowTypes
  <1>2. CASE Launch(s)
    BY <1>2, LoopLeaves
  <1>3. CASE /\ session[s].thread # None
             /\ UpdateSession(s, resumed, {"uncertain"})
             /\ listed' = [listed EXCEPT ![s] = resumed]
             /\ UNCHANGED start
    <2>1. /\ resumed \in Row /\ resumed.thread = session[s].thread /\ resumed.state = "started"
          /\ session[s].thread \in Threads
      BY <1>1, <1>3 DEF Row
    <2>2. {"uncertain"} \in SUBSET Purposes
      BY DEF Purposes
    <2>3. (owed[s] \cup {"uncertain"}) \cap {"started", "uncertain"} # {}
      OBVIOUS
    <2> HIDE DEF resumed
    <2> QED
      BY <1>1, <1>3, <2>1, <2>2, <2>3, LoopWrites DEF At
  <1> QED
    BY <1>2, <1>3 DEF Resume

(* One session of the list. *)
LEMMA LoopActSound ==
    ASSUME RelayInv, NEW s \in Sessions, LoopAct(s)
    PROVE  RelayInv'
  <1> USE InvParts, Distinct
  <1>1. /\ listed[s] # None /\ UNCHANGED <<inboxVars, crashes, thread, conv>>
        /\ Fault \/ UNCHANGED faults
        /\ session[s] # None /\ (listed[s].state = "started" => session[s] = listed[s])
    BY DEF LoopAct, SessionSound, ListSound
  <1>2. \/ At(s, "none") /\ Launch(s)
        \/ Pass(s)
        \/ At(s, "none") /\ Recheck(s)
        \/ listed[s].state = "started" /\ Observe(s, listed[s])
    BY DEF LoopAct, At
  <1>3. CASE Pass(s) \/ (At(s, "none") /\ Launch(s))
    BY <1>1, <1>3, LoopLeaves, ActsOnSound
  <1>4. CASE At(s, "none") /\ Recheck(s)
    <2>1. CASE session[s].state = "starting" /\ Resume(s)
      BY <1>1, <1>4, <2>1, LoopResumes, ActsOnSound
    <2>2. CASE session[s].state = "started" /\ Observe(s, session[s])
      BY <1>1, <2>2, LoopObserves, ActsOnSound
    <2>3. CASE Pass(s)
      BY <1>3, <2>3
    <2> QED
      BY <1>4, <2>1, <2>2, <2>3 DEF Recheck
  <1>5. CASE listed[s].state = "started" /\ Observe(s, listed[s])
    BY <1>1, <1>5, LoopObserves, ActsOnSound
  <1> QED
    BY <1>2, <1>3, <1>4, <1>5

(* The list of a round. *)
LEMMA LoopListSound ==
    ASSUME RelayInv, LoopList
    PROVE  RelayInv'
  <1> USE InvParts, Distinct
  <1>1. UNCHANGED <<inboxVars, bounds, session, start, thread, conv, owed>>
    BY DEF LoopList
  <1>2. \A s \in Sessions : listed'[s] = IF session[s] # None /\ session[s].state # "done"
                                       THEN session[s] ELSE None
    BY DEF LoopList
  <1>3. listed' \in [Sessions -> Row \cup {None}]
    BY <1>1 DEF LoopList, RowTypes
  <1>4. RowTypes' /\ StartTypes' /\ WorldTypes' /\ OwedTypes'
    BY <1>1, <1>3 DEF RowTypes, StartTypes, WorldTypes, OwedTypes
  <1>5. EffectsKept
    BY <1>1 DEF EffectsKept
  <1>6. InboxTypeOK' /\ InboxSound' /\ AckedNotLost'
    BY <1>1, <1>5, InboxKept DEF bounds, InboxTypeOK
  <1>7. OneConversation' /\ OwnThread'
    BY <1>1 DEF OneConversation, Dispatched, OwnThread
  <1>8. ASSUME NEW s \in Sessions PROVE SessionSound(s)'
    <2>1. SessionSound(s)
      OBVIOUS
    <2>2. ListSound(s)'
      BY <1>1, <1>2 DEF ListSound
    <2>3. StartSound(s)'
      BY <1>1, <2>1 DEF SessionSound, StartSound, At, Named, Unnamed, Unsent
    <2> QED
      BY <1>1, <2>1, <2>2, <2>3 DEF SessionSound, RowSound, Reported
  <1> QED
    BY <1>4, <1>6, <1>7, <1>8, PartsInv

(* The wait for a response ends. *)
LEMMA GraceSound ==
    ASSUME RelayInv, NEW s \in Sessions, GracePasses(s)
    PROVE  RelayInv'
  <1> USE InvParts, Distinct
  <1>1. /\ session[s] # None /\ session[s].state = "started"
        /\ session' = [session EXCEPT ![s].completed = "graceOver"]
        /\ listed' = [listed EXCEPT ![s] =
                          IF @ # None /\ @.completed = "seen" THEN session'[s] ELSE @]
        /\ UNCHANGED <<inboxVars, bounds, start, thread, conv, owed>>
        /\ session[s].completed = "seen"
    BY DEF GracePasses
  <1> DEFINE entry == [session[s] EXCEPT !.completed = "graceOver"]
  <1>2. session[s] \in Row
    BY <1>1 DEF RowTypes
  <1>3. /\ entry \in Row /\ entry.state = "started" /\ entry.thread = session[s].thread
    BY <1>1, <1>2 DEF Row
  <1>4. session'[s] = entry /\ (\A r \in Sessions \ {s} : session'[r] = session[r])
        /\ session' \in [Sessions -> Row \cup {None}]
    BY <1>1, <1>3 DEF RowTypes
  <1> HIDE DEF entry
  <1>5. /\ listed'[s] = IF listed[s] # None /\ listed[s].completed = "seen" THEN entry ELSE listed[s]
        /\ \A r \in Sessions \ {s} : listed'[r] = listed[r]
        /\ listed' \in [Sessions -> Row \cup {None}]
    BY <1>1, <1>3, <1>4 DEF RowTypes
  <1>6. RowTypes' /\ StartTypes' /\ WorldTypes' /\ OwedTypes'
    BY <1>1, <1>4, <1>5 DEF RowTypes, StartTypes, WorldTypes, OwedTypes
  <1>7. Alone(s) /\ SendsOwn(s) /\ NameKept(s) /\ TakesFree(s)
    BY <1>1, <1>3, <1>4, <1>5 DEF Alone, SendsOwn, NameKept, TakesFree, StartTypes
  <1>8. SessionSound(s)'
    <2>1. SessionSound(s) /\ session'[s] # None
      BY <1>3, <1>4
    <2>2. RowSound(s)' /\ ListSound(s)' /\ Reported(s)'
      BY <1>1, <1>3, <1>4, <1>5, <2>1 DEF SessionSound, RowSound, ListSound, Reported
    <2>3. StartSound(s)'
      BY <1>1, <1>3, <1>4, <2>1 DEF SessionSound, StartSound, At
    <2> QED
      BY <2>2, <2>3 DEF SessionSound
  <1>9. ActsOn(s)
    BY <1>1, <1>3, <1>4, <1>6, <1>7, <1>8 DEF ActsOn
  <1> QED
    BY <1>1, <1>9, ActsOnSound DEF bounds

-----------------------------------------------------------------------------
(* The start of a session's thread.                                        *)

(* The attempt is recorded, or it is off. *)
LEMMA StartMarkSound ==
    ASSUME RelayInv, NEW s \in Sessions, StartMark(s)
    PROVE  RelayInv'
  <1> USE InvParts, Distinct
  <1>1. /\ UNCHANGED <<inboxVars, crashes, listed, thread, conv, owed>>
        /\ Fault \/ UNCHANGED faults
    BY DEF StartMark
  <1>2. At(s, "fresh") /\ SessionSound(s)
    BY DEF StartMark
  <1>3. /\ session[s] # None /\ session[s] \in Row
        /\ start[s] \in [pc : {"none", "fresh", "preparing", "recording",
                              "dispatching", "answering", "deciding"},
                        thread : Threads \cup {None},
                        result : {None, "ok", "uncertain", "offline", "failed"}]
        /\ start[s].thread = None
    BY <1>2 DEF SessionSound, StartSound, At, RowTypes, StartTypes
  <1>4. OwedTypes' /\ WorldTypes' /\ listed' \in [Sessions -> Row \cup {None}]
    BY <1>1 DEF OwedTypes, WorldTypes, RowTypes
  <1>5. CASE /\ Owed(s)
             /\ session' = [session EXCEPT ![s].state = "starting", ![s].thread = None]
             /\ start' = [start EXCEPT ![s].pc = "preparing"]
    <2> DEFINE entry == [session[s] EXCEPT !.state = "starting", !.thread = None]
               next == [start[s] EXCEPT !.pc = "preparing"]
    <2>1. entry \in Row /\ entry.state = "starting" /\ entry.thread = None
      BY <1>3 DEF Row
    <2>2. /\ next.pc = "preparing" /\ next.thread = None /\ next.result = start[s].result
          /\ next \in [pc : {"none", "fresh", "preparing", "recording",
                              "dispatching", "answering", "deciding"},
                        thread : Threads \cup {None},
                        result : {None, "ok", "uncertain", "offline", "failed"}]
      BY <1>3
    <2>3. /\ session'[s] = entry /\ (\A r \in Sessions \ {s} : session'[r] = session[r])
          /\ session' \in [Sessions -> Row \cup {None}]
      BY <1>5, <2>1 DEF RowTypes
    <2>4. /\ start'[s] = next /\ (\A r \in Sessions \ {s} : start'[r] = start[r]) /\ StartTypes'
      BY <1>5, <2>2 DEF StartTypes
    <2> HIDE DEF entry, next
    <2>5. session[s].thread = None
      BY <1>2, <1>3, <1>5 DEF Owed, SessionSound, RowSound
    <2>6. Alone(s) /\ SendsOwn(s) /\ NameKept(s) /\ TakesFree(s)
      BY <1>1, <2>1, <2>2, <2>3, <2>4, <2>5 DEF Alone, SendsOwn, NameKept, TakesFree
    <2>7. session'[s] # None /\ session[s].state # "started"
      BY <1>5, <2>1, <2>3 DEF Owed
    <2>8. RowSound(s)' /\ ListSound(s)' /\ Reported(s)'
      BY <1>1, <1>2, <1>3, <2>1, <2>3, <2>7 DEF SessionSound, RowSound, ListSound, Reported
    <2>9. StartSound(s)'
      BY <2>1, <2>2, <2>3, <2>4, <2>7 DEF StartSound, At, Unnamed
    <2>10. ActsOn(s)
      BY <1>1, <1>4, <2>3, <2>4, <2>6, <2>7, <2>8, <2>9 DEF ActsOn, RowTypes, SessionSound
    <2> QED
      BY <1>1, <2>10, ActsOnSound
  <1>6. CASE start' = [start EXCEPT ![s] = NoStart] /\ UNCHANGED session
    <2>1. /\ start'[s] = NoStart /\ (\A r \in Sessions \ {s} : start'[r] = start[r]) /\ StartTypes'
      BY <1>6 DEF StartTypes, NoStart
    <2>2. Alone(s) /\ SendsOwn(s) /\ NameKept(s) /\ TakesFree(s)
      BY <1>1, <1>6, <2>1 DEF Alone, SendsOwn, NameKept, TakesFree, NoStart
    <2>3. SessionSound(s)'
      BY <1>1, <1>2, <1>6, <2>1 DEF SessionSound, RowSound, ListSound, Reported, StartSound,
                                    At, NoStart
    <2>4. ActsOn(s)
      BY <1>1, <1>4, <1>6, <2>1, <2>2, <2>3 DEF ActsOn, RowTypes
    <2> QED
      BY <1>1, <2>4, ActsOnSound
  <1> QED
    BY <1>5, <1>6 DEF StartMark

(* What holds of the start a step goes on with. *)
LEMMA StartTyped ==
    ASSUME RelayInv, NEW s \in Sessions
    PROVE  /\ start[s] \in [pc : {"none", "fresh", "preparing", "recording",
                                  "dispatching", "answering", "deciding"},
                            thread : Threads \cup {None},
                            result : {None, "ok", "uncertain", "offline", "failed"}]
           /\ session[s] # None => session[s] \in Row
           /\ SessionSound(s)
    BY InvParts DEF StartTypes, RowTypes

(***************************************************************************)
(* A step of a start that goes on with a record, and leaves the row, the   *)
(* list and what is owed as they are.                                      *)
(***************************************************************************)
LEMMA StartGoesOn ==
    ASSUME RelayInv, NEW s \in Sessions, start[s].pc \notin {"none", "fresh"},
           NEW next \in [pc : {"none", "fresh", "preparing", "recording",
                                         "dispatching", "answering", "deciding"},
                                   thread : Threads \cup {None},
                                   result : {None, "ok", "uncertain", "offline", "failed"}],
           start' = [start EXCEPT ![s] = next],
           next.pc \notin {"none", "fresh"},
           UNCHANGED <<session, listed, owed>>,
           WorldTypes', SendsOwn(s), TakesFree(s), StartSound(s)'
    PROVE  ActsOn(s)
  <1> USE InvParts, Distinct
  <1>1. /\ start'[s] = next /\ (\A r \in Sessions \ {s} : start'[r] = start[r]) /\ StartTypes'
    BY DEF StartTypes
  <1>2. RowTypes' /\ OwedTypes'
    BY DEF RowTypes, OwedTypes
  <1>3. Alone(s) /\ NameKept(s)
    BY <1>1 DEF Alone, NameKept
  <1>4. RowSound(s)' /\ ListSound(s)' /\ Reported(s)'
    BY DEF SessionSound, RowSound, ListSound, Reported
  <1> QED
    BY <1>1, <1>2, <1>3, <1>4 DEF ActsOn, SessionSound

(* The thread and its turn are recorded, or the start comes to nothing.    *)
LEMMA StartPrepareSound ==
    ASSUME RelayInv, NEW s \in Sessions, StartPrepare(s)
    PROVE  RelayInv'
  <1> USE InvParts, Distinct, StartTyped
  <1>1. /\ UNCHANGED <<inboxVars, crashes, session, listed, conv, owed>>
        /\ Fault \/ UNCHANGED faults
        /\ At(s, "preparing")
    BY DEF StartPrepare
  <1>2. /\ session[s] # None /\ session[s].state = "starting"
        /\ start[s].thread = None /\ session[s].thread = None
        /\ start[s].pc = "preparing"
    BY <1>1 DEF SessionSound, StartSound, At, Unnamed
  <1>3. SendsOwn(s)
    BY <1>1 DEF SendsOwn
  <1>4. ASSUME NEW result \in {"offline", "failed"},
               start' = [start EXCEPT ![s].pc = "deciding", ![s].result = result],
               UNCHANGED thread
        PROVE  ActsOn(s)
    <2> DEFINE next == [start[s] EXCEPT !.pc = "deciding", !.result = result]
    <2>1. /\ next \in [pc : {"none", "fresh", "preparing", "recording",
                                      "dispatching", "answering", "deciding"},
                                thread : Threads \cup {None},
                                result : {None, "ok", "uncertain", "offline", "failed"}]
          /\ next.pc = "deciding" /\ next.result = result /\ next.thread = None
      BY <1>2
    <2>2. start' = [start EXCEPT ![s] = next] /\ start'[s] = next
      BY <1>4 DEF StartTypes
    <2> HIDE DEF next
    <2>3. WorldTypes' /\ TakesFree(s)
      BY <1>1, <1>4, <2>1, <2>2 DEF WorldTypes, TakesFree
    <2>4. StartSound(s)'
      BY <1>1, <1>2, <1>4, <2>1, <2>2 DEF StartSound, At, Unnamed, Named, Unsent
    <2> QED
      BY <1>1, <1>2, <1>3, <2>1, <2>2, <2>3, <2>4, StartGoesOn
  <1>5. ASSUME NEW h \in Threads,
               conv[h] = "none",
               \A r \in Sessions : start[r].thread # h,
               thread' = [thread EXCEPT ![h] = "pending"],
               start' = [start EXCEPT ![s].pc = "recording", ![s].thread = h]
        PROVE  ActsOn(s)
    <2> DEFINE next == [start[s] EXCEPT !.pc = "recording", !.thread = h]
    <2>1. /\ next \in [pc : {"none", "fresh", "preparing", "recording",
                                      "dispatching", "answering", "deciding"},
                                thread : Threads \cup {None},
                                result : {None, "ok", "uncertain", "offline", "failed"}]
          /\ next.pc = "recording" /\ next.thread = h
      BY <1>2
    <2>2. start' = [start EXCEPT ![s] = next] /\ start'[s] = next
      BY <1>5 DEF StartTypes
    <2> HIDE DEF next
    <2>3. WorldTypes' /\ TakesFree(s)
      BY <1>1, <1>5, <2>1, <2>2 DEF WorldTypes, TakesFree, Reading
    <2>4. StartSound(s)'
      BY <1>1, <1>2, <1>5, <2>1, <2>2 DEF StartSound, At, Unsent
    <2> QED
      BY <1>1, <1>2, <1>3, <2>1, <2>2, <2>3, <2>4, StartGoesOn
  <1>6. ActsOn(s)
    BY <1>4, <1>5 DEF StartPrepare
  <1> QED
    BY <1>1, <1>6, ActsOnSound

(* A discarded thread is out of the view, and of nothing else. *)
LEMMA DiscardTypes ==
    ASSUME WorldTypes, NEW h \in Threads, Discard(h), UNCHANGED conv
    PROVE  WorldTypes'
    BY DEF WorldTypes, Discard, Reading

(* The ids are persisted before anything is sent, or the create is off.    *)
LEMMA StartRecordSound ==
    ASSUME RelayInv, NEW s \in Sessions, StartRecord(s)
    PROVE  RelayInv'
  <1> USE InvParts, Distinct, StartTyped
  <1> DEFINE h == start[s].thread
  <1>1. /\ UNCHANGED <<inboxVars, crashes, listed, conv, owed>>
        /\ Fault \/ UNCHANGED faults
        /\ start[s].pc = "recording"
    BY DEF StartRecord, At
  <1>2. /\ session[s] # None /\ session[s].state = "starting" /\ session[s] \in Row
        /\ h \in Threads /\ conv[h] = "none" /\ session[s].thread = None
    BY <1>1 DEF SessionSound, StartSound, At, Unsent
  <1>3. SendsOwn(s)
    BY <1>1, <1>2 DEF SendsOwn
  <1>4. CASE /\ session' = [session EXCEPT ![s].thread = h]
             /\ start' = [start EXCEPT ![s].pc = "dispatching"]
             /\ UNCHANGED thread
    <2> DEFINE entry == [session[s] EXCEPT !.thread = h]
               next == [start[s] EXCEPT !.pc = "dispatching"]
    <2>1. entry \in Row /\ entry.state = "starting" /\ entry.thread = h
      BY <1>2 DEF Row
    <2>2. /\ next.pc = "dispatching" /\ next.thread = h
          /\ next \in [pc : {"none", "fresh", "preparing", "recording",
                              "dispatching", "answering", "deciding"},
                        thread : Threads \cup {None},
                        result : {None, "ok", "uncertain", "offline", "failed"}]
      OBVIOUS
    <2>3. /\ session'[s] = entry /\ (\A r \in Sessions \ {s} : session'[r] = session[r])
          /\ session' \in [Sessions -> Row \cup {None}]
      BY <1>4, <2>1 DEF RowTypes
    <2>4. /\ start'[s] = next /\ (\A r \in Sessions \ {s} : start'[r] = start[r]) /\ StartTypes'
      BY <1>4, <2>2 DEF StartTypes
    <2> HIDE DEF entry, next
    <2>5. RowTypes' /\ OwedTypes' /\ WorldTypes'
      BY <1>1, <1>4, <2>3 DEF RowTypes, OwedTypes, WorldTypes
    <2>6. Alone(s) /\ NameKept(s) /\ TakesFree(s)
      BY <1>1, <1>2, <2>2, <2>3, <2>4 DEF Alone, NameKept, TakesFree, Dispatched
    <2>7. session'[s] # None
      BY <2>1, <2>3
    <2>8. RowSound(s)' /\ ListSound(s)' /\ Reported(s)'
      BY <1>1, <1>2, <2>1, <2>3, <2>7 DEF SessionSound, RowSound, ListSound, Reported
    <2>9. StartSound(s)'
      BY <1>1, <1>2, <2>1, <2>2, <2>3, <2>4, <2>7 DEF StartSound, At, Named, Unsent
    <2>10. ActsOn(s)
      BY <1>1, <1>3, <2>4, <2>5, <2>6, <2>7, <2>8, <2>9 DEF ActsOn, SessionSound
    <2> QED
      BY <1>1, <2>10, ActsOnSound
  <1>5. CASE /\ Discard(h)
             /\ start' = [start EXCEPT ![s].pc = "deciding", ![s].result = "failed"]
             /\ UNCHANGED session
    <2> DEFINE next == [start[s] EXCEPT !.pc = "deciding", !.result = "failed"]
    <2>1. /\ next \in [pc : {"none", "fresh", "preparing", "recording",
                              "dispatching", "answering", "deciding"},
                        thread : Threads \cup {None},
                        result : {None, "ok", "uncertain", "offline", "failed"}]
          /\ next.pc = "deciding" /\ next.result = "failed" /\ next.thread = h
      OBVIOUS
    <2>2. start' = [start EXCEPT ![s] = next] /\ start'[s] = next
      BY <1>5 DEF StartTypes
    <2> HIDE DEF next
    <2>3. WorldTypes' /\ TakesFree(s)
      BY <1>1, <1>2, <1>5, <2>1, <2>2, DiscardTypes DEF TakesFree
    <2>4. StartSound(s)'
      BY <1>1, <1>2, <1>5, <2>1, <2>2 DEF StartSound, At
    <2>5. ActsOn(s)
      BY <1>1, <1>2, <1>3, <1>5, <2>1, <2>2, <2>3, <2>4, StartGoesOn
    <2> QED
      BY <1>1, <2>5, ActsOnSound
  <1> QED
    BY <1>4, <1>5 DEF StartRecord

(* The command is on its way to T3 under the name the row has, or nothing  *)
(* was sent.                                                               *)
LEMMA StartDispatchSound ==
    ASSUME RelayInv, NEW s \in Sessions, StartDispatch(s)
    PROVE  RelayInv'
  <1> USE InvParts, Distinct, StartTyped
  <1> DEFINE h == start[s].thread
  <1>1. /\ UNCHANGED <<inboxVars, crashes, session, listed, owed>>
        /\ Fault \/ UNCHANGED faults
        /\ start[s].pc = "dispatching"
    BY DEF StartDispatch, At
  <1>2. /\ session[s] # None /\ session[s].state = "starting"
        /\ h \in Threads /\ conv[h] = "none" /\ session[s].thread = h
    BY <1>1 DEF SessionSound, StartSound, At, Named, Unsent
  <1>3. CASE /\ conv' = [conv EXCEPT ![start[s].thread] = "inflight"]
             /\ start' = [start EXCEPT ![s].pc = "answering"]
             /\ UNCHANGED thread
    <2> DEFINE next == [start[s] EXCEPT !.pc = "answering"]
    <2>1. /\ next \in [pc : {"none", "fresh", "preparing", "recording",
                          "dispatching", "answering", "deciding"},
                    thread : Threads \cup {None},
                    result : {None, "ok", "uncertain", "offline", "failed"}]
          /\ next.pc = "answering" /\ next.thread = h
      OBVIOUS
    <2>2. start' = [start EXCEPT ![s] = next] /\ start'[s] = next
      BY <1>3 DEF StartTypes
    <2> HIDE DEF next
    <2>3. WorldTypes' /\ TakesFree(s) /\ SendsOwn(s)
      BY <1>1, <1>2, <1>3, <2>1, <2>2 DEF WorldTypes, TakesFree, SendsOwn
    <2>4. StartSound(s)'
      BY <1>1, <1>2, <2>1, <2>2 DEF StartSound, At, Named
    <2>5. ActsOn(s)
      BY <1>1, <2>1, <2>2, <2>3, <2>4, StartGoesOn
    <2> QED
      BY <1>1, <2>5, ActsOnSound
  <1>4. CASE /\ Discard(start[s].thread)
             /\ start' = [start EXCEPT ![s].pc = "deciding", ![s].result = "offline"]
             /\ UNCHANGED conv
    <2> DEFINE next == [start[s] EXCEPT !.pc = "deciding", !.result = "offline"]
    <2>1. /\ next \in [pc : {"none", "fresh", "preparing", "recording",
                          "dispatching", "answering", "deciding"},
                    thread : Threads \cup {None},
                    result : {None, "ok", "uncertain", "offline", "failed"}]
          /\ next.pc = "deciding" /\ next.result = "offline" /\ next.thread = h
      OBVIOUS
    <2>2. start' = [start EXCEPT ![s] = next] /\ start'[s] = next
      BY <1>4 DEF StartTypes
    <2> HIDE DEF next
    <2>3. WorldTypes' /\ TakesFree(s) /\ SendsOwn(s)
      BY <1>1, <1>2, <1>4, <2>1, <2>2, DiscardTypes DEF TakesFree, SendsOwn
    <2>4. StartSound(s)'
      BY <1>1, <1>2, <1>4, <2>1, <2>2 DEF StartSound, At, Named, Unsent
    <2>5. ActsOn(s)
      BY <1>1, <2>1, <2>2, <2>3, <2>4, StartGoesOn
    <2> QED
      BY <1>1, <2>5, ActsOnSound
  <1> QED
    BY <1>3, <1>4 DEF StartDispatch

(* Whatever the answer is, the row still names the thread. *)
LEMMA StartAnswerSound ==
    ASSUME RelayInv, NEW s \in Sessions, StartAnswer(s)
    PROVE  RelayInv'
  <1> USE InvParts, Distinct, StartTyped
  <1> DEFINE h == start[s].thread
  <1>1. /\ UNCHANGED <<inboxVars, bounds, session, listed, conv, owed>>
        /\ start[s].pc = "answering"
    BY DEF StartAnswer, At
  <1>2. /\ session[s] # None /\ session[s].state = "starting"
        /\ h \in Threads /\ session[s].thread = h
    BY <1>1 DEF SessionSound, StartSound, At, Named
  <1>3. PICK result \in {"ok", "failed", "uncertain"} :
            /\ start' = [start EXCEPT ![s].pc = "deciding", ![s].result = result]
            /\ UNCHANGED thread \/ Discard(h)
    BY DEF StartAnswer
  <1> DEFINE next == [start[s] EXCEPT !.pc = "deciding", !.result = result]
  <1>4. /\ next \in [pc : {"none", "fresh", "preparing", "recording",
                        "dispatching", "answering", "deciding"},
                  thread : Threads \cup {None},
                  result : {None, "ok", "uncertain", "offline", "failed"}]
        /\ next.pc = "deciding" /\ next.result = result /\ next.thread = h
    OBVIOUS
  <1>5. start' = [start EXCEPT ![s] = next] /\ start'[s] = next
    BY <1>3 DEF StartTypes
  <1> HIDE DEF next
  <1>6. WorldTypes'
    <2>1. CASE UNCHANGED thread
      BY <1>1, <2>1 DEF WorldTypes
    <2>2. CASE Discard(h)
      BY <1>1, <1>2, <2>2, DiscardTypes
    <2> QED
      BY <1>3, <2>1, <2>2
  <1>7. TakesFree(s) /\ SendsOwn(s)
    BY <1>1, <1>4, <1>5 DEF TakesFree, SendsOwn
  <1>8. StartSound(s)'
    BY <1>1, <1>2, <1>4, <1>5 DEF StartSound, At, Named
  <1>9. ActsOn(s)
    BY <1>1, <1>4, <1>5, <1>6, <1>7, <1>8, StartGoesOn
  <1> QED
    BY <1>1, <1>9, ActsOnSound DEF bounds

(* What an outcome makes of the row, and what it owes. *)
LEMMA OutcomeSound ==
    ASSUME NEW entry \in Row, NEW h \in Threads \cup {None},
           NEW result \in {"ok", "uncertain", "offline", "failed"}
    PROVE  /\ Outcome(entry, h, result).row \in Row
           /\ Outcome(entry, h, result).row.thread = IF result = "offline" THEN None ELSE h
           /\ Outcome(entry, h, result).row.state =
                  IF result = "offline" THEN "accepted"
                  ELSE IF result = "failed" THEN "done" ELSE "started"
           /\ Outcome(entry, h, result).owed \in SUBSET Purposes
           /\ result \in {"ok", "uncertain"} =>
                  Outcome(entry, h, result).owed \cap {"started", "uncertain"} # {}
           /\ result = "failed" => "failed" \in Outcome(entry, h, result).owed
  <1>1. CASE result = "ok"
    BY <1>1 DEF Outcome, Row, Purposes
  <1>2. CASE result = "uncertain"
    BY <1>2 DEF Outcome, Row, Purposes
  <1>3. CASE result = "offline"
    BY <1>3 DEF Outcome, Row, Purposes
  <1>4. CASE result = "failed"
    BY <1>4 DEF Outcome, Row, Purposes
  <1> QED
    BY <1>1, <1>2, <1>3, <1>4

(***************************************************************************)
(* The outcome takes the thread's name off the row only when nothing was   *)
(* sent under it; an outcome that cannot be recorded leaves the row with   *)
(* the thread, to be found by the next round.                              *)
(***************************************************************************)
LEMMA StartDecideSound ==
    ASSUME RelayInv, NEW s \in Sessions, StartDecide(s)
    PROVE  RelayInv'
  <1> USE InvParts, Distinct, StartTyped
  <1> DEFINE h == start[s].thread
             result == start[s].result
             outcome == Outcome(session[s], h, result)
  <1>1. /\ UNCHANGED <<inboxVars, crashes, listed, thread, conv>>
        /\ Fault \/ UNCHANGED faults
        /\ start[s].pc = "deciding"
        /\ start' = [start EXCEPT ![s] = NoStart]
    BY DEF StartDecide, At
  <1>2. /\ session[s] # None /\ session[s].state = "starting" /\ session[s] \in Row
        /\ result \in {"ok", "uncertain", "offline", "failed"}
        /\ result \in {"ok", "uncertain"} => Named(s)
        /\ result = "offline" => Unnamed(s) \/ (Named(s) /\ Unsent(s))
        /\ result = "failed" => session[s].thread \in {None, h}
        /\ h \in Threads \cup {None}
    BY <1>1 DEF SessionSound, StartSound, At
  <1>3. /\ start'[s] = NoStart /\ (\A r \in Sessions \ {s} : start'[r] = start[r]) /\ StartTypes'
    BY <1>1 DEF StartTypes, NoStart
  <1>4. listed' \in [Sessions -> Row \cup {None}] /\ WorldTypes'
    BY <1>1 DEF RowTypes, WorldTypes
  <1>5. SendsOwn(s) /\ TakesFree(s)
    BY <1>1, <1>3 DEF SendsOwn, TakesFree, NoStart
  <1>6. CASE UpdateSession(s, outcome.row, outcome.owed)
    <2>1. /\ outcome.row \in Row
          /\ outcome.row.thread = IF result = "offline" THEN None ELSE h
          /\ outcome.row.state = IF result = "offline" THEN "accepted"
                                 ELSE IF result = "failed" THEN "done" ELSE "started"
          /\ outcome.owed \in SUBSET Purposes
          /\ result \in {"ok", "uncertain"} => outcome.owed \cap {"started", "uncertain"} # {}
          /\ result = "failed" => "failed" \in outcome.owed
      <3> DEFINE old == session[s]
      <3>1. old \in Row /\ h \in Threads \cup {None}
            /\ result \in {"ok", "uncertain", "offline", "failed"}
        BY <1>2
      <3> HIDE DEF h, result, old
      <3>2. outcome = Outcome(old, h, result)
        BY DEF old
      <3> HIDE DEF outcome
      <3> QED
        BY <3>1, <3>2, OutcomeSound
    <2> DEFINE entry == outcome.row
               calls == outcome.owed
    <2>2. UpdateSession(s, entry, calls)
      BY <1>6
    <2> HIDE DEF outcome, entry, calls
    <2>3. entry \in Row /\ calls \in SUBSET Purposes
      BY <2>1 DEF entry, calls
    <2>4. /\ entry.thread = IF result = "offline" THEN None ELSE h
          /\ entry.state = IF result = "offline" THEN "accepted"
                         ELSE IF result = "failed" THEN "done" ELSE "started"
          /\ result \in {"ok", "uncertain"} => calls \cap {"started", "uncertain"} # {}
          /\ result = "failed" => "failed" \in calls
      BY <2>1 DEF entry, calls
    <2>5. /\ session'[s] = entry /\ owed'[s] = owed[s] \cup calls
          /\ \A r \in Sessions \ {s} : session'[r] = session[r] /\ owed'[r] = owed[r]
          /\ session' \in [Sessions -> Row \cup {None}] /\ OwedTypes'
      BY <2>2, <2>3, Updated
    <2>6. session'[s] # None /\ owed[s] \subseteq owed'[s]
      BY <2>3, <2>5
    <2>7. NameKept(s)
      <3>1. CASE result = "offline"
        BY <1>2, <2>4, <2>5, <3>1 DEF NameKept, Dispatched, Unnamed, Named, Unsent
      <3>2. CASE result \in {"ok", "uncertain"}
        BY <2>4, <2>5, <3>2, <1>2 DEF NameKept, Named
      <3>3. CASE result = "failed"
        BY <2>4, <2>5, <3>3, <1>2 DEF NameKept, Dispatched
      <3> QED
        BY <1>2, <3>1, <3>2, <3>3
    <2>8. Alone(s)
      BY <1>1, <1>3, <2>5 DEF Alone
    <2>9. RowSound(s)'
      BY <1>2, <2>4, <2>5 DEF RowSound, Named
    <2>10. ListSound(s)'
      BY <1>1, <1>2, <2>6 DEF SessionSound, ListSound
    <2>11. Reported(s)'
      BY <1>2, <2>4, <2>5 DEF SessionSound, Reported
    <2>12. StartSound(s)'
      BY <1>3, <2>6 DEF StartSound, At, NoStart
    <2>13. ActsOn(s)
      BY <1>3, <1>4, <1>5, <2>5, <2>6, <2>7, <2>8, <2>9, <2>10, <2>11, <2>12
         DEF ActsOn, SessionSound, RowTypes
    <2> QED
      BY <1>1, <2>13, ActsOnSound
  <1>7. CASE UNCHANGED <<session, owed>>
    <2>1. RowTypes' /\ OwedTypes'
      BY <1>1, <1>7 DEF RowTypes, OwedTypes
    <2>2. Alone(s) /\ NameKept(s)
      BY <1>1, <1>3, <1>7 DEF Alone, NameKept
    <2>3. SessionSound(s)'
      BY <1>1, <1>3, <1>7 DEF SessionSound, RowSound, ListSound, Reported, StartSound, At, NoStart
    <2>4. ActsOn(s)
      BY <1>3, <1>4, <1>5, <1>7, <2>1, <2>2, <2>3 DEF ActsOn
    <2> QED
      BY <1>1, <2>4, ActsOnSound
  <1> QED
    BY <1>6, <1>7 DEF StartDecide

-----------------------------------------------------------------------------
(* The inbox.                                                              *)

(* Of the pending deliveries, only an accepted one is more. *)
LEMMA PendingKept ==
    ASSUME RelayInv, Pending' \subseteq Pending
    PROVE  IsFiniteSet(Pending)' /\ Cardinality(Pending)' <= Capacity
  <1>1. IsFiniteSet(Pending) /\ Cardinality(Pending) <= Capacity
    BY InvParts DEF InboxSound, InboxTypeOK
  <1>2. IsFiniteSet(Pending') /\ Cardinality(Pending') <= Cardinality(Pending)
    BY <1>1, FS_Subset
  <1>3. Cardinality(Pending) \in Nat /\ Cardinality(Pending') \in Nat /\ Capacity \in Nat
    BY <1>1, <1>2, FS_CardinalityType, InboxAssumption
  <1> QED
    BY <1>1, <1>2, <1>3

(* A step of the inbox that leaves the sessions alone. *)
LEMMA RelayKept ==
    ASSUME RelayInv, UNCHANGED <<relayVars, owed>>, InboxTypeOK', InboxSound', AckedNotLost'
    PROVE  RelayInv'
  <1> USE InvParts
  <1>1. UNCHANGED <<session, listed, start, thread, conv, owed>>
    BY DEF relayVars
  <1>2. RowTypes' /\ StartTypes' /\ WorldTypes' /\ OwedTypes'
    BY <1>1 DEF RowTypes, StartTypes, WorldTypes, OwedTypes
  <1>3. OneConversation' /\ OwnThread'
    BY <1>1 DEF OneConversation, Dispatched, OwnThread
  <1>4. \A s \in Sessions : SessionSound(s)'
    BY <1>1 DEF SessionSound, RowSound, ListSound, Reported, StartSound, At, Named, Unnamed, Unsent
  <1> QED
    BY <1>2, <1>3, <1>4, PartsInv

(* The types of the inbox, with the count of the pending apart. *)
LEMMA InboxTypes ==
    ASSUME inbox' \in [Deliveries -> {"absent", "due", "backoff", "done"}],
           Cardinality(Pending)' <= Capacity, acked' \in SUBSET Deliveries,
           work' \in [delivery : Deliveries \cup {None},
                      phase : {"idle", "handling", "completing", "failing"}],
           faults' \in 0 .. MaxFaults, crashes' \in 0 .. MaxCrashes
    PROVE  InboxTypeOK'
    BY DEF InboxTypeOK

(* An inbox step keeps what is acknowledged, as an effect or pending.      *)
LEMMA InboxStepSound ==
    ASSUME RelayInv, NEW d \in Deliveries, InboxStep(d)
    PROVE  RelayInv'
  <1> USE InvParts, Distinct
  <1>1. UNCHANGED <<session, owed>> /\ UNCHANGED <<relayVars, owed>>
    BY DEF InboxStep, relayVars
  <1>2. \A c : TookEffect(c)' <=> TookEffect(c)
    BY <1>1 DEF TookEffect
  <1>3. /\ inbox \in [Deliveries -> {"absent", "due", "backoff", "done"}]
        /\ acked \in SUBSET Deliveries
        /\ work \in [delivery : Deliveries \cup {None},
                      phase : {"idle", "handling", "completing", "failing"}]
        /\ faults \in 0 .. MaxFaults /\ crashes \in 0 .. MaxCrashes
    BY DEF InboxTypeOK
  <1>4. CASE Accept(d)
    <2>1. /\ inbox[d] = "absent" /\ inbox' = [inbox EXCEPT ![d] = "due"]
          /\ acked' = acked \cup {d} /\ UNCHANGED <<work, faults, crashes>>
          /\ Cardinality(Pending) < Capacity
      BY <1>4 DEF Accept, bounds
    <2>2. Pending' = Pending \cup {d} /\ d \notin Pending
      BY <1>3, <2>1 DEF Pending
    <2>3. IsFiniteSet(Pending) /\ Cardinality(Pending) \in Nat /\ Capacity \in Nat
      BY FS_CardinalityType, InboxAssumption DEF InboxSound
    <2>4. IsFiniteSet(Pending') /\ Cardinality(Pending') = Cardinality(Pending) + 1
      BY <2>2, <2>3, FS_AddElement
    <2>5. InboxTypeOK'
      BY <1>3, <2>1, <2>3, <2>4, InboxTypes
    <2>6. InboxSound'
      BY <1>2, <1>3, <2>1, <2>4 DEF InboxSound, Idle
    <2>7. AckedNotLost'
      BY <1>2, <1>3, <2>1, <2>2 DEF AckedNotLost
    <2> QED
      BY <1>1, <2>5, <2>6, <2>7, RelayKept
  <1>5. CASE ProcessBegin(d) \/ ProcessFails(d)
    <2>1. /\ UNCHANGED <<inbox, acked, crashes>> /\ (Fault \/ UNCHANGED faults)
          /\ work'.delivery = d /\ work'.phase \in {"handling", "failing"}
          /\ work' \in [delivery : Deliveries \cup {None},
                         phase : {"idle", "handling", "completing", "failing"}]
          /\ inbox[d] = "due"
      BY <1>3, <1>5 DEF ProcessBegin, ProcessFails, bounds, InboxSound, Idle
    <2>2. Pending' = Pending
      BY <2>1 DEF Pending
    <2>3. InboxTypeOK'
      BY <1>3, <2>1, <2>2, FaultType, InboxTypes DEF InboxTypeOK
    <2>4. InboxSound'
      BY <1>2, <1>3, <2>1, <2>2 DEF InboxSound, Idle
    <2>5. AckedNotLost'
      BY <1>2, <2>1, <2>2 DEF AckedNotLost
    <2> QED
      BY <1>1, <2>3, <2>4, <2>5, RelayKept
  <1>6. CASE ProcessRecorded(d)
    <2>1. /\ work.delivery = d /\ work.phase \in {"completing", "failing"} /\ work' = Idle
          /\ UNCHANGED <<acked, crashes>> /\ (Fault \/ UNCHANGED faults)
          /\ \/ inbox' = [inbox EXCEPT ![d] = IF work.phase = "completing"
                                             THEN "done" ELSE "backoff"]
             \/ UNCHANGED inbox
      BY <1>6 DEF ProcessRecorded
    <2>2. inbox[d] = "due" /\ (work.phase = "completing" => TookEffect(d))
      BY <2>1 DEF InboxSound, Idle
    <2>3. /\ inbox' \in [Deliveries -> {"absent", "due", "backoff", "done"}]
          /\ \A c \in Deliveries \ {d} : inbox'[c] = inbox[c]
          /\ inbox'[d] = "done" => TookEffect(d)
          /\ inbox'[d] \in {"due", "backoff"} \/ TookEffect(d)
      BY <1>3, <2>1, <2>2
    <2>4. Pending' \subseteq Pending
      BY <2>2, <2>3 DEF Pending
    <2>5. IsFiniteSet(Pending)' /\ Cardinality(Pending)' <= Capacity
      BY <2>4, PendingKept
    <2>6. Idle \in [delivery : Deliveries \cup {None},
                    phase : {"idle", "handling", "completing", "failing"}]
      BY DEF Idle
    <2>7. InboxTypeOK'
      BY <1>3, <2>1, <2>3, <2>5, <2>6, FaultType, InboxTypes
    <2>8. InboxSound'
      BY <1>2, <2>1, <2>3, <2>5 DEF InboxSound, Idle
    <2>9. AckedNotLost'
      BY <1>2, <1>3, <2>1, <2>3 DEF AckedNotLost, Pending
    <2> QED
      BY <1>1, <2>7, <2>8, <2>9, RelayKept
  <1>7. CASE BackoffOver(d)
    <2>1. /\ inbox[d] = "backoff" /\ inbox' = [inbox EXCEPT ![d] = "due"]
          /\ UNCHANGED <<acked, work, faults, crashes>>
      BY <1>7 DEF BackoffOver, bounds
    <2>2. Pending' = Pending /\ inbox' \in [Deliveries -> {"absent", "due", "backoff", "done"}]
      BY <1>3, <2>1 DEF Pending
    <2>3. InboxTypeOK'
      BY <1>3, <2>1, <2>2, InboxTypes DEF InboxTypeOK
    <2>4. InboxSound'
      BY <1>2, <1>3, <2>1, <2>2 DEF InboxSound, Idle
    <2>5. AckedNotLost'
      BY <1>2, <2>1, <2>2 DEF AckedNotLost
    <2> QED
      BY <1>1, <2>3, <2>4, <2>5, RelayKept
  <1>8. CASE Prune(d)
    <2>1. /\ inbox[d] = "done" /\ inbox' = [inbox EXCEPT ![d] = "absent"]
          /\ UNCHANGED <<acked, work, faults, crashes>>
      BY <1>8 DEF Prune, bounds
    <2>2. Pending' = Pending /\ inbox' \in [Deliveries -> {"absent", "due", "backoff", "done"}]
      BY <1>3, <2>1 DEF Pending
    <2>3. InboxTypeOK'
      BY <1>3, <2>1, <2>2, InboxTypes DEF InboxTypeOK
    <2>4. InboxSound'
      BY <1>2, <1>3, <2>1, <2>2 DEF InboxSound, Idle
    <2>5. AckedNotLost'
      BY <1>2, <2>1, <2>2 DEF AckedNotLost, InboxSound
    <2> QED
      BY <1>1, <2>3, <2>4, <2>5, RelayKept
  <1> QED
    BY <1>4, <1>5, <1>6, <1>7, <1>8 DEF InboxStep

(* What processing a delivery comes to: calls are owed, and a session that *)
(* was not known has a row.                                                *)
Handled(d, entry, calls) ==
    LET s == SessionOf[d] IN
    /\ calls \in SUBSET Purposes /\ owed' = [owed EXCEPT ![s] = @ \cup calls]
    /\ \/ session' = session
       \/ /\ session[s] = None /\ entry \in Row /\ entry.thread = None /\ KindOf[d] # "prompted"
          /\ session' = [session EXCEPT ![s] = entry]
          /\ entry.state = "accepted" \/ (entry.state = "done" /\ "refused" \in calls)
    /\ KindOf[d] = "prompted" => d \in calls
    /\ KindOf[d] # "prompted" => session'[s] # None /\ calls \cap {"ack", "refused"} # {}

(* Processing a delivery records the session with its first answer. *)
LEMMA ProcessSound ==
    ASSUME RelayInv, NEW d \in Deliveries, Process(d)
    PROVE  RelayInv'
  <1> USE InvParts, Distinct
  <1> DEFINE s == SessionOf[d]
  <1>1. s \in Sessions /\ KindOf[d] \in {"mention", "bare", "prompted"}
    BY RelayAssumption
  <1>2. /\ UNCHANGED <<inbox, acked, crashes, listed, start, thread, conv>>
        /\ Fault \/ UNCHANGED faults
        /\ work = [delivery |-> d, phase |-> "handling"]
        /\ work' = [delivery |-> d, phase |-> "completing"]
           \/ work' = [delivery |-> d, phase |-> "failing"]
    BY DEF Process, ProcessHandled
  <1>3. PICK entry, calls : Handled(d, entry, calls)
    <2>1. CASE KindOf[d] = "prompted"
      <3>1. owed' = [owed EXCEPT ![s] = @ \cup {d}] /\ session' = session
        BY <2>1 DEF Process, Prompted, Enqueue
      <3>2. {d} \in SUBSET Purposes
        BY DEF Purposes
      <3> QED
        BY <2>1, <3>1, <3>2 DEF Handled
    <2>2. ASSUME NEW state \in {"accepted", "done"}, NEW purpose \in {"ack", "refused"},
                 state = "done" => purpose = "refused", Created(s, state, purpose),
                 KindOf[d] # "prompted"
          PROVE  \E entry, calls : Handled(d, entry, calls)
      <3>1. owed' = [owed EXCEPT ![s] = @ \cup {purpose}] /\ {purpose} \in SUBSET Purposes
        BY <2>2 DEF Created, UpdateSession, Enqueue, Purposes
      <3>2. session' = [session EXCEPT ![s] = IF session[s] = None THEN NewRow(state)
                                              ELSE session[s]]
        BY <2>2 DEF Created, UpdateSession
      <3>3. /\ NewRow(state) \in Row /\ NewRow(state).thread = None
            /\ NewRow(state).state = state
        BY DEF NewRow, Row
      <3>4. session[s] # None => session' = session /\ session'[s] # None
        BY <1>1, <3>2 DEF RowTypes
      <3>5. session[s] = None => session' = [session EXCEPT ![s] = NewRow(state)]
                                 /\ session'[s] # None
        BY <1>1, <3>2, <3>3 DEF RowTypes
      <3>6. {purpose} \cap {"ack", "refused"} # {}
        OBVIOUS
      <3>7. state = "accepted" \/ (state = "done" /\ "refused" \in {purpose})
        BY <2>2
      <3> QED
        BY <2>2, <3>1, <3>3, <3>4, <3>5, <3>6, <3>7 DEF Handled
    <2>3. CASE KindOf[d] = "mention"
      BY <2>2, <2>3 DEF Process
    <2>4. CASE KindOf[d] = "bare"
      BY <2>2, <2>4 DEF Process
    <2> QED
      BY <1>1, <2>1, <2>3, <2>4
  <1>4. /\ calls \in SUBSET Purposes /\ owed' = [owed EXCEPT ![s] = @ \cup calls]
        /\ \/ session' = session
           \/ /\ session[s] = None /\ entry \in Row /\ entry.thread = None /\ KindOf[d] # "prompted"
              /\ session' = [session EXCEPT ![s] = entry]
              /\ entry.state = "accepted" \/ (entry.state = "done" /\ "refused" \in calls)
        /\ KindOf[d] = "prompted" => d \in calls
        /\ KindOf[d] # "prompted" => session'[s] # None /\ calls \cap {"ack", "refused"} # {}
    BY <1>3 DEF Handled
  <1> HIDE DEF s
  <1>5. /\ owed'[s] = owed[s] \cup calls /\ (\A r \in Sessions \ {s} : owed'[r] = owed[r])
        /\ OwedTypes'
    BY <1>1, <1>4 DEF OwedTypes
  <1>6. /\ session' \in [Sessions -> Row \cup {None}]
        /\ \A r \in Sessions \ {s} : session'[r] = session[r]
        /\ session[s] # None => session'[s] = session[s]
        /\ session[s] = None => session'[s] = None \/ (session'[s] = entry /\ entry \in Row)
    BY <1>1, <1>4 DEF RowTypes
  <1>7. listed' \in [Sessions -> Row \cup {None}] /\ StartTypes' /\ WorldTypes'
    BY <1>2 DEF RowTypes, StartTypes, WorldTypes
  <1>8. Alone(s) /\ SendsOwn(s) /\ NameKept(s) /\ TakesFree(s)
    BY <1>2, <1>5, <1>6 DEF Alone, SendsOwn, NameKept, TakesFree
  <1>9. SessionSound(s)'
    <2>1. SessionSound(s)
      BY <1>1
    <2>2. CASE session'[s] = session[s]
      BY <1>2, <1>5, <2>1, <2>2 DEF SessionSound, RowSound, ListSound, Reported, StartSound,
                                    At, Named, Unnamed, Unsent
    <2>3. CASE /\ session[s] = None /\ session'[s] = entry /\ entry \in Row /\ entry.thread = None
               /\ entry.state = "accepted" \/ (entry.state = "done" /\ "refused" \in calls)
               /\ calls \cap {"ack", "refused"} # {}
      <3>1. listed[s] = None /\ At(s, "none") /\ start[s] = NoStart
        BY <2>1, <2>3 DEF SessionSound, ListSound, StartSound
      <3>2. RowSound(s)' /\ ListSound(s)' /\ Reported(s)'
        BY <1>2, <1>5, <2>3, <3>1 DEF RowSound, ListSound, Reported
      <3>3. StartSound(s)'
        BY <1>2, <2>3, <3>1 DEF StartSound, At, NoStart
      <3> QED
        BY <3>2, <3>3 DEF SessionSound
    <2> QED
      BY <1>1, <1>4, <1>6, <2>2, <2>3 DEF RowTypes
  <1>10. EffectsKept /\ OneConversation' /\ OwnThread' /\ \A r \in Sessions : SessionSound(r)'
    BY <1>1, <1>5, <1>6, <1>7, <1>8, <1>9, ActsAlone DEF RowTypes
  <1>11. TookEffect(d)'
    BY <1>4, <1>5 DEF TookEffect, s
  <1>12. /\ inbox \in [Deliveries -> {"absent", "due", "backoff", "done"}]
         /\ acked \in SUBSET Deliveries /\ Cardinality(Pending) <= Capacity
         /\ faults' \in 0 .. MaxFaults /\ crashes \in 0 .. MaxCrashes
    BY <1>2, FaultType DEF InboxTypeOK
  <1>13. Pending' = Pending
    BY <1>2 DEF Pending
  <1>14. InboxTypeOK'
    BY <1>2, <1>12, <1>13, InboxTypes
  <1>15. inbox[d] = "due"
    BY <1>2 DEF InboxSound, Idle
  <1>16. InboxSound'
    <2>1. IsFiniteSet(Pending)'
      BY <1>13 DEF InboxSound
    <2>2. work'.delivery = d /\ work'.phase \in {"completing", "failing"}
      BY <1>2
    <2>3. work'.phase = "completing" => TookEffect(work.delivery)'
      BY <1>11, <2>2 DEF TookEffect
    <2>4. \A c \in Deliveries : inbox'[c] = "done" => TookEffect(c)'
      BY <1>2, <1>10, EffectKept DEF InboxSound
    <2> QED
      BY <1>2, <1>15, <2>1, <2>2, <2>3, <2>4 DEF InboxSound
  <1>17. AckedNotLost'
    BY <1>2, <1>10, <1>12, <1>13, EffectKept DEF AckedNotLost
  <1> QED
    BY <1>5, <1>6, <1>7, <1>10, <1>14, <1>16, <1>17, PartsInv DEF RowTypes

-----------------------------------------------------------------------------
(* T3, and the restart.                                                    *)

(* T3 decides on what it was sent, and reports of what it holds. *)
LEMMA WorldSound ==
    ASSUME RelayInv, NEW h \in Threads, T3Decides(h) \/ T3Reports(h) \/ ThreadLost(h)
    PROVE  RelayInv'
  <1> USE InvParts, Distinct
  <1>1. UNCHANGED <<inboxVars, bounds, session, listed, start, owed>>
    BY DEF T3Decides, T3Reports, ThreadLost
  <1>2. WorldTypes'
    BY DEF T3Decides, T3Reports, ThreadLost, WorldTypes, TurnMoves, Reading
  <1>3. RowTypes' /\ StartTypes' /\ OwedTypes'
    BY <1>1 DEF RowTypes, StartTypes, OwedTypes
  <1>4. EffectsKept
    BY <1>1 DEF EffectsKept
  <1>5. InboxTypeOK' /\ InboxSound' /\ AckedNotLost'
    BY <1>1, <1>4, InboxKept DEF bounds, InboxTypeOK
  <1>6. \A k \in Threads : \/ conv'[k] = conv[k]
                           \/ k \in Dispatched /\ conv[k] = "inflight"
    BY DEF T3Decides, T3Reports, ThreadLost, Dispatched, WorldTypes
  <1>7. Dispatched' \subseteq Dispatched
    BY <1>6 DEF Dispatched
  <1>8. OneConversation' /\ OwnThread'
    BY <1>1, <1>7 DEF OneConversation, OwnThread
  <1>9. ASSUME NEW s \in Sessions PROVE SessionSound(s)'
    <2>1. SessionSound(s)
      OBVIOUS
    <2>2. Unsent(s) => Unsent(s)'
      BY <1>1, <1>6 DEF Unsent
    <2> QED
      BY <1>1, <2>1, <2>2 DEF SessionSound, RowSound, ListSound, Reported, StartSound,
                             At, Named, Unnamed
  <1> QED
    BY <1>2, <1>3, <1>5, <1>8, <1>9, PartsInv

(* What is lost with the process is known again from the rows. *)
LEMMA RestartSound ==
    ASSUME RelayInv, Restart
    PROVE  RelayInv'
  <1> USE InvParts, Distinct
  <1>1. /\ work' = Idle /\ crashes' \in 0 .. MaxCrashes
        /\ listed' = [s \in Sessions |-> None]
        /\ start' = [s \in Sessions |-> NoStart]
        /\ UNCHANGED <<inbox, acked, faults, session, thread, conv, owed>>
    BY InboxAssumption DEF Restart, InboxTypeOK
  <1>2. RowTypes' /\ StartTypes' /\ WorldTypes' /\ OwedTypes'
    BY <1>1 DEF RowTypes, StartTypes, WorldTypes, OwedTypes, NoStart
  <1>3. Pending' = Pending /\ \A d : TookEffect(d)' <=> TookEffect(d)
    BY <1>1 DEF Pending, TookEffect
  <1>4. Idle \in [delivery : Deliveries \cup {None},
                  phase : {"idle", "handling", "completing", "failing"}]
        /\ Idle.phase = "idle"
    BY DEF Idle
  <1>5. InboxTypeOK'
    BY <1>1, <1>3, <1>4, InboxTypes DEF InboxTypeOK
  <1>6. InboxSound' /\ AckedNotLost'
    BY <1>1, <1>3, <1>4 DEF InboxSound, AckedNotLost, InboxTypeOK
  <1>7. OneConversation'
    BY <1>1 DEF OneConversation, Dispatched
  <1>8. OwnThread'
    BY <1>1 DEF OwnThread, NoStart
  <1>9. ASSUME NEW s \in Sessions PROVE SessionSound(s)'
    <2>1. SessionSound(s) /\ listed'[s] = None /\ start'[s] = NoStart
      BY <1>1
    <2> QED
      BY <1>1, <2>1 DEF SessionSound, RowSound, ListSound, Reported, StartSound, At, NoStart
  <1> QED
    BY <1>2, <1>5, <1>6, <1>7, <1>8, <1>9, PartsInv

-----------------------------------------------------------------------------
(* The theorem.                                                            *)

(* Nothing has happened yet. *)
LEMMA InitSound == Init => RelayInv
  <1> SUFFICES ASSUME Init PROVE RelayInv
    OBVIOUS
  <1>1. Pending = {} /\ acked = {} /\ work = Idle /\ faults = 0 /\ crashes = 0
    BY DEF Init, InboxInit, Pending
  <1>2. InboxTypeOK
    BY <1>1, FS_EmptySet, InboxAssumption DEF Init, InboxInit, InboxTypeOK, Idle
  <1>3. TypeOK
    BY <1>2 DEF Init, TypeOK, NoStart, Reading
  <1>4. AckedNotLost /\ OneConversation /\ StateReported
    BY <1>1 DEF Init, AckedNotLost, OneConversation, Dispatched, StateReported
  <1>5. InboxSound
    BY <1>1, FS_EmptySet DEF Init, InboxInit, InboxSound, Idle
  <1>6. RelaySound
    BY DEF Init, RelaySound, RowSound, ListSound, StartSound, OwnThread, At, NoStart
  <1> QED
    BY <1>3, <1>4, <1>5, <1>6 DEF RelayInv, MentionsHonoured

(* Every step keeps the invariant. *)
LEMMA NextSound ==
    ASSUME RelayInv, [Next]_vars
    PROVE  RelayInv'
  <1>1. CASE \E d \in Deliveries : InboxStep(d) \/ Process(d)
    BY <1>1, InboxStepSound, ProcessSound
  <1>2. CASE LoopList
    BY <1>2, LoopListSound
  <1>3. CASE \E s \in Sessions : LoopAct(s) \/ GracePasses(s) \/ StartStep(s)
    BY <1>3, LoopActSound, GraceSound, StartMarkSound, StartPrepareSound, StartRecordSound,
       StartDispatchSound, StartAnswerSound, StartDecideSound DEF StartStep
  <1>4. CASE \E h \in Threads : T3Decides(h) \/ T3Reports(h) \/ ThreadLost(h)
    BY <1>4, WorldSound
  <1>5. CASE Restart
    BY <1>5, RestartSound
  <1>6. CASE UNCHANGED vars
    <2>1. UNCHANGED <<relayVars, owed>> /\ UNCHANGED <<inbox, acked, work, faults, crashes>>
      BY <1>6 DEF vars, inboxVars, bounds
    <2>2. InboxTypeOK' /\ InboxSound' /\ AckedNotLost'
      BY <2>1, InvParts DEF InboxTypeOK, InboxSound, AckedNotLost, Pending, TookEffect, relayVars
    <2> QED
      BY <2>1, <2>2, RelayKept
  <1> QED
    BY <1>1, <1>2, <1>3, <1>4, <1>5, <1>6 DEF Next

(***************************************************************************)
(* What Linear acknowledged is honoured, for any sessions, deliveries and  *)
(* threads: no accepted delivery is lost, a mention becomes one            *)
(* conversation which its row names, and a state is recorded with the      *)
(* calls that report it (serveDelivery, Process, start, reconcile,         *)
(* UpdateSession).                                                         *)
(***************************************************************************)
THEOREM Honoured == Spec => []MentionsHonoured
  <1>1. RelayInv => MentionsHonoured
    BY DEF RelayInv
  <1> QED
    BY <1>1, InitSound, NextSound, PTL DEF Spec

-----------------------------------------------------------------------------
(* Threads and projects, for any projects, threads and directories, and    *)
(* any number of changes and failures.                                     *)

(* What the code's identifiers and paths are like. *)
PathsAndIds ==
    /\ Directories \subseteq Seq(STRING) /\ NoDir \notin Directories
    /\ \A t \in ThreadIds : Origins[t] \in Seq(STRING)
    /\ NoProject \notin ProjectIds /\ Unknown \notin ProjectIds
    /\ MaxChanges \in Nat

(* The deepest of the projects around a directory is one of them: the      *)
(* choice in mostSpecific is never an empty one.                           *)
LEMMA MostSpecificContains ==
    ASSUME PathsAndIds, ProjectsTypeOK, NEW t \in ThreadIds
    PROVE  /\ Containing(Origins[t]) = {} => MostSpecific(Origins[t]) = NoProject
           /\ Containing(Origins[t]) # {} => MostSpecific(Origins[t]) \in Containing(Origins[t])
  <1> DEFINE dir == Origins[t]
             around == Containing(dir)
             above(p) == Len(dir) - Len(directory[p])
             heights == {above(p) : p \in around}
  <1>1. CASE around = {}
    BY <1>1 DEF MostSpecific
  <1>2. CASE around # {}
    <2>1. ASSUME NEW p \in around PROVE above(p) \in Nat /\ Len(directory[p]) \in Nat
      <3>1. directory[p] \in Seq(STRING) /\ dir \in Seq(STRING)
        BY DEF PathsAndIds, ProjectsTypeOK, Containing, Existing, NoDir
      <3>2. Len(directory[p]) <= Len(dir)
        BY DEF Containing, Encloses, IsPrefix
      <3> QED
        BY <3>1, <3>2
    <2>2. heights \subseteq Nat /\ heights # {}
      BY <1>2, <2>1
    <2> HIDE DEF heights
    <2>3. PICK least \in heights : \A h \in heights : ~(<<h, least>> \in OpToRel(<, Nat))
      BY <2>2, NatLessThanWellFounded, WFMin
    <2>4. ASSUME NEW h \in heights PROVE least <= h
      <3>1. h \in Nat /\ least \in Nat
        BY <2>2, <2>3
      <3>2. <<h, least>> \notin OpToRel(<, Nat)
        BY <2>3
      <3>3. ~(h < least)
        BY <3>1, <3>2 DEF OpToRel
      <3> QED
        BY <3>1, <3>3
    <2>5. PICK p \in around : least = above(p)
      BY <2>3 DEF heights
    <2>6. \A q \in around : above(p) <= above(q)
      BY <2>4, <2>5 DEF heights
    <2>7. Len(dir) \in Nat
      BY DEF PathsAndIds
    <2>8. \A q \in around : Len(directory[q]) <= Len(directory[p])
      BY <2>1, <2>6, <2>7
    <2> QED
      BY <1>2, <2>8 DEF MostSpecific
  <1> QED
    BY <1>1, <1>2

(* The inductive invariant.  The mutex of the threads domain is free, or   *)
(* one of its holders is part way; the coordinator's count of rescans owed *)
(* answers for whatever a new directory has made untrue.                   *)

Placed(t) == t \in cleared \/ Containing(Origins[t]) = {} \/ rescans > 0

Assigning(t) == \E a \in todo : a[1] = t

ViewSound ==
    /\ ops # "delete" =>
          /\ view = row
          /\ \A t \in ThreadIds : view[t] \in Existing \cup {NoProject, Unknown}
    /\ ops = "delete" =>
          /\ doomed \in ProjectIds
          /\ \A t \in ThreadIds :
                /\ row[t] = IF view[t] = doomed THEN NoProject ELSE view[t]
                /\ view[t] = doomed => t \in cleared
                /\ view[t] # doomed => view[t] \in Existing \cup {NoProject, Unknown}

OpsSound ==
    /\ ops = "observe" => \A a \in found :
          /\ a[2] \in Existing \cup {NoProject}
          /\ a[2] = NoProject => Containing(Origins[a[1]]) = {} \/ rescans > 0
    /\ ops # "backfill" => todo = {}
    /\ \A a \in todo : a \in ThreadIds \X Existing

Overlooked ==
    \A t \in ThreadIds : view[t] = NoProject =>
        \/ Placed(t)
        \/ ops # "backfill" /\ failed
        \/ ops = "backfill" /\ Assigning(t)

ProjectsInv ==
    /\ ProjectsTypeOK /\ rescans <= changes /\ changes \in 0 .. MaxChanges
    /\ NoTies /\ ViewSound /\ OpsSound /\ Overlooked

LEMMA ProjectsInvHolds == ProjectsInv => ProjectsHold
  <1> SUFFICES ASSUME ProjectsInv PROVE ProjectsHold
    OBVIOUS
  <1>1. ThreadsNameProjects
    BY DEF ProjectsInv, ViewSound, ThreadsNameProjects
  <1>2. NoThreadOverlooked
    BY DEF ProjectsInv, Overlooked, Placed, NoThreadOverlooked, ProjectsTypeOK
  <1> QED
    BY <1>1, <1>2 DEF ProjectsInv, ProjectsHold

LEMMA ProjectsBegin == PathsAndIds /\ ProjectsInit => ProjectsInv
  <1> SUFFICES ASSUME PathsAndIds, ProjectsInit PROVE ProjectsInv
    OBVIOUS
  <1>1. ProjectsTypeOK /\ rescans <= changes /\ changes \in 0 .. MaxChanges
    <2>1. row = [t \in ThreadIds |-> Unknown] /\ view = row
      BY DEF ProjectsInit
    <2>2. /\ row \in [ThreadIds -> ProjectIds \cup {NoProject, Unknown}]
          /\ view \in [ThreadIds -> ProjectIds \cup {NoProject, Unknown}]
      BY <2>1
    <2>3. failed \in BOOLEAN
      BY DEF ProjectsInit
    <2> QED
      BY <2>2, <2>3 DEF ProjectsInit, ProjectsTypeOK, PathsAndIds
  <1>2. NoTies
    BY DEF ProjectsInit, NoTies, Existing
  <1>3. ViewSound /\ OpsSound /\ Overlooked
    BY DEF ProjectsInit, ViewSound, OpsSound, Overlooked, NoProject, Unknown
  <1> QED
    BY <1>1, <1>2, <1>3 DEF ProjectsInv

(* A new directory: what it makes untrue, the backfill owed answers for.   *)
LEMMA ClaimKeeps == PathsAndIds /\ ProjectsInv /\ Claim => ProjectsInv'
  <1> SUFFICES ASSUME PathsAndIds, ProjectsInv, Claim PROVE ProjectsInv'
    OBVIOUS
  <1> USE DEF ProjectsInv
  <1>1. /\ changes < MaxChanges /\ changes' = changes + 1 /\ rescans' = rescans + 1
        /\ UNCHANGED <<row, view, ops, found, doomed, todo, cleared, failed>>
    BY DEF Claim, Change, threadRows
  <1>2. PICK p \in ProjectIds, dir \in Directories :
           Unclaimed(dir, p) /\ directory' = [directory EXCEPT ![p] = dir]
    BY DEF Claim
  <1>3. rescans \in Nat /\ rescans' \in 0 .. MaxChanges /\ rescans' <= changes'
        /\ changes' \in 0 .. MaxChanges /\ rescans' > 0
    BY <1>1 DEF ProjectsTypeOK, PathsAndIds
  <1>4. directory' \in [ProjectIds -> Directories \cup {NoDir}] /\ dir # NoDir
    BY <1>2 DEF ProjectsTypeOK, PathsAndIds
  <1>5. Existing' = Existing \cup {p}
    BY <1>2, <1>4 DEF Existing, ProjectsTypeOK
  <1>6. ProjectsTypeOK'
    BY <1>1, <1>3, <1>4 DEF ProjectsTypeOK
  <1>7. NoTies'
    BY <1>2, <1>4, <1>5 DEF NoTies, Unclaimed, ProjectsTypeOK, Existing
  <1>8. ViewSound'
    BY <1>1, <1>5 DEF ViewSound
  <1>9. OpsSound'
    BY <1>1, <1>3, <1>5 DEF OpsSound
  <1>10. Overlooked'
    BY <1>3 DEF Overlooked, Placed
  <1> QED
    BY <1>3, <1>6, <1>7, <1>8, <1>9, <1>10

(* A backfill takes every thread that a project's directory contains.      *)
LEMMA BeginBackfillKeeps == PathsAndIds /\ ProjectsInv /\ BeginBackfill => ProjectsInv'
  <1> SUFFICES ASSUME PathsAndIds, ProjectsInv, BeginBackfill PROVE ProjectsInv'
    OBVIOUS
  <1> USE DEF ProjectsInv
  <1>1. /\ rescans > 0 /\ ops = "free" /\ rescans' = rescans - 1
        /\ UNCHANGED <<directory, row, view, found, doomed, cleared, changes>>
    BY DEF BeginBackfill, threadRows
  <1>2. rescans' \in 0 .. MaxChanges /\ rescans' <= changes'
    BY <1>1 DEF ProjectsTypeOK, PathsAndIds
  <1>3. /\ Existing' = Existing /\ NoTies'
        /\ \A t \in ThreadIds : Containing(Origins[t])' = Containing(Origins[t])
    BY <1>1 DEF NoTies, Existing, Containing
  <1>4. CASE /\ ops' = "backfill"
             /\ todo' = {<<t, MostSpecific(Origins[t])>> : t \in {u \in ThreadIds :
                           view[u] = NoProject /\ MostSpecific(Origins[u]) # NoProject}}
             /\ UNCHANGED failed
    <2>1. ASSUME NEW t \in ThreadIds, MostSpecific(Origins[t]) # NoProject
          PROVE  MostSpecific(Origins[t]) \in Existing
      BY <2>1, MostSpecificContains DEF Containing
    <2>2. \A a \in todo' : a \in ThreadIds \X Existing'
      BY <1>3, <1>4, <2>1
    <2>3. ProjectsTypeOK'
      BY <1>1, <1>2, <1>4, <2>2 DEF ProjectsTypeOK, Existing
    <2>4. ViewSound'
      BY <1>1, <1>3, <1>4 DEF ViewSound
    <2>5. OpsSound'
      BY <1>4, <2>2 DEF OpsSound
    <2>6. Overlooked'
      <3> SUFFICES ASSUME NEW t \in ThreadIds, view'[t] = NoProject
                   PROVE  Placed(t)' \/ (ops' = "backfill" /\ Assigning(t)')
        BY DEF Overlooked
      <3>1. CASE Containing(Origins[t]) = {}
        BY <1>3, <3>1 DEF Placed
      <3>2. CASE Containing(Origins[t]) # {}
        <4>1. MostSpecific(Origins[t]) # NoProject
          BY <3>2, MostSpecificContains DEF Containing, Existing, PathsAndIds
        <4>2. <<t, MostSpecific(Origins[t])>> \in todo'
          BY <1>1, <1>4, <4>1
        <4> QED
          BY <1>4, <4>2 DEF Assigning
      <3> QED
        BY <3>1, <3>2
    <2> QED
      BY <1>1, <1>2, <1>3, <2>3, <2>4, <2>5, <2>6
  <1>5. CASE failed' = TRUE /\ UNCHANGED <<ops, todo>>
    <2>1. ProjectsTypeOK' /\ ViewSound' /\ OpsSound'
      BY <1>1, <1>2, <1>3, <1>5 DEF ProjectsTypeOK, ViewSound, OpsSound
    <2>2. Overlooked'
      BY <1>1, <1>5 DEF Overlooked
    <2> QED
      BY <1>1, <1>2, <1>3, <2>1, <2>2
  <1> QED
    BY <1>4, <1>5 DEF BeginBackfill

(* One assignment of a backfill, its end, or its failure. *)
LEMMA AssignKeeps == PathsAndIds /\ ProjectsInv /\ Assign => ProjectsInv'
  <1> SUFFICES ASSUME PathsAndIds, ProjectsInv, Assign PROVE ProjectsInv'
    OBVIOUS
  <1> USE DEF ProjectsInv
  <1>1. ops = "backfill" /\ view = row
        /\ UNCHANGED <<directory, found, doomed, rescans, changes>>
    BY DEF Assign, ViewSound
  <1>2. /\ Existing' = Existing /\ NoTies'
        /\ \A t \in ThreadIds : Containing(Origins[t])' = Containing(Origins[t])
    BY <1>1 DEF NoTies, Existing, Containing
  <1>3. ASSUME NEW a \in todo,
               todo' = todo \ {a},
               row' = [row EXCEPT ![a[1]] = IF @ = NoProject THEN a[2] ELSE @],
               view' = [view EXCEPT ![a[1]] = IF row[a[1]] = NoProject THEN a[2] ELSE @],
               cleared' = cleared \ {a[1]},
               UNCHANGED <<ops, failed>>
        PROVE  ProjectsInv'
    <2>1. a[1] \in ThreadIds /\ a[2] \in Existing /\ a[2] \in ProjectIds
      BY DEF OpsSound, Existing
    <2>2. view' = row' /\ view' \in [ThreadIds -> ProjectIds \cup {NoProject, Unknown}]
      BY <1>1, <1>3, <2>1 DEF ProjectsTypeOK
    <2>3. /\ \A t \in ThreadIds \ {a[1]} : view'[t] = view[t]
          /\ view'[a[1]] = IF view[a[1]] = NoProject THEN a[2] ELSE view[a[1]]
      BY <1>1, <1>3, <2>1 DEF ProjectsTypeOK
    <2>4. view'[a[1]] # NoProject
      BY <2>1, <2>3 DEF PathsAndIds
    <2>5. ProjectsTypeOK'
      BY <1>1, <1>3, <2>2 DEF ProjectsTypeOK
    <2>6. ViewSound'
      BY <1>1, <1>2, <1>3, <2>1, <2>2, <2>3 DEF ViewSound
    <2>7. OpsSound'
      BY <1>1, <1>2, <1>3 DEF OpsSound
    <2>8. Overlooked'
      BY <1>1, <1>2, <1>3, <2>3, <2>4 DEF Overlooked, Placed, Assigning
    <2> QED
      BY <1>1, <1>2, <2>5, <2>6, <2>7, <2>8
  <1>4. CASE todo = {} /\ ops' = "free" /\ failed' = FALSE /\ UNCHANGED <<row, view, todo, cleared>>
    BY <1>1, <1>2, <1>4 DEF ProjectsTypeOK, ViewSound, OpsSound, Overlooked, Placed, Assigning
  <1>5. CASE todo' = {} /\ ops' = "free" /\ failed' = TRUE /\ UNCHANGED <<row, view, cleared>>
    BY <1>1, <1>2, <1>5 DEF ProjectsTypeOK, ViewSound, OpsSound, Overlooked
  <1> QED
    BY <1>3, <1>4, <1>5 DEF Assign, threadRows

(* A first observation; what it read may be out of date when it writes.    *)
LEMMA ClassifyKeeps == PathsAndIds /\ ProjectsInv /\ Classify => ProjectsInv'
  <1> SUFFICES ASSUME PathsAndIds, ProjectsInv, Classify PROVE ProjectsInv'
    OBVIOUS
  <1> USE DEF ProjectsInv
  <1>1. /\ ops = "free" /\ ops' = "observe"
        /\ UNCHANGED <<directory, row, view, doomed, todo, rescans, cleared, failed, changes>>
    BY DEF Classify, threadRows
  <1>2. PICK t \in ThreadIds : found' = {<<t, MostSpecific(Origins[t])>>}
    BY DEF Classify
  <1>3. /\ MostSpecific(Origins[t]) \in Existing \cup {NoProject}
        /\ MostSpecific(Origins[t]) = NoProject => Containing(Origins[t]) = {}
    <2>1. Containing(Origins[t]) \subseteq Existing /\ NoProject \notin Existing
      BY DEF Containing, Existing, PathsAndIds
    <2> QED
      BY <2>1, MostSpecificContains
  <1>4. /\ Existing' = Existing /\ NoTies'
        /\ \A u \in ThreadIds : Containing(Origins[u])' = Containing(Origins[u])
    BY <1>1 DEF NoTies, Existing, Containing
  <1>5. ProjectsTypeOK'
    BY <1>1, <1>2, <1>3 DEF ProjectsTypeOK, Existing
  <1>6. ViewSound'
    BY <1>1, <1>4 DEF ViewSound
  <1>7. OpsSound'
    BY <1>1, <1>2, <1>3, <1>4 DEF OpsSound
  <1>8. Overlooked'
    BY <1>1, <1>4 DEF Overlooked, Placed
  <1> QED
    BY <1>1, <1>4, <1>5, <1>6, <1>7, <1>8

LEMMA InsertKeeps == PathsAndIds /\ ProjectsInv /\ Insert => ProjectsInv'
  <1> SUFFICES ASSUME PathsAndIds, ProjectsInv, Insert PROVE ProjectsInv'
    OBVIOUS
  <1> USE DEF ProjectsInv
  <1>1. /\ ops = "observe" /\ ops' = "free" /\ found' = {} /\ view = row /\ todo = {}
        /\ UNCHANGED <<directory, doomed, todo, rescans, cleared, failed, changes>>
    BY DEF Insert, ViewSound, OpsSound
  <1>2. /\ Existing' = Existing /\ NoTies'
        /\ \A u \in ThreadIds : Containing(Origins[u])' = Containing(Origins[u])
    BY <1>1 DEF NoTies, Existing, Containing
  <1>3. CASE UNCHANGED <<row, view>>
    BY <1>1, <1>2, <1>3 DEF ProjectsTypeOK, ViewSound, OpsSound, Overlooked, Placed
  <1>4. ASSUME NEW a \in found,
               row' = [row EXCEPT ![a[1]] = a[2]], view' = [view EXCEPT ![a[1]] = a[2]]
        PROVE  ProjectsInv'
    <2>1. /\ a[1] \in ThreadIds /\ a[2] \in Existing \cup {NoProject}
          /\ a[2] = NoProject => Containing(Origins[a[1]]) = {} \/ rescans > 0
          /\ a[2] \in ProjectIds \cup {NoProject, Unknown}
      BY <1>1 DEF OpsSound, ProjectsTypeOK, Existing
    <2>2. /\ view' = row' /\ view' \in [ThreadIds -> ProjectIds \cup {NoProject, Unknown}]
          /\ view'[a[1]] = a[2] /\ \A t \in ThreadIds \ {a[1]} : view'[t] = view[t]
      BY <1>1, <1>4, <2>1 DEF ProjectsTypeOK
    <2>3. ProjectsTypeOK'
      BY <1>1, <2>2 DEF ProjectsTypeOK
    <2>4. ViewSound'
      BY <1>1, <1>2, <2>1, <2>2 DEF ViewSound
    <2>5. OpsSound'
      BY <1>1 DEF OpsSound
    <2>6. Overlooked'
      BY <1>1, <1>2, <2>1, <2>2 DEF Overlooked, Placed
    <2> QED
      BY <1>1, <1>2, <2>3, <2>4, <2>5, <2>6
  <1> QED
    BY <1>3, <1>4 DEF Insert, threadRows

(* The user's word is kept: a thread that is cleared stays out. *)
LEMMA PatchKeeps == PathsAndIds /\ ProjectsInv /\ Patch => ProjectsInv'
  <1> SUFFICES ASSUME PathsAndIds, ProjectsInv, Patch PROVE ProjectsInv'
    OBVIOUS
  <1> USE DEF ProjectsInv
  <1>1. /\ ops = "free" /\ view = row /\ changes < MaxChanges /\ changes' = changes + 1
        /\ UNCHANGED <<directory, ops, found, doomed, todo, rescans, failed>>
    BY DEF Patch, Change, ViewSound
  <1>2. PICK t \in ThreadIds, p \in Existing \cup {NoProject} :
          /\ row' = [row EXCEPT ![t] = p] /\ view' = [view EXCEPT ![t] = p]
          /\ cleared' = IF p = NoProject THEN cleared \cup {t} ELSE cleared \ {t}
    BY DEF Patch
  <1>3. /\ Existing' = Existing /\ NoTies'
        /\ \A u \in ThreadIds : Containing(Origins[u])' = Containing(Origins[u])
    BY <1>1 DEF NoTies, Existing, Containing
  <1>4. changes' \in 0 .. MaxChanges /\ rescans' <= changes'
    BY <1>1 DEF ProjectsTypeOK, PathsAndIds
  <1>5. /\ view' = row' /\ view' \in [ThreadIds -> ProjectIds \cup {NoProject, Unknown}]
        /\ view'[t] = p /\ \A u \in ThreadIds \ {t} : view'[u] = view[u]
    BY <1>1, <1>2 DEF ProjectsTypeOK, Existing
  <1>6. ProjectsTypeOK'
    BY <1>1, <1>2, <1>5 DEF ProjectsTypeOK
  <1>7. ViewSound'
    BY <1>1, <1>2, <1>3, <1>5 DEF ViewSound
  <1>8. OpsSound'
    BY <1>1, <1>3 DEF OpsSound
  <1>9. Overlooked'
    BY <1>1, <1>2, <1>3, <1>5 DEF Overlooked, Placed
  <1> QED
    BY <1>3, <1>4, <1>6, <1>7, <1>8, <1>9

(* A project goes, and the threads' rows with it ... *)
LEMMA DeleteProjectKeeps == PathsAndIds /\ ProjectsInv /\ DeleteProject => ProjectsInv'
  <1> SUFFICES ASSUME PathsAndIds, ProjectsInv, DeleteProject PROVE ProjectsInv'
    OBVIOUS
  <1> USE DEF ProjectsInv
  <1>1. /\ ops = "free" /\ view = row /\ changes < MaxChanges /\ changes' = changes + 1
        /\ ops' = "delete"
        /\ UNCHANGED <<view, found, todo, rescans, failed>>
    BY DEF DeleteProject, Change, ViewSound
  <1>2. PICK p \in Existing :
          /\ directory' = [directory EXCEPT ![p] = NoDir]
          /\ row' = [t \in ThreadIds |-> IF row[t] = p THEN NoProject ELSE row[t]]
          /\ cleared' = cleared \cup {t \in ThreadIds : row[t] = p}
          /\ doomed' = p
    BY DEF DeleteProject
  <1>3. p \in ProjectIds /\ Existing' = Existing \ {p}
        /\ \A q \in Existing' : directory'[q] = directory[q]
    BY <1>2 DEF Existing, ProjectsTypeOK
  <1>4. /\ NoTies'
        /\ \A u \in ThreadIds : Containing(Origins[u])' \subseteq Containing(Origins[u])
    BY <1>3 DEF NoTies, Containing
  <1>5. changes' \in 0 .. MaxChanges /\ rescans' <= changes'
    BY <1>1 DEF ProjectsTypeOK, PathsAndIds
  <1>6. ProjectsTypeOK'
    <2>1. directory' \in [ProjectIds -> Directories \cup {NoDir}]
      BY <1>2, <1>3 DEF ProjectsTypeOK
    <2>2. row' \in [ThreadIds -> ProjectIds \cup {NoProject, Unknown}]
      BY <1>2 DEF ProjectsTypeOK
    <2> QED
      BY <1>1, <1>2, <1>3, <2>1, <2>2 DEF ProjectsTypeOK
  <1>7. ViewSound'
    BY <1>1, <1>2, <1>3 DEF ViewSound
  <1>8. OpsSound'
    BY <1>1 DEF OpsSound
  <1>9. Overlooked'
    BY <1>1, <1>2, <1>4 DEF Overlooked, Placed
  <1> QED
    BY <1>4, <1>5, <1>6, <1>7, <1>8, <1>9

(* ... and the view follows. *)
LEMMA ClearViewKeeps == PathsAndIds /\ ProjectsInv /\ ClearView => ProjectsInv'
  <1> SUFFICES ASSUME PathsAndIds, ProjectsInv, ClearView PROVE ProjectsInv'
    OBVIOUS
  <1> USE DEF ProjectsInv
  <1>1. /\ ops = "delete" /\ ops' = "free" /\ doomed' = NoProject /\ todo = {}
        /\ view' = [t \in ThreadIds |-> IF view[t] = doomed THEN NoProject ELSE view[t]]
        /\ UNCHANGED <<directory, row, found, todo, rescans, cleared, failed, changes>>
    BY DEF ClearView, OpsSound
  <1>2. /\ Existing' = Existing /\ NoTies'
        /\ \A u \in ThreadIds : Containing(Origins[u])' = Containing(Origins[u])
    BY <1>1 DEF NoTies, Existing, Containing
  <1>3. row \in [ThreadIds -> ProjectIds \cup {NoProject, Unknown}]
        /\ \A t \in ThreadIds : view'[t] = row[t]
    BY <1>1 DEF ViewSound, ProjectsTypeOK
  <1>4. view' = row
    BY <1>1, <1>3
  <1>5. ProjectsTypeOK'
    BY <1>1, <1>3, <1>4 DEF ProjectsTypeOK
  <1>6. ViewSound'
    BY <1>1, <1>2, <1>4 DEF ViewSound
  <1>7. OpsSound'
    BY <1>1 DEF OpsSound
  <1>8. Overlooked'
    BY <1>1, <1>2, <1>4 DEF Overlooked, Placed, ViewSound
  <1> QED
    BY <1>1, <1>2, <1>5, <1>6, <1>7, <1>8

(***************************************************************************)
(* Threads and projects agree under their two mutexes, for any projects,   *)
(* threads and directories (classify, Backfill, DeleteProject,             *)
(* mostSpecific).                                                          *)
(***************************************************************************)
THEOREM Agree == PathsAndIds => (ProjectsSpec => []ProjectsHold)
  <1> SUFFICES ASSUME PathsAndIds PROVE ProjectsSpec => []ProjectsHold
    OBVIOUS
  <1>1. ProjectsInit => ProjectsInv
    BY ProjectsBegin
  <1>2. ProjectsInv /\ [ProjectsNext]_projectVars => ProjectsInv'
    <2> SUFFICES ASSUME ProjectsInv, [ProjectsNext]_projectVars PROVE ProjectsInv'
      OBVIOUS
    <2>1. CASE ProjectsNext
      BY <2>1, ClaimKeeps, BeginBackfillKeeps, AssignKeeps, ClassifyKeeps, InsertKeeps,
         PatchKeeps, DeleteProjectKeeps, ClearViewKeeps DEF ProjectsNext
    <2>2. CASE UNCHANGED projectVars
      BY <2>2 DEF projectVars, threadRows, ProjectsInv, ProjectsTypeOK, NoTies, Existing, ViewSound,
                  OpsSound, Overlooked, Placed, Assigning, Containing
    <2> QED
      BY <2>1, <2>2
  <1> QED
    BY <1>1, <1>2, ProjectsInvHolds, PTL DEF ProjectsSpec

-----------------------------------------------------------------------------
(* The inductive invariant of publishing.                                  *)

(* Who has the mutex is placing, recording or erasing, and nobody else is. *)
Holding == {"place", "row", "erase"}
MutexSound == \A h \in Handlers : handler[h].pc \in Holding <=> opsLock = h

(* The rows: a publication id is used once, an artifact that was deleted   *)
(* does not come back.                                                     *)
VersionsSound ==
    /\ pubs \subseteq 1 .. published /\ deleted \subseteq ArtifactIds
    /\ \A v \in versions : v.pub \in pubs /\ v.artifact \notin deleted
    /\ \A v, w \in versions : v.pub = w.pub => v = w

(* Every directory without a row has somebody who will see to it.          *)
OrphansTraced ==
    \A d \in content :
        \/ PlaceOf(d) \in leftover
        \/ \E v \in versions : PlaceOf(v) = PlaceOf(d)
        \/ \E h \in Handlers :
              \/ handler[h].pc = "row" /\ handler[h].at = PlaceOf(d)
              \/ handler[h].pc = "erase" /\ handler[h].target = d.artifact

(* A place that was resolved: its version is there or its artifact is gone. *)
Known(p) == p.artifact \in deleted \/ \E v \in versions : PlaceOf(v) = p

ReaderSound == reader.artifact # New => Known(reader)

(* A request publishes under an id that was handed out; a restoration      *)
(* names a version, which is there as long as its artifact is.             *)
Publishes(h) == handler[h].pc \notin {"idle", "erase"}

RequestSound(h) ==
    LET r == handler[h] IN
    /\ Publishes(h) =>
          /\ r.pub \in 1 .. published
          /\ r.from # 0 => r.target # New /\ Known(Place(r.target, r.from))
          /\ r.target = New => r.base = 0
    /\ r.pc = "erase" => r.target \in deleted

(* Who has the mutex acts on the artifact as it is; what it placed is on   *)
(* the disk and nobody else's.                                             *)
PlacingSound(h) ==
    LET r == handler[h] IN
    /\ r.pc \in {"place", "row"} =>
          /\ r.pub \notin pubs
          /\ r.target # New =>
                r.target \in Live /\ r.base = CurrentVersion(r.target) /\ r.base < MaxVersions
    /\ r.pc = "row" =>
          /\ r.at = Place(IF r.target = New THEN r.at.artifact ELSE r.target, r.base + 1)
          /\ r.at.artifact \in ArtifactIds \ deleted
          /\ \A v \in versions : PlaceOf(v) # r.at
          /\ \E d \in durable : PlaceOf(d) = r.at /\ d.snap = Snapshot(h)

(* An answer "ok" names the version of the publication.                    *)
AnswerSound(h) ==
    LET r == handler[h] IN
    r.pc = "ok" =>
        /\ r.pub \in pubs
        /\ r.at.artifact \in deleted \/ \E v \in versions : v.pub = r.pub /\ PlaceOf(v) = r.at
        /\ \A v \in versions : v.pub = r.pub => PlaceOf(v) = r.at
        /\ r.target # New => r.at.artifact = r.target

(* A pending package is the copy's, and what has its id was made of it.    *)
PackageSound(c) ==
    LET p == pending[c] IN
    p.pub # 0 =>
        /\ p.pub <= published /\ owner[p.pub] = c
        /\ p.target = New => p.base = 0
        /\ \A h \in Handlers : Publishes(h) /\ handler[h].pub = p.pub =>
              handler[h].target = p.target /\ handler[h].base = p.base
        /\ \A v \in versions : v.pub = p.pub => v.base = p.base /\ v.artifact \in {p.target}
              \cup (IF p.target = New THEN ArtifactIds ELSE {})

(* Whom the publisher waits for works on its package.                      *)
CallSound(c) ==
    call[c] # NoCall =>
        Publishes(call[c]) /\ handler[call[c]].pub = pending[c].pub /\ pending[c].pub # 0

(* A copy that publishes again follows what it recorded; one that began    *)
(* without an artifact and has recorded one was confirmed before.          *)
CopySound(c) ==
    LET p == pending[c] IN
    /\ record[c].artifact = New => record[c].base = 0
    /\ p.pub = 0 => p = NoPackage
    /\ p.pub # 0 /\ p.target # New =>
          /\ record[c].artifact = p.target
          /\ p.target \in deleted \/ record[c].base <= p.base + 1
    /\ p.pub # 0 /\ p.target = New /\ record[c].artifact # New =>
          p.pub \in pubs /\ \A v \in versions : v.pub = p.pub =>
              PlaceOf(v) = Place(record[c].artifact, record[c].base)

(* A package that is given up was refused or is in the rows.               *)
OwnerSound ==
    \A i \in PublicationIds :
        /\ i > published => owner[i] = Nobody
        /\ \A c \in Copies : owner[i] = c =>
              i \in pubs \/ i \in dropped \/ i = pending[c].pub

ServerInv ==
    /\ ArtifactsTypeOK /\ ContentBehindRows /\ BasesChain /\ ReaderFinds
    /\ MutexSound /\ VersionsSound /\ OrphansTraced /\ ReaderSound
    /\ \A h \in Handlers : RequestSound(h) /\ PlacingSound(h) /\ AnswerSound(h)

CopiesInv ==
    /\ CopiesTypeOK /\ RecordFollows /\ OwnerSound
    /\ \A c \in Copies : PackageSound(c) /\ CallSound(c) /\ CopySound(c)

PublishingInv == ServerInv /\ CopiesInv

-----------------------------------------------------------------------------
(* Lemmas.                                                                 *)

(* The current version is a number of the artifact's, or 0, and none is    *)
(* past it.                                                                *)
LEMMA CurrentVersionTyped ==
    ASSUME ArtifactsTypeOK, NEW a
    PROVE  /\ CurrentVersion(a) \in 0 .. MaxVersions
           /\ \A v \in versions : v.artifact = a => v.number <= CurrentVersion(a)
  <1> DEFINE numbers == {0} \cup {v.number : v \in {w \in versions : w.artifact = a}}
             gaps == {MaxVersions - n : n \in numbers}
  <1>1. numbers \subseteq 0 .. MaxVersions /\ MaxVersions \in Nat
    BY ArtifactsAssumption DEF ArtifactsTypeOK, Versions
  <1>2. gaps \subseteq Nat /\ gaps # {}
    BY <1>1
  <1> HIDE DEF gaps
  <1>3. PICK least \in gaps : \A g \in gaps : ~(<<g, least>> \in OpToRel(<, Nat))
    BY <1>2, NatLessThanWellFounded, WFMin
  <1>4. ASSUME NEW g \in gaps PROVE least <= g
    <2>1. g \in Nat /\ least \in Nat
      BY <1>2, <1>3
    <2>2. <<g, least>> \notin OpToRel(<, Nat)
      BY <1>3
    <2>3. ~(g < least)
      BY <2>1, <2>2 DEF OpToRel
    <2> QED
      BY <2>1, <2>3
  <1>5. PICK m \in numbers : least = MaxVersions - m
    BY <1>3 DEF gaps
  <1>6. ASSUME NEW n \in numbers PROVE m >= n
    <2>1. MaxVersions - m <= MaxVersions - n
      BY <1>4, <1>5 DEF gaps
    <2> QED
      BY <1>1, <2>1
  <1>7. CurrentVersion(a) \in numbers /\ \A n \in numbers : CurrentVersion(a) >= n
    BY <1>6 DEF CurrentVersion, Max
  <1>8. \A v \in versions : v.artifact = a => v.number \in numbers
    OBVIOUS
  <1> QED
    BY <1>1, <1>7, <1>8

(* A place of a row, and what the marks are not. *)
LEMMA Marks ==
    /\ New \notin ArtifactIds /\ New = 0
    /\ Free \notin Handlers /\ NoCall \notin Handlers /\ Nobody \notin Copies
    /\ MaxPubs \in Nat /\ MaxVersions \in Nat \ {0}
    BY ArtifactsAssumption, CopiesAssumption DEF New, Free, NoCall, Nobody

(* What somebody else's step leaves of a placement under way. *)
LEMMA PlacingKept ==
    ASSUME NEW k \in Handlers, handler'[k] = handler[k], PlacingSound(k),
           UNCHANGED <<versions, pubs, durable, deleted>>
    PROVE  PlacingSound(k)'
  <1>1. Live' = Live /\ Snapshot(k)' = Snapshot(k)
    BY DEF Live, Snapshot, VersionRow
  <1>2. CurrentVersion(handler[k].target)' = CurrentVersion(handler[k].target)
    BY DEF CurrentVersion
  <1> QED
    BY <1>1, <1>2 DEF PlacingSound, Place, PlaceOf

(* A step of one request that leaves the rows and the disk alone, and lets *)
(* go of the mutex if it had it.                                           *)
LEMMA ServerMoves ==
    ASSUME ServerInv, NEW h \in Handlers, NEW r \in Request,
           handler' = [handler EXCEPT ![h] = r],
           UNCHANGED <<rows, disk, reader, deleted, leftover, missed>>,
           published' \in published .. MaxPubs,
           opsLock' = IF opsLock = h THEN Free ELSE opsLock,
           r.pc \notin Holding, handler[h].pc \notin {"row", "erase"},
           RequestSound(h)', AnswerSound(h)'
    PROVE  ServerInv'
  <1> USE Marks
  <1>1. /\ UNCHANGED <<versions, pubs, content, durable, reader, deleted, leftover, missed>>
        /\ handler'[h] = r /\ \A k \in Handlers \ {h} : handler'[k] = handler[k]
        /\ published \in Nat /\ published' \in Nat
    BY DEF rows, disk, ServerInv, ArtifactsTypeOK
  <1>2. ArtifactsTypeOK'
    BY <1>1 DEF ServerInv, ArtifactsTypeOK
  <1>3. ContentBehindRows' /\ BasesChain' /\ ReaderFinds'
    BY <1>1 DEF ServerInv, ContentBehindRows, BasesChain, ReaderFinds, PlaceOf, Place
  <1>4. MutexSound'
    BY <1>1 DEF ServerInv, MutexSound, Holding
  <1>5. VersionsSound'
    BY <1>1 DEF ServerInv, VersionsSound
  <1>6. OrphansTraced'
    <2>1. \A k \in Handlers : handler[k].pc \in {"row", "erase"} => handler'[k] = handler[k]
      BY <1>1
    <2>2. UNCHANGED <<content, leftover, versions>>
      BY <1>1
    <2>3. ASSUME NEW d \in content
          PROVE  \/ PlaceOf(d) \in leftover
                 \/ \E v \in versions : PlaceOf(v) = PlaceOf(d)
                 \/ \E k \in Handlers :
                       \/ handler'[k].pc = "row" /\ handler'[k].at = PlaceOf(d)
                       \/ handler'[k].pc = "erase" /\ handler'[k].target = d.artifact
      BY <2>1 DEF ServerInv, OrphansTraced
    <2> QED
      BY <2>2, <2>3 DEF OrphansTraced, PlaceOf, Place
  <1>7. ReaderSound'
    BY <1>1 DEF ServerInv, ReaderSound, Known, PlaceOf, Place
  <1>8. ASSUME NEW k \in Handlers
        PROVE  RequestSound(k)' /\ PlacingSound(k)' /\ AnswerSound(k)'
    <2>1. CASE k = h
      BY <1>1, <2>1 DEF PlacingSound, Holding
    <2>2. CASE k # h
      <3>1. handler'[k] = handler[k] /\ RequestSound(k) /\ PlacingSound(k) /\ AnswerSound(k)
        BY <1>1, <2>2 DEF ServerInv
      <3>2. RequestSound(k)'
        BY <1>1, <3>1 DEF RequestSound, Publishes, Known, Place, PlaceOf
      <3>3. PlacingSound(k)'
        BY <1>1, <3>1, PlacingKept
      <3>4. AnswerSound(k)'
        BY <1>1, <3>1 DEF AnswerSound, Known, Place, PlaceOf
      <3> QED
        BY <3>2, <3>3, <3>4
    <2> QED
      BY <2>1, <2>2
  <1> QED
    BY <1>2, <1>3, <1>4, <1>5, <1>6, <1>7, <1>8 DEF ServerInv

(* The copies are not concerned by what a request does on its way, by an   *)
(* artifact that is deleted, or by a restoration.                          *)
LEMMA CopiesKept ==
    ASSUME PublishingInv, UNCHANGED <<publishing, pubs>>,
           published' \in published .. MaxPubs,
           versions' \subseteq versions, deleted \subseteq deleted',
           \A v \in versions \ versions' : v.artifact \in deleted',
           \A h \in Handlers : Publishes(h)' =>
              \/ handler'[h].pub > published
              \/ /\ Publishes(h) /\ handler'[h].pub = handler[h].pub
                 /\ handler'[h].target = handler[h].target /\ handler'[h].base = handler[h].base,
           \A c \in Copies : call[c] # NoCall =>
              Publishes(call[c])' /\ handler'[call[c]].pub = handler[call[c]].pub
    PROVE  CopiesInv'
  <1> USE Marks
  <1>1. /\ UNCHANGED <<record, pending, call, owner, unrecorded, dropped, pubs>>
        /\ published \in 0 .. MaxPubs /\ published' \in 0 .. MaxPubs /\ published' >= published
    BY DEF publishing, PublishingInv, ServerInv, ArtifactsTypeOK
  <1>2. CopiesTypeOK'
    BY <1>1 DEF PublishingInv, CopiesInv, CopiesTypeOK
  <1>3. RecordFollows'
    BY <1>1 DEF PublishingInv, CopiesInv, RecordFollows
  <1>4. OwnerSound'
    BY <1>1 DEF PublishingInv, CopiesInv, OwnerSound, PublicationIds
  <1>5. ASSUME NEW c \in Copies
        PROVE  PackageSound(c)' /\ CallSound(c)' /\ CopySound(c)'
    <2>1. PackageSound(c) /\ CallSound(c) /\ CopySound(c)
      BY DEF PublishingInv, CopiesInv
    <2>2. pending[c].pub \in 0 .. MaxPubs
      BY DEF PublishingInv, CopiesInv, CopiesTypeOK
    <2>3. PackageSound(c)'
      BY <1>1, <2>1, <2>2 DEF PackageSound
    <2>4. CallSound(c)'
      BY <1>1, <2>1 DEF CallSound
    <2>5. CopySound(c)'
      BY <1>1, <2>1 DEF CopySound, NoPackage, PlaceOf, Place
    <2> QED
      BY <2>3, <2>4, <2>5
  <1> QED
    BY <1>2, <1>3, <1>4, <1>5 DEF CopiesInv

-----------------------------------------------------------------------------
(* The steps of a request.                                                 *)

(* A request that goes on, or is answered, without touching anything.      *)
LEMMA RequestGoesOn ==
    ASSUME PublishingInv, NEW h \in Handlers, NEW pc \in Stages \cup Statuses, NEW at,
           Publishes(h), handler[h].pc # "row", pc \notin Holding \cup {"idle"},
           at \in [artifact : ArtifactIds \cup {New}, number : 0 .. MaxVersions],
           handler' = [handler EXCEPT ![h].pc = pc, ![h].at = at],
           opsLock' = IF opsLock = h THEN Free ELSE opsLock,
           UNCHANGED <<rows, disk, reader, published, deleted, leftover, missed, publishing>>,
           AnswerSound(h)'
    PROVE  PublishingInv'
  <1> USE Marks
  <1> DEFINE r == [handler[h] EXCEPT !.pc = pc, !.at = at]
  <1>1. handler[h] \in Request /\ published \in 0 .. MaxPubs /\ ServerInv
    BY DEF PublishingInv, ServerInv, ArtifactsTypeOK
  <1>2. r \in Request /\ handler' = [handler EXCEPT ![h] = r]
    BY <1>1 DEF Request, PublishingInv, ServerInv, ArtifactsTypeOK
  <1>3. /\ handler'[h].pc = pc /\ handler'[h].pub = handler[h].pub
        /\ handler'[h].target = handler[h].target /\ handler'[h].base = handler[h].base
        /\ handler'[h].from = handler[h].from
        /\ \A k \in Handlers \ {h} : handler'[k] = handler[k]
    BY <1>1, <1>2 DEF Request, ServerInv, ArtifactsTypeOK
  <1>4. RequestSound(h)'
    <2>1. UNCHANGED <<versions, deleted, published>> /\ RequestSound(h) /\ Publishes(h)'
      BY <1>1, <1>3 DEF rows, ServerInv, Publishes, Holding
    <2> QED
      BY <1>3, <2>1 DEF RequestSound, Publishes, Holding, Known, Place, PlaceOf
  <1>5. published' \in published .. MaxPubs /\ handler[h].pc \notin {"row", "erase"}
    BY <1>1 DEF Publishes
  <1>6. ServerInv'
    <2>1. r.pc \notin Holding
      BY <1>1 DEF Holding, Request
    <2>2. UNCHANGED <<rows, disk, reader, deleted, leftover, missed>>
      OBVIOUS
    <2> HIDE DEF r
    <2> QED
      BY <1>1, <1>2, <1>4, <1>5, <2>1, <2>2, ServerMoves
  <1>7. CopiesInv'
    <2>1. \A k \in Handlers :
             /\ Publishes(k)' = Publishes(k) /\ handler'[k].pub = handler[k].pub
             /\ handler'[k].target = handler[k].target /\ handler'[k].base = handler[k].base
      BY <1>3 DEF Publishes, Holding
    <2>2. \A c \in Copies : call[c] # NoCall => call[c] \in Handlers /\ Publishes(call[c])
      BY DEF PublishingInv, CopiesInv, CopiesTypeOK, CallSound
    <2>3. /\ UNCHANGED <<publishing, pubs>> /\ versions' = versions /\ deleted' = deleted
          /\ published' \in published .. MaxPubs
      BY <1>5 DEF rows
    <2>4. /\ versions' \subseteq versions /\ deleted \subseteq deleted'
          /\ \A v \in versions \ versions' : v.artifact \in deleted'
      BY <2>3
    <2>5. \A c \in Copies : call[c] # NoCall =>
             Publishes(call[c])' /\ handler'[call[c]].pub = handler[call[c]].pub
      BY <2>1, <2>2, <2>3 DEF publishing
    <2> QED
      BY <2>1, <2>3, <2>4, <2>5, CopiesKept
  <1> QED
    BY <1>6, <1>7 DEF PublishingInv

(* What a committed publication answers. *)
LEMMA CommittedAnswers ==
    ASSUME PublishingInv, NEW h \in Handlers, Publishes(h), Committed(h), ReplayAnswer(h) = "ok"
    PROVE  /\ CommittedAs(h) \in versions /\ CommittedAs(h).pub = handler[h].pub
           /\ handler[h].target \in {New, CommittedAs(h).artifact}
  <1>1. CommittedAs(h) \in versions /\ CommittedAs(h).pub = handler[h].pub
    BY DEF Committed, CommittedAs
  <1>2. ~Elsewhere(h)
    BY DEF ReplayAnswer
  <1> QED
    BY <1>1, <1>2 DEF Elsewhere

LEMMA AnswersFromChecks ==
    ASSUME PublishingInv, NEW h \in Handlers, Publishes(h), handler[h].pc # "row",
           NEW status \in Statuses, Refuse(h, status), opsLock # h,
           status = "ok" => Committed(h) /\ ReplayAnswer(h) = "ok",
           UNCHANGED <<rows, disk, reader, published, deleted, leftover, missed, publishing>>
    PROVE  PublishingInv'
  <1> USE Marks
  <1> DEFINE at == IF status = "ok" THEN PlaceOf(CommittedAs(h)) ELSE handler[h].at
  <1>1. handler \in [Handlers -> Request] /\ versions \subseteq
           [artifact : ArtifactIds, number : Versions, base : 0 .. MaxVersions,
            pub : PublicationIds, snap : PublicationIds]
    BY DEF PublishingInv, ServerInv, ArtifactsTypeOK
  <1>2. status = "ok" => CommittedAs(h) \in versions
    BY CommittedAnswers
  <1>3. at \in [artifact : ArtifactIds \cup {New}, number : 0 .. MaxVersions]
    BY <1>1, <1>2 DEF Request, PlaceOf, Place, Versions
  <1>4. handler' = [handler EXCEPT ![h].pc = status, ![h].at = at]
    BY <1>1 DEF Refuse, Request
  <1>5. opsLock' = IF opsLock = h THEN Free ELSE opsLock
    BY DEF Refuse
  <1>6. AnswerSound(h)'
    <2>1. handler'[h].pc = status /\ handler'[h].at = at /\ handler'[h].pub = handler[h].pub
          /\ handler'[h].target = handler[h].target
      BY <1>1, <1>4 DEF Request
    <2>2. UNCHANGED <<versions, pubs, deleted>>
      BY DEF rows
    <2>3. CASE status = "ok"
      <3>1. /\ CommittedAs(h) \in versions /\ CommittedAs(h).pub = handler[h].pub
            /\ handler[h].target \in {New, CommittedAs(h).artifact}
        BY <2>3, CommittedAnswers
      <3>2. VersionsSound
        BY DEF PublishingInv, ServerInv
      <3> HIDE DEF CommittedAs
      <3> QED
        BY <2>1, <2>2, <2>3, <3>1, <3>2 DEF AnswerSound, VersionsSound, Known, PlaceOf, Place
    <2>4. CASE status # "ok"
      BY <2>1, <2>4 DEF AnswerSound
    <2> QED
      BY <2>3, <2>4
  <1>7. status \in Stages \cup Statuses /\ status \notin Holding \cup {"idle"}
    BY DEF Statuses, Holding
  <1> HIDE DEF at
  <1> QED
    BY <1>3, <1>4, <1>5, <1>6, <1>7, RequestGoesOn

(* The same for a step to the next stage, or a failure. *)
LEMMA StagesGoOn ==
    ASSUME PublishingInv, NEW h \in Handlers, Publishes(h), handler[h].pc # "row",
           NEW pc \in Stages \cup Statuses, pc \notin Holding \cup {"idle", "ok"},
           handler' = [handler EXCEPT ![h].pc = pc],
           opsLock' = IF opsLock = h THEN Free ELSE opsLock,
           UNCHANGED <<rows, disk, reader, published, deleted, leftover, missed, publishing>>
    PROVE  PublishingInv'
  <1>1. handler \in [Handlers -> Request]
    BY DEF PublishingInv, ServerInv, ArtifactsTypeOK
  <1>2. handler' = [handler EXCEPT ![h].pc = pc, ![h].at = handler[h].at]
    BY <1>1 DEF Request
  <1>3. handler[h].at \in [artifact : ArtifactIds \cup {New}, number : 0 .. MaxVersions]
    BY <1>1 DEF Request
  <1>4. AnswerSound(h)'
    BY <1>1 DEF AnswerSound, Request
  <1> QED
    BY <1>2, <1>3, <1>4, RequestGoesOn

LEMMA ReplayKeeps ==
    ASSUME PublishingInv, NEW h \in Handlers, Replay(h), UNCHANGED publishing
    PROVE  PublishingInv'
  <1> USE Marks
  <1>1. handler[h].pc = "replay" /\ Publishes(h) /\ opsLock # h
    BY DEF Replay, Publishes, PublishingInv, ServerInv, MutexSound, Holding
  <1>2. UNCHANGED <<rows, disk, reader, published, deleted, leftover, missed, publishing>>
    BY DEF Replay
  <1>3. CASE Committed(h) /\ Refuse(h, ReplayAnswer(h))
    <2>1. ReplayAnswer(h) \in Statuses
      BY DEF ReplayAnswer, Statuses
    <2> QED
      BY <1>1, <1>2, <1>3, <2>1, AnswersFromChecks
  <1>4. CASE Goto(h, "known")
    BY <1>1, <1>2, <1>4, StagesGoOn DEF Goto, Stages, Statuses, Holding
  <1>5. CASE Reply(h, "failed")
    BY <1>1, <1>2, <1>5, StagesGoOn DEF Reply, Stages, Statuses, Holding
  <1> QED
    BY <1>3, <1>4, <1>5 DEF Replay

LEMMA LookUpKeeps ==
    ASSUME PublishingInv, NEW h \in Handlers, LookUpPublication(h), UNCHANGED publishing
    PROVE  PublishingInv'
  <1> USE Marks
  <1>1. handler[h].pc = "known" /\ Publishes(h) /\ opsLock # h
    BY DEF LookUpPublication, Publishes, PublishingInv, ServerInv, MutexSound, Holding
  <1>2. UNCHANGED <<rows, disk, reader, published, deleted, leftover, missed, publishing>>
    BY DEF LookUpPublication
  <1>3. CASE Reply(h, "gone")
    BY <1>1, <1>2, <1>3, StagesGoOn DEF Reply, Stages, Statuses, Holding
  <1>4. CASE Goto(h, IF handler[h].target = New THEN "stage" ELSE "early")
    BY <1>1, <1>2, <1>4, StagesGoOn DEF Goto, Stages, Statuses, Holding
  <1> QED
    BY <1>3, <1>4 DEF LookUpPublication

LEMMA EarlyCheckKeeps ==
    ASSUME PublishingInv, NEW h \in Handlers, EarlyCheck(h), UNCHANGED publishing
    PROVE  PublishingInv'
  <1> USE Marks
  <1>1. handler[h].pc = "early" /\ Publishes(h) /\ opsLock # h
    BY DEF EarlyCheck, Publishes, PublishingInv, ServerInv, MutexSound, Holding
  <1>2. UNCHANGED <<rows, disk, reader, published, deleted, leftover, missed, publishing>>
    BY DEF EarlyCheck
  <1>3. CASE Reply(h, "not_found")
    BY <1>1, <1>2, <1>3, StagesGoOn DEF Reply, Stages, Statuses, Holding
  <1>4. CASE Reply(h, "conflict")
    BY <1>1, <1>2, <1>4, StagesGoOn DEF Reply, Stages, Statuses, Holding
  <1>5. CASE Goto(h, IF handler[h].from = 0 THEN "stage" ELSE "lock")
    BY <1>1, <1>2, <1>5, StagesGoOn DEF Goto, Stages, Statuses, Holding
  <1> QED
    BY <1>3, <1>4, <1>5 DEF EarlyCheck

LEMMA StageKeeps ==
    ASSUME PublishingInv, NEW h \in Handlers, Stage(h), UNCHANGED publishing
    PROVE  PublishingInv'
  <1> USE Marks
  <1>1. handler[h].pc = "stage" /\ Publishes(h) /\ opsLock # h
    BY DEF Stage, Publishes, PublishingInv, ServerInv, MutexSound, Holding
  <1>2. UNCHANGED <<rows, disk, reader, published, deleted, leftover, missed, publishing>>
    BY DEF Stage
  <1>3. CASE Goto(h, "lock")
    BY <1>1, <1>2, <1>3, StagesGoOn DEF Goto, Stages, Statuses, Holding
  <1>4. CASE \E verdict \in Verdicts : Reply(h, verdict)
    BY <1>1, <1>2, <1>4, StagesGoOn DEF Reply, Stages, Statuses, Holding, Verdicts
  <1> QED
    BY <1>3, <1>4 DEF Stage

-----------------------------------------------------------------------------
(* The steps under the mutex.                                              *)

(* What the holder does leaves the other requests and the reader sound: no *)
(* row goes but with its artifact, and no row comes but of a new           *)
(* publication.                                                            *)
RowsGoOn ==
    /\ pubs \subseteq pubs' /\ deleted \subseteq deleted'
    /\ \A v \in versions \ versions' : v.artifact \in deleted'
    /\ \A v \in versions' \ versions : v.pub \notin pubs

LEMMA OthersKept ==
    ASSUME ServerInv, NEW h \in Handlers, NEW r \in Request, RowsGoOn,
           handler' = [handler EXCEPT ![h] = r], UNCHANGED <<reader, published>>,
           opsLock \in {Free, h}, opsLock' = IF r.pc \in Holding THEN h ELSE Free
    PROVE  /\ ReaderSound' /\ MutexSound' /\ handler' \in [Handlers -> Request]
           /\ handler'[h] = r
           /\ \A k \in Handlers \ {h} :
                 /\ handler'[k] = handler[k] /\ handler[k].pc \notin Holding
                 /\ RequestSound(k)' /\ PlacingSound(k)' /\ AnswerSound(k)'
  <1> USE Marks
  <1>1. /\ handler \in [Handlers -> Request] /\ handler' \in [Handlers -> Request]
        /\ handler'[h] = r /\ \A k \in Handlers \ {h} : handler'[k] = handler[k]
    BY DEF ServerInv, ArtifactsTypeOK
  <1>2. \A k \in Handlers \ {h} : handler[k].pc \notin Holding
    BY DEF ServerInv, MutexSound
  <1>3. ASSUME NEW p, Known(p) PROVE Known(p)'
    BY <1>3 DEF Known, RowsGoOn, PlaceOf, Place
  <1>4. ReaderSound'
    BY <1>3 DEF ServerInv, ReaderSound
  <1>5. MutexSound'
    BY <1>1, <1>2 DEF MutexSound
  <1>6. ASSUME NEW k \in Handlers \ {h}
        PROVE  RequestSound(k)' /\ PlacingSound(k)' /\ AnswerSound(k)'
    <2>1. handler'[k] = handler[k] /\ RequestSound(k) /\ AnswerSound(k)
      BY <1>1 DEF ServerInv
    <2>2. RequestSound(k)'
      <3>1. Known(Place(handler[k].target, handler[k].from)) =>
               Known(Place(handler[k].target, handler[k].from))'
        BY <1>3, <2>1 DEF Place
      <3> QED
        BY <2>1, <3>1 DEF RequestSound, Publishes, RowsGoOn, Place
    <2>3. PlacingSound(k)'
      BY <1>2, <2>1 DEF PlacingSound, Holding
    <2>4. AnswerSound(k)'
      BY <2>1 DEF AnswerSound, RowsGoOn, PlaceOf, Place
    <2> QED
      BY <2>2, <2>3, <2>4
  <1> QED
    BY <1>1, <1>2, <1>4, <1>5, <1>6

(* Nor does a step of a request that adds no row concern the copies.       *)
LEMMA CopiesUnconcerned ==
    ASSUME PublishingInv, NEW h \in Handlers, NEW r \in Request,
           handler' = [handler EXCEPT ![h] = r], UNCHANGED <<publishing, pubs, published>>,
           versions' \subseteq versions, deleted \subseteq deleted',
           \A v \in versions \ versions' : v.artifact \in deleted',
           IF Publishes(h)
             THEN /\ r.pc \notin {"idle", "erase"} /\ r.pub = handler[h].pub
                  /\ r.target = handler[h].target /\ r.base = handler[h].base
             ELSE r.pc \in {"idle", "erase"}
    PROVE  CopiesInv'
  <1>1. /\ handler'[h] = r /\ \A k \in Handlers \ {h} : handler'[k] = handler[k]
        /\ published' \in published .. MaxPubs /\ call' = call
    BY Marks DEF PublishingInv, ServerInv, ArtifactsTypeOK, publishing
  <1>2. \A k \in Handlers : Publishes(k)' <=> Publishes(k)
    BY <1>1 DEF Publishes
  <1>3. \A k \in Handlers : Publishes(k) =>
           /\ handler'[k].pub = handler[k].pub
           /\ handler'[k].target = handler[k].target /\ handler'[k].base = handler[k].base
    BY <1>1
  <1>4. \A c \in Copies : call[c] # NoCall => call[c] \in Handlers /\ Publishes(call[c])
    BY DEF PublishingInv, CopiesInv, CopiesTypeOK, CallSound
  <1>5. \A c \in Copies : call[c] # NoCall =>
           Publishes(call[c])' /\ handler'[call[c]].pub = handler[call[c]].pub
    BY <1>1, <1>2, <1>3, <1>4
  <1> QED
    BY <1>1, <1>2, <1>3, <1>5, CopiesKept

(* The mutex is taken with the checks that count just made. *)
LEMMA LockTakes ==
    ASSUME PublishingInv, NEW h \in Handlers, handler[h].pc = "lock", opsLock = Free,
           Refusal(h) = "none", handler' = [handler EXCEPT ![h].pc = "place"], opsLock' = h,
           handler[h].target = New \/ CurrentVersion(handler[h].target) < MaxVersions,
           UNCHANGED <<rows, disk, reader, published, deleted, leftover, missed, publishing>>
    PROVE  PublishingInv'
  <1> USE Marks
  <1> DEFINE r == [handler[h] EXCEPT !.pc = "place"]
  <1>1. /\ ServerInv /\ handler \in [Handlers -> Request] /\ r \in Request
        /\ handler' = [handler EXCEPT ![h] = r]
        /\ UNCHANGED <<versions, pubs, content, durable>>
    BY DEF PublishingInv, ServerInv, ArtifactsTypeOK, Request, Stages, rows, disk
  <1>2. RowsGoOn /\ r.pc = "place" /\ r.pc \in Holding
    BY <1>1 DEF RowsGoOn, Holding, Request
  <1>3. Publishes(h)
    BY DEF Publishes
  <1>4. /\ r.pub = handler[h].pub /\ r.target = handler[h].target /\ r.base = handler[h].base
        /\ r.from = handler[h].from
    BY <1>1 DEF Request
  <1> HIDE DEF r
  <1>5. /\ ReaderSound' /\ MutexSound' /\ handler' \in [Handlers -> Request] /\ handler'[h] = r
        /\ \A k \in Handlers \ {h} :
              /\ handler'[k] = handler[k] /\ handler[k].pc \notin Holding
              /\ RequestSound(k)' /\ PlacingSound(k)' /\ AnswerSound(k)'
    BY <1>1, <1>2, OthersKept
  <1>6. ArtifactsTypeOK' /\ ContentBehindRows' /\ BasesChain' /\ ReaderFinds' /\ VersionsSound'
    BY <1>1, <1>5 DEF ServerInv, ArtifactsTypeOK, ContentBehindRows, BasesChain, ReaderFinds,
       VersionsSound, PlaceOf, Place
  <1>7. OrphansTraced'
    <2>1. \A k \in Handlers : handler[k].pc \notin {"row", "erase"}
      BY <1>5 DEF Holding
    <2> QED
      BY <1>1, <2>1 DEF ServerInv, OrphansTraced, PlaceOf, Place
  <1>8. RequestSound(h)' /\ AnswerSound(h)'
    <2>1. RequestSound(h) /\ UNCHANGED <<published, versions, deleted>>
      BY <1>1 DEF ServerInv
    <2> QED
      BY <1>2, <1>3, <1>4, <1>5, <2>1 DEF RequestSound, AnswerSound, Publishes, Known, Place, PlaceOf
  <1>9. PlacingSound(h)'
    <2>1. handler[h].pub \notin pubs
      BY DEF Refusal, Replays, ReplayAnswer
    <2>2. handler[h].target # New =>
             /\ handler[h].target \in Live /\ handler[h].base = CurrentVersion(handler[h].target)
             /\ handler[h].base < MaxVersions
      BY DEF Refusal, Replays, ReplayAnswer, Stale
    <2>3. Live' = Live
      BY <1>1 DEF Live
    <2>4. CurrentVersion(handler[h].target)' = CurrentVersion(handler[h].target)
      BY <1>1, <1>4, <1>5 DEF CurrentVersion
    <2> QED
      BY <1>1, <1>2, <1>4, <1>5, <2>1, <2>2, <2>3, <2>4 DEF PlacingSound
  <1>10. ServerInv'
    BY <1>5, <1>6, <1>7, <1>8, <1>9 DEF ServerInv
  <1>11. CopiesInv'
    BY <1>1, <1>2, <1>3, <1>4, CopiesUnconcerned
  <1> QED
    BY <1>10, <1>11 DEF PublishingInv

LEMMA LockKeeps ==
    ASSUME PublishingInv, NEW h \in Handlers, Lock(h), UNCHANGED publishing
    PROVE  PublishingInv'
  <1> USE Marks
  <1>1. handler[h].pc = "lock" /\ Publishes(h) /\ opsLock = Free /\ opsLock # h
    BY DEF Lock, Publishes
  <1>2. UNCHANGED <<rows, disk, reader, published, deleted, leftover, missed, publishing>>
    BY DEF Lock
  <1>3. CASE Refusal(h) # "none" /\ Refuse(h, Refusal(h))
    <2>1. Refusal(h) \in Statuses /\ (Refusal(h) = "ok" => ReplayAnswer(h) = "ok" /\ Replays(h))
      <3>1. Refusal(h) \in {ReplayAnswer(h), "none", "not_found", "conflict"}
        BY <1>3 DEF Refusal, New
      <3>2. Refusal(h) = "ok" => Replays(h)
        BY DEF Refusal
      <3> QED
        BY <1>3, <3>1, <3>2 DEF ReplayAnswer, Statuses, Refusal
    <2>2. Refusal(h) = "ok" => Committed(h)
      BY <2>1 DEF ReplayAnswer, Gone, Replays
    <2> QED
      BY <1>1, <1>2, <1>3, <2>1, <2>2, AnswersFromChecks
  <1>4. CASE /\ Refusal(h) = "none"
             /\ handler[h].target = New \/ CurrentVersion(handler[h].target) < MaxVersions
             /\ handler' = [handler EXCEPT ![h].pc = "place"] /\ opsLock' = h
    BY <1>1, <1>2, <1>4, LockTakes
  <1>5. CASE Reply(h, "failed")
    BY <1>1, <1>2, <1>5, StagesGoOn DEF Reply, Stages, Statuses, Holding
  <1> QED
    BY <1>3, <1>4, <1>5 DEF Lock

(* What a version's directory is to be. *)
Placement(h, p) == [artifact |-> p.artifact, number |-> p.number, snap |-> Snapshot(h)]

(* The place a version goes to is free of rows if it is free of directories. *)
LEMMA PlaceFree ==
    ASSUME ServerInv, NEW p, Dir(p) = {}
    PROVE  \A v \in versions : PlaceOf(v) # p
    BY DEF ServerInv, ArtifactsTypeOK, ContentBehindRows, Dir

(* Where a version goes, and what it gets. *)
LEMMA TargetTyped ==
    ASSUME ServerInv, NEW h \in Handlers, handler[h].pc = "place", NEW p \in Targets(h)
    PROVE  /\ p \in [artifact : ArtifactIds, number : Versions]
           /\ p = Place(IF handler[h].target = New THEN p.artifact ELSE handler[h].target,
                        handler[h].base + 1)
           /\ p.artifact \in ArtifactIds \ deleted
           /\ Snapshot(h) \in PublicationIds
  <1> USE Marks
  <1>1. /\ handler[h] \in Request /\ RequestSound(h) /\ PlacingSound(h) /\ VersionsSound
        /\ versions \subseteq [artifact : ArtifactIds, number : Versions, base : 0 .. MaxVersions,
                               pub : PublicationIds, snap : PublicationIds]
        /\ published \in 0 .. MaxPubs
    BY DEF ServerInv, ArtifactsTypeOK
  <1>2. Publishes(h)
    BY DEF Publishes
  <1>3. CASE handler[h].target = New
    <2>1. handler[h].base = 0 /\ handler[h].from = 0 /\ handler[h].pub \in PublicationIds
      BY <1>1, <1>2, <1>3 DEF RequestSound, PublicationIds, Request
    <2>2. PICK a \in ArtifactIds \ deleted : p = Place(a, 1)
      BY <1>3 DEF Targets, Minted
    <2> QED
      BY <1>3, <2>1, <2>2 DEF Place, Versions, Snapshot
  <1>4. CASE handler[h].target # New
    <2>1. /\ handler[h].target \in Live /\ handler[h].base = CurrentVersion(handler[h].target)
          /\ handler[h].base < MaxVersions /\ handler[h].base \in 0 .. MaxVersions
      BY <1>1, <1>4 DEF PlacingSound, Request
    <2>2. p = Place(handler[h].target, handler[h].base + 1)
      BY <1>4, <2>1 DEF Targets
    <2>3. handler[h].target \in ArtifactIds \ deleted
      BY <1>1, <2>1 DEF Live, VersionsSound
    <2>4. Snapshot(h) \in PublicationIds
      <3>1. CASE handler[h].from = 0
        BY <1>1, <1>2, <3>1 DEF RequestSound, Snapshot, PublicationIds
      <3>2. CASE handler[h].from # 0
        <4>1. \E v \in versions : v.artifact = handler[h].target /\ v.number = handler[h].from
          BY <1>1, <1>2, <2>3, <3>2 DEF RequestSound, Known, Place, PlaceOf
        <4>2. VersionRow(handler[h].target, handler[h].from) \in versions
          BY <4>1 DEF VersionRow
        <4> QED
          BY <1>1, <3>2, <4>2 DEF Snapshot
      <3> QED
        BY <3>1, <3>2
    <2> QED
      BY <1>4, <2>1, <2>2, <2>3, <2>4 DEF Place, Versions
  <1> QED
    BY <1>3, <1>4

(* The holder's steps do not touch what depends on the rows alone. *)
LEMMA RowsKept ==
    ASSUME ServerInv, UNCHANGED <<rows, deleted, missed, published>>
    PROVE  RowsGoOn /\ BasesChain' /\ ReaderFinds' /\ VersionsSound'
    BY DEF ServerInv, rows, RowsGoOn, BasesChain, ReaderFinds, VersionsSound

LEMMA CommitPlaces ==
    ASSUME PublishingInv, NEW h \in Handlers, handler[h].pc = "place", NEW p \in Targets(h),
           Dir(p) = {}, content' = content \cup {Placement(h, p)},
           durable' = durable \cup {Placement(h, p)},
           handler' = [handler EXCEPT ![h].pc = "row", ![h].at = p],
           UNCHANGED <<rows, opsLock, reader, published, deleted, leftover, missed, publishing>>
    PROVE  PublishingInv'
  <1> USE Marks
  <1> DEFINE r == [handler[h] EXCEPT !.pc = "row", !.at = p]
  <1>1. ServerInv /\ handler \in [Handlers -> Request] /\ opsLock = h /\ UNCHANGED <<versions, pubs>>
    BY DEF PublishingInv, ServerInv, ArtifactsTypeOK, MutexSound, Holding, rows
  <1>2. /\ p \in [artifact : ArtifactIds, number : Versions]
        /\ p = Place(IF handler[h].target = New THEN p.artifact ELSE handler[h].target,
                     handler[h].base + 1)
        /\ p.artifact \in ArtifactIds \ deleted
        /\ Snapshot(h) \in PublicationIds
    BY <1>1, TargetTyped
  <1>3. r \in Request /\ handler' = [handler EXCEPT ![h] = r]
    <2>1. p \in [artifact : ArtifactIds \cup {New}, number : 0 .. MaxVersions]
      BY <1>2 DEF Versions
    <2>2. r \in Request
      <3>1. handler[h] \in Request /\ "row" \in Stages \cup Statuses
        BY <1>1 DEF Stages
      <3> HIDE DEF Place
      <3> QED
        BY <2>1, <3>1 DEF Request
    <2>3. handler' = [handler EXCEPT ![h] = r]
      BY <1>1 DEF Request
    <2> QED
      BY <2>2, <2>3
  <1>4. /\ r.pc = "row" /\ r.at = p /\ r.pub = handler[h].pub /\ r.target = handler[h].target
        /\ r.base = handler[h].base /\ r.from = handler[h].from
    BY <1>1 DEF Request
  <1> HIDE DEF r
  <1>5. RowsGoOn /\ BasesChain' /\ ReaderFinds' /\ VersionsSound'
    BY <1>1, RowsKept
  <1>6. /\ ReaderSound' /\ MutexSound' /\ handler' \in [Handlers -> Request] /\ handler'[h] = r
        /\ \A k \in Handlers \ {h} :
              /\ handler'[k] = handler[k] /\ handler[k].pc \notin Holding
              /\ RequestSound(k)' /\ PlacingSound(k)' /\ AnswerSound(k)'
    BY <1>1, <1>3, <1>4, <1>5, OthersKept DEF Holding
  <1>7. ArtifactsTypeOK'
    BY <1>1, <1>2, <1>6 DEF ServerInv, ArtifactsTypeOK, Placement
  <1>8. ContentBehindRows'
    BY <1>1 DEF ServerInv, ContentBehindRows, PlaceOf, Place
  <1>9. PlaceOf(Placement(h, p)) = p
    BY <1>2 DEF PlaceOf, Placement, Place
  <1>10. OrphansTraced'
    <2>1. ASSUME NEW d \in content'
          PROVE  \/ PlaceOf(d) \in leftover
                 \/ \E v \in versions : PlaceOf(v) = PlaceOf(d)
                 \/ handler'[h].pc = "row" /\ handler'[h].at = PlaceOf(d)
      <3>1. CASE d \in content
        <4>1. \A k \in Handlers : handler[k].pc \notin {"row", "erase"}
          BY <1>6 DEF Holding
        <4> QED
          BY <1>1, <3>1, <4>1 DEF ServerInv, OrphansTraced
      <3>2. CASE d = Placement(h, p)
        BY <1>4, <1>6, <1>9, <3>2
      <3> QED
        BY <3>1, <3>2
    <2> QED
      BY <1>1, <2>1 DEF OrphansTraced, PlaceOf, Place
  <1>11. Snapshot(h)' = Snapshot(h)
    BY <1>1, <1>4, <1>6 DEF Snapshot, VersionRow
  <1>12. RequestSound(h)' /\ AnswerSound(h)'
    <2>1. RequestSound(h) /\ Publishes(h) /\ UNCHANGED <<published, versions, deleted>>
      BY <1>1 DEF ServerInv, Publishes
    <2> QED
      BY <1>4, <1>6, <2>1 DEF RequestSound, AnswerSound, Publishes, Known, Place, PlaceOf
  <1>13. PlacingSound(h)'
    <2>1. PlacingSound(h)
      BY <1>1 DEF ServerInv
    <2>2. Live' = Live
      BY <1>1 DEF Live
    <2>3. CurrentVersion(handler[h].target)' = CurrentVersion(handler[h].target)
      BY <1>1, <1>4, <1>6 DEF CurrentVersion
    <2>4. \A v \in versions' : PlaceOf(v)' # p
      BY <1>1, PlaceFree DEF PlaceOf, Place
    <2>5. \E d \in durable' : PlaceOf(d) = p /\ d.snap = Snapshot(h)
      BY <1>9 DEF Placement
    <2> QED
      BY <1>1, <1>2, <1>4, <1>6, <1>11, <2>1, <2>2, <2>3, <2>4, <2>5 DEF PlacingSound, PlaceOf, Place
  <1>14. ServerInv'
    BY <1>5, <1>6, <1>7, <1>8, <1>10, <1>12, <1>13 DEF ServerInv
  <1>15. CopiesInv'
    <2>1. Publishes(h)
      BY DEF Publishes
    <2> QED
      BY <1>1, <1>3, <1>4, <2>1, CopiesUnconcerned
  <1> QED
    BY <1>14, <1>15 DEF PublishingInv

(* A sync that failed: the directory is there and counted as left. *)
LEMMA CommitLeaves ==
    ASSUME PublishingInv, NEW h \in Handlers, handler[h].pc = "place", NEW p \in Targets(h),
           content' = content \cup {Placement(h, p)}, leftover' = leftover \cup {p},
           Reply(h, "failed"),
           UNCHANGED <<rows, durable, reader, published, deleted, missed, publishing>>
    PROVE  PublishingInv'
  <1> USE Marks
  <1> DEFINE r == [handler[h] EXCEPT !.pc = "failed"]
  <1>1. ServerInv /\ handler \in [Handlers -> Request] /\ opsLock = h /\ UNCHANGED <<versions, pubs>>
    BY DEF PublishingInv, ServerInv, ArtifactsTypeOK, MutexSound, Holding, rows
  <1>2. /\ p \in [artifact : ArtifactIds, number : Versions]
        /\ Snapshot(h) \in PublicationIds
    BY <1>1, TargetTyped
  <1>3. r \in Request /\ handler' = [handler EXCEPT ![h] = r]
    BY <1>1, <1>2 DEF Request, Statuses, Reply
  <1>4. /\ r.pc = "failed" /\ r.pub = handler[h].pub /\ r.target = handler[h].target
        /\ r.base = handler[h].base /\ r.from = handler[h].from
    BY <1>1 DEF Request
  <1> HIDE DEF r
  <1>5. RowsGoOn /\ BasesChain' /\ ReaderFinds' /\ VersionsSound'
    BY <1>1, RowsKept
  <1>6. /\ ReaderSound' /\ MutexSound' /\ handler' \in [Handlers -> Request] /\ handler'[h] = r
        /\ \A k \in Handlers \ {h} :
              /\ handler'[k] = handler[k] /\ handler[k].pc \notin Holding
              /\ RequestSound(k)' /\ PlacingSound(k)' /\ AnswerSound(k)'
    BY <1>1, <1>3, <1>4, <1>5, OthersKept DEF Holding, Reply
  <1>7. ArtifactsTypeOK'
    BY <1>1, <1>2, <1>6 DEF ServerInv, ArtifactsTypeOK, Placement, Reply
  <1>8. ContentBehindRows'
    BY <1>1 DEF ServerInv, ContentBehindRows, PlaceOf, Place
  <1>9. PlaceOf(Placement(h, p)) = p
    BY <1>2 DEF PlaceOf, Placement, Place
  <1>10. OrphansTraced'
    <2>1. ASSUME NEW d \in content'
          PROVE  PlaceOf(d) \in leftover' \/ \E v \in versions : PlaceOf(v) = PlaceOf(d)
      <3>1. CASE d \in content
        <4>1. \A k \in Handlers : handler[k].pc \notin {"row", "erase"}
          BY <1>6 DEF Holding
        <4> QED
          BY <1>1, <3>1, <4>1 DEF ServerInv, OrphansTraced
      <3>2. CASE d = Placement(h, p)
        BY <1>9, <3>2
      <3> QED
        BY <3>1, <3>2
    <2> QED
      BY <1>1, <2>1 DEF OrphansTraced, PlaceOf, Place
  <1>11. RequestSound(h)' /\ AnswerSound(h)' /\ PlacingSound(h)'
    <2>1. RequestSound(h) /\ Publishes(h) /\ UNCHANGED <<published, versions, deleted>>
      BY <1>1 DEF ServerInv, Publishes
    <2> QED
      BY <1>4, <1>6, <2>1 DEF RequestSound, AnswerSound, PlacingSound, Publishes, Known, Place,
         PlaceOf
  <1>12. ServerInv'
    BY <1>5, <1>6, <1>7, <1>8, <1>10, <1>11 DEF ServerInv
  <1>13. CopiesInv'
    <2>1. Publishes(h)
      BY DEF Publishes
    <2> QED
      BY <1>1, <1>3, <1>4, <2>1, CopiesUnconcerned
  <1> QED
    BY <1>12, <1>13 DEF PublishingInv

LEMMA CommitKeeps ==
    ASSUME PublishingInv, NEW h \in Handlers, Commit(h), UNCHANGED publishing
    PROVE  PublishingInv'
  <1> USE Marks
  <1>1. handler[h].pc = "place" /\ Publishes(h)
    BY DEF Commit, Publishes
  <1>2. UNCHANGED <<rows, reader, published, deleted, missed, publishing>>
    BY DEF Commit
  <1>3. PICK p \in Targets(h) :
          \/ /\ Dir(p) = {} /\ content' = content \cup {Placement(h, p)}
             /\ durable' = durable \cup {Placement(h, p)}
             /\ handler' = [handler EXCEPT ![h].pc = "row", ![h].at = p]
             /\ UNCHANGED <<opsLock, leftover>>
          \/ /\ Reply(h, "failed")
             /\ \/ content' = content \cup {Placement(h, p)} /\ leftover' = leftover \cup {p}
                \/ UNCHANGED <<content, leftover>>
             /\ UNCHANGED durable
    BY DEF Commit, Placement
  <1>4. CASE /\ Dir(p) = {} /\ content' = content \cup {Placement(h, p)}
             /\ durable' = durable \cup {Placement(h, p)}
             /\ handler' = [handler EXCEPT ![h].pc = "row", ![h].at = p]
             /\ UNCHANGED <<opsLock, leftover>>
    BY <1>1, <1>2, <1>4, CommitPlaces
  <1>5. CASE /\ Reply(h, "failed") /\ UNCHANGED durable
             /\ content' = content \cup {Placement(h, p)} /\ leftover' = leftover \cup {p}
    BY <1>1, <1>2, <1>5, CommitLeaves
  <1>6. CASE Reply(h, "failed") /\ UNCHANGED <<content, durable, leftover>>
    BY <1>1, <1>2, <1>6, StagesGoOn DEF Reply, Stages, Statuses, Holding, disk
  <1> QED
    BY <1>3, <1>4, <1>5, <1>6

(* The row that a placement ends in. *)
RowPlaced(h) == [artifact |-> handler[h].at.artifact, number |-> handler[h].at.number,
              base |-> handler[h].base, pub |-> handler[h].pub, snap |-> Snapshot(h)]

(* What the holder knows before its row. *)
LEMMA BeforeRow ==
    ASSUME ServerInv, NEW h \in Handlers, handler[h].pc = "row"
    PROVE  /\ opsLock = h /\ handler \in [Handlers -> Request] /\ Publishes(h)
           /\ handler[h].pub \notin pubs /\ handler[h].pub \in 1 .. published
           /\ handler[h].at.artifact \in ArtifactIds \ deleted
           /\ handler[h].at = Place(handler[h].at.artifact, handler[h].base + 1)
           /\ handler[h].target # New => handler[h].at.artifact = handler[h].target
           /\ \A v \in versions : PlaceOf(v) # handler[h].at
           /\ \E d \in durable : PlaceOf(d) = handler[h].at /\ d.snap = Snapshot(h)
           /\ \A k \in Handlers : handler[k].pc \in Holding => k = h
  <1>1. /\ PlacingSound(h) /\ RequestSound(h) /\ MutexSound /\ handler \in [Handlers -> Request]
    BY DEF ServerInv, ArtifactsTypeOK
  <1>2. opsLock = h /\ Publishes(h) /\ \A k \in Handlers : handler[k].pc \in Holding => k = h
    BY <1>1 DEF MutexSound, Holding, Publishes
  <1>3. /\ handler[h].at = Place(IF handler[h].target = New THEN handler[h].at.artifact
                                 ELSE handler[h].target, handler[h].base + 1)
        /\ handler[h].pub \notin pubs /\ handler[h].at.artifact \in ArtifactIds \ deleted
        /\ \A v \in versions : PlaceOf(v) # handler[h].at
        /\ \E d \in durable : PlaceOf(d) = handler[h].at /\ d.snap = Snapshot(h)
    BY <1>1 DEF PlacingSound
  <1>4. handler[h].pub \in 1 .. published
    BY <1>1, <1>2 DEF RequestSound
  <1>5. handler[h].target # New => handler[h].at.artifact = handler[h].target
    BY <1>3 DEF Place
  <1>6. handler[h].at = Place(handler[h].at.artifact, handler[h].base + 1)
    BY <1>3, <1>5
  <1> QED
    BY <1>1, <1>2, <1>3, <1>4, <1>5, <1>6

(* The row is written; whether the answer says so or not. *)
LEMMA RowServerSide ==
    ASSUME PublishingInv, NEW h \in Handlers, handler[h].pc = "row",
           NEW status \in {"ok", "failed"}, Reply(h, status),
           versions' = versions \cup {RowPlaced(h)}, pubs' = pubs \cup {handler[h].pub},
           UNCHANGED <<disk, leftover, reader, published, deleted, missed>>
    PROVE  ServerInv'
  <1> USE Marks
  <1> DEFINE r == [handler[h] EXCEPT !.pc = status]
  <1>1. ServerInv /\ UNCHANGED <<content, durable>>
    BY DEF PublishingInv, disk
  <1>2. /\ opsLock = h /\ handler \in [Handlers -> Request] /\ Publishes(h)
        /\ handler[h].pub \notin pubs /\ handler[h].pub \in 1 .. published
        /\ handler[h].at.artifact \in ArtifactIds \ deleted
        /\ handler[h].at = Place(handler[h].at.artifact, handler[h].base + 1)
        /\ handler[h].target # New => handler[h].at.artifact = handler[h].target
        /\ \E d \in durable : PlaceOf(d) = handler[h].at /\ d.snap = Snapshot(h)
        /\ \A k \in Handlers : handler[k].pc \in Holding => k = h
    BY <1>1, BeforeRow
  <1>3. r \in Request /\ handler' = [handler EXCEPT ![h] = r]
    BY <1>2 DEF Request, Statuses, Reply
  <1>4. /\ r.pc = status /\ r.pub = handler[h].pub /\ r.target = handler[h].target
        /\ r.base = handler[h].base /\ r.from = handler[h].from /\ r.at = handler[h].at
    BY <1>2 DEF Request
  <1> HIDE DEF r
  <1>5. RowsGoOn
    BY <1>2 DEF RowsGoOn, RowPlaced
  <1>6. opsLock' = IF r.pc \in Holding THEN h ELSE Free
    BY <1>2, <1>4 DEF Holding, Reply
  <1>7. /\ ReaderSound' /\ MutexSound' /\ handler' \in [Handlers -> Request] /\ handler'[h] = r
        /\ \A k \in Handlers \ {h} :
              /\ handler'[k] = handler[k] /\ handler[k].pc \notin Holding
              /\ RequestSound(k)' /\ PlacingSound(k)' /\ AnswerSound(k)'
    BY <1>1, <1>2, <1>3, <1>5, <1>6, OthersKept
  <1>8. /\ RowPlaced(h) \in [artifact : ArtifactIds, number : Versions, base : 0 .. MaxVersions,
                          pub : PublicationIds, snap : PublicationIds]
        /\ RowPlaced(h).number = RowPlaced(h).base + 1 /\ PlaceOf(RowPlaced(h)) = handler[h].at
        /\ RowPlaced(h).pub = handler[h].pub /\ RowPlaced(h).artifact = handler[h].at.artifact
        /\ RowPlaced(h).snap = Snapshot(h)
    <2>1. Snapshot(h) \in PublicationIds
      BY <1>1, <1>2 DEF ServerInv, ArtifactsTypeOK
    <2>2. handler[h].at.number = handler[h].base + 1 /\ handler[h].at.number \in 0 .. MaxVersions
      BY <1>2 DEF Place, Request
    <2>3. handler[h].base \in 0 .. MaxVersions /\ handler[h].pub \in PublicationIds
      BY <1>1, <1>2 DEF Request, ServerInv, ArtifactsTypeOK, PublicationIds
    <2> QED
      BY <1>2, <2>1, <2>2, <2>3 DEF RowPlaced, Versions, PlaceOf, Place
  <1> HIDE DEF RowPlaced
  <1>9. ArtifactsTypeOK'
    <2>1. pubs' \subseteq PublicationIds
      <3>1. pubs \subseteq PublicationIds /\ RowPlaced(h).pub \in PublicationIds
        BY <1>1, <1>8 DEF ServerInv, ArtifactsTypeOK
      <3>2. pubs' = pubs \cup {RowPlaced(h).pub}
        BY <1>8
      <3> QED
        BY <3>1, <3>2
    <2> QED
      BY <1>1, <1>6, <1>7, <1>8, <2>1 DEF ServerInv, ArtifactsTypeOK
  <1>10. ContentBehindRows'
    BY <1>1, <1>2, <1>8 DEF ServerInv, ContentBehindRows, PlaceOf, Place
  <1>11. BasesChain' /\ ReaderFinds'
    BY <1>1, <1>8 DEF ServerInv, BasesChain, ReaderFinds, Versions
  <1>12. VersionsSound'
    BY <1>1, <1>2, <1>8 DEF ServerInv, VersionsSound
  <1>13. OrphansTraced'
    <2>1. ASSUME NEW d \in content
          PROVE  PlaceOf(d) \in leftover \/ \E v \in versions' : PlaceOf(v) = PlaceOf(d)
      <3>1. \A k \in Handlers : handler[k].pc # "erase" /\ (handler[k].pc = "row" => k = h)
        BY <1>2 DEF Holding
      <3> QED
        BY <1>1, <1>8, <3>1 DEF ServerInv, OrphansTraced
    <2> QED
      BY <1>1, <2>1 DEF OrphansTraced, PlaceOf, Place
  <1>14. RequestSound(h)' /\ PlacingSound(h)'
    <2>1. RequestSound(h) /\ UNCHANGED <<published, deleted>> /\ versions \subseteq versions'
      BY <1>1 DEF ServerInv
    <2> QED
      BY <1>2, <1>4, <1>7, <2>1 DEF RequestSound, PlacingSound, Publishes, Known, Place, PlaceOf
  <1>15. AnswerSound(h)'
    <2>1. handler'[h].pub \in pubs' /\ \E v \in versions' : PlaceOf(v) = handler[h].at
      BY <1>4, <1>7, <1>8
    <2>2. \A v \in versions' : v.pub = handler[h].pub => v = RowPlaced(h)
      BY <1>1, <1>2 DEF ServerInv, VersionsSound
    <2> QED
      BY <1>2, <1>4, <1>7, <1>8, <2>1, <2>2 DEF AnswerSound, Known, PlaceOf, Place
  <1> QED
    BY <1>7, <1>9, <1>10, <1>11, <1>12, <1>13, <1>14, <1>15 DEF ServerInv

(* A row of a copy's package is one its record does not follow yet. *)
LEMMA RowCopiesSide ==
    ASSUME PublishingInv, NEW h \in Handlers, handler[h].pc = "row",
           NEW status \in {"ok", "failed"}, Reply(h, status),
           versions' = versions \cup {RowPlaced(h)}, pubs' = pubs \cup {handler[h].pub},
           UNCHANGED <<deleted, published, publishing>>
    PROVE  CopiesInv'
  <1> USE Marks
  <1> DEFINE pub == handler[h].pub
             at == handler[h].at
  <1>1. ServerInv /\ CopiesInv /\ UNCHANGED <<record, pending, call, owner, unrecorded, dropped>>
    BY DEF PublishingInv, publishing
  <1>2. /\ handler \in [Handlers -> Request] /\ Publishes(h)
        /\ pub \notin pubs /\ pub \in 1 .. published /\ at.artifact \in ArtifactIds \ deleted
        /\ at = Place(at.artifact, handler[h].base + 1)
        /\ handler[h].target # New => at.artifact = handler[h].target
    BY <1>1, BeforeRow
  <1>3. /\ RowPlaced(h).pub = pub /\ RowPlaced(h).artifact = at.artifact
        /\ RowPlaced(h).number = at.number /\ RowPlaced(h).base = handler[h].base
    BY DEF RowPlaced
  <1> HIDE DEF RowPlaced
  <1>4. pub \in PublicationIds /\ published \in 0 .. MaxPubs
    BY <1>1, <1>2 DEF ServerInv, ArtifactsTypeOK, PublicationIds
  <1>5. /\ handler'[h].pub = pub /\ handler'[h].target = handler[h].target
        /\ handler'[h].base = handler[h].base /\ handler'[h].pc = status
        /\ \A k \in Handlers \ {h} : handler'[k] = handler[k]
    BY <1>2 DEF Reply, Request
  <1>6. CopiesTypeOK'
    BY <1>1 DEF CopiesInv, CopiesTypeOK
  <1>7. OwnerSound'
    BY <1>1 DEF CopiesInv, OwnerSound
  <1>8. RecordFollows'
    <2>1. ASSUME NEW c \in Copies, record[c].artifact \notin deleted,
                 NEW v \in versions'
          PROVE  \/ owner[v.pub] # c \/ c \in unrecorded
                 \/ v.pub \in dropped \/ v.pub = pending[c].pub
                 \/ record[c].artifact = v.artifact /\ v.number <= record[c].base
      <3>1. CASE v \in versions
        BY <1>1, <2>1, <3>1 DEF CopiesInv, RecordFollows
      <3>2. CASE v = RowPlaced(h)
        BY <1>1, <1>2, <1>3, <1>4, <3>2 DEF CopiesInv, OwnerSound
      <3> QED
        BY <3>1, <3>2
    <2>2. ASSUME NEW c \in Copies, record[c].artifact \notin deleted, record[c].artifact # New
          PROVE  \E v \in versions' : v.artifact = record[c].artifact /\ v.number = record[c].base
      BY <1>1, <2>2 DEF CopiesInv, RecordFollows
    <2> QED
      BY <1>1, <2>1, <2>2 DEF RecordFollows
  <1>9. ASSUME NEW c \in Copies
        PROVE  PackageSound(c)' /\ CallSound(c)' /\ CopySound(c)'
    <2>1. PackageSound(c) /\ CallSound(c) /\ CopySound(c)
      BY <1>1 DEF CopiesInv
    <2>2. \A k \in Handlers : /\ Publishes(k)' = Publishes(k) /\ handler'[k].pub = handler[k].pub
                              /\ handler'[k].target = handler[k].target
                              /\ handler'[k].base = handler[k].base
      BY <1>2, <1>5 DEF Publishes
    <2>3. PackageSound(c)'
      <3>1. ASSUME pending[c].pub # 0, NEW v \in versions', v.pub = pending[c].pub
            PROVE  v.base = pending[c].base /\ v.artifact \in {pending[c].target}
                   \cup (IF pending[c].target = New THEN ArtifactIds ELSE {})
        <4>1. CASE v \in versions
          BY <2>1, <3>1, <4>1 DEF PackageSound
        <4>2. CASE v = RowPlaced(h)
          BY <1>2, <1>3, <2>1, <3>1, <4>2 DEF PackageSound
        <4> QED
          BY <4>1, <4>2
      <3> QED
        BY <1>1, <2>1, <2>2, <3>1 DEF PackageSound
    <2>4. CallSound(c)'
      <3>1. call[c] \in Handlers \cup {NoCall}
        BY <1>1 DEF CopiesInv, CopiesTypeOK
      <3>2. call[c] # NoCall => Publishes(call[c])' /\ handler'[call[c]].pub = handler[call[c]].pub
        BY <1>1, <1>5, <2>1, <2>2, <3>1 DEF CallSound, Publishes
      <3> QED
        BY <1>1, <2>1, <3>2 DEF CallSound
    <2>5. CopySound(c)'
      <3>1. ASSUME pending[c].pub \in pubs, NEW v \in versions', v.pub = pending[c].pub
            PROVE  v \in versions
        BY <1>2, <1>3, <3>1
      <3> QED
        BY <1>1, <2>1, <3>1 DEF CopySound, NoPackage, PlaceOf, Place
    <2> QED
      BY <2>3, <2>4, <2>5
  <1> QED
    BY <1>6, <1>7, <1>8, <1>9 DEF CopiesInv

(* A placement that is taken back, for another try or for good. *)
LEMMA TakeBack ==
    ASSUME PublishingInv, NEW h \in Handlers, handler[h].pc = "row",
           NEW pc \in {"place", "failed"}, handler' = [handler EXCEPT ![h].pc = pc],
           opsLock' = IF pc = "place" THEN h ELSE Free, RemoveAll(handler[h].at),
           UNCHANGED <<rows, leftover, reader, published, deleted, missed, publishing>>
    PROVE  PublishingInv'
  <1> USE Marks
  <1> DEFINE r == [handler[h] EXCEPT !.pc = pc]
             at == handler[h].at
  <1>1. ServerInv /\ UNCHANGED <<versions, pubs>>
    BY DEF PublishingInv, rows
  <1>2. /\ opsLock = h /\ handler \in [Handlers -> Request] /\ Publishes(h)
        /\ \A v \in versions : PlaceOf(v) # at
        /\ \A k \in Handlers : handler[k].pc \in Holding => k = h
    BY <1>1, BeforeRow
  <1>3. r \in Request /\ handler' = [handler EXCEPT ![h] = r]
    BY <1>2 DEF Request, Statuses, Stages
  <1>4. /\ r.pc = pc /\ r.pub = handler[h].pub /\ r.target = handler[h].target
        /\ r.base = handler[h].base /\ r.from = handler[h].from /\ r.at = at
    BY <1>2 DEF Request
  <1> HIDE DEF r
  <1>5. RowsGoOn /\ BasesChain' /\ ReaderFinds' /\ VersionsSound'
    BY <1>1, RowsKept
  <1>6. opsLock' = IF r.pc \in Holding THEN h ELSE Free
    BY <1>4 DEF Holding
  <1>7. /\ ReaderSound' /\ MutexSound' /\ handler' \in [Handlers -> Request] /\ handler'[h] = r
        /\ \A k \in Handlers \ {h} :
              /\ handler'[k] = handler[k] /\ handler[k].pc \notin Holding
              /\ RequestSound(k)' /\ PlacingSound(k)' /\ AnswerSound(k)'
    BY <1>1, <1>2, <1>3, <1>5, <1>6, OthersKept
  <1>8. content' = {d \in content : PlaceOf(d) # at} /\ durable' = {d \in durable : PlaceOf(d) # at}
    BY <1>1 DEF RemoveAll, Dir, ServerInv, ArtifactsTypeOK
  <1>9. ArtifactsTypeOK'
    BY <1>1, <1>6, <1>7, <1>8 DEF ServerInv, ArtifactsTypeOK
  <1>10. ContentBehindRows'
    <2>1. ASSUME NEW v \in versions PROVE \E d \in durable' : PlaceOf(d) = PlaceOf(v) /\ d.snap = v.snap
      BY <1>1, <1>2, <1>8 DEF ServerInv, ContentBehindRows
    <2> QED
      BY <1>1, <2>1 DEF ContentBehindRows, PlaceOf, Place
  <1>11. OrphansTraced'
    <2>1. ASSUME NEW d \in content'
          PROVE  PlaceOf(d) \in leftover \/ \E v \in versions : PlaceOf(v) = PlaceOf(d)
      <3>1. \A k \in Handlers : handler[k].pc # "erase" /\ (handler[k].pc = "row" => k = h)
        BY <1>2 DEF Holding
      <3> QED
        BY <1>1, <1>8, <3>1 DEF ServerInv, OrphansTraced
    <2> QED
      BY <1>1, <2>1 DEF OrphansTraced, PlaceOf, Place
  <1>12. RequestSound(h)' /\ AnswerSound(h)'
    <2>1. RequestSound(h) /\ UNCHANGED <<published, versions, deleted>>
      BY <1>1 DEF ServerInv
    <2> QED
      BY <1>2, <1>4, <1>7, <2>1 DEF RequestSound, AnswerSound, Publishes, Known, Place, PlaceOf
  <1>13. PlacingSound(h)'
    <2>1. PlacingSound(h) /\ Live' = Live
      BY <1>1 DEF ServerInv, Live
    <2>2. CurrentVersion(handler[h].target)' = CurrentVersion(handler[h].target)
      BY <1>1, <1>4, <1>7 DEF CurrentVersion
    <2> QED
      BY <1>1, <1>4, <1>7, <2>1, <2>2 DEF PlacingSound
  <1>14. ServerInv'
    BY <1>5, <1>7, <1>9, <1>10, <1>11, <1>12, <1>13 DEF ServerInv
  <1>15. CopiesInv'
    BY <1>1, <1>2, <1>3, <1>4, CopiesUnconcerned
  <1> QED
    BY <1>14, <1>15 DEF PublishingInv

(* A placement that fails and stays: counted as left. *)
LEMMA LeaveBehind ==
    ASSUME PublishingInv, NEW h \in Handlers, handler[h].pc = "row", Reply(h, "failed"),
           leftover' = leftover \cup {handler[h].at},
           UNCHANGED <<rows, disk, reader, published, deleted, missed, publishing>>
    PROVE  PublishingInv'
  <1> USE Marks
  <1> DEFINE r == [handler[h] EXCEPT !.pc = "failed"]
  <1>1. ServerInv /\ UNCHANGED <<versions, pubs, content, durable>>
    BY DEF PublishingInv, rows, disk
  <1>2. /\ opsLock = h /\ handler \in [Handlers -> Request] /\ Publishes(h)
        /\ \A k \in Handlers : handler[k].pc \in Holding => k = h
    BY <1>1, BeforeRow
  <1>3. r \in Request /\ handler' = [handler EXCEPT ![h] = r]
    BY <1>2 DEF Request, Statuses, Reply
  <1>4. /\ r.pc = "failed" /\ r.pub = handler[h].pub /\ r.target = handler[h].target
        /\ r.base = handler[h].base /\ r.from = handler[h].from
    BY <1>2 DEF Request
  <1> HIDE DEF r
  <1>5. RowsGoOn /\ BasesChain' /\ ReaderFinds' /\ VersionsSound'
    BY <1>1, RowsKept
  <1>6. opsLock' = IF r.pc \in Holding THEN h ELSE Free
    BY <1>2, <1>4 DEF Holding, Reply
  <1>7. /\ ReaderSound' /\ MutexSound' /\ handler' \in [Handlers -> Request] /\ handler'[h] = r
        /\ \A k \in Handlers \ {h} :
              /\ handler'[k] = handler[k] /\ handler[k].pc \notin Holding
              /\ RequestSound(k)' /\ PlacingSound(k)' /\ AnswerSound(k)'
    BY <1>1, <1>2, <1>3, <1>5, <1>6, OthersKept
  <1>8. ArtifactsTypeOK' /\ ContentBehindRows'
    BY <1>1, <1>6, <1>7 DEF ServerInv, ArtifactsTypeOK, ContentBehindRows, PlaceOf, Place
  <1>9. OrphansTraced'
    <2>1. ASSUME NEW d \in content
          PROVE  PlaceOf(d) \in leftover' \/ \E v \in versions : PlaceOf(v) = PlaceOf(d)
      <3>1. \A k \in Handlers : handler[k].pc # "erase" /\ (handler[k].pc = "row" => k = h)
        BY <1>2 DEF Holding
      <3> QED
        BY <1>1, <3>1 DEF ServerInv, OrphansTraced
    <2> QED
      BY <1>1, <2>1 DEF OrphansTraced, PlaceOf, Place
  <1>10. RequestSound(h)' /\ AnswerSound(h)' /\ PlacingSound(h)'
    <2>1. RequestSound(h) /\ UNCHANGED <<published, versions, deleted>>
      BY <1>1 DEF ServerInv
    <2> QED
      BY <1>2, <1>4, <1>7, <2>1 DEF RequestSound, AnswerSound, PlacingSound, Publishes, Known,
         Place, PlaceOf
  <1>11. ServerInv'
    BY <1>5, <1>7, <1>8, <1>9, <1>10 DEF ServerInv
  <1>12. CopiesInv'
    BY <1>1, <1>2, <1>3, <1>4, CopiesUnconcerned
  <1> QED
    BY <1>11, <1>12 DEF PublishingInv

LEMMA AppendKeeps ==
    ASSUME PublishingInv, NEW h \in Handlers, AppendVersion(h), UNCHANGED publishing
    PROVE  PublishingInv'
  <1> USE Marks
  <1>1. handler[h].pc = "row" /\ opsLock = h /\ handler[h].pub \in Nat
    BY BeforeRow DEF AppendVersion, PublishingInv, ServerInv, ArtifactsTypeOK
  <1>2. UNCHANGED <<reader, published, deleted, missed, publishing>>
    BY DEF AppendVersion
  <1>3. CASE /\ versions' = versions \cup {RowPlaced(h)} /\ pubs' = pubs \cup {handler[h].pub}
             /\ \E status \in {"ok", "failed"} : Reply(h, status)
             /\ UNCHANGED <<disk, leftover>>
    BY <1>1, <1>2, <1>3, RowServerSide, RowCopiesSide DEF PublishingInv
  <1>4. CASE /\ handler' = [handler EXCEPT ![h].pc = "place"] /\ RemoveAll(handler[h].at)
             /\ UNCHANGED <<rows, opsLock, leftover>>
    BY <1>1, <1>2, <1>4, TakeBack
  <1>5. CASE Reply(h, "failed") /\ UNCHANGED <<rows, leftover>> /\ RemoveAll(handler[h].at)
    BY <1>1, <1>2, <1>5, TakeBack DEF Reply
  <1>6. CASE /\ Reply(h, "failed") /\ UNCHANGED <<rows, disk>>
             /\ leftover' = leftover \cup {handler[h].at}
    BY <1>1, <1>2, <1>6, LeaveBehind
  <1> QED
    BY <1>3, <1>4, <1>5, <1>6 DEF AppendVersion, RowPlaced

-----------------------------------------------------------------------------
(* Deletion, the reader, a restoration.                                    *)

LEMMA NoRequestTyped == NoRequest \in Request
    BY Marks DEF NoRequest, Request, Stages, Place

LEMMA EraseKeeps ==
    ASSUME PublishingInv, NEW h \in Handlers, Erase(h), UNCHANGED publishing
    PROVE  PublishingInv'
  <1> USE Marks
  <1> DEFINE a == handler[h].target
  <1>1. ServerInv /\ UNCHANGED <<versions, pubs, reader, published, deleted, missed>>
    BY DEF PublishingInv, Erase, rows
  <1>2. /\ handler[h].pc = "erase" /\ opsLock = h /\ opsLock' = Free /\ a \in deleted
        /\ handler' = [handler EXCEPT ![h] = NoRequest]
        /\ \A k \in Handlers \ {h} : handler[k].pc \notin Holding
    BY <1>1 DEF Erase, ServerInv, MutexSound, RequestSound, Holding
  <1>3. NoRequest \in Request /\ NoRequest.pc = "idle"
    BY NoRequestTyped DEF NoRequest
  <1>4. RowsGoOn /\ BasesChain' /\ ReaderFinds' /\ VersionsSound'
    BY <1>1, RowsKept DEF rows
  <1>5. /\ ReaderSound' /\ MutexSound' /\ handler' \in [Handlers -> Request]
        /\ handler'[h] = NoRequest
        /\ \A k \in Handlers \ {h} :
              /\ handler'[k] = handler[k] /\ handler[k].pc \notin Holding
              /\ RequestSound(k)' /\ PlacingSound(k)' /\ AnswerSound(k)'
    BY <1>1, <1>2, <1>3, <1>4, OthersKept DEF Holding
  <1>6. \/ /\ content' = {d \in content : d.artifact # a}
           /\ durable' = {d \in durable : d.artifact # a} /\ leftover' = leftover
        \/ /\ UNCHANGED <<content, durable>>
           /\ leftover' = leftover \cup {PlaceOf(d) : d \in {e \in content : e.artifact = a}}
    BY <1>1 DEF Erase, disk, ServerInv, ArtifactsTypeOK
  <1>7. ArtifactsTypeOK'
    BY <1>1, <1>2, <1>5, <1>6 DEF ServerInv, ArtifactsTypeOK
  <1>8. ContentBehindRows'
    <2>1. ASSUME NEW v \in versions PROVE \E d \in durable' : PlaceOf(d) = PlaceOf(v) /\ d.snap = v.snap
      <3>1. PICK d \in durable : PlaceOf(d) = PlaceOf(v) /\ d.snap = v.snap
        BY <1>1 DEF ServerInv, ContentBehindRows
      <3>2. d.artifact # a
        BY <1>1, <1>2, <3>1 DEF ServerInv, VersionsSound, PlaceOf, Place
      <3> QED
        BY <1>6, <3>1, <3>2
    <2> QED
      BY <1>1, <2>1 DEF ContentBehindRows, PlaceOf, Place
  <1>9. OrphansTraced'
    <2>1. ASSUME NEW d \in content'
          PROVE  PlaceOf(d) \in leftover' \/ \E v \in versions : PlaceOf(v) = PlaceOf(d)
      <3>1. \A k \in Handlers : handler[k].pc # "row" /\ (handler[k].pc = "erase" => k = h)
        BY <1>2 DEF Holding
      <3>2. d \in content /\ leftover \subseteq leftover'
        BY <1>6
      <3>3. d.artifact = a => PlaceOf(d) \in leftover'
        BY <1>6, <3>2
      <3> QED
        BY <1>1, <3>1, <3>2, <3>3 DEF ServerInv, OrphansTraced
    <2> QED
      BY <1>1, <2>1 DEF OrphansTraced, PlaceOf, Place
  <1>10. RequestSound(h)' /\ PlacingSound(h)' /\ AnswerSound(h)'
    BY <1>3, <1>5 DEF RequestSound, PlacingSound, AnswerSound, Publishes
  <1>11. ServerInv'
    BY <1>4, <1>5, <1>7, <1>8, <1>9, <1>10 DEF ServerInv
  <1>12. CopiesInv'
    <2>1. ~Publishes(h)
      BY <1>2 DEF Publishes
    <2> QED
      BY <1>1, <1>2, <1>3, <2>1, CopiesUnconcerned
  <1> QED
    BY <1>11, <1>12 DEF PublishingInv

LEMMA DeleteRowsKeeps ==
    ASSUME PublishingInv, NEW h \in Handlers, NEW a \in ArtifactIds, DeleteRows(h, a),
           UNCHANGED publishing
    PROVE  PublishingInv'
  <1> USE Marks
  <1> DEFINE r == [NoRequest EXCEPT !.pc = "erase", !.target = a]
  <1>1. ServerInv /\ UNCHANGED <<pubs, content, durable, reader, published, leftover, missed>>
    BY DEF PublishingInv, DeleteRows, disk
  <1>2. /\ handler[h].pc = "idle" /\ opsLock = Free /\ opsLock' = h /\ a \in Live
        /\ versions' = {v \in versions : v.artifact # a} /\ deleted' = deleted \cup {a}
        /\ handler' = [handler EXCEPT ![h] = r]
    BY DEF DeleteRows
  <1>3. r \in Request /\ r.pc = "erase" /\ r.target = a
    BY NoRequestTyped DEF Request, NoRequest, Stages
  <1> HIDE DEF r
  <1>4. RowsGoOn
    BY <1>1, <1>2 DEF RowsGoOn
  <1>5. /\ ReaderSound' /\ MutexSound' /\ handler' \in [Handlers -> Request]
        /\ handler'[h] = r
        /\ \A k \in Handlers \ {h} :
              /\ handler'[k] = handler[k] /\ handler[k].pc \notin Holding
              /\ RequestSound(k)' /\ PlacingSound(k)' /\ AnswerSound(k)'
    BY <1>1, <1>2, <1>3, <1>4, OthersKept DEF Holding
  <1>6. ArtifactsTypeOK'
    BY <1>1, <1>2, <1>5 DEF ServerInv, ArtifactsTypeOK
  <1>7. ContentBehindRows' /\ BasesChain' /\ ReaderFinds'
    BY <1>1, <1>2 DEF ServerInv, ContentBehindRows, BasesChain, ReaderFinds, PlaceOf, Place
  <1>8. VersionsSound'
    BY <1>1, <1>2 DEF ServerInv, VersionsSound
  <1>9. OrphansTraced'
    <2>1. ASSUME NEW d \in content
          PROVE  \/ PlaceOf(d) \in leftover \/ \E v \in versions' : PlaceOf(v) = PlaceOf(d)
                 \/ handler'[h].pc = "erase" /\ handler'[h].target = d.artifact
      <3>1. \A k \in Handlers : handler[k].pc \notin {"row", "erase"}
        BY <1>2, <1>5 DEF Holding
      <3>2. PlaceOf(d) \in leftover \/ \E v \in versions : PlaceOf(v) = PlaceOf(d)
        BY <1>1, <3>1 DEF ServerInv, OrphansTraced
      <3> QED
        BY <1>2, <1>3, <1>5, <3>2 DEF PlaceOf, Place
    <2> QED
      BY <1>1, <2>1 DEF OrphansTraced, PlaceOf, Place
  <1>10. RequestSound(h)' /\ PlacingSound(h)' /\ AnswerSound(h)'
    BY <1>2, <1>3, <1>5 DEF RequestSound, PlacingSound, AnswerSound, Publishes
  <1>11. ServerInv'
    BY <1>5, <1>6, <1>7, <1>8, <1>9, <1>10 DEF ServerInv
  <1>12. CopiesInv'
    <2>1. ~Publishes(h)
      BY <1>2 DEF Publishes
    <2>2. versions' \subseteq versions /\ deleted \subseteq deleted'
          /\ \A v \in versions \ versions' : v.artifact \in deleted'
      BY <1>2
    <2> QED
      BY <1>1, <1>2, <1>3, <2>1, <2>2, CopiesUnconcerned
  <1> QED
    BY <1>11, <1>12 DEF PublishingInv

LEMMA RestoreKeeps ==
    ASSUME PublishingInv, NEW h \in Handlers, Restore(h), UNCHANGED publishing
    PROVE  PublishingInv'
  <1> USE Marks
  <1>1. /\ ServerInv /\ UNCHANGED <<versions, pubs, deleted, opsLock>>
        /\ UNCHANGED <<rows, disk, reader, deleted, leftover, missed>>
        /\ handler[h].pc = "idle" /\ published' = published + 1 /\ published' \in published .. MaxPubs
        /\ published \in 0 .. MaxPubs /\ handler \in [Handlers -> Request]
    BY DEF PublishingInv, ServerInv, ArtifactsTypeOK, Restore, Receive, rows
  <1>2. PICK v \in versions :
           Receive(h, published', v.artifact, CurrentVersion(v.artifact), v.number)
    BY DEF Restore
  <1> DEFINE r == [NoRequest EXCEPT !.pc = "replay", !.pub = published', !.target = v.artifact,
                                    !.base = CurrentVersion(v.artifact), !.from = v.number]
  <1>3. v.artifact \in ArtifactIds /\ v.number \in Versions
    BY <1>1 DEF ServerInv, ArtifactsTypeOK
  <1>4. CurrentVersion(v.artifact) \in 0 .. MaxVersions
    BY <1>1, CurrentVersionTyped DEF ServerInv
  <1>5. handler' = [handler EXCEPT ![h] = r]
    BY <1>2 DEF Receive
  <1>6. r \in Request /\ r.pc = "replay" /\ r.pub = published' /\ r.target = v.artifact
        /\ r.from = v.number
    <2>1. published' \in 0 .. MaxPubs /\ v.number \in 0 .. MaxVersions
      BY <1>1, <1>3 DEF Versions
    <2> QED
      BY <1>3, <1>4, <2>1, NoRequestTyped DEF Request, NoRequest, Stages
  <1> HIDE DEF r
  <1>7. handler'[h] = r /\ \A k \in Handlers \ {h} : handler'[k] = handler[k]
    BY <1>1, <1>5
  <1>8. RequestSound(h)' /\ AnswerSound(h)'
    <2>1. Known(Place(v.artifact, v.number))'
      BY <1>1 DEF Known, PlaceOf, Place
    <2>2. published' \in 1 .. published'
      BY <1>1
    <2> QED
      BY <1>3, <1>6, <1>7, <2>1, <2>2 DEF RequestSound, AnswerSound, Place
  <1>9. opsLock' = IF opsLock = h THEN Free ELSE opsLock
    BY <1>1 DEF ServerInv, MutexSound, Holding
  <1>10. ServerInv'
    <2>1. r.pc \notin Holding
      BY <1>6 DEF Holding
    <2> QED
      BY <1>1, <1>5, <1>6, <1>8, <1>9, <2>1, ServerMoves
  <1>11. CopiesInv'
    <2>1. \A k \in Handlers : Publishes(k)' =>
             \/ handler'[k].pub > published
             \/ /\ Publishes(k) /\ handler'[k].pub = handler[k].pub
                /\ handler'[k].target = handler[k].target /\ handler'[k].base = handler[k].base
      <3>1. r.pub > published
        BY <1>1, <1>6
      <3> QED
        BY <1>7, <3>1 DEF Publishes
    <2>2. \A c \in Copies : call[c] # NoCall =>
             Publishes(call[c])' /\ handler'[call[c]].pub = handler[call[c]].pub
      <3>1. \A c \in Copies : call'[c] = call[c]
        BY DEF publishing
      <3>2. \A c \in Copies : call[c] # NoCall =>
               call[c] \in Handlers /\ call[c] # h /\ Publishes(call[c])
        BY <1>1 DEF PublishingInv, CopiesInv, CopiesTypeOK, CallSound, Publishes
      <3> QED
        BY <1>7, <3>1, <3>2 DEF Publishes
    <2>3. /\ versions' \subseteq versions /\ deleted \subseteq deleted'
          /\ \A w \in versions \ versions' : w.artifact \in deleted'
      BY <1>1
    <2> QED
      BY <1>1, <2>1, <2>2, <2>3, CopiesKept
  <1> QED
    BY <1>10, <1>11 DEF PublishingInv

(* The server's rows, disk and requests stay as they are. *)
LEMMA ServerStays ==
    ASSUME ServerInv, UNCHANGED <<rows, disk, opsLock, handler, deleted, leftover>>,
           published' \in published .. MaxPubs, ReaderSound', ReaderFinds'
    PROVE  ServerInv'
  <1> USE Marks
  <1>1. UNCHANGED <<versions, pubs, content, durable, opsLock, handler, deleted, leftover>>
        /\ published \in Nat /\ published' \in 0 .. MaxPubs /\ published <= published'
    BY DEF rows, disk, ServerInv, ArtifactsTypeOK
  <1>2. ArtifactsTypeOK' /\ ContentBehindRows' /\ BasesChain' /\ MutexSound'
    BY <1>1 DEF ServerInv, ArtifactsTypeOK, ContentBehindRows, BasesChain, MutexSound, PlaceOf, Place
  <1>3. VersionsSound'
    BY <1>1 DEF ServerInv, VersionsSound
  <1>4. OrphansTraced'
    BY <1>1 DEF ServerInv, OrphansTraced, PlaceOf, Place
  <1>5. ASSUME NEW h \in Handlers PROVE RequestSound(h)' /\ PlacingSound(h)' /\ AnswerSound(h)'
    <2>1. RequestSound(h) /\ PlacingSound(h) /\ AnswerSound(h) /\ handler'[h] = handler[h]
      BY <1>1 DEF ServerInv
    <2>2. RequestSound(h)' /\ AnswerSound(h)'
      BY <1>1, <2>1 DEF RequestSound, AnswerSound, Publishes, Known, Place, PlaceOf
    <2> QED
      BY <1>1, <2>1, <2>2, PlacingKept
  <1> QED
    BY <1>2, <1>3, <1>4, <1>5 DEF ServerInv

LEMMA ReaderKeeps ==
    ASSUME PublishingInv, Resolve \/ Serve, UNCHANGED publishing
    PROVE  PublishingInv'
  <1> USE Marks
  <1>1. /\ ServerInv /\ UNCHANGED <<rows, disk, opsLock, handler, deleted, leftover, published>>
        /\ UNCHANGED <<versions, pubs, content>>
        /\ published' \in published .. MaxPubs
    BY DEF PublishingInv, ServerInv, ArtifactsTypeOK, Resolve, Serve, rows, disk
  <1>2. ReaderSound' /\ ReaderFinds'
    <2>1. CASE Resolve
      BY <1>1, <2>1 DEF Resolve, ReaderSound, ReaderFinds, ServerInv, Known, Place, PlaceOf
    <2>2. CASE Serve
      <3>1. Known(reader) /\ ~missed
        BY <1>1, <2>2 DEF Serve, ServerInv, ReaderSound, ReaderFinds
      <3>2. reader.artifact \in deleted \/ Dir(reader) # {}
        BY <1>1, <3>1 DEF Known, ServerInv, ContentBehindRows, ArtifactsTypeOK, Dir
      <3> QED
        BY <2>2, <3>1, <3>2 DEF Serve, ReaderSound, ReaderFinds, Place
    <2> QED
      BY <2>1, <2>2
  <1>3. ServerInv'
    BY <1>1, <1>2, ServerStays
  <1>4. CopiesInv'
    <2>1. \A c \in Copies : call[c] # NoCall => Publishes(call[c])
      BY DEF PublishingInv, CopiesInv, CallSound
    <2>2. \A k \in Handlers : Publishes(k)' => /\ Publishes(k)
             /\ handler'[k].pub = handler[k].pub /\ handler'[k].target = handler[k].target
             /\ handler'[k].base = handler[k].base
      BY <1>1 DEF Publishes
    <2>3. \A c \in Copies : call[c] # NoCall =>
             Publishes(call[c])' /\ handler'[call[c]].pub = handler[call[c]].pub
      BY <1>1, <2>1 DEF Publishes, publishing
    <2> QED
      BY <1>1, <2>2, <2>3, CopiesKept
  <1> QED
    BY <1>3, <1>4 DEF PublishingInv

-----------------------------------------------------------------------------
(* The copies' steps.                                                      *)

(* Two copies never have a package of the same id. *)
LEMMA PackagesApart ==
    ASSUME PublishingInv, NEW c \in Copies, NEW d \in Copies, c # d,
           pending[c].pub # 0
    PROVE  pending[d].pub # pending[c].pub
    BY DEF PublishingInv, CopiesInv, PackageSound

(* What a copy's step leaves of another copy. *)
LEMMA OtherCopies ==
    ASSUME PublishingInv, NEW d \in Copies,
           record'[d] = record[d], pending'[d] = pending[d], call'[d] = call[d],
           UNCHANGED <<rows, deleted>>, published' \in published .. MaxPubs,
           \A i \in 1 .. published : owner'[i] = owner[i],
           \A h \in Handlers : Publishes(h)' =>
              \/ handler'[h].pub # pending[d].pub
              \/ /\ Publishes(h) /\ handler'[h].pub = handler[h].pub
                 /\ handler'[h].target = handler[h].target /\ handler'[h].base = handler[h].base,
           call[d] # NoCall => handler'[call[d]] = handler[call[d]]
    PROVE  PackageSound(d)' /\ CallSound(d)' /\ CopySound(d)'
  <1> USE Marks
  <1>1. PackageSound(d) /\ CallSound(d) /\ CopySound(d) /\ pending[d].pub \in 0 .. MaxPubs
        /\ published \in 0 .. MaxPubs /\ published' \in Nat /\ published <= published'
    BY DEF PublishingInv, ServerInv, ArtifactsTypeOK, CopiesInv, CopiesTypeOK
  <1>2. UNCHANGED <<versions, pubs, deleted>>
    BY DEF rows
  <1>3. PackageSound(d)'
    BY <1>1, <1>2 DEF PackageSound
  <1>4. CallSound(d)'
    BY <1>1 DEF CallSound, Publishes
  <1>5. CopySound(d)'
    BY <1>1, <1>2 DEF CopySound, NoPackage, PlaceOf, Place
  <1> QED
    BY <1>3, <1>4, <1>5

LEMMA CreateFromKeeps ==
    ASSUME PublishingInv, NEW c \in Copies, CreateFrom(c)
    PROVE  PublishingInv'
  <1> USE Marks
  <1>1. /\ ServerInv /\ CopiesInv /\ UNCHANGED <<pending, call, owner, unrecorded, dropped>>
        /\ UNCHANGED <<rows, disk, opsLock, handler, reader, deleted, leftover, missed, published>>
        /\ UNCHANGED <<versions, pubs>> /\ pending[c] = NoPackage
        /\ \A p \in PublicationIds : owner[p] # c
    BY DEF PublishingInv, CreateFrom, artifactVars, rows
  <1>2. PICK v \in versions :
           record' = [record EXCEPT ![c] = [artifact |-> v.artifact, base |-> v.number]]
    BY DEF CreateFrom
  <1>3. published \in 0 .. MaxPubs /\ published' \in published .. MaxPubs
    BY <1>1 DEF ServerInv, ArtifactsTypeOK
  <1>4. /\ v.artifact \in ArtifactIds /\ v.number \in Versions
        /\ \A w \in versions : w.pub \in PublicationIds
        /\ record \in [Copies -> [artifact : ArtifactIds \cup {New}, base : 0 .. MaxVersions]]
    BY <1>1 DEF ServerInv, ArtifactsTypeOK, CopiesInv, CopiesTypeOK
  <1>5. ServerInv'
    <2>1. ReaderSound' /\ ReaderFinds'
      BY <1>1 DEF ServerInv, ReaderSound, ReaderFinds, Known, PlaceOf, Place
    <2> QED
      BY <1>1, <1>3, <2>1, ServerStays
  <1>6. record'[c] = [artifact |-> v.artifact, base |-> v.number]
        /\ \A d \in Copies \ {c} : record'[d] = record[d]
    BY <1>2, <1>4
  <1>7. CopiesTypeOK' /\ OwnerSound'
    <2>1. record' \in [Copies -> [artifact : ArtifactIds \cup {New}, base : 0 .. MaxVersions]]
      BY <1>2, <1>4 DEF Versions
    <2> QED
      BY <1>1, <2>1 DEF CopiesInv, CopiesTypeOK, OwnerSound
  <1>8. RecordFollows'
    <2>1. ASSUME NEW d \in Copies, record'[d].artifact \notin deleted
          PROVE  /\ record'[d].artifact # New =>
                       \E w \in versions : w.artifact = record'[d].artifact
                                           /\ w.number = record'[d].base
                 /\ \A w \in versions :
                       \/ owner[w.pub] # d \/ d \in unrecorded
                       \/ w.pub \in dropped \/ w.pub = pending[d].pub
                       \/ record'[d].artifact = w.artifact /\ w.number <= record'[d].base
      <3>1. CASE d = c
        BY <1>1, <1>4, <1>6, <3>1
      <3>2. CASE d # c
        BY <1>1, <1>6, <2>1, <3>2 DEF CopiesInv, RecordFollows
      <3> QED
        BY <3>1, <3>2
    <2> QED
      BY <1>1, <2>1 DEF RecordFollows
  <1>9. ASSUME NEW d \in Copies PROVE PackageSound(d)' /\ CallSound(d)' /\ CopySound(d)'
    <2>1. CASE d # c
      BY <1>1, <1>3, <1>6, <2>1, OtherCopies DEF Publishes
    <2>2. CASE d = c
      <3>1. PackageSound(c) /\ CallSound(c) /\ CopySound(c)
        BY <1>1 DEF CopiesInv
      <3>2. PackageSound(c)' /\ CallSound(c)'
        BY <1>1, <3>1 DEF PackageSound, CallSound, Publishes, NoPackage
      <3>3. CopySound(c)'
        BY <1>1, <1>4, <1>6 DEF CopySound, NoPackage
      <3> QED
        BY <2>2, <3>2, <3>3
    <2> QED
      BY <2>1, <2>2
  <1> QED
    BY <1>5, <1>7, <1>8, <1>9 DEF PublishingInv, CopiesInv

LEMMA FreezeKeeps ==
    ASSUME PublishingInv, NEW c \in Copies, Freeze(c)
    PROVE  PublishingInv'
  <1> USE Marks
  <1>1. /\ ServerInv /\ CopiesInv /\ UNCHANGED <<record, call, unrecorded, dropped>>
        /\ UNCHANGED <<rows, disk, opsLock, handler, reader, deleted, leftover, missed>>
        /\ UNCHANGED <<versions, pubs>> /\ pending[c] = NoPackage /\ call[c] = NoCall
        /\ owner' = [owner EXCEPT ![published'] = c]
    BY DEF PublishingInv, Freeze, serverRest, rows
  <1>2. published \in 0 .. MaxPubs /\ published' = published + 1 /\ published' \in published .. MaxPubs
        /\ published' \in PublicationIds
    BY <1>1 DEF Freeze, ServerInv, ArtifactsTypeOK, PublicationIds
  <1>3. PICK base \in Bases(c) :
          pending' = [pending EXCEPT ![c] = [pub |-> published', target |-> record[c].artifact,
                                             base |-> base, whole |-> TRUE]]
    BY DEF Freeze
  <1>4. /\ record[c] \in [artifact : ArtifactIds \cup {New}, base : 0 .. MaxVersions]
        /\ pending \in [Copies -> [pub : 0 .. MaxPubs, target : ArtifactIds \cup {New},
                                   base : 0 .. MaxVersions, whole : BOOLEAN]]
        /\ owner \in [PublicationIds -> Copies \cup {Nobody}]
        /\ \A v \in versions : v.artifact \in ArtifactIds /\ v.number \in Nat /\ v.pub \in 1 .. published
        /\ PackageSound(c) /\ CallSound(c) /\ CopySound(c) /\ OwnerSound
    <2>1. \A v \in versions : v.pub \in 1 .. published
      BY <1>1 DEF ServerInv, VersionsSound
    <2>2. \A v \in versions : v.artifact \in ArtifactIds /\ v.number \in Nat
      BY <1>1 DEF ServerInv, ArtifactsTypeOK, Versions
    <2> QED
      BY <1>1, <2>1, <2>2 DEF CopiesInv, CopiesTypeOK
  <1>5. /\ base \in 0 .. MaxVersions
        /\ record[c].artifact = New => base = 0
        /\ record[c].artifact \in deleted \/ record[c].artifact = New \/ record[c].base <= base + 1
    <2>1. CASE base = record[c].base
      BY <1>4, <2>1 DEF CopySound
    <2>2. CASE record[c].artifact \in Live /\ base = CurrentVersion(record[c].artifact)
      <3>1. record[c].artifact # New /\ record[c].artifact \notin deleted
        BY <1>1, <1>4, <2>2 DEF Live, ServerInv, VersionsSound
      <3>2. base \in 0 .. MaxVersions
            /\ \A v \in versions : v.artifact = record[c].artifact => v.number <= base
        BY <1>1, <2>2, CurrentVersionTyped DEF ServerInv
      <3>3. \E v \in versions : v.artifact = record[c].artifact /\ v.number = record[c].base
        BY <1>1, <3>1 DEF CopiesInv, RecordFollows
      <3> QED
        BY <1>4, <3>1, <3>2, <3>3
    <2> QED
      BY <1>3, <2>1, <2>2 DEF Bases
  <1>6. ServerInv'
    <2>1. ReaderSound' /\ ReaderFinds'
      BY <1>1 DEF ServerInv, ReaderSound, ReaderFinds, Known, PlaceOf, Place
    <2> QED
      BY <1>1, <1>2, <2>1, ServerStays
  <1>7. /\ pending'[c].pub = published' /\ pending'[c].target = record[c].artifact
        /\ pending'[c].base = base /\ \A d \in Copies \ {c} : pending'[d] = pending[d]
        /\ owner'[published'] = c /\ \A i \in PublicationIds \ {published'} : owner'[i] = owner[i]
    BY <1>1, <1>2, <1>3, <1>4
  <1>8. CopiesTypeOK'
    <2>1. owner' \in [PublicationIds -> Copies \cup {Nobody}]
      BY <1>1, <1>2, <1>4
    <2>2. pending' \in [Copies -> [pub : 0 .. MaxPubs, target : ArtifactIds \cup {New},
                                   base : 0 .. MaxVersions, whole : BOOLEAN]]
      BY <1>2, <1>3, <1>4, <1>5
    <2> QED
      BY <1>1, <2>1, <2>2 DEF CopiesInv, CopiesTypeOK
  <1>9. RecordFollows'
    <2>1. \A v \in versions : owner'[v.pub] = owner[v.pub] /\ v.pub # 0
      BY <1>2, <1>4, <1>7 DEF PublicationIds
    <2>2. ASSUME NEW d \in Copies, record[d].artifact \notin deleted, NEW v \in versions
          PROVE  \/ owner'[v.pub] # d \/ d \in unrecorded
                 \/ v.pub \in dropped \/ v.pub = pending'[d].pub
                 \/ record[d].artifact = v.artifact /\ v.number <= record[d].base
      BY <1>1, <1>7, <2>1, <2>2 DEF CopiesInv, RecordFollows, NoPackage
    <2> QED
      BY <1>1, <2>2 DEF CopiesInv, RecordFollows
  <1>10. OwnerSound'
    <2>1. ASSUME NEW i \in PublicationIds
          PROVE  /\ i > published' => owner'[i] = Nobody
                 /\ \A d \in Copies : owner'[i] = d =>
                       i \in pubs \/ i \in dropped \/ i = pending'[d].pub
      <3>1. CASE i = published'
        BY <1>2, <1>7, <3>1
      <3>2. CASE i # published'
        BY <1>1, <1>2, <1>4, <1>7, <3>2 DEF OwnerSound, NoPackage, PublicationIds
      <3> QED
        BY <3>1, <3>2
    <2> QED
      BY <1>1, <2>1 DEF OwnerSound
  <1>11. ASSUME NEW d \in Copies PROVE PackageSound(d)' /\ CallSound(d)' /\ CopySound(d)'
    <2>1. CASE d # c
      <3>1. \A i \in 1 .. published : owner'[i] = owner[i]
        BY <1>2, <1>7 DEF PublicationIds
      <3> QED
        BY <1>1, <1>2, <1>7, <2>1, <3>1, OtherCopies DEF Publishes
    <2>2. CASE d = c
      <3>1. \A h \in Handlers : Publishes(h) => handler[h].pub # published'
        BY <1>1, <1>2 DEF ServerInv, RequestSound
      <3>2. PackageSound(c)'
        BY <1>1, <1>2, <1>4, <1>5, <1>7, <3>1 DEF PackageSound, Publishes
      <3>3. CallSound(c)'
        BY <1>1 DEF CallSound
      <3>4. CopySound(c)'
        BY <1>1, <1>2, <1>4, <1>5, <1>7 DEF CopySound
      <3> QED
        BY <2>2, <3>2, <3>3, <3>4
    <2> QED
      BY <2>1, <2>2
  <1> QED
    BY <1>6, <1>8, <1>9, <1>10, <1>11 DEF PublishingInv, CopiesInv

LEMMA SendKeeps ==
    ASSUME PublishingInv, NEW c \in Copies, Send(c)
    PROVE  PublishingInv'
  <1> USE Marks
  <1> DEFINE p == pending[c]
  <1>1. /\ ServerInv /\ CopiesInv /\ UNCHANGED <<record, pending, owner, unrecorded, dropped>>
        /\ UNCHANGED <<rows, disk, opsLock, reader, deleted, leftover, missed, published>>
        /\ UNCHANGED <<versions, pubs>> /\ p # NoPackage /\ call[c] = NoCall
    BY DEF PublishingInv, Send, serverRest, rows
  <1>2. PICK h \in Handlers : Receive(h, p.pub, p.target, p.base, 0) /\ call' = [call EXCEPT ![c] = h]
    BY DEF Send
  <1>3. /\ p \in [pub : 0 .. MaxPubs, target : ArtifactIds \cup {New},
                  base : 0 .. MaxVersions, whole : BOOLEAN]
        /\ PackageSound(c) /\ CopySound(c)
        /\ call \in [Copies -> Handlers \cup {NoCall}]
        /\ handler \in [Handlers -> Request]
        /\ published \in 0 .. MaxPubs /\ published' \in published .. MaxPubs
    BY <1>1 DEF CopiesInv, CopiesTypeOK, ServerInv, ArtifactsTypeOK
  <1>4. p.pub # 0 /\ p.pub \in 1 .. published /\ (p.target = New => p.base = 0)
    BY <1>1, <1>3 DEF PackageSound, CopySound
  <1> DEFINE r == [NoRequest EXCEPT !.pc = "replay", !.pub = p.pub, !.target = p.target,
                                    !.base = p.base, !.from = 0]
  <1>5. handler' = [handler EXCEPT ![h] = r] /\ handler[h].pc = "idle"
    BY <1>2 DEF Receive
  <1>6. r \in Request /\ r.pc = "replay" /\ r.pub = p.pub /\ r.target = p.target
        /\ r.base = p.base /\ r.from = 0
    BY <1>3, NoRequestTyped DEF Request, NoRequest, Stages
  <1> HIDE DEF r
  <1>7. handler'[h] = r /\ (\A k \in Handlers \ {h} : handler'[k] = handler[k])
        /\ call'[c] = h /\ (\A d \in Copies \ {c} : call'[d] = call[d])
    BY <1>2, <1>3, <1>5
  <1>8. RequestSound(h)' /\ AnswerSound(h)'
    BY <1>1, <1>4, <1>6, <1>7 DEF RequestSound, AnswerSound
  <1>9. ServerInv'
    <2>1. opsLock' = IF opsLock = h THEN Free ELSE opsLock
      BY <1>1, <1>5 DEF ServerInv, MutexSound, Holding
    <2>2. r.pc \notin Holding
      BY <1>6 DEF Holding
    <2> QED
      BY <1>1, <1>3, <1>5, <1>6, <1>8, <2>1, <2>2, ServerMoves
  <1>10. CopiesTypeOK' /\ RecordFollows' /\ OwnerSound'
    <2>1. call' \in [Copies -> Handlers \cup {NoCall}]
      BY <1>2, <1>3
    <2> QED
      BY <1>1, <2>1 DEF CopiesInv, CopiesTypeOK, RecordFollows, OwnerSound
  <1>11. ASSUME NEW d \in Copies PROVE PackageSound(d)' /\ CallSound(d)' /\ CopySound(d)'
    <2>1. CASE d # c
      <3>1. pending[d].pub # p.pub
        BY <1>4, <2>1, PackagesApart
      <3>2. call[d] # NoCall => call[d] \in Handlers \ {h}
        BY <1>1, <1>3, <1>5 DEF CopiesInv, CallSound, Publishes
      <3>3. \A k \in Handlers : Publishes(k)' =>
               \/ handler'[k].pub # pending[d].pub
               \/ /\ Publishes(k) /\ handler'[k].pub = handler[k].pub
                  /\ handler'[k].target = handler[k].target /\ handler'[k].base = handler[k].base
        BY <1>6, <1>7, <3>1 DEF Publishes
      <3> QED
        BY <1>1, <1>3, <1>7, <2>1, <3>2, <3>3, OtherCopies
    <2>2. CASE d = c
      <3>1. PackageSound(c)'
        BY <1>1, <1>3, <1>6, <1>7 DEF PackageSound, Publishes
      <3>2. CallSound(c)'
        BY <1>1, <1>4, <1>6, <1>7 DEF CallSound, Publishes
      <3>3. CopySound(c)'
        BY <1>1, <1>3 DEF CopySound, NoPackage, PlaceOf, Place
      <3> QED
        BY <2>2, <3>1, <3>2, <3>3
    <2> QED
      BY <2>1, <2>2
  <1> QED
    BY <1>9, <1>10, <1>11 DEF PublishingInv, CopiesInv

(* The server forgets a request that has been answered. *)
LEMMA RequestForgotten ==
    ASSUME PublishingInv, NEW h \in Handlers, handler[h].pc \in Statuses, Drop(h),
           UNCHANGED <<serverRest, published>>
    PROVE  /\ ServerInv' /\ handler'[h] = NoRequest
           /\ \A k \in Handlers \ {h} : handler'[k] = handler[k]
           /\ UNCHANGED <<versions, pubs, deleted>> /\ published' \in published .. MaxPubs
  <1> USE Marks
  <1>1. /\ ServerInv /\ UNCHANGED <<rows, disk, opsLock, reader, deleted, leftover, missed, published>>
        /\ UNCHANGED <<versions, pubs>> /\ handler \in [Handlers -> Request]
        /\ handler' = [handler EXCEPT ![h] = NoRequest] /\ published' \in published .. MaxPubs
    BY DEF PublishingInv, serverRest, rows, ServerInv, ArtifactsTypeOK, Drop
  <1>2. NoRequest \in Request /\ NoRequest.pc = "idle" /\ handler'[h] = NoRequest
    BY <1>1, NoRequestTyped DEF NoRequest
  <1>3. handler[h].pc \notin Holding /\ NoRequest.pc \notin Holding
    BY <1>2 DEF Holding, Statuses
  <1>4. opsLock' = IF opsLock = h THEN Free ELSE opsLock
    BY <1>1, <1>3 DEF ServerInv, MutexSound
  <1>5. RequestSound(h)' /\ AnswerSound(h)'
    BY <1>2 DEF RequestSound, AnswerSound, Publishes
  <1>6. ServerInv'
    BY <1>1, <1>2, <1>3, <1>4, <1>5, ServerMoves DEF Holding
  <1> QED
    BY <1>1, <1>2, <1>6

(* Nobody else waits for the request a copy waits for. *)
LEMMA CallsApart ==
    ASSUME PublishingInv, NEW c \in Copies, NEW d \in Copies, c # d, call[c] # NoCall
    PROVE  call[d] # call[c]
    BY PackagesApart DEF PublishingInv, CopiesInv, CallSound

(* A copy's request that is answered is of its package, and forgetting it  *)
(* leaves the other copies sound.                                          *)
LEMMA AnswerTaken ==
    ASSUME PublishingInv, NEW c \in Copies, call[c] # NoCall,
           handler[call[c]].pc \in Statuses, Drop(call[c]), UNCHANGED <<serverRest, published, owner>>,
           call' = [call EXCEPT ![c] = NoCall],
           \A d \in Copies \ {c} : record'[d] = record[d] /\ pending'[d] = pending[d]
    PROVE  /\ ServerInv' /\ UNCHANGED <<versions, pubs, deleted>>
           /\ call[c] \in Handlers /\ Publishes(call[c])
           /\ handler[call[c]].pub = pending[c].pub /\ pending[c].pub \in 1 .. published
           /\ call'[c] = NoCall /\ call' \in [Copies -> Handlers \cup {NoCall}]
           /\ handler'[call[c]] = NoRequest
           /\ \A k \in Handlers \ {call[c]} : handler'[k] = handler[k]
           /\ \A d \in Copies \ {c} : PackageSound(d)' /\ CallSound(d)' /\ CopySound(d)'
  <1> USE Marks
  <1> DEFINE h == call[c]
  <1>1. /\ call \in [Copies -> Handlers \cup {NoCall}] /\ CallSound(c) /\ PackageSound(c)
        /\ pending[c].pub \in 0 .. MaxPubs /\ published \in 0 .. MaxPubs
    BY DEF PublishingInv, CopiesInv, CopiesTypeOK, ServerInv, ArtifactsTypeOK
  <1>2. h \in Handlers /\ Publishes(h) /\ handler[h].pub = pending[c].pub
        /\ pending[c].pub \in 1 .. published
    BY <1>1 DEF CallSound, PackageSound
  <1>3. /\ ServerInv' /\ handler'[h] = NoRequest
        /\ \A k \in Handlers \ {h} : handler'[k] = handler[k]
        /\ UNCHANGED <<versions, pubs, deleted>> /\ published' \in published .. MaxPubs
    BY <1>2, RequestForgotten
  <1>4. call'[c] = NoCall /\ call' \in [Copies -> Handlers \cup {NoCall}]
        /\ \A d \in Copies \ {c} : call'[d] = call[d]
    BY <1>1
  <1>5. ASSUME NEW d \in Copies \ {c} PROVE PackageSound(d)' /\ CallSound(d)' /\ CopySound(d)'
    <2>1. call[d] # NoCall => call[d] \in Handlers \ {h}
      BY <1>1, CallsApart
    <2>2. \A k \in Handlers : Publishes(k)' =>
             /\ Publishes(k) /\ handler'[k].pub = handler[k].pub
             /\ handler'[k].target = handler[k].target /\ handler'[k].base = handler[k].base
      BY <1>2, <1>3 DEF Publishes, NoRequest
    <2>3. UNCHANGED <<rows, deleted>> /\ \A i \in 1 .. published : owner'[i] = owner[i]
      BY <1>3 DEF serverRest
    <2> QED
      BY <1>3, <1>4, <2>1, <2>2, <2>3, OtherCopies
  <1> QED
    BY <1>2, <1>3, <1>4, <1>5

LEMMA AnswerKeeps ==
    ASSUME PublishingInv, NEW c \in Copies, Answer(c)
    PROVE  PublishingInv'
  <1> USE Marks
  <1> DEFINE h == call[c]
             p == pending[c]
  <1>1. /\ ServerInv /\ CopiesInv /\ UNCHANGED <<record, owner, unrecorded, published>>
        /\ h # NoCall /\ handler[h].pc \in Statuses \ {"ok"} /\ Drop(h)
        /\ UNCHANGED serverRest /\ call' = [call EXCEPT ![c] = NoCall]
    BY DEF PublishingInv, Answer
  <1>2. \/ /\ pending' = [pending EXCEPT ![c] = NoPackage] /\ dropped' = dropped \cup {p.pub}
        \/ UNCHANGED <<pending, dropped>>
    BY DEF Answer, Refused
  <1>3. /\ pending \in [Copies -> [pub : 0 .. MaxPubs, target : ArtifactIds \cup {New},
                                   base : 0 .. MaxVersions, whole : BOOLEAN]]
        /\ PackageSound(c) /\ CopySound(c) /\ published \in 0 .. MaxPubs
    BY <1>1 DEF CopiesInv, CopiesTypeOK, ServerInv, ArtifactsTypeOK
  <1>4. \A d \in Copies \ {c} : record'[d] = record[d] /\ pending'[d] = pending[d]
    BY <1>1, <1>2, <1>3
  <1>5. /\ ServerInv' /\ UNCHANGED <<versions, pubs, deleted>>
        /\ h \in Handlers /\ Publishes(h)
        /\ handler[h].pub = p.pub /\ p.pub \in 1 .. published
        /\ call'[c] = NoCall /\ call' \in [Copies -> Handlers \cup {NoCall}]
        /\ handler'[h] = NoRequest
        /\ \A k \in Handlers \ {h} : handler'[k] = handler[k]
        /\ \A d \in Copies \ {c} : PackageSound(d)' /\ CallSound(d)' /\ CopySound(d)'
    BY <1>1, <1>4, AnswerTaken
  <1>6. p.pub \in PublicationIds
    BY <1>3, <1>5 DEF PublicationIds
  <1>7. CopiesTypeOK'
    <2>1. NoPackage \in [pub : 0 .. MaxPubs, target : ArtifactIds \cup {New},
                         base : 0 .. MaxVersions, whole : BOOLEAN]
      BY DEF NoPackage
    <2>2. pending' \in [Copies -> [pub : 0 .. MaxPubs, target : ArtifactIds \cup {New},
                                   base : 0 .. MaxVersions, whole : BOOLEAN]]
      BY <1>2, <1>3, <2>1
    <2> QED
      BY <1>1, <1>2, <1>5, <1>6, <2>2 DEF CopiesInv, CopiesTypeOK
  <1>8. dropped \subseteq dropped'
        /\ \A i \in PublicationIds, d \in Copies :
              i = pending[d].pub => i = pending'[d].pub \/ i \in dropped'
    BY <1>2, <1>4
  <1>9. RecordFollows'
    <2>1. \A v \in versions : v.pub \in PublicationIds
      BY <1>1 DEF ServerInv, ArtifactsTypeOK
    <2> QED
      BY <1>1, <1>5, <1>8, <2>1 DEF CopiesInv, RecordFollows
  <1>10. OwnerSound'
    BY <1>1, <1>5, <1>8 DEF CopiesInv, OwnerSound
  <1>11. PackageSound(c)' /\ CallSound(c)' /\ CopySound(c)'
    <2>1. CASE pending'[c] = NoPackage
      <3>1. CopySound(c)'
        BY <1>1, <1>3, <2>1 DEF CopySound, NoPackage
      <3> QED
        BY <1>5, <2>1, <3>1 DEF PackageSound, CallSound, NoPackage
    <2>2. CASE pending' = pending
      <3>1. \A k \in Handlers : Publishes(k)' => handler'[k] = handler[k] /\ Publishes(k)
        BY <1>5 DEF Publishes, NoRequest
      <3>2. PackageSound(c)'
        BY <1>1, <1>3, <1>5, <2>2, <3>1 DEF PackageSound
      <3>3. CopySound(c)'
        BY <1>1, <1>3, <1>5, <2>2 DEF CopySound, NoPackage, PlaceOf, Place
      <3> QED
        BY <1>5, <3>2, <3>3 DEF CallSound
    <2> QED
      BY <1>2, <1>3, <2>1, <2>2
  <1> QED
    BY <1>5, <1>7, <1>9, <1>10, <1>11 DEF PublishingInv, CopiesInv

(* What a confirmed result tells the copy: where its publication went, and *)
(* that it goes on from what the copy recorded before.                     *)
LEMMA ResultSound ==
    ASSUME PublishingInv, NEW c \in Copies, call[c] # NoCall, handler[call[c]].pc = "ok"
    PROVE  LET p == pending[c]
               at == handler[call[c]].at
           IN
           /\ at \in [artifact : ArtifactIds, number : 0 .. MaxVersions]
           /\ p.pub \in pubs /\ \A v \in versions : v.pub = p.pub => PlaceOf(v) = at
           /\ at.artifact \notin deleted =>
                 \E v \in versions : v.artifact = at.artifact /\ v.number = at.number
           /\ p.target # New =>
                 /\ at.artifact = p.target /\ record[c].artifact = p.target
                 /\ at.artifact \in deleted \/ at.number = p.base + 1
           /\ at.artifact \notin deleted =>
                 /\ record[c].artifact \in {New, at.artifact}
                 /\ record[c].artifact = at.artifact => record[c].base <= at.number
  <1> USE Marks
  <1> DEFINE h == call[c]
             p == pending[c]
             at == handler[h].at
  <1>1. /\ call \in [Copies -> Handlers \cup {NoCall}]
        /\ CallSound(c) /\ PackageSound(c) /\ CopySound(c) /\ ServerInv
        /\ p.base \in 0 .. MaxVersions
    BY DEF PublishingInv, CopiesInv, CopiesTypeOK
  <1>2. /\ h \in Handlers /\ Publishes(h) /\ handler[h].pub = p.pub /\ p.pub # 0
        /\ handler[h].target = p.target
    BY <1>1 DEF CallSound, PackageSound
  <1>3. /\ AnswerSound(h) /\ handler[h] \in Request
        /\ versions \subseteq [artifact : ArtifactIds, number : Versions, base : 0 .. MaxVersions,
                               pub : PublicationIds, snap : PublicationIds]
        /\ deleted \subseteq ArtifactIds /\ BasesChain
    BY <1>1, <1>2 DEF ServerInv, ArtifactsTypeOK, VersionsSound
  <1>4. /\ p.pub \in pubs /\ \A v \in versions : v.pub = p.pub => PlaceOf(v) = at
        /\ p.target # New => at.artifact = p.target
        /\ at.artifact \in deleted \/ \E v \in versions : v.pub = p.pub /\ PlaceOf(v) = at
    BY <1>2, <1>3 DEF AnswerSound
  <1>5. ASSUME at.artifact \notin deleted
        PROVE  \E v \in versions : /\ v.pub = p.pub /\ PlaceOf(v) = at /\ v.artifact = at.artifact
                                   /\ v.number = at.number /\ v.number = p.base + 1
    <2>1. PICK v \in versions : v.pub = p.pub /\ PlaceOf(v) = at
      BY <1>4, <1>5
    <2>2. v.artifact = at.artifact /\ v.number = at.number
      BY <2>1 DEF PlaceOf, Place
    <2>3. v.base = p.base
      BY <1>1, <1>2, <2>1 DEF PackageSound
    <2>4. v.number = p.base + 1
      BY <1>1, <1>3, <2>3 DEF BasesChain, Versions
    <2> QED
      BY <2>1, <2>2, <2>4
  <1>6. at.artifact \in ArtifactIds /\ at \in [artifact : ArtifactIds, number : 0 .. MaxVersions]
    <2>1. at.artifact \in ArtifactIds
      BY <1>3, <1>5
    <2>2. at \in [artifact : ArtifactIds \cup {New}, number : 0 .. MaxVersions]
      BY <1>3 DEF Request
    <2> QED
      BY <2>1, <2>2
  <1>7. p.target # New => record[c].artifact = p.target
                          /\ (p.target \in deleted \/ record[c].base <= p.base + 1)
    BY <1>1, <1>2 DEF CopySound
  <1>8. ASSUME at.artifact \notin deleted
        PROVE  /\ record[c].artifact \in {New, at.artifact}
               /\ record[c].artifact = at.artifact => record[c].base <= at.number
    <2>1. CASE p.target # New
      BY <1>4, <1>5, <1>7, <1>8, <2>1
    <2>2. CASE p.target = New /\ record[c].artifact # New
      <3>1. PICK v \in versions : v.pub = p.pub /\ v.artifact = at.artifact /\ v.number = at.number
        BY <1>5, <1>8
      <3>2. v.artifact = record[c].artifact /\ v.number = record[c].base
        BY <1>1, <1>2, <2>2, <3>1 DEF CopySound, PlaceOf, Place
      <3> QED
        BY <1>3, <3>1, <3>2 DEF Versions
    <2> QED
      BY <1>6, <2>1, <2>2
  <1> QED
    BY <1>4, <1>5, <1>6, <1>7, <1>8

LEMMA ConfirmKeeps ==
    ASSUME PublishingInv, NEW c \in Copies, Confirm(c)
    PROVE  PublishingInv'
  <1> USE Marks
  <1> DEFINE h == call[c]
             p == pending[c]
             at == handler[h].at
             result == [artifact |-> at.artifact, base |-> at.number]
             Packages == [pub : 0 .. MaxPubs, target : ArtifactIds \cup {New},
                          base : 0 .. MaxVersions, whole : BOOLEAN]
             Copied == [artifact : ArtifactIds \cup {New}, base : 0 .. MaxVersions]
  <1>1. /\ ServerInv /\ CopiesInv /\ UNCHANGED <<owner, dropped, published>>
        /\ h # NoCall /\ handler[h].pc = "ok" /\ Drop(h)
        /\ UNCHANGED serverRest /\ call' = [call EXCEPT ![c] = NoCall]
    BY DEF PublishingInv, Confirm
  <1>2. /\ pending \in [Copies -> Packages] /\ record \in [Copies -> Copied]
        /\ PackageSound(c) /\ CopySound(c) /\ published \in 0 .. MaxPubs
        /\ \A v \in versions : v.artifact \in ArtifactIds /\ v.pub \in PublicationIds
        /\ deleted \subseteq ArtifactIds
    BY <1>1 DEF CopiesInv, CopiesTypeOK, ServerInv, ArtifactsTypeOK, VersionsSound
  <1>3. /\ at \in [artifact : ArtifactIds, number : 0 .. MaxVersions]
        /\ p.pub \in pubs /\ \A v \in versions : v.pub = p.pub => PlaceOf(v) = at
        /\ at.artifact \notin deleted =>
              \E v \in versions : v.artifact = at.artifact /\ v.number = at.number
        /\ p.target # New =>
              /\ at.artifact = p.target /\ record[c].artifact = p.target
              /\ at.artifact \in deleted \/ at.number = p.base + 1
        /\ at.artifact \notin deleted =>
              /\ record[c].artifact \in {New, at.artifact}
              /\ record[c].artifact = at.artifact => record[c].base <= at.number
    BY <1>1, ResultSound
  <1>4. PICK q \in {NoPackage, p, [p EXCEPT !.whole = FALSE]} :
          /\ pending' = [pending EXCEPT ![c] = q]
          /\ \/ record' = [record EXCEPT ![c] = result] /\ unrecorded' = unrecorded
             \/ record' = record /\ unrecorded' = unrecorded \cup {c} /\ q = NoPackage
    <2>1. pending' = pending => pending' = [pending EXCEPT ![c] = p]
      BY <1>2
    <2>2. pending' = [pending EXCEPT ![c].whole = FALSE] =>
             pending' = [pending EXCEPT ![c] = [p EXCEPT !.whole = FALSE]]
      BY <1>2
    <2> QED
      BY <2>1, <2>2 DEF Confirm
  <1>5. /\ q \in Packages /\ q.pub \in {0, p.pub}
        /\ q.pub # 0 => q.target = p.target /\ q.base = p.base
        /\ q.pub = 0 => q = NoPackage
    <2>1. p \in Packages /\ (p.pub = 0 => p = NoPackage)
      BY <1>2 DEF CopySound
    <2>2. NoPackage \in Packages /\ NoPackage.pub = 0
      BY DEF NoPackage
    <2>3. CASE q = NoPackage
      BY <2>2, <2>3
    <2>4. CASE q = p
      BY <2>1, <2>4
    <2>5. CASE q = [p EXCEPT !.whole = FALSE]
      <3>1. q \in Packages /\ q.pub = p.pub /\ q.target = p.target /\ q.base = p.base
        BY <2>1, <2>5
      <3>2. p.pub # 0
        BY <1>1, <1>3 DEF ServerInv, VersionsSound
      <3> QED
        BY <3>1, <3>2
    <2> QED
      BY <2>3, <2>4, <2>5
  <1> HIDE DEF Packages, Copied
  <1>6. pending'[c] = q /\ (\A d \in Copies \ {c} : record'[d] = record[d] /\ pending'[d] = pending[d])
        /\ (\/ record'[c] = result /\ unrecorded' = unrecorded
            \/ record'[c] = record[c] /\ unrecorded' = unrecorded \cup {c} /\ q = NoPackage)
    BY <1>2, <1>4
  <1>7. /\ ServerInv' /\ UNCHANGED <<versions, pubs, deleted>>
        /\ h \in Handlers /\ Publishes(h)
        /\ handler[h].pub = p.pub /\ p.pub \in 1 .. published
        /\ call'[c] = NoCall /\ call' \in [Copies -> Handlers \cup {NoCall}]
        /\ handler'[h] = NoRequest
        /\ \A k \in Handlers \ {h} : handler'[k] = handler[k]
        /\ \A d \in Copies \ {c} : PackageSound(d)' /\ CallSound(d)' /\ CopySound(d)'
    <2>1. handler[h].pc \in Statuses
      BY <1>1 DEF Statuses
    <2> QED
      BY <1>1, <1>6, <2>1, AnswerTaken
  <1>8. CopiesTypeOK'
    <2>1. result \in Copied
      BY <1>3 DEF Copied
    <2>2. record' \in [Copies -> Copied] /\ pending' \in [Copies -> Packages]
      BY <1>2, <1>4, <1>5, <2>1
    <2>3. unrecorded' \subseteq Copies
      BY <1>1, <1>4 DEF CopiesInv, CopiesTypeOK
    <2> QED
      BY <1>1, <1>7, <2>2, <2>3 DEF CopiesInv, CopiesTypeOK, Packages, Copied
  <1>9. OwnerSound'
    <2>1. \A i \in PublicationIds, d \in Copies :
             i = pending[d].pub => i = pending'[d].pub \/ i \in pubs
      BY <1>3, <1>6
    <2> QED
      BY <1>1, <1>7, <2>1 DEF CopiesInv, OwnerSound
  <1>10. RecordFollows'
    <2>1. ASSUME NEW d \in Copies, record'[d].artifact \notin deleted
          PROVE  /\ record'[d].artifact # New =>
                       \E v \in versions : v.artifact = record'[d].artifact
                                           /\ v.number = record'[d].base
                 /\ \A v \in versions :
                       \/ owner[v.pub] # d \/ d \in unrecorded'
                       \/ v.pub \in dropped \/ v.pub = pending'[d].pub
                       \/ record'[d].artifact = v.artifact /\ v.number <= record'[d].base
      <3>1. CASE d # c
        BY <1>1, <1>4, <1>6, <2>1, <3>1 DEF CopiesInv, RecordFollows
      <3>2. CASE d = c /\ record'[c] = record[c] /\ unrecorded' = unrecorded \cup {c}
        BY <1>1, <2>1, <3>2 DEF CopiesInv, RecordFollows
      <3>3. CASE d = c /\ record'[c] = result /\ unrecorded' = unrecorded
        <4>1. at.artifact \notin deleted /\ record'[c].artifact = at.artifact
              /\ record'[c].base = at.number
          BY <2>1, <3>3
        <4>2. ASSUME NEW v \in versions, owner[v.pub] = c, c \notin unrecorded,
                     v.pub \notin dropped
              PROVE  v.artifact = at.artifact /\ v.number <= at.number
          <5>1. CASE v.pub = p.pub
            <6>1. PlaceOf(v) = at
              BY <1>3, <5>1
            <6> QED
              BY <1>3, <6>1 DEF PlaceOf, Place
          <5>2. CASE v.pub # p.pub
            <6>1. record[c].artifact \notin deleted
              BY <1>2, <1>3, <4>1
            <6>2. record[c].artifact = v.artifact /\ v.number <= record[c].base
              BY <1>1, <4>2, <5>2, <6>1 DEF CopiesInv, RecordFollows
            <6>3. record[c].artifact = at.artifact /\ record[c].base <= at.number
              BY <1>2, <1>3, <4>1, <6>2
            <6>4. v.number \in Nat /\ record[c].base \in Nat /\ at.number \in Nat
              BY <1>1, <1>2, <1>3 DEF ServerInv, ArtifactsTypeOK, Versions, Copied
            <6> QED
              BY <6>2, <6>3, <6>4
          <5> QED
            BY <5>1, <5>2
        <4>3. \E v \in versions : v.artifact = at.artifact /\ v.number = at.number
          BY <1>3, <4>1
        <4> QED
          BY <3>3, <4>1, <4>2, <4>3
      <3> QED
        BY <1>6, <3>1, <3>2, <3>3
    <2> QED
      BY <1>1, <1>7, <2>1 DEF RecordFollows
  <1>11. PackageSound(c)' /\ CallSound(c)'
    <2>1. \A k \in Handlers : Publishes(k)' => handler'[k] = handler[k] /\ Publishes(k)
      BY <1>7 DEF Publishes, NoRequest
    <2> QED
      BY <1>1, <1>2, <1>5, <1>6, <1>7, <2>1 DEF PackageSound, CallSound
  <1>12. CopySound(c)'
    <2>1. CASE record'[c] = record[c] /\ q = NoPackage
      BY <1>2, <1>6, <2>1 DEF CopySound, NoPackage
    <2>2. CASE record'[c] = result
      <3>1. record'[c].artifact = at.artifact /\ record'[c].base = at.number
            /\ at.artifact # New /\ Place(at.artifact, at.number) = at
        BY <1>3, <2>2 DEF Place
      <3>2. q.pub # 0 /\ q.target # New =>
               q.target = at.artifact /\ (q.target \in deleted \/ at.number <= q.base + 1)
        BY <1>3, <1>5, <3>1
      <3>3. q.pub # 0 => q.pub \in pubs /\ \A v \in versions : v.pub = q.pub => PlaceOf(v) = at
        BY <1>3, <1>5
      <3> QED
        BY <1>5, <1>6, <1>7, <3>1, <3>2, <3>3 DEF CopySound, PlaceOf, Place
    <2> QED
      BY <1>6, <2>1, <2>2
  <1> QED
    BY <1>7, <1>8, <1>9, <1>10, <1>11, <1>12 DEF PublishingInv, CopiesInv

LEMMA GiveUpKeeps ==
    ASSUME PublishingInv, NEW c \in Copies, GiveUp(c)
    PROVE  PublishingInv'
  <1> USE Marks
  <1>1. /\ ServerInv /\ CopiesInv /\ UNCHANGED <<record, pending, owner, unrecorded, dropped>>
        /\ UNCHANGED <<rows, disk, opsLock, handler, reader, deleted, leftover, missed, published>>
        /\ UNCHANGED <<versions, pubs>> /\ call' = [call EXCEPT ![c] = NoCall]
    BY DEF PublishingInv, GiveUp, serverRest, rows
  <1>2. published' \in published .. MaxPubs /\ call \in [Copies -> Handlers \cup {NoCall}]
    BY <1>1 DEF ServerInv, ArtifactsTypeOK, CopiesInv, CopiesTypeOK
  <1>3. ServerInv'
    <2>1. ReaderSound' /\ ReaderFinds'
      BY <1>1 DEF ServerInv, ReaderSound, ReaderFinds, Known, PlaceOf, Place
    <2> QED
      BY <1>1, <1>2, <2>1, ServerStays
  <1>4. CopiesTypeOK' /\ RecordFollows' /\ OwnerSound'
    <2>1. call' \in [Copies -> Handlers \cup {NoCall}]
      BY <1>1, <1>2
    <2> QED
      BY <1>1, <2>1 DEF CopiesInv, CopiesTypeOK, RecordFollows, OwnerSound
  <1>5. ASSUME NEW d \in Copies PROVE PackageSound(d)' /\ CallSound(d)' /\ CopySound(d)'
    <2>1. PackageSound(d) /\ CallSound(d) /\ CopySound(d)
      BY <1>1 DEF CopiesInv
    <2>2. call'[d] \in {NoCall, call[d]}
      BY <1>1, <1>2
    <2>3. PackageSound(d)' /\ CallSound(d)'
      BY <1>1, <2>1, <2>2 DEF PackageSound, CallSound, Publishes
    <2>4. CopySound(d)'
      BY <1>1, <2>1 DEF CopySound, NoPackage, PlaceOf, Place
    <2> QED
      BY <2>3, <2>4
  <1> QED
    BY <1>3, <1>4, <1>5 DEF PublishingInv, CopiesInv

LEMMA UnclaimedAnswerKeeps ==
    ASSUME PublishingInv, NEW h \in Handlers, UnclaimedAnswer(h)
    PROVE  PublishingInv'
  <1> USE Marks
  <1>1. handler[h].pc \in Statuses /\ Drop(h) /\ UNCHANGED <<serverRest, published, publishing>>
        /\ \A c \in Copies : call[c] # h
    BY DEF UnclaimedAnswer
  <1>2. /\ ServerInv' /\ handler'[h] = NoRequest
        /\ \A k \in Handlers \ {h} : handler'[k] = handler[k]
        /\ UNCHANGED <<versions, pubs, deleted>> /\ published' \in published .. MaxPubs
    BY <1>1, RequestForgotten
  <1>3. \A c \in Copies : call[c] # NoCall => call[c] \in Handlers \ {h} /\ Publishes(call[c])
    BY <1>1 DEF PublishingInv, CopiesInv, CopiesTypeOK, CallSound
  <1>4. \A c \in Copies : call[c] # NoCall =>
           Publishes(call[c])' /\ handler'[call[c]].pub = handler[call[c]].pub
    BY <1>1, <1>2, <1>3 DEF Publishes, publishing
  <1>5. \A k \in Handlers : Publishes(k)' =>
           /\ Publishes(k) /\ handler'[k].pub = handler[k].pub
           /\ handler'[k].target = handler[k].target /\ handler'[k].base = handler[k].base
    BY <1>2 DEF Publishes, NoRequest
  <1>6. CopiesInv'
    BY <1>1, <1>2, <1>4, <1>5, CopiesKept
  <1> QED
    BY <1>2, <1>6 DEF PublishingInv

(* The start removes what has no row. *)
LEMMA ServerRestartKeeps ==
    ASSUME PublishingInv, ServerRestart
    PROVE  PublishingInv'
  <1> USE Marks
  <1>1. /\ ServerInv /\ CopiesInv /\ UNCHANGED <<record, pending, owner, unrecorded, dropped>>
        /\ UNCHANGED <<versions, pubs, published, deleted, missed>>
        /\ opsLock' = Free /\ handler' = [h \in Handlers |-> NoRequest] /\ reader' = Place(New, 0)
        /\ call' = [c \in Copies |-> NoCall]
    BY DEF PublishingInv, ServerRestart, ServiceRestart, rows
  <1>2. content' = Reconciled(content) /\ durable' = Reconciled(durable)
    BY DEF ServerRestart, ServiceRestart
  <1>3. ArtifactsTypeOK'
    <2>1. durable \subseteq content
      BY <1>1 DEF ServerInv, ArtifactsTypeOK
    <2> QED
      BY <1>1, <1>2, <2>1, NoRequestTyped DEF ServerInv, ArtifactsTypeOK, Reconciled
  <1>4. ContentBehindRows'
    <2>1. ASSUME NEW v \in versions PROVE \E d \in durable' : PlaceOf(d) = PlaceOf(v) /\ d.snap = v.snap
      BY <1>1, <1>2 DEF ServerInv, ContentBehindRows, Reconciled
    <2> QED
      BY <1>1, <2>1 DEF ContentBehindRows, PlaceOf, Place
  <1>5. BasesChain' /\ ReaderFinds' /\ VersionsSound' /\ ReaderSound'
    BY <1>1 DEF ServerInv, BasesChain, ReaderFinds, VersionsSound, ReaderSound, Place
  <1>6. \A h \in Handlers : handler'[h] = NoRequest /\ handler'[h].pc = "idle"
    BY <1>1 DEF NoRequest
  <1>7. MutexSound'
    BY <1>1, <1>6 DEF MutexSound, Holding
  <1>8. OrphansTraced'
    <2>1. \A d \in content' : \E v \in versions : PlaceOf(v) = PlaceOf(d)
      BY <1>2 DEF Reconciled
    <2> QED
      BY <1>1, <2>1 DEF OrphansTraced, PlaceOf, Place
  <1>9. \A h \in Handlers : RequestSound(h)' /\ PlacingSound(h)' /\ AnswerSound(h)'
    BY <1>6 DEF RequestSound, PlacingSound, AnswerSound, Publishes
  <1>10. CopiesTypeOK' /\ RecordFollows' /\ OwnerSound'
    BY <1>1 DEF CopiesInv, CopiesTypeOK, RecordFollows, OwnerSound
  <1>11. ASSUME NEW c \in Copies PROVE PackageSound(c)' /\ CallSound(c)' /\ CopySound(c)'
    <2>1. PackageSound(c) /\ CopySound(c)
      BY <1>1 DEF CopiesInv
    <2>2. PackageSound(c)' /\ CallSound(c)'
      BY <1>1, <1>6, <2>1 DEF PackageSound, CallSound, Publishes
    <2>3. CopySound(c)'
      BY <1>1, <2>1 DEF CopySound, NoPackage, PlaceOf, Place
    <2> QED
      BY <2>2, <2>3
  <1> QED
    BY <1>3, <1>4, <1>5, <1>7, <1>8, <1>9, <1>10, <1>11 DEF PublishingInv, ServerInv, CopiesInv

-----------------------------------------------------------------------------
(* The invariant.                                                          *)

LEMMA PublishingInitSound == PublishingInit => PublishingInv
  <1> USE Marks
  <1> SUFFICES ASSUME PublishingInit PROVE PublishingInv
    OBVIOUS
  <1>1. /\ versions = {} /\ pubs = {} /\ content = {} /\ durable = {} /\ opsLock = Free
        /\ handler = [h \in Handlers |-> NoRequest] /\ reader = Place(New, 0)
        /\ published = 0 /\ deleted = {} /\ missed = FALSE
        /\ record = [c \in Copies |-> [artifact |-> New, base |-> 0]]
        /\ pending = [c \in Copies |-> NoPackage] /\ call = [c \in Copies |-> NoCall]
        /\ owner = [p \in PublicationIds |-> Nobody] /\ unrecorded = {} /\ dropped = {}
    BY DEF PublishingInit, ArtifactsInit
  <1>2. \A h \in Handlers : handler[h] = NoRequest /\ handler[h].pc = "idle"
    BY <1>1 DEF NoRequest
  <1>3. ArtifactsTypeOK
    BY <1>1, NoRequestTyped DEF ArtifactsTypeOK
  <1>4. MutexSound /\ VersionsSound /\ OrphansTraced /\ ReaderSound /\ ContentBehindRows
        /\ BasesChain /\ ReaderFinds
    BY <1>1, <1>2 DEF MutexSound, Holding, VersionsSound, OrphansTraced, ReaderSound, Place,
       ContentBehindRows, BasesChain, ReaderFinds
  <1>5. \A h \in Handlers : RequestSound(h) /\ PlacingSound(h) /\ AnswerSound(h)
    BY <1>2 DEF RequestSound, PlacingSound, AnswerSound, Publishes
  <1>6. CopiesTypeOK
    BY <1>1 DEF CopiesTypeOK, NoPackage
  <1>7. RecordFollows /\ OwnerSound
    BY <1>1 DEF RecordFollows, OwnerSound
  <1>8. \A c \in Copies : PackageSound(c) /\ CallSound(c) /\ CopySound(c)
    BY <1>1 DEF PackageSound, CallSound, CopySound, NoPackage
  <1> QED
    BY <1>3, <1>4, <1>5, <1>6, <1>7, <1>8 DEF PublishingInv, ServerInv, CopiesInv

LEMMA ArtifactStepKeeps ==
    ASSUME PublishingInv, ArtifactStep, UNCHANGED publishing
    PROVE  PublishingInv'
  <1>1. ASSUME NEW h \in Handlers, Work(h) PROVE PublishingInv'
    BY <1>1, ReplayKeeps, LookUpKeeps, EarlyCheckKeeps, StageKeeps, LockKeeps, CommitKeeps,
       AppendKeeps, EraseKeeps DEF Work
  <1>2. ASSUME NEW h \in Handlers, Restore(h) PROVE PublishingInv'
    BY <1>2, RestoreKeeps
  <1>3. ASSUME NEW h \in Handlers, NEW a \in ArtifactIds, DeleteRows(h, a) PROVE PublishingInv'
    BY <1>3, DeleteRowsKeeps
  <1>4. ASSUME Resolve \/ Serve PROVE PublishingInv'
    BY <1>4, ReaderKeeps
  <1> QED
    BY <1>1, <1>2, <1>3, <1>4 DEF ArtifactStep

LEMMA PublishingUnchanged ==
    ASSUME PublishingInv, UNCHANGED publishingVars
    PROVE  PublishingInv'
  <1>1. /\ ServerInv /\ CopiesInv
        /\ UNCHANGED <<rows, disk, opsLock, handler, reader, published, deleted, leftover, missed>>
        /\ UNCHANGED <<versions, pubs>> /\ UNCHANGED publishing
    BY DEF PublishingInv, publishingVars, artifactVars, rows
  <1>2. published' \in published .. MaxPubs
    BY <1>1, Marks DEF ServerInv, ArtifactsTypeOK
  <1>3. ServerInv'
    <2>1. ReaderSound' /\ ReaderFinds'
      BY <1>1 DEF ServerInv, ReaderSound, ReaderFinds, Known, PlaceOf, Place
    <2> QED
      BY <1>1, <1>2, <2>1, ServerStays
  <1>4. CopiesInv'
    <2>1. \A c \in Copies : call[c] # NoCall => Publishes(call[c])
      BY <1>1 DEF CopiesInv, CallSound
    <2> QED
      BY <1>1, <1>2, <2>1, CopiesKept DEF Publishes, publishing
  <1> QED
    BY <1>3, <1>4 DEF PublishingInv

LEMMA PublishingNextKeeps ==
    ASSUME PublishingInv, PublishingNext
    PROVE  PublishingInv'
  <1>1. ASSUME ArtifactStep, UNCHANGED publishing PROVE PublishingInv'
    BY <1>1, ArtifactStepKeeps
  <1>2. ASSUME NEW c \in Copies, CopyStep(c) PROVE PublishingInv'
    BY <1>2, CreateFromKeeps, FreezeKeeps, SendKeeps, AnswerKeeps, ConfirmKeeps, GiveUpKeeps
       DEF CopyStep
  <1>3. ASSUME NEW h \in Handlers, UnclaimedAnswer(h) PROVE PublishingInv'
    BY <1>3, UnclaimedAnswerKeeps
  <1>4. ASSUME ServerRestart PROVE PublishingInv'
    BY <1>4, ServerRestartKeeps
  <1> QED
    BY <1>1, <1>2, <1>3, <1>4 DEF PublishingNext

(* Whoever has a directory without a row in hand has the mutex. *)
LEMMA InvariantEnough == PublishingInv => PublicationsHold
  <1> SUFFICES ASSUME PublishingInv PROVE PublicationsHold
    OBVIOUS
  <1>1. OrphansExplained
    <2>1. MutexSound /\ OrphansTraced
      BY DEF PublishingInv, ServerInv
    <2>2. opsLock = Free => \A h \in Handlers : handler[h].pc \notin Holding
      BY <2>1, Marks DEF MutexSound
    <2> QED
      BY <2>1, <2>2 DEF OrphansTraced, OrphansExplained, Holding
  <1> QED
    BY <1>1 DEF PublishingInv, ServerInv, CopiesInv, PublicationsHold, PublishingTypeOK

(***************************************************************************)
(* For any number of requests, copies, artifacts, publications and         *)
(* versions, and any number of failures and restarts of the server: rows   *)
(* name only synced content, versions follow their bases, resolved links   *)
(* are served, and a copy's record follows what it published (Publish,     *)
(* Delete, reconcile; freeze, resend, writeRecord).  A power loss is no    *)
(* step of it.                                                             *)
(***************************************************************************)
THEOREM PublicationsAlwaysHold == PublishingSpec => []PublicationsHold
  <1>1. PublishingInit => PublishingInv
    BY PublishingInitSound
  <1>2. PublishingInv /\ [PublishingNext]_publishingVars => PublishingInv'
    BY PublishingNextKeeps, PublishingUnchanged
  <1>3. PublishingInv => PublicationsHold
    BY InvariantEnough
  <1> QED
    BY <1>1, <1>2, <1>3, PTL DEF PublishingSpec

-----------------------------------------------------------------------------
(* The inductive invariant of the platform: the file lock, and what a      *)
(* process's place under it has established of the installation.           *)

Installing == {"recheck", "install", "switch", "sweep"}

(* Who shares the lock, who has it to themselves, and who is still about   *)
(* to convert it.                                                          *)
LockSound ==
    /\ shared = {p \in Processes : stage[p] \in {"check", "using"}}
    /\ exclusive # NoProcess => shared = {} /\ stage[exclusive] \in Installing \cup {"settle"}
    /\ \A p \in Processes : stage[p] \in Installing => exclusive = p

(* What the holder of the exclusive lock has done so far.                  *)
InstallSound ==
    \A p \in Processes : exclusive = p =>
        /\ component[p] = "deps" => Linked(p, "runtime")
        /\ stage[p] = "switch" => tree[component[p]][Wants[p]] # "absent"
        /\ stage[p] = "sweep" => Linked(p, component[p])
        /\ stage[p] = "settle" => \A c \in Components : Linked(p, c)

TornExplained ==
    \A c \in Components, v \in AllVersions : tree[c][v] = "torn" => <<c, v>> \in maimed

UsersLinked ==
    \A p \in Processes \ outrun : stage[p] = "using" => \A c \in Components : Linked(p, c)

PlatformInv ==
    /\ PlatformTypeOK /\ LockSound /\ InstallSound /\ TornExplained /\ UsersLinked /\ CurrentUsable

-----------------------------------------------------------------------------
(* The inductive invariant of the snapshot.  A file's saves only grow: the *)
(* document as it was when the copy began lies between the two manifests,  *)
(* and so does the copy; where these agree, they agree with it.            *)

Below(a, b) == \A f \in FileIds : a[f] <= b[f]
BelowTo(n, a, b) == \A f \in FileIds : f < n => a[f] <= b[f]

WalksSound ==
    /\ step = "before" => BelowTo(reading, before, document)
    /\ step = "copy" => \E d \in moments :
          /\ Below(before, d) /\ Below(d, document)
          /\ BelowTo(reading, d, copied) /\ BelowTo(reading, copied, document)
    /\ step = "after" => \E d \in moments :
          /\ Below(before, d) /\ Below(d, copied) /\ Below(copied, document)
          /\ BelowTo(reading, copied, after)

(* The copy that was taken, and what each later step has made of it.       *)
PackagesSound ==
    /\ step \in {"check", "bundle", "build", "source"} => copied \in moments
    /\ step = "source" => archives.build = {copied}
    /\ step = "freezing" => staging.build = archives.source /\ staging.build \subseteq moments
    /\ step = "placing" => OneMoment(staging)

MomentsSound ==
    /\ document \in moments /\ moments \subseteq [FileIds -> 0 .. MaxSaves]
    /\ \A f \in FileIds : document[f] <= saves

SnapshotInv ==
    SnapshotTypeOK /\ MomentsSound /\ WalksSound /\ PackagesSound /\ BuiltFromOneMoment


LEMMA PlatformInitSound == PlatformInit => PlatformInv
  <1> SUFFICES ASSUME PlatformInit PROVE PlatformInv
    OBVIOUS
  <1>1. PlatformTypeOK
    BY DEF PlatformInit, PlatformTypeOK, Components
  <1>2. LockSound /\ InstallSound
    BY NoneOfThem DEF PlatformInit, LockSound, InstallSound, Installing
  <1>3. TornExplained /\ UsersLinked /\ CurrentUsable
    BY DEF PlatformInit, TornExplained, UsersLinked, CurrentUsable
  <1> QED
    BY <1>1, <1>2, <1>3 DEF PlatformInv

(* Steps that leave the installation alone keep what is known of it. *)
LEMMA InstallationUntouched ==
    ASSUME PlatformInv, UNCHANGED <<tree, current, maimed>>,
           PlatformTypeOK', LockSound', InstallSound', UsersLinked'
    PROVE  PlatformInv'
  BY DEF PlatformInv, TornExplained, CurrentUsable

LEMMA VersionsTyped == \A p \in Processes : Wants[p] \in AllVersions
  BY DEF AllVersions

LEMMA BeginKeeps ==
    ASSUME PlatformInv, NEW p \in Processes, Begin(p)
    PROVE  PlatformInv'
  <1>1. PlatformTypeOK'
    BY DEF PlatformInv, PlatformTypeOK, Begin, Enter, locks
  <1>2. LockSound'
    BY NoneOfThem DEF PlatformInv, PlatformTypeOK, LockSound, Begin, Enter, locks, Installing
  <1>3. InstallSound' /\ UsersLinked'
    BY DEF PlatformInv, PlatformTypeOK, InstallSound, UsersLinked, Linked, Begin, Enter, locks
  <1> QED
    BY <1>1, <1>2, <1>3, InstallationUntouched DEF Begin

LEMMA LockSharedKeeps ==
    ASSUME PlatformInv, NEW p \in Processes, LockShared(p)
    PROVE  PlatformInv'
  <1>1. PlatformTypeOK'
    BY DEF PlatformInv, PlatformTypeOK, LockShared, Enter
  <1>2. LockSound'
    BY NoneOfThem DEF PlatformInv, PlatformTypeOK, LockSound, LockShared, CanShare, Enter, Installing
  <1>3. InstallSound' /\ UsersLinked'
    BY DEF PlatformInv, PlatformTypeOK, InstallSound, UsersLinked, Linked, LockShared, Enter
  <1> QED
    BY <1>1, <1>2, <1>3, InstallationUntouched DEF LockShared

LEMMA CheckKeeps ==
    ASSUME PlatformInv, NEW p \in Processes, Check(p)
    PROVE  PlatformInv'
  <1>1. PlatformTypeOK'
    BY DEF PlatformInv, PlatformTypeOK, Check, Enter
  <1>2. LockSound'
    BY NoneOfThem DEF PlatformInv, PlatformTypeOK, LockSound, Check, Enter, Installing
  <1>3. InstallSound' /\ UsersLinked'
    BY DEF PlatformInv, PlatformTypeOK, InstallSound, UsersLinked, Linked, Check, Enter
  <1> QED
    BY <1>1, <1>2, <1>3, InstallationUntouched DEF Check

LEMMA LockExclusiveKeeps ==
    ASSUME PlatformInv, NEW p \in Processes, LockExclusive(p)
    PROVE  PlatformInv'
  <1>1. PlatformTypeOK'
    BY DEF PlatformInv, PlatformTypeOK, LockExclusive, Enter, Components
  <1>2. LockSound'
    BY NoneOfThem
       DEF PlatformInv, PlatformTypeOK, LockSound, LockExclusive, CanExclude, Enter, Installing
  <1>3. InstallSound' /\ UsersLinked'
    BY DEF PlatformInv, PlatformTypeOK, InstallSound, UsersLinked, Linked, LockExclusive, Enter
  <1> QED
    BY <1>1, <1>2, <1>3, InstallationUntouched DEF LockExclusive

(* The process at work has the lock, and nobody uses the installation. *)
LEMMA AtWorkAlone ==
    ASSUME PlatformInv, NEW p \in Processes,
           stage[p] \in Installing \/ (stage[p] = "settle" /\ exclusive = p)
    PROVE  /\ exclusive = p /\ shared = {}
           /\ \A q \in Processes : stage[q] \notin {"check", "using"}
           /\ \A q \in Processes \ {p} : stage[q] \notin Installing
  BY NoneOfThem DEF PlatformInv, LockSound

(* What its next step but one rests on. *)
LEMMA OnwardsKeeps ==
    ASSUME PlatformInv, NEW p \in Processes, stage[p] \in {"recheck", "sweep"}, Onwards(p),
           UNCHANGED <<current, locks, outrun>>, PlatformTypeOK',
           current[component[p]] = Wants[p], tree'[component[p]][Wants[p]] # "absent",
           Linked(p, "runtime") => Linked(p, "runtime")'
    PROVE  LockSound' /\ InstallSound' /\ UsersLinked'
  <1>1. /\ exclusive = p /\ shared = {}
        /\ \A q \in Processes : stage[q] \notin {"check", "using"}
        /\ \A q \in Processes \ {p} : stage[q] \notin Installing
    BY AtWorkAlone DEF Installing
  <1>2. /\ stage' = [stage EXCEPT ![p] = Following(p)]
        /\ component' = [component EXCEPT ![p] = "deps"]
        /\ Following(p) \in {"recheck", "settle"}
    BY DEF Onwards, Enter, Following
  <1>3. LockSound'
    BY <1>1, <1>2, NoneOfThem DEF PlatformInv, PlatformTypeOK, LockSound, Installing, locks
  <1>4. InstallSound'
    <2> SUFFICES ASSUME NEW q \in Processes, exclusive' = q
                 PROVE  /\ component'[q] = "deps" => Linked(q, "runtime")'
                        /\ stage'[q] \in {"recheck", "settle"}
                        /\ stage'[q] = "settle" => \A c \in Components : Linked(q, c)'
      BY DEF InstallSound
    <2>1. q = p /\ stage'[p] = Following(p) /\ component'[p] = "deps"
      BY <1>1, <1>2 DEF PlatformInv, PlatformTypeOK, locks
    <2>2. CASE component[p] = "runtime"
      BY <2>1, <2>2 DEF Following, Linked
    <2>3. CASE component[p] = "deps"
      BY <1>1, <2>1, <2>3 DEF Following, Linked, PlatformInv, InstallSound, Components
    <2> QED
      BY <2>2, <2>3 DEF PlatformInv, PlatformTypeOK, Components
  <1>5. UsersLinked'
    BY <1>1, <1>2 DEF PlatformInv, PlatformTypeOK, UsersLinked
  <1> QED
    BY <1>3, <1>4, <1>5

LEMMA CheckAgainKeeps ==
    ASSUME PlatformInv, NEW p \in Processes, CheckAgain(p)
    PROVE  PlatformInv'
  <1>1. PlatformTypeOK'
    BY DEF PlatformInv, PlatformTypeOK, CheckAgain, Onwards, Following, Enter, Components, locks
  <1>2. CASE ~Needed(p) /\ Onwards(p)
    <2>1. LockSound' /\ InstallSound' /\ UsersLinked'
      BY <1>1, <1>2, OnwardsKeeps DEF CheckAgain, Needed, Linked
    <2> QED
      BY <1>1, <2>1, InstallationUntouched DEF CheckAgain
  <1>3. CASE Needed(p) /\ UNCHANGED component
                /\ Enter(p, IF tree[component[p]][Wants[p]] = "absent" THEN "install" ELSE "switch")
    <2>1. exclusive = p /\ shared = {}
      BY AtWorkAlone DEF CheckAgain, Installing
    <2>2. LockSound'
      BY <1>3, <2>1, NoneOfThem
         DEF PlatformInv, PlatformTypeOK, LockSound, CheckAgain, Enter, Installing, locks
    <2>3. InstallSound' /\ UsersLinked'
      BY <1>3, <2>1
         DEF PlatformInv, PlatformTypeOK, InstallSound, UsersLinked, Linked, CheckAgain, Enter, locks
    <2> QED
      BY <1>1, <2>2, <2>3, InstallationUntouched DEF CheckAgain
  <1> QED
    BY <1>2, <1>3 DEF CheckAgain

LEMMA InstallKeeps ==
    ASSUME PlatformInv, NEW p \in Processes, Install(p)
    PROVE  PlatformInv'
  <1>1. /\ exclusive = p /\ shared = {} /\ component[p] \in Components /\ Wants[p] \in AllVersions
        /\ \A q \in Processes : stage[q] \notin {"check", "using"}
        /\ \A q \in Processes \ {p} : stage[q] \notin Installing
    BY AtWorkAlone, VersionsTyped DEF Install, Installing, PlatformInv, PlatformTypeOK
  <1>2. PlatformTypeOK'
    <2>1. tree' \in [Components -> [AllVersions -> {"absent", "whole", "torn"}]]
      <3>1. tree' = [tree EXCEPT ![component[p]][Wants[p]] = "whole"] \/ tree' = tree
        BY DEF Install
      <3>2. tree \in [Components -> [AllVersions -> {"absent", "whole", "torn"}]]
        BY DEF PlatformInv, PlatformTypeOK
      <3>3. CASE tree' = [tree EXCEPT ![component[p]][Wants[p]] = "whole"]
        BY <1>1, <3>2, <3>3
      <3> QED
        BY <3>1, <3>2, <3>3
    <2>2. stage' = [stage EXCEPT ![p] = "switch"] \/ stage' = [stage EXCEPT ![p] = "idle"]
      BY DEF Install, Enter
    <2>3. exclusive' \in Processes \cup {NoProcess}
      BY DEF PlatformInv, PlatformTypeOK, Install
    <2> QED
      BY <2>1, <2>2, <2>3 DEF PlatformInv, PlatformTypeOK, Install
  <1>3. LockSound'
    BY <1>1, NoneOfThem DEF PlatformInv, PlatformTypeOK, LockSound, Install, Enter, Installing
  <1>4. \A c \in Components, v \in AllVersions :
            tree'[c][v] = tree[c][v] \/ tree'[c][v] = "whole"
    BY <1>1 DEF PlatformInv, PlatformTypeOK, Install
  <1>5. TornExplained' /\ CurrentUsable'
    BY <1>4 DEF PlatformInv, PlatformTypeOK, TornExplained, CurrentUsable, Install
  <1>6. InstallSound'
    <2> SUFFICES ASSUME NEW q \in Processes, exclusive' = q
                 PROVE  /\ component'[q] = "deps" => Linked(q, "runtime")'
                        /\ stage'[q] = "switch"
                        /\ tree'[component'[q]][Wants[q]] # "absent"
      BY DEF InstallSound
    <2>1. q = p /\ stage'[p] = "switch" /\ tree'[component[p]][Wants[p]] = "whole"
          /\ UNCHANGED <<component, current>>
      BY <1>1, NoneOfThem DEF PlatformInv, PlatformTypeOK, Install, Enter
    <2> QED
      BY <1>1, <1>4, <2>1 DEF PlatformInv, InstallSound, Linked, Components
  <1>7. UsersLinked'
    BY <1>1 DEF PlatformInv, PlatformTypeOK, UsersLinked, Install, Enter
  <1> QED
    BY <1>2, <1>3, <1>5, <1>6, <1>7 DEF PlatformInv

LEMMA SwitchKeeps ==
    ASSUME PlatformInv, NEW p \in Processes, Switch(p)
    PROVE  PlatformInv'
  <1>1. /\ exclusive = p /\ shared = {} /\ component[p] \in Components /\ Wants[p] \in AllVersions
        /\ \A q \in Processes : stage[q] \notin {"check", "using"}
        /\ \A q \in Processes \ {p} : stage[q] \notin Installing
    BY AtWorkAlone, VersionsTyped DEF Switch, Installing, PlatformInv, PlatformTypeOK
  <1>2. PlatformTypeOK'
    BY <1>1 DEF PlatformInv, PlatformTypeOK, Switch, Enter, locks
  <1>3. LockSound'
    BY <1>1, NoneOfThem DEF PlatformInv, PlatformTypeOK, LockSound, Switch, Enter, Installing, locks
  <1>4. tree[component[p]][Wants[p]] # "absent"
    BY <1>1 DEF PlatformInv, InstallSound, Switch
  <1>5. TornExplained' /\ CurrentUsable'
    BY <1>1, <1>4 DEF PlatformInv, PlatformTypeOK, TornExplained, CurrentUsable, Switch
  <1>6. InstallSound' /\ UsersLinked'
    BY <1>1, <1>4
       DEF PlatformInv, PlatformTypeOK, InstallSound, UsersLinked, Linked, Switch, Enter, locks, Components
  <1> QED
    BY <1>2, <1>3, <1>5, <1>6 DEF PlatformInv

LEMMA SweepKeeps ==
    ASSUME PlatformInv, NEW p \in Processes, Sweep(p)
    PROVE  PlatformInv'
  <1>1. /\ exclusive = p /\ shared = {} /\ component[p] \in Components /\ Wants[p] \in AllVersions
        /\ \A q \in Processes : stage[q] \notin {"check", "using"}
    BY AtWorkAlone, VersionsTyped DEF Sweep, Installing, PlatformInv, PlatformTypeOK
  <1>2. Linked(p, component[p])
    BY <1>1 DEF PlatformInv, InstallSound, Sweep
  <1>3. \A c \in Components, v \in AllVersions :
            /\ c # component[p] \/ v = Wants[p] => tree'[c][v] = tree[c][v]
            /\ c = component[p] /\ v # Wants[p] => tree'[c][v] = "absent"
    BY <1>1 DEF PlatformInv, PlatformTypeOK, Sweep
  <1>4. PlatformTypeOK'
    BY <1>1 DEF PlatformInv, PlatformTypeOK, Sweep, Onwards, Following, Enter, Components, locks
  <1>5. LockSound' /\ InstallSound' /\ UsersLinked'
    <2>1. Linked(p, "runtime") => Linked(p, "runtime")'
      BY <1>1, <1>3 DEF Linked, Components, Sweep
    <2>2. current[component[p]] = Wants[p] /\ tree'[component[p]][Wants[p]] # "absent"
      BY <1>1, <1>2, <1>3 DEF Linked
    <2> QED
      BY <1>4, <2>1, <2>2, OnwardsKeeps DEF Sweep
  <1>6. TornExplained'
    <2> SUFFICES ASSUME NEW c \in Components, NEW v \in AllVersions, tree'[c][v] = "torn"
                 PROVE  <<c, v>> \in maimed'
      BY DEF TornExplained
    <2>1. tree[c][v] = "torn" /\ ~(c = component[p] /\ v # Wants[p])
      BY <1>3
    <2>2. <<c, v>> \notin {<<component[p], w>> : w \in Others(p)}
      BY <2>1 DEF Others
    <2> QED
      BY <2>1, <2>2 DEF Sweep, PlatformInv, TornExplained
  <1>7. CurrentUsable'
    <2> SUFFICES ASSUME NEW c \in Components, current[c] # NoVersion
                 PROVE  tree'[c][current[c]] # "absent"
      BY DEF CurrentUsable, Sweep
    <2>1. current[c] \in AllVersions /\ tree[c][current[c]] # "absent"
      BY DEF PlatformInv, PlatformTypeOK, CurrentUsable
    <2>2. c = component[p] => current[c] = Wants[p]
      BY <1>2 DEF Linked
    <2> QED
      BY <1>3, <2>1, <2>2
  <1> QED
    BY <1>4, <1>5, <1>6, <1>7 DEF PlatformInv

LEMMA SettleKeeps ==
    ASSUME PlatformInv, NEW p \in Processes, Settle(p)
    PROVE  PlatformInv'
  <1>1. PlatformTypeOK'
    BY DEF PlatformInv, PlatformTypeOK, Settle, Enter
  <1>2. LockSound'
    <2>1. CASE exclusive = p
      BY <2>1, NoneOfThem DEF PlatformInv, PlatformTypeOK, LockSound, Settle, Enter, Installing
    <2>2. CASE exclusive = NoProcess
      BY <2>2, NoneOfThem DEF PlatformInv, PlatformTypeOK, LockSound, Settle, Enter, Installing
    <2> QED
      BY <2>1, <2>2 DEF Settle
  <1>3. InstallSound'
    BY NoneOfThem DEF PlatformInv, PlatformTypeOK, InstallSound, Settle
  <1>4. UsersLinked'
    <2> SUFFICES ASSUME NEW q \in Processes \ outrun', stage'[q] = "using"
                 PROVE  \A c \in Components : Linked(q, c)
      BY DEF UsersLinked, Linked, Settle
    <2>1. CASE q # p
      BY <2>1 DEF PlatformInv, PlatformTypeOK, UsersLinked, Settle, Enter
    <2>2. CASE q = p /\ exclusive = p
      BY <2>2 DEF PlatformInv, InstallSound, Settle
    <2>3. CASE q = p /\ exclusive = NoProcess
      BY <2>3, NoneOfThem DEF Settle
    <2> QED
      BY <2>1, <2>2, <2>3 DEF Settle
  <1> QED
    BY <1>1, <1>2, <1>3, <1>4, InstallationUntouched DEF Settle

LEMMA ReleaseKeeps ==
    ASSUME PlatformInv, NEW p \in Processes, Release(p)
    PROVE  PlatformInv'
  <1>1. PlatformTypeOK'
    BY DEF PlatformInv, PlatformTypeOK, Release, Enter
  <1>2. LockSound'
    BY NoneOfThem DEF PlatformInv, PlatformTypeOK, LockSound, Release, Enter, Installing
  <1>3. InstallSound' /\ UsersLinked'
    BY DEF PlatformInv, PlatformTypeOK, InstallSound, UsersLinked, Linked, Release, Enter
  <1> QED
    BY <1>1, <1>2, <1>3, InstallationUntouched DEF Release

LEMMA KillKeeps ==
    ASSUME PlatformInv, NEW p \in Processes, Kill(p)
    PROVE  PlatformInv'
  <1>1. component[p] \in Components
    BY DEF PlatformInv, PlatformTypeOK
  <1>2. \A c \in Components, v \in AllVersions :
            \/ tree'[c][v] = tree[c][v]
            \/ tree'[c][v] = "torn" /\ tree[c][v] # "absent" /\ <<c, v>> \in maimed'
    BY <1>1 DEF PlatformInv, PlatformTypeOK, Kill, Others
  <1>3. maimed \subseteq maimed' /\ UNCHANGED current
    BY DEF Kill
  <1>4. PlatformTypeOK'
    <2>1. /\ shared' \subseteq Processes /\ exclusive' \in Processes \cup {NoProcess}
          /\ UNCHANGED <<current, component, outrun>>
      BY DEF PlatformInv, PlatformTypeOK, Kill
    <2>2. /\ tree' \in [Components -> [AllVersions -> {"absent", "whole", "torn"}]]
          /\ maimed' \subseteq Components \X AllVersions
      <3>1. CASE UNCHANGED <<tree, maimed>>
        BY <3>1 DEF PlatformInv, PlatformTypeOK
      <3>2. ASSUME NEW v \in Others(p),
                   tree' = [tree EXCEPT ![component[p]][v] = "torn"],
                   maimed' = maimed \cup {<<component[p], v>>}
            PROVE  <2>2
        <4>1. v \in AllVersions
          BY DEF Others
        <4> QED
          BY <1>1, <3>2, <4>1 DEF PlatformInv, PlatformTypeOK
      <3> QED
        BY <3>1, <3>2 DEF Kill
    <2>3. stage' = [stage EXCEPT ![p] = "idle"]
      BY DEF Kill, Enter
    <2> QED
      BY <2>1, <2>2, <2>3 DEF PlatformInv, PlatformTypeOK
  <1>5. LockSound'
    BY NoneOfThem DEF PlatformInv, PlatformTypeOK, LockSound, Kill, Enter, Installing
  <1>6. TornExplained'
    BY <1>2, <1>3 DEF PlatformInv, TornExplained
  <1>7. CurrentUsable'
    <2> SUFFICES ASSUME NEW c \in Components, current[c] # NoVersion
                 PROVE  tree'[c][current[c]] # "absent"
      BY <1>3 DEF CurrentUsable
    <2>1. current[c] \in AllVersions /\ tree[c][current[c]] # "absent"
      BY DEF PlatformInv, PlatformTypeOK, CurrentUsable
    <2> QED
      BY <1>2, <2>1
  <1>8. \A q \in Processes, c \in Components : Linked(q, c) => Linked(q, c)'
    BY <1>2, <1>3, VersionsTyped DEF Linked
  <1>9. InstallSound'
    <2> SUFFICES ASSUME NEW q \in Processes, exclusive' = q
                 PROVE  /\ component[q] = "deps" => Linked(q, "runtime")'
                        /\ stage'[q] = "switch" => tree'[component[q]][Wants[q]] # "absent"
                        /\ stage'[q] = "sweep" => Linked(q, component[q])'
                        /\ stage'[q] = "settle" => \A c \in Components : Linked(q, c)'
      BY DEF InstallSound, Linked, Kill
    <2>1. q # p /\ exclusive = q /\ stage'[q] = stage[q] /\ component[q] \in Components
      BY NoneOfThem DEF PlatformInv, PlatformTypeOK, Kill, Enter
    <2>2. tree[component[q]][Wants[q]] # "absent" => tree'[component[q]][Wants[q]] # "absent"
      BY <1>2, <2>1, VersionsTyped
    <2>3. "runtime" \in Components
      BY DEF Components
    <2>4. /\ component[q] = "deps" => Linked(q, "runtime")
          /\ stage[q] = "switch" => tree[component[q]][Wants[q]] # "absent"
          /\ stage[q] = "sweep" => Linked(q, component[q])
          /\ stage[q] = "settle" => \A c \in Components : Linked(q, c)
      BY <2>1 DEF PlatformInv, InstallSound
    <2>5. stage'[q] = "sweep" => Linked(q, component[q])'
      BY <2>1, <2>2, <2>4, <1>3 DEF Linked, Kill
    <2> QED
      BY <1>8, <2>1, <2>2, <2>3, <2>4, <2>5
  <1>10. UsersLinked'
    <2> SUFFICES ASSUME NEW q \in Processes \ outrun, stage'[q] = "using"
                 PROVE  \A c \in Components : Linked(q, c)'
      BY DEF UsersLinked, Kill
    <2>1. stage[q] = "using"
      BY DEF PlatformInv, PlatformTypeOK, Kill, Enter
    <2> QED
      BY <1>8, <2>1 DEF PlatformInv, UsersLinked
  <1> QED
    BY <1>4, <1>5, <1>6, <1>7, <1>9, <1>10 DEF PlatformInv

LEMMA PlatformNextKeeps == PlatformInv /\ [PlatformNext]_platformVars => PlatformInv'
  <1> SUFFICES ASSUME PlatformInv, [PlatformNext]_platformVars PROVE PlatformInv'
    OBVIOUS
  <1>1. ASSUME NEW p \in Processes, Ensure(p) PROVE PlatformInv'
    BY <1>1, LockSharedKeeps, CheckKeeps, LockExclusiveKeeps, CheckAgainKeeps, InstallKeeps,
       SwitchKeeps, SweepKeeps, SettleKeeps DEF Ensure
  <1>2. ASSUME NEW p \in Processes, Begin(p) \/ Release(p) \/ Kill(p) PROVE PlatformInv'
    BY <1>2, BeginKeeps, ReleaseKeeps, KillKeeps
  <1>3. CASE UNCHANGED platformVars
    BY <1>3 DEF platformVars, locks, PlatformInv, PlatformTypeOK, LockSound, InstallSound, TornExplained,
                UsersLinked, CurrentUsable, Linked
  <1> QED
    BY <1>1, <1>2, <1>3 DEF PlatformNext

(* Nobody waits but for the holder of a lock, who is at work. *)
LEMMA PlatformEnough ==
    PlatformInv => PlatformTypeOK /\ UsersUndisturbed /\ CurrentUsable /\ NoStandoff
  <1> SUFFICES ASSUME PlatformInv PROVE UsersUndisturbed /\ NoStandoff
    BY DEF PlatformInv
  <1>1. UsersUndisturbed
    BY VersionsTyped
       DEF PlatformInv, PlatformTypeOK, UsersUndisturbed, UsersLinked, TornExplained, Linked
  <1>2. NoStandoff
    <2> SUFFICES ASSUME NEW p \in Processes, stage[p] # "idle"
                 PROVE  \E q \in Processes : stage[q] # "idle" /\ ~Waiting(q)
      BY DEF NoStandoff
    <2>1. CASE exclusive # NoProcess
      BY <2>1 DEF PlatformInv, PlatformTypeOK, LockSound, Installing, Waiting
    <2>2. CASE exclusive = NoProcess /\ shared = {}
      BY <2>2 DEF Waiting, CanShare, CanExclude
    <2>3. ASSUME NEW q \in shared PROVE stage[q] # "idle" /\ ~Waiting(q) /\ q \in Processes
      BY <2>3 DEF PlatformInv, LockSound, Waiting
    <2> QED
      BY <2>1, <2>2, <2>3
  <1> QED
    BY <1>1, <1>2


-----------------------------------------------------------------------------
(* The snapshot.                                                           *)

LEMMA SnapshotTyped ==
    ASSUME SnapshotInv
    PROVE  /\ document \in [FileIds -> 0 .. MaxSaves] /\ before \in [FileIds -> 0 .. MaxSaves]
           /\ copied \in [FileIds -> 0 .. MaxSaves] /\ after \in [FileIds -> 0 .. MaxSaves]
           /\ archives \in Package /\ staging \in Package /\ frozen \in Package
           /\ \A d \in moments : d \in [FileIds -> 0 .. MaxSaves]
           /\ \A f \in FileIds, d \in [FileIds -> 0 .. MaxSaves] : d[f] \in Nat
           /\ Files \in Nat /\ reading \in Nat /\ FileIds \subseteq Nat
  BY SomethingToBuild DEF SnapshotInv, SnapshotTypeOK, MomentsSound, FileIds

LEMMA SnapshotInitSound == SnapshotInit => SnapshotInv
  <1> SUFFICES ASSUME SnapshotInit PROVE SnapshotInv
    OBVIOUS
  <1>1. Unread \in [FileIds -> 0 .. MaxSaves] /\ NoArchives \in Package
    BY SomethingToBuild DEF Unread, NoArchives, Package
  <1>2. SnapshotTypeOK
    BY <1>1, SomethingToBuild DEF SnapshotInit, SnapshotTypeOK, FileIds
  <1>3. MomentsSound
    BY <1>1 DEF SnapshotInit, MomentsSound, Unread
  <1>4. WalksSound /\ PackagesSound /\ BuiltFromOneMoment
    BY DEF SnapshotInit, WalksSound, BelowTo, FileIds, PackagesSound, BuiltFromOneMoment, OneMoment,
           NoArchives
  <1> QED
    BY <1>2, <1>3, <1>4 DEF SnapshotInv

(* A save only moves the document on. *)
LEMMA SaveKeeps ==
    ASSUME SnapshotInv, Save
    PROVE  SnapshotInv'
  <1> USE SnapshotTyped
  <1>1. PICK g \in FileIds : document' = [document EXCEPT ![g] = @ + 1]
    BY DEF Save
  <1>2. \A f \in FileIds : document[f] <= document'[f] /\ document'[f] <= saves'
    BY <1>1 DEF Save, SnapshotInv, SnapshotTypeOK, MomentsSound
  <1>3. document' \in [FileIds -> 0 .. MaxSaves]
    BY <1>1, <1>2, SomethingToBuild DEF Save, SnapshotInv, SnapshotTypeOK
  <1>4. SnapshotTypeOK'
    <2>1. saves' \in 0 .. MaxSaves
      BY SomethingToBuild DEF Save, SnapshotInv, SnapshotTypeOK
    <2> QED
      BY <1>3, <2>1 DEF Save, SnapshotInv, SnapshotTypeOK, scratchVars
  <1>5. MomentsSound'
    BY <1>2, <1>3 DEF Save, SnapshotInv, MomentsSound
  <1>6. WalksSound'
    <2>1. step = "before" => BelowTo(reading, before, document')
      BY <1>2, <1>3 DEF SnapshotInv, WalksSound, BelowTo
    <2>2. ASSUME NEW d \in moments, Below(before, d), Below(d, document), step = "copy",
                 BelowTo(reading, d, copied), BelowTo(reading, copied, document)
          PROVE  Below(d, document') /\ BelowTo(reading, copied, document')
      BY <1>2, <1>3, <2>2 DEF Below, BelowTo
    <2>3. Below(copied, document) => Below(copied, document')
      BY <1>2, <1>3 DEF Below
    <2>4. moments \subseteq moments' /\ UNCHANGED <<step, reading, before, copied, after>>
      BY DEF Save
    <2>5. step = "copy" => \E d \in moments' :
              /\ Below(before, d) /\ Below(d, document')
              /\ BelowTo(reading, d, copied) /\ BelowTo(reading, copied, document')
      BY <2>2, <2>4 DEF SnapshotInv, WalksSound
    <2>6. step = "after" => \E d \in moments' :
              /\ Below(before, d) /\ Below(d, copied) /\ Below(copied, document')
              /\ BelowTo(reading, copied, after)
      BY <2>3, <2>4 DEF SnapshotInv, WalksSound
    <2> QED
      BY <2>1, <2>4, <2>5, <2>6 DEF WalksSound, Below, BelowTo
  <1>7. PackagesSound' /\ BuiltFromOneMoment'
    BY DEF Save, SnapshotInv, PackagesSound, BuiltFromOneMoment, OneMoment, scratchVars
  <1> QED
    BY <1>4, <1>5, <1>6, <1>7 DEF SnapshotInv

(* Where the steps before the build leave the packages. *)
LEMMA WalkLeavesPackages ==
    ASSUME SnapshotInv, UNCHANGED <<moments, scratchVars>>,
           step \in {"before", "copy", "after"}, step' \in {"before", "copy", "after", "check", "over"},
           step' = "check" => copied' \in moments
    PROVE  PackagesSound' /\ BuiltFromOneMoment'
  BY DEF SnapshotInv, PackagesSound, BuiltFromOneMoment, OneMoment, scratchVars

LEMMA WalkTyped ==
    ASSUME SnapshotInv, NEW walk, NEW next, walk # next, Walk(walk, next)
    PROVE  /\ reading \in FileIds /\ reading' \in FileIds
           /\ step' = walk => reading < Files /\ reading' = reading + 1
           /\ step' # walk => reading = Files /\ reading' = 1 /\ step' = next
  <1>1. reading \in FileIds
    BY DEF SnapshotInv, SnapshotTypeOK
  <1> QED
    BY <1>1, SomethingToBuild DEF Walk, FileIds

LEMMA ManifestKeeps ==
    ASSUME SnapshotInv, Manifest
    PROVE  SnapshotInv'
  <1> USE SnapshotTyped
  <1>0. step = "before" /\ Walk("before", "copy") /\ step' \in {"before", "copy"}
    BY DEF Manifest, Walk
  <1>1. /\ reading \in FileIds /\ reading' \in FileIds
        /\ step' = "before" => reading < Files /\ reading' = reading + 1
        /\ step' = "copy" => reading = Files /\ reading' = 1
    BY <1>0, WalkTyped
  <1>2. /\ before' \in [FileIds -> 0 .. MaxSaves]
        /\ \A f \in FileIds : f = reading => before'[f] = document[f]
        /\ \A f \in FileIds : f # reading => before'[f] = before[f]
    BY <1>1 DEF Manifest
  <1>3. SnapshotTypeOK' /\ MomentsSound'
    BY <1>0, <1>1, <1>2 DEF Manifest, SnapshotInv, SnapshotTypeOK, MomentsSound, scratchVars
  <1>4. \A f \in FileIds : f <= reading => before'[f] <= document[f]
    BY <1>0, <1>2 DEF SnapshotInv, WalksSound, BelowTo
  <1>5. step' = "before" => BelowTo(reading', before', document)
    BY <1>1, <1>4 DEF BelowTo
  <1>6. step' = "copy" =>
            /\ Below(before', document) /\ Below(document, document) /\ document \in moments
            /\ BelowTo(reading', document, copied) /\ BelowTo(reading', copied, document)
    BY <1>1, <1>4 DEF Below, BelowTo, FileIds, SnapshotInv, MomentsSound
  <1>7. WalksSound'
    BY <1>0, <1>5, <1>6 DEF WalksSound, Manifest, Below, BelowTo
  <1>8. PackagesSound' /\ BuiltFromOneMoment'
    BY <1>0, WalkLeavesPackages DEF Manifest
  <1> QED
    BY <1>3, <1>7, <1>8 DEF SnapshotInv

LEMMA CopyDocumentKeeps ==
    ASSUME SnapshotInv, CopyDocument
    PROVE  SnapshotInv'
  <1> USE SnapshotTyped
  <1>0. step = "copy" /\ Walk("copy", "after") /\ step' \in {"copy", "after"}
    BY DEF CopyDocument, Walk
  <1>1. /\ reading \in FileIds /\ reading' \in FileIds
        /\ step' = "copy" => reading < Files /\ reading' = reading + 1
        /\ step' = "after" => reading = Files /\ reading' = 1
    BY <1>0, WalkTyped
  <1>2. /\ copied' \in [FileIds -> 0 .. MaxSaves]
        /\ \A f \in FileIds : f = reading => copied'[f] = document[f]
        /\ \A f \in FileIds : f # reading => copied'[f] = copied[f]
    BY <1>1 DEF CopyDocument
  <1>3. SnapshotTypeOK' /\ MomentsSound'
    BY <1>0, <1>1, <1>2 DEF CopyDocument, SnapshotInv, SnapshotTypeOK, MomentsSound, scratchVars
  <1>4. PICK d \in moments :
            /\ Below(before, d) /\ Below(d, document)
            /\ BelowTo(reading, d, copied) /\ BelowTo(reading, copied, document)
    BY <1>0 DEF SnapshotInv, WalksSound
  <1>5. \A f \in FileIds : f <= reading => d[f] <= copied'[f] /\ copied'[f] <= document[f]
    BY <1>2, <1>4 DEF Below, BelowTo
  <1>6. step' = "copy" => BelowTo(reading', d, copied') /\ BelowTo(reading', copied', document)
    BY <1>1, <1>5 DEF BelowTo
  <1>7. step' = "after" =>
            Below(d, copied') /\ Below(copied', document) /\ BelowTo(reading', copied', after)
    BY <1>1, <1>5 DEF Below, BelowTo, FileIds
  <1>8. WalksSound'
    BY <1>0, <1>4, <1>6, <1>7 DEF WalksSound, CopyDocument, Below, BelowTo
  <1>9. PackagesSound' /\ BuiltFromOneMoment'
    BY <1>0, WalkLeavesPackages DEF CopyDocument
  <1> QED
    BY <1>3, <1>8, <1>9 DEF SnapshotInv

(* Where the manifests agree, nothing was saved between them that the copy *)
(* could have half of.                                                     *)
LEMMA VerifyKeeps ==
    ASSUME SnapshotInv, Verify
    PROVE  SnapshotInv'
  <1> USE SnapshotTyped
  <1>1. /\ step = "after" /\ reading \in FileIds
        /\ step' \in {"after", "before", "check", "over"}
        /\ step' = "after" => reading < Files /\ reading' = reading + 1
        /\ step' # "after" => reading = Files /\ reading' = 1
        /\ step' = "check" => Steady
        /\ reading' \in FileIds
    <2>1. step = "after" /\ reading \in FileIds
      BY DEF Verify, SnapshotInv, SnapshotTypeOK
    <2>2. CASE reading < Files /\ reading' = reading + 1 /\ UNCHANGED step
      BY <2>1, <2>2 DEF FileIds
    <2>3. CASE reading = Files /\ reading' = 1 /\ (step' = "check" => Steady)
               /\ step' \in {"check", "before", "over"}
      BY <2>1, <2>3 DEF FileIds
    <2> QED
      BY <2>2, <2>3 DEF Verify
  <1>2. /\ after' \in [FileIds -> 0 .. MaxSaves]
        /\ \A f \in FileIds : f = reading => after'[f] = document[f]
        /\ \A f \in FileIds : f # reading => after'[f] = after[f]
    BY <1>1 DEF Verify
  <1>3. attempt' \in 1 .. Attempts
    BY SomethingToBuild DEF Verify, SnapshotInv, SnapshotTypeOK
  <1>4. SnapshotTypeOK' /\ MomentsSound'
    BY <1>1, <1>2, <1>3 DEF Verify, SnapshotInv, SnapshotTypeOK, MomentsSound, scratchVars
  <1>5. PICK d \in moments :
            /\ Below(before, d) /\ Below(d, copied) /\ Below(copied, document)
            /\ BelowTo(reading, copied, after)
    BY <1>1 DEF SnapshotInv, WalksSound
  <1>6. \A f \in FileIds : f <= reading => copied[f] <= after'[f]
    BY <1>2, <1>5 DEF Below, BelowTo
  <1>7. step' = "after" => BelowTo(reading', copied, after')
    BY <1>1, <1>6 DEF BelowTo
  <1>8. WalksSound'
    <2>1. step' = "before" => BelowTo(reading', before, document)
      BY <1>1 DEF BelowTo, FileIds
    <2> QED
      BY <1>1, <1>5, <1>7, <2>1 DEF WalksSound, Verify, Below, BelowTo
  <1>9. step' = "check" => copied \in moments
    <2> SUFFICES ASSUME step' = "check" PROVE copied = d
      BY <1>5
    <2>1. after' = before /\ \A f \in FileIds : f <= reading
      BY <1>1 DEF Steady, FileIds
    <2>2. \A f \in FileIds : copied[f] = d[f]
      BY <1>5, <1>6, <2>1 DEF Below
    <2> QED
      BY <2>2
  <1>10. PackagesSound' /\ BuiltFromOneMoment'
    BY <1>1, <1>9, WalkLeavesPackages DEF Verify
  <1> QED
    BY <1>4, <1>8, <1>10 DEF SnapshotInv


(* The steps of a build and of a publication leave the document and the    *)
(* walks' readings alone.                                                  *)
LEMMA AfterTheWalks ==
    ASSUME SnapshotInv, UNCHANGED <<walked, builds>>,
           step' \in {"bundle", "build", "source", "built", "freezing", "placing", "over"},
           archives' \in Package, staging' \in Package, frozen' \in Package,
           PackagesSound', BuiltFromOneMoment'
    PROVE  SnapshotInv'
  <1>1. SnapshotTypeOK' /\ MomentsSound'
    BY DEF SnapshotInv, SnapshotTypeOK, MomentsSound, walked
  <1>2. WalksSound'
    BY DEF WalksSound
  <1> QED
    BY <1>1, <1>2 DEF SnapshotInv

LEMMA RunToolKeeps ==
    ASSUME SnapshotInv, CheckTypes \/ Bundle \/ Killed
    PROVE  SnapshotInv'
  <1>1. /\ UNCHANGED <<walked, builds>> /\ UNCHANGED <<archives, staging, frozen>>
        /\ \/ step' = "over"
           \/ step = "check" /\ step' = "bundle"
           \/ step = "bundle" /\ step' = "build"
    BY DEF CheckTypes, Bundle, RunTool, Killed, scratchVars
  <1>2. PackagesSound' /\ BuiltFromOneMoment'
    BY <1>1 DEF SnapshotInv, PackagesSound, BuiltFromOneMoment, OneMoment, walked
  <1> QED
    BY <1>1, <1>2, SnapshotTyped, AfterTheWalks

LEMMA ArchiveKeeps ==
    ASSUME SnapshotInv, BuildArchive \/ SourceArchive
    PROVE  SnapshotInv'
  <1> USE SnapshotTyped
  <1>1. UNCHANGED <<walked, staging, frozen, builds>>
    BY DEF BuildArchive, SourceArchive, ArchiveTree
  <1>2. CASE UNCHANGED archives /\ step' = "over"
    <2>1. PackagesSound' /\ BuiltFromOneMoment'
      BY <1>1, <1>2 DEF SnapshotInv, PackagesSound, BuiltFromOneMoment, OneMoment, walked
    <2> QED
      BY <1>1, <1>2, <2>1, AfterTheWalks
  <1>3. {copied} \in SUBSET [FileIds -> 0 .. MaxSaves]
    OBVIOUS
  <1>4. CASE step = "build" /\ step' = "source" /\ archives' = [archives EXCEPT !.build = {copied}]
    <2>1. archives' \in Package /\ archives'.build = {copied}
      BY <1>3, <1>4 DEF Package
    <2>2. PackagesSound' /\ BuiltFromOneMoment'
      BY <1>1, <1>4, <2>1 DEF SnapshotInv, PackagesSound, BuiltFromOneMoment, OneMoment, walked
    <2> QED
      BY <1>1, <1>4, <2>1, <2>2, AfterTheWalks
  <1>5. CASE step = "source" /\ step' = "built" /\ archives' = [archives EXCEPT !.source = {copied}]
    <2>1. archives' \in Package /\ archives'.source = {copied} /\ archives'.build = archives.build
      BY <1>3, <1>5 DEF Package
    <2>2. copied \in moments /\ archives.build = {copied}
      BY <1>5 DEF SnapshotInv, PackagesSound
    <2>3. PackagesSound' /\ BuiltFromOneMoment'
      BY <1>1, <1>5, <2>1, <2>2
         DEF SnapshotInv, PackagesSound, BuiltFromOneMoment, OneMoment, walked
    <2> QED
      BY <1>1, <1>5, <2>1, <2>3, AfterTheWalks
  <1> QED
    BY <1>2, <1>4, <1>5 DEF BuildArchive, SourceArchive, ArchiveTree

LEMMA FreezingKeeps ==
    ASSUME SnapshotInv, FreezeBuild \/ FreezeSource \/ PlacePending \/ FreezeFails
    PROVE  SnapshotInv'
  <1> USE SnapshotTyped
  <1>0. NoArchives \in Package /\ NoArchives.build = {} /\ NoArchives.source = {}
    BY DEF NoArchives, Package
  <1>1. UNCHANGED <<walked, builds>>
    BY DEF FreezeBuild, FreezeSource, PlacePending, FreezeFails
  <1>2. CASE FreezeBuild
    <2>1. /\ staging' \in Package /\ staging'.build = archives.build
          /\ archives' \in Package /\ archives'.source = archives.source
      BY <1>0, <1>2 DEF FreezeBuild, Package
    <2>2. OneMoment(archives)
      BY <1>2 DEF FreezeBuild, SnapshotInv, BuiltFromOneMoment
    <2>3. PackagesSound' /\ BuiltFromOneMoment'
      BY <1>1, <1>2, <2>1, <2>2
         DEF FreezeBuild, SnapshotInv, PackagesSound, BuiltFromOneMoment, OneMoment, walked
    <2> QED
      BY <1>1, <1>2, <2>1, <2>3, AfterTheWalks DEF FreezeBuild
  <1>3. CASE FreezeSource
    <2>1. /\ staging' \in Package /\ staging'.build = staging.build /\ staging'.source = archives.source
          /\ archives' \in Package
      BY <1>3 DEF FreezeSource, Package
    <2>2. PackagesSound' /\ BuiltFromOneMoment'
      BY <1>1, <1>3, <2>1
         DEF FreezeSource, SnapshotInv, PackagesSound, BuiltFromOneMoment, OneMoment, walked
    <2> QED
      BY <1>1, <1>3, <2>1, <2>2, AfterTheWalks DEF FreezeSource
  <1>4. CASE PlacePending
    <2>1. PackagesSound' /\ BuiltFromOneMoment'
      BY <1>1, <1>4
         DEF PlacePending, SnapshotInv, PackagesSound, BuiltFromOneMoment, OneMoment, walked
    <2> QED
      BY <1>0, <1>1, <1>4, <2>1, AfterTheWalks DEF PlacePending
  <1>5. CASE FreezeFails
    <2>1. PackagesSound' /\ BuiltFromOneMoment'
      BY <1>1, <1>5
         DEF FreezeFails, SnapshotInv, PackagesSound, BuiltFromOneMoment, OneMoment, walked
    <2> QED
      BY <1>0, <1>1, <1>5, <2>1, AfterTheWalks DEF FreezeFails
  <1> QED
    BY <1>2, <1>3, <1>4, <1>5

LEMMA AgainKeeps ==
    ASSUME SnapshotInv, Again
    PROVE  SnapshotInv'
  <1>1. Unread \in [FileIds -> 0 .. MaxSaves] /\ NoArchives \in Package
    BY SomethingToBuild DEF Unread, NoArchives, Package
  <1>2. builds' \in 1 .. MaxBuilds /\ reading' \in FileIds /\ attempt' \in 1 .. Attempts
    BY SomethingToBuild DEF Again, SnapshotInv, SnapshotTypeOK, FileIds
  <1>3. SnapshotTypeOK' /\ MomentsSound'
    BY <1>1, <1>2 DEF Again, SnapshotInv, SnapshotTypeOK, MomentsSound
  <1>4. WalksSound'
    BY DEF Again, WalksSound, BelowTo, FileIds
  <1>5. OneMoment(frozen)'
    BY DEF Again, SnapshotInv, BuiltFromOneMoment, OneMoment, NoArchives
  <1>6. PackagesSound' /\ BuiltFromOneMoment'
    BY <1>5 DEF Again, PackagesSound, BuiltFromOneMoment
  <1> QED
    BY <1>3, <1>4, <1>6 DEF SnapshotInv

LEMMA SnapshotNextKeeps == SnapshotInv /\ [SnapshotNext]_snapshotVars => SnapshotInv'
  <1> SUFFICES ASSUME SnapshotInv, [SnapshotNext]_snapshotVars PROVE SnapshotInv'
    OBVIOUS
  <1>1. CASE UNCHANGED snapshotVars
    BY <1>1 DEF snapshotVars, scratchVars, SnapshotInv, SnapshotTypeOK, MomentsSound, WalksSound, Below,
                BelowTo, PackagesSound, BuiltFromOneMoment, OneMoment
  <1> QED
    BY <1>1, SaveKeeps, ManifestKeeps, CopyDocumentKeeps, VerifyKeeps, RunToolKeeps, ArchiveKeeps,
       FreezingKeeps, AgainKeeps DEF SnapshotNext

(***************************************************************************)
(* For any processes of any versions, any document, and any number of      *)
(* saves, failed installs and kills: whoever uses the platform uses a      *)
(* whole one of its own version, nobody waits for each other over the      *)
(* lock, and what is built or frozen is the document as it was at one      *)
(* moment (ensurePlatform, switchCurrent; snapshot, buildPrepared,         *)
(* freeze).                                                                *)
(***************************************************************************)
THEOREM AuthoringSound == PlatformSpec /\ SnapshotSpec => []CopiesSound
  <1>1. PlatformInit /\ SnapshotInit => PlatformInv /\ SnapshotInv
    BY PlatformInitSound, SnapshotInitSound
  <1>2. PlatformInv /\ [PlatformNext]_platformVars => PlatformInv'
    BY PlatformNextKeeps
  <1>3. SnapshotInv /\ [SnapshotNext]_snapshotVars => SnapshotInv'
    BY SnapshotNextKeeps
  <1>4. PlatformInv /\ SnapshotInv => CopiesSound
    BY PlatformEnough DEF CopiesSound, SnapshotInv
  <1> QED
    BY <1>1, <1>2, <1>3, <1>4, PTL DEF PlatformSpec, SnapshotSpec

-----------------------------------------------------------------------------
(* The inductive invariant of the database's opening.                      *)

(* What each step of a run has found or made.  A database that is there    *)
(* has at most the migrations of the installed binary, and some are        *)
(* pending while they are applied.                                         *)
RunSound ==
    /\ main = NoFile => wal = NoFile
    /\ main # NoFile => Current.schema <= binary
    /\ boot \in {"copy", "copyWal", "up", "open"} => main # NoFile
    /\ boot \in {"copy", "copyWal", "up"} => Current.schema < binary

(* Until the migrations begin the database is as the run found it; and     *)
(* then its backup is.                                                     *)
BackupSound ==
    /\ boot = "stat" => began = Current /\ fresh = (main = NoFile)
    /\ boot \in {"copy", "copyWal"} => began = Current
    /\ boot = "copyWal" => bmain = main
    /\ BackedUpFirst

UpgradeInv == UpgradeTypeOK /\ RunSound /\ BackupSound

LEMMA ReadsADatabase ==
    ASSUME UpgradeInv
    PROVE  /\ main # NoFile => Current \in Database
           /\ main = NoFile => Current = NoFile
           /\ Current \in Database \cup {NoFile} /\ binary \in Nat
           /\ MaxSchema \in Nat /\ MaxRows \in Nat
  BY Schemas DEF UpgradeInv, UpgradeTypeOK, RunSound, Current, Read

LEMMA UpgradeInitSound == UpgradeInit => UpgradeInv
  <1> SUFFICES ASSUME UpgradeInit PROVE UpgradeInv
    OBVIOUS
  <1>1. UpgradeTypeOK
    <2>1. binary \in 1 .. MaxSchema /\ stops \in 0 .. MaxStops
      BY Schemas DEF UpgradeInit
    <2>2. boot \in {"down", "stat", "copy", "copyWal", "up", "open"} /\ fresh \in BOOLEAN
      BY DEF UpgradeInit
    <2> QED
      BY <2>1, <2>2 DEF UpgradeInit, UpgradeTypeOK
  <1>2. RunSound /\ BackupSound
    BY DEF UpgradeInit, RunSound, BackupSound, BackedUpFirst
  <1> QED
    BY <1>1, <1>2 DEF UpgradeInv

LEMMA BeginRunKeeps == ASSUME UpgradeInv, BeginRun PROVE UpgradeInv'
  <1>1. UpgradeTypeOK'
    BY ReadsADatabase DEF BeginRun, UpgradeInv, UpgradeTypeOK
  <1>2. RunSound' /\ BackupSound'
    BY DEF BeginRun, UpgradeInv, RunSound, BackupSound, BackedUpFirst, Current, Read
  <1> QED
    BY <1>1, <1>2 DEF UpgradeInv

LEMMA HasPendingKeeps == ASSUME UpgradeInv, HasPending PROVE UpgradeInv'
  <1> DEFINE empty == [schema |-> 0, rows |-> 0]
  <1>1. empty \in Database /\ empty # NoFile /\ empty.schema = 0
    BY Schemas, NoContents DEF Database
  <1>2. /\ main' \in Database \cup {NoFile} /\ main' # NoFile
        /\ main # NoFile => main' = main
        /\ main = NoFile => main' = empty /\ wal = NoFile
        /\ boot' \in {"open", "up", "copy"}
    BY <1>1 DEF HasPending, UpgradeInv, UpgradeTypeOK, RunSound
  <1>3. UpgradeTypeOK'
    BY <1>2 DEF HasPending, UpgradeInv, UpgradeTypeOK
  <1>4. /\ Current' = Read(main', wal) /\ Current'.schema \in Nat
        /\ main # NoFile => Current' = Current
        /\ main = NoFile => Current' = empty
    BY <1>1, <1>2, ReadsADatabase DEF HasPending, Current, Read, Database
  <1>5. Current'.schema <= binary
    BY <1>1, <1>4, ReadsADatabase DEF UpgradeInv, RunSound
  <1>6. RunSound'
    BY <1>2, <1>4, <1>5, ReadsADatabase DEF HasPending, RunSound
  <1>7. BackupSound'
    BY <1>2, <1>4 DEF HasPending, UpgradeInv, BackupSound, BackedUpFirst
  <1> QED
    BY <1>3, <1>6, <1>7 DEF UpgradeInv

LEMMA BackupKeeps == ASSUME UpgradeInv, Backup \/ BackupWal PROVE UpgradeInv'
  <1>1. UNCHANGED <<main, wal, fresh, binary, began, prior, stops>> /\ UNCHANGED Current
    BY DEF Backup, BackupWal, Current, Read
  <1>2. UpgradeTypeOK'
    BY DEF Backup, BackupWal, Sidecar, UpgradeInv, UpgradeTypeOK
  <1>3. RunSound'
    BY <1>1 DEF Backup, BackupWal, UpgradeInv, RunSound
  <1>4. BackupSound'
    BY <1>1 DEF Backup, BackupWal, Sidecar, UpgradeInv, BackupSound, BackedUpFirst, Current, Read
  <1> QED
    BY <1>2, <1>3, <1>4 DEF UpgradeInv

LEMMA LogKeeps == ASSUME UpgradeInv, Up \/ Write PROVE UpgradeInv'
  <1>1. /\ main # NoFile /\ Current \in Database /\ boot' \in {"up", "open"}
        /\ UNCHANGED <<main, bmain, bwal, fresh, binary, began, prior, stops>>
        /\ boot = "up" => Current.schema < binary
        /\ Current.schema <= binary /\ binary \in 1 .. MaxSchema
    BY ReadsADatabase DEF Up, Write, UpgradeInv, UpgradeTypeOK, RunSound
  <1>2. wal' \in Database /\ wal'.schema <= binary /\ (boot' = "up" => wal'.schema < binary)
    <2>1. CASE Up
      BY <1>1, <2>1, ReadsADatabase DEF Up, UpgradeInv, RunSound, Database
    <2>2. CASE Write
      BY <1>1, <2>2, ReadsADatabase DEF Write, Database
    <2> QED
      BY <2>1, <2>2
  <1>3. Current' = wal'
    BY <1>2, NoContents DEF Current, Read
  <1>4. UpgradeTypeOK'
    BY <1>1, <1>2 DEF UpgradeInv, UpgradeTypeOK
  <1>5. RunSound'
    BY <1>1, <1>2, <1>3 DEF RunSound
  <1>6. BackupSound'
    BY <1>1 DEF Up, Write, UpgradeInv, BackupSound, BackedUpFirst
  <1> QED
    BY <1>4, <1>5, <1>6 DEF UpgradeInv

(* A run that ends leaves what a reader finds as it is. *)
LEMMA EndKeeps == ASSUME UpgradeInv, Close \/ Stop PROVE UpgradeInv'
  <1>1. boot' = "down" /\ UNCHANGED <<fresh, binary, began, prior>>
    BY DEF Close, Stop
  <1>2. /\ main' \in Database \cup {NoFile} /\ wal' \in Database \cup {NoFile}
        /\ main' = NoFile <=> main = NoFile
        /\ main = NoFile => wal' = NoFile
        /\ Current' = Current
    BY ReadsADatabase, NoContents
       DEF Close, Stop, Current, Read, UpgradeInv, UpgradeTypeOK, RunSound
  <1>3. bmain' \in Database \cup {NoFile, Torn} /\ bwal' \in Database \cup {NoFile, Torn}
    BY DEF Close, Stop, UpgradeInv, UpgradeTypeOK
  <1>4. stops' \in 0 .. MaxStops
    BY Schemas DEF Close, Stop, UpgradeInv, UpgradeTypeOK
  <1>5. UpgradeTypeOK'
    BY <1>1, <1>2, <1>3, <1>4 DEF UpgradeInv, UpgradeTypeOK
  <1>6. RunSound' /\ BackupSound'
    BY <1>1, <1>2 DEF UpgradeInv, RunSound, BackupSound, BackedUpFirst
  <1> QED
    BY <1>5, <1>6 DEF UpgradeInv

LEMMA UpgradeKeeps == ASSUME UpgradeInv, Upgrade PROVE UpgradeInv'
  <1>1. /\ boot = "down" /\ main # NoFile
        /\ UNCHANGED <<main, wal, bmain, bwal, boot, fresh, began, stops>>
        /\ Current.schema = binary /\ UNCHANGED Current
        /\ binary' \in 1 .. MaxSchema /\ binary <= binary' /\ prior' = Current
    BY ReadsADatabase DEF Upgrade, UpgradeInv, UpgradeTypeOK, Current, Read
  <1>2. UpgradeTypeOK'
    BY <1>1, ReadsADatabase DEF UpgradeInv, UpgradeTypeOK
  <1>3. RunSound' /\ BackupSound'
    BY <1>1 DEF UpgradeInv, RunSound, BackupSound, BackedUpFirst
  <1> QED
    BY <1>2, <1>3 DEF UpgradeInv

LEMMA UpgradeNextKeeps == UpgradeInv /\ [UpgradeNext]_upgradeVars => UpgradeInv'
  <1>1. ASSUME UpgradeInv, UNCHANGED upgradeVars PROVE UpgradeInv'
    BY <1>1 DEF upgradeVars, UpgradeInv, UpgradeTypeOK, RunSound, BackupSound, BackedUpFirst, Current, Read
  <1> QED
    BY <1>1, BeginRunKeeps, HasPendingKeeps, BackupKeeps, LogKeeps, EndKeeps, UpgradeKeeps
       DEF UpgradeNext

-----------------------------------------------------------------------------
(* The inductive invariant of the token file.                              *)

TokenInv ==
    /\ TokenTypeOK
    /\ \A c \in Callers : caller[c].step = "install" => Valid(caller[c].token)
    /\ Valid(file) => file \in held
    /\ HandedWasHeld
    /\ \A t \in elected : Valid(t) /\ t = file

LEMMA TokenInitSound == TokenInit => TokenInv
  BY TokenBounds
     DEF TokenInit, TokenInv, TokenTypeOK, CallRecords, HandedWasHeld, Valid, Resting, Absent, Malformed

(* The calls that are under way, and the token one has written. *)
LEMMA CallTyped ==
    ASSUME TokenInv, NEW c \in Callers
    PROVE  /\ caller[c] \in CallRecords
           /\ caller[c].token \in 0 .. MaxTokens
           /\ caller[c].step = "install" => Valid(caller[c].token)
  BY DEF TokenInv, TokenTypeOK, CallRecords

(* A call that ends, or goes on with no new token to install. *)
LEMMA CallGoesOn ==
    ASSUME TokenInv, NEW c \in Callers, NEW goesOn,
           goesOn \in CallRecords,
           goesOn.step = "install" => Valid(goesOn.token),
           caller' = [caller EXCEPT ![c] = goesOn]
    PROVE  /\ caller' \in [Callers -> CallRecords]
           /\ \A d \in Callers : caller'[d].step = "install" => Valid(caller'[d].token)
  BY DEF TokenInv, TokenTypeOK

LEMMA RestingTyped == Resting \in CallRecords /\ Resting.step = "idle"
  BY TokenBounds DEF Resting, Malformed, CallRecords

LEMMA BeginCallKeeps ==
    ASSUME TokenInv, NEW c \in Callers, NEW op \in {"ensure", "rotate"}, BeginCall(c, op)
    PROVE  TokenInv'
  <1> DEFINE goesOn == [op |-> op, token |-> Malformed,
                        step |-> IF op = "ensure" THEN "read" ELSE "write"]
  <1>1. goesOn \in CallRecords /\ goesOn.step # "install"
    BY TokenBounds DEF Malformed, CallRecords
  <1>2. caller' = [caller EXCEPT ![c] = goesOn]
    BY DEF BeginCall
  <1> HIDE DEF goesOn
  <1> QED
    BY <1>1, <1>2, CallGoesOn DEF BeginCall, TokenInv, TokenTypeOK, HandedWasHeld

LEMMA EnsureReadKeeps ==
    ASSUME TokenInv, NEW c \in Callers, EnsureRead(c)
    PROVE  TokenInv'
  <1>1. CASE /\ file = Absent /\ UNCHANGED <<handed, elected>>
             /\ caller' = [caller EXCEPT ![c].step = "write"]
    <2> DEFINE goesOn == [caller[c] EXCEPT !.step = "write"]
    <2>1. /\ goesOn \in CallRecords
          /\ goesOn.step # "install" /\ caller' = [caller EXCEPT ![c] = goesOn]
      BY <1>1, CallTyped DEF CallRecords
    <2> HIDE DEF goesOn
    <2> QED
      BY <1>1, <2>1, CallGoesOn DEF EnsureRead, TokenInv, TokenTypeOK, HandedWasHeld
  <1>2. CASE Valid(file) /\ Return(c, file) /\ elected' = elected \cup {file}
    <2>1. file \in 0 .. MaxTokens
      BY <1>2, TokenBounds DEF TokenInv, TokenTypeOK, Valid, Absent, Malformed
    <2> QED
      BY <1>2, <2>1, CallGoesOn, RestingTyped
         DEF EnsureRead, Return, TokenInv, TokenTypeOK, HandedWasHeld
  <1>3. CASE Fail(c) /\ UNCHANGED <<handed, elected>>
    BY <1>3, CallGoesOn, RestingTyped DEF EnsureRead, Fail, TokenInv, TokenTypeOK, HandedWasHeld
  <1> QED
    BY <1>1, <1>2, <1>3 DEF EnsureRead

LEMMA WriteTempKeeps ==
    ASSUME TokenInv, NEW c \in Callers, WriteTemp(c)
    PROVE  TokenInv'
  <1> DEFINE goesOn == [caller[c] EXCEPT !.step = "install", !.token = tokens + 1]
  <1>1. tokens + 1 \in 0 .. MaxTokens /\ tokens + 1 > 0
    BY TokenBounds DEF WriteTemp, TokenInv, TokenTypeOK
  <1>2. /\ goesOn \in CallRecords
        /\ Valid(goesOn.token) /\ caller' = [caller EXCEPT ![c] = goesOn]
    BY <1>1, CallTyped DEF WriteTemp, Valid, Malformed, CallRecords
  <1> HIDE DEF goesOn
  <1> QED
    BY <1>1, <1>2, CallGoesOn DEF WriteTemp, TokenInv, TokenTypeOK, HandedWasHeld

LEMMA InstallTokenKeeps ==
    ASSUME TokenInv, NEW c \in Callers, InstallToken(c)
    PROVE  TokenInv'
  <1>1. /\ caller[c].token \in 0 .. MaxTokens /\ caller[c].token \in Absent .. MaxTokens
        /\ Valid(caller[c].token)
    BY CallTyped, TokenBounds DEF InstallToken, Valid, Absent, Malformed
  <1>2. CASE /\ Link(c) /\ Contents(caller[c].token) /\ Return(c, caller[c].token)
             /\ elected' = elected \cup {caller[c].token}
    <2>1. elected = {}
      BY <1>2, TokenBounds DEF Link, TokenInv, Valid, Absent, Malformed
    <2>2. file' = caller[c].token /\ held' = held \cup {caller[c].token}
      BY <1>1, <1>2 DEF Contents
    <2> QED
      BY <1>1, <1>2, <2>1, <2>2, CallGoesOn, RestingTyped
         DEF InstallToken, Return, TokenInv, TokenTypeOK, HandedWasHeld
  <1>3. CASE caller' = [caller EXCEPT ![c].step = "adopt"] /\ UNCHANGED <<file, held, handed, elected>>
    <2> DEFINE goesOn == [caller[c] EXCEPT !.step = "adopt"]
    <2>1. /\ goesOn \in CallRecords
          /\ goesOn.step # "install" /\ caller' = [caller EXCEPT ![c] = goesOn]
      BY <1>3, CallTyped DEF CallRecords
    <2> HIDE DEF goesOn
    <2> QED
      BY <1>3, <2>1, CallGoesOn DEF InstallToken, TokenInv, TokenTypeOK, HandedWasHeld
  <1> QED
    BY <1>2, <1>3 DEF InstallToken

LEMMA AdoptKeeps ==
    ASSUME TokenInv, NEW c \in Callers, Adopt(c)
    PROVE  TokenInv'
  <1>1. CASE Valid(file) /\ Return(c, file) /\ elected' = elected \cup {file}
    <2>1. file \in 0 .. MaxTokens
      BY <1>1, TokenBounds DEF TokenInv, TokenTypeOK, Valid, Absent, Malformed
    <2> QED
      BY <1>1, <2>1, CallGoesOn, RestingTyped DEF Adopt, Return, TokenInv, TokenTypeOK, HandedWasHeld
  <1>2. CASE Fail(c) /\ UNCHANGED <<handed, elected>>
    BY <1>2, CallGoesOn, RestingTyped DEF Adopt, Fail, TokenInv, TokenTypeOK, HandedWasHeld
  <1> QED
    BY <1>1, <1>2 DEF Adopt, Winner

LEMMA RenameKeeps ==
    ASSUME TokenInv, NEW c \in Callers, Rename(c)
    PROVE  TokenInv'
  <1>1. /\ caller[c].token \in 0 .. MaxTokens /\ caller[c].token \in Absent .. MaxTokens
        /\ Valid(caller[c].token)
    BY CallTyped, TokenBounds DEF Rename, Valid, Absent, Malformed
  <1>2. file' = caller[c].token /\ held' = held \cup {caller[c].token}
    BY <1>1 DEF Rename, Contents
  <1> QED
    BY <1>1, <1>2, CallGoesOn, RestingTyped DEF Rename, Return, TokenInv, TokenTypeOK, HandedWasHeld

LEMMA MishapKeeps == ASSUME TokenInv, Mishap PROVE mishaps' \in 0 .. MaxMishaps
  BY TokenBounds DEF Mishap, TokenInv, TokenTypeOK

LEMMA AbandonKeeps ==
    ASSUME TokenInv, NEW c \in Callers, Abandon(c)
    PROVE  TokenInv'
  BY MishapKeeps, CallGoesOn, RestingTyped DEF Abandon, Fail, TokenInv, TokenTypeOK, HandedWasHeld

LEMMA MeddleKeeps ==
    ASSUME TokenInv, NEW contents \in {Absent, Malformed}, Meddle(contents)
    PROVE  TokenInv'
  <1>1. contents \in Absent .. MaxTokens /\ ~Valid(contents)
    BY TokenBounds DEF Valid, Absent, Malformed
  <1>2. file' = contents /\ held' = held /\ elected' = {}
    BY <1>1 DEF Meddle, Contents
  <1> QED
    BY <1>1, <1>2, MishapKeeps DEF Meddle, TokenInv, TokenTypeOK, HandedWasHeld

LEMMA TokenNextKeeps == TokenInv /\ [TokenNext]_tokenVars => TokenInv'
  <1>1. ASSUME TokenInv, UNCHANGED tokenVars PROVE TokenInv'
    BY <1>1 DEF tokenVars, TokenInv, TokenTypeOK, HandedWasHeld
  <1> QED
    BY <1>1, BeginCallKeeps, EnsureReadKeeps, WriteTempKeeps, InstallTokenKeeps, AdoptKeeps, RenameKeeps,
       AbandonKeeps, MeddleKeeps DEF TokenNext

(* Only the user makes of a token what is none. *)
LEMMA NeverTorn == TokenInv /\ [TokenNext]_tokenVars => [TokenUntorn]_tokenVars
  <1> SUFFICES ASSUME TokenInv, TokenNext, Valid(file), ~Valid(file') PROVE mishaps' # mishaps
    BY DEF TokenUntorn
  <1>1. ASSUME Mishap PROVE mishaps' # mishaps
    BY <1>1 DEF Mishap, TokenInv, TokenTypeOK
  <1>2. ASSUME NEW c \in Callers, InstallToken(c) \/ Rename(c) PROVE FALSE
    BY <1>2, CallTyped DEF InstallToken, Rename, Contents
  <1>3. ASSUME NEW c \in Callers PROVE ~(EnsureRead(c) \/ WriteTemp(c) \/ Adopt(c) \/ Abandon(c))
    BY DEF EnsureRead, WriteTemp, Adopt, Abandon
  <1>4. ASSUME NEW c \in Callers, NEW op \in {"ensure", "rotate"} PROVE ~BeginCall(c, op)
    BY DEF BeginCall
  <1>5. ASSUME NEW contents \in {Absent, Malformed}, Meddle(contents) PROVE Mishap
    BY <1>5 DEF Meddle
  <1> QED
    BY <1>1, <1>2, <1>3, <1>4, <1>5 DEF TokenNext

(***************************************************************************)
(* For any number of migrations, rows, callers, tokens, stops and mishaps: *)
(* no migration runs before a whole backup; a token handed out has been in *)
(* the file, racing callers are handed the same one, and only the user     *)
(* makes of a token what is none (Open, migrate, backup; Ensure, Rotate,   *)
(* writeTemp).                                                             *)
(***************************************************************************)
THEOREM FilesKept == UpgradeSpec /\ TokenSpec => FilesSurvive
  <1>1. UpgradeInit /\ TokenInit => UpgradeInv /\ TokenInv
    BY UpgradeInitSound, TokenInitSound
  <1>2. UpgradeInv /\ [UpgradeNext]_upgradeVars => UpgradeInv'
    BY UpgradeNextKeeps
  <1>3. TokenInv /\ [TokenNext]_tokenVars => TokenInv'
    BY TokenNextKeeps
  <1>4. TokenInv /\ [TokenNext]_tokenVars => [TokenUntorn]_tokenVars
    BY NeverTorn
  <1>5. UpgradeInv => UpgradeTypeOK /\ BackedUpFirst
    BY DEF UpgradeInv, BackupSound
  <1>6. TokenInv => TokenTypeOK /\ HandedWasHeld /\ EnsuresAgree
    BY DEF TokenInv, EnsuresAgree
  <1> QED
    BY <1>1, <1>2, <1>3, <1>4, <1>5, <1>6, PTL DEF UpgradeSpec, TokenSpec, FilesSurvive
=============================================================================
