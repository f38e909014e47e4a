--------------------------- MODULE WebhookIngress ---------------------------
(***************************************************************************)
(* The webhook ingress (internal/webhooks/ingress.go) with the restricted  *)
(* receiver it spawns (internal/webhooks/receiver): Core binds a listener  *)
(* once, runs receiver after receiver on it, and has Tailscale Funnel      *)
(* expose it only while a receiver that proved its isolation serves.  The  *)
(* receiver forwards requests over a fixed set of connections to Core.     *)
(*                                                                         *)
(* The sandbox is two facts: whether restricting failed, and whether what  *)
(* was installed really isolates -- the self-test is what finds that out.  *)
(***************************************************************************)
EXTENDS TailscaleSupervisor, TLAPS

CONSTANTS
    Conns,      \* receiver.Concurrency: channel connections, requests in flight
    MaxSpawns,  \* bound: receivers started
    MaxBreaks   \* bound: connections broken by a request that timed out

ASSUME BoundsAssumption ==
    /\ MaxAttempts \in Nat /\ MaxSpawns \in Nat /\ MaxBreaks \in Nat

(* Concurrency is a positive constant of the receiver. *)
ASSUME ConnsAssumption == Conns \in Nat \ {0}

VARIABLES
    core,       \* run's and runReceiver's step
    stopping,   \* the server's context is cancelled
    exposure,   \* the service's ingress state: starting, ready, unavailable
    receiver,   \* the process: none, restricting, proving, serving, exiting
    isolated,   \* its sandbox holds
    report,     \* its report, read by Core: none, ok, failed, permanent
    verdict,    \* the report is a failure that no retry fixes
    interrupted,\* its context is cancelled: interrupt sent, kill armed
    pool, idle, busy,   \* channel connections: not dialled, idle, carrying a request
    exhausted,  \* history: a receiver exited because its pool was empty
    broken,     \* connections of this receiver that broke
    spawns, breaks

receiverVars == <<receiver, isolated, report>>
channelVars == <<pool, idle, busy, exhausted, broken, breaks>>
ingressVars == <<core, stopping, exposure, receiverVars, verdict, interrupted, channelVars, spawns,
                 supVars>>

IngressTypeOK ==
    /\ SupTypeOK
    /\ core \in {"binding", "spawning", "waiting", "finishing", "exposing", "withdrawing",
                 "backoff", "returned"}
    /\ stopping \in BOOLEAN /\ exposure \in {"starting", "ready", "unavailable"}
    /\ receiver \in {"none", "restricting", "proving", "serving", "exiting"}
    /\ report \in {"none", "ok", "failed", "permanent"}
    /\ verdict \in BOOLEAN /\ interrupted \in BOOLEAN /\ isolated \in BOOLEAN
    /\ pool \in Nat /\ idle \in Nat /\ busy \in Nat /\ broken \in Nat
    /\ pool + idle + busy + broken = Conns
    /\ exhausted \in BOOLEAN /\ breaks \in 0 .. MaxBreaks
    /\ spawns \in 0 .. MaxSpawns

IngressInit ==
    /\ SupInit /\ core = "binding" /\ stopping = FALSE /\ exposure = "starting"
    /\ receiver = "none" /\ isolated = FALSE /\ report = "none" /\ verdict = FALSE
    /\ interrupted = FALSE
    /\ pool = Conns /\ idle = 0 /\ busy = 0 /\ exhausted = FALSE /\ broken = 0
    /\ spawns = 0 /\ breaks = 0

-----------------------------------------------------------------------------
(* Core.                                                                   *)

(* run, after runReceiver returned. *)
AfterReceiver(permanent) ==
    /\ core' = IF stopping \/ permanent THEN "returned" ELSE "backoff"
    /\ exposure' = IF permanent /\ ~stopping THEN "unavailable" ELSE "starting"

Bind ==
    /\ core = "binding"
    /\ \/ core' = "spawning" /\ UNCHANGED exposure
       \/ core' = "returned" /\ exposure' = "unavailable"
    /\ UNCHANGED <<stopping, receiverVars, verdict, interrupted, channelVars, spawns, supVars>>

(* A fresh channel and a child; neither starts under a cancelled context. *)
Spawn ==
    /\ core = "spawning" /\ UNCHANGED <<stopping, isolated, breaks, exhausted, supVars>>
    /\ \/ /\ ~stopping /\ spawns < MaxSpawns /\ spawns' = spawns + 1
          /\ core' = "waiting" /\ exposure' = "starting" /\ receiver' = "restricting"
          /\ report' = "none" /\ verdict' = FALSE /\ interrupted' = FALSE
          /\ pool' = Conns /\ idle' = 0 /\ busy' = 0 /\ broken' = 0
       \/ /\ AfterReceiver(FALSE)
          /\ UNCHANGED <<receiver, report, verdict, interrupted, pool, idle, busy, broken, spawns>>

(* Fault: the report is not looked into. *)
ProvenAny == TRUE

Proven == report = "ok"

(* The report's turn: exposure, or the end of a receiver that must not     *)
(* serve.                                                                  *)
TakeReport ==
    /\ core = "waiting" /\ report # "none"
    /\ IF Proven
       THEN /\ core' = "exposing" /\ exposure' = "starting" /\ StartSupervisor(stopping)
            /\ UNCHANGED <<verdict, interrupted>>
       ELSE /\ core' = "finishing" /\ verdict' = (report = "permanent") /\ interrupted' = TRUE
            /\ UNCHANGED <<exposure, supVars>>
    /\ UNCHANGED <<stopping, receiverVars, channelVars, spawns>>

(* The exit's turn, which select may prefer to a report that is there. *)
ExitedEarly ==
    /\ core = "waiting" /\ receiver = "none" /\ AfterReceiver(FALSE)
    /\ UNCHANGED <<stopping, receiverVars, verdict, interrupted, channelVars, spawns, supVars>>

ReadyTimeout ==
    /\ core = "waiting" /\ core' = "finishing" /\ interrupted' = TRUE
    /\ UNCHANGED <<stopping, exposure, receiverVars, verdict, channelVars, spawns, supVars>>

(* finish awaits the exit. *)
Finish ==
    /\ core = "finishing" /\ receiver = "none" /\ AfterReceiver(verdict)
    /\ UNCHANGED <<stopping, receiverVars, verdict, interrupted, channelVars, spawns, supVars>>

(* The receiver is gone: the exposure is withdrawn. *)
Withdraw ==
    /\ core = "exposing" /\ receiver = "none"
    /\ core' = "withdrawing" /\ CancelSupervisor
    /\ UNCHANGED <<stopping, exposure, receiverVars, verdict, interrupted, channelVars, spawns>>

(* funnel.Wait. *)
Withdrawn == Finished

Return ==
    /\ core = "withdrawing" /\ Withdrawn /\ AfterReceiver(FALSE)
    /\ UNCHANGED <<stopping, receiverVars, verdict, interrupted, channelVars, spawns, supVars>>

Retry ==
    /\ core = "backoff"
    /\ core' = IF stopping THEN "returned" ELSE "spawning"
    /\ UNCHANGED <<stopping, exposure, receiverVars, verdict, interrupted, channelVars, spawns,
                   supVars>>

(* The server stops: both contexts derive from its own. *)
Stop ==
    /\ ~stopping /\ stopping' = TRUE /\ interrupted' = TRUE
    /\ IF Finished THEN UNCHANGED supVars ELSE CancelSupervisor
    /\ UNCHANGED <<core, exposure, receiverVars, verdict, channelVars, spawns>>

(* observe: the supervisor's reports become the ingress state. *)
Supervise ==
    /\ SupNext
    /\ exposure' = IF told' = told /\ sup' = sup THEN exposure
                   ELSE IF told' = "serving" THEN "ready"
                   ELSE IF told' = "none" \/ (sup = "backoff" /\ sup' # sup) THEN exposure
                   ELSE "starting"
    /\ UNCHANGED <<core, stopping, receiverVars, verdict, interrupted, channelVars, spawns>>

-----------------------------------------------------------------------------
(* The receiver.                                                           *)

(* restrictAndExec: Landlock and no_new_privs, then the second stage. *)
RestrictAndExec ==
    /\ receiver = "restricting"
    /\ \/ receiver' = "proving" /\ isolated' \in BOOLEAN /\ UNCHANGED report
       \/ receiver' = "exiting" /\ report' \in {"failed", "permanent"} /\ UNCHANGED isolated
    /\ UNCHANGED <<core, stopping, exposure, verdict, interrupted, channelVars, spawns, supVars>>

(* Fault: an unexpected outcome of a probe passes. *)
SelfTestLenient == TRUE

(* Everything it must not do is refused by policy. *)
SelfTest == isolated

(* serve, up to its report. *)
Prove ==
    /\ receiver = "proving"
    /\ \/ SelfTest /\ receiver' = "serving" /\ report' = "ok"
       \/ SelfTest /\ receiver' = "exiting" /\ report' = "failed"
       \/ receiver' = "exiting" /\ report' = "permanent"
    /\ UNCHANGED <<core, stopping, exposure, isolated, verdict, interrupted, channelVars, spawns,
                   supVars>>

(* It exits: after a failed report, on the interrupt, or of its own. *)
ReceiverExits ==
    /\ receiver # "none" /\ receiver' = "none"
    /\ UNCHANGED <<core, stopping, exposure, isolated, report, verdict, interrupted, channelVars,
                   spawns, supVars>>

ReceiverKilled == interrupted /\ ReceiverExits

(* A request: one of Conns in flight; an idle connection, or one from the  *)
(* pool as long as fewer than Conns are open; an empty pool ends the       *)
(* receiver.                                                               *)
Forward ==
    /\ receiver = "serving" /\ busy < Conns
    /\ \/ /\ idle > 0 /\ idle' = idle - 1 /\ busy' = busy + 1
          /\ UNCHANGED <<pool, exhausted, receiver>>
       \/ /\ idle = 0 /\ idle + busy < Conns
          /\ IF pool = 0 THEN receiver' = "none" /\ exhausted' = TRUE /\ UNCHANGED <<pool, busy>>
             ELSE pool' = pool - 1 /\ busy' = busy + 1 /\ UNCHANGED <<receiver, exhausted>>
          /\ UNCHANGED idle
    /\ UNCHANGED <<core, stopping, exposure, isolated, report, verdict, interrupted, broken, breaks,
                   spawns, supVars>>

(* Fault: the transport keeps its default of two idle connections. *)
KeepsIdleDefault == idle < 2

(* MaxIdleConnsPerHost is the whole channel. *)
KeepsIdle == idle < Conns

Answered ==
    /\ receiver = "serving" /\ busy > 0 /\ busy' = busy - 1
    /\ IF KeepsIdle THEN idle' = idle + 1 /\ UNCHANGED broken
                    ELSE broken' = broken + 1 /\ UNCHANGED idle
    /\ UNCHANGED <<core, stopping, exposure, receiverVars, verdict, interrupted, pool, exhausted,
                   breaks, spawns, supVars>>

(* A request that times out takes its connection with it. *)
Break ==
    /\ receiver = "serving" /\ busy > 0 /\ breaks < MaxBreaks
    /\ busy' = busy - 1 /\ broken' = broken + 1 /\ breaks' = breaks + 1
    /\ UNCHANGED <<core, stopping, exposure, receiverVars, verdict, interrupted, pool, idle,
                   exhausted, spawns, supVars>>

IngressNext ==
    \/ Bind \/ Spawn \/ TakeReport \/ ExitedEarly \/ ReadyTimeout \/ Finish \/ Withdraw \/ Return
    \/ Retry \/ Stop \/ Supervise
    \/ RestrictAndExec \/ Prove \/ ReceiverExits \/ Forward \/ Answered \/ Break

IngressSpec == IngressInit /\ [][IngressNext]_ingressVars

(* What the supervisor does without a peer. *)
SupervisorGoesOn == Supervise /\ (Preflight \/ Exited \/ Backoff \/ ChildKilled)

(* Goroutines run, and an interrupted child is killed after WaitDelay. *)
IngressFairSpec ==
    /\ IngressSpec
    /\ WF_ingressVars(Bind) /\ WF_ingressVars(Spawn) /\ WF_ingressVars(ReadyTimeout)
    /\ WF_ingressVars(ExitedEarly)
    /\ WF_ingressVars(Finish) /\ WF_ingressVars(Withdraw) /\ WF_ingressVars(Return)
    /\ WF_ingressVars(Retry) /\ WF_ingressVars(ReceiverKilled)
    /\ WF_ingressVars(SupervisorGoesOn)

-----------------------------------------------------------------------------
(* Properties.                                                             *)

(***************************************************************************)
(* The internet reaches only an isolated receiver: while a route exists,   *)
(* or the status says so, the receiver behind it proved its isolation and  *)
(* had it, whatever its sandbox turned out to be, or it is gone and the    *)
(* withdrawal under way (ingress.go: "the receiver must prove its          *)
(* isolation ... before exposure is established, and exposure is withdrawn *)
(* the moment the receiver is gone").                                      *)
(***************************************************************************)
ExposedIsolated ==
    (Exposed \/ exposure = "ready") =>
        /\ core \in {"exposing", "withdrawing"}
        /\ receiver \in {"serving", "none"} /\ isolated

(***************************************************************************)
(* A receiver without isolation never serves, exposed or not (selfTest:    *)
(* "an unrestricted receiver never serves").                               *)
(***************************************************************************)
ServesIsolated == receiver = "serving" => isolated

(***************************************************************************)
(* A receiver runs out of connections only after one of them broke: the    *)
(* transport's bounds and the in-flight bound agree with the pool's size   *)
(* (channelPool: "The pool is the whole budget").                          *)
(***************************************************************************)
ExhaustedOnlyBroken == exhausted => breaks > 0

(***************************************************************************)
(* What is reachable from outside is up and isolated: the internet reaches *)
(* only a receiver that proved its isolation and had it, one without never *)
(* serves, and it runs out of connections only when one broke (runReceiver, *)
(* selfTest, channelPool).                                                 *)
(***************************************************************************)
ExposureSound ==
    /\ IngressTypeOK
    /\ ExposedIsolated
    /\ ServesIsolated
    /\ ExhaustedOnlyBroken

(***************************************************************************)
(* A stopped server's ingress returns with neither child left, though both *)
(* may ignore the interrupt (runReceiver, Supervisor.Run).                 *)
(***************************************************************************)
Stopping == stopping
Stopped == core = "returned" /\ receiver = "none" /\ child = "none"
IngressStops == Stopping ~> Stopped

-----------------------------------------------------------------------------
(* Proof. The supervisor is under way only while Core is exposing or       *)
(* withdrawing, its child only while the supervisor attends it, and Core   *)
(* comes there by a report that only a serving receiver with its isolation *)
(* makes; a connection that is in none of its three places broke.          *)

SupervisorSound ==
    /\ child # "none" => sup \in {"launching", "giving_up", "serving"}
    /\ Finished \/ core \in {"exposing", "withdrawing"}

ReceiverSound ==
    /\ receiver \in {"restricting", "proving"} => report = "none"
    /\ report = "ok" => receiver \in {"serving", "none"} /\ isolated
    /\ core \in {"exposing", "withdrawing"} => report = "ok"
    /\ exposure = "ready" => core \in {"exposing", "withdrawing"}

PoolSound == (broken > 0 \/ exhausted) => breaks > 0

IngressInv ==
    /\ IngressTypeOK
    /\ SupervisorSound
    /\ ReceiverSound
    /\ ServesIsolated
    /\ PoolSound

(* The types, the truth values and the rest of them apart. *)
Flags == {cancelled, stopping, verdict, interrupted, isolated, exhausted} \subseteq BOOLEAN

PlainTypes ==
    /\ sup \in {"off", "preflight", "launching", "giving_up", "serving", "backoff", "ended"}
    /\ child \in {"none", "starting", "exposed"} /\ signalled \in {"no", "asked", "armed"}
    /\ told \in {"none", "serving", "problem", "stopped"} /\ attempts \in 0 .. MaxAttempts
    /\ core \in {"binding", "spawning", "waiting", "finishing", "exposing", "withdrawing",
                 "backoff", "returned"}
    /\ exposure \in {"starting", "ready", "unavailable"}
    /\ receiver \in {"none", "restricting", "proving", "serving", "exiting"}
    /\ report \in {"none", "ok", "failed", "permanent"}
    /\ pool \in Nat /\ idle \in Nat /\ busy \in Nat /\ broken \in Nat
    /\ pool + idle + busy + broken = Conns
    /\ breaks \in 0 .. MaxBreaks /\ spawns \in 0 .. MaxSpawns

LEMMA TypesApart == IngressTypeOK <=> Flags /\ PlainTypes
  BY DEF IngressTypeOK, SupTypeOK, Flags, PlainTypes

(* What the supervisor does of its own keeps its types, leaves what its    *)
(* owner says to it alone, and only happens while it is under way.         *)
LEMMA SupervisorSteps ==
    ASSUME SupTypeOK, SupNext, child # "none" => sup \in {"launching", "giving_up", "serving"}
    PROVE  /\ SupTypeOK'
           /\ (child # "none" => sup \in {"launching", "giving_up", "serving"})'
           /\ ~Finished
  <1> USE BoundsAssumption DEF BoundsAssumption, SupTypeOK, Finished
  <1>1. CASE Preflight
    BY <1>1 DEF Preflight, Ended
  <1>2. CASE Expose
    BY <1>2 DEF Expose
  <1>3. CASE SeesBanner
    BY <1>3 DEF SeesBanner
  <1>4. CASE BannerTimeout
    BY <1>4 DEF BannerTimeout, GiveUpSignal
  <1>5. CASE ChildExits \/ ChildKilled
    BY <1>5 DEF ChildExits, ChildKilled
  <1>6. CASE Exited
    BY <1>6 DEF Exited, Ended
  <1>7. CASE Backoff
    BY <1>7 DEF Backoff
  <1> QED
    BY <1>1, <1>2, <1>3, <1>4, <1>5, <1>6, <1>7 DEF SupNext

(* The state described holds at the start.                                 *)
LEMMA IngressStarts == IngressInit => IngressInv
  <1> SUFFICES ASSUME IngressInit PROVE IngressInv
    OBVIOUS
  <1> USE BoundsAssumption, ConnsAssumption DEF BoundsAssumption, ConnsAssumption, IngressInit, SupInit
  <1>1. Flags
    BY DEF Flags
  <1>2. PlainTypes
    BY DEF PlainTypes
  <1>3. SupervisorSound /\ ReceiverSound /\ ServesIsolated /\ PoolSound
    BY DEF SupervisorSound, ReceiverSound, ServesIsolated, PoolSound, Finished
  <1> QED
    BY <1>1, <1>2, <1>3, TypesApart DEF IngressInv

(* Core's steps before a receiver is exposed and after it is not: nothing  *)
(* starts the supervisor, and a fresh receiver has reported nothing.       *)
LEMMA CoreSteps ==
    ASSUME IngressInv,
           Bind \/ Spawn \/ ExitedEarly \/ ReadyTimeout \/ Finish \/ Return \/ Retry
    PROVE  IngressInv'
  <1> USE BoundsAssumption, ConnsAssumption
      DEF BoundsAssumption, ConnsAssumption, IngressInv, IngressTypeOK, SupTypeOK, SupervisorSound,
          ReceiverSound, ServesIsolated, PoolSound, Finished, supVars, receiverVars, channelVars, AfterReceiver
  <1>1. CASE Bind
    BY <1>1 DEF Bind
  <1>2. CASE Spawn
    <2>1. IngressTypeOK'
      <3>1. Flags'
        BY <1>2 DEF Spawn, Flags
      <3>2. PlainTypes'
        BY <1>2 DEF Spawn, PlainTypes
      <3> QED
        BY <3>1, <3>2 DEF Flags, PlainTypes
    <2>2. SupervisorSound'
      BY <1>2 DEF Spawn
    <2>3. ReceiverSound'
      BY <1>2 DEF Spawn
    <2>4. ServesIsolated'
      BY <1>2 DEF Spawn
    <2>5. PoolSound'
      BY <1>2 DEF Spawn
    <2> QED
      BY <2>1, <2>2, <2>3, <2>4, <2>5
  <1>3. CASE ExitedEarly
    BY <1>3 DEF ExitedEarly
  <1>4. CASE ReadyTimeout
    BY <1>4 DEF ReadyTimeout
  <1>5. CASE Finish
    BY <1>5 DEF Finish
  <1>6. CASE Return
    BY <1>6 DEF Return, Withdrawn
  <1>7. CASE Retry
    BY <1>7 DEF Retry
  <1> QED
    BY <1>1, <1>2, <1>3, <1>4, <1>5, <1>6, <1>7

(* Core's dealings with the supervisor: it is started on a report of       *)
(* success, cancelled when the receiver is gone or the server stops.       *)
LEMMA ExposureSteps ==
    ASSUME IngressInv, TakeReport \/ Withdraw \/ Stop \/ Supervise
    PROVE  IngressInv'
  <1> USE BoundsAssumption, ConnsAssumption
      DEF BoundsAssumption, ConnsAssumption, IngressInv, IngressTypeOK, SupTypeOK, SupervisorSound,
          ReceiverSound, ServesIsolated, PoolSound, Finished, supVars, receiverVars, channelVars
  <1>1. CASE TakeReport
    <2>1. IngressTypeOK'
      <3>1. Flags'
        BY <1>1 DEF TakeReport, Proven, StartSupervisor, Flags
      <3>2. PlainTypes'
        BY <1>1 DEF TakeReport, Proven, StartSupervisor, PlainTypes
      <3> QED
        BY <3>1, <3>2 DEF Flags, PlainTypes
    <2>2. SupervisorSound'
      BY <1>1 DEF TakeReport, Proven, StartSupervisor
    <2>3. ReceiverSound'
      BY <1>1 DEF TakeReport, Proven, StartSupervisor
    <2>4. ServesIsolated'
      BY <1>1 DEF TakeReport, Proven, StartSupervisor
    <2>5. PoolSound'
      BY <1>1 DEF TakeReport, Proven, StartSupervisor
    <2> QED
      BY <2>1, <2>2, <2>3, <2>4, <2>5
  <1>2. CASE Withdraw
    BY <1>2 DEF Withdraw, CancelSupervisor
  <1>3. CASE Stop
    <2>1. IngressTypeOK'
      <3>1. Flags'
        BY <1>3 DEF Stop, CancelSupervisor, Flags
      <3>2. PlainTypes'
        BY <1>3 DEF Stop, CancelSupervisor, PlainTypes
      <3> QED
        BY <3>1, <3>2 DEF Flags, PlainTypes
    <2>2. SupervisorSound'
      BY <1>3 DEF Stop, CancelSupervisor
    <2>3. ReceiverSound'
      BY <1>3 DEF Stop, CancelSupervisor
    <2>4. ServesIsolated'
      BY <1>3 DEF Stop, CancelSupervisor
    <2>5. PoolSound'
      BY <1>3 DEF Stop, CancelSupervisor
    <2> QED
      BY <2>1, <2>2, <2>3, <2>4, <2>5
  <1>4. CASE Supervise
    <2>1. SupNext /\ ~Finished /\ SupTypeOK'
          /\ (child # "none" => sup \in {"launching", "giving_up", "serving"})'
      BY <1>4, SupervisorSteps DEF Supervise
    <2> QED
      BY <1>4, <2>1 DEF Supervise
  <1> QED
    BY <1>1, <1>2, <1>3, <1>4

(* The receiver's steps: it reports success, and serves, only isolated,    *)
(* and finds the pool empty only when a connection broke.                  *)
LEMMA ReceiverSteps ==
    ASSUME IngressInv, RestrictAndExec \/ Prove \/ ReceiverExits \/ Forward \/ Answered \/ Break
    PROVE  IngressInv'
  <1> USE BoundsAssumption, ConnsAssumption
      DEF BoundsAssumption, ConnsAssumption, IngressInv, IngressTypeOK, SupTypeOK, SupervisorSound,
          ReceiverSound, ServesIsolated, PoolSound, Finished, supVars, receiverVars, channelVars
  <1>1. CASE RestrictAndExec
    BY <1>1 DEF RestrictAndExec
  <1>2. CASE Prove
    BY <1>2 DEF Prove, SelfTest
  <1>3. CASE ReceiverExits
    BY <1>3 DEF ReceiverExits
  <1>4. CASE Forward
    <2>1. IngressTypeOK'
      <3>1. Flags'
        BY <1>4 DEF Forward, Flags
      <3>2. PlainTypes'
        BY <1>4 DEF Forward, PlainTypes
      <3> QED
        BY <3>1, <3>2 DEF Flags, PlainTypes
    <2>2. SupervisorSound'
      BY <1>4 DEF Forward
    <2>3. ReceiverSound'
      BY <1>4 DEF Forward
    <2>4. ServesIsolated'
      BY <1>4 DEF Forward
    <2>5. PoolSound'
      BY <1>4 DEF Forward
    <2> QED
      BY <2>1, <2>2, <2>3, <2>4, <2>5
  <1>5. CASE Answered
    BY <1>5 DEF Answered, KeepsIdle
  <1>6. CASE Break
    BY <1>6 DEF Break
  <1> QED
    BY <1>1, <1>2, <1>3, <1>4, <1>5, <1>6

(* Every step keeps the invariant.                                         *)
LEMMA IngressSteps == IngressInv /\ [IngressNext]_ingressVars => IngressInv'
  <1> SUFFICES ASSUME IngressInv, [IngressNext]_ingressVars PROVE IngressInv'
    OBVIOUS
  <1>1. CASE UNCHANGED ingressVars
    BY <1>1 DEF ingressVars, supVars, receiverVars, channelVars, IngressInv, IngressTypeOK, SupTypeOK,
        SupervisorSound, ReceiverSound, ServesIsolated, PoolSound, Finished
  <1>2. CASE IngressNext
    BY <1>2, CoreSteps, ExposureSteps, ReceiverSteps DEF IngressNext
  <1> QED
    BY <1>1, <1>2

(***************************************************************************)
(* The ingress exposes and serves only what is isolated, whatever its      *)
(* sandbox, its supervisor's child and its requests do: for any number of  *)
(* connections, receivers and attempts (runReceiver, selfTest,             *)
(* channelPool).                                                           *)
(***************************************************************************)
THEOREM ExposesIsolated == IngressSpec => []ExposureSound
  <1>1. IngressInv => ExposureSound
    BY DEF IngressInv, ExposureSound, SupervisorSound, ReceiverSound, ServesIsolated, PoolSound,
        ExposedIsolated, ExhaustedOnlyBroken, Exposed, Finished, IngressTypeOK, SupTypeOK
  <1> QED
    BY <1>1, IngressStarts, IngressSteps, PTL DEF IngressSpec
=============================================================================
