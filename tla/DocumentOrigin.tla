--------------------------- MODULE DocumentOrigin ---------------------------
(***************************************************************************)
(* The document origin's lifecycle (internal/documents/documents.go): a    *)
(* listener, retried with backoff, and a tailnet exposure supervised only  *)
(* while the listener is up.                                               *)
(***************************************************************************)
EXTENDS TailscaleSupervisor

CONSTANT MaxBinds   \* bound: listeners bound

VARIABLES
    run,        \* binding, serving, closing, backoff, returned
    listening,  \* the listener accepts
    stopping,   \* the server's context is cancelled
    origin,     \* the reported state: starting, ready, unavailable
    tailnet,    \* the reported exposure: starting, ready
    binds

originVars == <<run, listening, stopping, origin, tailnet, binds, supVars>>
lifeVars == <<run, listening, stopping, origin, binds>>

TypeOK ==
    /\ SupTypeOK /\ run \in {"binding", "serving", "closing", "backoff", "returned"}
    /\ listening \in BOOLEAN /\ stopping \in BOOLEAN
    /\ origin \in {"starting", "ready", "unavailable"} /\ tailnet \in {"starting", "ready"}
    /\ binds \in 0 .. MaxBinds

Init ==
    /\ SupInit /\ run = "binding" /\ listening = FALSE /\ stopping = FALSE
    /\ origin = "starting" /\ tailnet = "starting" /\ binds = 0

(* Run, after serve returned: stopped, or unavailable until the next bind. *)
AfterServe ==
    IF stopping THEN run' = "returned" /\ origin' = "starting"
                ELSE run' = "backoff" /\ origin' = "unavailable"

Bind ==
    /\ run = "binding" /\ UNCHANGED stopping
    /\ \/ /\ binds < MaxBinds /\ binds' = binds + 1
          /\ run' = "serving" /\ listening' = TRUE /\ origin' = "ready" /\ StartSupervisor(stopping)
       \/ AfterServe /\ UNCHANGED <<listening, binds, supVars>>
    /\ UNCHANGED tailnet

(* The listener fails, or the server stops: the exposure is cancelled. *)
Close ==
    /\ run = "serving" /\ run' = "closing" /\ listening' = FALSE
    /\ CancelSupervisor
    /\ UNCHANGED <<stopping, origin, tailnet, binds>>

(* Fault: the exposure is not waited for. *)
ClosedAtOnce == TRUE

(* exposure.Wait: the child is reaped before serve returns. *)
Closed == Finished

Return ==
    /\ run = "closing" /\ Closed /\ AfterServe
    /\ UNCHANGED <<listening, stopping, tailnet, binds, supVars>>

Retry ==
    /\ run = "backoff"
    /\ run' = IF stopping THEN "returned" ELSE "binding"
    /\ UNCHANGED <<listening, stopping, origin, tailnet, binds, supVars>>

(* The exposure's context derives from the server's. *)
Stop ==
    /\ ~stopping /\ stopping' = TRUE
    /\ IF Finished THEN UNCHANGED supVars ELSE CancelSupervisor
    /\ UNCHANGED <<run, listening, origin, tailnet, binds>>

(* Every report of the supervisor becomes the tailnet status. *)
Supervise ==
    /\ SupNext
    /\ tailnet' = IF told' = "serving" THEN "ready" ELSE IF told' = "none" THEN tailnet ELSE "starting"
    /\ UNCHANGED lifeVars

Next == Bind \/ Close \/ Return \/ Retry \/ Stop \/ Supervise

Spec == Init /\ [][Next]_originVars

Closes == Close /\ stopping

(* What the supervisor does without a peer. *)
SupervisorGoesOn == Supervise /\ (Preflight \/ Exited \/ Backoff \/ ChildKilled)

(* Goroutines run, a cancelled child is killed, and a stop ends the listener. *)
FairSpec ==
    /\ Spec
    /\ WF_originVars(Return) /\ WF_originVars(Retry) /\ WF_originVars(Bind)
    /\ WF_originVars(Closes)
    /\ WF_originVars(SupervisorGoesOn)

(***************************************************************************)
(* The tailnet never reaches an origin that is not up: a route exists, and *)
(* is reported ready, only while the listener that it leads to is bound or *)
(* its teardown is under way (Run: "the tailnet exposure supervised only   *)
(* while the listener is up, and both torn down before it returns").       *)
(***************************************************************************)
RouteBehindListener ==
    run \notin {"serving", "closing"} => ~Exposed /\ tailnet # "ready"

(***************************************************************************)
(* A stopped server's Run returns, its child gone, whatever the child does *)
(* with an interrupt (serve, Supervisor.Run).                              *)
(***************************************************************************)
Stopping == stopping
Stopped == run = "returned" /\ child = "none"
OriginStops == Stopping ~> Stopped

(***************************************************************************)
(* A child that never prints its banner does not end the retries: the      *)
(* attempt is given up and the supervisor goes on, though the child may    *)
(* ignore the interrupt (Supervisor.serve).                                *)
(***************************************************************************)
GivesUp == sup = "giving_up"
GoesOn == sup \in {"backoff", "ended"}
RetriesGoOn == GivesUp ~> GoesOn
=============================================================================
