---------------------------- MODULE ServerProcess ---------------------------
(***************************************************************************)
(* One run of `atc server run` (cmd/atc/main.go, server.Serve): the boot,  *)
(* in the order in which it builds what the parts need of each other, the  *)
(* loops and requests that use them, and the stop that takes it all down   *)
(* again.  The API's tailnet exposure is supervised next to it.            *)
(***************************************************************************)
EXTENDS TailscaleSupervisor

CONSTANTS
    Loops,      \* the background goroutines
    Requests    \* calls of the API, event streams and hooks included

VARIABLES
    platform,   \* "linux", or "other"
    stage,      \* where the command is: a step of boot, serving, or one of the stop
    ready,      \* what boot has set up, and from what
    database,   \* closed, open
    listener,   \* none, bound, serving, closed
    tailscale,  \* the exposure is configured
    interrupted, \* the command's context is cancelled
    failed,     \* Serve returned an error of the listener
    stopped,    \* stopLoop was called
    loop,       \* of each loop: off, waiting, passing, ended
    request     \* of each request: none, queued, active, over

setup == <<platform, ready, tailscale>>
ends == <<interrupted, failed, stopped>>
ownVars == <<stage, setup, database, listener, ends, loop, request>>
serverVars == <<supVars, ownVars>>

BootSteps == {"config", "token", "store", "terminals", "reconcile", "threads", "listen", "hooks",
              "integrations", "coordinator", "webhooks", "artifacts", "loops"}

(* origins: the API and the documents are configured as one or as two;     *)
(* terminals: the view is empty, as the rows have it, or reconciled with   *)
(* what runs; threads: likewise the view their statuses were coerced by;   *)
(* hooks: whether the launches' settings name a port that is bound;        *)
(* linear: whether the starter it was handed has its coordinator.          *)
Setup == [origins : {"none", "one", "two"}, token : BOOLEAN, terminals : {"none", "rows", "settled"},
          threads : {"none", "rows", "settled"}, hooks : {"none", "portless", "bound"},
          linear : {"none", "unbound", "bound"}, catalog : BOOLEAN, webhooks : BOOLEAN,
          artifacts : BOOLEAN]
Nothing == [origins |-> "none", token |-> FALSE, terminals |-> "none", threads |-> "none", hooks |-> "none",
            linear |-> "none", catalog |-> FALSE, webhooks |-> FALSE, artifacts |-> FALSE]
Everything == [origins |-> "two", token |-> TRUE, terminals |-> "settled", threads |-> "settled", hooks |-> "bound",
               linear |-> "bound", catalog |-> TRUE, webhooks |-> TRUE, artifacts |-> TRUE]

TypeOK ==
    /\ SupTypeOK
    /\ stage \in BootSteps \cup {"serve", "serving", "draining", "stopping", "exposure", "closed",
                               "exited", "killed"}
    /\ platform \in {"linux", "other"} /\ ready \in Setup /\ database \in {"closed", "open"}
    /\ listener \in {"none", "bound", "serving", "closed"}
    /\ {tailscale, interrupted, failed, stopped} \subseteq BOOLEAN
    /\ loop \in [Loops -> {"off", "waiting", "passing", "ended"}]
    /\ request \in [Requests -> {"none", "queued", "active", "over"}]

Init ==
    /\ SupInit
    /\ platform \in {"linux", "other"} /\ stage = "config" /\ ready = Nothing /\ database = "closed" /\ listener = "none"
    /\ tailscale = FALSE /\ interrupted = FALSE /\ failed = FALSE /\ stopped = FALSE
    /\ loop = [l \in Loops |-> "off"] /\ request = [r \in Requests |-> "none"]

Gone == stage \in {"exited", "killed"}

-----------------------------------------------------------------------------
(* Boot.                                                                   *)

(* A boot step sets its part up and goes on to the next. *)
Boot(step, next, built) ==
    /\ stage = step /\ stage' = next /\ ready' = built
    /\ UNCHANGED <<supVars, platform, ends, request>>

Quietly == UNCHANGED <<tailscale, database, listener, loop>>

(* The keys that matter here; a layer sets some of them.                   *)
Ports == {"api", "documents", "other"}
Layers == [port : Ports \cup {"unset"}, documents : Ports \cup {"unset"},
           tailscale : {"unset", "off", "on"}]

Default == [port |-> "api", documents |-> "documents", tailscale |-> "off"]

Overlay(cfg, layer) ==
    [key \in DOMAIN cfg |-> IF layer[key] = "unset" THEN cfg[key] ELSE layer[key]]

Validate(cfg) == cfg.port # cfg.documents

(* The file over the defaults, and the environment over the file.          *)
Load(file, env) == Overlay(Overlay(Default, file), env)

(* Fault: only the loaded configuration is validated. *)
RevalidateNothing(cfg) == TRUE

(* Flags apply above the package, so what they make of it is checked, too. *)
Revalidate(cfg) == Validate(cfg)

(* The flags over what was loaded; what is refused at either check fails   *)
(* the boot.                                                               *)
Loaded == {cfg \in {Load(file, env) : file, env \in Layers} : Validate(cfg)}
Configurations ==
    {cfg \in {Overlay(loaded, flags) : loaded \in Loaded, flags \in Layers} : Revalidate(cfg)}

(* An exposure whose executable is missing fails the boot, too. *)
Configure ==
    /\ stage = "config"
    /\ \E cfg \in Configurations :
        /\ Boot("config", "token",
                [ready EXCEPT !.origins = IF cfg.port = cfg.documents THEN "one" ELSE "two"])
        /\ tailscale' = (cfg.tailscale = "on")
    /\ UNCHANGED <<database, listener, loop>>

EnsureToken == Boot("token", "store", [ready EXCEPT !.token = TRUE]) /\ Quietly

(* Opened and migrated before anything is read from it. *)
OpenStore ==
    /\ Boot("store", "terminals", ready)
    /\ database' = "open" /\ UNCHANGED <<tailscale, listener, loop>>

LoadTerminals ==
    Boot("terminals", "reconcile", [ready EXCEPT !.terminals = "rows"]) /\ Quietly

(* One pass before the listener exists. *)
FirstReconcile ==
    Boot("reconcile", "threads", [ready EXCEPT !.terminals = "settled"]) /\ Quietly

(* The statuses are coerced by the terminals' view as it is now. *)
LoadThreads ==
    Boot("threads", "listen", [ready EXCEPT !.threads = ready.terminals]) /\ Quietly

(* Bound early, since every launch's settings name the port. *)
Listen ==
    /\ Boot("listen", "hooks", ready)
    /\ listener' = "bound" /\ UNCHANGED <<tailscale, database, loop>>

(* The registrations of earlier processes, and the address for new ones. *)
LoadHooks ==
    /\ Boot("hooks", "integrations",
            [ready EXCEPT !.hooks = IF listener = "none" THEN "portless" ELSE "bound"])
    /\ Quietly

(* Codex, T3 Code, Linear and the catalog; Linear gets a starter without a *)
(* coordinator and a closure over an ingress that does not exist yet.      *)
WireIntegrations ==
    /\ Boot("integrations", "coordinator",
            [ready EXCEPT !.linear = "unbound", !.catalog = TRUE])
    /\ Quietly

(* The coordinator exists, over the catalog, and the starter gets it. *)
BindStarter == Boot("coordinator", "webhooks", [ready EXCEPT !.linear = "bound"]) /\ Quietly

(* The inbox and its routes, Linear's; the closure has its ingress. *)
WireWebhooks == Boot("webhooks", "artifacts", [ready EXCEPT !.webhooks = TRUE]) /\ Quietly

(* The content directories are reconciled with the rows; the origin and    *)
(* the handler over all of it.                                             *)
OpenArtifacts == Boot("artifacts", "loops", [ready EXCEPT !.artifacts = TRUE]) /\ Quietly

StartLoops ==
    /\ Boot("loops", "serve", ready)
    /\ loop' = [l \in Loops |-> "waiting"] /\ UNCHANGED <<tailscale, database, listener>>

(* What ends with the process: connections that nobody answers any more. *)
Hangup == [r \in Requests |-> IF request[r] = "none" THEN "none" ELSE "over"]

(* A step returns its error, the cancellation of its context among them;   *)
(* the deferred close runs and the process ends.                           *)
BootFails ==
    /\ stage \in BootSteps \ {"reconcile", "coordinator", "loops"}
    /\ stage' = "exited" /\ database' = "closed" /\ listener' = "closed" /\ request' = Hangup
    /\ UNCHANGED <<supVars, setup, ends, loop>>

-----------------------------------------------------------------------------
(* Serving.                                                                *)

(* The exposure is supervised under the command's context, not the loops'. *)
Serve ==
    /\ stage = "serve" /\ stage' = "serving" /\ listener' = "serving"
    /\ IF tailscale THEN StartSupervisor(interrupted) ELSE UNCHANGED supVars
    /\ UNCHANGED <<setup, database, ends, loop, request>>

(* A client connects: the kernel queues it from the bind on. *)
Connect(r) ==
    /\ request[r] = "none" /\ listener \in {"bound", "serving"} /\ ~Gone
    /\ request' = [request EXCEPT ![r] = "queued"]
    /\ UNCHANGED <<supVars, stage, setup, database, listener, ends, loop>>

(* Fault: the listener is served from its bind on. *)
AcceptingBound == listener \in {"bound", "serving"} /\ ~Gone
Accepting == listener = "serving"

Handle(r) ==
    /\ request[r] = "queued" /\ Accepting
    /\ request' = [request EXCEPT ![r] = "active"]
    /\ UNCHANGED <<supVars, stage, setup, database, listener, ends, loop>>

Respond(r) ==
    /\ request[r] = "active" /\ ~Gone /\ request' = [request EXCEPT ![r] = "over"]
    /\ UNCHANGED <<supVars, stage, setup, database, listener, ends, loop>>

LoopsCancelled == interrupted \/ stopped

LoopBegins(l) ==
    /\ loop[l] = "waiting" /\ loop' = [loop EXCEPT ![l] = "passing"]
    /\ UNCHANGED <<supVars, stage, setup, database, listener, ends, request>>

LoopPasses(l) ==
    /\ loop[l] = "passing" /\ loop' = [loop EXCEPT ![l] = "waiting"]
    /\ UNCHANGED <<supVars, stage, setup, database, listener, ends, request>>

LoopEnds(l) ==
    /\ loop[l] = "waiting" /\ LoopsCancelled /\ loop' = [loop EXCEPT ![l] = "ended"]
    /\ UNCHANGED <<supVars, stage, setup, database, listener, ends, request>>

Supervise == SupNext /\ ~Gone /\ UNCHANGED ownVars

-----------------------------------------------------------------------------
(* Stopping.                                                               *)

(* The first signal cancels the command's context and all that derive.     *)
Signal ==
    /\ ~interrupted /\ ~Gone /\ interrupted' = TRUE
    /\ IF Finished THEN UNCHANGED supVars ELSE CancelSupervisor
    /\ UNCHANGED <<stage, setup, database, listener, failed, stopped, loop, request>>

(* childAttr: the kernel ends the child with its parent, on Linux only. *)
DiesWithParent == platform = "linux"

(* The second one has its default action: the process is gone. *)
SecondSignal ==
    /\ interrupted /\ ~Gone /\ stage' = "killed" /\ database' = "closed" /\ listener' = "closed"
    /\ loop' = [l \in Loops |-> "off"] /\ request' = Hangup
    /\ sup' = "off" /\ child' = (IF DiesWithParent THEN "none" ELSE child)
    /\ UNCHANGED <<signalled, cancelled, told, attempts>>
    /\ UNCHANGED <<setup, ends>>

(* Serve's error is returned at once: its requests go on. *)
ServeFails ==
    /\ stage = "serving" /\ stage' = "stopping" /\ failed' = TRUE /\ listener' = "closed"
    /\ request' = [r \in Requests |-> IF request[r] = "queued" THEN "over" ELSE request[r]]
    /\ UNCHANGED <<supVars, setup, database, interrupted, stopped, loop>>

(* Shutdown closes the listener and waits for the requests. *)
Shutdown ==
    /\ stage = "serving" /\ interrupted /\ stage' = "draining" /\ listener' = "closed"
    /\ request' = [r \in Requests |-> IF request[r] = "queued" THEN "over" ELSE request[r]]
    /\ UNCHANGED <<supVars, setup, database, interrupted, failed, stopped, loop>>

(* ... as long as its five seconds last: an event stream never ends.       *)
DrainEnds ==
    /\ stage = "draining" /\ stage' = "stopping"
    /\ UNCHANGED <<supVars, setup, database, listener, ends, loop, request>>

(* Fault: the loops are cancelled and not waited for. *)
BackgroundDoneCancelled == stopped
BackgroundDone == \A l \in Loops : loop[l] = "ended"

StopLoop ==
    /\ stage = "stopping" /\ ~stopped /\ stopped' = TRUE
    /\ UNCHANGED <<supVars, stage, setup, database, listener, interrupted, failed, loop, request>>

BackgroundWait ==
    /\ stage = "stopping" /\ stopped /\ BackgroundDone /\ stage' = "exposure"
    /\ UNCHANGED <<supVars, setup, database, listener, ends, loop, request>>

(* Fault: the exposure is left to the end of the process. *)
ExposureDoneAtOnce == TRUE
ExposureDone == Finished

(* exposure.Wait, and the deferred close. *)
CloseDatabase ==
    /\ stage = "exposure" /\ ExposureDone
    /\ stage' = "closed" /\ database' = "closed"
    /\ UNCHANGED <<supVars, setup, listener, ends, loop, request>>

Return ==
    /\ stage = "closed" /\ stage' = "exited" /\ request' = Hangup
    /\ UNCHANGED <<supVars, setup, database, listener, ends, loop>>

BootStep ==
    \/ Configure \/ EnsureToken \/ OpenStore \/ LoadTerminals \/ FirstReconcile \/ LoadThreads
    \/ Listen \/ LoadHooks \/ WireIntegrations \/ BindStarter \/ WireWebhooks \/ OpenArtifacts
    \/ StartLoops

StopStep == Shutdown \/ DrainEnds \/ StopLoop \/ BackgroundWait \/ CloseDatabase \/ Return

Next ==
    \/ BootStep \/ BootFails \/ Serve \/ StopStep \/ ServeFails \/ Signal \/ SecondSignal
    \/ Supervise
    \/ \E r \in Requests : Connect(r) \/ Handle(r) \/ Respond(r)
    \/ \E l \in Loops : LoopBegins(l) \/ LoopPasses(l) \/ LoopEnds(l)

Spec == Init /\ [][Next]_serverVars

(* What the supervisor does without a peer. *)
SupervisorGoesOn == Supervise /\ (Preflight \/ Exited \/ Backoff \/ ChildKilled)

-----------------------------------------------------------------------------
(* Properties.                                                             *)

(***************************************************************************)
(* Nothing is used before boot has built it or after the stop took it      *)
(* away: a pass, and a request whatever it asks, a hook of an earlier run  *)
(* that was waiting at the bound port included, finds everything set up    *)
(* ("no request ever observes pre-reconcile state"; "the binding lands     *)
(* before any loop runs"); and a pass never meets the closed database      *)
(* ("shutdown never races an in-flight pass against it"), nor a request    *)
(* but one that outlived its drain.                                        *)
(***************************************************************************)
UsesWhatIsUp ==
    /\ \A l \in Loops : loop[l] = "passing" => ready = Everything /\ database = "open"
    /\ \A r \in Requests : request[r] = "active" =>
           ready = Everything /\ (database = "open" \/ listener = "closed")

(***************************************************************************)
(* A process that has ended leaves no exposure behind, and no loop in the  *)
(* middle of a pass ("waited on so shutdown reaps the serve child before   *)
(* the process exits") -- but for the child of a process that was killed   *)
(* elsewhere than on Linux ("other platforms rely on the                   *)
(* interrupt-then-kill teardown alone").                                   *)
(***************************************************************************)
LeavesNothing ==
    Gone =>
        /\ child = "none" \/ (platform = "other" /\ stage = "killed")
        /\ \A l \in Loops : loop[l] \in {"off", "ended"}

(***************************************************************************)
(* A signalled server ends, in boot or serving, with event streams open    *)
(* and an exposure child that ignores its interrupt; and so does one whose *)
(* listener failed, when it is not exposed (Serve, background.Wait,        *)
(* exposure.Wait).                                                         *)
(***************************************************************************)
Stopping == interrupted \/ (failed /\ ~tailscale)
Stopped == Gone
ServerStops == Stopping ~> Stopped

(***************************************************************************)
(* A server whose listener failed ends.  The code does not keep it: the    *)
(* exposure runs under the command's context, which only a signal cancels, *)
(* and an exposed server waits in exposure.Wait for ever.                  *)
(***************************************************************************)
FailureEndsServer == failed ~> Stopped
=============================================================================
