------------------------------- MODULE MCLive -------------------------------
(***************************************************************************)
(* Instances of the components that owe something to somebody and have to  *)
(* get there: calls to Linear, a credential, a mention, a terminal's end,  *)
(* the mirror of T3 Code, a Codex conversation, a stop. A behaviour is of  *)
(* one component, which part names; the components share no state here, so *)
(* the union of their instances is checked in one run and the variables    *)
(* serve each of them in turn.                                             *)
(***************************************************************************)
EXTENDS Integers, Sequences, FiniteSets, TLC

CONSTANTS None, u1, u2, s1, s2, mention, Unused

VARIABLES
    part,   \* the component this behaviour is of
    \* its variables, in the order its module declares them
    x1, x2, x3, x4, x5, x6, x7, x8, x9, x10, x11, x12, x13, x14, x15, x16,
    x17, x18, x19, x20, x21

Out == INSTANCE LinearOutbox WITH
    AgentSessions <- {s1}, Queued <- {<<s1, "ack">>, <<s1, "result">>},
    SendBatch <- 2, SendWorkers <- 1, MaxOutages <- 1, MaxRestarts <- 1,
    due <- x1, ahead <- x2, later <- x3, sent <- x4, failed <- x5, batch <- x6,
    attempt <- x7, posted <- x8, order <- x9, tried <- x10, unsaid <- x11,
    outages <- x12, restarts <- x13

Cred == INSTANCE LinearCredential WITH
    MaxGrants <- 3, MaxFaults <- 1, MaxCrashes <- 1,
    file <- x1, setup <- x2, issued <- x3, expired <- x4, spent <- x5,
    loaded <- x6, call <- x7, lock <- x8, state <- x9, stranded <- x10,
    faults <- x11, crashes <- x12

Rel == INSTANCE LinearRelay WITH
    Deliveries <- {mention}, Capacity <- 1, MaxFaults <- 0, MaxCrashes <- 1,
    Sessions <- {s1}, Threads <- {u1, u2},
    SessionOf <- [d \in {mention} |-> s1],
    KindOf <- [d \in {mention} |-> "mention"],
    inbox <- x1, acked <- x2, work <- x3, faults <- x4, crashes <- x5,
    session <- x6, listed <- x7, start <- x8, thread <- x9, conv <- x10,
    owed <- x11

Term == INSTANCE Terminals WITH
    Terminals <- {u1}, Spaces <- {s1}, DefaultSpace <- s1, Hangs <- FALSE,
    BirthInPass <- TRUE, MaxFailures <- 1, MaxCrashes <- 1,
    rows <- x1, view <- x2, status <- x3, settling <- x4, spaces <- x5,
    deleting <- x6, session <- x7, report <- x8, create <- x9, delete <- x10,
    spaceDelete <- x11, pass <- x12, failures <- x13, crashes <- x14,
    history <- x15

Mir == INSTANCE T3Mirror WITH
    Keys <- {u1}, Terminals <- {}, ProviderTurns <- {1, 2},
    Responses <- {1, 2}, Started <- u2, MaxEvents <- 1, MaxFaults <- 1,
    MaxDrops <- 1, MaxCrashes <- 1,
    log <- x1, command <- x2, shell <- x3, link <- x4, todo <- x5,
    state <- x6, record <- x7, id <- x8, held <- x9, recovery <- x10,
    reads <- x11, create <- x12, missed <- x13, kept <- x14, lost <- x15,
    faults <- x16, drops <- x17, crashes <- x18

Sta == INSTANCE T3Mirror WITH
    Keys <- {u2}, Terminals <- {}, ProviderTurns <- {1, 2},
    Responses <- {1, 2}, Started <- u2, MaxEvents <- 1, MaxFaults <- 1,
    MaxDrops <- 1, MaxCrashes <- 0,
    log <- x1, command <- x2, shell <- x3, link <- x4, todo <- x5,
    state <- x6, record <- x7, id <- x8, held <- x9, recovery <- x10,
    reads <- x11, create <- x12, missed <- x13, kept <- x14, lost <- x15,
    faults <- x16, drops <- x17, crashes <- x18

Pair == INSTANCE T3Pairing WITH
    MaxPairings <- 3, MaxFaults <- 2, MaxCrashes <- 1,
    live <- x1, narrow <- x2, minted <- x3, file <- x4, session <- x5,
    anonymous <- x6, stale <- x7, pc <- x8, fresh <- x9, repaired <- x10,
    refused <- x11, presented <- x12, leaked <- x13, faults <- x14,
    crashes <- x15

Rpc == INSTANCE T3Rpc WITH
    Commands <- {u1}, Feed <- u2, Buffer <- 1, MaxChunks <- 3,
    wire <- x1, asked <- x2, chunksOut <- x3, socket <- x4, err <- x5,
    calls <- x6, reader <- x7, chunks <- x8, exit <- x9, caller <- x10,
    handled <- x11, closing <- x12, done <- x13

Lau == INSTANCE CodexLaunch WITH
    Terminals <- {u1, u2}, Strangers <- {}, MaxFaults <- 1,
    pc <- x1, slot <- x2, armed <- x3, armedSeq <- x4, expired <- x5,
    candidates <- x6, live <- x7, seq <- x8, started <- x9, announced <- x10,
    polls <- x11, timers <- x12, bound <- x13, prompted <- x14,
    overheard <- x15, confirmed <- x16, early <- x17, faults <- x18

Ori == INSTANCE DocumentOrigin WITH
    MaxAttempts <- 2, MaxBinds <- 2,
    sup <- x1, child <- x2, signalled <- x3, cancelled <- x4, told <- x5,
    attempts <- x6, run <- x7, listening <- x8, stopping <- x9,
    origin <- x10, tailnet <- x11, binds <- x12

Srv == INSTANCE ServerProcess WITH
    MaxAttempts <- 1, Loops <- {u1}, Requests <- {u2},
    sup <- x1, child <- x2, signalled <- x3, cancelled <- x4, told <- x5,
    attempts <- x6, platform <- x7, stage <- x8, ready <- x9, database <- x10,
    listener <- x11, tailscale <- x12, interrupted <- x13, failed <- x14,
    stopped <- x15, loop <- x16, request <- x17

Ing == INSTANCE WebhookIngress WITH
    MaxAttempts <- 1, Conns <- 2, MaxSpawns <- 2, MaxBreaks <- 1,
    sup <- x1, child <- x2, signalled <- x3, cancelled <- x4, told <- x5,
    attempts <- x6, core <- x7, stopping <- x8, exposure <- x9,
    receiver <- x10, isolated <- x11, report <- x12, verdict <- x13,
    interrupted <- x14, pool <- x15, idle <- x16, busy <- x17,
    exhausted <- x18, broken <- x19, spawns <- x20, breaks <- x21

\* The number of variables the component has; the others are Unused.
Size ==
    CASE part \in {"relay"} -> 11
      [] part \in {"credential", "origin"} -> 12
      [] part \in {"outbox", "rpc"} -> 13
      [] part \in {"terminals", "pairing"} -> 15
      [] part \in {"server"} -> 17
      [] part \in {"mirror", "starting", "launch"} -> 18
      [] part \in {"ingress"} -> 21

Blank ==
    /\ Size >= 12 \/ x12 = Unused
    /\ Size >= 13 \/ x13 = Unused
    /\ Size >= 14 \/ x14 = Unused
    /\ Size >= 15 \/ x15 = Unused
    /\ Size >= 16 \/ x16 = Unused
    /\ Size >= 17 \/ x17 = Unused
    /\ Size >= 18 \/ x18 = Unused
    /\ Size >= 19 \/ x19 = Unused
    /\ Size >= 20 \/ x20 = Unused
    /\ Size >= 21 \/ x21 = Unused

Rest ==
    /\ IF Size >= 12 THEN TRUE ELSE UNCHANGED <<x12>>
    /\ IF Size >= 13 THEN TRUE ELSE UNCHANGED <<x13>>
    /\ IF Size >= 15 THEN TRUE ELSE UNCHANGED <<x14, x15>>
    /\ IF Size >= 16 THEN TRUE ELSE UNCHANGED <<x16>>
    /\ IF Size >= 17 THEN TRUE ELSE UNCHANGED <<x17>>
    /\ IF Size >= 18 THEN TRUE ELSE UNCHANGED <<x18>>
    /\ IF Size >= 21 THEN TRUE ELSE UNCHANGED <<x19, x20, x21>>

\* What the outbox shows of the promise; the other components owe nothing.
Promise == INSTANCE OwedCalls WITH
    Calls <- Out!Keys,
    status <- IF part = "outbox" THEN Out!CallStatus
              ELSE [k \in Out!Keys |-> "none"]

partVars == <<part, x1, x2, x3, x4, x5, x6, x7, x8, x9, x10, x11, x12, x13, x14,
              x15, x16, x17, x18, x19, x20, x21>>

PartInit ==
    /\ \/ part = "outbox" /\ Out!OutboxInit
       \/ part = "credential" /\ Cred!Init
       \/ part = "relay" /\ Rel!Init
       \/ part = "terminals" /\ Term!Init
       \/ part = "mirror" /\ Mir!Init
       \/ part = "starting" /\ Sta!Init
       \/ part = "pairing" /\ Pair!Init
       \/ part = "rpc" /\ Rpc!Init
       \/ part = "launch" /\ Lau!Init
       \/ part = "origin" /\ Ori!Init
       \/ part = "server" /\ Srv!Init
       \/ part = "ingress" /\ Ing!IngressInit
    /\ Blank

\* A step of the component; what is not its own stays as it is.
Turn(A) == A /\ UNCHANGED part /\ Rest

PartNext ==
    \/ part = "outbox" /\ Turn(Out!OutboxNext)
    \/ part = "credential" /\ Turn(Cred!Next)
    \/ part = "relay" /\ Turn(Rel!Next)
    \/ part = "terminals" /\ Turn(Term!Next)
    \/ part = "mirror" /\ Turn(Mir!Next)
    \/ part = "starting" /\ Turn(Sta!Next)
    \/ part = "pairing" /\ Turn(Pair!Next)
    \/ part = "rpc" /\ Turn(Rpc!Next)
    \/ part = "launch" /\ Turn(Lau!Next)
    \/ part = "origin" /\ Turn(Ori!Next)
    \/ part = "server" /\ Turn(Srv!Next)
    \/ part = "ingress" /\ Turn(Ing!IngressNext)

\* What the goroutines, timers and peers of each component are taken to
\* go on doing.  The i-th fair step of each stands
\* on one line; a behaviour is of one component, so they are fair together.
FairStep(i) ==
    CASE part = "outbox" ->
           \/ (i = 1 /\ Out!SendDue) \/ (i = 2 /\ Out!SendStep(s1))
           \/ (i = 3 /\ Out!RetryDue(<<s1, "ack">>))
           \/ (i = 4 /\ Out!RetryDue(<<s1, "result">>))
           \/ (i = 5 /\ Out!RetryDue(<<s1, Out!Fallback>>))
      [] part = "credential" ->
           \/ (i = 1 /\ Cred!ReloadRead) \/ (i = 2 /\ Cred!ReloadStore)
           \/ (i = 3 /\ Cred!LoopStep("probe"))
           \/ (i = 4 /\ Cred!LoopStep("sender"))
      [] part = "relay" ->
           \/ (i = 1 /\ Rel!Begins(mention)) \/ (i = 2 /\ Rel!Process(mention))
           \/ (i = 3 /\ Rel!Records(mention)) \/ (i = 4 /\ Rel!Waited(mention))
           \/ (i = 5 /\ Rel!LoopList) \/ (i = 6 /\ Rel!LoopAct(s1))
           \/ (i = 7 /\ Rel!GracePasses(s1)) \/ (i = 8 /\ Rel!StartStep(s1))
      [] part = "terminals" ->
           \/ (i = 1 /\ Term!PassStep) \/ (i = 2 /\ Term!Appears(u1))
           \/ (i = 3 /\ Term!Commits(u1)) \/ (i = 4 /\ Term!Launches(u1))
           \/ (i = 5 /\ Term!CreateSettles(u1))
           \/ (i = 6 /\ Term!DeleteKill(u1)) \/ (i = 7 /\ Term!DeleteRemove(u1))
           \/ (i = 8 /\ Term!DeleteMark(u1))
      [] part = "mirror" ->
           \/ (i = 1 /\ Mir!Connect) \/ (i = 2 /\ Mir!RunStep)
           \/ (i = 3 /\ Mir!CreateStep)
      [] part = "starting" ->
           \/ (i = 1 /\ Sta!Connect) \/ (i = 2 /\ Sta!RunStep)
           \/ (i = 3 /\ Sta!CreateStep)
      [] part = "pairing" ->
           \/ (i = 1 /\ Pair!Start) \/ (i = 2 /\ Pair!Pair)
           \/ (i = 3 /\ Pair!Save) \/ (i = 4 /\ Pair!Ticket)
           \/ (i = 5 /\ Pair!Retry) \/ (i = 6 /\ Pair!Disconnect)
      [] part = "rpc" ->
           \/ (i = 1 /\ Rpc!ReadLoop) \/ (i = 2 /\ Rpc!FeedStep)
           \/ (i = 3 /\ Rpc!CallerStep(u1)) \/ (i = 4 /\ Rpc!CallerStep(u2))
      [] part = "launch" ->
           \/ (i = 1 /\ Lau!Expire) \/ (i = 2 /\ Lau!Reserve(u1))
           \/ (i = 3 /\ Lau!Reserve(u2)) \/ (i = 4 /\ Lau!Arm(u1))
           \/ (i = 5 /\ Lau!Arm(u2)) \/ (i = 6 /\ Lau!Timer(u1))
           \/ (i = 7 /\ Lau!Timer(u2))
      [] part = "origin" ->
           \/ (i = 1 /\ Ori!Return) \/ (i = 2 /\ Ori!Retry)
           \/ (i = 3 /\ Ori!Bind) \/ (i = 4 /\ Ori!Closes)
           \/ (i = 5 /\ Ori!SupervisorGoesOn)
      [] part = "server" ->
           \/ (i = 1 /\ Srv!BootStep) \/ (i = 2 /\ Srv!Serve)
           \/ (i = 3 /\ Srv!StopStep) \/ (i = 4 /\ Srv!LoopPasses(u1))
           \/ (i = 5 /\ Srv!SupervisorGoesOn)
      [] part = "ingress" ->
           \/ (i = 1 /\ Ing!Bind) \/ (i = 2 /\ Ing!Spawn)
           \/ (i = 3 /\ Ing!ReadyTimeout) \/ (i = 4 /\ Ing!ExitedEarly)
           \/ (i = 5 /\ Ing!Finish) \/ (i = 6 /\ Ing!Withdraw)
           \/ (i = 7 /\ Ing!Return) \/ (i = 8 /\ Ing!Retry)
           \/ (i = 9 /\ Ing!ReceiverKilled) \/ (i = 10 /\ Ing!SupervisorGoesOn)
      [] OTHER -> FALSE

\* Steps that are tried again and again, and at times get through.
StrongStep(i) ==
    CASE part = "credential" ->
           \/ (i = 1 /\ Cred!RenewLock("probe"))
           \/ (i = 2 /\ Cred!RenewLock("sender"))
      [] part = "terminals" ->
           \/ (i = 1 /\ Term!WholePass) \/ (i = 2 /\ Term!Reaps(u1))
      [] part = "server" ->
           \/ (i = 1 /\ Srv!LoopEnds(u1))
      [] OTHER -> FALSE

PartSpec ==
    /\ PartInit /\ [][PartNext]_partVars
    /\ \A i \in 1..10 : WF_partVars(Turn(FairStep(i)))
    /\ \A i \in 1..2 : SF_partVars(Turn(StrongStep(i)))

-----------------------------------------------------------------------------
(* Properties: each is stated by the modules of its components.            *)

\* What is owed, and how it is met; by component.
Stopping ==
    CASE part = "rpc" -> Rpc!Closing
      [] part = "origin" -> Ori!Stopping
      [] part = "ingress" -> Ing!Stopping
      [] part = "server" -> Srv!Stopping
      [] OTHER -> FALSE

Stopped ==
    CASE part = "rpc" -> Rpc!Closed
      [] part = "origin" -> Ori!Stopped
      [] part = "ingress" -> Ing!Stopped
      [] part = "server" -> Srv!Stopped
      [] OTHER -> TRUE

Waiting ==
    CASE part = "rpc" -> Rpc!Waits(u1)
      [] part = "launch" -> Lau!Waits(u1)
      [] part = "terminals" -> Term!Unsettled(u1)
      [] part = "relay" -> Rel!TurnOver(s1)
      [] part = "origin" -> Ori!GivesUp
      [] OTHER -> FALSE

Served ==
    CASE part = "rpc" -> Rpc!Over(u1)
      [] part = "launch" -> ~Lau!Waits(u1)
      [] part = "terminals" -> ~Term!Unsettled(u1)
      [] part = "relay" -> Rel!ResultOwed(s1)
      [] part = "origin" -> Ori!GoesOn
      [] OTHER -> TRUE

Undone ==
    CASE part = "credential" -> Cred!Usable
      [] part = "relay" -> Rel!Accepted(mention)
      [] part = "terminals" -> Term!Orphaned(u1)
      [] part = "rpc" -> Rpc!Waits(u2)
      [] OTHER -> FALSE

Misshown == part = "terminals" /\ Term!Misshown(u1)

Done ==
    CASE part = "credential" -> Cred!Back
      [] part = "relay" -> Rel!ActedOn(mention)
      [] part = "terminals" -> Term!Gone(u1)
      [] part = "rpc" -> Rpc!Over(u2)
      [] OTHER -> TRUE

\* The outbox implements OwedCalls: an owed call is eventually made, once, or
\* refused for good (send, sendDue, retry, prune).
ImplementsOwedCalls == Promise!Spec

\* The T3 Code integration comes to rest where it should, whatever dropped,
\* failed or restarted: the records end as the mirror of what T3 shows, but for
\* a conversation whose last write failed, and the connection ends with a
\* session T3 accepts (serve, applySnapshot; pair, saveSession).
SettlesWithT3 ==
    <>[](/\ part = "mirror" => Mir!InStep
         /\ part = "starting" => Sta!InStep
         /\ part = "pairing" => Pair!Settled)

\* What is told to stop returns: the T3 connection's close, though its read
\* loop waits for room in a buffer nobody empties any more (rpcSession.close,
\* route); the document origin and the webhook ingress, with no child left,
\* though a child may ignore the interrupt (serve, runReceiver,
\* Supervisor.Run); the server, signalled in boot or serving, event streams
\* open or not (Serve, background.Wait).
StopsReturn == Stopping ~> Stopped

\* Nobody is left waiting: a command when the T3 socket is gone (request,
\* read), a Codex launch for its directory whatever becomes of the launch
\* before it (reserve, release), a terminal for its create to give it back to
\* the passes (commitCreate), the user of a Linear session for the result of a
\* turn that is over, its response arriving or not (observe, evaluate), a
\* supervisor for a child that never prints its banner (Supervisor.serve).
NobodyLeftWaiting == Waiting ~> Served

\* What is to be done gets done: with a credential Linear takes in the file the
\* probe comes back to connected, also from the refusal of a stale copy
\* (probeLoop); an acknowledged mention starts its session or is explained
\* (Process, reconcile, start); a session nobody has a record of is reaped
\* (reconcile); the T3 subscription ends with its socket (subscribe).
WorkGetsDone == Undone ~> Done

\* A terminal is eventually shown as it is, whatever inventory older than its
\* session or its end made of it: one that runs does not stay missing, one that
\* is gone does not stay running (reconcile).
ShownAsTheyAre == Misshown ~> ~Misshown
=============================================================================
