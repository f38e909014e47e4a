----------------------------- MODULE MCPrograms -----------------------------
(***************************************************************************)
(* Instances of the programs around the server and of the server's         *)
(* dealings with others: the interactive picker, the service atc runs as   *)
(* and its unit file, the unified-core experiment, and the calls to        *)
(* Linear, T3 Code, Codex and Tailscale. A behaviour is of one component,  *)
(* which part names; the components share no state here, so the union of   *)
(* their instances is checked in one run and the variables serve each of   *)
(* them in turn.                                                           *)
(***************************************************************************)
EXTENDS CodexLaunch, LinearOutbox, WebhookIngress, Integers, Sequences, TLC

CONSTANTS None, Unset, u1, u2, t1, t2, s1, s2, Unused

VARIABLES
    part,   \* the component this behaviour is of
    \* its variables, in the order its module declares them
    x1, x2, x3, x4, x5, x6, x7, x8, x9, x10, x11, x12, x13, x14, x15, x16,
    x17, x18

\* A child of a root conversation, and a child of that.
Lineage == t1 :> u1 @@ t2 :> t1

\* A session acknowledges and answers; another acknowledges.
OwedToLinear == {<<s1, "ack">>, <<s1, "result">>, <<s2, "ack">>}

Serv == INSTANCE ServiceLifecycle WITH
    MaxCommands <- 3, MaxFaults <- 1, MaxCrashes <- 1, MaxBuilds <- 2,
    platform <- x1, unit <- x2, loaded <- x3, active <- x4, enabled <- x5,
    linger <- x6, proc <- x7, binary <- x8, cmd <- x9, unsettled <- x10,
    promised <- x11, removed <- x12, current <- x13, orphaned <- x14,
    commands <- x15, faults <- x16, crashes <- x17

Srv == INSTANCE ServerProcess WITH
    MaxAttempts <- 2, Loops <- {u1, u2}, Requests <- {t1, t2},
    sup <- x1, child <- x2, signalled <- x3, cancelled <- x4, told <- x5,
    attempts <- x6, platform <- x7, stage <- x8, ready <- x9, database <- x10,
    listener <- x11, tailscale <- x12, interrupted <- x13, failed <- x14,
    stopped <- x15, loop <- x16, request <- x17

Unit == INSTANCE UnitFile WITH
    MaxPath <- 2, MaxLine <- 7, MaxLines <- 5, MaxTokens <- 7,
    source <- x1, wanted <- x2, input <- x3, reader <- x4

Pick == INSTANCE Picker WITH
    Dirs <- {u1}, MaxKeys <- 4, MaxIds <- 3, MaxFaults <- 1,
    picker <- x1, flight <- x2, attached <- x3, server <- x4, keys <- x5,
    faults <- x6

Again == INSTANCE Picker WITH
    Dirs <- {u1}, MaxKeys <- 3, MaxIds <- 2, MaxFaults <- 2,
    picker <- x1, flight <- x2, attached <- x3, server <- x4, keys <- x5,
    faults <- x6

Chat == INSTANCE UnifiedChat WITH
    Answerers <- {u1, u2}, MaxTurns <- 1, MaxSessions <- 2, MaxAsked <- 1,
    MaxFaults <- 1, MaxCrashes <- 1,
    up <- x1, record <- x2, disk <- x3, slot <- x4, sessions <- x5,
    prompt <- x6, recovery <- x7, answers <- x8, delivered <- x9,
    stranded <- x10, turns <- x11, faults <- x12, crashes <- x13

Ask == INSTANCE UnifiedChat WITH
    Answerers <- {u1}, MaxTurns <- 1, MaxSessions <- 2, MaxAsked <- 2,
    MaxFaults <- 1, MaxCrashes <- 0,
    up <- x1, record <- x2, disk <- x3, slot <- x4, sessions <- x5,
    prompt <- x6, recovery <- x7, answers <- x8, delivered <- x9,
    stranded <- x10, turns <- x11, faults <- x12, crashes <- x13

Relay == INSTANCE UnifiedRelay WITH
    Roots <- {u1, u2}, Children <- {t1, t2}, Parent <- Lineage,
    Capacity <- 1, MaxNews <- 2, MaxPicks <- 2, MaxFaults <- 1,
    real <- x1, asked <- x2, root <- x3, parents <- x4, queue <- x5,
    flight <- x6, late <- x7, threads <- x8, active <- x9, reducers <- x10,
    heard <- x11, clean <- x12, restarted <- x13, news <- x14, picks <- x15,
    faults <- x16

Uni == INSTANCE UnifiedTerminals WITH
    Terminals <- {t1}, Orphans <- {t2}, Handlers <- {u1, u2}, MaxCalls <- 3,
    MaxExits <- 1, MaxFaults <- 1,
    up <- x1, mem <- x2, disk <- x3, session <- x4, child <- x5,
    marker <- x6, exits <- x7, intent <- x8, handler <- x9, calls <- x10,
    ends <- x11, faults <- x12

Zmx == INSTANCE ZmxSupervisor WITH
    Names <- {u1}, MaxSessions <- 2, MaxFaults <- 2, MaxCrashes <- 1,
    host <- x1, records <- x2, disk <- x3, session <- x4, child <- x5,
    marker <- x6, late <- x7, overlooked <- x8, swept <- x9, last <- x10,
    faults <- x11, crashes <- x12

Cred == INSTANCE LinearCredential WITH
    MaxGrants <- 3, MaxFaults <- 2, MaxCrashes <- 1,
    file <- x1, setup <- x2, issued <- x3, expired <- x4, spent <- x5,
    loaded <- x6, call <- x7, lock <- x8, state <- x9, stranded <- x10,
    faults <- x11, crashes <- x12

Mir == INSTANCE T3Mirror WITH
    Keys <- {u1}, Terminals <- {}, ProviderTurns <- {1, 2},
    Responses <- {1, 2}, Started <- u2, MaxEvents <- 2, MaxFaults <- 1,
    MaxDrops <- 1, MaxCrashes <- 1,
    log <- x1, command <- x2, shell <- x3, link <- x4, todo <- x5,
    state <- x6, record <- x7, id <- x8, held <- x9, recovery <- x10,
    reads <- x11, create <- x12, missed <- x13, kept <- x14, lost <- x15,
    faults <- x16, drops <- x17, crashes <- x18

Sta == INSTANCE T3Mirror WITH
    Keys <- {u2}, Terminals <- {}, ProviderTurns <- {1, 2},
    Responses <- {1, 2}, Started <- u2, MaxEvents <- 2, MaxFaults <- 1,
    MaxDrops <- 1, MaxCrashes <- 0,
    log <- x1, command <- x2, shell <- x3, link <- x4, todo <- x5,
    state <- x6, record <- x7, id <- x8, held <- x9, recovery <- x10,
    reads <- x11, create <- x12, missed <- x13, kept <- x14, lost <- x15,
    faults <- x16, drops <- x17, crashes <- x18

Pair == INSTANCE T3Pairing WITH
    MaxPairings <- 3, MaxFaults <- 3, MaxCrashes <- 1,
    live <- x1, narrow <- x2, minted <- x3, file <- x4, session <- x5,
    anonymous <- x6, stale <- x7, pc <- x8, fresh <- x9, repaired <- x10,
    refused <- x11, presented <- x12, leaked <- x13, faults <- x14,
    crashes <- x15

Rpc == INSTANCE T3Rpc WITH
    Commands <- {u1}, Feed <- u2, Buffer <- 1, MaxChunks <- 3,
    wire <- x1, asked <- x2, chunksOut <- x3, socket <- x4, err <- x5,
    calls <- x6, reader <- x7, chunks <- x8, exit <- x9, caller <- x10,
    handled <- x11, closing <- x12, done <- x13

Ori == INSTANCE DocumentOrigin WITH
    MaxAttempts <- 2, MaxBinds <- 2,
    sup <- x1, child <- x2, signalled <- x3, cancelled <- x4, told <- x5,
    attempts <- x6, run <- x7, listening <- x8, stopping <- x9,
    origin <- x10, tailnet <- x11, binds <- x12

\* The number of variables the component has; the others are Unused.
Size ==
    CASE part \in {"unit"} -> 4
      [] part \in {"picker", "retrying"} -> 6
      [] part \in {"zmx", "unified", "credential", "origin"} -> 12
      [] part \in {"chat", "asking", "rpc"} -> 13
      [] part \in {"pairing"} -> 15
      [] part \in {"relay"} -> 16
      [] part \in {"service", "server"} -> 17
      [] part \in {"mirror", "starting"} -> 18
      [] OTHER -> 0

Blank ==
    /\ Size >= 1 \/ x1 = Unused
    /\ Size >= 2 \/ x2 = Unused
    /\ Size >= 3 \/ x3 = Unused
    /\ Size >= 4 \/ x4 = Unused
    /\ Size >= 5 \/ x5 = Unused
    /\ Size >= 6 \/ x6 = Unused
    /\ Size >= 7 \/ x7 = Unused
    /\ Size >= 8 \/ x8 = Unused
    /\ Size >= 9 \/ x9 = Unused
    /\ Size >= 10 \/ x10 = Unused
    /\ Size >= 11 \/ x11 = Unused
    /\ Size >= 12 \/ x12 = Unused
    /\ Size >= 13 \/ x13 = Unused
    /\ Size >= 14 \/ x14 = Unused
    /\ Size >= 15 \/ x15 = Unused
    /\ Size >= 16 \/ x16 = Unused
    /\ Size >= 17 \/ x17 = Unused
    /\ Size >= 18 \/ x18 = Unused

Rest ==
    /\ IF Size >= 6 THEN TRUE ELSE UNCHANGED <<x5, x6>>
    /\ IF Size >= 12 THEN TRUE ELSE UNCHANGED <<x7, x8, x9, x10, x11, x12>>
    /\ IF Size >= 13 THEN TRUE ELSE UNCHANGED <<x13>>
    /\ IF Size >= 15 THEN TRUE ELSE UNCHANGED <<x14, x15>>
    /\ IF Size >= 16 THEN TRUE ELSE UNCHANGED <<x16>>
    /\ IF Size >= 17 THEN TRUE ELSE UNCHANGED <<x17>>
    /\ IF Size >= 18 THEN TRUE ELSE UNCHANGED <<x18>>

partVars == <<part, x1, x2, x3, x4, x5, x6, x7, x8, x9, x10, x11, x12, x13, x14,
              x15, x16, x17, x18>>

PartInit ==
    /\ Init
    /\ OutboxInit
    /\ IngressInit
    /\ \/ part \in {"launch", "outbox", "ingress"}
       \/ part = "service" /\ Serv!Init
       \/ part = "server" /\ Srv!Init
       \/ part = "unit" /\ Unit!Init
       \/ part = "picker" /\ Pick!Init
       \/ part = "retrying" /\ Again!Init
       \/ part = "chat" /\ Chat!Init
       \/ part = "asking" /\ Ask!Init
       \/ part = "relay" /\ Relay!Init
       \/ part = "unified" /\ Uni!Init
       \/ part = "zmx" /\ Zmx!Init
       \/ part = "credential" /\ Cred!Init
       \/ part = "mirror" /\ Mir!Init
       \/ part = "starting" /\ Sta!Init
       \/ part = "pairing" /\ Pair!Init
       \/ part = "rpc" /\ Rpc!Init
       \/ part = "origin" /\ Ori!Init
    /\ Blank

\* A step of the component; what is not its own stays as it is.
Turn(A) == A /\ UNCHANGED part /\ Rest /\ UNCHANGED <<launchVars, outboxVars, ingressVars>>

\* Bound: exits and faults, or faults and crashes, of one behaviour together.
MaxTroubles == [unified |-> 1, zmx |-> 2, credential |-> 2]

PartNext ==
    \/ part = "launch" /\ Next /\ UNCHANGED <<partVars, outboxVars, ingressVars>>
    \/ part = "service" /\ Turn(Serv!Next)
    \/ part = "server" /\ Turn(Srv!Next)
    \/ part = "unit" /\ Turn(Unit!Next)
    \/ part = "picker" /\ Turn(Pick!Next)
    \/ part = "retrying" /\ Turn(Again!Next)
    \/ part = "chat" /\ Turn(Chat!Next)
    \/ part = "asking" /\ Turn(Ask!Next)
    \/ part = "relay" /\ Turn(Relay!Next)
    \/ part = "unified" /\ Turn(Uni!Next) /\ x11' + x12' <= MaxTroubles[part]
    \/ part = "zmx" /\ Turn(Zmx!Next) /\ x11' + x12' <= MaxTroubles[part]
    \/ part = "outbox" /\ OutboxNext /\ UNCHANGED <<partVars, launchVars, ingressVars>>
    \/ part = "credential" /\ Turn(Cred!Next) /\ x11' + x12' <= MaxTroubles[part]
    \/ part = "mirror" /\ Turn(Mir!Next)
    \/ part = "starting" /\ Turn(Sta!Next)
    \/ part = "pairing" /\ Turn(Pair!Next)
    \/ part = "rpc" /\ Turn(Rpc!Next)
    \/ part = "origin" /\ Turn(Ori!Next)
    \/ part = "ingress" /\ IngressNext /\ UNCHANGED <<partVars, launchVars, outboxVars>>

allVars == <<partVars, launchVars, outboxVars, ingressVars>>

PartSpec == PartInit /\ [][PartNext]_allVars

-----------------------------------------------------------------------------
(* Properties: each is the one its module states, of its component.        *)

\* The service is what its unit says and its process orderly: an uninstall that
\* found its unit and could ask the supervisor leaves nothing, the unit
\* describes the running launch and a restart without flags keeps its flags, a
\* server that was started returns at boot, the installed executable always
\* runs, a restart ends a version skew and what the status says is true,
\* whichever command fails or is killed; and the flags come back from the unit
\* as they were rendered, from the place the supervisor reads them, and from no
\* value that was not; no loop or request meets what boot has not built yet or
\* the stop has closed, the process leaves no exposure behind (on Linux even
\* when it is killed), and the tailnet never reaches documents whose listener is
\* not up (startOrRestart, Uninstall, Status, upgrade.Run, systemdUnit,
\* unitLaunchFlags, serverRunUntilCancelled).
ServiceAsDescribed ==
    /\ part = "service" =>
        /\ Serv!TypeOK
        /\ Serv!UninstallTotal
        /\ Serv!DescribedByUnit
        /\ Serv!FlagsKept
        /\ Serv!BootPersistent
        /\ Serv!BinaryRuns
        /\ Serv!SkewEnds
        /\ Serv!StatusTruthful
    /\ part = "server" =>
        /\ Srv!TypeOK
        /\ Srv!UsesWhatIsUp
        /\ Srv!LeavesNothing
    /\ part = "origin" =>
        /\ Ori!TypeOK
        /\ Ori!RouteBehindListener
    /\ part = "unit" =>
        /\ Unit!TypeOK
        /\ Unit!FlagsComeBack
        /\ Unit!AcceptsOnlyRendered
        /\ Unit!FromTheRightPlace

\* Terminals of the experiments are told truly: one Thread per provider
\* conversation, judged by its own evidence and following the TUI, its work
\* shown; a session named by a record's id is not swept away, a terminal ends
\* only on evidence, a deliberate stop is on disk before the kill, and an ended
\* terminal is not shown working -- announcements dropped, repeated or late,
\* inventories old; a zmx session stays on record while it is up, its exit rests
\* on evidence, a cleanup kills orphans only and an attach leaves no phantom
\* that was listed when it looked (resolveProviderThreadLocked,
\* codexState.apply; ReconcileTerminals, CleanupTerminals, TerminateTerminal;
\* reconcileLocked, Cleanup, Zmx.Attach).
UnifiedTerminalsHold ==
    /\ part = "relay" =>
        /\ Relay!TypeOK
        /\ Relay!OneThreadPerRoot
        /\ Relay!JudgedByItsOwn
        /\ Relay!FollowsTui
        /\ Relay!WorkIsShown
    /\ part = "unified" =>
        /\ Uni!TypeOK
        /\ Uni!CleanupSpares
        /\ Uni!EndedExplained
        /\ Uni!StopIsOnDisk
        /\ Uni!EndedIsQuiet
    /\ part = "zmx" =>
        /\ Zmx!TypeOK
        /\ Zmx!NoStray
        /\ Zmx!ExitIsEvidence
        /\ Zmx!SweepsOrphans
        /\ Zmx!NoPhantom

\* Chats hold: a turn runs on the one adapter in the slot, the Prompt that
\* began it will end it, a request is answered once and by its own answer, and
\* a Thread in a turn is not shown idle -- through recovery, failed saves and
\* concurrent answers (Prompt, finishTurn, Answer, RecoverChatSessions,
\* recomputeActivityLocked).
ChatsHold ==
    /\ part = "chat" => Chat!ChatsHold
    /\ part = "asking" => Ask!ChatsHold

\* Dealings with Linear and T3 Code hold: Linear's file holds the newest
\* credential whatever the loops, reloads and the operator do; a caught-up
\* connection to T3 has the records T3 shows, work is claimed only while a
\* connection vouches for it, a response is that of its turn; at most one paired
\* session is left in T3, and the subscription handles its items in order, none
\* that was read being lost (renew, saveTokens, reloadSetup; serve,
\* applySnapshot, applyEvent, ObserveTurnResponse; saveSession, revoke;
\* subscribe).
PeersHeld ==
    /\ part = "credential" =>
        /\ Cred!TypeOK
        /\ Cred!FileHoldsGrant
    /\ part = "mirror" =>
        /\ Mir!TypeOK
        /\ Mir!MirrorsT3
        /\ Mir!LiveOnlyWhileHeld
        /\ Mir!ResponseOfItsTurn
    /\ part = "starting" =>
        /\ Sta!TypeOK
        /\ Sta!MirrorsT3
        /\ Sta!LiveOnlyWhileHeld
        /\ Sta!ResponseOfItsTurn
    /\ part = "pairing" =>
        /\ Pair!TypeOK
        /\ Pair!OneSessionInT3
    /\ part = "rpc" =>
        /\ Rpc!TypeOK
        /\ Rpc!HandledInOrder

\* The picker shows and does what the user asked for last: the rows are the
\* Terminals of the Space it is in, a loading mark has its answer on the way, a
\* modal retry has one poll alive, and the screen is never handed over for
\* something escaped from -- answers, creates and polls arriving late (the seq
\* stamps, ReconnectPolled, startAttach).
PickerTruthful ==
    /\ [](part = "picker" =>
            /\ Pick!TypeOK
            /\ Pick!RowsAreTheSpaces
            /\ Pick!LoadingAnswered
            /\ Pick!RetryAlive)
    /\ [](part = "retrying" =>
            /\ Again!TypeOK
            /\ Again!RowsAreTheSpaces
            /\ Again!LoadingAnswered
            /\ Again!RetryAlive)
    /\ [][part = "picker" => Pick!AttachWanted]_partVars
    /\ [][part = "retrying" => Again!AttachWanted]_partVars
=============================================================================
