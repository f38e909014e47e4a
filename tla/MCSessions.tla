----------------------------- MODULE MCSessions -----------------------------
(***************************************************************************)
(* Instances of the terminals and of what follows, opens and serves them:  *)
(* the observer of Codex, the hooks of Claude Code, and the rows and       *)
(* queues of the database. A behaviour is of one component, which part     *)
(* names; the components share no state here, so the union of their        *)
(* instances is checked in one run and the variables serve each of them in *)
(* turn.                                                                   *)
(***************************************************************************)
EXTENDS Terminals, ClaudeHooks, CodexObserver, Integers, Sequences, FiniteSets, TLC

CONSTANTS Null, Nil, u1, u2, t1, t2, v1, v2, d, s1, Unused

VARIABLES
    part,   \* the component this behaviour is of
    \* its variables, in the order its module declares them
    x1, x2, x3, x4, x5, x6, x7, x8

\* Bounds: frames where two terminals follow one another, over one connection
\* and without a loss, and only the first goes missing; one terminal meets the
\* losses, over two.
ShortWire == 4

\* Bound: the failing writes and the restarts of one behaviour together.
MaxSetbacks == 1

Rec == INSTANCE RecordStore WITH
    SpaceIds <- {u1, u2}, TerminalIds <- {v1}, ProjectIds <- {v1},
    ThreadIds <- {v1, v2}, ArtifactIds <- {u1}, Conversations <- {u1, u2},
    Directories <- {u1}, Publications <- {u1, u2}, ExitCodes <- {0, 1},
    MaxVersions <- 3,
    spaces <- x1, terminals <- x2, projects <- x3, threads <- x4,
    identities <- x5, artifacts <- x6, versions <- x7, committed <- x8

Que == INSTANCE QueueStore WITH
    DeliveryIds <- {1, 2, 3}, Sessions <- {u1}, Capacity <- 2, Keep <- 1,
    Window <- 1, Batch <- 1, MaxTime <- 2,
    now <- x1, inbox <- x2, sessions <- x3, outbox <- x4, aged <- x5,
    owed <- x6

Tab == INSTANCE StoreRows WITH
    table <- x1, cache <- x2, rows <- x3

\* The number of variables the component has; the others are Unused.
Size ==
    CASE part \in {"rows"} -> 3
      [] part \in {"queues"} -> 6
      [] part \in {"records"} -> 8
      [] OTHER -> 0

UnusedRest ==
    /\ Size >= 1 \/ x1 = Unused
    /\ Size >= 2 \/ x2 = Unused
    /\ Size >= 3 \/ x3 = Unused
    /\ Size >= 4 \/ x4 = Unused
    /\ Size >= 5 \/ x5 = Unused
    /\ Size >= 6 \/ x6 = Unused
    /\ Size >= 7 \/ x7 = Unused
    /\ Size >= 8 \/ x8 = Unused

Rest ==
    /\ IF Size >= 3 THEN TRUE ELSE UNCHANGED <<x1, x2, x3>>
    /\ IF Size >= 6 THEN TRUE ELSE UNCHANGED <<x4, x5, x6>>
    /\ IF Size >= 8 THEN TRUE ELSE UNCHANGED <<x7, x8>>

partVars == <<part, x1, x2, x3, x4, x5, x6, x7, x8>>

PartInit ==
    /\ Init /\ HooksInit /\ ObserverInit
    /\ \/ part \in {"sessions", "claude", "codex", "reconnect"}
       \/ part = "records" /\ Rec!Init
       \/ part = "queues" /\ Que!Init
       \/ part = "rows" /\ Tab!Init
    /\ UnusedRest

\* A step of the component; what is not its own stays as it is.
Turn(A) == A /\ UNCHANGED part /\ Rest /\ UNCHANGED <<vars, hookVars, observerVars>>

PartNext ==
    \/ /\ part = "sessions" /\ Next /\ failures' + crashes' <= MaxSetbacks
       /\ UNCHANGED <<partVars, hookVars, observerVars>>
    \/ part = "claude" /\ HooksNext /\ UNCHANGED <<partVars, vars, observerVars>>
    \/ part = "records" /\ Turn(Rec!Next)
    \/ /\ part = "codex" /\ ObserverNext
       /\ seq' <= ShortWire /\ epoch' <= 1 /\ losses' = 0 /\ terms'[t2] # "missing"
       /\ UNCHANGED <<partVars, vars, hookVars>>
    \/ /\ part = "reconnect" /\ ObserverNext /\ terms'[t2] = "unborn"
       /\ UNCHANGED <<partVars, vars, hookVars>>
    \/ part = "queues" /\ Turn(Que!Next)
    \/ part = "rows" /\ Turn(Tab!Next)

allVars == <<partVars, vars, hookVars, observerVars>>

PartSpec == PartInit /\ [][PartNext]_allVars

-----------------------------------------------------------------------------
(* Properties: each is the one its module states, of its component.        *)

\* The database keeps what it was given: no row names one that is gone, every
\* thread has its one mapping, versions have no gap and evidence is never
\* rewritten; the inbox keeps to its capacity, a listing leaves out nobody
\* older than one it has, a session is done only with the call that says so,
\* and pruning takes nothing pending; what is written is loaded as it was and
\* in the order of creation (RecordTerminalExit, InsertObserved, AppendVersion;
\* Accept, UpdateSession, Prune; threadFrom, List).
StoreHolds ==
    /\ [](part = "records" =>
            /\ Rec!TypeOK
            /\ Rec!ReferencesHold
            /\ Rec!ThreadsMapped
            /\ Rec!VersionsDense)
    /\ [](part = "queues" =>
            /\ Que!TypeOK
            /\ Que!CapacityHeld
            /\ Que!OldestDueFirst
            /\ Que!DoneIsReported)
    /\ [](part = "rows" =>
            /\ Tab!TypeOK
            /\ Tab!LoadsWhatWasWritten
            /\ Tab!ListedInCreationOrder)
    /\ [][part = "records" => Rec!EvidenceKept]_partVars
    /\ [][part = "queues" => Que!PendingKept]_partVars
=============================================================================
