# ATC: a TLA+ verification project

ATC (`src/`) is a server that keeps track of coding-agent conversations
("threads") and of the terminals they run in. It is one Go process with an
SQLite database, an in-memory view of it, background loops that reconcile the
view with the outside world, clients of four external programs (Codex, Claude
Code, T3 Code, Linear), and an HTTP API with an event stream. The correctness of
the program is the agreement of these parts: the view with the database, the
records with the sessions that really run, the clients' copies with the view,
what was promised to a peer with what it was told. This project models those
agreements, model-checks them on small instances with TLC and proves the most
important ones -- of the event stream, the threads, the terminals, the projects,
the publications, the Linear sessions and outbox, the Codex launches and observer, the
Claude hooks and the webhook ingress -- for every instance with TLAPS.

## 1. Inventory

| component | source | state | what makes it correct |
|---|---|---|---|
| event hub and stream | `internal/events`, `internal/server/events.go` | ring of recent events, next number, subscriber channels | a client never misses a change without learning that it has to refetch |
| threads | `internal/threads` | rows, view, identities, active projection, opening marks, projects | one thread per conversation, at most one writer on it, no status nobody backs |
| terminals, spaces, session monitor, zmx driver | `internal/terminals`, `internal/integrations/zmx` | rows, view, settling and deleting marks; sessions, report files | the status is backed by evidence; no session without a record stays |
| application coordinator | `internal/application` | none of its own | the order of the calls into the domains |
| projects | `internal/projects` | rows and view | no thread names a project that is gone or misses the one it is in |
| store | `internal/store` | SQLite file, log, backup | references hold, evidence is not rewritten, records come back as written; an upgrade can be undone |
| Codex | `internal/integrations/codex` | one connection, trackers, launch windows | evidence in order; a terminal is bound to its own conversation |
| Claude Code, hook authentication | `internal/integrations/{claude,hookauth}` | per-launch state, secrets | the terminal shows the conversation it shows, and its status |
| T3 Code | `internal/integrations/t3code` | mirror, session file, RPC connection | the mirror converges; one paired session; nobody waits on a dead socket |
| Linear | `internal/integrations/linear` | sessions, outbox, credential | each mention is honoured once and its user is told |
| webhooks | `internal/webhooks` | inbox rows; receiver process, funnel | what is acknowledged is processed; only an isolated receiver is exposed |
| artifacts, document origin | `internal/artifacts`, `internal/documents` | rows, content directories, listener | rows and files agree after a crash; a route has a listener behind it |
| authoring | `internal/authoring` | working copies, pending packages, platform | a publication has one result; a build is of one moment |
| service, upgrade, server process | `internal/service`, `internal/upgrade`, `cmd/atc` | unit file, supervisor, running binary; boot and stop | the unit describes what runs; the stop returns and leaves nothing |
| auth token | `internal/authtoken` | one file | a token handed out has been in the file |
| terminal picker | `internal/tui` | Bubble Tea model, requests in flight | it shows and does what was asked last |
| experiments | `experiments/unified-core`, `experiments/zmx-supervisor` | prototypes of the above | as above |

`PROJECT.json` ("components") has the full list with the status of each part.

**Interactions.** The domains (threads, terminals, projects, artifacts) do not
call each other; `application` sequences them. Each domain takes its lock,
writes the database, then changes its view, then publishes one event per changed
resource to the hub. The threads domain reads terminal statuses; hooks (Claude)
and observers (Codex, T3) call `ObserveSession`, `ObserveStatus` and
`ObserveExternal`. Deleting a terminal deletes the row first and then tells the
threads (`TerminalRemoved`). A webhook is acknowledged when it is a row; a
worker hands it to Linear's handler, whose session loop starts a T3 conversation
through `StartThread` and queues what Linear is to be told.

**What is hard.** Steps that release a lock and act on what they read before
(the reconcile pass, the sweep, `Open` while a resume launches, Codex's
reconcile reads, the picker's requests); two stores for one fact (rows and view,
rows and files, the mirror and T3, the unit and the process); writes that fail
half-way; restarts in the middle of any of it; answers that are lost, late or
repeated; stops while something waits. `PROJECT.json` ("hazards") lists each at
its line with the properties that would catch it.

## 2. Modules

One module per component; a module that needs another's state extends it.

| module | models | notes |
|---|---|---|
| `EventHub` | hub, SSE handler, reconnecting client | proofs in `EventHubProofs` |
| `ThreadRecord` | record and evidence policy of `turns.go` | operators, used by three state machines |
| `Threads` | threads service, terminal-hosted | extends `ThreadRecord`; proofs in `ThreadsProofs` |
| `T3Mirror` | T3 connection, mirror and external threads | extends `ThreadRecord` |
| `CodexObserver` | Codex connection, reads, trackers | its own instance of `ThreadRecord`; proofs in `TerminalsProofs` |
| `CodexLaunch` | directory slot, window, candidates | holds its proofs |
| `ClaudeHooks` | hook deliveries, launch state, status reducer, secrets | holds its proofs |
| `Terminals` | terminals, spaces, sessions, reports, passes | proofs in `TerminalsProofs` |
| `Projects` | projects, classification, backfill | proofs in `RecordsProofs` |
| `RecordStore`, `QueueStore`, `StoreRows` | tables by their statements; rows against records | |
| `StoreUpgrade` | backup and migrations | proofs in `RecordsProofs` |
| `WebhookInbox`, `LinearRelay` | inbox; sessions, starts, observation | `LinearRelay` extends the inbox; proofs in `RecordsProofs` |
| `LinearOutbox`, `OwedCalls` | sending; what it promises | refinement, below; holds its proofs |
| `LinearCredential` | token renewal by two loops | |
| `T3Pairing`, `T3Rpc` | session file and pairing; the connection's multiplexer | |
| `TailscaleSupervisor` | one `tailscale serve`/`funnel` child | extended by its three owners: |
| `DocumentOrigin`, `WebhookIngress`, `ServerProcess` | origin's listener; receiver process; boot, serving and stop of the server | `WebhookIngress` holds its proofs |
| `Artifacts`, `Publishing` | versions in rows and files; working copies that publish | `Publishing` extends `Artifacts`; proofs in `RecordsProofs` |
| `AuthoringPlatform`, `DocumentSnapshot` | installation under file locks; copying a tree that is being saved | `DocumentSnapshot` extends `AuthoringPlatform`; proofs in `RecordsProofs` |
| `ServiceLifecycle`, `UnitFile` | service commands, upgrade; rendering and reading units | |
| `AuthToken` | the token file between processes | extends `StoreUpgrade`, for the property they share; proofs in `RecordsProofs` |
| `Picker` | the TUI's handlers and commands | |
| `UnifiedChat`, `UnifiedRelay`, `UnifiedTerminals`, `ZmxSupervisor` | the experiments | |
| `MCEventHub`, `MCThreads` | instances of those two | |
| `MCRecords`, `MCSessions`, `MCPrograms`, `MCLive` | instances of all the others, see section 3 | |

How the larger ones correspond to the code:

* **EventHub.** `run`, `nextSeq`, `ring`, `registered` are the fields of `Hub`;
  `stream`, `out` and `buf` are one handler per client: what `Subscribe`
  returned to be sent first, and the channel. A dropped subscriber's handler
  still drains its channel. The client follows `internal/api/events.go`: it
  keeps a `cursor` and refetches what an event names, everything on a resync.
  `stale` is what it knows it has to refetch, `behind` what really changed. A
  change of a view and its publication are two steps.
* **Threads.** One action per operation; the lock `ops` makes each one step.
  Several steps are the sweep (snapshot, look, act), the deletion of a terminal
  (row, then `TerminalRemoved`), and `Open` (decide, wait or launch, link,
  discard, finish). `writer`, `stray` and `untold` are ghosts: which
  conversation `Open` resumed where, which resumed terminals it lost control of,
  what changed without an event.
* **Terminals.** A create is prepare, commit, launch, verify; a delete is the
  intent in the row, the intent in the view, kill, remove, of which only the
  last is under the commit lock; a pass is inventory, decide, one read per absent
  session, apply, one kill per orphan. Sessions start, appear, hang and end by
  themselves; the report may or may not be written. An id is minted once and at
  most one delete of a terminal is under way: a second repeats idempotent steps.
* **LinearRelay.** `inbox` is the state of each delivery's row, `work` what the
  worker has in hand; the handler's effect and the record of it are two steps.
  `start` is the goroutine of a start, one step per write, call and answer; T3
  may carry out a command long after its answer was given up.
* **T3Mirror.** The shell stream's snapshot and deltas cross creations whose
  answers are uncertain and responses read late; an epoch per connection decides
  what still counts. T3 itself is external and does what it likes to its
  conversations.
* **CodexObserver.** Notifications are queued for a dispatcher, reads answer on
  goroutines of their own and may be overtaken; `handleMu` makes the application
  of one piece of evidence one step. A terminal's row may say missing and later
  running again, without its program having ended (`TerminalFlaps`); what arrives
  in between drops the pairing.
* **LinearOutbox.** The table is the sets of the rows that are due, to come, sent
  and refused; `ahead` is the order in which the due ones are listed. A pass
  takes the first of them (`Listed`), each session's goroutine sends the next of
  its own (`NextUp`) when a slot is free, and the record of what an attempt came
  to is a step after the attempt.
* **Artifacts, Publishing.** A version is a row and a directory; staging,
  renaming, inserting and deleting are separate steps with a crash or a failure
  between any two; the author's side keeps its package until it knows its result.
  A restart is the end of the server process: files and committed rows stay,
  what was under way does not. A loss of power is not modelled (section 6).
* **Picker.** A handler is one step that leaves commands under way; the answers
  come back in any order, later than anything.
* **ServiceLifecycle.** A command is killed between any two of its calls to the
  supervisor, which meanwhile relaunches what exits; an upgrade downloads, checks
  and runs the staged binary, swaps it under the running server and restarts by
  its policy; a status reads the unit, the supervisor and the process one after
  the other.
* **ServerProcess.** The configuration is a file under the environment under the
  flags (`Configurations` are the outcomes a boot tells apart), read before
  anything is opened; what boots is recorded with the setup it booted with.
* **DocumentSnapshot.** A copy reads one file after another while they are saved;
  the archive is staged, and a pending package is the one a retry sends again.

A database write that fails and changes nothing is a stuttering step; failures
that have an effect are explicit, cost one of `MaxFaults` (`MaxFailures`), and
`MaxCrashes` bounds the restarts. Data is reduced to what the properties tell
apart: a token is the number of its generation, a file the save it came from, a
message its place in the order.

## 3. Runs

| run | module | shows |
|---|---|---|
| `hub` | `MCEventHub` | `ReconnectCatchesUp`, `StreamCarriesChanges`, `PipeContinuesCursor`, `EventuallyFresh` and the types |
| `threads` | `MCThreads` | view against rows, identities, active projection, announcements |
| `threads_open` | `MCThreads` | `NoSecondResume`: two concurrent opens, terminals dying and deleted |
| `threads_turns` | `MCThreads` | `RecordsCoherent`, `ClaimsBacked`, `EndedTurnsFinal` under eight kinds of evidence in every order |
| `threads_live` | `MCThreads` | `OpenReturns`, `GoneTerminalsReleased` |
| `records` | `MCRecords` | what is kept in several places survives failures between them |
| `sessions` | `MCSessions` | what the server says of sessions is what they did |
| `programs` | `MCPrograms` | the programs and their peers, with failures, restarts and late answers |
| `live` | `MCLive` | what must happen happens; the outbox implements `OwedCalls` |
| `threads_claim`, `terminals_flap`, `publish_refused` | | violations, see section 6 |

**Suites.** `records`, `sessions`, `programs` and `live` each check several
components at once. These components share no state in the models, so a run
fixes in its initial state which component the behaviour is of (`part`), and its
steps are that component's alone; the state space is the disjoint union of the
instances. The variables `x1`, `x2`, ... stand for the component's variables in
the order its module declares them, and those it does not have are `Unused`. The
components with theorems about a property of a suite are extended by it and keep
their own variables, so that the property the run checks is the one the theorem
states: all of those in `MCRecords`; `Terminals`, `ClaudeHooks` and `CodexObserver`
in `MCSessions`; `CodexLaunch`, `LinearOutbox` and `WebhookIngress` in `MCPrograms`.
A property of a suite is a conjunction of the properties its modules state, each of its part; every conjunct but the types has been seen to fail under a
mutation of the code it is about.

| property | parts |
|---|---|
| `MentionsHonoured` | `AckedNotLost`, `OneConversation`, `StateReported` (LinearRelay) |
| `PublicationsHold` | rows with content behind them, bases that chain, orphans explained, links that resolve, copies that record their results (Artifacts, Publishing) |
| `CopiesSound` | `UsersUndisturbed`, `CurrentUsable`, `NoStandoff` (AuthoringPlatform); `BuiltFromOneMoment` (DocumentSnapshot) |
| `ProjectsHold` | no dangling project, nobody missed, directories distinct (Projects) |
| `FilesSurvive` | `BackedUpFirst` (StoreUpgrade); `HandedWasHeld`, `EnsuresAgree`, `TokenUntorn` (AuthToken) |
| `RecordsInStep`, `OnlyAdvances` | `ViewMatchesRows`, `KillCodeSuppressed`, `SpaceDeleteUnblocked`; `ExitedIsFinal`, `ReapsOnlyAbandoned` (Terminals) |
| `ObservesTruly` | `TruthWhenQuiet`, `NothingLiveUnobserved`, `ResumeTracked` (CodexObserver) |
| `HooksTruthful` | `RightConversation`, `StatusWhenQuiet`, `Revoked` (ClaudeHooks) |
| `StoreHolds` | `ReferencesHold`, `ThreadsMapped`, `VersionsDense`, `EvidenceKept` (RecordStore); `CapacityHeld`, `OldestDueFirst`, `DoneIsReported`, `PendingKept` (QueueStore); `LoadsWhatWasWritten`, `ListedInCreationOrder` (StoreRows) |
| `ServiceAsDescribed` | `UninstallTotal`, `DescribedByUnit`, `FlagsKept`, `BootPersistent`, `BinaryRuns`, `SkewEnds`, `StatusTruthful` (ServiceLifecycle); `UsesWhatIsUp`, `LeavesNothing` (ServerProcess); `FlagsComeBack`, `AcceptsOnlyRendered`, `FromTheRightPlace` (UnitFile); `RouteBehindListener` (DocumentOrigin) |
| `UnifiedTerminalsHold`, `ChatsHold` | the experiments' relay, terminals, supervisor; their chats |
| `OutboxHolds` | `StoryInOrder`, `PostedOnce`, `RefusalTold` (LinearOutbox) |
| `PeersHeld` | `FileHoldsGrant` (LinearCredential); `MirrorsT3`, `LiveOnlyWhileHeld`, `ResponseOfItsTurn` (T3Mirror); `OneSessionInT3` (T3Pairing); `HandledInOrder` (T3Rpc) |
| `LaunchesBind` | `BindingsDistinct`, `WindowHonoured`, `PromptKnown` (CodexLaunch) |
| `ExposureSound` | `ExposedIsolated`, `ServesIsolated`, `ExhaustedOnlyBroken` (WebhookIngress) |
| `PickerTruthful` | `RowsAreTheSpaces`, `LoadingAnswered`, `RetryAlive`, `AttachWanted` (Picker) |
| `SettlesWithT3` | the mirror ends in step with T3; pairing ends in a session T3 takes |
| `StopsReturn` | T3's connection, the document origin, the ingress, the server |
| `NobodyLeftWaiting` | a T3 command, a Codex launch for its directory, a settling terminal, a Linear user for the result, a supervisor for its banner |
| `WorkGetsDone` | the Linear probe comes back; a mention is acted on; an orphan is reaped; a T3 subscription ends with its socket |
| `ShownAsTheyAre` | a terminal that runs does not stay missing or unreachable, one that is gone does not stay running (Terminals) |

**Refinement.** `OwedCalls` says what the Linear outbox promises: a call that is
owed is made, once, or refused for good, and every owed call is settled in the
end. `LinearOutbox` maps its tables, batches, retries and what Linear has seen
to the status of each call (`CallStatus`); a lost answer, a crash between answer
and record, and a pruned row are stuttering steps or owe the call anew.
`ImplementsOwedCalls` checks it, with `OwedCalls`' fairness.

**Bounds.** A ring of 2 and a channel of 1 make overflow, dropping, replay of
part of the ring and a cursor just outside the window all happen within four
events; `TwoRuns` puts the second run's numbers below the first's, so old
cursors are "in the future" of the new hub. Two conversations, two terminals and
two thread ids are the smallest instance in which an occupant is displaced and a
conversation moves; `NoSecondResume` needs a third terminal. In `Terminals` one
terminal suffices because passes treat terminals independently; spaces interact
only through the terminals they own. A queue's capacity, a buffer, a batch is one
or two, so that it is full as soon as there is a second. Two processes (of two
builds, and a third for the platform and the token) contend for a file. Two
conversations are what a terminal can be bound to wrongly; three generations of
a token or session are a current one, its predecessor and its successor. One
failure and one crash are enough for each step of every operation to be the one
that is interrupted; where a retry must itself fail there are two (`T3Pairing`,
`StoreUpgrade`, `AuthoringPlatform`). Two instances of
`UnifiedChat`, `T3Mirror` and `Picker` spend the bounds
differently, one on failures and one on length; so do the two parts of
`Publishing`, by guards on its steps: two publications with a failure and a
restart (`MaxTroubled`), or three with neither, of versions of one artifact; and
those of `CodexObserver`: two terminals one after the other over one connection, or one
terminal over two connections with a loss. A behaviour of the parts `linearrelay`
and `sessions` meets a fault or a restart, not both (`MaxSetbacks`); `Honoured` and the
theorems about `Terminals` have neither bound. `MaxTroubles` bounds two kinds of setback
together for three of the programs. With the picker's
ids at three and two, a space it creates does not get as far as its first terminal's success. The
bounds of a component are at its `INSTANCE` in the MC module, or in the cfg. Deadlock is not checked except for the hub:
a bounded instance runs out of ids, events or faults.

Restrictions other than bounds: `NoSecondResume` with `LateSessions` FALSE,
`ClaimsBacked` with `MaxFailures` 0 and no `Openers` (section 6 says why in both
cases); the terminals of `live` without sessions that stop responding, which are
neither shown as running nor reaped while they do;
`threads_open` leaves out the sweep, which only acts on terminals `Open` takes to
be gone; `UnitFile` reads plists of one top-level dictionary, as
ATC writes them; `StopsReturn` takes the server without an exposure.

**Fairness.** Assumed of the program's own loops, timers and goroutines, weakly:
they go on (`FairStep` in `MCLive` lists them by component; `Fairness` in
`EventHub` and `Threads`). Strongly, where a step competes: a message that is
ready again and again is eventually sent; an inventory tried again and again is
at times complete and a kill at times works (`WholePass`, `Reaps`); a goroutine
that keeps asking for `renewMu` gets it, as Go's mutex guarantees; the `select`
of a loop that is cancelled is not won by its ticker for ever (`LoopEnds`). A failure
is an exception, so what is tried again succeeds in the end. Nothing is assumed
of users, hooks, webhook senders, Linear, T3, Codex or Tailscale, except that a
session that is starting either appears or ends and that a killed child dies.

## 4. Proofs

Every theorem is of a specification as the runs check it, with the bounds on
failures, restarts and events left as arbitrary constants. Each rests on one
inductive invariant, which TLC checked on the instance of the run before it was
proved; the conjuncts named below are the reasons the property holds.

| module | theorems | assumed of the constants |
|---|---|---|
| `EventHubProofs` | `TypeCorrect`, `CatchUp`, `Carried`, `Joins` | `HubAssumption` |
| `ThreadsProofs` | `Safe`, `TypeCorrect`, `ViewInStep`, `OneThread`, `OpenOnce`, `Announced`, `Coherent`, `EndedFinal`, `NoSecond`, `Backed` | those `Threads` declares; `NoSecond` that `LateSessions` is FALSE, `Backed` that no write fails and nobody opens by request |
| `TerminalsProofs` | `InStepAlways`, `Advances` | those `Terminals` declares |
| | `ObserverTellsTruth` | `ObserverAssumption`: a turn at least, the other bounds are naturals; the mark for none is no terminal, evidence, pairing or record |
| `RecordsProofs` | `Honoured` | those `LinearRelay` declares |
| | `Agree` | `PathsAndIds`: directories are sequences of names, ids are not the marks for none |
| | `PublicationsAlwaysHold` | `ArtifactsAssumption`, `CopiesAssumption`: the marks for no artifact, holder, request and owner are none of them; the bounds are naturals |
| | `AuthoringSound` | `NoneOfThem`: the marks for no process and no version are none; `SomethingToBuild`: a file, an attempt and a build at least |
| | `FilesKept` | `Schemas`, `TokenBounds`, `NoContents`: the bounds are naturals with a migration at least; the mark for no file is no contents |
| `CodexLaunch` | `BindRight` | `Identifiers`: finitely many threads, none called nobody |
| `ClaudeHooks` | `HooksHold` | `LaunchAssumption`: no conversation is called none; the bounds are naturals |
| `LinearOutbox` | `OutboxHeld`, `KeepsPromise` | `Keyed`: keys are pairs of a session and a purpose, finitely many sessions |
| `WebhookIngress` | `ExposesIsolated` | `BoundsAssumption`, `ConnsAssumption`: the bounds are naturals, and there is a connection |

**EventHub.** `HubAssumption` says that the windows of numbers of two runs do not
meet (the code draws the base of a run from 2^50 values), that the all-ones
cursor is beyond every window, and that there are finitely many resources.
Neither `ReconnectCatchesUp` nor `StreamCarriesChanges` is inductive. `HubInv`
adds why they hold: `RoomLeft` (what is unannounced still fits the window of the
run), `RingShape` (the ring is the consecutive numbers up to `Newest`), and for
each client `OutShape` and `BufShape` (what is under way is ordered, of this run,
and the ring's own entry while the ring has it), `CursorShape` (a cursor lies in
the window of this run or of an earlier one), `DroppedShape` (a dropped stream
still delivers a change, or every message left in it is older than that change).
The hard steps are `Subscribe` (nothing between the cursor and `Newest` is missing
from the replay, or the cursor is off the ring and the resync carries
everything), `Publish` with an overflowing ring (an entry pushed off the ring
makes every older cursor resync) and `Restart` (old cursors fall outside the new
window). `Joins` has an invariant of its own, `PipeInv`: what is under way
continues the cursor one by one, and up to `Newest` while the hub has the client.

**Threads.** `SafeInv` is what every step keeps: each row is storable and coherent
under a turn id already given out (`RecordSound`), the view is the rows, the
identities and the active projection are injective, an open that owns a resume
is the only one to have marked its thread (`OpensSound`). The evidence policy of
`turns.go` is treated once, in lemmas about the operators of `ThreadRecord`: what
each does to a coherent record, and that an ended turn stays as it ended, from
which `EndedFinal` follows step by step. `NoSecond` needs `ResumeInv` on top:
every resume that is up is linked or is about to be linked or discarded
(`ResumesLinked`), while an open resumes a thread the only resume of it that is
up is its own (`OwnResumeOnly`), and a resumed terminal holds the conversation it
resumed (`ResumesHold`). It supposes that no session comes up after its launch
was counted as failed: section 6 says what the code does then. `Backed` needs one
fact more, `HeldLinked`: what a terminal has open is linked to it, so the store takes
the coercion of whatever is displaced, and a deleted terminal's thread is found
by its link. Both are false once an `Open` links a thread elsewhere
(`threads_claim`), hence its hypotheses: they are those of `threads_turns`.

**Terminals.** `RecordsInv` ties three clocks together. A create's progress bounds
what may exist (`LifeSound`: no record before `Committed`, no session before
`Started`). The view lags behind the row only by evidence a pass has found and
not applied, and by the intent of a delete that has not moved it (`InStep`). The
code of a kill rests on who saw the intent first: a kill comes after its intent
is in the view (`KillsSound`), so a pass that decided without the intent, and
finds the code, was overtaken by it (`DecisionSound`). A pass's conclusions stay compatible with records that
change under it (`ConclusionSound`): nothing is concluded about a settling
terminal, and an exit once known is never concluded away. `SpacesSound` is the
space deletion's count: what it has not counted is not in the space.

**CodexObserver.** `ObserverInv` follows what was received and not yet recorded: the
queue, the replies of the connection there is, and what is being applied
(`Pending`). Frames are in order and the last one says how the server stands
(`WireSound`, `ServerSound`); as long as something pending would count, so would
the last word (`NewestSound`); hence the record of an established pairing says
what the server says unless a read will be answered, the last word is pending, or
a word from before the resume is still to come (`TruthSound`). What is being
applied was the newest when it was looked at, and if its pairing was replaced
meanwhile, the terminal it was of is gone or was cut off while its row said missing (`BusySound`), so a late record neither
establishes nor untracks the new pairing. A status the record shows as live is one
the pairing forwarded, which a teardown coerces (`LiveSound`). The hard case is the
end of a turn, which has no status of its own: it is followed on the wire by one,
and no resume falls between the two (`PairSound`). `ResumeTracked` is of the terminals
nothing has cut off: the end of the session does, and so does what arrives while
the row says missing. The evidence policy of `turns.go`
enters by what it leaves of a status claim (`StatusApplied`, `CoercedRecord`).

**LinearRelay.** `RelayInv` says of the worker, of the session loop's list and of
every start what their next write rests on, however old their reading is: the
delivery in hand is due and took effect before it is completed (`InboxSound`); a
row listed as started is as the list has it, since nobody but the loop writes a
started row (`ListSound`); a start that has answered is named by its row
(`StartSound`), and no two starts have a thread in common (`OwnThread`).

**Projects.** `ProjectsInv` follows the threads domain's mutex through deletion and
backfill (`ViewSound`, `OpsSound`), and counts the rescans owed: a thread that is in no
project although one contains it is one that a rescan owed, or the backfill under
way, will place (`Overlooked`). `MostSpecificContains`, that the deepest of the
projects around a directory exists and is one of them, rests on the
well-foundedness of the naturals.

**Publishing.** The restarts are the server's, at which files and committed rows
stay. `PublishingInv` has a half for the server and one for the copies.
The server's says what a request's place in its handler has established: who has
the mutex is placing, recording or erasing (`MutexSound`), acts on the current
version and on a publication id that is in no row yet, and what it placed is
synced and nobody else's (`PlacingSound`); what was read without the mutex names
versions that are there, or whose artifact is gone for good (`RequestSound`,
`ReaderSound`), since versions go only with their artifact and an artifact that
was deleted does not come back (`VersionsSound`). Every directory without a row
has somebody who will see to it (`OrphansTraced`). The copies' half ties a frozen
package to the requests under its id, however many attempts are in the server
(`PackageSound`), to the version made of it, and to the record: a package for an
artifact names the one recorded and its base (`CopySound`), an answer "ok" the
version of the publication (`AnswerSound`), and a publication that is neither in
the rows nor given up is the copy's pending one (`OwnerSound`). Whether a package
was answered as a refusal is not used: that a refusal can be wrong is
`publish_refused`, and `RecordFollows` excepts it.

**AuthoringPlatform, DocumentSnapshot.** `PlatformInv` is what the file lock is for:
nobody shares it while somebody has it to himself (`LockSound`), whoever has it has
so far linked what he ships (`InstallSound`), and what a killed removal has torn is
remembered (`TornExplained`). Between giving up the exclusive lock and getting the
shared one nothing is known, hence `outrun`. `SnapshotInv` is the argument the code
leaves implicit in comparing two manifests: a file's saves only grow, so the document
as it was when the copy began lies, file by file, between the first manifest and the
copy, and the copy between it and the second (`WalksSound`); where the manifests
agree, the copy is that document. What was copied, archived, staged and frozen then
stays one document's (`PackagesSound`).

**StoreUpgrade, AuthToken.** `UpgradeInv`: until its backup is whole a run finds the
database as it found it, in two files that are read as one (`BackupSound`), which is
why a log of an earlier backup must not stay beside the new one. `TokenInv`: a token
is handed out of the file or into it, and those the callers of `Ensure` agreed on
since the last replacement are the file's. `FilesKept` also proves the action
property `TokenUntorn`.

**CodexLaunch.** Windows follow one another in a directory; what keeps them apart is
the sequence on the wire. `WindowSound`: what is a candidate was announced after
the window was armed, what was bound, or heard in an earlier window, before.

**ClaudeHooks.** `HooksInv` has two halves. Whatever was lost (`Grounds`), what the
threads were told of the shown conversation is what the launch's state is of, or
what the next root prompt would seed it with (`ShownFirst`), so no straggler
projects another one; a delivery holds the launch's lock only before the revocation returns
(`LaunchSound`). With nothing lost (`ClearTruth`), at most one conversation is current,
from the application of its start to that of its end: the launch's state is its own,
and the tracker's root and agents, with the posts under way, are the program's
(`CurrentSound`). Root posts are awaited one by one; an agent's come beside them, so
what decides the level of agents is the latest post that sets it. Between two
conversations the one that ended is at rest and nothing of the next is under way
but its start (`BetweenSound`).

**LinearOutbox.** `OutboxInv` says that a row nobody failed at and Linear does not
show is listed before all that were queued after it (`AheadSound`) and, if one of
them is in a batch, is in that batch (`BatchSound`), so that the one that goes out
next leaves none behind (`FirstOut`); a receipt that is pruned leaves a trace, in
Linear or as a failed attempt (`RowsSound`). `KeepsPromise` is the step simulation of
`ImplementsOwedCalls`: the initial states map to `OwedCalls`', and each step maps
to an `Owe`, a `Make`, a `Refuse`, a `Forget` or a stutter.

**WebhookIngress.** `IngressInv` is short: the supervisor is under way only while Core
exposes or withdraws, and the child only while the supervisor attends it
(`SupervisorSound`); Core exposes only on a report of success, which only a receiver
with its isolation makes (`ReceiverSound`); and the four places of a connection add
up to the pool's size, so that an empty pool with a request to spare means a broken
one (`PoolSound`).

**Only model-checked.** Liveness under fairness, and so the fairness half of
`ImplementsOwedCalls`, is out of the prover's reach. The properties of the suites
that range over several modules (`ServiceAsDescribed`, `UnifiedTerminalsHold`, `ChatsHold`,
`PeersHeld`) and the action properties among them are checked by TLC alone.
What a recursive definition computes is nowhere part of a proof.

## 5. Hazards

`PROJECT.json` lists them with their lines. One has no property: that a resume
nobody linked, or that was counted as gone, runs on. The code accepts it.
Others carry a note saying how far their property goes. One more is covered by
`CopiesSound`: an editor that saves while its document is copied
(`authoring/build.go:137`).

## 6. Where the code departs from its comments

Each of these is a run that TLC must find violated.

* `threads_claim`. `TerminalRemoved` finds threads by their link. A thread that
  `Open` linked elsewhere while the old terminal still displayed it is not
  found when the old terminal is deleted: its active entry goes, its live
  status stays.
* `terminals_flap`. The settling mark is looked at when a pass decides and when
  it applies, not when the inventory is taken: a session that appears, and
  settles, between inventory and decision is recorded as missing until the next
  pass.
* `publish_refused`. `store.Publication` reads the version and then the
  publication in two statements. When the first attempt commits in between, its
  retry is answered that the artifact is gone; the client drops the package, and
  the next publish makes a second artifact.

Met on the way and stated in the modules as formulas no run checks:

* `Terminals!KillCodeSuppressed` without its exception (`history.overtaken`): the
  stop intent is read in a pass's first phase (`terminals/service.go:252`) and used
  after the reports are read, so when a delete falls in between, the code of its
  own kill is recorded as the program's.
* `Terminals!MovesAsOne`: "database write, view change, and event publish move as
  one unit" (`terminals/service.go:75`), but `Delete` and the reconcile pass write
  the row without `ops` and move the view later.
* `CodexObserver`, `ResumeTracked` without its exception: `terminalLive` drops a
  pairing when the terminal has "definitively left", and takes `missing` for that
  (`codex/observer.go:399`), which an inventory that lists the session again
  reverts; the terminal then runs its resumed conversation unpaired.
* `ServiceLifecycle!UninstallAlways`: "the one total undo for start's registration"
  (`service/lifecycle.go:254`). A first start whose `enable` or `start` failed,
  though systemd carried it out, removes its unit again, and the uninstall that
  follows finds none and succeeds over the running server; where `systemctl` is not
  found, the unit is removed under it.
* `ZmxSupervisor!NoPhantomAtAll`: an attach to a session that is gone looks once,
  a poll interval after it began (`terminal/zmx.go:207`); a replacement listed later
  stays, and the next reconcile takes it for the session.
* `UnifiedTerminals!LegacySpared`: a cleanup counts the ids of the records as
  managed (`core/service.go:644`), not the older names a migrated record's session
  still has, and sweeps that session.
* `ServiceLifecycle!DescribedAlways`: a unit that is restored after a failed
  start is not reloaded (`service/lifecycle.go:149`).
* `StoreUpgrade!RecoveryPath`: a second boot after a migration that failed
  half-way writes its backup over the first (`store/store.go:48`).
* `T3Pairing!RefusedNotPresented`: when a refused session cannot be revoked its
  file is read again (`t3code/service.go:442`).
* `ServerProcess!FailureEndsServer`: an exposed server whose listener failed
  waits for the exposure, which only a signal cancels (`cmd/atc/main.go:856`).

Limits to know, accepted by the code or harmless: `Open` links a launch that was
not verified "so the thread stays bound to the session that may yet appear"
(`threads/service.go:1276`) and yet counts a `missing` terminal as gone, so two
writers are possible if it appears late; a conversation somebody opens by hand in
another terminal while a resume of it launches has a second writer too, which
`NoSecondResume` does not count, since no `Open` put it there; a grant of Linear whose answer is
lost, late or unreadable (`linear/api.go:213`), a crash or a failed write before it
is saved loses the refresh token; a loss of power is not modelled, at which SQLite,
with its log and `synchronous(NORMAL)` (`store/store.go:39`), may roll back what it
had committed, so that rows come back whose content `Delete` has removed, or an
acknowledged version is gone; elsewhere than on Linux, the Tailscale child of a
server killed by its second signal goes on (`tailscale/proc_other.go`), which
`LeavesNothing` excepts; a thread whose write failed in the T3
mirror is not corrected until its next event; a T3 session with another scope is
left behind in T3 by every retry; when the observation of a resumed conversation
fails, its terminal projects the previous one until its next hook
(`claude/hooks.go:304`), which is why `RightConversation` starts once the threads were told; a leftover content directory blocks the next
publication of its number until the boot's reconciliation; two hosts of the zmx
experiment over one state directory overwrite each other's records.

## 7. Not modelled

* **Integration catalog**: a table fixed at boot and reads of the integrations'
  own states.
* **Process placement**: one `systemd-run` call per launch.
* **HTTP handlers, API types, client, command line**: decoding, error mapping and
  printing around the domains; they keep no state between two calls.
* **Paths, ids, remote access**: lookups and SSH configuration; ids enter the
  models as fresh values. Of the configuration, `ServerProcess` has the layers
  and their validation, not the parsing of the file.
* **The other experiments**, the play TUI, the Codex bridge and the agent status
  files: probes and prototypes the program does not use; most of their lines are
  rendering and command plumbing.
* Within modelled parts: the seccomp filter and namespaces (kernel
  configuration; they appear by whether they isolate), PTYs, downloads,
  checksums, npm and the bundler (external), the writing of a plist, HTML,
  rendering, wording and logging. The server's exit code after a stop that had to
  cut off an open event stream is not modelled.

What is left to do is proof: `FileHoldsGrant` for `LinearCredential`; `MirrorsT3` for
`T3Mirror`.
