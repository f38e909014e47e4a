---------------------------- MODULE ClaudeHooks -----------------------------
(***************************************************************************)
(* What the Claude integration makes of one terminal's hook deliveries     *)
(* (internal/integrations/claude, internal/integrations/hookauth).  The    *)
(* program posts an event for everything that happens in a conversation;   *)
(* the launch's secret says which terminal it is for, a per-launch state   *)
(* says which conversation the terminal shows, and a reducer makes one     *)
(* status of the root and the background agents.  The state is lost when   *)
(* the server restarts, the secret is not.                                 *)
(*                                                                         *)
(* The program waits for a root hook's answer, but not longer than curl    *)
(* does, and background agents post beside it -- of conversations the      *)
(* terminal no longer shows, too.  A waiting status stands for both kinds. *)
(***************************************************************************)
EXTENDS Naturals, FiniteSets, TLAPS

CONSTANTS
    Sessions,     \* conversations
    MaxEvents,    \* bound: hook events
    MaxFaults     \* bound: timeouts, failed observations, restarts

ASSUME LaunchAssumption == "none" \notin Sessions /\ {MaxEvents, MaxFaults} \subseteq Nat

VARIABLES
    terminal,     \* the terminal row: none, running, deleted
    header,       \* the secret's file
    registered,   \* the secret resolves
    revoking,     \* the deletion's step: no, removed, done
    st,           \* the launch's state: session
    shown,        \* the conversation the program shows
    prompted,     \* conversations that had a prompt
    root,         \* what the root of the shown conversation does
    agents,       \* conversations with a background agent at work
    events,       \* events posted so far
    posts,        \* deliveries under way
    locked,       \* the delivery that has the launch's lock, or 0
    known,        \* the threads domain: conversations with a thread
    active,       \* the one the terminal shows there
    statuses,     \* their statuses
    lost,         \* history: evidence was lost, or came out of order
    strayed,      \* history: a SessionStart was abandoned by its curl
    told,         \* history: the threads know what they need of the shown conversation
    trespass,     \* history: a delivery was applied after the secret was revoked
    faults

hookVars == <<terminal, header, registered, revoking, st, shown, prompted, root, agents, events,
              posts, locked, known, active, statuses, lost, strayed, told, trespass, faults>>
programVars == <<shown, prompted, root, agents>>
domainVars == <<known, active, statuses>>
launchVars == <<terminal, header, registered, revoking>>
historyVars == <<strayed, trespass, faults>>

Nobody == "none"
Live == {"working", "waiting"}

(* The reducer: the root's status and the background agents known of. *)
NewTracker == [root |-> "idle", agents |-> {}]
SeededTracker == [root |-> "unknown", agents |-> {}]
Blank == [session |-> Nobody, established |-> FALSE, ended |-> FALSE, titled |-> FALSE,
          tracker |-> SeededTracker]

Kinds == {"start", "prompt", "tool", "ask", "stop", "endClear", "endExit", "agentStart",
          "agentTool", "agentStop"}

Ends == {"endClear", "endExit"}

(* tasks: the level snapshot of the conversation's background work that    *)
(* rides a stop, in which a stopping agent is still listed.                *)
Post == [n : 1 .. MaxEvents, session : Sessions, kind : Kinds, tasks : BOOLEAN,
         step : {"posted", "found"}, waited : BOOLEAN]

HooksTypeOK ==
    /\ terminal \in {"none", "running", "deleted"} /\ header \in BOOLEAN /\ registered \in BOOLEAN
    /\ revoking \in {"no", "removed", "done"}
    /\ st.session \in Sessions \cup {Nobody} /\ st.tracker.agents \subseteq Sessions
    /\ shown \in Sessions \cup {Nobody} /\ prompted \subseteq Sessions /\ agents \subseteq Sessions
    /\ root \in {"idle", "gone"} \cup Live /\ events \in 0 .. MaxEvents /\ posts \subseteq Post
    /\ locked \in 0 .. MaxEvents /\ known \subseteq Sessions
    /\ active \in known \cup {Nobody}
    /\ statuses \in [Sessions -> {"idle", "unknown"} \cup Live]

HooksInit ==
    /\ terminal = "none" /\ header = FALSE /\ registered = FALSE /\ revoking = "no" /\ st = Blank
    /\ shown = Nobody /\ prompted = {} /\ root = "idle" /\ agents = {} /\ events = 0
    /\ posts = {} /\ locked = 0
    /\ known = {} /\ active = Nobody /\ statuses = [s \in Sessions |-> "unknown"]
    /\ lost = FALSE /\ strayed = FALSE /\ told = FALSE /\ trespass = FALSE /\ faults = 0

Fault == faults < MaxFaults /\ faults' = faults + 1

-----------------------------------------------------------------------------
(* The launch.                                                             *)

(* Prepare writes the secret's file and registers it, before the row. *)
Prepare ==
    /\ terminal = "none" /\ ~registered
    /\ header' = TRUE /\ registered' = TRUE /\ st' = Blank
    /\ UNCHANGED <<terminal, revoking, programVars, events, posts, locked, domainVars, lost,
                   told, historyVars>>

Launched ==
    /\ terminal = "none" /\ registered /\ terminal' = "running"
    /\ UNCHANGED <<header, registered, revoking, st, programVars, events, posts, locked, domainVars,
                   lost, told, historyVars>>

(* The terminal is deleted; Deregister revokes the secret, then waits for  *)
(* the delivery that has the lock.                                         *)
Delete ==
    /\ terminal = "running" /\ terminal' = "deleted" /\ registered' = FALSE
    /\ revoking' = "removed" /\ shown' = Nobody
    /\ UNCHANGED <<header, st, prompted, root, agents, events, posts, locked, domainVars, lost,
                   told, historyVars>>

Barrier ==
    /\ revoking = "removed" /\ locked = 0
    /\ revoking' = "done" /\ header' = FALSE
    /\ active' = Nobody  \* TerminalRemoved
    /\ statuses' = IF active = Nobody THEN statuses
                 ELSE [statuses EXCEPT ![active] = IF @ \in Live THEN "unknown" ELSE @]
    /\ UNCHANGED <<terminal, registered, st, programVars, events, posts, locked, known, lost,
                   told, historyVars>>

(* The server restarts: LoadRegistrations keeps the files of terminals     *)
(* that are there and discards the others; deliveries under way fail.      *)
HooksRestart ==
    /\ Fault
    /\ registered' = (header /\ terminal = "running") /\ header' = registered'
    /\ revoking' = IF revoking = "removed" THEN "done" ELSE revoking
    /\ st' = Blank /\ posts' = {} /\ locked' = 0
    /\ active' = Nobody /\ lost' = TRUE
    /\ statuses' = [s \in Sessions |-> IF statuses[s] \in Live THEN "unknown" ELSE statuses[s]]
    /\ UNCHANGED <<terminal, programVars, events, known, told, strayed, trespass>>

-----------------------------------------------------------------------------
(* The program and its posts.                                              *)

(* The program waits for the answers to its root hooks. *)
Free == \A p \in posts : ~p.waited

Say(s, kind, waited) ==
    /\ events < MaxEvents /\ events' = events + 1
    /\ posts' = posts \cup {[n |-> events', session |-> s, kind |-> kind,
                             tasks |-> s \in agents, step |-> "posted", waited |-> waited]}

(* What the program's steps leave alone. *)
Elsewhere == UNCHANGED <<launchVars, st, locked, domainVars, historyVars>>

(* A conversation is shown, first of all or after a clear or resume; what  *)
(* its agents did meanwhile was not attended to.                           *)
SessionStart(s) ==
    /\ terminal = "running" /\ shown = Nobody /\ root # "gone" /\ Free /\ Say(s, "start", TRUE)
    /\ shown' = s /\ root' = "idle" /\ told' = FALSE
    /\ lost' = (lost \/ s \in agents)
    /\ UNCHANGED <<prompted, agents>> /\ Elsewhere

Root(kind, to) ==
    /\ shown # Nobody /\ Free /\ Say(shown, kind, TRUE) /\ root' = to
    /\ UNCHANGED <<shown, agents, lost, told>> /\ Elsewhere

Prompt == root = "idle" /\ Root("prompt", "working") /\ prompted' = prompted \cup {shown}
Tool == root \in Live /\ Root("tool", "working") /\ UNCHANGED prompted
Ask == root = "working" /\ Root("ask", "waiting") /\ UNCHANGED prompted
Stop == root = "working" /\ Root("stop", "idle") /\ UNCHANGED prompted

(* A clear or a resume is typed at the prompt; the program may exit        *)
(* whatever it does.                                                       *)
SessionEnd(kind) ==
    /\ shown # Nobody /\ Free /\ Say(shown, kind, TRUE) /\ shown' = Nobody
    /\ kind = "endClear" => root = "idle"
    /\ root' = IF kind = "endExit" THEN "gone" ELSE root
    /\ UNCHANGED <<prompted, agents, lost, told>> /\ Elsewhere

AgentStart ==
    /\ shown \in prompted \ agents /\ root = "working" /\ Free /\ Say(shown, "agentStart", TRUE)
    /\ agents' = agents \cup {shown}
    /\ UNCHANGED <<shown, prompted, root, lost, told>> /\ Elsewhere

(* An agent posts one event after another, whatever the root does. *)
Agent(s, kind) ==
    /\ s \in agents /\ terminal = "running"
    /\ \A p \in posts : p.session = s => p.kind \notin {"agentTool", "agentStart"}
    /\ Say(s, kind, FALSE)
    /\ agents' = IF kind = "agentStop" THEN agents \ {s} ELSE agents
    /\ UNCHANGED <<shown, prompted, root, lost, told>> /\ Elsewhere

(* curl gives up after five seconds; the server goes on. *)
TimeOut(p) ==
    /\ p \in posts /\ p.waited /\ Fault
    /\ posts' = (posts \ {p}) \cup {[p EXCEPT !.waited = FALSE]}
    /\ lost' = TRUE /\ strayed' = (strayed \/ p.kind = "start")
    /\ UNCHANGED <<launchVars, st, programVars, events, locked, domainVars, told, trespass>>

-----------------------------------------------------------------------------
(* Deliveries.                                                             *)

(* Deliver resolves the secret. *)
Find(p) ==
    /\ p \in posts /\ p.step = "posted"
    /\ posts' = IF registered THEN (posts \ {p}) \cup {[p EXCEPT !.step = "found"]}
                ELSE posts \ {p}
    /\ lost' = (lost \/ ~registered)
    /\ UNCHANGED <<launchVars, st, programVars, events, locked, domainVars, told, historyVars>>

(* Fault: who owns the secret is not looked at again. *)
StillOwnedAlways == TRUE

StillOwned == registered

(* It takes the launch's lock and verifies the ownership under it. *)
Lock(p) ==
    /\ p \in posts /\ p.step = "found" /\ locked = 0
    /\ IF StillOwned THEN locked' = p.n /\ UNCHANGED posts
                     ELSE posts' = posts \ {p} /\ UNCHANGED locked
    /\ UNCHANGED <<launchVars, st, programVars, events, domainVars, lost, told, historyVars>>

(* threads.Rank of the root and the agents. *)
Aggregate(tracker) ==
    IF tracker.root = "waiting" THEN "waiting"
    ELSE IF tracker.agents # {} \/ tracker.root = "working" THEN "working" ELSE tracker.root

(* Fault: a snapshot is taken at its word, after the event. *)
ReduceSnapshotLast(tracker, p) ==
    [root |-> CASE p.kind \in {"prompt", "tool"} -> "working"
                [] p.kind = "ask" -> "waiting"
                [] p.kind = "stop" -> "idle"
                [] OTHER -> tracker.root,
     agents |-> IF p.tasks THEN {p.session}
                ELSE IF p.kind \in {"agentStart", "agentTool"} THEN {p.session}
                ELSE IF p.kind \in {"agentStop", "stop"} THEN {} ELSE tracker.agents]

(* tracker.apply: the snapshot first, then the event, which subtracts the  *)
(* agent that stops.                                                       *)
Reduce(tracker, p) ==
    LET levelled == IF p.kind \in {"stop", "agentStop"}
                    THEN (IF p.tasks THEN {p.session} ELSE {}) ELSE tracker.agents
    IN  [root |-> CASE p.kind \in {"prompt", "tool"} -> "working"
                    [] p.kind = "ask" -> "waiting"
                    [] p.kind = "stop" -> "idle"
                    [] OTHER -> tracker.root,
         agents |-> CASE p.kind \in {"agentStart", "agentTool"} -> levelled \cup {p.session}
                      [] p.kind = "agentStop" -> levelled \ {p.session}
                      [] OTHER -> levelled]

(* The domain's part: the session observed, a status, the terminal left.   *)
ObserveSession(s, to, claim) ==
    [known |-> to.known \cup {s}, active |-> s,
     status |-> IF claim = Nobody THEN to.status ELSE [to.status EXCEPT ![s] = claim]]

ObserveStatus(s, to, claim) ==
    IF s \notin to.known \/ (claim \in Live /\ to.active # s) THEN to
    ELSE [to EXCEPT !.status[s] = claim]

(* Fault: the conversation that is left stays the active one. *)
DeactivateNothing(to) == to

Deactivate(to) ==
    IF to.active = Nobody THEN to
    ELSE [to EXCEPT !.active = Nobody,
                    !.status[to.active] = IF @ \in Live THEN "unknown" ELSE @]

Domain == [known |-> known, active |-> active, status |-> statuses]
Becomes(to) == known' = to.known /\ active' = to.active /\ statuses' = to.status

(* After a restart only a root prompt seeds the launch: the one event a    *)
(* conversation that is not shown cannot produce.                          *)
Seeds(p) == p.kind = "prompt"

(* The launch's state with the payload admitted; no state if it is refused. *)
Admitted(p) ==
    IF p.kind = "start"
    THEN IF p.session = st.session THEN {[st EXCEPT !.ended = FALSE]}
         ELSE {[Blank EXCEPT !.session = p.session, !.tracker = NewTracker]}
    ELSE IF st.ended THEN {}
    ELSE IF st.session = Nobody
    THEN IF Seeds(p) THEN {[st EXCEPT !.session = p.session, !.tracker = SeededTracker]} ELSE {}
    ELSE IF p.session = st.session THEN {st} ELSE {}

(* Done with the delivery: the answer goes out and the lock is released. *)
Done(p) == posts' = posts \ {p} /\ locked' = 0

Overtakes(p) == \E q \in posts : q.session = p.session /\ q.n < p.n

(* The domain has to be told of the conversation: one it knows when it     *)
(* starts; later one that had a prompt, or that it knows and could not be  *)
(* told of before.                                                         *)
Needs(p, s) ==
    IF p.kind = "start" THEN p.session \in known
    ELSE /\ ~s.established
         /\ s.titled \/ p.kind = "prompt" \/ (p.kind \notin Ends /\ p.session \in known)

Refuse(p) ==
    /\ Admitted(p) = {}
    /\ lost' = (lost \/ p.session \in {shown, st.session} \/ Overtakes(p))
    /\ UNCHANGED <<st, domainVars, told, faults>>

(* Taken with state s.  A failed observation leaves the session to be      *)
(* established by the next event; a conversation the domain knows nothing  *)
(* of displaces what the terminal had.                                     *)
Take(p, s, ok) ==
    LET needs == Needs(p, s)
        can == ok /\ terminal = "running"
        new == p.kind = "start" /\ p.session # st.session
        seen == IF needs /\ can
                THEN ObserveSession(p.session, Domain, IF new THEN "idle" ELSE Nobody) ELSE Domain
        titled == s.titled \/ p.kind = "prompt"
        established == IF needs THEN can ELSE s.established
        tracker == Reduce(s.tracker, p)
    IN
    /\ ok \/ needs
    /\ IF ok THEN UNCHANGED faults ELSE Fault
    /\ lost' = (lost \/ (needs /\ ~can) \/ Overtakes(p))
    /\ told' = (told \/ (p.session = shown /\ IF needs THEN can ELSE p.kind = "start"))
    /\ CASE p.kind = "start" ->
              /\ st' = [s EXCEPT !.established = established]
              /\ Becomes(IF ~needs /\ new THEN Deactivate(Domain) ELSE seen)
         [] p.kind \in Ends ->
              /\ st' = [s EXCEPT !.ended = TRUE, !.established = established,
                                 !.tracker = SeededTracker]
              /\ Becomes(IF p.kind = "endExit" THEN Deactivate(seen) ELSE seen)
         [] OTHER ->
              /\ st' = [s EXCEPT !.titled = titled, !.established = established,
                                 !.tracker = IF established THEN tracker ELSE s.tracker]
              /\ Becomes(IF established
                         THEN ObserveStatus(p.session, seen, Aggregate(tracker)) ELSE seen)

(* apply: one payload, end to end under the launch's lock. *)
Apply(p) ==
    /\ p \in posts /\ locked = p.n /\ Done(p)
    /\ trespass' = (trespass \/ revoking = "done")
    /\ Refuse(p) \/ \E s \in Admitted(p), ok \in BOOLEAN : Take(p, s, ok)
    /\ UNCHANGED <<launchVars, programVars, events, strayed>>

HooksNext ==
    \/ Prepare \/ Launched \/ Delete \/ Barrier \/ HooksRestart
    \/ \E s \in Sessions : SessionStart(s) \/ \E k \in {"agentTool", "agentStop"} : Agent(s, k)
    \/ Prompt \/ Tool \/ Ask \/ Stop \/ AgentStart
    \/ \E kind \in Ends : SessionEnd(kind)
    \/ \E p \in posts : TimeOut(p) \/ Find(p) \/ Lock(p) \/ Apply(p)

HooksSpec == HooksInit /\ [][HooksNext]_hookVars

-----------------------------------------------------------------------------
(* Properties.                                                             *)

(***************************************************************************)
(* Once the threads were told of the shown conversation -- a start they    *)
(* need not be told of, or an observation that did not fail -- the         *)
(* terminal never projects another one, whatever late events of a          *)
(* conversation it has left arrive, across restarts and failed             *)
(* observations (apply: "a displaced session's straggler must not seed the *)
(* wrong conversation as active and wedge the displayed one").  A          *)
(* SessionStart whose curl gave up can still be applied after its          *)
(* successor's.                                                            *)
(***************************************************************************)
RightConversation ==
    (shown # Nobody /\ told /\ ~strayed /\ terminal = "running") => active \in {shown, Nobody}

(***************************************************************************)
(* With no delivery under way and none lost or applied out of order, the   *)
(* prompted conversation is the active one and its status is what its root *)
(* and its agents do (apply, tracker.apply), though agents post beside the *)
(* root.                                                                   *)
(***************************************************************************)
StatusWhenQuiet ==
    (posts = {} /\ ~lost /\ shown \in prompted /\ terminal = "running") =>
        /\ active = shown
        /\ statuses[shown] = Aggregate([root |-> root, agents |-> agents \cap {shown}])

(***************************************************************************)
(* Deregister is a revocation barrier: when it has returned no delivery is *)
(* applied on the launch's behalf, one that had resolved the secret before *)
(* included (Deliver, Deregister).                                         *)
(***************************************************************************)
Revoked == ~trespass

(***************************************************************************)
(* The hooks tell the truth: the terminal projects the conversation it     *)
(* shows, with no delivery on its way its status is what the root and its  *)
(* agents do, and after Deregister nothing is applied (apply,              *)
(* tracker.apply, Deliver, Deregister).                                    *)
(***************************************************************************)
HooksTruthful ==
    /\ HooksTypeOK
    /\ RightConversation
    /\ StatusWhenQuiet
    /\ Revoked

-----------------------------------------------------------------------------
(* Why they tell the truth: the inductive invariant, in parts.             *)

Tracker == [root : {"idle", "unknown"} \cup Live, agents : SUBSET Sessions]
LaunchState == [session : Sessions \cup {Nobody}, established : BOOLEAN, ended : BOOLEAN,
                titled : BOOLEAN, tracker : Tracker]

(* The secret resolves exactly while the terminal is there, and nothing    *)
(* precedes the launch.                                                    *)
LaunchSound ==
    /\ terminal = "none" =>
          /\ shown = Nobody /\ posts = {} /\ prompted = {} /\ agents = {} /\ root = "idle"
          /\ st = Blank /\ known = {} /\ active = Nobody /\ revoking = "no" /\ locked = 0
          /\ header = registered
    /\ terminal = "running" => header /\ registered /\ revoking = "no"
    /\ terminal = "deleted" => ~registered /\ revoking # "no" /\ shown = Nobody
    /\ revoking = "done" => locked = 0

(* Deliveries are numbered; the program waits for one at most, of what it  *)
(* shows, and only a SessionStart it gave up on can be late.               *)
PostsSound ==
    /\ \A p \in posts : p.n <= events
    /\ \A p, q \in posts : p.n = q.n => p = q
    /\ \A p, q \in posts : p.waited /\ q.waited => p = q
    /\ shown # Nobody => \A p \in posts : p.waited => p.session = shown /\ p.kind \notin Ends
    /\ ~strayed => \A p \in posts : p.kind = "start" => p.waited

(* A conversation without a thread is not in the terminal's way, and what  *)
(* the threads were told of is what the launch's state is of, or would be  *)
(* seeded with.                                                            *)
ShownFirst ==
    /\ st.session \notin known => active = Nobody
    /\ (shown # Nobody /\ told /\ ~strayed /\ terminal = "running") =>
          \/ st.session = shown
          \/ st.session = Nobody /\ \A p \in posts : p.kind = "prompt" => p.session = shown

(* Nothing lost: what is not awaited is of an agent, and a prompted        *)
(* conversation is known, or about to be.                                  *)
Rooted(p) == p.kind \notin {"agentTool", "agentStop"}
Clear == terminal = "running" /\ ~lost
ClearSound ==
    /\ \A p \in posts : p.waited <=> Rooted(p)
    /\ shown = Nobody => \A p \in posts : p.waited => p.kind \in Ends
    /\ agents \subseteq known
    /\ \A s \in prompted : s \in known \/ \E p \in posts : p.kind = "prompt" /\ p.session = s
    /\ st.ended => st.tracker = SeededTracker
    /\ st.session \notin known => ~st.established /\ ~st.titled

(* The conversation whose start was applied and whose end was not. *)
Current(s) ==
    \/ s = shown /\ \A p \in posts : p.kind # "start"
    \/ \E p \in posts : p.kind \in Ends /\ p.session = s

(* A level of the agents: what sets it, and to what. *)
Levels == {"agentStart", "agentTool", "agentStop", "stop"}
Level(p) == p.kind \in {"agentStart", "agentTool"} \/ (p.kind = "stop" /\ p.tasks)

(* The root as the tracker has it, which after a return to the same        *)
(* conversation is not known until its next prompt.                        *)
RootAs(r) == r = root \/ (r = "unknown" /\ root = "idle")

(* What the current conversation's tracker says, with what is under way,   *)
(* is what the program does.                                               *)
CurrentSound(s) ==
    /\ st.session = s /\ ~st.ended /\ st.tracker.agents \subseteq {s}
    /\ IF s \in known THEN st.established /\ active = s ELSE st.tracker.agents = {}
    /\ \A p \in posts : p.session = s /\ p.kind \in Levels =>
          \/ \E q \in posts : q.session = s /\ q.kind \in Levels /\ q.n > p.n
          \/ Level(p) <=> s \in agents
    /\ (\A p \in posts : p.session = s => p.kind \notin Levels) =>
          st.tracker.agents = agents \cap {s}
    /\ \A p \in posts : p.waited /\ (s \in known \/ p.kind = "prompt") =>
          IF p.kind = "endExit" THEN root = "gone"
          ELSE RootAs(Reduce(st.tracker, p).root) /\ (p.kind = "endClear" => root = "idle")
    /\ (s \in known /\ \A p \in posts : ~p.waited) => RootAs(st.tracker.root)
    /\ s \in known =>
          /\ statuses[s] = IF st.tracker.root = "unknown" THEN "idle" ELSE Aggregate(st.tracker)
          /\ st.tracker.root = "unknown" =>
                /\ s \notin agents /\ st.tracker.agents = {}
                /\ \A p \in posts : p.session = s => p.kind \in {"prompt"} \cup Ends

(* Between two conversations: the one that ended was at rest, unless more  *)
(* of it is to come; and the next has nothing left behind by it.           *)
BetweenSound ==
    /\ st.session # Nobody => st.ended
    /\ (/\ st.ended /\ st.session \in known \ agents /\ root # "gone"
        /\ \A p \in posts : p.session = st.session => p.kind = "start") =>
           statuses[st.session] = "idle"
    /\ \A p \in posts : p.kind = "start" =>
          /\ root = "idle" /\ p.session \notin agents
          /\ \A q \in posts : q.session = p.session => q.n <= p.n

(* Whatever was lost. *)
Grounds ==
    /\ HooksTypeOK /\ st \in LaunchState /\ ~trespass
    /\ LaunchSound /\ PostsSound /\ ShownFirst /\ RightConversation

ClearTruth ==
    Clear => /\ ClearSound
             /\ \A s \in Sessions : Current(s) => CurrentSound(s)
             /\ (\A s \in Sessions : ~Current(s)) => BetweenSound

HooksInv == Grounds /\ ClearTruth

-----------------------------------------------------------------------------
(* The proof.                                                              *)

(* A post of the program, as it joins the deliveries. *)
LEMMA Said ==
  ASSUME HooksTypeOK, NEW s \in Sessions, NEW kind \in Kinds, NEW waited \in BOOLEAN,
         Say(s, kind, waited)
  PROVE  /\ events' = events + 1 /\ events' \in 0 .. MaxEvents
         /\ \E m \in Post :
               /\ m.n = events' /\ m.session = s /\ m.kind = kind
               /\ m.tasks <=> s \in agents
               /\ m.waited <=> waited
               /\ posts' = posts \cup {m}
<1> DEFINE m == [n |-> events', session |-> s, kind |-> kind, tasks |-> s \in agents,
                 step |-> "posted", waited |-> waited]
<1>1. events' = events + 1 /\ events' \in 1 .. MaxEvents /\ posts' = posts \cup {m}
  BY LaunchAssumption DEF Say, HooksTypeOK
<1>2. (s \in agents) \in BOOLEAN
  OBVIOUS
<1>3. m \in Post
  BY <1>1, <1>2 DEF Post
<1>4. m.n = events' /\ m.session = s /\ m.kind = kind /\ (m.tasks <=> s \in agents)
      /\ (m.waited <=> waited)
  OBVIOUS
<1> HIDE DEF m
<1> QED BY <1>1, <1>3, <1>4

(* The domain's part, laid out. *)
LEMMA Observed ==
  ASSUME NEW s, NEW c
  PROVE  ObserveSession(s, Domain, c) =
           [known |-> known \cup {s}, active |-> s,
            status |-> IF c = Nobody THEN statuses ELSE [statuses EXCEPT ![s] = c]]
BY DEF ObserveSession, Domain

LEMMA StatusObserved ==
  ASSUME NEW s, NEW c, NEW k, NEW a, NEW f, s \in k, c \in Live => a = s
  PROVE  ObserveStatus(s, [known |-> k, active |-> a, status |-> f], c) =
           [known |-> k, active |-> a, status |-> [f EXCEPT ![s] = c]]
BY DEF ObserveStatus

LEMMA StatusKept ==
  ASSUME NEW s, NEW c, NEW k, NEW a, NEW f, s \notin k \/ (c \in Live /\ a # s)
  PROVE  ObserveStatus(s, [known |-> k, active |-> a, status |-> f], c) =
           [known |-> k, active |-> a, status |-> f]
BY DEF ObserveStatus

LEMMA Deactivated ==
  ASSUME NEW k, NEW a, NEW f
  PROVE  Deactivate([known |-> k, active |-> a, status |-> f]) =
           [known |-> k, active |-> Nobody,
            status |-> IF a = Nobody THEN f
                       ELSE [f EXCEPT ![a] = IF @ \in Live THEN "unknown" ELSE @]]
BY DEF Deactivate

LEMMA Reduced ==
  ASSUME NEW t \in Tracker, NEW p \in Post, p.kind \notin {"start"} \cup Ends
  PROVE  /\ Reduce(t, p) \in Tracker
         /\ Aggregate(Reduce(t, p)) \in {"idle", "unknown"} \cup Live
BY DEF Reduce, Aggregate, Tracker, Post, Kinds, Ends, Live

(* What an admission gives. *)
LEMMA AdmittedStart ==
  ASSUME st \in LaunchState, NEW p \in Post, p.kind = "start", NEW s \in Admitted(p)
  PROVE  /\ s \in LaunchState /\ s.session = p.session /\ ~s.ended
         /\ p.session = st.session => /\ s.tracker = st.tracker /\ s.titled = st.titled
                                      /\ s.established = st.established
         /\ p.session # st.session => /\ s.tracker = NewTracker /\ s.titled = FALSE
                                      /\ s.established = FALSE
<1>1. CASE p.session = st.session
  <2>1. s = [st EXCEPT !.ended = FALSE]
    BY <1>1 DEF Admitted
  <2> QED BY <1>1, <2>1 DEF LaunchState
<1>2. CASE p.session # st.session
  <2>1. s = [Blank EXCEPT !.session = p.session, !.tracker = NewTracker]
    BY <1>2 DEF Admitted
  <2>2. s = [session |-> p.session, established |-> FALSE, ended |-> FALSE, titled |-> FALSE,
             tracker |-> NewTracker]
    BY <2>1 DEF Blank
  <2>3. NewTracker \in Tracker
    BY DEF NewTracker, Tracker
  <2>4. p.session \in Sessions
    BY DEF Post
  <2> QED BY <1>2, <2>2, <2>3, <2>4 DEF LaunchState
<1> QED BY <1>1, <1>2

LEMMA AdmittedLater ==
  ASSUME st \in LaunchState, NEW p \in Post, p.kind # "start", NEW s \in Admitted(p)
  PROVE  /\ s \in LaunchState /\ s.session = p.session /\ ~s.ended /\ ~st.ended
         /\ s.established = st.established /\ s.titled = st.titled
         /\ \/ st.session = p.session /\ s = st
            \/ st.session = Nobody /\ p.kind = "prompt"
<1>0. ~st.ended /\ p.session \in Sessions /\ p.session # Nobody
  BY LaunchAssumption DEF Admitted, Post, Nobody
<1>1. CASE st.session = Nobody
  <2>1. p.kind = "prompt" /\ s = [st EXCEPT !.session = p.session, !.tracker = SeededTracker]
    BY <1>0, <1>1 DEF Admitted, Seeds
  <2>2. SeededTracker \in Tracker
    BY DEF SeededTracker, Tracker
  <2> QED BY <1>0, <1>1, <2>1, <2>2 DEF LaunchState
<1>2. CASE st.session # Nobody
  BY <1>0, <1>2 DEF Admitted
<1> QED BY <1>1, <1>2

(* What taking a payload does to the launch's state and to the domain. *)
LEMMA TakeStart ==
  ASSUME HooksTypeOK, st \in LaunchState, NEW p \in Post, p.kind = "start",
         NEW s \in Admitted(p), NEW ok \in BOOLEAN, Take(p, s, ok)
  PROVE  /\ st' \in LaunchState /\ st'.session = p.session /\ ~st'.ended
         /\ st'.tracker = s.tracker /\ st'.titled = s.titled
         /\ st'.established = IF p.session \in known THEN ok /\ terminal = "running"
                              ELSE s.established
         /\ known' = known
         /\ p.session \in known /\ ok /\ terminal = "running" =>
               /\ active' = p.session
               /\ statuses' = IF p.session = st.session THEN statuses
                              ELSE [statuses EXCEPT ![p.session] = "idle"]
         /\ p.session \in known /\ ~(ok /\ terminal = "running") =>
               active' = active /\ statuses' = statuses
         /\ p.session \notin known =>
               IF p.session = st.session THEN active' = active /\ statuses' = statuses
               ELSE /\ active' = Nobody
                    /\ statuses' = IF active = Nobody THEN statuses
                                   ELSE [statuses EXCEPT ![active] =
                                           IF @ \in Live THEN "unknown" ELSE @]
<1> DEFINE can == ok /\ terminal = "running"
           new == p.session # st.session
           needs == Needs(p, s)
           seen == IF needs /\ can
                   THEN ObserveSession(p.session, Domain, IF new THEN "idle" ELSE Nobody)
                   ELSE Domain
           est == IF needs THEN can ELSE s.established
<1>0. s \in LaunchState /\ s.session = p.session /\ ~s.ended
  BY AdmittedStart
<1>1. needs <=> p.session \in known
  BY DEF Needs
<1>2. st' = [s EXCEPT !.established = est]
  BY DEF Take, Ends
<1>3. Becomes(IF ~needs /\ new THEN Deactivate(Domain) ELSE seen)
  BY DEF Take, Ends
<1>4. est \in BOOLEAN
  BY <1>0 DEF LaunchState
<1>5. /\ st' \in LaunchState /\ st'.session = p.session /\ ~st'.ended
      /\ st'.tracker = s.tracker /\ st'.titled = s.titled /\ st'.established = est
  <2> HIDE DEF est
  <2> QED BY <1>0, <1>2, <1>4 DEF LaunchState
<1>6. CASE needs /\ can
  <2>1. Becomes([known |-> known \cup {p.session}, active |-> p.session,
                 status |-> IF (IF new THEN "idle" ELSE Nobody) = Nobody THEN statuses
                            ELSE [statuses EXCEPT ![p.session] =
                                    IF new THEN "idle" ELSE Nobody]])
    BY <1>3, <1>6, Observed
  <2>2. /\ known' = known \cup {p.session} /\ active' = p.session
        /\ statuses' = IF new THEN [statuses EXCEPT ![p.session] = "idle"] ELSE statuses
    BY <2>1 DEF Becomes, Nobody
  <2> QED BY <1>1, <1>5, <1>6, <2>2 DEF HooksTypeOK
<1>7. CASE needs /\ ~can
  <2>1. Becomes(Domain)
    BY <1>3, <1>7
  <2> QED BY <1>1, <1>5, <1>7, <2>1 DEF Becomes, Domain
<1>8. CASE ~needs /\ ~new
  <2>1. Becomes(Domain)
    BY <1>3, <1>8
  <2> QED BY <1>1, <1>5, <1>8, <2>1 DEF Becomes, Domain
<1>9. CASE ~needs /\ new
  <2>1. Becomes([known |-> known, active |-> Nobody,
                 status |-> IF active = Nobody THEN statuses
                            ELSE [statuses EXCEPT ![active] =
                                    IF @ \in Live THEN "unknown" ELSE @]])
    BY <1>3, <1>9, Deactivated DEF Domain
  <2> QED BY <1>1, <1>5, <1>9, <2>1 DEF Becomes
<1> QED BY <1>6, <1>7, <1>8, <1>9

LEMMA TakeEnd ==
  ASSUME HooksTypeOK, st \in LaunchState, NEW p \in Post, p.kind \in Ends,
         NEW s \in Admitted(p), NEW ok \in BOOLEAN, Take(p, s, ok)
  PROVE  /\ st' \in LaunchState /\ st'.session = p.session /\ st'.ended
         /\ st'.tracker = SeededTracker /\ st'.titled = s.titled
         /\ st'.established = IF Needs(p, s) THEN ok /\ terminal = "running"
                              ELSE s.established
         /\ IF Needs(p, s) /\ ok /\ terminal = "running"
            THEN /\ known' = known \cup {p.session}
                 /\ active' = IF p.kind = "endExit" THEN Nobody ELSE p.session
            ELSE /\ known' = known
                 /\ active' = IF p.kind = "endExit" THEN Nobody ELSE active
         /\ p.kind # "endExit" => statuses' = statuses
         /\ statuses' \in [Sessions -> {"idle", "unknown"} \cup Live]
<1> DEFINE can == ok /\ terminal = "running"
           needs == Needs(p, s)
           a == IF needs /\ can THEN p.session ELSE active
           k == IF needs /\ can THEN known \cup {p.session} ELSE known
           est == IF needs THEN can ELSE s.established
           seen == [known |-> k, active |-> a, status |-> statuses]
<1>0. s \in LaunchState /\ s.session = p.session /\ p.kind # "start"
  BY AdmittedLater DEF Ends
<1>1. st' = [s EXCEPT !.ended = TRUE, !.established = est, !.tracker = SeededTracker]
  BY <1>0 DEF Take
<1>2. seen = IF needs /\ can THEN ObserveSession(p.session, Domain, Nobody) ELSE Domain
  BY Observed DEF Domain
<1>3. Becomes(IF p.kind = "endExit" THEN Deactivate(seen) ELSE seen)
  <2> HIDE DEF seen, needs, can
  <2>1. Becomes(IF p.kind = "endExit"
                THEN Deactivate(IF needs /\ can THEN ObserveSession(p.session, Domain, Nobody)
                                ELSE Domain)
                ELSE IF needs /\ can THEN ObserveSession(p.session, Domain, Nobody) ELSE Domain)
    BY <1>0 DEF Take, needs, can
  <2> QED BY <1>2, <2>1
<1>4. est \in BOOLEAN /\ SeededTracker \in Tracker
  BY <1>0 DEF LaunchState, SeededTracker, Tracker
<1>5. /\ st' \in LaunchState /\ st'.session = p.session /\ st'.ended
      /\ st'.tracker = SeededTracker /\ st'.titled = s.titled /\ st'.established = est
  <2> HIDE DEF est
  <2> QED BY <1>0, <1>1, <1>4 DEF LaunchState
<1>6. a \in Sessions \cup {Nobody}
  BY DEF HooksTypeOK, Post
<1>7. CASE p.kind = "endExit"
  <2> DEFINE f == IF a = Nobody THEN statuses
                  ELSE [statuses EXCEPT ![a] = IF @ \in Live THEN "unknown" ELSE @]
  <2>1. known' = k /\ active' = Nobody /\ statuses' = f
    <3> HIDE DEF k, a
    <3>1. Becomes([known |-> k, active |-> Nobody, status |-> f])
      BY <1>3, <1>7, Deactivated
    <3> HIDE DEF f
    <3> QED BY <3>1 DEF Becomes
  <2>2. f \in [Sessions -> {"idle", "unknown"} \cup Live]
    <3> HIDE DEF a
    <3> QED BY <1>6 DEF HooksTypeOK, Live
  <2> HIDE DEF f
  <2> QED BY <1>5, <1>7, <2>1, <2>2
<1>8. CASE p.kind # "endExit"
  <2>1. known' = k /\ active' = a /\ statuses' = statuses
    BY <1>3, <1>8 DEF Becomes
  <2> QED BY <1>5, <1>8, <2>1 DEF HooksTypeOK
<1> QED BY <1>7, <1>8

LEMMA TakeOther ==
  ASSUME HooksTypeOK, st \in LaunchState, NEW p \in Post, p.kind \notin {"start"} \cup Ends,
         NEW s \in Admitted(p), NEW ok \in BOOLEAN, Take(p, s, ok)
  PROVE  /\ st' \in LaunchState /\ st'.session = p.session /\ ~st'.ended
         /\ st'.titled = (s.titled \/ p.kind = "prompt")
         /\ st'.established = IF Needs(p, s) THEN ok /\ terminal = "running"
                              ELSE s.established
         /\ st'.tracker = IF st'.established THEN Reduce(s.tracker, p) ELSE s.tracker
         /\ IF Needs(p, s) /\ ok /\ terminal = "running"
            THEN /\ known' = known \cup {p.session} /\ active' = p.session
            ELSE known' = known /\ active' = active
         /\ IF st'.established /\ p.session \in known'
               /\ (Aggregate(Reduce(s.tracker, p)) \in Live => active' = p.session)
            THEN statuses' = [statuses EXCEPT ![p.session] = Aggregate(Reduce(s.tracker, p))]
            ELSE statuses' = statuses
<1> DEFINE can == ok /\ terminal = "running"
           needs == Needs(p, s)
           a == IF needs /\ can THEN p.session ELSE active
           k == IF needs /\ can THEN known \cup {p.session} ELSE known
           est == IF needs THEN can ELSE s.established
           seen == [known |-> k, active |-> a, status |-> statuses]
           tracker == Reduce(s.tracker, p)
<1>0. s \in LaunchState /\ s.session = p.session /\ p.kind # "start" /\ ~s.ended
  BY AdmittedLater
<1>1. st' = [s EXCEPT !.titled = s.titled \/ p.kind = "prompt", !.established = est,
                      !.tracker = IF est THEN tracker ELSE s.tracker]
  BY <1>0 DEF Take
<1>2. seen = IF needs /\ can THEN ObserveSession(p.session, Domain, Nobody) ELSE Domain
  BY Observed DEF Domain
<1>3. Becomes(IF est THEN ObserveStatus(p.session, seen, Aggregate(tracker)) ELSE seen)
  <2> HIDE DEF seen, needs, can, tracker, est
  <2> DEFINE o == IF needs /\ can THEN ObserveSession(p.session, Domain, Nobody) ELSE Domain
  <2>1. Becomes(IF est THEN ObserveStatus(p.session, o, Aggregate(tracker)) ELSE o)
    BY <1>0 DEF Take, needs, can, tracker, est
  <2> QED BY <1>2, <2>1
<1>4. est \in BOOLEAN /\ (s.titled \/ p.kind = "prompt") \in BOOLEAN
  BY <1>0 DEF LaunchState
<1>5. s.tracker \in Tracker /\ tracker \in Tracker
  BY <1>0, Reduced DEF LaunchState
<1>6. /\ st' \in LaunchState /\ st'.session = p.session /\ ~st'.ended
      /\ st'.titled = (s.titled \/ p.kind = "prompt") /\ st'.established = est
      /\ st'.tracker = IF est THEN tracker ELSE s.tracker
  <2> HIDE DEF est, tracker
  <2> QED BY <1>0, <1>1, <1>4, <1>5 DEF LaunchState
<1>7. known' = k /\ active' = a
      /\ statuses' = IF est /\ p.session \in k /\ (Aggregate(tracker) \in Live => a = p.session)
                     THEN [statuses EXCEPT ![p.session] = Aggregate(tracker)] ELSE statuses
  <2> HIDE DEF est, k, a, tracker
  <2>1. CASE est /\ p.session \in k /\ (Aggregate(tracker) \in Live => a = p.session)
    <3>1. Becomes([known |-> k, active |-> a,
                   status |-> [statuses EXCEPT ![p.session] = Aggregate(tracker)]])
      BY <1>3, <2>1, StatusObserved
    <3> QED BY <2>1, <3>1 DEF Becomes
  <2>2. CASE est /\ ~(p.session \in k /\ (Aggregate(tracker) \in Live => a = p.session))
    <3>1. Becomes([known |-> k, active |-> a, status |-> statuses])
      BY <1>3, <2>2, StatusKept
    <3> QED BY <2>2, <3>1 DEF Becomes
  <2>3. CASE ~est
    BY <1>3, <2>3 DEF Becomes
  <2> QED BY <2>1, <2>2, <2>3
<1> QED BY <1>6, <1>7

LEMMA BlankState == Blank \in LaunchState /\ Blank.session = Nobody /\ ~Blank.ended
                    /\ ~Blank.established /\ ~Blank.titled /\ Blank.tracker.agents = {}
BY DEF Blank, LaunchState, Tracker, SeededTracker

(* The first state. *)
LEMMA InitHolds == HooksInit => HooksInv
<1> SUFFICES ASSUME HooksInit PROVE HooksInv
  OBVIOUS
<1>1. HooksTypeOK
  <2>1. statuses \in [Sessions -> {"idle", "unknown"} \cup Live]
    BY DEF HooksInit
  <2>2. 0 \in 0 .. MaxEvents
    BY LaunchAssumption
  <2> QED BY <2>1, <2>2, BlankState, LaunchAssumption DEF HooksInit, HooksTypeOK
<1>2. Grounds
  BY <1>1, BlankState
  DEF Grounds, HooksInit, LaunchSound, PostsSound, ShownFirst, RightConversation
<1>3. ClearTruth
  BY DEF HooksInit, ClearTruth, Clear
<1> QED BY <1>2, <1>3 DEF HooksInv

-----------------------------------------------------------------------------
(* The launch's own steps.                                                 *)

LEMMA PrepareHolds == HooksInv /\ Prepare => HooksInv'
<1> SUFFICES ASSUME HooksInv, Prepare PROVE HooksInv'
  OBVIOUS
<1> USE DEF Prepare, programVars, domainVars, historyVars
<1>0. HooksTypeOK /\ LaunchSound /\ ~trespass
  BY DEF HooksInv, Grounds
<1>1. HooksTypeOK' /\ st' \in LaunchState
  BY <1>0, BlankState DEF HooksTypeOK, Blank, SeededTracker
<1>2. LaunchSound' /\ PostsSound' /\ ShownFirst' /\ RightConversation'
  BY <1>0, BlankState DEF LaunchSound, PostsSound, ShownFirst, RightConversation
<1>3. ClearTruth'
  BY DEF ClearTruth, Clear
<1> QED BY <1>0, <1>1, <1>2, <1>3 DEF HooksInv, Grounds

LEMMA LaunchedHolds == HooksInv /\ Launched => HooksInv'
<1> SUFFICES ASSUME HooksInv, Launched PROVE HooksInv'
  OBVIOUS
<1> USE DEF Launched, programVars, domainVars, historyVars
<1>0. HooksTypeOK /\ LaunchSound /\ ~trespass /\ st \in LaunchState
  BY DEF HooksInv, Grounds
<1>1. HooksTypeOK'
  BY <1>0 DEF HooksTypeOK
<1>2. LaunchSound' /\ PostsSound' /\ ShownFirst' /\ RightConversation'
  BY <1>0, BlankState DEF LaunchSound, PostsSound, ShownFirst, RightConversation
<1>3. posts' = {} /\ shown' = Nobody /\ st' = Blank
  BY <1>0 DEF LaunchSound
<1>4. ClearSound'
  BY <1>0, <1>3, BlankState DEF LaunchSound, ClearSound
<1>5. \A s \in Sessions : ~Current(s)'
  BY <1>3, LaunchAssumption DEF Current, Nobody
<1>6. BetweenSound'
  BY <1>3, BlankState DEF BetweenSound
<1>7. ClearTruth'
  BY <1>4, <1>5, <1>6 DEF ClearTruth
<1> QED BY <1>0, <1>1, <1>2, <1>7 DEF HooksInv, Grounds

LEMMA DeleteHolds == HooksInv /\ Delete => HooksInv'
<1> SUFFICES ASSUME HooksInv, Delete PROVE HooksInv'
  OBVIOUS
<1> USE DEF Delete, historyVars, domainVars
<1>0. HooksTypeOK /\ LaunchSound /\ PostsSound /\ ShownFirst /\ ~trespass /\ st \in LaunchState
  BY DEF HooksInv, Grounds
<1>1. HooksTypeOK'
  BY <1>0 DEF HooksTypeOK
<1>2. LaunchSound' /\ PostsSound' /\ ShownFirst' /\ RightConversation'
  BY <1>0 DEF LaunchSound, PostsSound, ShownFirst, RightConversation
<1>3. ClearTruth'
  BY DEF ClearTruth, Clear
<1> QED BY <1>0, <1>1, <1>2, <1>3 DEF HooksInv, Grounds

LEMMA BarrierHolds == HooksInv /\ Barrier => HooksInv'
<1> SUFFICES ASSUME HooksInv, Barrier PROVE HooksInv'
  OBVIOUS
<1> USE DEF Barrier, programVars, historyVars
<1>0. HooksTypeOK /\ LaunchSound /\ PostsSound /\ ShownFirst /\ ~trespass /\ st \in LaunchState
  BY DEF HooksInv, Grounds
<1>1. terminal = "deleted" /\ ~registered
  BY <1>0 DEF HooksTypeOK, LaunchSound
<1>2. statuses' \in [Sessions -> {"idle", "unknown"} \cup Live]
  BY <1>0 DEF HooksTypeOK, Live
<1>3. HooksTypeOK'
  BY <1>0, <1>2 DEF HooksTypeOK
<1>4. LaunchSound' /\ PostsSound' /\ ShownFirst' /\ RightConversation'
  BY <1>0, <1>1 DEF LaunchSound, PostsSound, ShownFirst, RightConversation
<1>5. ClearTruth'
  BY <1>1 DEF ClearTruth, Clear
<1> QED BY <1>0, <1>3, <1>4, <1>5 DEF HooksInv, Grounds

LEMMA RestartHolds == HooksInv /\ HooksRestart => HooksInv'
<1> SUFFICES ASSUME HooksInv, HooksRestart PROVE HooksInv'
  OBVIOUS
<1> USE DEF HooksRestart, programVars
<1>0. HooksTypeOK /\ LaunchSound /\ PostsSound /\ ShownFirst /\ ~trespass /\ st \in LaunchState
  BY DEF HooksInv, Grounds
<1>1. statuses' \in [Sessions -> {"idle", "unknown"} \cup Live]
  BY <1>0 DEF HooksTypeOK, Live
<1>2. HooksTypeOK' /\ st' \in LaunchState
  <2>1. 0 \in 0 .. MaxEvents
    BY LaunchAssumption
  <2>2. header' \in BOOLEAN /\ registered' \in BOOLEAN
    BY <1>0 DEF HooksTypeOK
  <2>3. revoking' \in {"no", "removed", "done"}
    BY <1>0 DEF HooksTypeOK
  <2> QED BY <1>0, <1>1, <2>1, <2>2, <2>3, BlankState DEF HooksTypeOK
<1>3. LaunchSound' /\ PostsSound' /\ ShownFirst' /\ RightConversation'
  BY <1>0, BlankState DEF HooksTypeOK, LaunchSound, PostsSound, ShownFirst, RightConversation
<1>4. ClearTruth'
  BY DEF ClearTruth, Clear
<1> QED BY <1>0, <1>2, <1>3, <1>4 DEF HooksInv, Grounds

-----------------------------------------------------------------------------
(* The program's steps.                                                    *)

(* Free of root hooks, with nothing lost, only agents' posts are there.    *)
LEMMA OnlyAgents ==
  ASSUME HooksInv, Clear, Free
  PROVE  /\ \A p \in posts : ~p.waited /\ p.kind \in {"agentTool", "agentStop"}
         /\ \A p \in posts : p.kind # "start" /\ p.kind \notin Ends
         /\ prompted \subseteq known
<1>1. ClearSound
  BY DEF HooksInv, ClearTruth
<1>2. \A p \in posts : ~p.waited /\ p.kind \in {"agentTool", "agentStop"}
  BY <1>1 DEF Free, ClearSound, Rooted
<1> QED BY <1>1, <1>2 DEF ClearSound, Ends

LEMMA SessionStartHolds ==
  ASSUME HooksInv, NEW s \in Sessions, SessionStart(s) PROVE HooksInv'
<1> USE DEF SessionStart, Elsewhere, launchVars, domainVars, historyVars
<1>0. HooksTypeOK /\ LaunchSound /\ PostsSound /\ ShownFirst /\ ~trespass /\ st \in LaunchState
  BY DEF HooksInv, Grounds
<1>1. PICK m \in Post : /\ events' = events + 1 /\ events' \in 0 .. MaxEvents
                        /\ m.n = events' /\ m.session = s /\ m.kind = "start" /\ m.waited
                        /\ posts' = posts \cup {m}
  <2>1. "start" \in Kinds /\ TRUE \in BOOLEAN
    BY DEF Kinds
  <2> QED BY <1>0, <2>1, Said
<1>2. HooksTypeOK'
  BY <1>0, <1>1 DEF HooksTypeOK
<1>3. LaunchSound'
  BY <1>0, <1>1 DEF LaunchSound
<1>4. PostsSound'
  <2>1. \A p \in posts : p.n \in 1 .. MaxEvents /\ p.n <= events
    BY <1>0 DEF HooksTypeOK, Post, PostsSound
  <2>2. \A p \in posts' : p.n <= events'
    BY <1>0, <1>1, <2>1, LaunchAssumption DEF HooksTypeOK
  <2>3. \A p \in posts : p.n # m.n
    BY <1>0, <1>1, <2>1, LaunchAssumption DEF HooksTypeOK
  <2>4. \A p, q \in posts' : p.n = q.n => p = q
    BY <1>0, <1>1, <2>3 DEF PostsSound
  <2>5. \A p \in posts : ~p.waited
    BY DEF Free
  <2>6. m.kind \notin Ends
    BY <1>1 DEF Ends
  <2> QED BY <1>0, <1>1, <2>2, <2>4, <2>5, <2>6 DEF PostsSound
<1>5. ShownFirst' /\ RightConversation'
  BY <1>0 DEF ShownFirst, RightConversation
<1>6. ASSUME Clear' PROVE ClearSound' /\ (\A t \in Sessions : ~Current(t)') /\ BetweenSound'
  <2>1. Clear /\ s \notin agents /\ ~lost'
    BY <1>6 DEF Clear
  <2>2. ClearSound
    BY <2>1 DEF HooksInv, ClearTruth
  <2>3. /\ \A p \in posts : ~p.waited /\ p.kind \in {"agentTool", "agentStop"}
        /\ \A p \in posts : p.kind # "start" /\ p.kind \notin Ends
    BY <2>1, OnlyAgents
  <2>4. ClearSound'
    <3>1. \A p \in posts' : p.waited <=> Rooted(p)
      BY <1>1, <2>2 DEF ClearSound, Rooted
    <3>2. s # Nobody
      BY LaunchAssumption DEF Nobody
    <3> QED BY <1>1, <2>2, <3>1, <3>2 DEF ClearSound
  <2>5. \A t \in Sessions : ~Current(t) /\ ~Current(t)'
    BY <1>1, <2>3, LaunchAssumption DEF Current, Ends, Nobody
  <2>6. BetweenSound
    BY <2>1, <2>5 DEF HooksInv, ClearTruth
  <2>7. \A p \in posts' : p.kind = "start" => p = m
    BY <1>1, <2>3
  <2>8. \A q \in posts' : q.n <= m.n
    BY <1>1, <1>4 DEF PostsSound
  <2>9. BetweenSound'
    BY <1>1, <2>1, <2>6, <2>7, <2>8 DEF BetweenSound
  <2> QED BY <2>4, <2>5, <2>9
<1> QED BY <1>0, <1>2, <1>3, <1>4, <1>5, <1>6 DEF HooksInv, Grounds, ClearTruth

(* A root hook's post leaves everything else as it is but the program. *)
RootPosts == {"prompt", "tool", "ask", "stop", "agentStart"}

LEMMA RootGrounds ==
  ASSUME HooksInv, NEW kind \in Kinds \ {"start"}, NEW m \in Post, NEW S \in Sessions,
         Free, shown = S, shown' \in {S, Nobody}, shown' = Nobody <=> kind \in Ends,
         prompted' \subseteq Sessions, agents' \subseteq Sessions,
         root' \in {"idle", "gone"} \cup Live,
         events' = events + 1, events' \in 0 .. MaxEvents, m.n = events', m.session = S,
         m.kind = kind, m.waited, posts' = posts \cup {m},
         UNCHANGED <<lost, told>>, Elsewhere
  PROVE  Grounds'
<1> USE DEF Elsewhere, launchVars, domainVars, historyVars
<1>0. /\ HooksTypeOK /\ LaunchSound /\ PostsSound /\ ShownFirst /\ RightConversation /\ ~trespass
      /\ st \in LaunchState /\ S # Nobody
  BY LaunchAssumption DEF HooksInv, Grounds, Nobody
<1>1. terminal = "running"
  BY <1>0 DEF LaunchSound, HooksTypeOK
<1>2. HooksTypeOK'
  BY <1>0 DEF HooksTypeOK
<1>3. LaunchSound'
  BY <1>0, <1>1 DEF LaunchSound
<1>4. PostsSound'
  <2>1. \A p \in posts : p.n \in 1 .. MaxEvents /\ p.n <= events
    BY <1>0 DEF HooksTypeOK, Post, PostsSound
  <2>2. \A p \in posts' : p.n <= events'
    BY <1>0, <2>1, LaunchAssumption DEF HooksTypeOK
  <2>3. \A p \in posts : p.n # m.n
    BY <1>0, <2>1, LaunchAssumption DEF HooksTypeOK
  <2>4. \A p, q \in posts' : p.n = q.n => p = q
    BY <1>0, <2>3 DEF PostsSound
  <2>5. \A p \in posts : ~p.waited
    BY DEF Free
  <2> QED BY <1>0, <2>2, <2>4, <2>5 DEF PostsSound
<1>5. ShownFirst' /\ RightConversation'
  BY <1>0 DEF ShownFirst, RightConversation
<1> QED BY <1>0, <1>2, <1>3, <1>4, <1>5 DEF Grounds


(* What a root post tells is what the root does next. *)
RootStep(kind, S) ==
    /\ kind = "prompt" => root = "idle" /\ root' = "working" /\ prompted' = prompted \cup {S}
    /\ kind = "tool" => root \in Live /\ root' = "working"
    /\ kind = "ask" => root = "working" /\ root' = "waiting"
    /\ kind = "stop" => root = "working" /\ root' = "idle"
    /\ kind = "agentStart" => /\ root = "working" /\ root' = "working" /\ S \in prompted
                              /\ agents' = agents \cup {S}
    /\ kind # "prompt" => prompted' = prompted
    /\ kind # "agentStart" => agents' = agents

LEMMA RootTruth ==
  ASSUME HooksInv, NEW kind \in RootPosts, NEW m \in Post, NEW S \in Sessions,
         Free, shown = S, shown' = S, RootStep(kind, S),
         events' = events + 1, m.n = events', m.session = S, m.kind = kind,
         m.tasks <=> S \in agents, m.waited, posts' = posts \cup {m},
         UNCHANGED <<lost, told>>, Elsewhere, HooksTypeOK'
  PROVE  ClearTruth'
<1> SUFFICES ASSUME Clear'
             PROVE  /\ ClearSound'
                    /\ \A s \in Sessions : Current(s)' => CurrentSound(s)'
                    /\ (\A s \in Sessions : ~Current(s)') => BetweenSound'
  BY DEF ClearTruth
<1> USE DEF Elsewhere, launchVars, domainVars, historyVars
<1>0. HooksTypeOK /\ PostsSound /\ st \in LaunchState /\ S # Nobody
  BY LaunchAssumption DEF HooksInv, Grounds, Nobody
<1>1. Clear
  BY DEF Clear
<1>2. ClearSound
  BY <1>1 DEF HooksInv, ClearTruth
<1>3. /\ \A p \in posts : ~p.waited /\ p.kind \in {"agentTool", "agentStop"}
      /\ \A p \in posts : p.kind # "start" /\ p.kind \notin Ends
      /\ prompted \subseteq known
  BY <1>1, OnlyAgents
<1>4. kind # "start" /\ kind \notin Ends /\ Rooted(m)
  BY DEF RootPosts, Ends, Rooted
<1>5. \A s \in Sessions : Current(s)' => s = S
  BY <1>3, <1>4 DEF Current
<1>6. Current(S) /\ Current(S)'
  BY <1>3, <1>4 DEF Current
<1>7. CurrentSound(S)
  BY <1>1, <1>6 DEF HooksInv, ClearTruth
<1>8. \A p \in posts : p.n < m.n
  BY <1>0 DEF HooksTypeOK, PostsSound, Post
<1>9. ClearSound'
  <2>1. \A p \in posts' : p.waited <=> Rooted(p)
    BY <1>2, <1>4 DEF ClearSound
  <2>2. agents' \subseteq known
    BY <1>2, <1>3 DEF RootStep, ClearSound
  <2>3. \A s \in prompted' : s \in known \/ \E p \in posts' : p.kind = "prompt" /\ p.session = s
    BY <1>3 DEF RootStep
  <2> QED BY <1>0, <1>2, <2>1, <2>2, <2>3 DEF ClearSound
<1>10. CurrentSound(S)'
  <2>1. /\ st.session = S /\ ~st.ended /\ st.tracker.agents \subseteq {S}
        /\ IF S \in known THEN st.established /\ active = S ELSE st.tracker.agents = {}
    BY <1>7 DEF CurrentSound
  <2>2. \A p \in posts' : p.session = S /\ p.kind \in Levels =>
          \/ \E q \in posts' : q.session = S /\ q.kind \in Levels /\ q.n > p.n
          \/ Level(p) <=> S \in agents'
    <3>1. CASE kind \in Levels
      <4>1. kind \in {"stop", "agentStart"}
        BY <3>1 DEF Levels, RootPosts
      <4>2. Level(m) <=> S \in agents'
        BY <4>1 DEF Level, RootStep
      <4> QED BY <1>8, <3>1, <4>2
    <3>2. CASE kind \notin Levels
      <4>1. agents' = agents
        BY <3>2 DEF RootStep, Levels
      <4>2. \A p \in posts : p.session = S /\ p.kind \in Levels =>
              \/ \E q \in posts : q.session = S /\ q.kind \in Levels /\ q.n > p.n
              \/ Level(p) <=> S \in agents
        BY <1>7 DEF CurrentSound
      <4> QED BY <3>2, <4>1, <4>2
    <3> QED BY <3>1, <3>2
  <2>3. (\A p \in posts' : p.session = S => p.kind \notin Levels) =>
          st.tracker.agents = agents' \cap {S}
    <3>1. CASE kind \in Levels
      BY <3>1
    <3>2. CASE kind \notin Levels
      <4>1. agents' = agents
        BY <3>2 DEF RootStep, Levels
      <4> QED BY <1>7, <4>1 DEF CurrentSound
    <3> QED BY <3>1, <3>2
  <2>4. S \in known => RootAs(st.tracker.root)
    BY <1>3, <1>7 DEF CurrentSound
  <2>5. S \in known \/ kind = "prompt" => (RootAs(Reduce(st.tracker, m).root))'
    <3>1. Reduce(st.tracker, m).root = CASE kind \in {"prompt", "tool"} -> "working"
                                         [] kind = "ask" -> "waiting"
                                         [] kind = "stop" -> "idle"
                                         [] OTHER -> st.tracker.root
      BY DEF Reduce
    <3>2. CASE kind \in {"prompt", "tool"}
      BY <3>1, <3>2 DEF RootStep, RootAs
    <3>3. CASE kind = "ask"
      BY <3>1, <3>3 DEF RootStep, RootAs
    <3>4. CASE kind = "stop"
      BY <3>1, <3>4 DEF RootStep, RootAs
    <3>5. CASE kind = "agentStart"
      BY <2>4, <3>1, <3>5 DEF RootStep, RootAs
    <3> QED BY <3>2, <3>3, <3>4, <3>5 DEF RootPosts
  <2>6. \A p \in posts' : p.waited => p = m
    BY <1>3
  <2>7. m.kind \notin Ends /\ m.kind # "endExit" /\ m.kind # "endClear"
    BY <1>4 DEF Ends
  <2>8. S \in known =>
          /\ statuses[S] = IF st.tracker.root = "unknown" THEN "idle" ELSE Aggregate(st.tracker)
          /\ st.tracker.root = "unknown" =>
                /\ S \notin agents' /\ st.tracker.agents = {}
                /\ \A p \in posts' : p.session = S => p.kind \in {"prompt"} \cup Ends
    <3> SUFFICES ASSUME S \in known PROVE
          /\ statuses[S] = IF st.tracker.root = "unknown" THEN "idle" ELSE Aggregate(st.tracker)
          /\ st.tracker.root = "unknown" =>
                /\ S \notin agents' /\ st.tracker.agents = {}
                /\ \A p \in posts' : p.session = S => p.kind \in {"prompt"} \cup Ends
      OBVIOUS
    <3>1. /\ statuses[S] = IF st.tracker.root = "unknown" THEN "idle" ELSE Aggregate(st.tracker)
          /\ st.tracker.root = "unknown" =>
                /\ S \notin agents /\ st.tracker.agents = {}
                /\ \A p \in posts : p.session = S => p.kind \in {"prompt"} \cup Ends
      BY <1>7 DEF CurrentSound
    <3>2. ASSUME st.tracker.root = "unknown" PROVE kind = "prompt"
      <4>1. root = "idle"
        BY <1>0, <2>4, <3>2 DEF RootAs, HooksTypeOK, Live
      <4> QED BY <4>1 DEF RootPosts, RootStep, Live
    <3>3. kind = "prompt" => agents' = agents
      BY DEF RootStep
    <3> QED BY <3>1, <3>2, <3>3
  <2>9. \A p \in posts' : p.waited /\ (S \in known \/ p.kind = "prompt") =>
          IF p.kind = "endExit" THEN root' = "gone"
          ELSE (RootAs(Reduce(st.tracker, p).root))' /\ (p.kind = "endClear" => root' = "idle")
    BY <2>5, <2>6, <2>7
  <2>10. ~(\A p \in posts' : ~p.waited)
    OBVIOUS
  <2>11. st' = st /\ known' = known /\ active' = active /\ statuses' = statuses
    OBVIOUS
  <2> QED BY <2>1, <2>2, <2>3, <2>8, <2>9, <2>10, <2>11 DEF CurrentSound, RootAs, Level
<1> QED BY <1>5, <1>6, <1>9, <1>10


(* The five root hooks but the start's and the end's. *)
LEMMA RootHolds ==
  ASSUME HooksInv, Prompt \/ Tool \/ Ask \/ Stop \/ AgentStart PROVE HooksInv'
<1>0. HooksTypeOK /\ shown # Nobody /\ shown \in Sessions
  BY LaunchAssumption
  DEF HooksInv, Grounds, HooksTypeOK, Prompt, Tool, Ask, Stop, AgentStart, Root, Nobody
<1>1. \E kind \in RootPosts : Free /\ Say(shown, kind, TRUE) /\ RootStep(kind, shown)
                              /\ shown' = shown /\ UNCHANGED <<lost, told>> /\ Elsewhere
  <2>1. CASE Prompt
    <3>1. Free /\ Say(shown, "prompt", TRUE) /\ RootStep("prompt", shown)
          /\ shown' = shown /\ UNCHANGED <<lost, told>> /\ Elsewhere
      BY <2>1 DEF Prompt, Root, RootStep
    <3> QED BY <3>1 DEF RootPosts
  <2>2. CASE Tool
    <3>1. Free /\ Say(shown, "tool", TRUE) /\ RootStep("tool", shown)
          /\ shown' = shown /\ UNCHANGED <<lost, told>> /\ Elsewhere
      BY <2>2 DEF Tool, Root, RootStep
    <3> QED BY <3>1 DEF RootPosts
  <2>3. CASE Ask
    <3>1. Free /\ Say(shown, "ask", TRUE) /\ RootStep("ask", shown)
          /\ shown' = shown /\ UNCHANGED <<lost, told>> /\ Elsewhere
      BY <2>3 DEF Ask, Root, RootStep
    <3> QED BY <3>1 DEF RootPosts
  <2>4. CASE Stop
    <3>1. Free /\ Say(shown, "stop", TRUE) /\ RootStep("stop", shown)
          /\ shown' = shown /\ UNCHANGED <<lost, told>> /\ Elsewhere
      BY <2>4 DEF Stop, Root, RootStep
    <3> QED BY <3>1 DEF RootPosts
  <2>5. CASE AgentStart
    <3>1. Free /\ Say(shown, "agentStart", TRUE) /\ RootStep("agentStart", shown)
          /\ shown' = shown /\ UNCHANGED <<lost, told>> /\ Elsewhere
      BY <2>5 DEF AgentStart, RootStep
    <3> QED BY <3>1 DEF RootPosts
  <2> QED BY <2>1, <2>2, <2>3, <2>4, <2>5
<1>2. PICK kind \in RootPosts : Free /\ Say(shown, kind, TRUE) /\ RootStep(kind, shown)
                                /\ shown' = shown /\ UNCHANGED <<lost, told>> /\ Elsewhere
  BY <1>1
<1>3. kind \in Kinds \ {"start"} /\ kind \notin Ends /\ kind \in Kinds /\ TRUE \in BOOLEAN
  BY DEF RootPosts, Kinds, Ends
<1>4. PICK m \in Post : /\ m.n = events' /\ m.session = shown /\ m.kind = kind
                        /\ (m.tasks <=> shown \in agents) /\ m.waited
                        /\ posts' = posts \cup {m}
  BY <1>0, <1>2, <1>3, Said
<1>5. events' = events + 1 /\ events' \in 0 .. MaxEvents
  BY <1>0, <1>2, <1>3, Said
<1>6. /\ prompted' \subseteq Sessions /\ agents' \subseteq Sessions
      /\ root' \in {"idle", "gone"} \cup Live
  BY <1>0, <1>2 DEF RootStep, HooksTypeOK, RootPosts, Live
<1>7. Grounds'
  BY <1>0, <1>2, <1>3, <1>4, <1>5, <1>6, RootGrounds
<1>8. ClearTruth'
  <2>1. HooksTypeOK'
    BY <1>7 DEF Grounds
  <2> QED BY <1>0, <1>2, <1>3, <1>4, <1>5, <2>1, RootTruth
<1> QED BY <1>7, <1>8 DEF HooksInv

LEMMA SessionEndHolds ==
  ASSUME HooksInv, NEW kind \in Ends, SessionEnd(kind) PROVE HooksInv'
<1> USE DEF SessionEnd, Elsewhere, launchVars, domainVars, historyVars
<1>0. HooksTypeOK /\ PostsSound /\ shown # Nobody /\ shown \in Sessions /\ st \in LaunchState
  BY DEF HooksInv, Grounds, HooksTypeOK
<1>1. kind \in Kinds \ {"start"} /\ kind \in Kinds /\ TRUE \in BOOLEAN
  BY DEF Ends, Kinds
<1>2. PICK m \in Post : /\ m.n = events' /\ m.session = shown /\ m.kind = kind
                        /\ (m.tasks <=> shown \in agents) /\ m.waited
                        /\ posts' = posts \cup {m}
  BY <1>0, <1>1, Said
<1>3. events' = events + 1 /\ events' \in 0 .. MaxEvents
  BY <1>0, <1>1, Said
<1>4. Grounds'
  <2>1. /\ prompted' \subseteq Sessions /\ agents' \subseteq Sessions
        /\ root' \in {"idle", "gone"} \cup Live
    BY <1>0 DEF HooksTypeOK
  <2>2. shown' \in {shown, Nobody} /\ (shown' = Nobody <=> kind \in Ends)
    OBVIOUS
  <2>3. UNCHANGED <<lost, told>> /\ Elsewhere /\ Free
    OBVIOUS
  <2> HIDE DEF SessionEnd, Elsewhere
  <2> QED BY <1>0, <1>1, <1>2, <1>3, <2>1, <2>2, <2>3, RootGrounds
<1>5. ASSUME Clear'
      PROVE  /\ ClearSound'
             /\ \A s \in Sessions : Current(s)' => CurrentSound(s)'
             /\ (\A s \in Sessions : ~Current(s)') => BetweenSound'
  <2>0. PICK S \in Sessions : S = shown
    BY <1>0
  <2>1. Clear
    BY <1>5 DEF Clear
  <2>2. ClearSound
    BY <2>1 DEF HooksInv, ClearTruth
  <2>3. /\ \A p \in posts : ~p.waited /\ p.kind \in {"agentTool", "agentStop"}
        /\ \A p \in posts : p.kind # "start" /\ p.kind \notin Ends
    BY <2>1, OnlyAgents
  <2>4. \A s \in Sessions : Current(s)' => s = S
    BY <1>2, <2>0, <2>3, LaunchAssumption DEF Current, Nobody
  <2>5. Current(S) /\ Current(S)'
    BY <1>2, <2>0, <2>3 DEF Current
  <2>6. CurrentSound(S)
    BY <2>1, <2>5 DEF HooksInv, ClearTruth
  <2>7. ClearSound'
    <3>1. Rooted(m) /\ m.kind \in Ends
      BY <1>2 DEF Ends, Rooted
    <3>2. \A p \in posts' : p.waited <=> Rooted(p)
      BY <1>2, <2>2, <3>1 DEF ClearSound
    <3>3. \A p \in posts' : p.waited => p.kind \in Ends
      BY <1>2, <2>3, <3>1
    <3> QED BY <1>2, <2>2, <3>2, <3>3 DEF ClearSound
  <2>8. CurrentSound(S)'
    <3>1. /\ st.session = S /\ ~st.ended /\ st.tracker.agents \subseteq {S}
          /\ IF S \in known THEN st.established /\ active = S ELSE st.tracker.agents = {}
      BY <2>6 DEF CurrentSound
    <3>2. m.kind \notin Levels /\ m.kind = kind /\ kind \in {"endExit", "endClear"}
      BY <1>2 DEF Levels, Ends
    <3>3. \A p \in posts' : p.session = S /\ p.kind \in Levels =>
            \/ \E q \in posts' : q.session = S /\ q.kind \in Levels /\ q.n > p.n
            \/ Level(p) <=> S \in agents
      <4>1. \A p \in posts : p.session = S /\ p.kind \in Levels =>
              \/ \E q \in posts : q.session = S /\ q.kind \in Levels /\ q.n > p.n
              \/ Level(p) <=> S \in agents
        BY <2>6 DEF CurrentSound
      <4> QED BY <1>2, <3>2, <4>1
    <3>4. (\A p \in posts' : p.session = S => p.kind \notin Levels) =>
            st.tracker.agents = agents \cap {S}
      BY <1>2, <2>6 DEF CurrentSound
    <3>5. S \in known => RootAs(st.tracker.root)
      BY <2>3, <2>6 DEF CurrentSound
    <3>6. \A p \in posts' : p.waited => p = m
      BY <1>2, <2>3
    <3>7. Reduce(st.tracker, m).root = st.tracker.root
      BY <1>2 DEF Reduce, Ends
    <3>8. \A p \in posts' : p.waited /\ (S \in known \/ p.kind = "prompt") =>
            IF p.kind = "endExit" THEN root' = "gone"
            ELSE (RootAs(Reduce(st.tracker, p).root))' /\ (p.kind = "endClear" => root' = "idle")
      BY <3>2, <3>5, <3>6, <3>7 DEF RootAs
    <3>9. ~(\A p \in posts' : ~p.waited)
      BY <1>2
    <3>10. S \in known =>
          /\ statuses[S] = IF st.tracker.root = "unknown" THEN "idle" ELSE Aggregate(st.tracker)
          /\ st.tracker.root = "unknown" =>
                /\ S \notin agents /\ st.tracker.agents = {}
                /\ \A p \in posts' : p.session = S => p.kind \in {"prompt"} \cup Ends
      BY <1>2, <2>6 DEF CurrentSound
    <3>11. st' = st /\ known' = known /\ active' = active /\ statuses' = statuses /\ agents' = agents
      OBVIOUS
    <3> QED BY <3>1, <3>3, <3>4, <3>8, <3>9, <3>10, <3>11 DEF CurrentSound, RootAs, Level
  <2> QED BY <1>0, <2>4, <2>5, <2>7, <2>8
<1> QED BY <1>4, <1>5 DEF HooksInv, ClearTruth

LEMMA AgentHolds ==
  ASSUME HooksInv, NEW s \in Sessions, NEW kind \in {"agentTool", "agentStop"}, Agent(s, kind)
  PROVE  HooksInv'
<1> USE DEF Agent, Elsewhere, launchVars, domainVars, historyVars
<1>0. /\ HooksTypeOK /\ LaunchSound /\ PostsSound /\ ShownFirst /\ RightConversation /\ ~trespass
      /\ st \in LaunchState /\ s # Nobody /\ s \in agents
  BY LaunchAssumption DEF HooksInv, Grounds, Nobody
<1>1. kind \in Kinds /\ FALSE \in BOOLEAN
  BY DEF Kinds
<1>2. PICK m \in Post : /\ m.n = events' /\ m.session = s /\ m.kind = kind /\ ~m.waited
                        /\ posts' = posts \cup {m}
  BY <1>0, <1>1, Said
<1>3. events' = events + 1 /\ events' \in 0 .. MaxEvents
  BY <1>0, <1>1, Said
<1>4. agents' \subseteq agents
  OBVIOUS
<1>5. \A p \in posts : p.n \in 1 .. MaxEvents /\ p.n < m.n
  BY <1>0, <1>2, <1>3 DEF HooksTypeOK, Post, PostsSound
<1>6. HooksTypeOK'
  BY <1>0, <1>2, <1>3, <1>4 DEF HooksTypeOK
<1>7. LaunchSound'
  BY <1>0 DEF LaunchSound
<1>8. PostsSound'
  <2>1. \A p \in posts' : p.n <= events'
    BY <1>0, <1>2, <1>3, <1>5, LaunchAssumption DEF HooksTypeOK, PostsSound
  <2>2. \A p, q \in posts' : p.n = q.n => p = q
    <3> SUFFICES ASSUME NEW p \in posts', NEW q \in posts', p.n = q.n PROVE p = q
      OBVIOUS
    <3>1. CASE p = m \/ q = m
      BY <1>2, <1>3, <1>5, <3>1, <1>0 DEF HooksTypeOK
    <3>2. CASE p # m /\ q # m
      BY <1>0, <1>2, <3>2 DEF PostsSound
    <3> QED BY <3>1, <3>2
  <2>3. kind # "start"
    OBVIOUS
  <2> QED BY <1>0, <1>2, <2>1, <2>2, <2>3 DEF PostsSound
<1>9. ShownFirst' /\ RightConversation'
  BY <1>0, <1>2 DEF ShownFirst, RightConversation
<1>10. ASSUME Clear'
       PROVE  /\ ClearSound'
              /\ \A t \in Sessions : Current(t)' => CurrentSound(t)'
              /\ (\A t \in Sessions : ~Current(t)') => BetweenSound'
  <2>1. Clear
    BY <1>10 DEF Clear
  <2>2. ClearSound
    BY <2>1 DEF HooksInv, ClearTruth
  <2>3. ~Rooted(m) /\ m.kind # "start" /\ m.kind \notin Ends /\ m.kind # "prompt"
    BY <1>2 DEF Rooted, Ends
  <2>4. ClearSound'
    <3>1. \A p \in posts' : p.waited <=> Rooted(p)
      BY <1>2, <2>2, <2>3 DEF ClearSound
    <3> QED BY <1>2, <1>4, <2>2, <3>1 DEF ClearSound
  <2>5. \A t \in Sessions : Current(t)' <=> Current(t)
    BY <1>2, <2>3 DEF Current
  <2>6. ASSUME NEW t \in Sessions, Current(t) PROVE CurrentSound(t)'
    <3>0. CurrentSound(t)
      BY <2>1, <2>6 DEF HooksInv, ClearTruth
    <3>1. /\ st.session = t /\ ~st.ended /\ st.tracker.agents \subseteq {t}
          /\ IF t \in known THEN st.established /\ active = t ELSE st.tracker.agents = {}
      BY <3>0 DEF CurrentSound
    <3>2. \A p \in posts' : p.session = t /\ p.kind \in Levels =>
            \/ \E q \in posts' : q.session = t /\ q.kind \in Levels /\ q.n > p.n
            \/ Level(p) <=> t \in agents'
      <4>1. CASE t = s
        <5>1. m.kind \in Levels /\ m.session = t
          BY <1>2, <4>1 DEF Levels
        <5>2. Level(m) <=> t \in agents'
          BY <1>0, <1>2, <4>1 DEF Level
        <5> QED BY <1>2, <1>5, <5>1, <5>2
      <4>2. CASE t # s
        <5>1. t \in agents' <=> t \in agents
          BY <4>2
        <5>2. \A p \in posts : p.session = t /\ p.kind \in Levels =>
                \/ \E q \in posts : q.session = t /\ q.kind \in Levels /\ q.n > p.n
                \/ Level(p) <=> t \in agents
          BY <3>0 DEF CurrentSound
        <5> QED BY <1>2, <4>2, <5>1, <5>2
      <4> QED BY <4>1, <4>2
    <3>3. (\A p \in posts' : p.session = t => p.kind \notin Levels) =>
            st.tracker.agents = agents' \cap {t}
      <4>1. CASE t = s
        BY <1>2, <4>1 DEF Levels
      <4>2. CASE t # s
        <5>1. agents' \cap {t} = agents \cap {t}
          BY <4>2
        <5> QED BY <1>2, <3>0, <5>1 DEF CurrentSound
      <4> QED BY <4>1, <4>2
    <3>4. \A p \in posts : p.waited /\ (t \in known \/ p.kind = "prompt") =>
            IF p.kind = "endExit" THEN root = "gone"
            ELSE RootAs(Reduce(st.tracker, p).root) /\ (p.kind = "endClear" => root = "idle")
      BY <3>0 DEF CurrentSound
    <3>5. (t \in known /\ \A p \in posts : ~p.waited) => RootAs(st.tracker.root)
      BY <3>0 DEF CurrentSound
    <3>6. t \in known =>
          /\ statuses[t] = IF st.tracker.root = "unknown" THEN "idle" ELSE Aggregate(st.tracker)
          /\ st.tracker.root = "unknown" =>
                /\ t \notin agents' /\ st.tracker.agents = {}
                /\ \A p \in posts' : p.session = t => p.kind \in {"prompt"} \cup Ends
      <4>1. t \in known =>
              /\ statuses[t] = IF st.tracker.root = "unknown" THEN "idle" ELSE Aggregate(st.tracker)
              /\ st.tracker.root = "unknown" =>
                    /\ t \notin agents /\ st.tracker.agents = {}
                    /\ \A p \in posts : p.session = t => p.kind \in {"prompt"} \cup Ends
        BY <3>0 DEF CurrentSound
      <4> QED BY <1>0, <1>2, <1>4, <4>1
    <3>7. /\ st' = st /\ known' = known /\ active' = active /\ statuses' = statuses /\ root' = root
          /\ \A p \in posts' : p.waited => p \in posts
          /\ posts \subseteq posts'
      BY <1>2
    <3>8. \A p \in posts' : p.waited /\ (t \in known \/ p.kind = "prompt") =>
            IF p.kind = "endExit" THEN root' = "gone"
            ELSE RootAs(Reduce(st.tracker, p).root) /\ (p.kind = "endClear" => root' = "idle")
      BY <3>4, <3>7
    <3>9. (t \in known /\ \A p \in posts' : ~p.waited) => RootAs(st.tracker.root)
      BY <3>5, <3>7
    <3> QED BY <3>1, <3>2, <3>3, <3>6, <3>7, <3>8, <3>9 DEF CurrentSound, RootAs, Level
  <2>7. ASSUME \A t \in Sessions : ~Current(t)' PROVE BetweenSound'
    <3>1. BetweenSound
      BY <2>1, <2>5, <2>7 DEF HooksInv, ClearTruth
    <3>2. (/\ st.ended /\ st.session \in known \ agents' /\ root # "gone"
           /\ \A p \in posts' : p.session = st.session => p.kind = "start") =>
              statuses[st.session] = "idle"
      <4>1. CASE st.session = s
        BY <1>2, <2>3, <4>1
      <4>2. CASE st.session # s
        BY <1>2, <3>1, <4>2 DEF BetweenSound
      <4> QED BY <4>1, <4>2
    <3>3. \A p \in posts' : p.kind = "start" =>
            /\ root = "idle" /\ p.session \notin agents'
            /\ \A q \in posts' : q.session = p.session => q.n <= p.n
      BY <1>0, <1>2, <1>4, <2>3, <3>1 DEF BetweenSound
    <3> QED BY <3>1, <3>2, <3>3 DEF BetweenSound
  <2> QED BY <2>4, <2>5, <2>6, <2>7
<1> QED BY <1>0, <1>6, <1>7, <1>8, <1>9, <1>10 DEF HooksInv, Grounds, ClearTruth

-----------------------------------------------------------------------------
(* The deliveries on their way.                                            *)

(* A post that says the same. *)
Same(p, q) == /\ q.n = p.n /\ q.session = p.session /\ q.kind = p.kind /\ q.tasks = p.tasks
              /\ q.waited = p.waited

LEMMA Stepped ==
  ASSUME HooksInv, NEW p \in posts, NEW o \in Post, Same(p, o),
         posts' = (posts \ {p}) \cup {o},
         UNCHANGED <<terminal, st, programVars, events, domainVars, strayed, told>>,
         lost' <=> lost
  PROVE  PostsSound' /\ ShownFirst' /\ ClearTruth'
<1> USE DEF programVars, domainVars
<1>0. HooksTypeOK /\ PostsSound /\ ShownFirst
  BY DEF HooksInv, Grounds
<1>1. \A r \in posts' : \E q \in posts : Same(r, q)
  BY DEF Same
<1>2. \A q \in posts : \E r \in posts' : Same(q, r)
  BY DEF Same
<1>3. PostsSound'
  <2>1. \A q, r \in posts' : q.n = r.n => q = r
    BY <1>0 DEF PostsSound, Same
  <2>2. \A q, r \in posts' : q.waited /\ r.waited => q = r
    BY <1>0 DEF PostsSound, Same
  <2>3. \A r \in posts' : r.n <= events
    BY <1>0 DEF PostsSound, Same
  <2>4. shown # Nobody => \A r \in posts' : r.waited => r.session = shown /\ r.kind \notin Ends
    BY <1>0 DEF PostsSound, Same
  <2>5. ~strayed => \A r \in posts' : r.kind = "start" => r.waited
    BY <1>0 DEF PostsSound, Same
  <2> QED BY <2>1, <2>2, <2>3, <2>4, <2>5 DEF PostsSound
<1>4. ShownFirst'
  BY <1>0 DEF ShownFirst, Same
<1>5. ASSUME Clear'
      PROVE  /\ ClearSound'
             /\ \A t \in Sessions : Current(t)' => CurrentSound(t)'
             /\ (\A t \in Sessions : ~Current(t)') => BetweenSound'
  <2>1. Clear
    BY <1>5 DEF Clear
  <2>2. ClearSound
    BY <2>1 DEF HooksInv, ClearTruth
  <2>3. ClearSound'
    <3>1. \A r \in posts' : r.waited <=> Rooted(r)
      BY <1>1, <2>2 DEF ClearSound, Same, Rooted
    <3>2. shown = Nobody => \A r \in posts' : r.waited => r.kind \in Ends
      BY <1>1, <2>2 DEF ClearSound, Same
    <3>3. \A s \in prompted : s \in known \/ \E r \in posts' : r.kind = "prompt" /\ r.session = s
      BY <1>2, <2>2 DEF ClearSound, Same
    <3> QED BY <2>2, <3>1, <3>2, <3>3 DEF ClearSound
  <2>4. \A t \in Sessions : Current(t)' <=> Current(t)
    <3>1. (\A q \in posts : q.kind # "start") <=> (\A r \in posts' : r.kind # "start")
      BY <1>1, <1>2 DEF Same
    <3>2. \A t \in Sessions : (\E q \in posts : q.kind \in Ends /\ q.session = t)
                              <=> (\E r \in posts' : r.kind \in Ends /\ r.session = t)
      BY <1>1, <1>2 DEF Same
    <3> QED BY <3>1, <3>2 DEF Current
  <2>5. ASSUME NEW t \in Sessions, Current(t) PROVE CurrentSound(t)'
    <3>0. CurrentSound(t)
      BY <2>1, <2>5 DEF HooksInv, ClearTruth
    <3>1. \A r \in posts' : r.session = t /\ r.kind \in Levels =>
            \/ \E q \in posts' : q.session = t /\ q.kind \in Levels /\ q.n > r.n
            \/ Level(r) <=> t \in agents
      <4> SUFFICES ASSUME NEW r \in posts', r.session = t, r.kind \in Levels
                   PROVE  \/ \E q \in posts' : q.session = t /\ q.kind \in Levels /\ q.n > r.n
                          \/ Level(r) <=> t \in agents
        OBVIOUS
      <4>1. PICK q \in posts : Same(r, q)
        BY <1>1
      <4>2. \/ \E k \in posts : k.session = t /\ k.kind \in Levels /\ k.n > q.n
            \/ Level(q) <=> t \in agents
        BY <3>0, <4>1 DEF CurrentSound, Same
      <4>3. CASE \E k \in posts : k.session = t /\ k.kind \in Levels /\ k.n > q.n
        BY <1>2, <4>1, <4>3 DEF Same
      <4>4. CASE Level(q) <=> t \in agents
        BY <4>1, <4>4 DEF Same, Level
      <4> QED BY <4>2, <4>3, <4>4
    <3>2. (\A r \in posts' : r.session = t => r.kind \notin Levels) =>
            st.tracker.agents = agents \cap {t}
      BY <1>2, <3>0 DEF CurrentSound, Same
    <3>3. \A r \in posts' : r.waited /\ (t \in known \/ r.kind = "prompt") =>
            IF r.kind = "endExit" THEN root = "gone"
            ELSE RootAs(Reduce(st.tracker, r).root) /\ (r.kind = "endClear" => root = "idle")
      <4> SUFFICES ASSUME NEW r \in posts', r.waited, t \in known \/ r.kind = "prompt"
                   PROVE  IF r.kind = "endExit" THEN root = "gone"
                          ELSE RootAs(Reduce(st.tracker, r).root)
                               /\ (r.kind = "endClear" => root = "idle")
        OBVIOUS
      <4>1. PICK q \in posts : Same(r, q)
        BY <1>1
      <4>2. Reduce(st.tracker, q) = Reduce(st.tracker, r)
        BY <4>1 DEF Same, Reduce
      <4>3. IF q.kind = "endExit" THEN root = "gone"
            ELSE RootAs(Reduce(st.tracker, q).root) /\ (q.kind = "endClear" => root = "idle")
        BY <3>0, <4>1 DEF CurrentSound, Same
      <4> QED BY <4>1, <4>2, <4>3 DEF Same
    <3>4. (t \in known /\ \A r \in posts' : ~r.waited) => RootAs(st.tracker.root)
      BY <1>2, <3>0 DEF CurrentSound, Same
    <3>5. (t \in known /\ st.tracker.root = "unknown") =>
             \A r \in posts' : r.session = t => r.kind \in {"prompt"} \cup Ends
      BY <1>1, <3>0 DEF CurrentSound, Same
    <3> QED BY <3>0, <3>1, <3>2, <3>3, <3>4, <3>5 DEF CurrentSound, RootAs, Level
  <2>6. ASSUME \A t \in Sessions : ~Current(t)' PROVE BetweenSound'
    <3>1. BetweenSound
      BY <2>1, <2>4, <2>6 DEF HooksInv, ClearTruth
    <3>2. (/\ st.ended /\ st.session \in known \ agents /\ root # "gone"
           /\ \A r \in posts' : r.session = st.session => r.kind = "start") =>
              statuses[st.session] = "idle"
      BY <1>2, <3>1 DEF BetweenSound, Same
    <3>3. \A r \in posts' : r.kind = "start" =>
            /\ root = "idle" /\ r.session \notin agents
            /\ \A q \in posts' : q.session = r.session => q.n <= r.n
      <4> SUFFICES ASSUME NEW r \in posts', r.kind = "start"
                   PROVE  /\ root = "idle" /\ r.session \notin agents
                          /\ \A q \in posts' : q.session = r.session => q.n <= r.n
        OBVIOUS
      <4>1. PICK k \in posts : Same(r, k)
        BY <1>1
      <4>2. /\ root = "idle" /\ k.session \notin agents
            /\ \A q \in posts : q.session = k.session => q.n <= k.n
        BY <3>1, <4>1 DEF BetweenSound, Same
      <4> QED BY <1>1, <4>1, <4>2 DEF Same
    <3> QED BY <3>1, <3>2, <3>3 DEF BetweenSound
  <2> QED BY <2>3, <2>4, <2>5, <2>6
<1> QED BY <1>3, <1>4, <1>5 DEF ClearTruth

LEMMA FewerPosts ==
  ASSUME PostsSound, ShownFirst, posts' \subseteq posts, UNCHANGED <<shown, events, strayed>>
  PROVE  PostsSound'
BY DEF PostsSound

LEMMA TimeOutHolds ==
  ASSUME HooksInv, NEW p \in posts, TimeOut(p) PROVE HooksInv'
<1> USE DEF TimeOut, launchVars, programVars, domainVars
<1>0. /\ HooksTypeOK /\ LaunchSound /\ PostsSound /\ ShownFirst /\ RightConversation /\ ~trespass
      /\ st \in LaunchState
  BY DEF HooksInv, Grounds
<1> DEFINE o == [p EXCEPT !.waited = FALSE]
<1>1. p \in Post
  BY <1>0 DEF HooksTypeOK
<1>2. /\ o \in Post /\ o.n = p.n /\ o.session = p.session /\ o.kind = p.kind /\ ~o.waited
      /\ posts' = (posts \ {p}) \cup {o}
  BY <1>1 DEF Post
<1> HIDE DEF o
<1>3. HooksTypeOK'
  BY <1>0, <1>2 DEF HooksTypeOK
<1>4. LaunchSound'
  BY <1>0 DEF LaunchSound
<1>5. PostsSound'
  <2>1. \A q, r \in posts' : q.n = r.n => q = r
    BY <1>0, <1>2 DEF PostsSound
  <2>2. \A q, r \in posts' : q.waited /\ r.waited => q = r
    BY <1>0, <1>2 DEF PostsSound
  <2>3. \A r \in posts' : r.n <= events
    BY <1>0, <1>2 DEF PostsSound
  <2>4. shown # Nobody => \A r \in posts' : r.waited => r.session = shown /\ r.kind \notin Ends
    BY <1>0, <1>2 DEF PostsSound
  <2>5. ~strayed' => \A r \in posts' : r.kind = "start" => r.waited
    BY <1>0, <1>2 DEF PostsSound
  <2> QED BY <2>1, <2>2, <2>3, <2>4, <2>5 DEF PostsSound
<1>6. ShownFirst' /\ RightConversation'
  BY <1>0, <1>2 DEF ShownFirst, RightConversation
<1>7. ClearTruth'
  BY DEF ClearTruth, Clear
<1> QED BY <1>0, <1>3, <1>4, <1>5, <1>6, <1>7 DEF HooksInv, Grounds

LEMMA FindHolds ==
  ASSUME HooksInv, NEW p \in posts, Find(p) PROVE HooksInv'
<1> USE DEF Find, launchVars, programVars, domainVars, historyVars
<1>0. /\ HooksTypeOK /\ LaunchSound /\ PostsSound /\ ShownFirst /\ RightConversation /\ ~trespass
      /\ st \in LaunchState /\ p \in Post
  BY DEF HooksInv, Grounds, HooksTypeOK
<1> DEFINE o == [p EXCEPT !.step = "found"]
<1>1. o \in Post /\ Same(p, o)
  BY <1>0 DEF Post, Same
<1>2. HooksTypeOK'
  BY <1>0, <1>1 DEF HooksTypeOK
<1>3. LaunchSound' /\ RightConversation'
  BY <1>0 DEF LaunchSound, RightConversation
<1>4. CASE registered
  <2>1. posts' = (posts \ {p}) \cup {o} /\ (lost' <=> lost)
    BY <1>4, <1>0 DEF HooksTypeOK
  <2>2. PostsSound' /\ ShownFirst' /\ ClearTruth'
    <3> HIDE DEF o
    <3> QED BY <1>1, <2>1, Stepped
  <2> QED BY <1>0, <1>2, <1>3, <2>2 DEF HooksInv, Grounds
<1>5. CASE ~registered
  <2>1. terminal # "running" /\ posts' \subseteq posts
    BY <1>0, <1>5 DEF LaunchSound
  <2>2. PostsSound'
    BY <1>0, <2>1, FewerPosts
  <2>3. ShownFirst' /\ ClearTruth'
    BY <1>0, <2>1 DEF ShownFirst, ClearTruth, Clear
  <2> QED BY <1>0, <1>2, <1>3, <2>2, <2>3 DEF HooksInv, Grounds
<1> QED BY <1>4, <1>5

LEMMA LockHolds ==
  ASSUME HooksInv, NEW p \in posts, Lock(p) PROVE HooksInv'
<1> USE DEF Lock, launchVars, programVars, domainVars, historyVars, StillOwned
<1>0. /\ HooksTypeOK /\ LaunchSound /\ PostsSound /\ ShownFirst /\ RightConversation /\ ~trespass
      /\ st \in LaunchState /\ p \in Post
  BY DEF HooksInv, Grounds, HooksTypeOK
<1>1. posts' \subseteq posts
  OBVIOUS
<1>2. HooksTypeOK'
  BY <1>0, <1>1 DEF HooksTypeOK, Post
<1>3. LaunchSound' /\ RightConversation'
  BY <1>0 DEF LaunchSound, RightConversation, HooksTypeOK
<1>4. PostsSound'
  BY <1>0, <1>1, FewerPosts
<1>5. ShownFirst'
  BY <1>0, <1>1 DEF ShownFirst
<1>6. ClearTruth'
  <2>1. CASE registered
    <3>1. UNCHANGED <<terminal, st, programVars, events, posts, domainVars, lost>>
      BY <2>1
    <3>2. ClearTruth
      BY DEF HooksInv
    <3> QED BY <3>1, <3>2 DEF ClearTruth, Clear, ClearSound, Current, CurrentSound, BetweenSound,
                              RootAs
  <2>2. CASE ~registered
    BY <1>0, <2>2 DEF LaunchSound, ClearTruth, Clear
  <2> QED BY <2>1, <2>2
<1> QED BY <1>0, <1>2, <1>3, <1>4, <1>5, <1>6 DEF HooksInv, Grounds

-----------------------------------------------------------------------------
(* A payload is applied.                                                   *)

(* Whatever was lost: the domain's types, and what the terminal projects   *)
(* afterwards.                                                             *)
LEMMA Taking ==
  ASSUME Grounds, NEW p \in posts, NEW s \in Admitted(p), NEW ok \in BOOLEAN, Take(p, s, ok)
  PROVE  /\ st' \in LaunchState /\ st'.session = p.session
         /\ known' \subseteq Sessions /\ known \subseteq known' /\ active' \in known' \cup {Nobody}
         /\ statuses' \in [Sessions -> {"idle", "unknown"} \cup Live]
         /\ p.session \notin known' => active' = Nobody
         /\ told' => told \/ p.session = shown
         /\ active' \in {p.session, Nobody} \/ (active' = active /\ (told' => told))
<1>0. /\ HooksTypeOK /\ st \in LaunchState /\ p \in Post /\ p.session \in Sessions
      /\ p.session # Nobody
      /\ st.session \notin known => active = Nobody
  BY LaunchAssumption DEF Grounds, HooksTypeOK, Post, ShownFirst, Nobody
<1>1. told' => told \/ (p.session = shown /\ IF Needs(p, s) THEN ok /\ terminal = "running"
                                             ELSE p.kind = "start")
  BY DEF Take
<1>2. CASE p.kind = "start"
  <2>1. /\ st' \in LaunchState /\ st'.session = p.session /\ known' = known
        /\ p.session \in known /\ ok /\ terminal = "running" =>
              /\ active' = p.session
              /\ statuses' = IF p.session = st.session THEN statuses
                             ELSE [statuses EXCEPT ![p.session] = "idle"]
        /\ p.session \in known /\ ~(ok /\ terminal = "running") =>
              active' = active /\ statuses' = statuses
        /\ p.session \notin known =>
              IF p.session = st.session THEN active' = active /\ statuses' = statuses
              ELSE /\ active' = Nobody
                   /\ statuses' = IF active = Nobody THEN statuses
                                  ELSE [statuses EXCEPT ![active] =
                                          IF @ \in Live THEN "unknown" ELSE @]
    BY <1>0, <1>2, TakeStart
  <2>2. Needs(p, s) <=> p.session \in known
    BY <1>2 DEF Needs
  <2>3. CASE p.session \in known /\ ok /\ terminal = "running"
    <3>1. statuses' \in [Sessions -> {"idle", "unknown"} \cup Live]
      BY <1>0, <2>1, <2>3 DEF HooksTypeOK
    <3> QED BY <1>0, <1>1, <2>1, <2>3, <3>1 DEF HooksTypeOK
  <2>4. CASE p.session \in known /\ ~(ok /\ terminal = "running")
    BY <1>0, <1>1, <2>1, <2>2, <2>4 DEF HooksTypeOK
  <2>5. CASE p.session \notin known
    <3>1. statuses' \in [Sessions -> {"idle", "unknown"} \cup Live]
      BY <1>0, <2>1, <2>5 DEF HooksTypeOK, Live
    <3>2. active' = Nobody
      BY <1>0, <2>1, <2>5
    <3> QED BY <1>0, <1>1, <2>1, <2>5, <3>1, <3>2 DEF HooksTypeOK
  <2> QED BY <2>3, <2>4, <2>5
<1>3. ASSUME p.kind # "start"
      PROVE  st.session = p.session \/ st.session = Nobody
  BY <1>0, <1>3, AdmittedLater
<1>4. p.kind # "start" /\ p.session \notin known => active = Nobody
  BY <1>0, <1>3, LaunchAssumption DEF HooksTypeOK, Nobody
<1>5. CASE p.kind \in Ends
  <2>1. /\ st' \in LaunchState /\ st'.session = p.session
        /\ IF Needs(p, s) /\ ok /\ terminal = "running"
           THEN /\ known' = known \cup {p.session}
                /\ active' = IF p.kind = "endExit" THEN Nobody ELSE p.session
           ELSE /\ known' = known
                /\ active' = IF p.kind = "endExit" THEN Nobody ELSE active
        /\ statuses' \in [Sessions -> {"idle", "unknown"} \cup Live]
    BY <1>0, <1>5, TakeEnd
  <2>2. p.kind # "start"
    BY <1>5 DEF Ends
  <2> QED BY <1>0, <1>1, <1>4, <2>1, <2>2 DEF HooksTypeOK
<1>6. CASE p.kind \notin {"start"} \cup Ends
  <2> DEFINE agg == Aggregate(Reduce(s.tracker, p))
  <2>1. /\ st' \in LaunchState /\ st'.session = p.session
        /\ IF Needs(p, s) /\ ok /\ terminal = "running"
           THEN /\ known' = known \cup {p.session} /\ active' = p.session
           ELSE known' = known /\ active' = active
        /\ statuses' = statuses \/ statuses' = [statuses EXCEPT ![p.session] = agg]
    BY <1>0, <1>6, TakeOther
  <2>2. agg \in {"idle", "unknown"} \cup Live
    BY <1>0, <1>6, AdmittedLater, Reduced DEF LaunchState
  <2>3. statuses' \in [Sessions -> {"idle", "unknown"} \cup Live]
    <3> HIDE DEF agg
    <3> QED BY <1>0, <2>1, <2>2 DEF HooksTypeOK
  <2> QED BY <1>0, <1>1, <1>4, <1>6, <2>1, <2>3 DEF HooksTypeOK
<1> QED BY <1>2, <1>5, <1>6

LEMMA ApplyGrounds ==
  ASSUME HooksInv, NEW p \in posts, Apply(p) PROVE Grounds'
<1> USE DEF Apply, Done, launchVars, programVars
<1>0. /\ Grounds /\ HooksTypeOK /\ LaunchSound /\ PostsSound /\ ShownFirst /\ RightConversation
      /\ ~trespass /\ st \in LaunchState /\ p \in Post
  BY DEF HooksInv, Grounds, HooksTypeOK
<1>1. posts' \subseteq posts /\ locked' = 0 /\ p.n \in 1 .. MaxEvents
  BY <1>0 DEF Post
<1>2. PostsSound'
  BY <1>0, <1>1, FewerPosts
<1>3. revoking # "done" /\ terminal # "none" /\ ~trespass'
  <2>1. locked # 0
    BY <1>1
  <2>2. revoking # "done" /\ terminal # "none"
    BY <1>0, <2>1 DEF LaunchSound
  <2> QED BY <1>0, <2>2
<1>4. LaunchSound'
  BY <1>0, <1>3 DEF LaunchSound
<1>5. CASE Refuse(p)
  <2> USE DEF Refuse, domainVars
  <2>1. HooksTypeOK'
    BY <1>0, <1>1, <1>5, LaunchAssumption DEF HooksTypeOK
  <2>2. ShownFirst' /\ RightConversation'
    BY <1>0, <1>1, <1>5 DEF ShownFirst, RightConversation
  <2> QED BY <1>0, <1>2, <1>3, <1>4, <1>5, <2>1, <2>2 DEF Grounds
<1>6. ASSUME NEW s \in Admitted(p), NEW ok \in BOOLEAN, Take(p, s, ok)
      PROVE  HooksTypeOK' /\ st' \in LaunchState /\ ShownFirst' /\ RightConversation'
  <2>1. /\ st' \in LaunchState /\ st'.session = p.session
        /\ known' \subseteq Sessions /\ known \subseteq known' /\ active' \in known' \cup {Nobody}
        /\ statuses' \in [Sessions -> {"idle", "unknown"} \cup Live]
        /\ p.session \notin known' => active' = Nobody
        /\ told' => told \/ p.session = shown
        /\ active' \in {p.session, Nobody} \/ (active' = active /\ (told' => told))
    BY <1>0, <1>6, Taking
  <2>2. HooksTypeOK'
    <3>1. st'.tracker.agents \subseteq Sessions /\ st'.session \in Sessions \cup {Nobody}
      BY <2>1 DEF LaunchState, Tracker
    <3>2. 0 \in 0 .. MaxEvents
      BY LaunchAssumption
    <3> QED BY <1>0, <1>1, <2>1, <3>1, <3>2 DEF HooksTypeOK
  <2>3. ASSUME shown # Nobody, told', ~strayed, terminal = "running" PROVE p.session = shown
    <3>1. CASE p.session # shown
      <4>1. told
        BY <2>1, <2>3, <3>1
      <4>2. \/ st.session = shown
            \/ st.session = Nobody /\ \A q \in posts : q.kind = "prompt" => q.session = shown
        BY <1>0, <2>3, <4>1 DEF ShownFirst
      <4>3. p.kind # "start"
        BY <1>0, <2>3, <3>1 DEF PostsSound
      <4>4. st.session = p.session \/ (st.session = Nobody /\ p.kind = "prompt")
        BY <1>0, <4>3, AdmittedLater
      <4>5. p.session # Nobody
        BY <1>0, LaunchAssumption DEF Post, Nobody
      <4> QED BY <2>3, <3>1, <4>2, <4>4, <4>5
    <3> QED BY <3>1
  <2>4. ShownFirst'
    BY <2>1, <2>3 DEF ShownFirst
  <2>5. RightConversation'
    BY <1>0, <2>1, <2>3 DEF RightConversation
  <2> QED BY <2>1, <2>2, <2>4, <2>5
<1> QED BY <1>2, <1>3, <1>4, <1>5, <1>6 DEF Grounds

(* With nothing lost only what an agent of another conversation tells is   *)
(* refused.                                                                *)
LEMMA RefuseTruth ==
  ASSUME HooksInv, NEW p \in posts, posts' = posts \ {p}, UNCHANGED <<terminal, programVars>>,
         Refuse(p)
  PROVE  ClearTruth'
<1> SUFFICES ASSUME Clear'
             PROVE  /\ ClearSound'
                    /\ \A t \in Sessions : Current(t)' => CurrentSound(t)'
                    /\ (\A t \in Sessions : ~Current(t)') => BetweenSound'
  BY DEF ClearTruth
<1> USE DEF Refuse, programVars, domainVars
<1>0. HooksTypeOK /\ PostsSound /\ p \in Post /\ p.session \in Sessions
  BY DEF HooksInv, Grounds, HooksTypeOK, Post
<1>1. Clear /\ p.session # shown /\ p.session # st.session
  BY DEF Clear
<1>2. ClearSound
  BY <1>1 DEF HooksInv, ClearTruth
<1>3. ~Rooted(p)
  <2>1. CASE p.kind \in Ends
    <3>1. Current(p.session)
      BY <2>1 DEF Current
    <3>2. CurrentSound(p.session)
      BY <1>0, <1>1, <3>1 DEF HooksInv, ClearTruth
    <3> QED BY <1>1, <3>2 DEF CurrentSound
  <2>2. CASE p.kind \notin Ends
    <3>1. p.waited => shown # Nobody
      BY <1>2, <2>2 DEF ClearSound
    <3>2. ~p.waited
      BY <1>0, <1>1, <3>1 DEF PostsSound
    <3> QED BY <1>2, <3>2 DEF ClearSound
  <2> QED BY <2>1, <2>2
<1>4. ~p.waited /\ p.kind \notin Ends /\ p.kind # "start" /\ p.kind # "prompt"
  BY <1>2, <1>3 DEF ClearSound, Rooted, Ends
<1>5. ClearSound'
  BY <1>2, <1>4 DEF ClearSound
<1>6. \A t \in Sessions : Current(t)' <=> Current(t)
  BY <1>4 DEF Current
<1>7. ASSUME NEW t \in Sessions, Current(t) PROVE CurrentSound(t)'
  <2>0. CurrentSound(t)
    BY <1>1, <1>7 DEF HooksInv, ClearTruth
  <2>1. t # p.session
    BY <1>1, <2>0 DEF CurrentSound
  <2>2. \A r \in posts' : r.session = t /\ r.kind \in Levels =>
          \/ \E q \in posts' : q.session = t /\ q.kind \in Levels /\ q.n > r.n
          \/ Level(r) <=> t \in agents
    <3>1. \A r \in posts : r.session = t /\ r.kind \in Levels =>
            \/ \E q \in posts : q.session = t /\ q.kind \in Levels /\ q.n > r.n
            \/ Level(r) <=> t \in agents
      BY <2>0 DEF CurrentSound
    <3> QED BY <2>1, <3>1
  <2>3. (\A r \in posts' : r.session = t => r.kind \notin Levels) =>
          st.tracker.agents = agents \cap {t}
    BY <2>0, <2>1 DEF CurrentSound
  <2>4. (t \in known /\ \A r \in posts' : ~r.waited) => RootAs(st.tracker.root)
    BY <1>4, <2>0 DEF CurrentSound
  <2> QED BY <2>0, <2>2, <2>3, <2>4 DEF CurrentSound, RootAs, Level
<1>8. ASSUME \A t \in Sessions : ~Current(t)' PROVE BetweenSound'
  <2>1. BetweenSound
    BY <1>1, <1>6, <1>8 DEF HooksInv, ClearTruth
  <2> QED BY <1>1, <2>1 DEF BetweenSound
<1> QED BY <1>5, <1>6, <1>7, <1>8

(* With nothing lost an observation that was needed was made, and nothing  *)
(* was overtaken.                                                          *)
LEMMA TakenClear ==
  ASSUME HooksInv, NEW p \in posts, NEW s \in Admitted(p), NEW ok \in BOOLEAN, Take(p, s, ok),
         UNCHANGED <<terminal, programVars>>, Clear'
  PROVE  /\ Clear /\ ClearSound
         /\ Needs(p, s) => ok /\ terminal = "running"
         /\ \A q \in posts : q.session = p.session => q.n >= p.n
         /\ p \in Post /\ p.session \in Sessions /\ p.session # Nobody
<1>1. Clear /\ (Needs(p, s) => ok /\ terminal = "running") /\ ~Overtakes(p)
  BY DEF Take, Clear
<1>2. ClearSound
  BY <1>1 DEF HooksInv, ClearTruth
<1>3. \A q \in posts : q \in Post /\ q.n \in Nat
  BY DEF HooksInv, Grounds, HooksTypeOK, Post
<1>4. \A q \in posts : q.session = p.session => q.n >= p.n
  BY <1>1, <1>3 DEF Overtakes
<1> QED BY <1>1, <1>2, <1>3, <1>4, LaunchAssumption DEF Post, Nobody

LEMMA StartTruth ==
  ASSUME HooksInv, NEW p \in posts, posts' = posts \ {p}, UNCHANGED <<terminal, programVars>>,
         p.kind = "start", NEW s \in Admitted(p), NEW ok \in BOOLEAN, Take(p, s, ok)
  PROVE  ClearTruth'
<1> SUFFICES ASSUME Clear'
             PROVE  /\ ClearSound'
                    /\ \A t \in Sessions : Current(t)' => CurrentSound(t)'
                    /\ (\A t \in Sessions : ~Current(t)') => BetweenSound'
  BY DEF ClearTruth
<1> USE DEF programVars
<1>0. HooksTypeOK /\ PostsSound /\ st \in LaunchState
  BY DEF HooksInv, Grounds
<1>1. /\ Clear /\ ClearSound
      /\ Needs(p, s) => ok /\ terminal = "running"
      /\ \A q \in posts : q.session = p.session => q.n >= p.n
      /\ p \in Post /\ p.session \in Sessions /\ p.session # Nobody
  BY TakenClear
<1>2. PICK S \in Sessions : S = p.session
  BY <1>1
<1>3. p.waited /\ shown # Nobody /\ shown = S
  <2>1. Rooted(p) /\ p.kind \notin Ends
    BY DEF Rooted, Ends
  <2> QED BY <1>0, <1>1, <1>2, <2>1 DEF ClearSound, PostsSound
<1>4. \A q \in posts : q.waited => q = p
  BY <1>0, <1>3 DEF PostsSound
<1>5. \A q \in posts' : ~q.waited /\ q.kind # "start" /\ q.kind \notin Ends /\ q.kind # "prompt"
  <2>1. \A q \in posts' : ~q.waited
    BY <1>4
  <2> QED BY <1>1, <2>1 DEF ClearSound, Rooted, Ends
<1>6. \A t \in Sessions : ~Current(t)
  BY <1>4, <1>1, LaunchAssumption DEF Current, ClearSound, Rooted, Ends
<1>7. BetweenSound
  BY <1>1, <1>6 DEF HooksInv, ClearTruth
<1>8. root = "idle" /\ S \notin agents /\ \A q \in posts : q.session = S => q.n <= p.n
  BY <1>2, <1>7 DEF BetweenSound
<1>9. \A q \in posts : q.session = S => q = p
  <2>1. \A q \in posts : q.session = S => q.n = p.n
    BY <1>0, <1>1, <1>2, <1>8 DEF HooksTypeOK, Post
  <2> QED BY <1>0, <2>1 DEF PostsSound
<1>10. Needs(p, s) <=> S \in known
  BY <1>2 DEF Needs
<1>11. /\ st' \in LaunchState /\ st'.session = S /\ ~st'.ended
       /\ st'.tracker = s.tracker /\ st'.titled = s.titled
       /\ st'.established = IF S \in known THEN TRUE ELSE s.established
       /\ known' = known
       /\ S \in known => /\ active' = S
                         /\ statuses' = IF S = st.session THEN statuses
                                        ELSE [statuses EXCEPT ![S] = "idle"]
  BY <1>0, <1>1, <1>2, <1>10, TakeStart
<1>12. /\ S = st.session => /\ s.tracker = st.tracker /\ s.titled = st.titled
                            /\ s.established = st.established
       /\ S # st.session => /\ s.tracker = NewTracker /\ s.titled = FALSE
                            /\ s.established = FALSE
  BY <1>0, <1>1, <1>2, AdmittedStart
<1>13. S = st.session => st.ended /\ st.tracker = SeededTracker
  BY <1>1, <1>2, <1>7 DEF BetweenSound, ClearSound
<1>14. ClearSound'
  <2>1. \A q \in posts' : q.waited <=> Rooted(q)
    BY <1>1 DEF ClearSound
  <2>2. \A t \in prompted : t \in known
    BY <1>1, <1>4 DEF ClearSound, Rooted
  <2>3. S \notin known => ~st'.established /\ ~st'.titled
    BY <1>1, <1>11, <1>12 DEF ClearSound
  <2> QED BY <1>1, <1>5, <1>11, <2>1, <2>2, <2>3 DEF ClearSound
<1>15. \A t \in Sessions : Current(t)' => t = S
  BY <1>3, <1>5 DEF Current
<1>16. Current(S)'
  BY <1>3, <1>5 DEF Current
<1>17. CurrentSound(S)'
  <2>1. /\ st'.tracker.agents = {} /\ st'.tracker.root \in {"idle", "unknown"}
        /\ S # st.session => st'.tracker.root = "idle"
        /\ S = st.session => st'.tracker.root = "unknown"
    BY <1>11, <1>12, <1>13 DEF NewTracker, SeededTracker
  <2>2. (S \in known)' =>
          statuses'[S] = IF st'.tracker.root = "unknown" THEN "idle" ELSE Aggregate(st'.tracker)
    <3> SUFFICES ASSUME S \in known
                 PROVE  statuses'[S] = IF st'.tracker.root = "unknown" THEN "idle"
                                       ELSE Aggregate(st'.tracker)
      BY <1>11
    <3>1. CASE S = st.session
      <4>1. statuses[S] = "idle"
        BY <1>7, <1>8, <1>9, <1>13, <3>1 DEF BetweenSound
      <4> QED BY <1>11, <2>1, <3>1, <4>1
    <3>2. CASE S # st.session
      <4>1. statuses'[S] = "idle"
        BY <1>0, <1>11, <3>2 DEF HooksTypeOK
      <4>2. Aggregate(st'.tracker) = "idle"
        BY <2>1, <3>2 DEF Aggregate
      <4> QED BY <2>1, <3>2, <4>1, <4>2
    <3> QED BY <3>1, <3>2
  <2>3. \A q \in posts' : q.session # S
    BY <1>9
  <2>4. RootAs(st'.tracker.root)
    BY <1>8, <2>1 DEF RootAs
  <2>5. root' = root /\ agents' = agents /\ agents \cap {S} = {}
    BY <1>8
  <2> QED BY <1>5, <1>8, <1>11, <2>1, <2>2, <2>3, <2>4, <2>5 DEF CurrentSound, RootAs
<1> QED BY <1>14, <1>15, <1>16, <1>17

(* Any other payload that is taken is of the current conversation.         *)
LEMMA TakenCurrent ==
  ASSUME HooksInv, Clear, NEW p \in posts, p.kind # "start", NEW s \in Admitted(p)
  PROVE  /\ st.session = p.session /\ s = st /\ ~st.ended
         /\ Current(p.session) /\ CurrentSound(p.session)
         /\ Rooted(p) /\ p.kind \notin Ends => shown = p.session
         /\ p.kind \in Ends => shown = Nobody
         /\ Rooted(p) => p.waited /\ \A q \in posts : q.waited => q = p
<1>0. HooksTypeOK /\ PostsSound /\ st \in LaunchState /\ p \in Post /\ p.session \in Sessions
      /\ p.session # Nobody
  BY LaunchAssumption DEF HooksInv, Grounds, HooksTypeOK, Post, Nobody
<1>1. ClearSound
  BY DEF HooksInv, ClearTruth
<1>2. /\ ~st.ended
      /\ \/ st.session = p.session /\ s = st
         \/ st.session = Nobody /\ p.kind = "prompt"
  BY <1>0, AdmittedLater
<1>3. Rooted(p) => p.waited /\ \A q \in posts : q.waited => q = p
  BY <1>0, <1>1 DEF ClearSound, PostsSound
<1>4. Rooted(p) /\ p.kind \notin Ends => shown = p.session
  BY <1>0, <1>1, <1>3 DEF ClearSound, PostsSound
<1>5. p.kind \in Ends => shown = Nobody
  BY <1>0, <1>1 DEF ClearSound, PostsSound, Rooted, Ends
<1>6. Current(p.session) /\ CurrentSound(p.session)
  <2>1. CASE p.kind \in Ends
    <3>1. Current(p.session)
      BY <2>1 DEF Current
    <3> QED BY <1>0, <3>1 DEF HooksInv, ClearTruth
  <2>2. CASE Rooted(p) /\ p.kind \notin Ends
    <3>1. \A q \in posts : q.kind # "start"
      BY <1>1, <1>3, <2>2 DEF ClearSound, Rooted
    <3>2. Current(p.session)
      BY <1>4, <2>2, <3>1 DEF Current
    <3> QED BY <1>0, <3>2 DEF HooksInv, ClearTruth
  <2>3. CASE ~Rooted(p)
    <3>1. st.session = p.session
      BY <1>2, <2>3 DEF Rooted
    <3>2. ~BetweenSound
      BY <1>0, <1>2, <3>1 DEF BetweenSound
    <3>3. \E t \in Sessions : Current(t)
      BY <3>2 DEF HooksInv, ClearTruth
    <3>4. PICK t \in Sessions : Current(t)
      BY <3>3
    <3>5. CurrentSound(t)
      BY <3>4 DEF HooksInv, ClearTruth
    <3>6. t = p.session
      BY <3>1, <3>5 DEF CurrentSound
    <3> QED BY <3>4, <3>5, <3>6
  <2> QED BY <2>1, <2>2, <2>3
<1>7. st.session = p.session /\ s = st
  BY <1>0, <1>2, <1>6 DEF CurrentSound
<1> QED BY <1>2, <1>3, <1>4, <1>5, <1>6, <1>7

LEMMA EndTruth ==
  ASSUME HooksInv, NEW p \in posts, posts' = posts \ {p}, UNCHANGED <<terminal, programVars>>,
         p.kind \in Ends, NEW s \in Admitted(p), NEW ok \in BOOLEAN, Take(p, s, ok)
  PROVE  ClearTruth'
<1> SUFFICES ASSUME Clear'
             PROVE  /\ ClearSound'
                    /\ \A t \in Sessions : Current(t)' => CurrentSound(t)'
                    /\ (\A t \in Sessions : ~Current(t)') => BetweenSound'
  BY DEF ClearTruth
<1> USE DEF programVars
<1>0. HooksTypeOK /\ PostsSound /\ st \in LaunchState
  BY DEF HooksInv, Grounds
<1>1. /\ Clear /\ ClearSound
      /\ Needs(p, s) => ok /\ terminal = "running"
      /\ p \in Post /\ p.session \in Sessions /\ p.session # Nobody
  BY TakenClear
<1>2. PICK S \in Sessions : S = p.session
  BY <1>1
<1>3. p.kind # "start" /\ p.kind # "prompt" /\ Rooted(p) /\ p.kind \in {"endExit", "endClear"}
  BY DEF Ends, Rooted
<1>4. /\ st.session = S /\ s = st /\ ~st.ended /\ CurrentSound(S) /\ shown = Nobody
      /\ p.waited /\ \A q \in posts : q.waited => q = p
  BY <1>1, <1>2, <1>3, TakenCurrent
<1>5. ~Needs(p, s)
  <2>1. CASE S \in known
    BY <1>4, <2>1 DEF CurrentSound, Needs, Ends
  <2>2. CASE S \notin known
    BY <1>1, <1>3, <1>4, <2>2 DEF ClearSound, Needs
  <2> QED BY <2>1, <2>2
<1>6. /\ st'.session = S /\ st'.ended /\ st'.tracker = SeededTracker /\ st'.titled = st.titled
      /\ st'.established = st.established /\ known' = known
      /\ p.kind # "endExit" => statuses' = statuses
  BY <1>0, <1>1, <1>2, <1>4, <1>5, TakeEnd
<1>7. \A q \in posts' : /\ ~q.waited /\ ~Rooted(q)
                        /\ q.kind # "start" /\ q.kind \notin Ends /\ q.kind # "prompt"
  <2>1. \A q \in posts' : ~q.waited
    BY <1>4
  <2> QED BY <1>1, <2>1 DEF ClearSound, Rooted, Ends
<1>8. ClearSound'
  BY <1>1, <1>3, <1>4, <1>6, <1>7 DEF ClearSound
<1>9. \A t \in Sessions : ~Current(t)'
  BY <1>4, <1>7, LaunchAssumption DEF Current, Nobody
<1>10. BetweenSound'
  <2>1. ASSUME S \in known, S \notin agents, root # "gone",
               \A q \in posts' : q.session = S => q.kind = "start"
        PROVE  statuses'[S] = "idle"
    <3>1. p.kind = "endClear" /\ root = "idle" /\ RootAs(Reduce(st.tracker, p).root)
      BY <1>3, <1>4, <2>1 DEF CurrentSound
    <3>2. Reduce(st.tracker, p).root = st.tracker.root
      BY <3>1 DEF Reduce
    <3>3. \A q \in posts : q.session = S => q.kind \notin Levels
      BY <1>3, <1>7, <2>1 DEF Levels
    <3>4. st.tracker.agents = {}
      BY <1>4, <2>1, <3>3 DEF CurrentSound
    <3>5. statuses[S] = IF st.tracker.root = "unknown" THEN "idle" ELSE Aggregate(st.tracker)
      BY <1>4, <2>1 DEF CurrentSound
    <3>6. statuses[S] = "idle"
      BY <3>1, <3>2, <3>4, <3>5 DEF Aggregate, RootAs
    <3> QED BY <1>6, <3>1, <3>6
  <2> QED BY <1>6, <1>7, <2>1 DEF BetweenSound
<1> QED BY <1>8, <1>9, <1>10

LEMMA OtherTruth ==
  ASSUME HooksInv, NEW p \in posts, posts' = posts \ {p}, UNCHANGED <<terminal, programVars>>,
         p.kind \notin {"start"} \cup Ends, NEW s \in Admitted(p), NEW ok \in BOOLEAN,
         Take(p, s, ok)
  PROVE  ClearTruth'
<1> SUFFICES ASSUME Clear'
             PROVE  /\ ClearSound'
                    /\ \A t \in Sessions : Current(t)' => CurrentSound(t)'
                    /\ (\A t \in Sessions : ~Current(t)') => BetweenSound'
  BY DEF ClearTruth
<1> USE DEF programVars
<1>0. HooksTypeOK /\ PostsSound /\ st \in LaunchState
  BY DEF HooksInv, Grounds
<1>1. /\ Clear /\ ClearSound
      /\ Needs(p, s) => ok /\ terminal = "running"
      /\ \A q \in posts : q.session = p.session => q.n >= p.n
      /\ p \in Post /\ p.session \in Sessions /\ p.session # Nobody
  BY TakenClear
<1>2. PICK S \in Sessions : S = p.session
  BY <1>1
<1>3. /\ st.session = S /\ s = st /\ ~st.ended /\ Current(S) /\ CurrentSound(S)
      /\ Rooted(p) => p.waited /\ shown = S /\ \A q \in posts : q.waited => q = p
  BY <1>1, <1>2, TakenCurrent
<1> DEFINE tr == Reduce(st.tracker, p)
<1>4. tr \in Tracker /\ Aggregate(tr) \in {"idle", "unknown"} \cup Live
  BY <1>0, <1>1, Reduced DEF LaunchState
<1>5. S \in known => ~Needs(p, s) /\ st.established /\ active = S
  BY <1>2, <1>3 DEF CurrentSound, Needs
<1>6. S \notin known => /\ Needs(p, s) <=> p.kind = "prompt"
                        /\ ~st.established /\ ~st.titled /\ st.tracker.agents = {} /\ S \notin agents
  BY <1>1, <1>2, <1>3 DEF CurrentSound, ClearSound, Needs
<1> DEFINE tells == S \in known \/ p.kind = "prompt"
<1>7. /\ st'.session = S /\ ~st'.ended
      /\ st'.titled <=> (st.titled \/ p.kind = "prompt")
      /\ st'.established <=> tells
      /\ st'.tracker = IF tells THEN tr ELSE st.tracker
      /\ known' = IF tells THEN known \cup {S} ELSE known
      /\ tells => active' = S
      /\ tells => statuses' = [statuses EXCEPT ![S] = Aggregate(tr)]
  <2>1. /\ st'.session = p.session /\ ~st'.ended
        /\ st'.titled = (s.titled \/ p.kind = "prompt")
        /\ st'.established = IF Needs(p, s) THEN ok /\ terminal = "running" ELSE s.established
        /\ st'.tracker = IF st'.established THEN Reduce(s.tracker, p) ELSE s.tracker
        /\ IF Needs(p, s) /\ ok /\ terminal = "running"
           THEN /\ known' = known \cup {p.session} /\ active' = p.session
           ELSE known' = known /\ active' = active
        /\ IF st'.established /\ p.session \in known'
              /\ (Aggregate(Reduce(s.tracker, p)) \in Live => active' = p.session)
           THEN statuses' = [statuses EXCEPT ![p.session] = Aggregate(Reduce(s.tracker, p))]
           ELSE statuses' = statuses
    BY <1>0, <1>1, TakeOther
  <2>2. Reduce(s.tracker, p) = tr
    BY <1>3
  <2> HIDE DEF tr
  <2>3. CASE S \in known
    <3>1. ~Needs(p, s) /\ known' = known /\ active' = S /\ st'.established
      BY <1>2, <1>3, <1>5, <2>1, <2>3
    <3>2. statuses' = [statuses EXCEPT ![S] = Aggregate(tr)]
      BY <1>2, <2>1, <2>2, <2>3, <3>1
    <3> QED BY <1>2, <1>3, <2>1, <2>2, <2>3, <3>1, <3>2
  <2>4. CASE S \notin known /\ p.kind = "prompt"
    <3>1. known' = known \cup {S} /\ active' = S /\ st'.established
      BY <1>1, <1>2, <1>6, <2>1, <2>4
    <3>2. statuses' = [statuses EXCEPT ![S] = Aggregate(tr)]
      BY <1>2, <2>1, <2>2, <3>1
    <3> QED BY <1>2, <1>3, <2>1, <2>2, <2>4, <3>1, <3>2
  <2>5. CASE S \notin known /\ p.kind # "prompt"
    <3>1. known' = known /\ ~st'.established
      BY <1>2, <1>3, <1>6, <2>1, <2>5
    <3> QED BY <1>2, <1>3, <2>1, <2>5, <3>1
  <2> QED BY <2>3, <2>4, <2>5
<1> HIDE DEF tr, tells
<1>8. S \in known' <=> tells
  BY <1>7 DEF tells
<1>9. \A q \in posts' : q.session = S => q.n > p.n
  <2>1. \A q \in posts : q.n \in Nat
    BY <1>0 DEF HooksTypeOK, Post
  <2> QED BY <1>0, <1>1, <1>2, <2>1 DEF PostsSound
<1>10. ClearSound'
  <2>1. \A q \in posts' : q.waited <=> Rooted(q)
    BY <1>1 DEF ClearSound
  <2>2. \A t \in prompted : t \in known' \/ \E q \in posts' : q.kind = "prompt" /\ q.session = t
    <3> SUFFICES ASSUME NEW t \in prompted, t \notin known'
                 PROVE  \E q \in posts' : q.kind = "prompt" /\ q.session = t
      OBVIOUS
    <3>1. t \notin known
      BY <1>7
    <3>2. PICK q \in posts : q.kind = "prompt" /\ q.session = t
      BY <1>1, <3>1 DEF ClearSound
    <3>3. q # p
      BY <1>2, <1>8, <3>2 DEF tells
    <3> QED BY <3>2, <3>3
  <2>3. S \notin known' => ~st'.established /\ ~st'.titled
    BY <1>6, <1>7, <1>8 DEF tells
  <2>4. agents' \subseteq known'
    BY <1>1, <1>7 DEF ClearSound
  <2>5. shown = Nobody => \A q \in posts' : q.waited => q.kind \in Ends
    BY <1>1 DEF ClearSound
  <2> QED BY <1>7, <2>1, <2>2, <2>3, <2>4, <2>5 DEF ClearSound
<1>11. \A t \in Sessions : Current(t)' <=> Current(t)
  <2>1. \A t \in Sessions : Current(t) => t = S
    <3>1. \A t \in Sessions : Current(t) => CurrentSound(t)
      BY <1>1 DEF HooksInv, ClearTruth
    <3> QED BY <1>3, <3>1 DEF CurrentSound
  <2>2. p.kind # "start" /\ p.kind \notin Ends
    OBVIOUS
  <2>3. CASE Rooted(p)
    <3>1. \A q \in posts' : q.kind # "start" /\ q.kind \notin Ends
      BY <1>1, <1>3, <2>3 DEF ClearSound, Rooted, Ends
    <3>2. \A q \in posts : q.kind # "start"
      BY <2>2, <3>1
    <3>3. \A q \in posts : q.kind \notin Ends
      BY <2>2, <3>1
    <3> QED BY <3>1, <3>2, <3>3 DEF Current
  <2>4. CASE ~Rooted(p)
    <3>1. (\A q \in posts : q.kind # "start") <=> (\A q \in posts' : q.kind # "start")
      BY <2>2
    <3>2. \A t \in Sessions : (\E q \in posts : q.kind \in Ends /\ q.session = t)
                              <=> (\E q \in posts' : q.kind \in Ends /\ q.session = t)
      BY <2>2
    <3> QED BY <3>1, <3>2 DEF Current
  <2> QED BY <2>3, <2>4
<1>12. \A t \in Sessions : Current(t)' => t = S
  <2>1. \A t \in Sessions : Current(t) => CurrentSound(t)
    BY <1>1 DEF HooksInv, ClearTruth
  <2> QED BY <1>3, <1>11, <2>1 DEF CurrentSound
<1>13. CurrentSound(S)'
  <2>1. st.tracker.agents \subseteq {S} /\ tr.agents \subseteq {S}
    BY <1>2, <1>3 DEF CurrentSound, Reduce, tr
  <2>2. tr.root = CASE p.kind \in {"prompt", "tool"} -> "working"
                    [] p.kind = "ask" -> "waiting"
                    [] p.kind = "stop" -> "idle"
                    [] OTHER -> st.tracker.root
    BY DEF Reduce, tr
  <2>3. \A q \in posts' : q.session = S /\ q.kind \in Levels =>
          \/ \E r \in posts' : r.session = S /\ r.kind \in Levels /\ r.n > q.n
          \/ Level(q) <=> S \in agents
    <3>1. \A q \in posts : q.session = S /\ q.kind \in Levels =>
            \/ \E r \in posts : r.session = S /\ r.kind \in Levels /\ r.n > q.n
            \/ Level(q) <=> S \in agents
      BY <1>3 DEF CurrentSound
    <3>2. \A q \in posts' : q.session = S => ~(p.n > q.n)
      <4>1. \A q \in posts : q.n \in Nat
        BY <1>0 DEF HooksTypeOK, Post
      <4> QED BY <1>9, <4>1
    <3> QED BY <3>1, <3>2
  <2>4. (\A q \in posts' : q.session = S => q.kind \notin Levels) =>
          st'.tracker.agents = agents \cap {S}
    <3> SUFFICES ASSUME \A q \in posts' : q.session = S => q.kind \notin Levels
                 PROVE  st'.tracker.agents = agents \cap {S}
      OBVIOUS
    <3>1. CASE ~tells
      BY <1>6, <1>7, <3>1 DEF tells
    <3>2. CASE tells /\ p.kind \notin Levels
      <4>1. st.tracker.agents = agents \cap {S}
        BY <1>3, <3>2 DEF CurrentSound
      <4>2. tr.agents = st.tracker.agents
        BY <3>2 DEF tr, Reduce, Levels
      <4> QED BY <1>7, <3>2, <4>1, <4>2
    <3>3. CASE tells /\ p.kind \in Levels
      <4>1. Level(p) <=> S \in agents
        <5>1. ~\E r \in posts : r.session = S /\ r.kind \in Levels /\ r.n > p.n
          BY <1>0, <1>1 DEF HooksTypeOK, Post
        <5> QED BY <1>2, <1>3, <3>3, <5>1 DEF CurrentSound
      <4>2. CASE p.kind \in {"agentStart", "agentTool"}
        <5>1. tr.agents = st.tracker.agents \cup {S}
          BY <1>2, <4>2 DEF tr, Reduce
        <5>2. S \in agents
          BY <4>1, <4>2 DEF Level
        <5> QED BY <1>7, <2>1, <3>3, <5>1, <5>2
      <4>3. CASE p.kind = "agentStop"
        <5>1. tr.agents = {}
          BY <1>2, <4>3 DEF tr, Reduce
        <5>2. S \notin agents
          BY <4>1, <4>3 DEF Level
        <5> QED BY <1>7, <3>3, <5>1, <5>2
      <4>4. CASE p.kind = "stop"
        <5>1. tr.agents = IF p.tasks THEN {S} ELSE {}
          BY <1>2, <4>4 DEF tr, Reduce
        <5>2. S \in agents <=> p.tasks
          BY <4>1, <4>4 DEF Level
        <5> QED BY <1>7, <3>3, <5>1, <5>2
      <4> QED BY <3>3, <4>2, <4>3, <4>4 DEF Levels
    <3> QED BY <3>1, <3>2, <3>3
  <2>5. ~Rooted(p) => tr.root = st.tracker.root
    BY <2>2 DEF Rooted
  <2>6. \A q \in posts' : q.waited /\ (S \in known' \/ q.kind = "prompt") =>
          IF q.kind = "endExit" THEN root = "gone"
          ELSE RootAs(Reduce(st'.tracker, q).root) /\ (q.kind = "endClear" => root = "idle")
    <3> SUFFICES ASSUME NEW q \in posts', q.waited, S \in known' \/ q.kind = "prompt"
                 PROVE  IF q.kind = "endExit" THEN root = "gone"
                        ELSE RootAs(Reduce(st'.tracker, q).root)
                             /\ (q.kind = "endClear" => root = "idle")
      OBVIOUS
    <3>1. ~Rooted(p)
      BY <1>3
    <3>2. st'.tracker.root = st.tracker.root
      BY <1>7, <2>5, <3>1
    <3>3. Reduce(st'.tracker, q).root = Reduce(st.tracker, q).root
      BY <3>2 DEF Reduce
    <3>4. S \in known \/ q.kind = "prompt"
      BY <1>8, <3>1 DEF Rooted, tells
    <3> QED BY <1>3, <3>3, <3>4 DEF CurrentSound
  <2>7. (S \in known' /\ \A q \in posts' : ~q.waited) => RootAs(st'.tracker.root)
    <3> SUFFICES ASSUME tells, \A q \in posts' : ~q.waited PROVE RootAs(tr.root)
      BY <1>7, <1>8
    <3>1. CASE Rooted(p)
      <4>1. p.kind # "endExit" /\ p.kind # "endClear"
        BY DEF Ends
      <4> QED BY <1>3, <3>1, <4>1 DEF CurrentSound, tells, tr
    <3>2. CASE ~Rooted(p)
      <4>1. S \in known /\ ~p.waited
        BY <1>1, <3>2 DEF Rooted, tells, ClearSound
      <4>2. \A q \in posts : ~q.waited
        BY <4>1
      <4> QED BY <1>3, <2>5, <3>2, <4>1, <4>2 DEF CurrentSound
    <3> QED BY <3>1, <3>2
  <2>8. tells => tr.root # "unknown"
    <3>1. CASE p.kind = "prompt"
      BY <2>2, <3>1
    <3>2. CASE S \in known /\ p.kind # "prompt"
      <4>1. st.tracker.root # "unknown"
        BY <1>2, <1>3, <3>2 DEF CurrentSound
      <4> QED BY <2>2, <4>1
    <3> QED BY <3>1, <3>2 DEF tells
  <2>9. tells => statuses'[S] = Aggregate(tr)
    BY <1>0, <1>7 DEF HooksTypeOK
  <2>10. st'.tracker.agents \subseteq {S}
         /\ IF S \in known' THEN st'.established /\ active' = S ELSE st'.tracker.agents = {}
    BY <1>6, <1>7, <1>8, <2>1 DEF tells
  <2>11. root' = root /\ agents' = agents
    OBVIOUS
  <2>12. S \in known' =>
          /\ statuses'[S] = IF st'.tracker.root = "unknown" THEN "idle" ELSE Aggregate(st'.tracker)
          /\ st'.tracker.root # "unknown"
    BY <1>7, <1>8, <2>8, <2>9
  <2> QED BY <1>7, <2>3, <2>4, <2>6, <2>7, <2>10, <2>11, <2>12 DEF CurrentSound, RootAs, Level
<1> QED BY <1>3, <1>10, <1>11, <1>12, <1>13

LEMMA ApplyHolds ==
  ASSUME HooksInv, NEW p \in posts, Apply(p) PROVE HooksInv'
<1>1. Grounds'
  BY ApplyGrounds
<1>2. posts' = posts \ {p} /\ UNCHANGED <<terminal, programVars>>
  BY DEF Apply, Done, launchVars
<1>3. CASE Refuse(p)
  BY <1>1, <1>2, <1>3, RefuseTruth DEF HooksInv
<1>4. ASSUME NEW s \in Admitted(p), NEW ok \in BOOLEAN, Take(p, s, ok) PROVE ClearTruth'
  <2>1. CASE p.kind = "start"
    BY <1>2, <1>4, <2>1, StartTruth
  <2>2. CASE p.kind \in Ends
    BY <1>2, <1>4, <2>2, EndTruth
  <2>3. CASE p.kind \notin {"start"} \cup Ends
    BY <1>2, <1>4, <2>3, OtherTruth
  <2> QED BY <2>1, <2>2, <2>3
<1> QED BY <1>1, <1>3, <1>4 DEF Apply, HooksInv

-----------------------------------------------------------------------------
(* What the invariant says.                                                *)

LEMMA TruthFollows == HooksInv => HooksTruthful
<1> SUFFICES ASSUME HooksInv PROVE HooksTruthful
  OBVIOUS
<1>1. HooksTypeOK /\ RightConversation /\ Revoked
  BY DEF HooksInv, Grounds, Revoked
<1>2. ASSUME posts = {}, ~lost, shown \in prompted, terminal = "running"
      PROVE  /\ active = shown
             /\ statuses[shown] = Aggregate([root |-> root, agents |-> agents \cap {shown}])
  <2>1. Clear
    BY <1>2 DEF Clear
  <2>2. ClearSound
    BY <2>1 DEF HooksInv, ClearTruth
  <2>3. PICK S \in Sessions : S = shown
    BY <1>1, <1>2 DEF HooksTypeOK
  <2>4. Current(S)
    BY <1>2, <2>3 DEF Current
  <2>5. CurrentSound(S) /\ S \in known
    BY <1>2, <2>1, <2>2, <2>3, <2>4 DEF HooksInv, ClearTruth, ClearSound
  <2>6. /\ active = S /\ st.tracker.agents = agents \cap {S} /\ RootAs(st.tracker.root)
        /\ statuses[S] = IF st.tracker.root = "unknown" THEN "idle" ELSE Aggregate(st.tracker)
        /\ st.tracker.root = "unknown" => st.tracker.agents = {}
    BY <1>2, <2>5 DEF CurrentSound
  <2>7. CASE st.tracker.root = "unknown"
    <3>1. root = "idle" /\ agents \cap {S} = {}
      BY <1>1, <2>6, <2>7 DEF RootAs, HooksTypeOK, Live
    <3>2. Aggregate([root |-> root, agents |-> agents \cap {S}]) = "idle"
      BY <3>1 DEF Aggregate
    <3> QED BY <2>3, <2>6, <2>7, <3>2
  <2>8. CASE st.tracker.root # "unknown"
    <3>1. Aggregate([root |-> root, agents |-> agents \cap {S}]) = Aggregate(st.tracker)
      BY <2>6, <2>8 DEF Aggregate, RootAs
    <3> QED BY <2>3, <2>6, <2>8, <3>1
  <2> QED BY <2>7, <2>8
<1> QED BY <1>1, <1>2 DEF HooksTruthful, StatusWhenQuiet

LEMMA Stutters == HooksInv /\ UNCHANGED hookVars => HooksInv'
BY DEF HooksInv, hookVars, Grounds, ClearTruth, HooksTypeOK, LaunchSound, PostsSound, ShownFirst,
       RightConversation, Clear, ClearSound, Current, CurrentSound, BetweenSound, RootAs

(***************************************************************************)
(* However many conversations, hooks and faults: the terminal projects the *)
(* conversation it shows, a quiet terminal's status is what its root and   *)
(* agents do, and a revoked launch is not spoken for (apply,               *)
(* tracker.apply, Deliver, Deregister).                                    *)
(***************************************************************************)
THEOREM HooksHold == HooksSpec => []HooksTruthful
<1>1. HooksInit => HooksInv
  BY InitHolds
<1>2. HooksInv /\ [HooksNext]_hookVars => HooksInv'
  <2> SUFFICES ASSUME HooksInv, [HooksNext]_hookVars PROVE HooksInv'
    OBVIOUS
  <2>1. CASE Prepare
    BY <2>1, PrepareHolds
  <2>2. CASE Launched
    BY <2>2, LaunchedHolds
  <2>3. CASE Delete
    BY <2>3, DeleteHolds
  <2>4. CASE Barrier
    BY <2>4, BarrierHolds
  <2>5. CASE HooksRestart
    BY <2>5, RestartHolds
  <2>6. CASE \E s \in Sessions : SessionStart(s) \/ \E k \in {"agentTool", "agentStop"} : Agent(s, k)
    BY <2>6, SessionStartHolds, AgentHolds
  <2>7. CASE Prompt \/ Tool \/ Ask \/ Stop \/ AgentStart
    BY <2>7, RootHolds
  <2>8. CASE \E kind \in Ends : SessionEnd(kind)
    BY <2>8, SessionEndHolds
  <2>9. CASE \E p \in posts : TimeOut(p) \/ Find(p) \/ Lock(p) \/ Apply(p)
    BY <2>9, TimeOutHolds, FindHolds, LockHolds, ApplyHolds
  <2>10. CASE UNCHANGED hookVars
    BY <2>10, Stutters
  <2> QED BY <2>1, <2>2, <2>3, <2>4, <2>5, <2>6, <2>7, <2>8, <2>9, <2>10 DEF HooksNext
<1> QED BY <1>1, <1>2, TruthFollows, PTL DEF HooksSpec
=============================================================================
