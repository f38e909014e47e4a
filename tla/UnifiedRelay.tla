---------------------------- MODULE UnifiedRelay ----------------------------
(***************************************************************************)
(* The Codex relay of the unified-core prototype and the Threads it feeds. *)
(* codexproxy sits between one Codex TUI and the shared app-server, which  *)
(* broadcasts about every conversation; its tracker keeps the root the TUI *)
(* selected and forwards evidence about that root and its descendants,     *)
(* through a bounded queue and an HTTP POST that is retried until it is    *)
(* answered.  core.ApplyTerminalEvidence resolves the conversation to a    *)
(* Thread, and the status reducer of that Thread turns the evidence into   *)
(* an activity.                                                            *)
(***************************************************************************)
EXTENDS Naturals, Sequences, FiniteSets

CONSTANTS
    Roots,       \* conversations the TUI may select
    Children,    \* conversations agents start
    Parent,      \* the conversation each child is started by
    Capacity,    \* of the evidence queue (4096 in the code)
    MaxNews,     \* bound on what the app-server reports
    MaxPicks,    \* bound on selections of the TUI
    MaxFaults,   \* bound on POSTs gone wrong and restarts of the core
    None

VARIABLES
    real,       \* the app-server's status of each conversation
    asked,      \* tracker.requests: selections not answered yet
    root,       \* tracker.root
    parents,    \* tracker.parents, the children known below root
    queue,      \* relay.evidence
    flight,     \* the evidence postEvidence is posting
    late,       \* a POST that timed out and is still being handled
    threads,    \* the Threads of the terminal, the launch Thread first
    active,     \* Terminal.ActiveThreadID
    reducers,   \* status.Registry, one codexState per Thread
    heard,      \* conversations reported since they were last selected
    clean,      \* no evidence was dropped, late or forgotten yet
    restarted,  \* the core restarted, and its reducers with it
    news, picks, faults

relayVars == <<real, asked, root, parents, queue, flight, late, threads,
               active, reducers, heard, clean, restarted, news, picks, faults>>

Conversations == Roots \cup Children
Statuses == {"idle", "working", "needs_input"}
Activities == Statuses \cup {"unknown"}

\* A child is below the tracked root when its chain of parents leads there.
DescendsFrom(known, r, c) ==
    \/ c \in known /\ Parent[c] = r
    \/ \E p \in known : c \in known /\ Parent[c] = p /\ Parent[p] = r

Tracked(c) == c = root \/ DescendsFrom(parents, root, c)

NewReducer == [root |-> None, children |-> {}, activity |-> <<>>]

\* aggregate: the most urgent of the activities of the root and what descends
\* from it, and a form that lets an idle root speak for its children.
AggregateRoot(s) ==
    IF s.root \in DOMAIN s.activity THEN s.activity[s.root] ELSE "idle"
Aggregate(s) ==
    LET counted == {c \in DOMAIN s.activity :
                      c = s.root \/ DescendsFrom(s.children, s.root, c)}
        shown == {s.activity[c] : c \in counted} IN
    IF "needs_input" \in shown THEN "needs_input"
    ELSE IF "working" \in shown THEN "working"
    ELSE IF "unknown" \in shown THEN "unknown" ELSE "idle"

Marked(s, c, a) ==
    [s EXCEPT !.activity = [x \in DOMAIN @ \cup {c} |-> IF x = c THEN a ELSE @[x]]]

\* codexState.apply refuses the evidence of another root.
OtherRootNever(s, e) == FALSE
OtherRoot(s, e) == e.root # None /\ s.root # None /\ s.root # e.root

\* The reducer's answer: its next state, and whether it recognized e.
ReducerApply(s, e) ==
    IF OtherRoot(s, e) THEN [state |-> s, ok |-> FALSE]
    ELSE LET t == IF e.root = None THEN s ELSE [s EXCEPT !.root = e.root] IN
         CASE e.method = "started" ->
                [state |-> Marked(t, e.about, e.status), ok |-> TRUE]
           [] e.method = "item" ->
                IF e.about # t.root THEN [state |-> t, ok |-> FALSE]
                ELSE [state |-> Marked([t EXCEPT !.children = @ \cup {e.child}],
                                       e.child, e.status), ok |-> TRUE]
           [] e.method = "status" ->
                IF e.about = t.root \/ DescendsFrom(t.children, t.root, e.about)
                THEN [state |-> Marked(t, e.about, e.status), ok |-> TRUE]
                ELSE [state |-> t, ok |-> FALSE]
           [] e.method = "read" ->
                IF e.about = t.root
                THEN [state |-> Marked(t, e.about, e.status), ok |-> TRUE]
                ELSE IF e.about \in Children /\
                        (Parent[e.about] = t.root \/ DescendsFrom(t.children, t.root, Parent[e.about]))
                THEN [state |-> Marked([t EXCEPT !.children = @ \cup {e.about}],
                                       e.about, e.status), ok |-> TRUE]
                ELSE [state |-> t, ok |-> FALSE]

\* A reducer of a conversation not resolved yet has no root to compare with:
\* only selections and evidence of the relay create one here.
Evidence == [method : {"started", "item", "status"}, root : Roots,
             about : Conversations, child : Children \cup {None},
             status : Activities, picked : BOOLEAN]

Init ==
    /\ real = [c \in Conversations |-> "idle"]
    /\ asked = {} /\ root = None /\ parents = {}
    /\ queue = <<>> /\ flight = None /\ late = None
    /\ threads = <<[root |-> None, background |-> "unknown"]>>
    /\ active = 1 /\ reducers = <<NewReducer>>
    /\ heard = {} /\ clean = TRUE /\ restarted = FALSE
    /\ news = 0 /\ picks = 0 /\ faults = 0

-----------------------------------------------------------------------------
(* The relay.                                                              *)

\* forwardServer: a full queue drops the evidence.
Forward(e) ==
    IF Len(queue) < Capacity
    THEN queue' = Append(queue, e) /\ UNCHANGED clean
    ELSE UNCHANGED queue /\ clean' = FALSE

\* tracker.client: the TUI asks for thread/start, thread/resume or thread/fork.
Ask(r) ==
    /\ picks < MaxPicks /\ r \notin asked
    /\ asked' = asked \cup {r} /\ picks' = picks + 1
    /\ UNCHANGED <<real, root, parents, queue, flight, late, threads, active,
                   reducers, heard, clean, news, faults, restarted>>

\* tracker.server on the answer: the root moves, and a synthetic started event
\* without a status announces it.
Select(r) ==
    /\ r \in asked
    /\ asked' = asked \ {r} /\ root' = r /\ parents' = {}
    /\ heard' = {}
    /\ Forward([method |-> "started", root |-> r, about |-> r, child |-> None,
                status |-> "unknown", picked |-> TRUE])
    /\ UNCHANGED <<real, flight, late, threads, active, reducers, news, picks, faults, restarted>>

\* thread/status/changed, about any conversation of the app-server, and
\* thread/started, which says the same of the root.
StatusChanged(c, status) ==
    /\ news < MaxNews /\ real[c] # status
    /\ real' = [real EXCEPT ![c] = status] /\ news' = news + 1
    /\ IF root # None /\ Tracked(c)
       THEN /\ heard' = heard \cup {c}
            /\ \E method \in {"status"} \cup (IF c = root THEN {"started"} ELSE {}) :
                 Forward([method |-> method, root |-> root, about |-> c,
                          child |-> None, status |-> status, picked |-> FALSE])
       ELSE UNCHANGED <<heard, queue, clean>>
    /\ UNCHANGED <<asked, root, parents, flight, late, threads, active,
                   reducers, picks, faults, restarted>>

\* item/started and item/completed of a subAgentActivity.
AgentActivity(c, status) ==
    /\ news < MaxNews /\ status \in {"working", "idle"}
    /\ real' = [real EXCEPT ![c] = status] /\ news' = news + 1
    /\ IF root # None /\ Tracked(Parent[c])
       THEN /\ parents' = parents \cup {c} /\ heard' = heard \cup {c}
            /\ Forward([method |-> "item", root |-> root, about |-> Parent[c],
                        child |-> c, status |-> status, picked |-> FALSE])
       ELSE UNCHANGED <<parents, heard, queue, clean>>
    /\ UNCHANGED <<asked, root, flight, late, threads, active, reducers, picks, faults, restarted>>

PostNext ==
    /\ flight = None /\ queue # <<>>
    /\ flight' = Head(queue) /\ queue' = Tail(queue)
    /\ UNCHANGED <<real, asked, root, parents, late, threads, active, reducers,
                   heard, clean, news, picks, faults, restarted>>

-----------------------------------------------------------------------------
(* The core.                                                               *)

\* resolveProviderThreadLocked: the Thread of this conversation, the launch
\* Thread while it has none, or a new one.
MatchedLaunch(r) == {i \in {1} : threads[i].root = r}
Matched(r) == {i \in DOMAIN threads : threads[i].root = r}

Resolve(r) ==
    IF Matched(r) # {} THEN CHOOSE i \in Matched(r) : TRUE
    ELSE IF threads[1].root = None THEN 1 ELSE Len(threads) + 1

\* Observe, on the Thread i of ts.
Observed(ts, rs, i, e) ==
    LET answer == ReducerApply(rs[i], e) IN
    /\ reducers' = [rs EXCEPT ![i] = answer.state]
    /\ threads' = IF answer.ok
                  THEN [ts EXCEPT ![i].background = Aggregate(answer.state)] ELSE ts

\* Identify takes every transition, or only the first.
IdentifyFirst(e) == e.picked /\ threads[1].root = None
Identify(e) == e.picked

ApplyTerminalEvidence(e) ==
    IF Identify(e)
    THEN LET i == Resolve(e.root)
             grown == IF i > Len(threads)
                      THEN Append(threads, [root |-> e.root, background |-> "unknown"])
                      ELSE [threads EXCEPT ![i].root = e.root]
             dimmed == [j \in DOMAIN grown |->
                          IF j \in {i, active}
                          THEN [grown[j] EXCEPT !.background = "unknown"] ELSE grown[j]]
         IN /\ active' = i
            /\ Observed(dimmed, IF i > Len(reducers) THEN Append(reducers, NewReducer)
                                ELSE reducers, i, e)
    ELSE UNCHANGED active /\ Observed(threads, reducers, active, e)

\* The POST is handled and its answer arrives.
PostAnswered ==
    /\ flight # None
    /\ ApplyTerminalEvidence(flight)
    /\ flight' = None
    /\ UNCHANGED <<real, asked, root, parents, queue, late, heard, clean, news,
                   picks, faults, restarted>>

\* The answer is lost: the POST is repeated.
PostRepeated ==
    /\ flight # None /\ faults < MaxFaults
    /\ ApplyTerminalEvidence(flight)
    /\ faults' = faults + 1
    /\ UNCHANGED <<real, asked, root, parents, queue, flight, late, heard,
                   clean, news, picks, restarted>>

\* The client gives up after its timeout while the handler still waits for
\* the lock: the retry may overtake it.
PostTimesOut ==
    /\ flight # None /\ late = None /\ faults < MaxFaults
    /\ late' = flight /\ faults' = faults + 1 /\ clean' = FALSE
    /\ UNCHANGED <<real, asked, root, parents, queue, flight, threads, active,
                   reducers, heard, news, picks, restarted>>

LateApplied ==
    /\ late # None
    /\ ApplyTerminalEvidence(late)
    /\ late' = None
    /\ UNCHANGED <<real, asked, root, parents, queue, flight, heard, clean,
                   news, picks, faults, restarted>>

\* ApplyStatus with an exact thread/read, which carries no root of its own.
ReadStatus(i, c) ==
    /\ news < MaxNews
    /\ news' = news + 1
    /\ Observed(threads, reducers, i, [method |-> "read", root |-> None, about |-> c,
                                       child |-> None, status |-> real[c], picked |-> FALSE])
    /\ clean' = FALSE
    /\ UNCHANGED <<real, asked, root, parents, queue, flight, late, active,
                   heard, picks, faults, restarted>>

\* The core restarts: the Threads were saved, the reducers start empty.
CoreRestart ==
    /\ faults < MaxFaults
    /\ reducers' = [i \in DOMAIN reducers |-> NewReducer]
    /\ faults' = faults + 1 /\ clean' = FALSE /\ restarted' = TRUE
    /\ UNCHANGED <<real, asked, root, parents, queue, flight, late, threads,
                   active, heard, news, picks>>

Next ==
    \/ \E r \in Roots : Ask(r) \/ Select(r)
    \/ \E c \in Conversations, status \in Statuses : StatusChanged(c, status)
    \/ \E c \in Children, status \in Statuses : AgentActivity(c, status)
    \/ PostNext \/ PostAnswered \/ PostRepeated \/ PostTimesOut \/ LateApplied
    \/ \E i \in DOMAIN threads, c \in Conversations : ReadStatus(i, c)
    \/ CoreRestart

Spec == Init /\ [][Next]_relayVars

-----------------------------------------------------------------------------

TypeOK ==
    /\ real \in [Conversations -> Statuses]
    /\ asked \subseteq Roots /\ root \in Roots \cup {None}
    /\ parents \subseteq Children
    /\ Len(queue) <= Capacity /\ \A i \in DOMAIN queue : queue[i] \in Evidence
    /\ flight \in Evidence \cup {None} /\ late \in Evidence \cup {None}
    /\ \A i \in DOMAIN threads : /\ threads[i].root \in Roots \cup {None}
                                 /\ threads[i].background \in Activities
    /\ active \in DOMAIN threads /\ Len(reducers) = Len(threads)
    /\ \A i \in DOMAIN reducers : /\ reducers[i].root \in Roots \cup {None}
                                  /\ reducers[i].children \subseteq Children
    /\ heard \subseteq Conversations /\ {clean, restarted} \subseteq BOOLEAN
    /\ news \in 0..MaxNews /\ picks \in 0..MaxPicks /\ faults \in 0..MaxFaults

\* One Thread per provider conversation, however often a selection is
\* announced, repeated or delivered late (resolveProviderThreadLocked).
OneThreadPerRoot ==
    \A i, j \in DOMAIN threads :
        threads[i].root # None /\ threads[i].root = threads[j].root => i = j

\* A Thread is judged by the evidence of its own conversation, even when the
\* selection of another one was dropped, or came late, and the other's
\* evidence is applied to this Thread (the root check of codexState.apply).
\* A restart of the core forgets the roots: nothing calls Registry.Restore.
JudgedByItsOwn ==
    ~restarted => \A i \in DOMAIN threads :
        threads[i].root # None => reducers[i].root \in {None, threads[i].root}

\* Everything is delivered and handled, and nothing was dropped or late.
Settled == clean /\ queue = <<>> /\ flight = None

\* With everything delivered and handled, and nothing dropped or late, the
\* terminal is on the conversation its TUI selected last.
FollowsTui ==
    Settled /\ root # None => threads[active].root = root

\* ... and what the app-server reported about that conversation or a child it
\* started itself is shown: a working one is never idle or unknown.
WorkIsShown ==
    Settled /\ root # None =>
        \A c \in heard :
            real[c] = "working" /\ (c = root \/ Parent[c] = root) =>
                threads[active].background \in {"working", "needs_input"}
=============================================================================
