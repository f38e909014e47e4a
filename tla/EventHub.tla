------------------------------ MODULE EventHub ------------------------------
(***************************************************************************)
(* The change-event hub behind /v1/events (internal/events/events.go) and  *)
(* the SSE handler that drains it (internal/server/events.go).             *)
(*                                                                         *)
(* The hub numbers events, keeps the last Backlog of them for catch-up and *)
(* fans them out over fixed-size subscriber buffers.  A change event says  *)
(* only WHAT changed; the client refetches the resource.  The client is    *)
(* outside the repository: it follows the contract of internal/api/events: *)
(* it keeps the last sequence number it received, presents it when it      *)
(* reconnects, refetches the resource a change names, and refetches        *)
(* everything on a resync and after a connection made without a cursor.    *)
(***************************************************************************)
EXTENDS Naturals, Sequences, FiniteSets

CONSTANTS
    Clients,            \* event-stream clients
    Resources,          \* the resources change events are about
    Backlog,            \* capacity of the ring (DefaultBacklog)
    SubscriberBuffer,   \* capacity of one subscriber's channel
    Bases,              \* the random first sequence number of each server run
    MaxEvents,          \* bound: events published in one server run
    NoCursor,           \* the cursor of a client that never received an event
    Unreadable          \* the all-ones cursor an unparsable header becomes

(* The cursors a client can carry away from run i lie in Window(i). *)
Window(i) == (Bases[i] - 1) .. (Bases[i] + MaxEvents - 1)

(***************************************************************************)
(* The base of a run is drawn from 2^50 values (NewHub), so the windows of *)
(* two runs do not meet; the code relies on it.  Unreadable is 2^64-1.     *)
(***************************************************************************)
ASSUME HubAssumption ==
    /\ Backlog \in Nat \ {0}
    /\ SubscriberBuffer \in Nat \ {0}
    /\ MaxEvents \in Nat
    /\ Bases \in Seq(Nat \ {0}) /\ Len(Bases) > 0
    /\ \A i, j \in 1 .. Len(Bases) : i # j => Window(i) \cap Window(j) = {}
    /\ Unreadable \in Nat
    /\ \A i \in 1 .. Len(Bases) : Unreadable > Bases[i] + MaxEvents
    /\ NoCursor \notin Nat
    /\ IsFiniteSet(Resources)

VARIABLES
    run,          \* which server run this is, an index of Bases
    nextSeq,      \* Hub.nextSeq
    ring,         \* Hub.ring, newest last
    registered,   \* the clients whose channel is in Hub.subscribers
    stream,       \* the clients whose SSE handler is running
    out,          \* what the handler sends before it turns to the channel
    buf,          \* the subscriber's channel buffer
    unannounced,  \* resources changed in a view and not yet published
    cursor,       \* client: last sequence number received
    stale,        \* client: resources it knows it has to refetch
    behind        \* truth: resources changed since the client last fetched

hubVars == <<run, nextSeq, ring, registered>>
streamVars == <<stream, out, buf>>
clientVars == <<cursor, stale, behind>>
vars == <<run, nextSeq, ring, registered, stream, out, buf, unannounced,
          cursor, stale, behind>>

Change == [kind : {"change"}, seq : Nat, id : Resources]
Resync == [kind : {"resync"}, seq : Nat]

TypeOK ==
    /\ run \in 1 .. Len(Bases)
    /\ nextSeq \in Bases[run] .. (Bases[run] + MaxEvents)
    /\ ring \in Seq(Change) /\ Len(ring) <= Backlog
    /\ registered \in SUBSET stream
    /\ stream \in SUBSET Clients
    /\ out \in [Clients -> Seq(Change \cup Resync)]
    /\ buf \in [Clients -> Seq(Change)]
    /\ \A c \in Clients : Len(buf[c]) <= SubscriberBuffer
    /\ unannounced \in SUBSET Resources
    /\ cursor \in [Clients -> Nat \cup {NoCursor}]
    /\ stale \in [Clients -> SUBSET Resources]
    /\ behind \in [Clients -> SUBSET Resources]

Init ==
    /\ run = 1
    /\ nextSeq = Bases[1]
    /\ ring = <<>>
    /\ registered = {}
    /\ stream = {}
    /\ out = [c \in Clients |-> <<>>]
    /\ buf = [c \in Clients |-> <<>>]
    /\ unannounced = {}
    /\ cursor = [c \in Clients |-> NoCursor]
    /\ stale = [c \in Clients |-> {}]
    /\ behind = [c \in Clients |-> Resources]

-----------------------------------------------------------------------------
(* The hub.                                                                *)

Newest == nextSeq - 1
Oldest == nextSeq - Len(ring)

(* Fault: the send to a full channel appends without looking at its size. *)
OverflowingUnchecked == {}

(* The clients whose channel is full when an event is sent to it. *)
Overflowing == {c \in registered : Len(buf[c]) >= SubscriberBuffer}

(* Push keeps the newest Backlog events. *)
Push(change) ==
    IF Len(ring) = Backlog THEN Append(Tail(ring), change)
                           ELSE Append(ring, change)

(***************************************************************************)
(* A domain changes its view (and has persisted it) before it publishes:   *)
(* the two are separate instants, and a subscription may fall in between.  *)
(***************************************************************************)
ViewChange(r) ==
    /\ r \notin unannounced
    /\ nextSeq + Cardinality(unannounced) < Bases[run] + MaxEvents
    /\ unannounced' = unannounced \cup {r}
    /\ behind' = [c \in Clients |-> behind[c] \cup {r}]
    /\ UNCHANGED <<hubVars, streamVars, cursor, stale>>

(* Fault: a full channel swallows the event, the subscriber stays. *)
PublishSkipping(r) ==
    LET change == [kind |-> "change", seq |-> nextSeq, id |-> r] IN
    /\ r \in unannounced
    /\ unannounced' = unannounced \ {r}
    /\ nextSeq' = nextSeq + 1
    /\ ring' = Push(change)
    /\ buf' = [c \in Clients |->
                 IF c \in registered \ Overflowing THEN Append(buf[c], change)
                                                   ELSE buf[c]]
    /\ UNCHANGED <<run, registered, stream, out, clientVars>>

(* A subscriber that cannot take the event is dropped: its channel closes. *)
Publish(r) ==
    LET change == [kind |-> "change", seq |-> nextSeq, id |-> r] IN
    /\ r \in unannounced
    /\ unannounced' = unannounced \ {r}
    /\ nextSeq' = nextSeq + 1
    /\ ring' = Push(change)
    /\ registered' = registered \ Overflowing
    /\ buf' = [c \in Clients |->
                 IF c \in registered \ Overflowing THEN Append(buf[c], change)
                                                   ELSE buf[c]]
    /\ UNCHANGED <<run, stream, out, clientVars>>

(* Fault: the window test is off by one, a cursor just off the ring passes. *)
NeedsResyncOffByOne(after) == after > Newest \/ after + 2 < Oldest

(* The cursor fell off the backlog, or belongs to an earlier run. *)
NeedsResync(after) == after > Newest \/ after + 1 < Oldest

(* Fault: the replay starts with the event the cursor names. *)
ReplayOffByOne(after) ==
    LET first == Len(ring) - (Newest - after)
    IN  SubSeq(ring, IF first < 1 THEN 1 ELSE first, Len(ring))

(* The events of the ring after the cursor. *)
Replay(after) ==
    SubSeq(ring, Len(ring) - (Newest - after) + 1, Len(ring))

(***************************************************************************)
(* A client connects, with its cursor if it has one (possibly one the      *)
(* server cannot read).  Replay and registration are one atomic step.      *)
(***************************************************************************)
Subscribe(c) ==
    /\ c \notin stream
    /\ stream' = stream \cup {c}
    /\ registered' = registered \cup {c}
    /\ buf' = [buf EXCEPT ![c] = <<>>]
    /\ \/ /\ cursor[c] = NoCursor
          /\ out' = [out EXCEPT ![c] = <<>>]
          /\ stale' = [stale EXCEPT ![c] = Resources]
       \/ \E after \in {cursor[c], Unreadable} :
          /\ cursor[c] # NoCursor
          /\ out' = [out EXCEPT ![c] =
                       IF NeedsResync(after)
                       THEN <<[kind |-> "resync", seq |-> Newest]>>
                       ELSE Replay(after)]
          /\ UNCHANGED stale
    /\ UNCHANGED <<run, nextSeq, ring, unannounced, cursor, behind>>

-----------------------------------------------------------------------------
(* The SSE handler and the client.                                         *)

(* What a received message makes of the client's state. *)
Receive(c, message) ==
    /\ cursor' = [cursor EXCEPT ![c] = message.seq]
    /\ stale' = [stale EXCEPT ![c] =
                   IF message.kind = "resync" THEN Resources
                                              ELSE @ \cup {message.id}]

(* The resync and the replay go out before anything from the channel. *)
SendOut(c) ==
    /\ c \in stream
    /\ out[c] # <<>>
    /\ Receive(c, Head(out[c]))
    /\ out' = [out EXCEPT ![c] = Tail(@)]
    /\ UNCHANGED <<hubVars, stream, buf, unannounced, behind>>

SendLive(c) ==
    /\ c \in stream
    /\ out[c] = <<>>
    /\ buf[c] # <<>>
    /\ Receive(c, Head(buf[c]))
    /\ buf' = [buf EXCEPT ![c] = Tail(@)]
    /\ UNCHANGED <<hubVars, stream, out, unannounced, behind>>

(* Fault: the handler does not notice that its channel closed. *)
HandlerReturnsNever(c) == FALSE /\ UNCHANGED vars

(* A closed channel yields what it still buffers, then ends the handler. *)
HandlerReturns(c) ==
    /\ c \in stream \ registered
    /\ out[c] = <<>> /\ buf[c] = <<>>
    /\ stream' = stream \ {c}
    /\ UNCHANGED <<hubVars, out, buf, unannounced, clientVars>>

(***************************************************************************)
(* The client goes away or a write fails, at any point: the handler        *)
(* returns and closes its subscription; what it had not sent is lost.      *)
(***************************************************************************)
Disconnect(c) ==
    /\ c \in stream
    /\ stream' = stream \ {c}
    /\ registered' = registered \ {c}
    /\ out' = [out EXCEPT ![c] = <<>>]
    /\ buf' = [buf EXCEPT ![c] = <<>>]
    /\ UNCHANGED <<run, nextSeq, ring, unannounced, clientVars>>

Fetch(c, r) ==
    /\ r \in stale[c]
    /\ stale' = [stale EXCEPT ![c] = @ \ {r}]
    /\ behind' = [behind EXCEPT ![c] = @ \ {r}]
    /\ UNCHANGED <<hubVars, streamVars, unannounced, cursor>>

(***************************************************************************)
(* The server restarts: a new hub at a new base, every stream cut, and any *)
(* resource possibly changed (boot-time coercions publish nothing).        *)
(***************************************************************************)
Restart ==
    /\ run < Len(Bases)
    /\ run' = run + 1
    /\ nextSeq' = Bases[run + 1]
    /\ ring' = <<>>
    /\ registered' = {}
    /\ stream' = {}
    /\ out' = [c \in Clients |-> <<>>]
    /\ buf' = [c \in Clients |-> <<>>]
    /\ unannounced' = {}
    /\ \E changed \in SUBSET Resources :
          behind' = [c \in Clients |-> behind[c] \cup changed]
    /\ UNCHANGED <<cursor, stale>>

Next ==
    \/ \E r \in Resources : ViewChange(r) \/ Publish(r)
    \/ \E c \in Clients :
          \/ Subscribe(c) \/ SendOut(c) \/ SendLive(c)
          \/ HandlerReturns(c) \/ Disconnect(c)
          \/ \E r \in Resources : Fetch(c, r)
    \/ Restart

Spec == Init /\ [][Next]_vars

(***************************************************************************)
(* Publishing, the handler's loop and the client's refetches keep going;   *)
(* a message that is infinitely often ready to be sent is sent (the        *)
(* network does not cut every single connection before its first message). *)
(***************************************************************************)
Fairness ==
    /\ \A r \in Resources : WF_vars(Publish(r))
    /\ \A c \in Clients :
          /\ WF_vars(Subscribe(c))
          /\ SF_vars(SendOut(c)) /\ SF_vars(SendLive(c))
          /\ WF_vars(HandlerReturns(c))
          /\ \A r \in Resources : WF_vars(Fetch(c, r))

FairSpec == Spec /\ Fairness

-----------------------------------------------------------------------------
(* Properties.                                                             *)

(* What the client is behind on, does not know it, and has been published. *)
Missed(c) == behind[c] \ (stale[c] \cup unannounced)

(* A reconnect at cursor k would tell the client about r. *)
WouldLearn(k, r) ==
    \/ k = NoCursor
    \/ NeedsResync(k)
    \/ \E i \in 1 .. Len(ring) : ring[i].seq > k /\ ring[i].id = r

(***************************************************************************)
(* Reconnecting never hides a change: whatever a client is behind on, and  *)
(* does not know it, and has been published, a reconnect at its cursor     *)
(* answers with a resync or replays it (Subscribe, events.go) -- across    *)
(* ring overflow, drops, lost connections and server restarts.             *)
(***************************************************************************)
ReconnectCatchesUp ==
    \A c \in Clients : \A r \in Missed(c) : WouldLearn(cursor[c], r)

(* A message on its way to the client tells it about r. *)
Carries(c, r) ==
    \/ \E i \in 1 .. Len(out[c]) : out[c][i].kind = "resync" \/ out[c][i].id = r
    \/ \E i \in 1 .. Len(buf[c]) : buf[c][i].id = r

(***************************************************************************)
(* While the hub still has the client registered, a published change it is *)
(* behind on is on its way to it: an event is never skipped over silently, *)
(* the only way to miss one is to be dropped (Publish, Subscribe).         *)
(***************************************************************************)
StreamCarriesChanges ==
    \A c \in registered : \A r \in Missed(c) : Carries(c, r)

(* The messages still on their way to a connected client. *)
Pipe(c) == out[c] \o buf[c]

(***************************************************************************)
(* The replay and the live channel join without a gap or a repetition:     *)
(* the messages on their way to a client that has a cursor continue it one *)
(* by one, except for a leading resync, which restarts the count.          *)
(***************************************************************************)
PipeContinuesCursor ==
    \A c \in stream : \A i \in 1 .. Len(Pipe(c)) :
        IF i = 1 THEN \/ cursor[c] = NoCursor
                      \/ Pipe(c)[i].kind = "resync"
                      \/ Pipe(c)[i].seq = cursor[c] + 1
                 ELSE Pipe(c)[i].seq = Pipe(c)[i - 1].seq + 1

(***************************************************************************)
(* A client that keeps reconnecting is not left with an outdated copy:     *)
(* dropped streams end (HandlerReturns) and the reconnect repairs them.    *)
(***************************************************************************)
EventuallyFresh ==
    \A c \in Clients : \A r \in Resources :
        (r \in behind[c]) ~> (r \notin behind[c])
=============================================================================
