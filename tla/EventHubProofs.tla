--------------------------- MODULE EventHubProofs ---------------------------
(***************************************************************************)
(* Proofs about EventHub, for any backlog, buffer size, set of clients and *)
(* sequence of server runs.  The inductive invariant is TypeOK with the    *)
(* properties and what they rest on: the ring is a window of consecutive   *)
(* numbers that ends at Newest, whatever is on its way to a client is      *)
(* ordered, numbered in this run and the ring's own entry as long as the   *)
(* ring has it, and a cursor belongs to the window of a run that has been. *)
(***************************************************************************)
EXTENDS EventHub, FiniteSetTheorems, TLAPS

(* Publishing cannot leave the window of the run. *)
RoomLeft == nextSeq + Cardinality(unannounced) <= Bases[run] + MaxEvents

(* The ring holds consecutive numbers of this run, up to Newest. *)
RingShape ==
    /\ Len(ring) <= nextSeq - Bases[run]
    /\ \A i \in 1 .. Len(ring) : ring[i].seq = nextSeq - Len(ring) + i - 1

(* A message of this run that is not newer than the newest event. *)
Issued(m) == m.seq >= Bases[run] - 1 /\ m.seq < nextSeq

InRing(m) == m.seq < Oldest \/ \E i \in 1 .. Len(ring) : ring[i] = m

(* What is on its way to client c is ordered, and still what the ring says. *)
OutShape(c) ==
    \A i \in 1 .. Len(out[c]) :
        /\ Issued(out[c][i])
        /\ out[c][i].kind = "resync" => i = 1
        /\ out[c][i].kind = "change" => InRing(out[c][i])
        /\ \A j \in 1 .. Len(out[c]) : i < j => out[c][i].seq < out[c][j].seq
        /\ \A j \in 1 .. Len(buf[c]) : out[c][i].seq < buf[c][j].seq

BufShape(c) ==
    \A i \in 1 .. Len(buf[c]) :
        /\ Issued(buf[c][i])
        /\ InRing(buf[c][i])
        /\ \A j \in 1 .. Len(buf[c]) : i < j => buf[c][i].seq < buf[c][j].seq

(* A cursor was received in this run or an earlier one. *)
CursorShape(c) ==
    cursor[c] # NoCursor =>
        \E j \in 1 .. run : /\ cursor[c] \in Window(j)
                            /\ j = run => cursor[c] < nextSeq

(* Wherever the stream to c breaks off, a reconnect would tell about r. *)
StopsShort(c, r) ==
    /\ \A i \in 1 .. Len(out[c]) : WouldLearn(out[c][i].seq, r)
    /\ \A i \in 1 .. Len(buf[c]) : WouldLearn(buf[c][i].seq, r)

(* A stream the hub dropped still delivers r, or stops short of it. *)
DroppedShape(c) ==
    c \in stream \ registered =>
        \A r \in Missed(c) : Carries(c, r) \/ StopsShort(c, r)

(* The type invariant, and the numbering of the events of a run. *)
Numbering == TypeOK /\ RoomLeft /\ RingShape

(* What the hub owes one client. *)
Delivery(c) ==
    /\ OutShape(c)
    /\ BufShape(c)
    /\ CursorShape(c)
    /\ DroppedShape(c)
    /\ c \in registered => \A r \in Missed(c) : Carries(c, r)
    /\ \A r \in Missed(c) : WouldLearn(cursor[c], r)

HubInv == Numbering /\ \A c \in Clients : Delivery(c)

-----------------------------------------------------------------------------
(* Facts about a single state.                                             *)

(* The bounds of the run, as the provers need them. *)
LEMMA RunFacts ==
    ASSUME TypeOK
    PROVE  /\ Bases[run] \in Nat /\ Bases[run] >= 1
           /\ nextSeq \in Nat /\ nextSeq >= Bases[run]
           /\ nextSeq <= Bases[run] + MaxEvents
           /\ Len(ring) \in Nat /\ MaxEvents \in Nat
           /\ Backlog \in Nat /\ Backlog >= 1
    BY HubAssumption DEF TypeOK

(* The windows of two runs do not meet. *)
LEMMA WindowsApart ==
    ASSUME NEW i \in 1 .. Len(Bases), NEW j \in 1 .. Len(Bases), i # j
    PROVE  Window(i) \cap Window(j) = {}
    BY Zenon, HubAssumption

(* A cursor is absent, of another run, or of this run and issued. *)
LEMMA CursorCases ==
    ASSUME TypeOK, RingShape, NEW c \in Clients, CursorShape(c)
    PROVE  \/ cursor[c] = NoCursor
           \/ cursor[c] \in Nat /\ cursor[c] \notin Window(run)
           \/ cursor[c] \in Nat /\ cursor[c] < nextSeq
    <1>1. CASE cursor[c] = NoCursor
        BY <1>1
    <1>2. CASE cursor[c] # NoCursor
        <2>1. PICK j \in 1 .. run : /\ cursor[c] \in Window(j)
                                    /\ j = run => cursor[c] < nextSeq
            BY <1>2 DEF CursorShape
        <2>2. cursor[c] \in Nat
            BY <1>2 DEF TypeOK
        <2>3. CASE j = run
            BY <2>1, <2>2, <2>3, RunFacts DEF Window
        <2>4. CASE j # run
            <3>1. j \in 1 .. Len(Bases) /\ run \in 1 .. Len(Bases)
                BY HubAssumption DEF TypeOK
            <3>2. cursor[c] \notin Window(run)
                BY <2>1, <2>4, <3>1, WindowsApart
            <3>3. QED BY <2>2, <3>2
        <2>5. QED BY <2>3, <2>4
    <1>3. QED BY <1>1, <1>2
-----------------------------------------------------------------------------
(* Type correctness.                                                       *)

(* Push keeps the ring a bounded sequence that ends with the new event. *)
LEMMA PushFacts ==
    ASSUME TypeOK, NEW m \in Change
    PROVE  /\ Push(m) \in Seq(Change)
           /\ Len(Push(m)) = IF Len(ring) = Backlog THEN Backlog ELSE Len(ring) + 1
           /\ Push(m)[Len(Push(m))] = m
           /\ \A i \in 1 .. Len(Push(m)) - 1 :
                 Push(m)[i] = IF Len(ring) = Backlog THEN ring[i + 1] ELSE ring[i]
           /\ Len(Push(m)) <= Backlog
    <1>1. ring \in Seq(Change) /\ Len(ring) <= Backlog /\ Len(ring) \in Nat
          /\ Backlog \in Nat /\ Backlog >= 1
        BY RunFacts DEF TypeOK
    <1>2. CASE Len(ring) = Backlog
        <2>1. ring # <<>> BY <1>1, <1>2
        <2>2. Tail(ring) \in Seq(Change) /\ Len(Tail(ring)) = Len(ring) - 1
              /\ \A i \in 1 .. Len(Tail(ring)) : Tail(ring)[i] = ring[i + 1]
            BY <1>1, <2>1
        <2>3. QED BY <1>1, <1>2, <2>2 DEF Push
    <1>3. CASE Len(ring) # Backlog
        BY <1>1, <1>3 DEF Push
    <1>4. QED BY <1>2, <1>3

(* Publishing one of the unannounced resources leaves fewer of them. *)
LEMMA RoomAfterPublish ==
    ASSUME TypeOK, NEW r \in unannounced
    PROVE  /\ Cardinality(unannounced) \in Nat /\ Cardinality(unannounced) >= 1
           /\ Cardinality(unannounced \ {r}) = Cardinality(unannounced) - 1
    <1>1. IsFiniteSet(unannounced)
        BY HubAssumption, FS_Subset DEF TypeOK
    <1>2. Cardinality(unannounced) \in Nat
        BY <1>1, FS_CardinalityType
    <1>3. Cardinality(unannounced \ {r}) = Cardinality(unannounced) - 1
        BY <1>1, FS_RemoveElement
    <1>4. Cardinality(unannounced) # 0
        BY <1>1, FS_EmptySet
    <1>5. QED BY <1>2, <1>3, <1>4

(* A change that is not announced yet is one more. *)
LEMMA RoomAfterChange ==
    ASSUME TypeOK, NEW r \in Resources, r \notin unannounced
    PROVE  Cardinality(unannounced \cup {r}) = Cardinality(unannounced) + 1
           /\ Cardinality(unannounced) \in Nat
    <1>1. IsFiniteSet(unannounced)
        BY HubAssumption, FS_Subset DEF TypeOK
    <1>2. QED BY <1>1, FS_AddElement, FS_CardinalityType

(* What a received message makes of the client keeps the types. *)
LEMMA ReceiveType ==
    ASSUME TypeOK, NEW c \in Clients, NEW m \in Change \cup Resync, Receive(c, m)
    PROVE  /\ cursor' \in [Clients -> Nat \cup {NoCursor}]
           /\ stale' \in [Clients -> SUBSET Resources]
    <1>1. m.seq \in Nat /\ (m.kind = "resync" \/ m.id \in Resources)
        BY DEF Change, Resync
    <1>2. QED BY <1>1 DEF Receive, TypeOK

(* The replay is a run of the ring's own events. *)
LEMMA ReplayFacts ==
    ASSUME TypeOK, RingShape, NEW k \in Nat, ~NeedsResync(k)
    PROVE  /\ Replay(k) \in Seq(Change)
           /\ Len(Replay(k)) = Newest - k
           /\ \A i \in 1 .. Newest - k :
                 Replay(k)[i] = ring[Len(ring) - (Newest - k) + i]
    <1>1. /\ k <= Newest /\ k + 1 >= Oldest
          /\ Len(ring) \in Nat /\ nextSeq \in Nat /\ Newest \in Nat
          /\ ring \in Seq(Change)
        BY RunFacts DEF NeedsResync, Newest, Oldest, TypeOK
    <1>2. Newest - k \in 0 .. Len(ring)
        BY <1>1, RunFacts DEF Newest, Oldest
    <1>3. DEFINE a == Len(ring) - (Newest - k) + 1
    <1>4. a \in Nat /\ a >= 1 /\ a <= Len(ring) + 1
        BY <1>1, <1>2
    <1>5. /\ SubSeq(ring, a, Len(ring)) \in Seq(Change)
          /\ Len(SubSeq(ring, a, Len(ring))) = Len(ring) - a + 1
          /\ \A i \in 1 .. Len(ring) - a + 1 :
                SubSeq(ring, a, Len(ring))[i] = ring[a + i - 1]
        BY <1>1, <1>4
    <1>6. Replay(k) = SubSeq(ring, a, Len(ring)) /\ Len(ring) - a + 1 = Newest - k
        BY <1>1, <1>2 DEF Replay
    <1>7. \A i \in 1 .. Newest - k : a + i - 1 = Len(ring) - (Newest - k) + i
        BY <1>1, <1>2
    <1>8. QED BY <1>5, <1>6, <1>7

(* Publishing keeps the numbering: the ring takes the next number. *)
LEMMA PublishNumbering ==
    ASSUME Numbering, NEW r \in Resources, Publish(r)
    PROVE  Numbering'
    <1> DEFINE change == [kind |-> "change", seq |-> nextSeq, id |-> r]
    <1>1. TypeOK /\ RoomLeft /\ RingShape
        BY DEF Numbering
    <1>2. change \in Change
        BY <1>1, RunFacts DEF Change
    <1>3. r \in unannounced /\ ring' = Push(change) /\ nextSeq' = nextSeq + 1
          /\ run' = run /\ unannounced' = unannounced \ {r}
        BY DEF Publish
    <1>4. RoomLeft' /\ nextSeq + 1 <= Bases[run] + MaxEvents
        <2>1. /\ Cardinality(unannounced) \in Nat /\ Cardinality(unannounced) >= 1
              /\ Cardinality(unannounced') = Cardinality(unannounced) - 1
            BY <1>1, <1>3, RoomAfterPublish
        <2>2. /\ nextSeq \in Nat /\ Bases[run] \in Nat /\ MaxEvents \in Nat
              /\ nextSeq + Cardinality(unannounced) <= Bases[run] + MaxEvents
            BY <1>1, RunFacts DEF RoomLeft
        <2>3. QED BY <1>3, <2>1, <2>2 DEF RoomLeft
    <1>5. RingShape'
        <2>1. Len(ring') <= nextSeq' - Bases[run']
            BY <1>1, <1>2, <1>3, PushFacts, RunFacts DEF RingShape
        <2>2. ASSUME NEW i \in 1 .. Len(ring')
              PROVE  ring'[i].seq = nextSeq' - Len(ring') + i - 1
            <3>1. CASE i = Len(ring')
                <4>1. ring'[i] = change
                    BY <1>1, <1>2, <1>3, <3>1, PushFacts
                <4>2. QED BY <4>1, <3>1, <1>1, <1>3, RunFacts
            <3>2. CASE i # Len(ring')
                <4>1. i \in 1 .. Len(ring') - 1 /\ Len(ring') \in Nat
                    BY <3>2, <1>1, <1>2, <1>3, PushFacts
                <4>2. ring'[i] = IF Len(ring) = Backlog THEN ring[i + 1] ELSE ring[i]
                    BY <4>1, <1>1, <1>2, <1>3, PushFacts
                <4>3. Len(ring') = IF Len(ring) = Backlog THEN Backlog ELSE Len(ring) + 1
                    BY <1>1, <1>2, <1>3, PushFacts
                <4>4. CASE Len(ring) = Backlog
                    <5>1. i + 1 \in 1 .. Len(ring)
                        BY <4>1, <4>3, <4>4
                    <5>2. ring[i + 1].seq = nextSeq - Len(ring) + i
                        BY <5>1, <1>1, RunFacts DEF RingShape
                    <5>3. QED BY <5>2, <4>2, <4>3, <4>4, <1>1, <1>3, RunFacts
                <4>5. CASE Len(ring) # Backlog
                    <5>1. i \in 1 .. Len(ring)
                        BY <4>1, <4>3, <4>5, <1>1, RunFacts
                    <5>2. ring[i].seq = nextSeq - Len(ring) + i - 1
                        BY <5>1, <1>1, RunFacts DEF RingShape
                    <5>3. QED BY <5>2, <4>2, <4>3, <4>5, <1>1, <1>3, RunFacts
                <4>6. QED BY <4>4, <4>5
            <3>3. QED BY <3>1, <3>2
        <2>3. QED BY <2>1, <2>2 DEF RingShape
    <1>6. ring' \in Seq(Change) /\ Len(ring') <= Backlog
        BY <1>1, <1>2, <1>3, PushFacts
    <1>7. buf' \in [Clients -> Seq(Change)]
          /\ \A c \in Clients : Len(buf'[c]) <= SubscriberBuffer
        <2>1. buf \in [Clients -> Seq(Change)] /\ SubscriberBuffer \in Nat
              /\ \A c \in Clients : Len(buf[c]) <= SubscriberBuffer
            BY <1>1, HubAssumption DEF TypeOK
        <2>2. buf' = [c \in Clients |-> IF c \in registered \ Overflowing
                                        THEN Append(buf[c], change) ELSE buf[c]]
            BY DEF Publish
        <2>3. ASSUME NEW c \in Clients
              PROVE  buf'[c] \in Seq(Change) /\ Len(buf'[c]) <= SubscriberBuffer
            BY <1>2, <2>1, <2>2 DEF Overflowing
        <2>4. QED BY <2>2, <2>3
    <1>8. nextSeq' \in Bases[run'] .. (Bases[run'] + MaxEvents)
        BY <1>1, <1>3, <1>4, RunFacts
    <1>9. TypeOK'
        BY <1>1, <1>3, <1>6, <1>7, <1>8 DEF TypeOK, Publish, clientVars
    <1>10. QED BY <1>4, <1>5, <1>9 DEF Numbering

(* Subscribing keeps it: the replay and the resync are messages of the hub. *)
LEMMA SubscribeNumbering ==
    ASSUME Numbering, NEW c \in Clients, Subscribe(c)
    PROVE  Numbering'
    <1>1. TypeOK /\ RoomLeft /\ RingShape
        BY DEF Numbering
    <1>2. RoomLeft' /\ RingShape'
        BY <1>1 DEF Subscribe, RoomLeft, RingShape
    <1>3. /\ out' \in [Clients -> Seq(Change \cup Resync)]
          /\ stale' \in [Clients -> SUBSET Resources]
        <2> DEFINE Messages == Seq(Change \cup Resync)
        <2>1. CASE /\ cursor[c] = NoCursor
                   /\ out' = [out EXCEPT ![c] = <<>>]
                   /\ stale' = [stale EXCEPT ![c] = Resources]
            <3>1. out \in [Clients -> Messages] /\ <<>> \in Messages
                BY <1>1 DEF TypeOK
            <3>2. stale \in [Clients -> SUBSET Resources]
                BY <1>1 DEF TypeOK
            <3> HIDE DEF Messages
            <3>3. out' \in [Clients -> Messages]
                BY <2>1, <3>1
            <3>4. stale' \in [Clients -> SUBSET Resources]
                BY <2>1, <3>2
            <3>5. QED BY <3>3, <3>4 DEF Messages
        <2>2. ASSUME NEW after \in {cursor[c], Unreadable}, cursor[c] # NoCursor,
                     out' = [out EXCEPT ![c] =
                               IF NeedsResync(after)
                               THEN <<[kind |-> "resync", seq |-> Newest]>>
                               ELSE Replay(after)],
                     UNCHANGED stale
              PROVE  /\ out' \in [Clients -> Seq(Change \cup Resync)]
                     /\ stale' \in [Clients -> SUBSET Resources]
            <3>1. after \in Nat
                BY <1>1, <2>2, HubAssumption DEF TypeOK
            <3>2. Newest \in Nat
                BY <1>1, RunFacts DEF Newest
            <3>3. [kind |-> "resync", seq |-> Newest] \in Change \cup Resync
                BY <3>2 DEF Resync
            <3>4. <<[kind |-> "resync", seq |-> Newest]>> \in Seq(Change \cup Resync)
                BY <3>3
            <3>5. ~NeedsResync(after) => Replay(after) \in Seq(Change \cup Resync)
                BY <1>1, <3>1, ReplayFacts
            <3>6. QED BY <1>1, <2>2, <3>4, <3>5 DEF TypeOK
        <2>3. QED BY <2>1, <2>2 DEF Subscribe
    <1>4. buf' \in [Clients -> Seq(Change)]
          /\ \A d \in Clients : Len(buf'[d]) <= SubscriberBuffer
        <2>1. /\ buf \in [Clients -> Seq(Change)] /\ SubscriberBuffer \in Nat
              /\ \A d \in Clients : Len(buf[d]) <= SubscriberBuffer
            BY <1>1, HubAssumption DEF TypeOK
        <2>2. buf' = [buf EXCEPT ![c] = <<>>]
            BY DEF Subscribe
        <2>3. \A d \in Clients : buf'[d] = IF d = c THEN <<>> ELSE buf[d]
            BY <2>1, <2>2
        <2>4. buf' \in [Clients -> Seq(Change)]
            BY <2>1, <2>2
        <2>5. QED BY <2>1, <2>3, <2>4
    <1>5. TypeOK'
        BY <1>1, <1>3, <1>4 DEF TypeOK, Subscribe
    <1>6. QED BY <1>2, <1>5 DEF Numbering

(* So does every other step: the handler, the client and the restart. *)
LEMMA SendNumbering ==
    ASSUME Numbering, NEW c \in Clients, SendOut(c) \/ SendLive(c)
    PROVE  Numbering'
    <1>1. TypeOK /\ RoomLeft /\ RingShape
        BY DEF Numbering
    <1>2. /\ out[c] \in Seq(Change \cup Resync) /\ buf[c] \in Seq(Change)
          /\ SubscriberBuffer \in Nat /\ Len(buf[c]) <= SubscriberBuffer
        BY <1>1, HubAssumption DEF TypeOK
    <1>3. RoomLeft' /\ RingShape'
        BY <1>1 DEF SendOut, SendLive, hubVars, RoomLeft, RingShape
    <1>4. CASE SendOut(c)
        <2>1. Head(out[c]) \in Change \cup Resync
              /\ Tail(out[c]) \in Seq(Change \cup Resync)
            BY <1>2, <1>4 DEF SendOut
        <2>2. out' \in [Clients -> Seq(Change \cup Resync)]
            BY <1>1, <1>4, <2>1 DEF SendOut, TypeOK
        <2>3. Receive(c, Head(out[c]))
            BY <1>4 DEF SendOut
        <2>4. QED
            BY <1>1, <1>3, <1>4, <2>1, <2>2, <2>3, ReceiveType
            DEF Numbering, TypeOK, SendOut, hubVars
    <1>5. CASE SendLive(c)
        <2>1. Head(buf[c]) \in Change \cup Resync /\ Tail(buf[c]) \in Seq(Change)
              /\ Len(Tail(buf[c])) <= SubscriberBuffer
            BY <1>2, <1>5 DEF SendLive
        <2>2. buf' \in [Clients -> Seq(Change)]
              /\ \A d \in Clients : Len(buf'[d]) <= SubscriberBuffer
            BY <1>1, <1>5, <2>1 DEF SendLive, TypeOK
        <2>3. Receive(c, Head(buf[c]))
            BY <1>5 DEF SendLive
        <2>4. QED
            BY <1>1, <1>3, <1>5, <2>1, <2>2, <2>3, ReceiveType
            DEF Numbering, TypeOK, SendLive, hubVars
    <1>6. QED BY <1>4, <1>5

(* A change of a view that leaves room for its event keeps the numbering. *)
LEMMA ViewChangeNumbering ==
    ASSUME Numbering, NEW r \in Resources, ViewChange(r)
    PROVE  Numbering'
    <1>1. TypeOK /\ RoomLeft /\ RingShape
        BY DEF Numbering
    <1>2. RoomLeft'
        BY <1>1, RoomAfterChange, RunFacts DEF ViewChange, RoomLeft, hubVars
    <1>3. RingShape'
        BY <1>1 DEF ViewChange, RingShape, hubVars
    <1>4. TypeOK'
        BY <1>1 DEF ViewChange, TypeOK, hubVars, streamVars
    <1>5. QED BY <1>2, <1>3, <1>4 DEF Numbering

(* The steps that end a stream, and a refetch, keep it. *)
LEMMA EndNumbering ==
    ASSUME Numbering, NEW c \in Clients,
           \/ HandlerReturns(c) \/ Disconnect(c)
           \/ \E r \in Resources : Fetch(c, r)
    PROVE  Numbering'
    <1>1. TypeOK /\ RoomLeft /\ RingShape
        BY DEF Numbering
    <1>2. SubscriberBuffer \in Nat
        BY HubAssumption
    <1>3. CASE HandlerReturns(c)
        BY <1>1, <1>3
        DEF Numbering, HandlerReturns, TypeOK, RoomLeft, RingShape, hubVars, clientVars
    <1>4. CASE Disconnect(c)
        <2>1. TypeOK'
            BY <1>1, <1>2, <1>4 DEF Disconnect, TypeOK, clientVars
        <2>2. RoomLeft' /\ RingShape'
            BY <1>1, <1>4 DEF Disconnect, RoomLeft, RingShape, clientVars
        <2>3. QED BY <2>1, <2>2 DEF Numbering
    <1>5. ASSUME NEW r \in Resources, Fetch(c, r) PROVE Numbering'
        BY <1>1, <1>5
        DEF Numbering, Fetch, TypeOK, RoomLeft, RingShape, hubVars, streamVars
    <1>6. QED BY <1>3, <1>4, <1>5

(* A restart begins the window of the next run with an empty ring. *)
LEMMA RestartNumbering ==
    ASSUME Numbering, Restart
    PROVE  Numbering'
    <1>1. TypeOK /\ RoomLeft /\ RingShape
        BY DEF Numbering
    <1>2. run + 1 \in 1 .. Len(Bases) /\ Bases[run + 1] \in Nat /\ MaxEvents \in Nat
        BY <1>1, HubAssumption DEF Restart, TypeOK
    <1>3. Cardinality({}) = 0
        BY FS_EmptySet
    <1>4. Len(<<>>) = 0 /\ Backlog \in Nat /\ SubscriberBuffer \in Nat
        BY HubAssumption
    <1>5. RoomLeft' /\ RingShape'
        BY <1>2, <1>3, <1>4 DEF Restart, RoomLeft, RingShape
    <1>6. TypeOK'
        BY <1>1, <1>2, <1>4 DEF Restart, TypeOK
    <1>7. QED BY <1>5, <1>6 DEF Numbering

(* The numbering is an inductive invariant of the hub. *)
LEMMA NumberingStep ==
    ASSUME Numbering, [Next]_vars
    PROVE  Numbering'
    <1>1. CASE UNCHANGED vars
        BY <1>1 DEF vars, Numbering, TypeOK, RoomLeft, RingShape
    <1>2. ASSUME NEW r \in Resources, ViewChange(r) \/ Publish(r) PROVE Numbering'
        BY <1>2, ViewChangeNumbering, PublishNumbering
    <1>3. ASSUME NEW c \in Clients,
                 \/ Subscribe(c) \/ SendOut(c) \/ SendLive(c)
                 \/ HandlerReturns(c) \/ Disconnect(c)
                 \/ \E r \in Resources : Fetch(c, r)
          PROVE  Numbering'
        BY <1>3, SubscribeNumbering, SendNumbering, EndNumbering
    <1>4. CASE Restart
        BY <1>4, RestartNumbering
    <1>5. QED BY <1>1, <1>2, <1>3, <1>4 DEF Next

(* It holds of a hub that has just been made. *)
LEMMA NumberingInit ==
    ASSUME Init
    PROVE  Numbering
    <1>1. /\ 1 \in 1 .. Len(Bases) /\ Bases[1] \in Nat /\ MaxEvents \in Nat
          /\ Backlog \in Nat /\ SubscriberBuffer \in Nat
        BY HubAssumption
    <1>2. Cardinality({}) = 0
        BY FS_EmptySet
    <1>3. Len(<<>>) = 0
        OBVIOUS
    <1>4. RoomLeft /\ RingShape
        BY <1>1, <1>2, <1>3 DEF Init, RoomLeft, RingShape
    <1>5. TypeOK
        BY <1>1, <1>3 DEF Init, TypeOK
    <1>6. QED BY <1>4, <1>5 DEF Numbering

(***************************************************************************)
(* The hub is type correct for every backlog, buffer and set of clients:   *)
(* the ring never outgrows its capacity, no channel its buffer, and the    *)
(* sequence numbers of a run stay in the window NewHub gave it.            *)
(***************************************************************************)
THEOREM TypeCorrect == Spec => []TypeOK
    <1>1. Init => Numbering
        BY NumberingInit
    <1>2. Numbering /\ [Next]_vars => Numbering'
        BY NumberingStep
    <1>3. Numbering => TypeOK
        BY DEF Numbering
    <1>4. QED BY <1>1, <1>2, <1>3, PTL DEF Spec

-----------------------------------------------------------------------------
(* Delivery.                                                               *)

(* A client none of whose state changes is owed what it was owed. *)
LEMMA Frame ==
    ASSUME NEW c \in Clients, Delivery(c),
           UNCHANGED <<run, nextSeq, ring>>,
           out'[c] = out[c], buf'[c] = buf[c], cursor'[c] = cursor[c],
           (c \in registered') <=> (c \in registered),
           (c \in stream' \ registered') => (c \in stream \ registered),
           Missed(c)' \subseteq Missed(c)
    PROVE  Delivery(c)'
    <1>1. run' = run /\ nextSeq' = nextSeq /\ ring' = ring
        OBVIOUS
    <1>2. \A k, r : WouldLearn(k, r)' <=> WouldLearn(k, r)
        BY <1>1 DEF WouldLearn, NeedsResync, Newest, Oldest
    <1>3. \A r : (Carries(c, r)' <=> Carries(c, r)) /\ (StopsShort(c, r)' <=> StopsShort(c, r))
        BY <1>2 DEF Carries, StopsShort
    <1>4. OutShape(c)' /\ BufShape(c)'
        BY <1>1 DEF Delivery, OutShape, BufShape, Issued, InRing, Oldest
    <1>5. CursorShape(c)'
        BY <1>1 DEF Delivery, CursorShape
    <1>6. DroppedShape(c)'
        BY <1>2, <1>3 DEF Delivery, DroppedShape
    <1>7. /\ c \in registered' => \A r \in Missed(c)' : Carries(c, r)'
          /\ \A r \in Missed(c)' : WouldLearn(cursor[c], r)'
        BY <1>2, <1>3 DEF Delivery
    <1>8. (\A r \in Missed(c) : WouldLearn(cursor[c], r))'
        BY <1>7
    <1>9. QED BY <1>4, <1>5, <1>6, <1>7, <1>8 DEF Delivery

(* A change no event announces yet is nobody's to miss. *)
LEMMA ViewChangeDelivery ==
    ASSUME HubInv, NEW r \in Resources, ViewChange(r), NEW c \in Clients
    PROVE  Delivery(c)'
    <1>1. Missed(c)' \subseteq Missed(c)
        BY DEF ViewChange, Missed
    <1>2. QED BY <1>1, Frame DEF HubInv, ViewChange, hubVars, streamVars

(* A refetch takes a resource from what is stale and from what is behind. *)
LEMMA FetchDelivery ==
    ASSUME HubInv, NEW d \in Clients, NEW r \in Resources, Fetch(d, r),
           NEW c \in Clients
    PROVE  Delivery(c)'
    <1>1. stale \in [Clients -> SUBSET Resources] /\ behind \in [Clients -> SUBSET Resources]
        BY DEF HubInv, Numbering, TypeOK
    <1>2. Missed(c)' \subseteq Missed(c)
        BY <1>1 DEF Fetch, Missed
    <1>3. QED BY <1>2, Frame DEF HubInv, Fetch, hubVars, streamVars

(* A handler returns when there is nothing left to send. *)
LEMMA HandlerReturnsDelivery ==
    ASSUME HubInv, NEW d \in Clients, HandlerReturns(d), NEW c \in Clients
    PROVE  Delivery(c)'
    <1>1. Missed(c)' \subseteq Missed(c)
        BY DEF HandlerReturns, Missed, clientVars
    <1>2. QED BY <1>1, Frame DEF HubInv, HandlerReturns, hubVars, clientVars

(* A cut stream leaves the client with its cursor, and that is enough. *)
LEMMA DisconnectDelivery ==
    ASSUME HubInv, NEW d \in Clients, Disconnect(d), NEW c \in Clients
    PROVE  Delivery(c)'
    <1>1. TypeOK /\ Delivery(c)
        BY DEF HubInv, Numbering
    <1>2. Missed(c)' = Missed(c)
        BY DEF Disconnect, Missed, clientVars
    <1>3. CASE c # d
        <2>1. out'[c] = out[c] /\ buf'[c] = buf[c]
            BY <1>1, <1>3 DEF Disconnect, TypeOK
        <2>2. QED BY <1>1, <1>2, <1>3, <2>1, Frame DEF Disconnect, clientVars
    <1>4. CASE c = d
        <2>1. out'[c] = <<>> /\ buf'[c] = <<>> /\ c \notin registered' /\ c \notin stream'
              /\ UNCHANGED <<run, nextSeq, ring, cursor>>
            BY <1>1, <1>4 DEF Disconnect, TypeOK, clientVars
        <2>2. OutShape(c)' /\ BufShape(c)'
            BY <2>1 DEF OutShape, BufShape
        <2>3. CursorShape(c)'
            BY <1>1, <2>1 DEF Delivery, CursorShape
        <2>4. DroppedShape(c)'
            BY <2>1 DEF DroppedShape
        <2>5. \A r : WouldLearn(cursor[c], r)' <=> WouldLearn(cursor[c], r)
            BY <2>1 DEF WouldLearn, NeedsResync, Newest, Oldest
        <2>6. QED BY <1>1, <1>2, <2>1, <2>2, <2>3, <2>4, <2>5 DEF Delivery
    <1>5. QED BY <1>3, <1>4

(* After a restart every cursor is of another run, and is answered with a *)
(* resync.                                                                 *)
LEMMA RestartDelivery ==
    ASSUME HubInv, Restart, NEW c \in Clients
    PROVE  Delivery(c)'
    <1>1. Numbering /\ TypeOK /\ CursorShape(c)
        BY DEF HubInv, Numbering, Delivery
    <1>2. out'[c] = <<>> /\ buf'[c] = <<>> /\ c \notin registered' /\ c \notin stream'
          /\ run' = run + 1 /\ cursor' = cursor /\ ring' = <<>>
          /\ nextSeq' = Bases[run + 1]
        BY DEF Restart
    <1>3. OutShape(c)' /\ BufShape(c)'
        BY <1>2 DEF OutShape, BufShape
    <1>4. DroppedShape(c)'
        BY <1>2 DEF DroppedShape
    <1>5. run \in Nat /\ run >= 1 /\ run + 1 \in 1 .. Len(Bases)
        BY <1>1, HubAssumption DEF Restart, TypeOK
    <1>6. CursorShape(c)'
        BY <1>1, <1>2, <1>5 DEF CursorShape
    <1>7. cursor[c] # NoCursor => NeedsResync(cursor[c])'
        <2>1. HAVE cursor[c] # NoCursor
        <2>2. PICK j \in 1 .. run : cursor[c] \in Window(j)
            BY <1>1, <2>1 DEF CursorShape
        <2>3. j \in 1 .. Len(Bases) /\ j # run + 1
            BY <1>5
        <2>4. cursor[c] \notin Window(run + 1)
            BY <1>5, <2>2, <2>3, WindowsApart
        <2>5. cursor[c] \in Nat
            BY <1>1, <2>1 DEF TypeOK
        <2>6. Bases[run + 1] \in Nat /\ Bases[run + 1] >= 1 /\ MaxEvents \in Nat
            BY <1>5, HubAssumption
        <2>7. cursor[c] > Bases[run + 1] - 1 \/ cursor[c] + 1 < Bases[run + 1]
            BY <2>4, <2>5, <2>6 DEF Window
        <2>8. QED BY <1>2, <2>5, <2>6, <2>7 DEF NeedsResync, Newest, Oldest
    <1>8. \A r : WouldLearn(cursor[c], r)'
        BY <1>2, <1>7 DEF WouldLearn
    <1>9. QED BY <1>2, <1>3, <1>4, <1>6, <1>8 DEF Delivery

(* A message the ring vouches for, with a later number than k, is one a    *)
(* reconnect at k would still tell about.                                  *)
LEMMA CarryLearn ==
    ASSUME Numbering, NEW m \in Change, InRing(m), NEW k \in Nat, k < m.seq
    PROVE  WouldLearn(k, m.id)
    <1>1. m.seq \in Nat /\ nextSeq \in Nat /\ Len(ring) \in Nat
        BY RunFacts DEF Change, Numbering
    <1>2. CASE m.seq < Oldest
        BY <1>1, <1>2 DEF WouldLearn, NeedsResync, Oldest
    <1>3. CASE \E i \in 1 .. Len(ring) : ring[i] = m
        BY <1>3 DEF WouldLearn
    <1>4. QED BY <1>2, <1>3 DEF InRing

(* A step that hands client c the message m and only shortens what is on   *)
(* its way leaves the client owed nothing more.                            *)
LEMMA ReceiveDelivery ==
    ASSUME HubInv, NEW c \in Clients, c \in stream, NEW m \in Change \cup Resync,
           Receive(c, m), Issued(m),
           UNCHANGED <<hubVars, stream, unannounced, behind>>,
           OutShape(c)', BufShape(c)',
           \A r \in Missed(c) :
              m.kind = "change" /\ m.id # r =>
                 /\ Carries(c, r) => Carries(c, r)' /\ WouldLearn(m.seq, r)
                 /\ StopsShort(c, r) => StopsShort(c, r)' /\ WouldLearn(m.seq, r)
    PROVE  Delivery(c)'
    <1>1. TypeOK /\ Delivery(c) /\ DroppedShape(c)
        BY DEF HubInv, Numbering, Delivery
    <1>2. /\ UNCHANGED <<run, nextSeq, ring, registered, stream>>
          /\ cursor'[c] = m.seq /\ m.seq \in Nat
          /\ m.kind \in {"change", "resync"}
          /\ m.kind = "resync" => stale'[c] = Resources
          /\ m.kind = "change" => stale'[c] = stale[c] \cup {m.id}
        BY <1>1 DEF TypeOK, Receive, hubVars, Change, Resync
    <1>3. \/ m.kind = "change" /\ Missed(c)' \subseteq Missed(c) \ {m.id}
          \/ Missed(c)' = {}
        BY <1>1, <1>2 DEF Missed, TypeOK
    <1>4. CursorShape(c)'
        <2>1. run \in 1 .. run
            BY <1>1, HubAssumption DEF TypeOK
        <2>2. m.seq \in Window(run)
            BY <1>1, <1>2, RunFacts DEF Issued, Window
        <2>3. QED BY <1>2, <2>1, <2>2 DEF CursorShape, Issued
    <1>5. \A k, r : WouldLearn(k, r)' <=> WouldLearn(k, r)
        BY <1>2 DEF WouldLearn, NeedsResync, Newest, Oldest
    <1>6. c \in registered => \A r \in Missed(c)' : Carries(c, r)' /\ WouldLearn(m.seq, r)
        BY <1>1, <1>3 DEF Delivery
    <1>7. c \notin registered => \A r \in Missed(c)' : WouldLearn(m.seq, r)
        BY <1>1, <1>3 DEF DroppedShape
    <1>8. DroppedShape(c)'
        BY <1>1, <1>2, <1>3 DEF DroppedShape
    <1>9. \A r \in Missed(c)' : WouldLearn(m.seq, r)'
        BY <1>5, <1>6, <1>7
    <1>10. (\A r \in Missed(c) : WouldLearn(cursor[c], r))'
        BY <1>2, <1>9
    <1>11. QED BY <1>2, <1>4, <1>6, <1>8, <1>10 DEF Delivery

(* Sending the first message of the replay, or the resync. *)
LEMMA SendOutDelivery ==
    ASSUME HubInv, NEW d \in Clients, SendOut(d), NEW c \in Clients
    PROVE  Delivery(c)'
    <1>1. Numbering /\ TypeOK /\ Delivery(c) /\ OutShape(c) /\ BufShape(c)
        BY DEF HubInv, Numbering, Delivery
    <1>2. CASE c # d
        <2>1. /\ out'[c] = out[c] /\ buf'[c] = buf[c] /\ cursor'[c] = cursor[c]
              /\ stale'[c] = stale[c] /\ behind' = behind /\ unannounced' = unannounced
            BY <1>1, <1>2 DEF SendOut, Receive, TypeOK
        <2>2. Missed(c)' \subseteq Missed(c)
            BY <2>1 DEF Missed
        <2>3. QED BY <1>1, <2>1, <2>2, Frame DEF SendOut, hubVars
    <1>3. CASE c = d
        <2> DEFINE m == Head(out[c])
        <2>1. /\ out[c] \in Seq(Change \cup Resync) /\ out[c] # <<>>
              /\ buf[c] \in Seq(Change) /\ Len(out[c]) \in Nat /\ Len(out[c]) >= 1
              /\ m = out[c][1] /\ m \in Change \cup Resync
              /\ out'[c] = Tail(out[c]) /\ buf'[c] = buf[c]
            BY <1>1, <1>3 DEF SendOut, TypeOK
        <2>2. /\ Len(out'[c]) = Len(out[c]) - 1
              /\ \A i \in 1 .. Len(out'[c]) : out'[c][i] = out[c][i + 1]
              /\ \A i \in 1 .. Len(out'[c]) : i + 1 \in 1 .. Len(out[c]) /\ i + 1 # 1
            BY <2>1
        <2>3. Issued(m) /\ m.seq \in Nat
            BY <1>1, <2>1 DEF OutShape, Change, Resync
        <2>4. UNCHANGED <<hubVars, stream, unannounced, behind>> /\ Receive(c, m)
              /\ c \in stream
            BY <1>3 DEF SendOut
        <2>5. /\ BufShape(c)'
              /\ \A x : InRing(x)' <=> InRing(x)
              /\ \A x : Issued(x)' <=> Issued(x)
            BY <1>1, <2>1, <2>4 DEF BufShape, hubVars, Issued, InRing, Oldest
        <2>6. OutShape(c)'
            <3>1. ASSUME NEW i \in 1 .. Len(out'[c])
                  PROVE  (/\ Issued(out[c][i])
                          /\ out[c][i].kind = "resync" => i = 1
                          /\ out[c][i].kind = "change" => InRing(out[c][i])
                          /\ \A j \in 1 .. Len(out[c]) : i < j => out[c][i].seq < out[c][j].seq
                          /\ \A j \in 1 .. Len(buf[c]) : out[c][i].seq < buf[c][j].seq)'
                <4>1. i + 1 \in 1 .. Len(out[c]) /\ i + 1 # 1 /\ out'[c][i] = out[c][i + 1]
                    BY <2>2
                <4>2. ASSUME NEW j \in 1 .. Len(out'[c]), i < j
                      PROVE  out'[c][i].seq < out'[c][j].seq
                    <5>1. j + 1 \in 1 .. Len(out[c]) /\ i + 1 < j + 1
                          /\ out'[c][j] = out[c][j + 1]
                        BY <2>2, <4>2
                    <5>2. QED BY <1>1, <4>1, <5>1 DEF OutShape
                <4>3. QED BY <1>1, <2>1, <2>5, <4>1, <4>2 DEF OutShape
            <3>2. QED BY <3>1 DEF OutShape
        <2>7. ASSUME NEW r \in Missed(c), m.kind = "change", m.id # r, Carries(c, r)
              PROVE  Carries(c, r)' /\ WouldLearn(m.seq, r)
            <3>1. CASE \E i \in 1 .. Len(out[c]) : out[c][i].kind = "resync" \/ out[c][i].id = r
                <4>1. PICK i \in 1 .. Len(out[c]) : out[c][i].kind = "resync" \/ out[c][i].id = r
                    BY <3>1
                <4>2. i # 1
                    BY <2>1, <2>7, <4>1
                <4>3. out[c][i].kind # "resync"
                    BY <1>1, <4>2 DEF OutShape
                <4>4. out[c][i] \in Change /\ out[c][i].id = r /\ out[c][i].kind = "change"
                    BY <2>1, <4>1, <4>3 DEF Change, Resync
                <4>5. InRing(out[c][i])
                    BY <1>1, <4>4 DEF OutShape
                <4>6. 1 < i /\ 1 \in 1 .. Len(out[c])
                    BY <2>1, <4>2
                <4>7. m.seq < out[c][i].seq
                    BY <1>1, <2>1, <4>6 DEF OutShape
                <4>8. WouldLearn(m.seq, r)
                    BY <1>1, <2>3, <4>4, <4>5, <4>7, CarryLearn
                <4>9. i - 1 \in 1 .. Len(out'[c]) /\ out'[c][i - 1] = out[c][i]
                    BY <2>1, <2>2, <4>2
                <4>10. QED BY <4>4, <4>8, <4>9 DEF Carries
            <3>2. CASE \E i \in 1 .. Len(buf[c]) : buf[c][i].id = r
                <4>1. PICK i \in 1 .. Len(buf[c]) : buf[c][i].id = r
                    BY <3>2
                <4>2. buf[c][i] \in Change /\ InRing(buf[c][i])
                    BY <1>1, <2>1 DEF BufShape
                <4>3. m.seq < buf[c][i].seq
                    BY <1>1, <2>1 DEF OutShape
                <4>4. WouldLearn(m.seq, r)
                    BY <1>1, <2>3, <4>1, <4>2, <4>3, CarryLearn
                <4>5. QED BY <2>1, <4>1, <4>4 DEF Carries
            <3>3. QED BY <2>7, <3>1, <3>2 DEF Carries
        <2>8. ASSUME NEW r \in Missed(c), StopsShort(c, r)
              PROVE  StopsShort(c, r)' /\ WouldLearn(m.seq, r)
            <3>1. nextSeq' = nextSeq /\ ring' = ring
                BY <2>4 DEF hubVars
            <3>2. ASSUME NEW i \in 1 .. Len(out'[c])
                  PROVE  WouldLearn(out[c][i].seq, r)'
                <4>1. WouldLearn(out[c][i + 1].seq, r) /\ out'[c][i] = out[c][i + 1]
                    BY <2>2, <2>8 DEF StopsShort
                <4>2. QED BY <3>1, <4>1 DEF WouldLearn, NeedsResync, Newest, Oldest
            <3>3. ASSUME NEW i \in 1 .. Len(buf'[c])
                  PROVE  WouldLearn(buf[c][i].seq, r)'
                <4>1. WouldLearn(buf[c][i].seq, r) /\ buf'[c][i] = buf[c][i]
                    BY <2>1, <2>8 DEF StopsShort
                <4>2. QED BY <3>1, <4>1 DEF WouldLearn, NeedsResync, Newest, Oldest
            <3>4. WouldLearn(m.seq, r)
                BY <2>1, <2>8 DEF StopsShort
            <3>5. QED BY <3>2, <3>3, <3>4 DEF StopsShort
        <2>9. QED BY <2>1, <2>3, <2>4, <2>5, <2>6, <2>7, <2>8, ReceiveDelivery
    <1>4. QED BY <1>2, <1>3

(* Sending the oldest event of the channel, once the replay is out. *)
LEMMA SendLiveDelivery ==
    ASSUME HubInv, NEW d \in Clients, SendLive(d), NEW c \in Clients
    PROVE  Delivery(c)'
    <1>1. Numbering /\ TypeOK /\ Delivery(c) /\ OutShape(c) /\ BufShape(c)
        BY DEF HubInv, Numbering, Delivery
    <1>2. CASE c # d
        <2>1. /\ out'[c] = out[c] /\ buf'[c] = buf[c] /\ cursor'[c] = cursor[c]
              /\ stale'[c] = stale[c] /\ behind' = behind /\ unannounced' = unannounced
            BY <1>1, <1>2 DEF SendLive, Receive, TypeOK
        <2>2. Missed(c)' \subseteq Missed(c)
            BY <2>1 DEF Missed
        <2>3. QED BY <1>1, <2>1, <2>2, Frame DEF SendLive, hubVars
    <1>3. CASE c = d
        <2> DEFINE m == Head(buf[c])
        <2>1. /\ buf[c] \in Seq(Change) /\ buf[c] # <<>> /\ out[c] = <<>>
              /\ Len(buf[c]) \in Nat /\ Len(buf[c]) >= 1
              /\ m = buf[c][1] /\ m \in Change
              /\ buf'[c] = Tail(buf[c]) /\ out'[c] = <<>>
            BY <1>1, <1>3 DEF SendLive, TypeOK
        <2>2. /\ Len(buf'[c]) = Len(buf[c]) - 1
              /\ \A i \in 1 .. Len(buf'[c]) : buf'[c][i] = buf[c][i + 1]
              /\ \A i \in 1 .. Len(buf'[c]) : i + 1 \in 1 .. Len(buf[c])
            BY <2>1
        <2>3. Issued(m) /\ m.seq \in Nat /\ m \in Change \cup Resync
            BY <1>1, <2>1 DEF BufShape, Change
        <2>4. UNCHANGED <<hubVars, stream, unannounced, behind>> /\ Receive(c, m)
              /\ c \in stream
            BY <1>3 DEF SendLive
        <2>5. OutShape(c)'
            BY <2>1 DEF OutShape
        <2>6. BufShape(c)'
            <3>1. ASSUME NEW i \in 1 .. Len(buf'[c])
                  PROVE  (/\ Issued(buf[c][i])
                          /\ InRing(buf[c][i])
                          /\ \A j \in 1 .. Len(buf[c]) : i < j => buf[c][i].seq < buf[c][j].seq)'
                <4>1. i + 1 \in 1 .. Len(buf[c]) /\ buf'[c][i] = buf[c][i + 1]
                    BY <2>2
                <4>2. Issued(buf[c][i])' /\ InRing(buf[c][i])'
                    BY <1>1, <2>4, <4>1 DEF BufShape, hubVars, Issued, InRing, Oldest
                <4>3. ASSUME NEW j \in 1 .. Len(buf'[c]), i < j
                      PROVE  buf'[c][i].seq < buf'[c][j].seq
                    <5>1. j + 1 \in 1 .. Len(buf[c]) /\ i + 1 < j + 1
                          /\ buf'[c][j] = buf[c][j + 1]
                        BY <2>2, <4>3
                    <5>2. QED BY <1>1, <4>1, <5>1 DEF BufShape
                <4>4. QED BY <4>2, <4>3
            <3>2. QED BY <3>1 DEF BufShape
        <2>7. ASSUME NEW r \in Missed(c), m.id # r, Carries(c, r)
              PROVE  Carries(c, r)' /\ WouldLearn(m.seq, r)
            <3>1. PICK i \in 1 .. Len(buf[c]) : buf[c][i].id = r
                BY <2>1, <2>7 DEF Carries
            <3>2. i # 1 /\ 1 < i /\ 1 \in 1 .. Len(buf[c])
                BY <2>1, <2>7, <3>1
            <3>3. buf[c][i] \in Change /\ InRing(buf[c][i]) /\ m.seq < buf[c][i].seq
                BY <1>1, <2>1, <3>2 DEF BufShape
            <3>4. WouldLearn(m.seq, r)
                BY <1>1, <2>3, <3>1, <3>3, CarryLearn
            <3>5. i - 1 \in 1 .. Len(buf'[c]) /\ buf'[c][i - 1] = buf[c][i]
                BY <2>1, <2>2, <3>2
            <3>6. QED BY <3>1, <3>4, <3>5 DEF Carries
        <2>8. ASSUME NEW r \in Missed(c), StopsShort(c, r)
              PROVE  StopsShort(c, r)' /\ WouldLearn(m.seq, r)
            <3>1. nextSeq' = nextSeq /\ ring' = ring
                BY <2>4 DEF hubVars
            <3>2. ASSUME NEW i \in 1 .. Len(buf'[c])
                  PROVE  WouldLearn(buf[c][i].seq, r)'
                <4>1. WouldLearn(buf[c][i + 1].seq, r) /\ buf'[c][i] = buf[c][i + 1]
                    BY <2>2, <2>8 DEF StopsShort
                <4>2. QED BY <3>1, <4>1 DEF WouldLearn, NeedsResync, Newest, Oldest
            <3>3. WouldLearn(m.seq, r)
                BY <2>1, <2>8 DEF StopsShort
            <3>4. QED BY <2>1, <3>2, <3>3 DEF StopsShort
        <2>9. QED BY <2>3, <2>4, <2>5, <2>6, <2>7, <2>8, ReceiveDelivery
    <1>4. QED BY <1>2, <1>3

(* The replay continues the cursor one by one with the ring's own events,  *)
(* and leaves out none of the later ones.                                  *)
LEMMA ReplayContinues ==
    ASSUME Numbering, NEW k \in Nat, ~NeedsResync(k)
    PROVE  /\ \A i \in 1 .. Len(Replay(k)) :
                 /\ Replay(k)[i] \in Change
                 /\ Replay(k)[i].seq = k + i /\ k + i < nextSeq
                 /\ \E j \in 1 .. Len(ring) : ring[j] = Replay(k)[i]
           /\ k >= Bases[run] - 1
           /\ \A j \in 1 .. Len(ring) : ring[j].seq > k =>
                 \E i \in 1 .. Len(Replay(k)) : Replay(k)[i] = ring[j]
    <1>1. TypeOK /\ RingShape
        BY DEF Numbering
    <1>2. PICK n \in Nat : n = Len(ring)
        BY <1>1, RunFacts
    <1>3. PICK top \in Nat : top = nextSeq - 1
        BY <1>1, RunFacts
    <1>4. Newest = top /\ Oldest = top + 1 - n /\ nextSeq = top + 1
        <2>1. nextSeq \in Nat /\ nextSeq >= 1
            BY <1>1, RunFacts
        <2>2. QED BY <1>2, <1>3, <2>1 DEF Newest, Oldest
    <1>5. k <= top /\ top - k <= n
        BY <1>2, <1>3, <1>4 DEF NeedsResync
    <1>6. PICK skip \in Nat : skip = n - (top - k)
        BY <1>5
    <1>7. /\ Len(Replay(k)) = top - k
          /\ \A i \in 1 .. top - k : Replay(k)[i] = ring[skip + i]
        BY <1>1, <1>2, <1>4, <1>6, ReplayFacts
    <1>8. \A j \in 1 .. n : ring[j] \in Change /\ ring[j].seq = top - n + j
        <2>1. \A j \in 1 .. n : ring[j] \in Change
            BY <1>1, <1>2 DEF TypeOK
        <2>2. \A j \in 1 .. n : ring[j].seq = nextSeq - n + j - 1
            BY <1>1, <1>2 DEF RingShape
        <2>3. \A j \in 1 .. n : nextSeq - n + j - 1 = top - n + j
            BY <1>4
        <2>4. QED BY <2>1, <2>2, <2>3
    <1>9. \A i \in 1 .. top - k : skip + i \in 1 .. n /\ top - n + (skip + i) = k + i
        BY <1>5, <1>6
    <1>10. ASSUME NEW j \in 1 .. n, ring[j].seq > k
           PROVE  \E i \in 1 .. top - k : Replay(k)[i] = ring[j]
        <2>1. top - n + j > k
            BY <1>8, <1>10
        <2>2. j - skip \in 1 .. top - k /\ skip + (j - skip) = j
            BY <1>5, <1>6, <2>1
        <2>3. QED BY <1>7, <2>2
    <1>11. k >= Bases[run] - 1
        <2>1. n <= nextSeq - Bases[run] /\ Bases[run] \in Nat
            BY <1>1, <1>2, RunFacts DEF RingShape
        <2>2. QED BY <1>4, <1>5, <2>1
    <1>12. ASSUME NEW i \in 1 .. top - k
           PROVE  /\ Replay(k)[i] \in Change
                  /\ Replay(k)[i].seq = k + i /\ k + i < nextSeq
                  /\ \E j \in 1 .. n : ring[j] = Replay(k)[i]
        <2>1. skip + i \in 1 .. n /\ top - n + (skip + i) = k + i
            BY <1>9
        <2>2. Replay(k)[i] = ring[skip + i]
            BY <1>7
        <2>3. ring[skip + i] \in Change /\ ring[skip + i].seq = k + i
            BY <1>8, <2>1
        <2>4. k + i < nextSeq
            BY <1>4, <1>5
        <2>5. QED BY <2>1, <2>2, <2>3, <2>4
    <1>13. QED BY <1>2, <1>7, <1>10, <1>11, <1>12

(* A fresh subscription is registered, and its replay (or the resync)      *)
(* carries whatever the client's cursor says it has missed.                *)
LEMMA SubscribeDelivery ==
    ASSUME HubInv, NEW d \in Clients, Subscribe(d), NEW c \in Clients
    PROVE  Delivery(c)'
    <1>1. Numbering /\ TypeOK /\ RingShape /\ Delivery(c)
        BY DEF HubInv, Numbering
    <1>2. UNCHANGED <<run, nextSeq, ring, unannounced, cursor, behind>>
        BY DEF Subscribe
    <1>3. stale'[c] = stale[c] \/ stale'[c] = Resources
        BY <1>1 DEF Subscribe, TypeOK
    <1>4. Missed(c)' \subseteq Missed(c)
        BY <1>1, <1>2, <1>3 DEF Missed, TypeOK
    <1>5. CASE c # d
        <2>1. out'[c] = out[c] /\ buf'[c] = buf[c]
            BY <1>1, <1>5 DEF Subscribe, TypeOK
        <2>2. QED BY <1>1, <1>2, <1>4, <1>5, <2>1, Frame DEF Subscribe
    <1>6. CASE c = d
        <2>1. buf'[c] = <<>> /\ c \in registered'
            BY <1>1, <1>6 DEF Subscribe, TypeOK
        <2>2. BufShape(c)' /\ DroppedShape(c)'
            BY <2>1 DEF BufShape, DroppedShape
        <2>3. CursorShape(c)'
            BY <1>1, <1>2 DEF Delivery, CursorShape
        <2>4. \A r \in Missed(c)' : WouldLearn(cursor[c], r)'
            BY <1>1, <1>2, <1>4 DEF Delivery, WouldLearn, NeedsResync, Newest, Oldest
        <2>5. /\ nextSeq \in Nat /\ Len(ring) \in Nat /\ Bases[run] \in Nat
              /\ Bases[run] >= 1 /\ nextSeq >= Bases[run]
              /\ nextSeq <= Bases[run] + MaxEvents /\ MaxEvents \in Nat
              /\ Unreadable \in Nat /\ Unreadable > Bases[run] + MaxEvents
            <3>1. run \in 1 .. Len(Bases)
                BY <1>1 DEF TypeOK
            <3>2. Unreadable > Bases[run] + MaxEvents
                BY Zenon, <3>1, HubAssumption
            <3>3. QED BY <1>1, <3>2, RunFacts, HubAssumption
        <2>6. OutShape(c)' /\ \A r \in Missed(c)' : Carries(c, r)'
            <3>1. CASE out'[c] = <<>> /\ stale'[c] = Resources
                <4>1. Missed(c)' = {}
                    BY <1>1, <1>2, <3>1 DEF Missed, TypeOK
                <4>2. QED BY <3>1, <4>1 DEF OutShape
            <3>2. CASE out'[c] = <<[kind |-> "resync", seq |-> Newest]>>
                <4>1. Len(out'[c]) = 1 /\ out'[c][1].kind = "resync" /\ out'[c][1].seq = Newest
                    BY <3>2
                <4>2. OutShape(c)'
                    BY <1>2, <2>1, <2>5, <4>1 DEF OutShape, Issued, Newest
                <4>3. QED BY <4>1, <4>2 DEF Carries
            <3>3. ASSUME cursor[c] \in Nat, ~NeedsResync(cursor[c]),
                         out'[c] = Replay(cursor[c])
                  PROVE  OutShape(c)' /\ \A r \in Missed(c)' : Carries(c, r)'
                <4>1. PICK k \in Nat : k = cursor[c]
                    BY <3>3
                <4>2. out'[c] = Replay(k) /\ ~NeedsResync(k) /\ k >= Bases[run] - 1
                    BY <1>1, <3>3, <4>1, ReplayContinues
                <4>3. ASSUME NEW i \in 1 .. Len(out'[c])
                      PROVE  /\ out'[c][i] \in Change /\ out'[c][i].seq = k + i
                             /\ k + i < nextSeq
                             /\ \E j \in 1 .. Len(ring) : ring[j] = out'[c][i]
                    BY <1>1, <4>2, ReplayContinues
                <4>4. OutShape(c)'
                    <5>1. ASSUME NEW i \in 1 .. Len(out'[c])
                          PROVE  (/\ Issued(out[c][i])
                                  /\ out[c][i].kind = "resync" => i = 1
                                  /\ out[c][i].kind = "change" => InRing(out[c][i])
                                  /\ \A j \in 1 .. Len(out[c]) :
                                        i < j => out[c][i].seq < out[c][j].seq)'
                        <6>1. out'[c][i].kind = "change"
                            BY <4>3 DEF Change
                        <6>2. out'[c][i].seq >= Bases[run] - 1 /\ out'[c][i].seq < nextSeq
                            <7>1. out'[c][i].seq = k + i /\ k + i < nextSeq
                                BY <4>3
                            <7>2. i \in Nat /\ k + i >= Bases[run] - 1
                                BY <2>5, <4>2
                            <7>3. QED BY <7>1, <7>2
                        <6>3. ASSUME NEW j \in 1 .. Len(out'[c]), i < j
                              PROVE  out'[c][i].seq < out'[c][j].seq
                            <7>1. out'[c][i].seq = k + i /\ out'[c][j].seq = k + j
                                BY <4>3
                            <7>2. i \in Nat /\ j \in Nat /\ k + i < k + j
                                BY <6>3
                            <7>3. QED BY <7>1, <7>2
                        <6>4. QED BY <1>2, <4>3, <6>1, <6>2, <6>3 DEF Issued, InRing
                    <5>2. QED BY <2>1, <5>1 DEF OutShape
                <4>5. ASSUME NEW r \in Missed(c)'
                      PROVE  Carries(c, r)'
                    <5>1. WouldLearn(k, r) /\ k # NoCursor
                        BY <1>1, <1>4, <4>1, HubAssumption DEF Delivery
                    <5>2. PICK j \in 1 .. Len(ring) : ring[j].seq > k /\ ring[j].id = r
                        BY <4>2, <5>1 DEF WouldLearn
                    <5>3. PICK i \in 1 .. Len(out'[c]) : out'[c][i] = ring[j]
                        BY <1>1, <4>2, <5>2, ReplayContinues
                    <5>4. QED BY <5>2, <5>3 DEF Carries
                <4>6. QED BY <4>4, <4>5
            <3>4. CASE /\ cursor[c] = NoCursor
                       /\ out' = [out EXCEPT ![c] = <<>>]
                       /\ stale' = [stale EXCEPT ![c] = Resources]
                BY <1>1, <3>1, <3>4 DEF TypeOK
            <3>5. ASSUME NEW after \in {cursor[c], Unreadable}, cursor[c] # NoCursor,
                         out' = [out EXCEPT ![c] =
                                   IF NeedsResync(after)
                                   THEN <<[kind |-> "resync", seq |-> Newest]>>
                                   ELSE Replay(after)]
                  PROVE  OutShape(c)' /\ \A r \in Missed(c)' : Carries(c, r)'
                <4>1. out'[c] = IF NeedsResync(after)
                                THEN <<[kind |-> "resync", seq |-> Newest]>>
                                ELSE Replay(after)
                    BY <1>1, <3>5 DEF TypeOK
                <4>2. cursor[c] \in Nat
                    BY <1>1, <3>5 DEF TypeOK
                <4>3. NeedsResync(Unreadable)
                    BY <2>5 DEF NeedsResync, Newest
                <4>4. CASE NeedsResync(after)
                    BY <3>2, <4>1, <4>4
                <4>5. CASE ~NeedsResync(after)
                    BY <3>3, <3>5, <4>1, <4>2, <4>3, <4>5
                <4>6. QED BY <4>4, <4>5
            <3>6. QED BY <1>6, <3>4, <3>5 DEF Subscribe
        <2>7. (\A r \in Missed(c) : WouldLearn(cursor[c], r))'
            BY <2>4
        <2>8. QED BY <2>2, <2>3, <2>6, <2>7 DEF Delivery
    <1>7. QED BY <1>5, <1>6

(* What Publish does to the ring, as the lemmas below need it: the new     *)
(* event is last, and an old one stays unless it was the oldest of a full  *)
(* ring, whose place is then off the window.                               *)
LEMMA PublishRing ==
    ASSUME Numbering, NEW r \in Resources, Publish(r)
    PROVE  /\ nextSeq' = nextSeq + 1 /\ run' = run
           /\ Len(ring') \in Nat /\ Len(ring') >= 1
           /\ nextSeq' - Len(ring') >= nextSeq - Len(ring)
           /\ ring'[Len(ring')] = [kind |-> "change", seq |-> nextSeq, id |-> r]
           /\ \A j \in 1 .. Len(ring) :
                 \/ ring[j].seq < nextSeq' - Len(ring')
                 \/ \E i \in 1 .. Len(ring') : ring'[i] = ring[j]
    <1> DEFINE change == [kind |-> "change", seq |-> nextSeq, id |-> r]
    <1>1. TypeOK /\ RingShape
        BY DEF Numbering
    <1>2. change \in Change
        BY <1>1, RunFacts DEF Change
    <1>3. ring' = Push(change) /\ nextSeq' = nextSeq + 1 /\ run' = run
        BY DEF Publish
    <1>4. /\ Len(ring') = IF Len(ring) = Backlog THEN Backlog ELSE Len(ring) + 1
          /\ ring'[Len(ring')] = change
          /\ \A i \in 1 .. Len(ring') - 1 :
                ring'[i] = IF Len(ring) = Backlog THEN ring[i + 1] ELSE ring[i]
        BY <1>1, <1>2, <1>3, PushFacts
    <1>5. nextSeq \in Nat /\ Len(ring) \in Nat /\ Backlog \in Nat /\ Backlog >= 1
        BY <1>1, RunFacts
    <1>6. ASSUME NEW j \in 1 .. Len(ring)
          PROVE  \/ ring[j].seq < nextSeq' - Len(ring')
                 \/ \E i \in 1 .. Len(ring') : ring'[i] = ring[j]
        <2>1. CASE Len(ring) = Backlog /\ j = 1
            <3>1. ring[j].seq = nextSeq - Len(ring)
                BY <1>1, <1>5, <2>1 DEF RingShape
            <3>2. QED BY <1>3, <1>4, <1>5, <2>1, <3>1
        <2>2. CASE Len(ring) = Backlog /\ j # 1
            <3>1. j - 1 \in 1 .. Len(ring') - 1 /\ (j - 1) + 1 = j
                BY <1>4, <1>5, <2>2
            <3>2. ring'[j - 1] = ring[j] /\ j - 1 \in 1 .. Len(ring')
                BY <1>4, <1>5, <2>2, <3>1
            <3>3. QED BY <3>2
        <2>3. CASE Len(ring) # Backlog
            <3>1. j \in 1 .. Len(ring') - 1 /\ j \in 1 .. Len(ring')
                BY <1>4, <1>5, <2>3
            <3>2. ring'[j] = ring[j]
                BY <1>4, <2>3, <3>1
            <3>3. QED BY <3>1, <3>2
        <2>4. QED BY <2>1, <2>2, <2>3
    <1>7. QED BY <1>3, <1>4, <1>5, <1>6

(* A message the ring vouches for stays vouched for. *)
LEMMA PublishInRing ==
    ASSUME Numbering, NEW r \in Resources, Publish(r), NEW m \in Change, InRing(m)
    PROVE  m.seq < Oldest' \/ \E i \in 1 .. Len(ring') : ring'[i] = m
    <1>1. nextSeq \in Nat /\ Len(ring) \in Nat /\ m.seq \in Nat
        BY RunFacts DEF Numbering, Change
    <1>2. /\ nextSeq' = nextSeq + 1 /\ Len(ring') \in Nat
          /\ nextSeq' - Len(ring') >= nextSeq - Len(ring)
        BY PublishRing
    <1>3. CASE m.seq < Oldest
        BY <1>1, <1>2, <1>3 DEF Oldest
    <1>4. CASE \E j \in 1 .. Len(ring) : ring[j] = m
        BY <1>4, PublishRing DEF Oldest
    <1>5. QED BY <1>3, <1>4 DEF InRing

(* What a reconnect would have told, it still would; and it would tell     *)
(* about the new event.                                                    *)
LEMMA PublishLearn ==
    ASSUME Numbering, NEW r \in Resources, Publish(r), NEW k, NEW s,
           WouldLearn(k, s) \/ s = r,
           \/ k = NoCursor
           \/ k \in Nat /\ k \notin Window(run)
           \/ k \in Nat /\ k < nextSeq
    PROVE  WouldLearn(k, s)'
    <1>1. /\ nextSeq \in Nat /\ Len(ring) \in Nat
          /\ Bases[run] \in Nat /\ Bases[run] >= 1 /\ MaxEvents \in Nat
        BY RunFacts DEF Numbering
    <1>2. Numbering'
        BY PublishNumbering
    <1>3. /\ nextSeq' = nextSeq + 1 /\ run' = run
          /\ Len(ring') \in Nat /\ Len(ring') >= 1
          /\ nextSeq' - Len(ring') >= nextSeq - Len(ring)
        BY PublishRing
    <1>4. nextSeq' <= Bases[run] + MaxEvents /\ Len(ring') <= nextSeq' - Bases[run]
        BY <1>2, <1>3 DEF Numbering, TypeOK, RingShape
    <1>5. CASE k = NoCursor
        BY <1>5 DEF WouldLearn
    <1>6. CASE k \in Nat /\ k \notin Window(run)
        <2>1. k < Bases[run] - 1 \/ k > Bases[run] + MaxEvents - 1
            BY <1>1, <1>6 DEF Window
        <2>2. k > nextSeq' - 1 \/ k + 1 < nextSeq' - Len(ring')
            <3>1. CASE k < Bases[run] - 1
                BY <1>1, <1>3, <1>4, <1>6, <3>1
            <3>2. CASE k > Bases[run] + MaxEvents - 1
                BY <1>1, <1>3, <1>4, <1>6, <3>2
            <3>3. QED BY <2>1, <3>1, <3>2
        <2>3. QED BY <2>2 DEF WouldLearn, NeedsResync, Newest, Oldest
    <1>7. CASE k \in Nat /\ k < nextSeq
        <2>1. CASE s = r
            <3>1. ring'[Len(ring')] = [kind |-> "change", seq |-> nextSeq, id |-> r]
                BY PublishRing
            <3>2. Len(ring') \in 1 .. Len(ring') /\ ring'[Len(ring')].seq > k
                  /\ ring'[Len(ring')].id = r
                BY <1>1, <1>3, <1>7, <3>1
            <3>3. QED BY <2>1, <3>2 DEF WouldLearn
        <2>2. CASE NeedsResync(k)
            <3>1. k + 1 < nextSeq - Len(ring)
                BY <1>1, <1>7, <2>2 DEF NeedsResync, Newest, Oldest
            <3>2. k + 1 < nextSeq' - Len(ring')
                BY <1>1, <1>3, <1>7, <3>1
            <3>3. QED BY <3>2 DEF WouldLearn, NeedsResync, Oldest
        <2>3. CASE \E j \in 1 .. Len(ring) : ring[j].seq > k /\ ring[j].id = s
            <3>1. PICK j \in 1 .. Len(ring) : ring[j].seq > k /\ ring[j].id = s
                BY <2>3
            <3>2. CASE ring[j].seq < nextSeq' - Len(ring')
                <4>1. ring[j].seq \in Nat
                    <5>1. ring \in Seq(Change)
                        BY DEF Numbering, TypeOK
                    <5>2. ring[j] \in Change
                        BY <5>1
                    <5>3. QED BY <5>2 DEF Change
                <4>2. k + 1 < nextSeq' - Len(ring')
                    BY <1>1, <1>3, <1>7, <3>1, <3>2, <4>1
                <4>3. QED BY <4>2 DEF WouldLearn, NeedsResync, Oldest
            <3>3. CASE \E i \in 1 .. Len(ring') : ring'[i] = ring[j]
                BY <3>1, <3>3 DEF WouldLearn
            <3>4. QED BY <3>2, <3>3, PublishRing
        <2>4. CASE k = NoCursor
            BY <2>4 DEF WouldLearn
        <2>5. QED BY <2>1, <2>2, <2>3, <2>4 DEF WouldLearn
    <1>8. QED BY <1>5, <1>6, <1>7

(* Publishing: a registered client gets the event, or is dropped with all  *)
(* it is owed still on its way or within reach of a reconnect.             *)
LEMMA PublishDelivery ==
    ASSUME HubInv, NEW r \in Resources, Publish(r), NEW c \in Clients
    PROVE  Delivery(c)'
    <1> DEFINE change == [kind |-> "change", seq |-> nextSeq, id |-> r]
    <1>1. Numbering /\ TypeOK /\ RingShape /\ Delivery(c)
          /\ OutShape(c) /\ BufShape(c) /\ CursorShape(c) /\ DroppedShape(c)
        BY DEF HubInv, Numbering, Delivery
    <1>2. /\ nextSeq' = nextSeq + 1 /\ run' = run /\ UNCHANGED <<stream, out, cursor>>
          /\ registered' = registered \ Overflowing
          /\ Missed(c)' \subseteq Missed(c) \cup {r}
        BY DEF Publish, clientVars, Missed
    <1>3. /\ nextSeq \in Nat /\ Bases[run] \in Nat /\ Bases[run] <= nextSeq
          /\ Len(ring) \in Nat
        BY <1>1, RunFacts
    <1>4. /\ out[c] \in Seq(Change \cup Resync) /\ buf[c] \in Seq(Change)
          /\ buf' \in [Clients -> Seq(Change)]
          /\ buf'[c] = IF c \in registered \ Overflowing THEN Append(buf[c], change)
                                                         ELSE buf[c]
        <2>1. Numbering'
            BY <1>1, PublishNumbering
        <2>2. QED BY <1>1, <2>1 DEF Numbering, TypeOK, Publish
    <1>5. ASSUME NEW i \in 1 .. Len(buf'[c])
          PROVE  \/ i \in 1 .. Len(buf[c]) /\ buf'[c][i] = buf[c][i]
                 \/ i = Len(buf[c]) + 1 /\ buf'[c][i] = change
        BY <1>4
    <1>6. \A i \in 1 .. Len(buf[c]) : i \in 1 .. Len(buf'[c]) /\ buf'[c][i] = buf[c][i]
        BY <1>4
    <1>7. /\ \A i \in 1 .. Len(out[c]) : out[c][i].seq \in Nat /\ out[c][i].seq < nextSeq
          /\ \A i \in 1 .. Len(buf[c]) : buf[c][i].seq \in Nat /\ buf[c][i].seq < nextSeq
        <2>1. \A m \in Change \cup Resync : m.seq \in Nat
            BY DEF Change, Resync
        <2>2. /\ \A i \in 1 .. Len(out[c]) : out[c][i] \in Change \cup Resync
              /\ \A i \in 1 .. Len(buf[c]) : buf[c][i] \in Change \cup Resync
            BY <1>4
        <2>3. QED BY <1>1, <2>1, <2>2 DEF OutShape, BufShape, Issued
    <1>8. OutShape(c)'
        <2>1. ASSUME NEW i \in 1 .. Len(out[c])
              PROVE  (/\ Issued(out[c][i])
                      /\ out[c][i].kind = "resync" => i = 1
                      /\ out[c][i].kind = "change" => InRing(out[c][i])
                      /\ \A j \in 1 .. Len(out[c]) : i < j => out[c][i].seq < out[c][j].seq
                      /\ \A j \in 1 .. Len(buf[c]) : out[c][i].seq < buf[c][j].seq)'
            <3>1. Issued(out[c][i])'
                BY <1>1, <1>2, <1>3, <1>7 DEF OutShape, Issued
            <3>2. ASSUME out[c][i].kind = "change" PROVE InRing(out[c][i])'
                <4>1. out[c][i] \in Change /\ InRing(out[c][i])
                    BY <1>1, <1>4, <3>2 DEF OutShape, Change, Resync
                <4>2. out[c][i].seq < Oldest' \/ \E j \in 1 .. Len(ring') : ring'[j] = out[c][i]
                    BY <1>1, <4>1, PublishInRing
                <4>3. QED BY <1>2, <4>2 DEF InRing
            <3>3. ASSUME NEW j \in 1 .. Len(buf'[c])
                  PROVE  out[c][i].seq < buf'[c][j].seq
                <4>1. CASE j \in 1 .. Len(buf[c]) /\ buf'[c][j] = buf[c][j]
                    <5>1. out[c][i].seq < buf[c][j].seq
                        BY <1>1, <4>1 DEF OutShape
                    <5>2. QED BY <4>1, <5>1
                <4>2. CASE buf'[c][j] = change
                    BY <1>7, <4>2
                <4>3. QED BY <1>5, <4>1, <4>2
            <3>4. QED BY <1>1, <1>2, <3>1, <3>2, <3>3 DEF OutShape
        <2>2. QED BY <1>2, <2>1 DEF OutShape
    <1>9. BufShape(c)'
        <2>1. ASSUME NEW i \in 1 .. Len(buf'[c])
              PROVE  (/\ Issued(buf[c][i])
                      /\ InRing(buf[c][i])
                      /\ \A j \in 1 .. Len(buf[c]) : i < j => buf[c][i].seq < buf[c][j].seq)'
            <3>1. CASE i \in 1 .. Len(buf[c]) /\ buf'[c][i] = buf[c][i]
                <4>1. Issued(buf[c][i])'
                    <5>1. buf[c][i].seq >= Bases[run] - 1
                        BY <1>1, <3>1 DEF BufShape, Issued
                    <5>2. buf[c][i].seq < nextSeq'
                        BY <1>2, <1>3, <1>7, <3>1
                    <5>3. QED BY <1>2, <3>1, <5>1, <5>2 DEF Issued
                <4>2. InRing(buf[c][i])'
                    <5>1. buf[c][i] \in Change /\ InRing(buf[c][i])
                        BY <1>1, <1>4, <3>1 DEF BufShape
                    <5>2. buf[c][i].seq < Oldest' \/ \E j \in 1 .. Len(ring') : ring'[j] = buf[c][i]
                        BY <1>1, <5>1, PublishInRing
                    <5>3. QED BY <3>1, <5>2 DEF InRing
                <4>3. ASSUME NEW j \in 1 .. Len(buf'[c]), i < j
                      PROVE  buf'[c][i].seq < buf'[c][j].seq
                    <5>1. CASE j \in 1 .. Len(buf[c]) /\ buf'[c][j] = buf[c][j]
                        <6>1. buf[c][i].seq < buf[c][j].seq
                            BY <1>1, <3>1, <4>3, <5>1 DEF BufShape
                        <6>2. QED BY <3>1, <5>1, <6>1
                    <5>2. CASE buf'[c][j] = change
                        BY <1>7, <3>1, <5>2
                    <5>3. QED BY <1>5, <5>1, <5>2
                <4>4. QED BY <4>1, <4>2, <4>3
            <3>2. CASE i = Len(buf[c]) + 1 /\ buf'[c][i] = change
                <4>1. Len(buf[c]) \in Nat /\ Len(buf'[c]) \in Nat
                      /\ Len(buf'[c]) <= Len(buf[c]) + 1
                    BY <1>4
                <4>2. Issued(buf[c][i])'
                    BY <1>2, <1>3, <3>2 DEF Issued
                <4>3. Len(ring') \in 1 .. Len(ring') /\ ring'[Len(ring')] = change
                    BY <1>1, PublishRing
                <4>4. InRing(buf[c][i])'
                    BY <3>2, <4>3 DEF InRing
                <4>5. \A j \in 1 .. Len(buf'[c]) : ~(i < j)
                    BY <3>2, <4>1
                <4>6. QED BY <4>2, <4>4, <4>5
            <3>3. QED BY <1>5, <3>1, <3>2
        <2>2. QED BY <2>1 DEF BufShape
    <1>10. CursorShape(c)'
        BY <1>1, <1>2, <1>3 DEF CursorShape, TypeOK
    <1>11. \A s \in Missed(c)' : WouldLearn(cursor[c], s)'
        <2>1. ASSUME NEW s \in Missed(c)' PROVE WouldLearn(cursor[c], s) \/ s = r
            BY <1>1, <1>2 DEF Delivery
        <2>2. PICK k : k = cursor[c]
            OBVIOUS
        <2>3. \/ k = NoCursor
              \/ k \in Nat /\ k \notin Window(run)
              \/ k \in Nat /\ k < nextSeq
            BY <1>1, <2>2, CursorCases
        <2>4. ASSUME NEW s \in Missed(c)' PROVE WouldLearn(k, s)'
            BY <1>1, <2>1, <2>2, <2>3, PublishLearn
        <2>5. QED BY <1>2, <2>2, <2>4 DEF WouldLearn, NeedsResync
    <1>12. ASSUME NEW s \in Missed(c), Carries(c, s) PROVE Carries(c, s)'
        BY <1>2, <1>6, <1>12 DEF Carries
    <1>13. c \in registered' => \A s \in Missed(c)' : Carries(c, s)'
        <2>1. HAVE c \in registered'
        <2>2. c \in registered /\ buf'[c] = Append(buf[c], change)
            BY <1>2, <1>4, <2>1
        <2>3. Len(buf'[c]) \in 1 .. Len(buf'[c]) /\ buf'[c][Len(buf'[c])].id = r
            BY <1>4, <2>2
        <2>4. Carries(c, r)'
            BY <2>3 DEF Carries
        <2>5. \A s \in Missed(c) : Carries(c, s)
            BY <1>1, <2>2 DEF Delivery
        <2>6. QED BY <1>2, <1>12, <2>4, <2>5
    <1>14. DroppedShape(c)'
        <2>1. SUFFICES ASSUME c \in stream, c \notin registered', NEW s \in Missed(c)'
                       PROVE  Carries(c, s)' \/ StopsShort(c, s)'
            BY <1>2 DEF DroppedShape
        <2>2. buf'[c] = buf[c]
            BY <1>2, <1>4, <2>1
        <2>3. CASE s \in Missed(c) /\ Carries(c, s)
            BY <1>12, <2>3
        <2>4. CASE s = r \/ StopsShort(c, s)
            <3>1. ASSUME NEW i \in 1 .. Len(out[c]) PROVE WouldLearn(out[c][i].seq, s)'
                <4>1. PICK k \in Nat : k = out[c][i].seq /\ k < nextSeq
                    BY <1>7
                <4>2. WouldLearn(k, s) \/ s = r
                    BY <2>4, <4>1 DEF StopsShort
                <4>3. WouldLearn(k, s)'
                    BY <1>1, <4>1, <4>2, PublishLearn
                <4>4. QED BY <1>2, <4>1, <4>3 DEF WouldLearn, NeedsResync
            <3>2. ASSUME NEW i \in 1 .. Len(buf[c]) PROVE WouldLearn(buf[c][i].seq, s)'
                <4>1. PICK k \in Nat : k = buf[c][i].seq /\ k < nextSeq
                    BY <1>7
                <4>2. WouldLearn(k, s) \/ s = r
                    BY <2>4, <4>1 DEF StopsShort
                <4>3. WouldLearn(k, s)'
                    BY <1>1, <4>1, <4>2, PublishLearn
                <4>4. QED BY <2>2, <4>1, <4>3 DEF WouldLearn, NeedsResync
            <3>3. QED BY <1>2, <2>2, <3>1, <3>2 DEF StopsShort
        <2>5. s \in Missed(c) \/ s = r
            BY <1>2, <2>1
        <2>6. s \in Missed(c) => Carries(c, s) \/ StopsShort(c, s)
            BY <1>1, <2>1 DEF DroppedShape, Delivery
        <2>7. QED BY <2>3, <2>4, <2>5, <2>6
    <1>15. (\A s \in Missed(c) : WouldLearn(cursor[c], s))'
        BY <1>11
    <1>16. QED BY <1>8, <1>9, <1>10, <1>13, <1>14, <1>15 DEF Delivery

-----------------------------------------------------------------------------
(* The inductive invariant and what it gives.                              *)

(* Every step of the hub, its handlers, its clients and the server keeps   *)
(* the invariant.                                                          *)
LEMMA HubStep ==
    ASSUME HubInv, [Next]_vars
    PROVE  HubInv'
    <1>1. Numbering'
        BY NumberingStep DEF HubInv
    <1>2. ASSUME NEW c \in Clients PROVE Delivery(c)'
        <2>1. CASE UNCHANGED vars
            <3>1. Missed(c)' \subseteq Missed(c)
                BY <2>1 DEF vars, Missed
            <3>2. QED BY <2>1, <3>1, Frame DEF HubInv, vars
        <2>2. ASSUME NEW r \in Resources, ViewChange(r) \/ Publish(r) PROVE Delivery(c)'
            BY <2>2, ViewChangeDelivery, PublishDelivery
        <2>3. ASSUME NEW d \in Clients,
                     \/ Subscribe(d) \/ SendOut(d) \/ SendLive(d)
                     \/ HandlerReturns(d) \/ Disconnect(d)
                     \/ \E r \in Resources : Fetch(d, r)
              PROVE  Delivery(c)'
            BY <2>3, SubscribeDelivery, SendOutDelivery, SendLiveDelivery,
               HandlerReturnsDelivery, DisconnectDelivery, FetchDelivery
        <2>4. CASE Restart
            BY <2>4, RestartDelivery
        <2>5. QED BY <2>1, <2>2, <2>3, <2>4 DEF Next
    <1>3. QED BY <1>1, <1>2 DEF HubInv

(* It holds of a hub without clients. *)
LEMMA HubInit ==
    ASSUME Init
    PROVE  HubInv
    <1>1. Numbering
        BY NumberingInit
    <1>2. ASSUME NEW c \in Clients PROVE Delivery(c)
        <2>1. out[c] = <<>> /\ buf[c] = <<>> /\ cursor[c] = NoCursor
              /\ c \notin stream /\ c \notin registered
            BY DEF Init
        <2>2. OutShape(c) /\ BufShape(c)
            BY <2>1 DEF OutShape, BufShape
        <2>3. CursorShape(c) /\ DroppedShape(c)
            BY <2>1 DEF CursorShape, DroppedShape
        <2>4. \A r : WouldLearn(cursor[c], r)
            BY <2>1 DEF WouldLearn
        <2>5. QED BY <2>1, <2>2, <2>3, <2>4 DEF Delivery
    <1>3. QED BY <1>1, <1>2 DEF HubInv

(***************************************************************************)
(* Reconnecting never hides a published change (ReconnectCatchesUp), for   *)
(* every backlog and buffer size, any clients, and any number of restarts: *)
(* the window test of Subscribe and its replay lose nothing.               *)
(***************************************************************************)
THEOREM CatchUp == Spec => []ReconnectCatchesUp
    <1>1. Init => HubInv
        BY HubInit
    <1>2. HubInv /\ [Next]_vars => HubInv'
        BY HubStep
    <1>3. HubInv => ReconnectCatchesUp
        BY DEF HubInv, Delivery, ReconnectCatchesUp
    <1>4. QED BY <1>1, <1>2, <1>3, PTL DEF Spec

(***************************************************************************)
(* A stream the hub still has registered carries every published change    *)
(* its client has missed (StreamCarriesChanges): Publish never skips a     *)
(* subscriber it keeps, and Subscribe leaves no gap between the replay and *)
(* the channel.                                                            *)
(***************************************************************************)
THEOREM Carried == Spec => []StreamCarriesChanges
    <1>1. Init => HubInv
        BY HubInit
    <1>2. HubInv /\ [Next]_vars => HubInv'
        BY HubStep
    <1>3. HubInv => StreamCarriesChanges
        BY DEF HubInv, Numbering, TypeOK, Delivery, StreamCarriesChanges
    <1>4. QED BY <1>1, <1>2, <1>3, PTL DEF Spec
-----------------------------------------------------------------------------
(* The join of the replay and the live channel.                            *)

(* The messages of s are numbered one by one. *)
Consecutive(s) == \A i \in 1 .. Len(s) - 1 : s[i + 1].seq = s[i].seq + 1

(* What is on its way to c is numbered one by one, from c's cursor on. *)
PipeOrdered(c) ==
    /\ Consecutive(out[c]) /\ Consecutive(buf[c])
    /\ out[c] # <<>> /\ buf[c] # <<>> =>
          buf[c][1].seq = out[c][Len(out[c])].seq + 1
    /\ out[c] # <<>> /\ cursor[c] # NoCursor /\ out[c][1].kind # "resync" =>
          out[c][1].seq = cursor[c] + 1
    /\ out[c] = <<>> /\ buf[c] # <<>> /\ cursor[c] # NoCursor =>
          buf[c][1].seq = cursor[c] + 1

(* What the hub still feeds reaches up to the newest event. *)
PipeReaches(c) ==
    /\ buf[c] # <<>> => buf[c][Len(buf[c])].seq = Newest
    /\ buf[c] = <<>> /\ out[c] # <<>> => out[c][Len(out[c])].seq = Newest
    /\ buf[c] = <<>> /\ out[c] = <<>> /\ cursor[c] # NoCursor => cursor[c] = Newest

PipeShape(c) ==
    /\ c \in stream => PipeOrdered(c)
    /\ c \in registered => PipeReaches(c)

PipeInv == Numbering /\ \A c \in Clients : PipeShape(c)

(* A client the step does not concern keeps its pipe. *)
LEMMA PipeFrame ==
    ASSUME NEW c \in Clients, PipeShape(c), nextSeq' = nextSeq,
           c \in stream' => c \in stream, c \in registered' => c \in registered,
           out'[c] = out[c], buf'[c] = buf[c], cursor'[c] = cursor[c]
    PROVE  PipeShape(c)'
    BY DEF PipeShape, PipeOrdered, PipeReaches, Consecutive, Newest

(* Types of one client's messages. *)
LEMMA PipeTypes ==
    ASSUME TypeOK, NEW c \in Clients
    PROVE  /\ out[c] \in Seq(Change \cup Resync) /\ buf[c] \in Seq(Change)
           /\ \A i \in 1 .. Len(out[c]) : out[c][i].seq \in Nat
           /\ \A i \in 1 .. Len(buf[c]) :
                 buf[c][i].seq \in Nat /\ buf[c][i].kind = "change"
           /\ cursor[c] \in Nat \cup {NoCursor}
    <1>1. out[c] \in Seq(Change \cup Resync) /\ buf[c] \in Seq(Change)
          /\ cursor[c] \in Nat \cup {NoCursor}
        BY DEF TypeOK
    <1>2. /\ \A i \in 1 .. Len(out[c]) : out[c][i] \in Change \cup Resync
          /\ \A i \in 1 .. Len(buf[c]) : buf[c][i] \in Change
        BY <1>1
    <1>3. QED BY <1>1, <1>2 DEF Change, Resync

(* Taking the first element off a sequence. *)
LEMMA TailFacts ==
    ASSUME NEW S, NEW s \in Seq(S), s # <<>>
    PROVE  /\ Len(s) \in Nat /\ Len(s) >= 1 /\ Head(s) = s[1]
           /\ Len(Tail(s)) = Len(s) - 1
           /\ \A i \in 1 .. Len(s) - 1 : Tail(s)[i] = s[i + 1]
           /\ Tail(s) = <<>> <=> Len(s) = 1
    <1>1. /\ Len(s) \in Nat /\ Len(s) >= 1 /\ Head(s) = s[1]
          /\ Tail(s) \in Seq(S) /\ Len(Tail(s)) = Len(s) - 1
          /\ \A i \in 1 .. Len(s) - 1 : Tail(s)[i] = s[i + 1]
        OBVIOUS
    <1>2. QED BY <1>1

(* The elements of two sequences put together. *)
LEMMA JoinFacts ==
    ASSUME NEW S, NEW s \in Seq(S), NEW t \in Seq(S)
    PROVE  /\ Len(s \o t) = Len(s) + Len(t)
           /\ \A j \in 1 .. Len(s) + Len(t) :
                 (s \o t)[j] = IF j <= Len(s) THEN s[j] ELSE t[j - Len(s)]
    OBVIOUS

LEMMA PublishPipe ==
    ASSUME PipeInv, NEW r \in Resources, Publish(r), NEW c \in Clients
    PROVE  PipeShape(c)'
    <1>1. TypeOK /\ RingShape /\ PipeShape(c) /\ registered \subseteq stream
          /\ nextSeq \in Nat
        BY RunFacts DEF PipeInv, Numbering, TypeOK
    <1>2. UNCHANGED <<stream, out, cursor>>
          /\ registered' = registered \ Overflowing /\ nextSeq' = nextSeq + 1
        BY DEF Publish, clientVars
    <1>3. CASE c \notin registered'
        <2>1. buf'[c] = buf[c]
            BY <1>1, <1>2, <1>3 DEF Publish, TypeOK
        <2>2. QED BY <1>1, <1>2, <1>3, <2>1 DEF PipeShape, PipeOrdered, Consecutive
    <1>4. CASE c \in registered'
        <2>1. PICK m : m.seq = nextSeq /\ m \in Change /\ buf'[c] = Append(buf[c], m)
            <3> DEFINE e == [kind |-> "change", seq |-> nextSeq, id |-> r]
            <3>1. e \in Change /\ e.seq = nextSeq
                BY <1>1 DEF Change
            <3>2. buf' = [d \in Clients |-> IF d \in registered \ Overflowing
                                            THEN Append(buf[d], e) ELSE buf[d]]
                BY DEF Publish
            <3> HIDE DEF e
            <3>3. QED BY <1>2, <1>4, <3>1, <3>2
        <2>2. buf[c] \in Seq(Change) /\ c \in stream /\ c \in registered
            BY <1>1, <1>2, <1>4 DEF TypeOK
        <2>3. /\ Len(buf'[c]) = Len(buf[c]) + 1 /\ Len(buf[c]) \in Nat
              /\ \A i \in 1 .. Len(buf[c]) : buf'[c][i] = buf[c][i]
              /\ buf'[c][Len(buf[c]) + 1] = m /\ buf'[c] # <<>>
            BY <2>1, <2>2
        <2>4. PipeOrdered(c) /\ PipeReaches(c)
            BY <1>1, <2>2 DEF PipeShape
        <2>5. PipeReaches(c)'
            BY <1>1, <1>2, <2>1, <2>3 DEF PipeReaches, Newest
        <2>6. PipeOrdered(c)'
            <3>1. CASE buf[c] = <<>>
                BY <1>1, <1>2, <2>1, <2>2, <2>3, <2>4, <3>1
                   DEF PipeOrdered, PipeReaches, Newest, Consecutive
            <3>2. CASE buf[c] # <<>>
                <4>1. Len(buf[c]) >= 1
                    BY <2>2, <3>2
                <4>2. Consecutive(buf'[c])
                    <5>1. ASSUME NEW i \in 1 .. Len(buf'[c]) - 1
                          PROVE  buf'[c][i + 1].seq = buf'[c][i].seq + 1
                        <6>1. CASE i = Len(buf[c])
                            <7>1. buf[c][Len(buf[c])].seq = nextSeq - 1
                                BY <2>4, <3>2 DEF PipeReaches, Newest
                            <7>2. QED BY <1>1, <2>1, <2>3, <4>1, <6>1, <7>1
                        <6>2. CASE i # Len(buf[c])
                            <7>1. i \in 1 .. Len(buf[c]) - 1
                                BY <2>3, <6>2
                            <7>2. buf[c][i + 1].seq = buf[c][i].seq + 1
                                BY <2>4, <7>1 DEF PipeOrdered, Consecutive
                            <7>3. buf'[c][i] = buf[c][i] /\ buf'[c][i + 1] = buf[c][i + 1]
                                BY <2>3, <7>1
                            <7>4. QED BY <7>2, <7>3
                        <6>3. QED BY <6>1, <6>2
                    <5>2. QED BY <5>1 DEF Consecutive
                <4>3. buf'[c][1] = buf[c][1]
                    BY <2>3, <4>1
                <4>4. QED BY <1>2, <2>4, <3>2, <4>2, <4>3 DEF PipeOrdered
            <3>3. QED BY <3>1, <3>2
        <2>7. QED BY <2>5, <2>6 DEF PipeShape
    <1>5. QED BY <1>3, <1>4

(* A subscription starts at its cursor, at the newest event, or afresh. *)
LEMMA SubscribePipe ==
    ASSUME PipeInv, NEW c \in Clients, Subscribe(c)
    PROVE  PipeShape(c)'
    <1>1. TypeOK /\ RingShape /\ nextSeq \in Nat /\ Len(ring) \in Nat
          /\ nextSeq >= 1 /\ Len(ring) <= nextSeq
        BY RunFacts DEF PipeInv, Numbering, RingShape
    <1>2. /\ cursor' = cursor /\ nextSeq' = nextSeq /\ buf'[c] = <<>>
          /\ cursor[c] \in Nat \cup {NoCursor}
        BY <1>1 DEF Subscribe, TypeOK
    <1>3. CASE cursor[c] = NoCursor
        <2>1. out'[c] = <<>>
            BY <1>1, <1>3 DEF Subscribe, TypeOK
        <2>2. QED BY <1>2, <1>3, <2>1 DEF PipeShape, PipeOrdered, PipeReaches, Consecutive
    <1>4. CASE cursor[c] # NoCursor
        <2>1. PICK after \in {cursor[c], Unreadable} :
                 out'[c] = IF NeedsResync(after)
                           THEN <<[kind |-> "resync", seq |-> Newest]>>
                           ELSE Replay(after)
            BY <1>1, <1>4 DEF Subscribe, TypeOK
        <2>2. CASE NeedsResync(after)
            <3>1. /\ Len(out'[c]) = 1 /\ out'[c] # <<>>
                  /\ out'[c][1].kind = "resync" /\ out'[c][1].seq = Newest
                BY <2>1, <2>2
            <3>2. QED BY <1>2, <3>1
                     DEF PipeShape, PipeOrdered, PipeReaches, Consecutive, Newest
        <2>3. CASE ~NeedsResync(after)
            <3>1. after \in Nat /\ after <= Newest /\ after + 1 >= Oldest
                  /\ after = cursor[c]
                <4>1. after # Unreadable
                    BY <1>1, <2>3, RunFacts, HubAssumption DEF NeedsResync, Newest, TypeOK
                <4>2. after = cursor[c]
                    BY <2>1, <4>1
                <4>3. QED BY <1>1, <1>2, <1>4, <2>3, <4>2
                         DEF NeedsResync, Newest, Oldest
            <3> DEFINE n == Newest - after
                       s == Replay(after)
            <3>2. n \in 0 .. Len(ring)
                BY <1>1, <3>1 DEF Newest, Oldest
            <3>3. /\ s \in Seq(Change) /\ Len(s) = n /\ out'[c] = s
                  /\ \A i \in 1 .. n : s[i] = ring[Len(ring) - n + i]
                BY <1>1, <2>1, <2>3, <3>1, ReplayFacts
            <3>4. \A i \in 1 .. n : s[i].seq = after + i
                <4>1. \A i \in 1 .. n : ring[Len(ring) - n + i].seq
                                          = nextSeq - Len(ring) + (Len(ring) - n + i) - 1
                    <5> HIDE DEF n
                    <5>1. QED BY <1>1, <3>2 DEF RingShape
                <4>2. ASSUME NEW i \in 1 .. n
                      PROVE  s[i].seq = after + i
                    <5>1. s[i].seq = nextSeq - Len(ring) + (Len(ring) - n + i) - 1
                        BY <3>3, <4>1
                    <5>2. nextSeq - n = after + 1
                        BY <1>1, <3>1 DEF Newest
                    <5> HIDE DEF n, s
                    <5>3. QED BY <1>1, <3>1, <3>2, <5>1, <5>2
                <4>3. QED BY <4>2
            <3>5. s = <<>> <=> n = 0
                BY <3>3
            <3>6. PipeReaches(c)'
                <4>1. n = 0 => cursor[c] = Newest
                    BY <1>1, <3>1 DEF Newest
                <4>2. n # 0 => s[n].seq = Newest
                    BY <1>1, <3>1, <3>2, <3>4 DEF Newest
                <4>3. Newest' = Newest
                    BY <1>2 DEF Newest
                <4> HIDE DEF n, s
                <4>4. QED BY <1>2, <3>3, <3>5, <4>1, <4>2, <4>3 DEF PipeReaches
            <3>7. PipeOrdered(c)'
                <4>1. Consecutive(s)
                    <5> HIDE DEF n, s
                    <5>1. \A i \in 1 .. n - 1 : i \in 1 .. n /\ i + 1 \in 1 .. n
                        BY <3>2
                    <5>2. ASSUME NEW i \in 1 .. Len(s) - 1
                          PROVE  s[i + 1].seq = s[i].seq + 1
                        <6>1. i \in 1 .. n /\ i + 1 \in 1 .. n /\ i \in Nat
                            BY <3>2, <3>3, <5>1
                        <6>2. s[i].seq = after + i /\ s[i + 1].seq = after + (i + 1)
                            BY <3>4, <6>1
                        <6>3. QED BY <3>1, <6>1, <6>2
                    <5>3. QED BY <5>2 DEF Consecutive
                <4> HIDE DEF n, s
                <4>2. s # <<>> => s[1].seq = cursor[c] + 1
                    BY <3>1, <3>2, <3>4, <3>5
                <4>3. QED BY <1>2, <3>3, <4>1, <4>2 DEF PipeOrdered, Consecutive
            <3>8. QED BY <3>6, <3>7 DEF PipeShape
        <2>4. QED BY <2>2, <2>3
    <1>5. QED BY <1>3, <1>4

LEMMA SendOutPipe ==
    ASSUME PipeInv, NEW c \in Clients, SendOut(c)
    PROVE  PipeShape(c)'
    <1>1. TypeOK /\ PipeShape(c) /\ c \in stream /\ out[c] # <<>>
        BY DEF PipeInv, Numbering, SendOut
    <1>2. /\ UNCHANGED <<nextSeq, stream, registered, buf>>
          /\ cursor'[c] = out[c][1].seq /\ out'[c] = Tail(out[c])
        BY <1>1 DEF SendOut, Receive, TypeOK, hubVars
    <1>3. /\ Len(out[c]) \in Nat /\ Len(out[c]) >= 1
          /\ Len(out'[c]) = Len(out[c]) - 1
          /\ \A i \in 1 .. Len(out[c]) - 1 : out'[c][i] = out[c][i + 1]
          /\ out'[c] = <<>> <=> Len(out[c]) = 1
        BY <1>1, <1>2, PipeTypes, TailFacts
    <1>4. PipeOrdered(c)'
        <2>1. PipeOrdered(c)
            BY <1>1 DEF PipeShape
        <2>2. Consecutive(out'[c])
            <3>1. ASSUME NEW i \in 1 .. Len(out'[c]) - 1
                  PROVE  out'[c][i + 1].seq = out'[c][i].seq + 1
                <4>1. i + 1 \in 1 .. Len(out[c]) - 1 /\ i \in 1 .. Len(out[c]) - 1
                    BY <1>3
                <4>2. out'[c][i] = out[c][i + 1] /\ out'[c][i + 1] = out[c][i + 1 + 1]
                    BY <1>3, <4>1
                <4>3. QED BY <2>1, <4>1, <4>2 DEF PipeOrdered, Consecutive
            <3>2. QED BY <3>1 DEF Consecutive
        <2>3. CASE Len(out[c]) = 1
            BY <1>1, <1>2, <1>3, <2>1, <2>2, <2>3 DEF PipeOrdered
        <2>4. CASE Len(out[c]) # 1
            <3>1. out'[c][1] = out[c][2] /\ out'[c][Len(out'[c])] = out[c][Len(out[c])]
                BY <1>3, <2>4
            <3>2. out[c][2].seq = out[c][1].seq + 1
                BY <1>3, <2>1, <2>4 DEF PipeOrdered, Consecutive
            <3>3. QED BY <1>1, <1>2, <1>3, <2>1, <2>2, <2>4, <3>1, <3>2 DEF PipeOrdered
        <2>5. QED BY <2>3, <2>4
    <1>5. ASSUME c \in registered
          PROVE  PipeReaches(c)'
        <2>1. PipeReaches(c)
            BY <1>1, <1>5 DEF PipeShape
        <2>2. CASE Len(out[c]) = 1
            BY <1>1, <1>2, <1>3, <2>1, <2>2 DEF PipeReaches, Newest
        <2>3. CASE Len(out[c]) # 1
            <3>1. out'[c][Len(out'[c])] = out[c][Len(out[c])]
                BY <1>3, <2>3
            <3>2. QED BY <1>1, <1>2, <1>3, <2>1, <2>3, <3>1 DEF PipeReaches, Newest
        <2>4. QED BY <2>2, <2>3
    <1>6. QED BY <1>1, <1>2, <1>4, <1>5 DEF PipeShape

LEMMA SendLivePipe ==
    ASSUME PipeInv, NEW c \in Clients, SendLive(c)
    PROVE  PipeShape(c)'
    <1>1. TypeOK /\ PipeShape(c) /\ c \in stream /\ buf[c] # <<>> /\ out[c] = <<>>
        BY DEF PipeInv, Numbering, SendLive
    <1>2. /\ UNCHANGED <<nextSeq, stream, registered, out>>
          /\ cursor'[c] = buf[c][1].seq /\ buf'[c] = Tail(buf[c])
        BY <1>1 DEF SendLive, Receive, TypeOK, hubVars
    <1>3. /\ Len(buf[c]) \in Nat /\ Len(buf[c]) >= 1
          /\ Len(buf'[c]) = Len(buf[c]) - 1
          /\ \A i \in 1 .. Len(buf[c]) - 1 : buf'[c][i] = buf[c][i + 1]
          /\ buf'[c] = <<>> <=> Len(buf[c]) = 1
        BY <1>1, <1>2, PipeTypes, TailFacts
    <1>4. PipeOrdered(c)'
        <2>1. PipeOrdered(c)
            BY <1>1 DEF PipeShape
        <2>2. Consecutive(buf'[c])
            <3>1. ASSUME NEW i \in 1 .. Len(buf'[c]) - 1
                  PROVE  buf'[c][i + 1].seq = buf'[c][i].seq + 1
                <4>1. i + 1 \in 1 .. Len(buf[c]) - 1 /\ i \in 1 .. Len(buf[c]) - 1
                    BY <1>3
                <4>2. buf'[c][i] = buf[c][i + 1] /\ buf'[c][i + 1] = buf[c][i + 1 + 1]
                    BY <1>3, <4>1
                <4>3. QED BY <2>1, <4>1, <4>2 DEF PipeOrdered, Consecutive
            <3>2. QED BY <3>1 DEF Consecutive
        <2>3. buf'[c] # <<>> => buf'[c][1].seq = buf[c][1].seq + 1
            BY <1>3, <2>1 DEF PipeOrdered, Consecutive
        <2>4. QED BY <1>1, <1>2, <2>1, <2>2, <2>3 DEF PipeOrdered
    <1>5. ASSUME c \in registered
          PROVE  PipeReaches(c)'
        <2>1. PipeReaches(c)
            BY <1>1, <1>5 DEF PipeShape
        <2>2. buf'[c] # <<>> => buf'[c][Len(buf'[c])] = buf[c][Len(buf[c])]
            BY <1>3
        <2>3. QED BY <1>1, <1>2, <1>3, <2>1, <2>2 DEF PipeReaches, Newest
    <1>6. QED BY <1>1, <1>2, <1>4, <1>5 DEF PipeShape

LEMMA PipeStep ==
    ASSUME PipeInv, [Next]_vars
    PROVE  PipeInv'
    <1>1. Numbering' /\ TypeOK /\ \A c \in Clients : PipeShape(c)
        BY NumberingStep DEF PipeInv, Numbering
    <1>2. ASSUME NEW c \in Clients
          PROVE  PipeShape(c)'
        <2>1. CASE \E r \in Resources : ViewChange(r)
            BY <1>1, <2>1, PipeFrame DEF ViewChange, hubVars, streamVars
        <2>2. CASE \E r \in Resources : Publish(r)
            BY <2>2, PublishPipe
        <2>3. ASSUME NEW d \in Clients, NEW r \in Resources, Fetch(d, r)
              PROVE  PipeShape(c)'
            BY <1>1, <2>3, PipeFrame DEF Fetch, hubVars, streamVars
        <2>4. ASSUME NEW d \in Clients, d # c,
                     Subscribe(d) \/ SendOut(d) \/ SendLive(d) \/ HandlerReturns(d)
                     \/ Disconnect(d)
              PROVE  PipeShape(c)'
            <3>1. /\ nextSeq' = nextSeq /\ out'[c] = out[c] /\ buf'[c] = buf[c]
                  /\ cursor'[c] = cursor[c] /\ (c \in stream' => c \in stream)
                  /\ (c \in registered' => c \in registered)
                BY <1>1, <2>4 DEF Subscribe, SendOut, SendLive, HandlerReturns, Disconnect,
                                  Receive, TypeOK, hubVars, clientVars
            <3>2. QED BY <1>1, <3>1, PipeFrame
        <2>5. CASE HandlerReturns(c) \/ Disconnect(c)
            BY <1>1, <2>5 DEF HandlerReturns, Disconnect, PipeShape, hubVars
        <2>6. CASE Restart
            BY <2>6 DEF Restart, PipeShape
        <2>7. CASE UNCHANGED vars
            BY <1>1, <2>7, PipeFrame DEF vars
        <2>8. QED BY <2>1, <2>2, <2>3, <2>4, <2>5, <2>6, <2>7, SubscribePipe, SendOutPipe,
                     SendLivePipe DEF Next
    <1>3. QED BY <1>1, <1>2 DEF PipeInv

(***************************************************************************)
(* The replay and the live channel join without a gap or a repetition      *)
(* (Subscribe, Publish): what is on its way to a client continues its      *)
(* cursor one by one, also once the hub has dropped the client.            *)
(***************************************************************************)
THEOREM Joins == Spec => []PipeContinuesCursor
    <1>1. Init => PipeInv
        BY NumberingInit DEF Init, PipeInv, PipeShape
    <1>2. PipeInv /\ [Next]_vars => PipeInv'
        BY PipeStep
    <1>3. PipeInv => PipeContinuesCursor
        <2>1. SUFFICES ASSUME PipeInv, NEW c \in stream, NEW i \in 1 .. Len(Pipe(c))
                       PROVE  IF i = 1 THEN \/ cursor[c] = NoCursor
                                            \/ Pipe(c)[i].kind = "resync"
                                            \/ Pipe(c)[i].seq = cursor[c] + 1
                                       ELSE Pipe(c)[i].seq = Pipe(c)[i - 1].seq + 1
            BY DEF PipeContinuesCursor
        <2>2. TypeOK /\ c \in Clients /\ PipeOrdered(c)
            BY <2>1 DEF PipeInv, PipeShape, Numbering, TypeOK
        <2> DEFINE m == Len(out[c])
                   n == Len(buf[c])
        <2>3. /\ out[c] \in Seq(Change \cup Resync) /\ buf[c] \in Seq(Change \cup Resync)
              /\ m \in Nat /\ n \in Nat
              /\ (out[c] = <<>> <=> m = 0) /\ (buf[c] = <<>> <=> n = 0)
            <3>1. out[c] \in Seq(Change \cup Resync) /\ buf[c] \in Seq(Change)
                BY <2>2, PipeTypes
            <3>2. QED BY <3>1
        <2>4. /\ Len(Pipe(c)) = m + n
              /\ \A j \in 1 .. (m + n) :
                    Pipe(c)[j] = IF j <= m THEN out[c][j] ELSE buf[c][j - m]
            <3> DEFINE S == Change \cup Resync
                       a == out[c]
                       b == buf[c]
            <3>1. a \in Seq(S) /\ b \in Seq(S) /\ Pipe(c) = a \o b
                BY <2>3 DEF Pipe
            <3>2. m = Len(a) /\ n = Len(b)
                OBVIOUS
            <3> HIDE DEF S, a, b, m, n
            <3>3. /\ Len(Pipe(c)) = m + n
                  /\ \A j \in 1 .. (m + n) :
                        Pipe(c)[j] = IF j <= m THEN a[j] ELSE b[j - m]
                BY <3>1, <3>2, JoinFacts
            <3>4. QED BY <3>3 DEF a, b
        <2> HIDE DEF m, n
        <2>5. i \in Nat /\ i >= 1 /\ i <= m + n
            BY <2>1, <2>3, <2>4
        <2>6. CASE i = 1
            <3>1. CASE m # 0
                <4>1. Pipe(c)[1] = out[c][1]
                    BY <2>3, <2>4, <2>5, <2>6, <3>1
                <4>2. QED BY <2>2, <2>3, <2>6, <3>1, <4>1 DEF PipeOrdered
            <3>2. CASE m = 0
                <4>1. Pipe(c)[1] = buf[c][1] /\ n # 0
                    BY <2>3, <2>4, <2>5, <2>6, <3>2
                <4>2. QED BY <2>2, <2>3, <2>6, <3>2, <4>1 DEF PipeOrdered
            <3>3. QED BY <3>1, <3>2
        <2>7. CASE i # 1
            <3>1. CASE i <= m
                <4>1. Pipe(c)[i] = out[c][(i - 1) + 1] /\ Pipe(c)[i - 1] = out[c][i - 1]
                      /\ i - 1 \in 1 .. m - 1
                    BY <2>3, <2>4, <2>5, <2>7, <3>1
                <4>2. QED BY <2>2, <2>7, <4>1 DEF PipeOrdered, Consecutive, m
            <3>2. CASE i = m + 1
                <4>1. Pipe(c)[i] = buf[c][1] /\ Pipe(c)[i - 1] = out[c][m]
                      /\ m # 0 /\ n # 0
                    BY <2>3, <2>4, <2>5, <2>7, <3>2
                <4>2. QED BY <2>2, <2>3, <2>7, <4>1 DEF PipeOrdered, m
            <3>3. CASE i > m + 1
                <4>1. Pipe(c)[i] = buf[c][(i - 1 - m) + 1]
                      /\ Pipe(c)[i - 1] = buf[c][i - 1 - m] /\ i - 1 - m \in 1 .. n - 1
                    <5>1. i \in 1 .. (m + n) /\ i - 1 \in 1 .. (m + n) /\ ~(i <= m)
                          /\ ~(i - 1 <= m)
                        BY <2>3, <2>5, <2>7, <3>3
                    <5>2. Pipe(c)[i] = buf[c][i - m] /\ Pipe(c)[i - 1] = buf[c][i - 1 - m]
                        BY <2>4, <5>1
                    <5>3. (i - 1 - m) + 1 = i - m /\ i - 1 - m \in 1 .. n - 1
                        BY <2>3, <2>5, <2>7, <3>3
                    <5>4. QED BY <5>2, <5>3
                <4>2. QED BY <2>2, <2>7, <4>1 DEF PipeOrdered, Consecutive, n
            <3>4. QED BY <2>3, <2>5, <3>1, <3>2, <3>3
        <2>8. QED BY <2>6, <2>7
    <1>4. QED BY <1>1, <1>2, <1>3, PTL DEF Spec
=============================================================================
