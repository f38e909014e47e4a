------------------------------- MODULE T3Rpc --------------------------------
(***************************************************************************)
(* The RPC client of the T3 Code integration (t3code/rpc.go): one socket   *)
(* carries a subscription and any number of commands.  The caller of each  *)
(* request waits on its own channel; a read loop routes the frames of the  *)
(* socket to the requests, and fails those in flight when the socket ends. *)
(*                                                                         *)
(* T3 is outside the repository: it answers a request it got with an Exit, *)
(* and a subscription with Chunks before it.  Frames are ids and kinds;    *)
(* what an Exit says (success or a typed failure) is left to the caller.   *)
(***************************************************************************)
EXTENDS Naturals, Sequences, FiniteSets

CONSTANTS
    Commands,     \* unary requests
    Feed,         \* the subscription
    Buffer,       \* chunks a subscription buffers
    MaxChunks     \* bound: chunks T3 sends

VARIABLES
    wire,       \* frames T3 has sent and the read loop has not read
    asked,      \* T3: requests it has got and not ended
    chunksOut,  \* T3: chunks sent
    socket,     \* "up", or "down" for good
    err,        \* the client's error: the read loop has ended
    calls,      \* the requests in flight, by id: here the request itself
    reader,     \* the read loop: the frame it is delivering, if any
    chunks,     \* the subscription's buffered chunks
    exit,       \* per request: what its exit channel holds
    caller,     \* per request: where its caller is
    handled,    \* the chunks the subscription's handler has taken
    closing, done

rpcVars == <<wire, asked, chunksOut, socket, err, calls, reader, chunks, exit, caller,
             handled, closing, done>>

Requests == Commands \cup {Feed}
Frame == [kind : {"chunk", "exit"}, request : Requests, chunk : 0 .. MaxChunks]
NoFrame == [kind |-> "none", request |-> Feed, chunk |-> 0]

TypeOK ==
    /\ wire \in Seq(Frame) /\ asked \subseteq Requests /\ chunksOut \in 0 .. MaxChunks
    /\ socket \in {"up", "down"} /\ err \in BOOLEAN /\ calls \subseteq Requests
    /\ reader \in Frame \cup {NoFrame}
    /\ chunks \in Seq(1 .. MaxChunks) /\ Len(chunks) <= Buffer
    /\ exit \in [Requests -> Seq({"reply", "lost"})]
    /\ \A r \in Requests : Len(exit[r]) <= 1
    /\ caller \in [Requests -> {"idle", "sending", "waiting", "drain", "ended", "gone"}]
    /\ handled \in Seq(1 .. MaxChunks)
    /\ closing \in BOOLEAN /\ done \in BOOLEAN

Init ==
    /\ wire = <<>> /\ asked = {} /\ chunksOut = 0 /\ socket = "up"
    /\ err = FALSE /\ calls = {} /\ reader = NoFrame
    /\ chunks = <<>> /\ exit = [r \in Requests |-> <<>>]
    /\ caller = [r \in Requests |-> "idle"] /\ handled = <<>>
    /\ closing = FALSE /\ done = FALSE

t3 == <<wire, asked, chunksOut, socket>>
loop == <<err, reader, done>>
Moves(r, pc) == caller' = [caller EXCEPT ![r] = pc]

-----------------------------------------------------------------------------
(* The callers.                                                            *)

(* Fault: a request does not ask whether the read loop has ended. *)
RefusedNever == FALSE

(* request: refused at once after the read loop has ended. *)
Refused == err

(* request registers the call, under the lock the read loop ends under. *)
Request(r) ==
    /\ caller[r] = "idle"
    /\ IF Refused THEN Moves(r, "ended") /\ UNCHANGED calls
                  ELSE Moves(r, "sending") /\ calls' = calls \cup {r}
    /\ UNCHANGED <<t3, loop, chunks, exit, handled, closing>>

(* The Request frame goes out, or cannot and the call is abandoned. *)
Write(r) ==
    /\ caller[r] = "sending"
    /\ \/ /\ socket = "up" /\ asked' = asked \cup {r} /\ Moves(r, "waiting")
          /\ UNCHANGED calls
       \/ /\ socket = "down" /\ calls' = calls \ {r} /\ Moves(r, "ended")
          /\ UNCHANGED asked
    /\ UNCHANGED <<wire, chunksOut, socket, loop, chunks, exit, handled, closing>>

(* call: the exit ends it. *)
Ended(r) ==
    /\ r \in Commands /\ caller[r] = "waiting" /\ exit[r] # <<>>
    /\ exit' = [exit EXCEPT ![r] = Tail(@)] /\ Moves(r, "ended")
    /\ UNCHANGED <<t3, loop, calls, chunks, handled, closing>>

(* call, subscribe: the caller's context ends; what comes later is dropped. *)
GiveUp(r) ==
    /\ caller[r] = "waiting"
    /\ calls' = calls \ {r} /\ Moves(r, "gone")
    /\ UNCHANGED <<t3, loop, chunks, exit, handled, closing>>

(* subscribe: a chunk is handled and acknowledged; the handler may refuse  *)
(* it, and a socket that is down ends it at the acknowledgement.           *)
Handle ==
    /\ caller[Feed] = "waiting" /\ chunks # <<>>
    /\ handled' = Append(handled, Head(chunks)) /\ chunks' = Tail(chunks)
    /\ \/ socket = "up" /\ UNCHANGED <<caller, calls>>
       \/ Moves(Feed, "gone") /\ calls' = calls \ {Feed}
    /\ UNCHANGED <<t3, loop, exit, closing>>

(* subscribe: the exit; the chunks that came before it are still handled. *)
Exited ==
    /\ caller[Feed] = "waiting" /\ exit[Feed] # <<>>
    /\ exit' = [exit EXCEPT ![Feed] = Tail(@)] /\ Moves(Feed, "drain")
    /\ UNCHANGED <<t3, loop, calls, chunks, handled, closing>>

(* Fault: what is still buffered at the exit is dropped. *)
DrainNothing ==
    /\ caller[Feed] = "drain" /\ Moves(Feed, "ended")
    /\ UNCHANGED <<t3, loop, calls, chunks, exit, handled, closing>>

Drain ==
    /\ caller[Feed] = "drain"
    /\ \/ /\ chunks # <<>>
          /\ handled' = Append(handled, Head(chunks)) /\ chunks' = Tail(chunks)
          /\ \/ UNCHANGED <<caller, calls>>
             \/ Moves(Feed, "gone") /\ calls' = calls \ {Feed}
       \/ /\ chunks = <<>> /\ Moves(Feed, "ended") /\ calls' = calls \ {Feed}
          /\ UNCHANGED <<chunks, handled>>
    /\ UNCHANGED <<t3, loop, exit, closing>>

(* close, when the subscription is over: the socket goes, and the caller   *)
(* waits for the read loop.                                                *)
Close ==
    /\ caller[Feed] \in {"ended", "gone"} /\ ~closing
    /\ closing' = TRUE /\ socket' = "down"
    /\ UNCHANGED <<wire, asked, chunksOut, loop, calls, chunks, exit, caller, handled>>

-----------------------------------------------------------------------------
(* The read loop.                                                          *)

(* A frame is read.  An Exit ends its request, which leaves the table; a   *)
(* Chunk waits for room; a frame nobody waits for is dropped.              *)
Route ==
    LET frame == Head(wire)
        r == frame.request
    IN
    /\ ~err /\ reader = NoFrame /\ wire # <<>> /\ ~closing
    /\ wire' = Tail(wire)
    /\ \/ r \notin calls /\ UNCHANGED <<calls, exit, reader>>
       \/ /\ r \in calls /\ frame.kind = "exit"
          /\ calls' = calls \ {r}
          /\ exit' = [exit EXCEPT ![r] = Append(@, "reply")]
          /\ UNCHANGED reader
       \/ /\ r \in calls /\ frame.kind = "chunk"
          /\ reader' = frame /\ UNCHANGED <<calls, exit>>
    /\ UNCHANGED <<asked, chunksOut, socket, err, chunks, caller, handled, closing, done>>

(* Fault: the read loop waits for room and for nothing else. *)
DeliverPatiently ==
    /\ reader # NoFrame /\ Len(chunks) < Buffer
    /\ chunks' = Append(chunks, reader.chunk) /\ reader' = NoFrame
    /\ UNCHANGED <<t3, err, calls, exit, caller, handled, closing, done>>

(* The chunk is buffered, or the client is closing. *)
Deliver ==
    /\ reader # NoFrame
    /\ \/ /\ Len(chunks) < Buffer /\ chunks' = Append(chunks, reader.chunk)
          /\ reader' = NoFrame /\ UNCHANGED err
       \/ /\ closing /\ reader' = NoFrame /\ err' = TRUE /\ UNCHANGED chunks
    /\ UNCHANGED <<t3, calls, exit, caller, handled, closing, done>>

(* The socket ended, or a frame that cannot be understood came. *)
ReadFails ==
    /\ ~err /\ reader = NoFrame
    /\ socket = "down" \/ wire # <<>>
    /\ err' = TRUE
    /\ UNCHANGED <<t3, calls, reader, chunks, exit, caller, handled, closing, done>>

(* Every request still in the table fails, once. *)
FailCalls ==
    /\ err /\ ~done
    /\ exit' = [r \in Requests |-> IF r \in calls THEN Append(exit[r], "lost") ELSE exit[r]]
    /\ calls' = {} /\ done' = TRUE
    /\ UNCHANGED <<t3, err, reader, chunks, caller, handled, closing>>

-----------------------------------------------------------------------------
(* T3.                                                                     *)

SendChunk ==
    /\ Feed \in asked /\ socket = "up" /\ chunksOut < MaxChunks
    /\ chunksOut' = chunksOut + 1
    /\ wire' = Append(wire, [kind |-> "chunk", request |-> Feed, chunk |-> chunksOut'])
    /\ UNCHANGED <<asked, socket, loop, calls, chunks, exit, caller, handled, closing>>

SendExit(r) ==
    /\ r \in asked /\ socket = "up"
    /\ asked' = asked \ {r}
    /\ wire' = Append(wire, [kind |-> "exit", request |-> r, chunk |-> 0])
    /\ UNCHANGED <<chunksOut, socket, loop, calls, chunks, exit, caller, handled, closing>>

SocketDrops ==
    /\ socket = "up"
    /\ socket' = "down"
    /\ UNCHANGED <<wire, asked, chunksOut, loop, calls, chunks, exit, caller, handled, closing>>

ReadLoop == Route \/ Deliver \/ ReadFails \/ FailCalls
CallerStep(r) == Write(r) \/ Ended(r)
FeedStep == Handle \/ Exited \/ Drain \/ Close

Next ==
    \/ \E r \in Requests : Request(r) \/ CallerStep(r) \/ GiveUp(r)
    \/ FeedStep \/ ReadLoop
    \/ SendChunk \/ (\E r \in Requests : SendExit(r)) \/ SocketDrops

Spec == Init /\ [][Next]_rpcVars

-----------------------------------------------------------------------------
(* Properties.                                                             *)

(* The subscription's items are handled in the order T3 sent them, and     *)
(* when T3 ends the stream, none that was read before is lost (subscribe). *)
HandledInOrder ==
    /\ \A i \in 1 .. Len(handled) : handled[i] = i
    /\ caller[Feed] = "ended" => chunks = <<>>

(* Once the socket is gone nobody waits: every request ends, whether it    *)
(* was in flight, being registered or made later (read, request).          *)
Waits(r) == socket = "down" /\ caller[r] # "idle"
Over(r) == caller[r] \in {"ended", "gone"}
NobodyWaits == \A r \in Requests : Waits(r) ~> Over(r)

(* close returns: a read loop that waits for room in the buffer of a       *)
(* subscription nobody reads any more is let go (close, route).            *)
Closing == closing
Closed == done
CloseReturns == Closing ~> Closed
=============================================================================
