---------------------------- MODULE Publishing ------------------------------
(***************************************************************************)
(* Working copies publishing to the artifact service: Publish of           *)
(* internal/authoring composed with Artifacts.  A copy keeps a record (its *)
(* artifact and base version) and, from the moment a package is frozen     *)
(* until its result is known, the pending package, which a later publish   *)
(* resends as it was.  The publisher may stop waiting at any time, and the *)
(* server then still works on the request.                                 *)
(*                                                                         *)
(* A copy's publish holds the copy's file lock throughout (prepare), so a  *)
(* copy has one publisher.                                                 *)
(***************************************************************************)
EXTENDS Artifacts

CONSTANT Copies

ASSUME CopiesAssumption == "none" \notin Handlers /\ "nobody" \notin Copies

VARIABLES
    record,      \* record.json: [artifact, base]
    pending,     \* the frozen package, or NoPackage
    call,        \* the request the publisher waits for
    owner,       \* history: who made a publication
    unrecorded,  \* history: copies whose record missed a confirmed result
    dropped      \* history: the packages given up after a refusal

publishing == <<record, pending, call, owner, unrecorded, dropped>>
publishingVars == <<artifactVars, publishing>>

NoPackage == [pub |-> 0, target |-> New, base |-> 0, whole |-> TRUE]
NoCall == "none"
Nobody == "nobody"

CopiesTypeOK ==
    /\ record \in [Copies -> [artifact : ArtifactIds \cup {New}, base : 0 .. MaxVersions]]
    /\ pending \in [Copies -> [pub : 0 .. MaxPubs, target : ArtifactIds \cup {New},
                               base : 0 .. MaxVersions, whole : BOOLEAN]]
    /\ call \in [Copies -> Handlers \cup {NoCall}]
    /\ owner \in [PublicationIds -> Copies \cup {Nobody}]
    /\ unrecorded \subseteq Copies /\ dropped \subseteq PublicationIds

PublishingTypeOK == ArtifactsTypeOK /\ CopiesTypeOK

PublishingInit ==
    /\ ArtifactsInit
    /\ record = [c \in Copies |-> [artifact |-> New, base |-> 0]]
    /\ pending = [c \in Copies |-> NoPackage]
    /\ call = [c \in Copies |-> NoCall]
    /\ owner = [p \in PublicationIds |-> Nobody] /\ unrecorded = {} /\ dropped = {}

serverRest == <<rows, disk, opsLock, reader, deleted, leftover, missed, restarts>>

-----------------------------------------------------------------------------
(* Create --from: a copy of a published version's source. *)
CreateFrom(c) ==
    /\ record[c].artifact = New /\ pending[c] = NoPackage
    /\ \A p \in PublicationIds : owner[p] # c
    /\ \E v \in versions :
          record' = [record EXCEPT ![c] = [artifact |-> v.artifact, base |-> v.number]]
    /\ UNCHANGED <<artifactVars, pending, call, owner, unrecorded, dropped>>

(* The base a publish may name: the copy's, or with --base the current one. *)
Bases(c) ==
    {record[c].base} \cup
    IF record[c].artifact \in Live THEN {CurrentVersion(record[c].artifact)} ELSE {}

(* A publish with nothing pending builds the copy and freezes a package    *)
(* under a new id, against the copy's base or the one --base names.        *)
Freeze(c) ==
    /\ pending[c] = NoPackage /\ call[c] = NoCall
    /\ published < MaxPubs /\ published' = published + 1
    /\ \E base \in Bases(c) :
          pending' = [pending EXCEPT ![c] = [pub |-> published', target |-> record[c].artifact,
                                             base |-> base, whole |-> TRUE]]
    /\ owner' = [owner EXCEPT ![published'] = c]
    /\ UNCHANGED <<serverRest, handler, failures, record, call, unrecorded, dropped>>

(* The package is sent, again if need be. *)
Send(c) ==
    /\ pending[c] # NoPackage /\ pending[c].whole /\ call[c] = NoCall
    /\ \E h \in Handlers :
          /\ Receive(h, pending[c].pub, pending[c].target, pending[c].base, 0)
          /\ call' = [call EXCEPT ![c] = h]
    /\ UNCHANGED <<serverRest, published, failures, record, pending, owner, unrecorded, dropped>>

Judgements == {"not_found", "conflict", "gone", "invalid"}

(* Fault: every failure gives the package up. *)
RefusedAny(status) == status # "ok"

(* A definite refusal: the server judged the package and would again. *)
Refused(status) == status \in Judgements

Drop(h) == handler' = [handler EXCEPT ![h] = NoRequest]

Answer(c) ==
    LET h == call[c] IN
    /\ h # NoCall /\ handler[h].pc \in Statuses \ {"ok"}
    /\ pending' = IF Refused(handler[h].pc) THEN [pending EXCEPT ![c] = NoPackage] ELSE pending
    /\ dropped' = IF handler[h].pc \in Judgements THEN dropped \cup {pending[c].pub} ELSE dropped
    /\ Drop(h) /\ call' = [call EXCEPT ![c] = NoCall]
    /\ UNCHANGED <<serverRest, published, failures, record, owner, unrecorded>>

(* Fault: the package is removed first, and the record may not follow. *)
ConfirmRemoving(c) ==
    LET h == call[c] IN
    /\ h # NoCall /\ handler[h].pc = "ok"
    /\ pending' = [pending EXCEPT ![c] = NoPackage]
    /\ \/ /\ NoFailure
          /\ record' = [record EXCEPT ![c] = [artifact |-> handler[h].at.artifact,
                                              base |-> handler[h].at.number]]
       \/ Failure /\ UNCHANGED record
    /\ Drop(h) /\ call' = [call EXCEPT ![c] = NoCall]
    /\ UNCHANGED <<serverRest, published, owner, unrecorded, dropped>>

(* A confirmed result: the record is written, then the package removed,    *)
(* each of which may fail; a removal that stops half way may have taken    *)
(* the archives and left the parameters.                                   *)
Confirm(c) ==
    LET h == call[c]
        result == [artifact |-> handler[h].at.artifact, base |-> handler[h].at.number]
    IN
    /\ h # NoCall /\ handler[h].pc = "ok"
    /\ \/ /\ record' = [record EXCEPT ![c] = result] /\ UNCHANGED unrecorded
          /\ \/ pending' = [pending EXCEPT ![c] = NoPackage] /\ NoFailure
             \/ Failure /\ UNCHANGED pending
             \/ Failure /\ pending' = [pending EXCEPT ![c].whole = FALSE]
       \/ /\ Failure /\ UNCHANGED record /\ unrecorded' = unrecorded \cup {c}
          /\ pending' = [pending EXCEPT ![c] = NoPackage]
    /\ Drop(h) /\ call' = [call EXCEPT ![c] = NoCall]
    /\ UNCHANGED <<serverRest, published, owner, dropped>>

(* The publisher stops waiting: a timeout, an interrupt, a crash.  The     *)
(* request stays with the server.                                          *)
GiveUp(c) ==
    /\ call[c] # NoCall /\ Failure
    /\ call' = [call EXCEPT ![c] = NoCall]
    /\ UNCHANGED <<serverRest, handler, published, record, pending, owner, unrecorded, dropped>>

(* The server is done with a request nobody waits for. *)
UnclaimedAnswer(h) ==
    /\ handler[h].pc \in Statuses /\ \A c \in Copies : call[c] # h
    /\ Drop(h)
    /\ UNCHANGED <<serverRest, published, failures, publishing>>

(* The server restarts; the publishers' connections fail. *)
ServerRestart ==
    /\ ServiceRestart
    /\ call' = [c \in Copies |-> NoCall]
    /\ UNCHANGED <<record, pending, owner, unrecorded, dropped>>

CopyStep(c) ==
    CreateFrom(c) \/ Freeze(c) \/ Send(c) \/ Answer(c) \/ Confirm(c) \/ GiveUp(c)

PublishingNext ==
    \/ ArtifactStep /\ UNCHANGED publishing
    \/ \E c \in Copies : CopyStep(c)
    \/ \E h \in Handlers : UnclaimedAnswer(h)
    \/ ServerRestart

PublishingSpec == PublishingInit /\ [][PublishingNext]_publishingVars

-----------------------------------------------------------------------------
(* Properties.                                                             *)

(***************************************************************************)
(* However often a publish is interrupted and repeated, a copy's record    *)
(* follows what it published: its base is a version the server has, and    *)
(* every version of this copy is of the recorded artifact and not past the *)
(* base, but for a package it still holds, one answered as a refusal (see  *)
(* RefusedHasNoResult), and a failed write of the record -- so it creates  *)
(* no second artifact (freeze, resend, writeRecord, replay).               *)
(***************************************************************************)
RecordFollows ==
    \A c \in Copies : record[c].artifact \notin deleted =>
        /\ record[c].artifact # New =>
              \E v \in versions : v.artifact = record[c].artifact /\ v.number = record[c].base
        /\ \A v \in versions :
              \/ owner[v.pub] # c \/ c \in unrecorded
              \/ v.pub \in dropped \/ v.pub = pending[c].pub
              \/ record[c].artifact = v.artifact /\ v.number <= record[c].base

(***************************************************************************)
(* "A definite refusal: the package has no result to return" (Publish of   *)
(* internal/authoring): what was dropped had not been published.           *)
(***************************************************************************)
RefusedHasNoResult == \A v \in versions : v.pub \notin dropped

(***************************************************************************)
(* Publications hold: rows and content agree through restarts of the       *)
(* server (not power losses) and failed syncs, every version follows the   *)
(* one it was based on though others publish between check and commit, a   *)
(* resolved link is served, and a copy whose publish was interrupted and   *)
(* repeated records what it published (Publish, Delete, Document; freeze,  *)
(* resend, writeRecord).                                                   *)
(***************************************************************************)
PublicationsHold ==
    /\ PublishingTypeOK
    /\ ContentBehindRows
    /\ BasesChain
    /\ OrphansExplained
    /\ ReaderFinds
    /\ RecordFollows
=============================================================================
