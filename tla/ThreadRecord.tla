---------------------------- MODULE ThreadRecord ----------------------------
(***************************************************************************)
(* The thread record and the policy that folds evidence into it: the       *)
(* latest-turn model, the binding of a pending submission and the coercion *)
(* of what only a live observation can back (internal/threads/turns.go).   *)
(* Pure operators; the state machine that uses them is Threads.            *)
(*                                                                         *)
(* Abstracted: timestamps (a turn only keeps whether it has a completion   *)
(* time), titles and the other descriptive metadata, and texts (a status   *)
(* detail is present or not, a response is a model value).                 *)
(***************************************************************************)
EXTENDS Naturals

CONSTANTS
    Keys,            \* (integration, provider conversation id)
    Terminals,       \* terminal ids
    ProviderTurns,   \* the providers' own turn ids
    Responses,       \* final assistant messages
    None             \* the absent value: no terminal, no turn, no text, ...


LiveStatus == {"working", "waiting_for_input", "waiting_for_permission"}
Status == LiveStatus \cup {"idle", "error", "unknown"}
EndedState == {"completed", "failed", "interrupted"}
TurnState == EndedState \cup {"running", "unknown"}

(* The latest turn; its id is ATC's own, its provider id the provider's. *)
Turn == [id : Nat, provider : ProviderTurns \cup {None}, state : TurnState,
         completed : BOOLEAN, response : Responses \cup {None}]

(* A submission the provider has not started, and the turn held before it. *)
Pending == [id : Nat, prior : ProviderTurns \cup {None}]

Record == [key : Keys, terminal : Terminals \cup {None},
           status : Status, detail : BOOLEAN,
           turn : Turn \cup {None}, pending : Pending \cup {None},
           archived : BOOLEAN]

(***************************************************************************)
(* What an Integration reports: a status (None claims nothing), whether a  *)
(* fault text comes with it, and the most recent turn (None says nothing). *)
(***************************************************************************)
TurnReport == [provider : ProviderTurns \cup {None}, state : TurnState,
               response : Responses \cup {None}]
Report == [status : Status \cup {None}, detail : BOOLEAN,
           turn : TurnReport \cup {None}]

(* The absent value is none of the values it stands in for. *)
ASSUME NoneAssumption ==
    /\ None \notin Keys \cup Terminals \cup ProviderTurns \cup Responses
    /\ None \notin Status \cup Turn \cup Pending \cup Record \cup TurnReport

IsLive(status) == status \in LiveStatus
Ended(state) == state \in EndedState

(* Fault: the status is left unset. *)
NewRecordUnset(k, t) ==
    [key |-> k, terminal |-> t, status |-> None, detail |-> FALSE,
     turn |-> None, pending |-> None, archived |-> FALSE]

NewRecord(k, t) ==
    [key |-> k, terminal |-> t, status |-> "unknown", detail |-> FALSE,
     turn |-> None, pending |-> None, archived |-> FALSE]

-----------------------------------------------------------------------------
(* Turns.                                                                  *)

(* Only an ended turn has a completion time and a response. *)
UpdateTurn(turn, report) ==
    [turn EXCEPT !.state = report.state,
                 !.completed = Ended(report.state),
                 !.response = IF Ended(report.state) THEN report.response
                                                     ELSE None]

(* An ended turn is final; only its response can still arrive. *)
AdoptResponse(turn, state, response) ==
    IF ~Ended(state) \/ response = None THEN turn
    ELSE [turn EXCEPT !.response = response]

(* A turn minted for a report, under the given ATC id. *)
MintTurn(id, report) ==
    UpdateTurn([id |-> id, provider |-> report.provider, state |-> "unknown",
                completed |-> FALSE, response |-> None], report)

(* The report is about the record's latest turn. *)
SameTurn(turn, report) ==
    \/ report.provider # None /\ report.provider = turn.provider
    \/ /\ report.provider = None /\ turn.provider = None
       /\ turn.state = "running" /\ report.state # "running"

(* The report is the first of a turn the submission can have started. *)
Binds(record, report) ==
    /\ record.pending # None
    /\ report.provider # None
    /\ report.provider # record.pending.prior

(* Fault: an ended turn is updated like a running one. *)
ApplyTurnNotFinal(record, report, fresh) ==
    IF Binds(record, report)
    THEN [record EXCEPT !.turn = MintTurn(record.pending.id, report),
                        !.pending = None]
    ELSE IF record.turn # None /\ SameTurn(record.turn, report)
    THEN [record EXCEPT !.turn = UpdateTurn(@, report)]
    ELSE [record EXCEPT !.turn = MintTurn(fresh, report)]

ApplyTurn(record, report, fresh) ==
    IF Binds(record, report)
    THEN [record EXCEPT !.turn = MintTurn(record.pending.id, report),
                        !.pending = None]
    ELSE IF record.turn # None /\ SameTurn(record.turn, report)
    THEN [record EXCEPT !.turn =
            IF Ended(@.state) THEN AdoptResponse(@, report.state, report.response)
                              ELSE UpdateTurn(@, report)]
    ELSE [record EXCEPT !.turn = MintTurn(fresh, report)]

(* Fault: a fault of the session leaves the running turn alone. *)
SettleRunningUnfaulted(record, report) ==
    IF record.turn = None \/ record.turn.state # "running" THEN record
    ELSE IF /\ record.status \in {"idle", "unknown"}
            /\ report = None \/ report.state # "running"
    THEN [record EXCEPT !.turn.state = "unknown", !.turn.completed = FALSE]
    ELSE record

(* A faulted session fails the running turn; rest ends it unobserved. *)
SettleRunning(record, report) ==
    IF record.turn = None \/ record.turn.state # "running" THEN record
    ELSE IF record.status = "error"
    THEN [record EXCEPT !.turn.state = "failed", !.turn.completed = TRUE]
    ELSE IF /\ record.status \in {"idle", "unknown"}
            /\ report = None \/ report.state # "running"
    THEN [record EXCEPT !.turn.state = "unknown", !.turn.completed = FALSE]
    ELSE record

(* A faulted session cannot start the submission either: it fails. *)
SettlePending(record) ==
    IF record.pending = None \/ record.status # "error" THEN record
    ELSE [record EXCEPT
            !.turn = [id |-> record.pending.id, provider |-> None,
                      state |-> "failed", completed |-> TRUE, response |-> None],
            !.pending = None]

SettleTurn(record, report) == SettlePending(SettleRunning(record, report))

(* Fault: delayed evidence revives a thread nothing holds. *)
ClaimStatusAlways(record, report, active) ==
    IF report.status = None THEN record
    ELSE [record EXCEPT !.status = report.status,
                        !.detail = report.detail /\ report.status = "error"]

(* The status claim: a live one is accepted only for a thread that is held, *)
(* and a detail rides an error and nothing else.                            *)
ClaimStatus(record, report, active) ==
    IF report.status = None \/ (IsLive(report.status) /\ ~active) THEN record
    ELSE [record EXCEPT !.status = report.status,
                        !.detail = report.detail /\ report.status = "error"]

ClaimTurn(record, report, active, fresh) ==
    IF report = None \/ (report.state = "running" /\ ~active) THEN record
    ELSE ApplyTurn(record, report, fresh)

ApplyStatus(record, report, active, fresh) ==
    SettleTurn(ClaimTurn(ClaimStatus(record, report, active),
                         report.turn, active, fresh),
               report.turn)

(* The next turn id, once ApplyStatus may have used fresh. *)
NextTurnId(record, fresh) ==
    IF record.turn # None /\ record.turn.id = fresh THEN fresh + 1 ELSE fresh

-----------------------------------------------------------------------------
(* Claims only a live observation can back go back to unknown. *)
CoerceRecord(record) ==
    LET settled == IF IsLive(record.status)
                   THEN [record EXCEPT !.status = "unknown"] ELSE record
    IN  IF settled.turn # None /\ settled.turn.state = "running"
        THEN [settled EXCEPT !.turn.state = "unknown", !.turn.completed = FALSE]
        ELSE settled

(* The record claims something only a live observation can back. *)
ClaimsLive(record) ==
    \/ IsLive(record.status)
    \/ record.turn # None /\ record.turn.state = "running"

(* What holds of every record the policy produces. *)
RecordCoherent(record) ==
    /\ record.detail => record.status = "error"
    /\ record.turn # None =>
          /\ record.turn.completed <=> Ended(record.turn.state)
          /\ record.turn.response # None => Ended(record.turn.state)
          /\ record.status = "error" => record.turn.state # "running"
    /\ record.status = "error" => record.pending = None
=============================================================================
