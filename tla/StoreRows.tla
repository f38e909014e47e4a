------------------------------ MODULE StoreRows ------------------------------
(***************************************************************************)
(* The repositories of internal/store between the domain's records and the *)
(* rows of SQLite: the services keep their records in memory and load them *)
(* from the rows when the server starts, so a record must come back as it  *)
(* was written, and in creation order.  In a row an empty string is NULL,  *)
(* a boolean an integer, a time a text of fixed width, and a turn or a     *)
(* pending turn a group of columns.                                        *)
(*                                                                         *)
(* A behaviour writes one table; the tables share the conversions of the   *)
(* columns and nothing else.  Columns converted like another one of the    *)
(* same table are left out.                                                *)
(***************************************************************************)
EXTENDS Naturals, Sequences, FiniteSets, SequencesExt

CONSTANTS
    Null,   \* SQL's NULL
    Nil     \* a nil pointer of the domain

VARIABLES
    table,   \* the table this behaviour writes
    cache,   \* id -> record, what the service holds
    rows     \* id -> row

rowVars == <<table, cache, rows>>

(* A time is a second and two digits of its fraction; texts are sequences of *)
(* character codes, compared as SQLite compares them.                       *)
Times == {<<0, 0, 0>>, <<0, 0, 5>>, <<0, 5, 0>>, <<1, 0, 0>>}
Digit(d) == 48 + d

Before(t, u) ==
    \E i \in 1..3 : t[i] < u[i] /\ \A j \in 1..(i - 1) : t[j] = u[j]

(* Fault: RFC3339Nano, which trims the zeros of the fraction. *)
FormatTimeTrimmed(t) ==
    IF t[2] = 0 /\ t[3] = 0 THEN <<Digit(t[1]), 90>>
    ELSE IF t[3] = 0 THEN <<Digit(t[1]), 46, Digit(t[2]), 90>>
    ELSE <<Digit(t[1]), 46, Digit(t[2]), Digit(t[3]), 90>>

FormatTime(t) == <<Digit(t[1]), 46, Digit(t[2]), Digit(t[3]), 90>>
ParseTime(text) == CHOOSE t \in Times : FormatTime(t) = text

Lexical(a, b) ==
    \E i \in DOMAIN b :
        /\ \A j \in 1..(i - 1) : j \in DOMAIN a /\ a[j] = b[j]
        /\ i \in DOMAIN a => a[i] < b[i]

NullString(value) == IF value = "" THEN Null ELSE value
String(column) == IF column = Null THEN "" ELSE column
NullStringPtr(value) == IF value = Nil THEN Null ELSE value
StringPtr(column) == IF column = Null THEN Nil ELSE column
NullTime(t) == IF t = Nil THEN Null ELSE FormatTime(t)
ParseNullTime(column) == IF column = Null THEN Nil ELSE ParseTime(column)
BoolInt(b) == IF b THEN 1 ELSE 0

-----------------------------------------------------------------------------
(* threads                                                                 *)

Turns == [id : {"turn"}, provider : {"", "p"}, started : {<<0, 5, 0>>},
          completed : {Nil, <<1, 0, 0>>}, response : {"", "r"}]
PendingTurns == [id : {"next"}, prior : {"", "p"}, submitted : {<<1, 0, 0>>}]
ThreadRecords == [terminal : {Nil, "t"}, title : {"", "x"}, archived : BOOLEAN,
                  archivedAt : {Nil, <<1, 0, 0>>}, created : {<<0, 0, 5>>},
                  turn : {Nil} \cup Turns, pending : {Nil} \cup PendingTurns]

TurnColumnsOf(turn) ==
    IF turn = Nil THEN [id |-> Null, provider |-> Null, started |-> Null,
                        completed |-> Null, response |-> Null]
    ELSE [id |-> NullString(turn.id), provider |-> NullString(turn.provider),
          started |-> FormatTime(turn.started), completed |-> NullTime(turn.completed),
          response |-> NullString(turn.response)]

(* Prior is stored as given, the empty one too. *)
PendingColumnsOf(pending) ==
    IF pending = Nil THEN [id |-> Null, prior |-> Null, submitted |-> Null]
    ELSE [id |-> NullString(pending.id), prior |-> pending.prior,
          submitted |-> FormatTime(pending.submitted)]

InsertThreadParams(r) ==
    [terminal |-> NullStringPtr(r.terminal), title |-> NullString(r.title),
     archived |-> BoolInt(r.archived), archivedAt |-> NullTime(r.archivedAt),
     created |-> FormatTime(r.created), turn |-> TurnColumnsOf(r.turn),
     pending |-> PendingColumnsOf(r.pending)]

(* Fault: a turn is there when the provider named it. *)
HasTurnNamed(columns) == columns.provider # Null
HasTurn(columns) == columns.id # Null

ThreadFrom(row) ==
    [terminal |-> StringPtr(row.terminal), title |-> String(row.title),
     archived |-> row.archived # 0, archivedAt |-> ParseNullTime(row.archivedAt),
     created |-> ParseTime(row.created),
     turn |-> IF ~HasTurn(row.turn) THEN Nil
              ELSE [id |-> String(row.turn.id), provider |-> String(row.turn.provider),
                    started |-> ParseTime(row.turn.started),
                    completed |-> ParseNullTime(row.turn.completed),
                    response |-> String(row.turn.response)],
     pending |-> IF row.pending.id = Null THEN Nil
                 ELSE [id |-> String(row.pending.id), prior |-> String(row.pending.prior),
                       submitted |-> ParseTime(row.pending.submitted)]]

-----------------------------------------------------------------------------
(* terminals, artifact_versions, linear_sessions                           *)

TerminalRecords == [command : {"", "x"}, created : Times, stop : {Nil, <<1, 0, 0>>},
                    exited : {Nil, <<1, 0, 0>>}, code : {Nil, 0, 1}]

InsertTerminalParams(r) ==
    [command |-> NullString(r.command), created |-> FormatTime(r.created),
     stop |-> NullTime(r.stop), exited |-> NullTime(r.exited),
     code |-> NullStringPtr(r.code)]

RecordFrom(row) ==
    [command |-> String(row.command), created |-> ParseTime(row.created),
     stop |-> ParseNullTime(row.stop), exited |-> ParseNullTime(row.exited),
     code |-> StringPtr(row.code)]

(* Links are a JSON array; a version without links has none, not null. *)
VersionRecords == [created : {<<1, 0, 0>>}, restored : 0..1, thread : {"", "h"},
                   links : {Nil, <<"a">>, <<"a", "b">>}]

InsertVersion(r) ==
    [created |-> FormatTime(r.created),
     restored |-> IF r.restored = 0 THEN Null ELSE r.restored,
     thread |-> NullString(r.thread), links |-> IF r.links = Nil THEN <<>> ELSE r.links]

VersionFrom(row) ==
    [created |-> ParseTime(row.created),
     restored |-> IF row.restored = Null THEN 0 ELSE row.restored,
     thread |-> String(row.thread), links |-> IF row.links = <<>> THEN Nil ELSE row.links]

SessionRecords == [state : {"open", "done"}, created : Times, thread : {"", "h"},
                   seen : {Nil, <<1, 0, 0>>}]

UpsertSessionParams(r) ==
    [state |-> r.state, created |-> FormatTime(r.created),
     thread |-> NullString(r.thread), seen |-> NullTime(r.seen)]

LinearSessionFrom(row) ==
    [state |-> row.state, created |-> ParseTime(row.created),
     thread |-> String(row.thread), seen |-> ParseNullTime(row.seen)]

-----------------------------------------------------------------------------
(* The List statements: ids in the order of created_at and id.             *)

InOrder(ids) ==
    SetToSortSeq(ids, LAMBDA i, j :
        \/ Lexical(rows[i].created, rows[j].created)
        \/ rows[i].created = rows[j].created /\ i < j)

ListThreads == InOrder(DOMAIN rows)
ListTerminals == InOrder(DOMAIN rows)
ListArtifactVersions == SetToSortSeq(DOMAIN rows, <)
ListOpenLinearSessions == InOrder({i \in DOMAIN rows : rows[i].state # "done"})

Tables == {"threads", "terminals", "artifact_versions", "linear_sessions"}
Ids == IF table = "threads" THEN {1} ELSE {1, 2}

Records ==
    CASE table = "threads" -> ThreadRecords
      [] table = "terminals" -> TerminalRecords
      [] table = "artifact_versions" -> VersionRecords
      [] table = "linear_sessions" -> SessionRecords

Row(r) ==
    CASE table = "threads" -> InsertThreadParams(r)
      [] table = "terminals" -> InsertTerminalParams(r)
      [] table = "artifact_versions" -> InsertVersion(r)
      [] table = "linear_sessions" -> UpsertSessionParams(r)

From(row) ==
    CASE table = "threads" -> ThreadFrom(row)
      [] table = "terminals" -> RecordFrom(row)
      [] table = "artifact_versions" -> VersionFrom(row)
      [] table = "linear_sessions" -> LinearSessionFrom(row)

List ==
    CASE table = "threads" -> ListThreads
      [] table = "terminals" -> ListTerminals
      [] table = "artifact_versions" -> ListArtifactVersions
      [] table = "linear_sessions" -> ListOpenLinearSessions

Init ==
    /\ table \in Tables
    /\ cache = <<>> /\ rows = <<>>

Put(f, id, value) == [i \in DOMAIN f \cup {id} |-> IF i = id THEN value ELSE f[i]]

Insert(id, r) ==
    /\ id \notin DOMAIN cache
    /\ cache' = Put(cache, id, r) /\ rows' = Put(rows, id, Row(r))
    /\ UNCHANGED table

(* An update writes every mutable column; created_at is not one of them, and *)
(* a published version has none.                                            *)
Update(id, r) ==
    /\ id \in DOMAIN cache /\ table # "artifact_versions"
    /\ r.created = cache[id].created
    /\ cache' = [cache EXCEPT ![id] = r]
    /\ rows' = [rows EXCEPT ![id] = [Row(r) EXCEPT !.created = rows[id].created]]
    /\ UNCHANGED table

Delete(id) ==
    /\ id \in DOMAIN cache
    /\ cache' = [i \in DOMAIN cache \ {id} |-> cache[i]]
    /\ rows' = [i \in DOMAIN rows \ {id} |-> rows[i]]
    /\ UNCHANGED table

Next ==
    \E id \in Ids :
        Delete(id) \/ \E r \in Records : Insert(id, r) \/ Update(id, r)

Spec == Init /\ [][Next]_rowVars

-----------------------------------------------------------------------------
(* Properties.                                                             *)

TypeOK ==
    /\ table \in Tables /\ DOMAIN cache \subseteq Ids
    /\ \A i \in DOMAIN cache : cache[i] \in Records

(***************************************************************************)
(* A server that starts now loads the records the last one held: an exit   *)
(* code of zero, a turn the provider has not named, an unarchived thread   *)
(* that was archived before, all come back as they were written            *)
(* (threadFrom, recordFrom, versionFrom, linearSessionFrom).               *)
(***************************************************************************)
LoadsWhatWasWritten ==
    \A k \in DOMAIN List : From(rows[List[k]]) = cache[List[k]]

(***************************************************************************)
(* Every record is listed once, the finished Linear sessions apart, and    *)
(* the texts of their creation times order them as the times do (store.go: *)
(* "lexical order equal to time order").                                   *)
(***************************************************************************)
ListedInCreationOrder ==
    /\ ToSet(List) = IF table = "linear_sessions"
                     THEN {i \in DOMAIN cache : cache[i].state # "done"} ELSE DOMAIN cache
    /\ Len(List) = Cardinality(ToSet(List))
    /\ table # "artifact_versions" =>
         \A j, k \in DOMAIN List :
            j < k => ~Before(cache[List[k]].created, cache[List[j]].created)
=============================================================================
