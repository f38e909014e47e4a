------------------------------- MODULE Picker -------------------------------
(***************************************************************************)
(* The terminal picker (internal/tui/tui.go): a Bubble Tea model whose     *)
(* handlers take the model and a message and return the next model with    *)
(* the commands to run.  Commands run in goroutines of their own, so their *)
(* answers arrive in any order and any time later; attaching hands the     *)
(* terminal to a child, and the event loop stands still until it ends.     *)
(*                                                                         *)
(* `picker' is the Go model, `flight' the commands not finished and the    *)
(* messages not delivered, `server' what the API would answer.  Ids grow   *)
(* with creation time.  Drawing, wording and the filter text are left out. *)
(***************************************************************************)
EXTENDS Naturals, Sequences, FiniteSets, SequencesExt

CONSTANTS
    Dirs,        \* the directories the server lists
    MaxKeys,     \* bound on key presses
    MaxIds,      \* bound on the Spaces and Terminals ever created
    MaxFaults,   \* bound on failing requests and attachments,
                 \* and on changes by other clients
    None

VARIABLES picker, flight, attached, server, keys, faults

pickerVars == <<picker, flight, attached, server, keys, faults>>

Ids == 1..MaxIds

DefaultSpace == 1

Statuses == {"running", "exited"}

Rows == [id : Ids, space : Ids, status : Statuses]

Ended == {"detached", "lost", "failed"}

Blank == [screen |-> "spaces", loading |-> FALSE, seq |-> 0, help |-> FALSE,
          confirm |-> None, spaces |-> <<>>, selectedSpace |-> None,
          space |-> None, terminals |-> <<>>, selectedTerminal |-> None,
          dir |-> None, dirInput |-> "empty", reconnect |-> None,
          generation |-> 0, escapes |-> 0]

Init ==
    /\ picker = [Blank EXCEPT !.loading = TRUE, !.seq = 1]
    /\ flight = {[kind |-> "spaces", stamp |-> 1, arg |-> <<"spaces", None>>,
                  epoch |-> 0, answer |-> None]}
    /\ attached = None
    /\ server = [spaces |-> {DefaultSpace}, last |-> DefaultSpace + 1,
                 rows |-> {[id |-> DefaultSpace + 1, space |-> DefaultSpace,
                            status |-> "running"]}]
    /\ keys = 0
    /\ faults = 0

-----------------------------------------------------------------------------
(* Handlers return the next model and the commands to start.               *)

Then(m, cmds) == [m |-> m, cmds |-> cmds]

Command(m, kind, stamp, arg) ==
    [kind |-> kind, stamp |-> stamp, arg |-> <<kind, arg>>, epoch |-> m.escapes,
     answer |-> None]

\* What a command is about, and what came of it; tagged with their kind.
Arg(c) == c.arg[2]
Good(c, value) == <<"good", c.arg[1], value>>
Bad(why) == <<"bad", why>>
Ok(c) == c.answer[1] = "good"
Value(c) == c.answer[3]

Request(m, kind, arg) ==
    Then([m EXCEPT !.seq = @ + 1, !.loading = TRUE],
         {Command(m, kind, m.seq + 1, arg)})

LoadSpaces(m) == Request(m, "spaces", None)

LoadTerminals(m) == Request(m, "terminals", m.space)

IdsOf(list) == [i \in DOMAIN list |-> list[i].id]

Lists(list, id) == \E i \in DOMAIN list : list[i] = id

\* Where `selected' is in `list'; the first row when it is not there.
Place(list, selected) ==
    IF Lists(list, selected)
    THEN CHOOSE i \in DOMAIN list : list[i] = selected ELSE 1

Least(a, b) == IF a < b THEN a ELSE b

KeepSelection(old, new, selected) ==
    IF new = <<>> THEN None
    ELSE IF Lists(new, selected) THEN selected
    ELSE new[Least(Place(old, selected), Len(new))]

MoveSelection(list, selected, down) ==
    IF list = <<>> THEN None
    ELSE LET i == Place(list, selected) IN
         list[IF down THEN Least(i + 1, Len(list)) ELSE IF i = 1 THEN 1 ELSE i - 1]

\* The Default Space first, then the newest.
SpaceOrder(ids) ==
    SetToSortSeq(ids, LAMBDA a, b : \/ a = DefaultSpace /\ b # DefaultSpace
                                    \/ b # DefaultSpace /\ a > b)

SetSpaces(m, ids) ==
    LET list == SpaceOrder(ids) IN
    [m EXCEPT !.spaces = list,
              !.selectedSpace = KeepSelection(m.spaces, list, @)]

\* Oldest first, so that row N is terminal N.
SetTerminals(m, rows) ==
    LET list == SetToSortSeq(rows, LAMBDA a, b : a.id < b.id) IN
    [m EXCEPT !.terminals = list,
              !.selectedTerminal = KeepSelection(IdsOf(m.terminals), IdsOf(list), @)]

EnterSpace(m, s) ==
    [m EXCEPT !.space = s, !.screen = "terminals", !.terminals = <<>>,
              !.selectedTerminal = None]

ShowSpaces(m) == LoadSpaces([m EXCEPT !.screen = "spaces"])

\* Only a running terminal is attached; `refused' is m.attach failing.
\* `epoch' is the count of Escapes when what led here was asked for.
StartAttach(m, row, epoch, refused) ==
    LET chosen == [m EXCEPT !.selectedTerminal = row.id] IN
    IF row.status # "running" \/ refused THEN LoadTerminals(chosen)
    ELSE Then([chosen EXCEPT !.seq = @ + 1],
              {[kind |-> "exec", stamp |-> 0, arg |-> <<"exec", row>>, epoch |-> epoch,
                answer |-> None]})

-----------------------------------------------------------------------------
(* Keys.                                                                   *)

Press(next) ==
    /\ keys < MaxKeys
    /\ attached = None
    /\ next # Then(picker, {})
    /\ keys' = keys + 1
    /\ picker' = next.m
    /\ flight' = flight \cup next.cmds
    /\ UNCHANGED <<attached, server>>

\* No overlay takes the key first.
Hears == ~picker.help /\ picker.confirm = None /\ picker.reconnect = None

ToggleHelp ==
    /\ picker.help \/ Hears
    /\ Press(Then([picker EXCEPT !.help = ~@], {}))
    /\ UNCHANGED faults

ConfirmYes ==
    /\ ~picker.help /\ picker.confirm # None /\ ~picker.loading
    /\ Press(Request([picker EXCEPT !.confirm = None],
                     "delete", picker.confirm))
    /\ UNCHANGED faults

ConfirmNo ==
    /\ ~picker.help /\ picker.confirm # None
    /\ Press(Then([picker EXCEPT !.confirm = None], {}))
    /\ UNCHANGED faults

CancelReconnect ==
    /\ ~picker.help /\ picker.confirm = None /\ picker.reconnect # None
    /\ Press(LoadTerminals([picker EXCEPT !.reconnect = None,
                                          !.generation = @ + 1,
                                          !.escapes = @ + 1]))
    /\ UNCHANGED faults

\* j, k, r, enter, n and d on the list of Spaces.
SpacesKey ==
    /\ Hears /\ picker.screen = "spaces"
    /\ \/ \E down \in BOOLEAN :
            Press(Then([picker EXCEPT !.selectedSpace =
                            MoveSelection(picker.spaces, @, down)], {}))
       \/ Press(LoadSpaces(picker))
       \/ /\ Lists(picker.spaces, picker.selectedSpace)
          /\ Press(LoadTerminals(EnterSpace(picker, picker.selectedSpace)))
       \/ Press(Request([picker EXCEPT !.screen = "directories", !.dir = None,
                                       !.dirInput = "empty"], "directory", None))
       \/ /\ Lists(picker.spaces, picker.selectedSpace) /\ ~picker.loading
          /\ picker.selectedSpace # DefaultSpace
          /\ Press(Then([picker EXCEPT !.confirm =
                            [kind |-> "space", id |-> picker.selectedSpace]], {}))
    /\ UNCHANGED faults

\* enter, or the number of a row: the row as the current list holds it.
AttachKey ==
    /\ Hears /\ picker.screen = "terminals" /\ ~picker.loading
    /\ \E i \in DOMAIN picker.terminals, refused \in BOOLEAN :
         /\ refused => faults < MaxFaults
         /\ faults' = IF refused THEN faults + 1 ELSE faults
         /\ Press(StartAttach(picker, picker.terminals[i], picker.escapes, refused))

\* j, k, r, esc, n and d on the list of Terminals.
TerminalsKey ==
    /\ Hears /\ picker.screen = "terminals"
    /\ \/ \E down \in BOOLEAN :
            Press(Then([picker EXCEPT !.selectedTerminal =
                            MoveSelection(IdsOf(picker.terminals), @, down)], {}))
       \/ Press(LoadTerminals(picker))
       \/ Press(ShowSpaces([picker EXCEPT !.escapes = @ + 1]))
       \/ ~picker.loading /\ Press(Request(picker, "create", picker.space))
       \/ /\ Lists(IdsOf(picker.terminals), picker.selectedTerminal)
          /\ ~picker.loading
          /\ Press(Then([picker EXCEPT !.confirm =
                     [kind |-> "terminal", id |-> picker.selectedTerminal]], {}))
    /\ UNCHANGED faults

\* The directory picker: typing or pasting, esc, enter on an entry or a
\* typed path, backspace to the parent, ctrl+r, and '.' to create here.
DirectoryKey ==
    /\ Hears /\ picker.screen = "directories"
    /\ \/ /\ picker.dirInput = "empty"
          /\ \E text \in {"filter", "absolute"} :
               Press(Then([picker EXCEPT !.dirInput = text], {}))
       \/ /\ picker.dirInput # "empty"
          /\ Press(Then([picker EXCEPT !.dirInput = "empty"], {}))
       \/ /\ picker.dirInput = "empty"
          /\ Press(ShowSpaces([picker EXCEPT !.escapes = @ + 1]))
       \/ \E d \in Dirs \cup {None} :
            /\ (d = None) <=> (picker.dir = None /\ picker.dirInput # "absolute")
            /\ Press(Request(picker, "directory", d))
       \/ /\ picker.dirInput # "absolute" /\ picker.dir # None /\ ~picker.loading
          /\ Press(Request(picker, "createSpace", None))
    /\ UNCHANGED faults

Keys ==
    \/ ToggleHelp \/ ConfirmYes \/ ConfirmNo \/ CancelReconnect
    \/ SpacesKey \/ AttachKey \/ TerminalsKey \/ DirectoryKey

-----------------------------------------------------------------------------
(* The API answering a request.  A fault loses the answer, and what the    *)
(* request did may have happened.                                          *)

Fresh == server.last + 1

Create(s, srv, id, status) ==
    [srv EXCEPT !.rows = @ \cup {[id |-> id, space |-> s, status |-> status]},
                !.last = id]

Deleted(srv, what) ==
    IF what.kind = "terminal"
    THEN [srv EXCEPT !.rows = {r \in @ : r.id # what.id}]
    ELSE [srv EXCEPT !.spaces = @ \ {what.id},
                     !.rows = {r \in @ : r.space # what.id}]

\* What the server may become and answer, when the network holds.
Outcomes(c) ==
    CASE c.kind = "spaces" -> {<<server, Good(c, server.spaces)>>}
      [] c.kind = "directory" -> {<<server, Good(c, d)>> : d \in IF Arg(c) = None THEN Dirs ELSE {Arg(c)}}
      [] c.kind = "terminals" ->
           {<<server, IF Arg(c) \in server.spaces
                      THEN Good(c, {r \in server.rows : r.space = Arg(c)})
                      ELSE Bad("gone")>>}
      [] c.kind \in {"create", "createFirst"} ->
           IF Arg(c) \notin server.spaces THEN {<<server, Bad("gone")>>}
           ELSE {<<Create(Arg(c), server, Fresh, st),
                   Good(c, [id |-> Fresh, space |-> Arg(c), status |-> st])>> :
                     st \in Statuses}
      [] c.kind = "createSpace" ->
           {<<[server EXCEPT !.spaces = @ \cup {Fresh}, !.last = Fresh],
              Good(c, Fresh)>>}
      [] c.kind = "delete" ->
           IF \/ Arg(c).kind = "space" /\ Arg(c).id \in server.spaces
              \/ \E r \in server.rows : Arg(c).kind = "terminal" /\ r.id = Arg(c).id
           THEN {<<Deleted(server, Arg(c)), Good(c, None)>>}
           ELSE {<<server, Bad("gone")>>}
      [] c.kind = "poll" ->
           LET found == {r \in server.rows : r.id = Arg(c)} IN
           IF found = {} THEN {<<server, Bad("gone")>>}
           ELSE {<<server, Good(c, r)>> : r \in found}

Calls == {"spaces", "terminals", "directory", "create", "createSpace",
          "createFirst", "delete", "poll"}

\* createSpace goes on to create the Space's first Terminal.
Answered(c, a) ==
    IF c.kind = "createSpace" /\ a[1] = "good"
    THEN [c EXCEPT !.kind = "createFirst", !.arg[2] = a[3]]
    ELSE [c EXCEPT !.answer = a]

Serve(c) ==
    /\ c.kind \in Calls /\ c.answer = None
    /\ \E out \in Outcomes(c) :
         /\ out[1].last <= MaxIds
         /\ server' = out[1]
         /\ flight' = (flight \ {c}) \cup {Answered(c, out[2])}
    /\ UNCHANGED <<picker, attached, keys, faults>>

ServeFails(c) ==
    /\ c.kind \in Calls /\ c.answer = None
    /\ faults < MaxFaults
    /\ \E out \in {<<server, None>>} \cup Outcomes(c) :
         out[1].last <= MaxIds /\ server' = out[1]
    /\ flight' = (flight \ {c}) \cup {[c EXCEPT !.answer = Bad("down")]}
    /\ faults' = faults + 1
    /\ UNCHANGED <<picker, attached, keys>>

\* Another client, or a program ending.
Elsewhere ==
    /\ \/ \E r \in server.rows :
            \/ server' = [server EXCEPT !.rows = @ \ {r}]
            \/ /\ r.status = "running"
               /\ server' = [server EXCEPT !.rows = (@ \ {r}) \cup
                                                    {[r EXCEPT !.status = "exited"]}]
       \/ /\ Fresh <= MaxIds
          /\ \E s \in server.spaces : server' = Create(s, server, Fresh, "running")
    /\ faults < MaxFaults /\ faults' = faults + 1
    /\ UNCHANGED <<picker, flight, attached, keys>>

-----------------------------------------------------------------------------
(* Messages.                                                               *)

\* A check of the stamps that is left out.
CurrentAny(m, c) == TRUE

\* Whether an answer is to what the picker asked last.
Current(m, c) == c.stamp = m.seq

CurrentList(m, c) == Current(m, c) /\ Arg(c) = m.space

Settled(m) == [m EXCEPT !.loading = FALSE]

SpacesLoaded(m, c) ==
    Then(IF Ok(c) THEN SetSpaces(Settled(m), Value(c))
         ELSE Settled(m), {})

TerminalsLoaded(m, c) ==
    Then(IF Ok(c) THEN SetTerminals(Settled(m), Value(c))
         ELSE Settled(m), {})

DirectoriesLoaded(m, c) ==
    Then(IF Ok(c)
         THEN [Settled(m) EXCEPT !.dir = Value(c), !.dirInput = "empty"]
         ELSE Settled(m), {})

\* A Space without its first Terminal is entered all the same.  A create on
\* the Terminal screen is already in its Space.
InItsSpace(m, c) ==
    IF c.kind = "createFirst"
    THEN EnterSpace([m EXCEPT !.selectedSpace = Arg(c)], Arg(c)) ELSE m

\* A refused delete that leaves the loading mark up.
DeletedMsgLoading(m, c) ==
    IF ~Ok(c) THEN Then(m, {})
    ELSE IF Arg(c).kind = "terminal" THEN LoadTerminals(m)
    ELSE IF m.screen = "spaces" \/ m.space = Arg(c).id THEN ShowSpaces(m)
    ELSE LoadSpaces(m)

Created(m, c, refused) ==
    LET there == InItsSpace(Settled(m), c) IN
    IF Ok(c)
    THEN StartAttach([there EXCEPT !.terminals = Append(@, Value(c))],
                     Value(c), c.epoch, refused)
    ELSE IF c.kind = "createSpace" THEN Then(there, {})
    ELSE LoadTerminals(there)

DeletedMsg(m, c) ==
    IF ~Ok(c) THEN Then(Settled(m), {})
    ELSE IF Arg(c).kind = "terminal" THEN LoadTerminals(m)
    ELSE IF m.screen = "spaces" \/ m.space = Arg(c).id THEN ShowSpaces(m)
    ELSE LoadSpaces(m)

\* Exit zero is a detach; transport loss starts the same-terminal retry.
AttachEnded(m, row, how) ==
    LET back == [m EXCEPT !.screen = "terminals", !.selectedTerminal = row.id]
        again == LoadTerminals(back)
        g == m.generation + 1 IN
    IF how = "lost"
    THEN Then([back EXCEPT !.generation = g,
                           !.reconnect = [terminal |-> row.id, generation |-> g]],
              {Command(m, "tick", g, row.id)})
    ELSE Then(Settled(again.m), again.cmds)

\* Whether a tick or a poll belongs to the retry under way.
CurrentRetry(m, c) == m.reconnect # None /\ c.stamp = m.reconnect.generation

\* A transient failure that is not tried again.
ReconnectPolledOnce(m, c, refused) ==
    LET done == [m EXCEPT !.reconnect = None] IN
    IF Ok(c)
    THEN IF Value(c).status # "running" THEN LoadTerminals(done)
         ELSE StartAttach(done, Value(c), c.epoch, refused)
    ELSE IF c.answer = Bad("gone") THEN LoadTerminals(done)
    ELSE Then(m, {})

ReconnectTick(m, c) == Then(m, {[c EXCEPT !.kind = "poll"]})

ReconnectPolled(m, c, refused) ==
    LET done == [m EXCEPT !.reconnect = None] IN
    IF Ok(c)
    THEN IF Value(c).status # "running" THEN LoadTerminals(done)
         ELSE StartAttach(done, Value(c), c.epoch, refused)
    ELSE IF c.answer = Bad("gone") THEN LoadTerminals(done)
    ELSE Then(m, {[c EXCEPT !.kind = "tick", !.answer = None]})

\* Update: what the picker makes of a message.
Update(m, c, refused) ==
    CASE c.kind = "ended" -> AttachEnded(m, Arg(c), c.answer[2])
      [] c.kind = "tick" ->
           IF CurrentRetry(m, c) THEN ReconnectTick(m, c) ELSE Then(m, {})
      [] c.kind = "poll" ->
           IF CurrentRetry(m, c) THEN ReconnectPolled(m, c, refused) ELSE Then(m, {})
      [] c.kind = "terminals" ->
           IF CurrentList(m, c) THEN TerminalsLoaded(m, c) ELSE Then(m, {})
      [] c.kind \in {"spaces", "directory", "create", "createSpace",
                     "createFirst", "delete"} ->
           IF ~Current(m, c) THEN Then(m, {})
           ELSE CASE c.kind = "spaces" -> SpacesLoaded(m, c)
                  [] c.kind = "directory" -> DirectoriesLoaded(m, c)
                  [] c.kind = "delete" -> DeletedMsg(m, c)
                  [] c.kind \in {"create", "createSpace", "createFirst"} ->
                       Created(m, c, refused)

Deliver(c) ==
    /\ attached = None
    /\ c.kind # "exec" /\ (c.answer # None \/ c.kind = "tick")
    /\ \E refused \in BOOLEAN :
         LET next == Update(picker, c, refused) IN
         /\ refused => faults < MaxFaults /\ next # Update(picker, c, FALSE)
         /\ faults' = IF refused THEN faults + 1 ELSE faults
         /\ picker' = next.m
         /\ flight' = (flight \ {c}) \cup next.cmds
    /\ UNCHANGED <<attached, server, keys>>

\* The loop hands the terminal over, and gets it back.
Exec(c) ==
    /\ attached = None /\ c.kind = "exec"
    /\ attached' = Arg(c)
    /\ flight' = flight \ {c}
    /\ UNCHANGED <<picker, server, keys, faults>>

Return(how) ==
    /\ attached # None
    /\ how # "detached" => faults < MaxFaults
    /\ faults' = IF how # "detached" THEN faults + 1 ELSE faults
    /\ attached' = None
    /\ flight' = flight \cup {[kind |-> "ended", stamp |-> 0, arg |-> <<"exec", attached>>,
                                epoch |-> picker.escapes, answer |-> <<"ended", how>>]}
    /\ UNCHANGED <<picker, server, keys>>

Next ==
    \/ Keys
    \/ \E c \in flight : Serve(c) \/ ServeFails(c) \/ Deliver(c) \/ Exec(c)
    \/ \E how \in Ended : Return(how)
    \/ Elsewhere

Spec == Init /\ [][Next]_pickerVars

-----------------------------------------------------------------------------

TypeOK ==
    /\ picker.screen \in {"spaces", "terminals", "directories"}
    /\ picker.loading \in BOOLEAN /\ picker.help \in BOOLEAN
    /\ picker.seq \in Nat /\ picker.generation \in Nat /\ picker.escapes \in Nat
    /\ picker.confirm \in {None} \cup [kind : {"space", "terminal"}, id : Ids]
    /\ picker.spaces \in Seq(Ids) /\ picker.terminals \in Seq(Rows)
    /\ picker.selectedSpace \in Ids \cup {None}
    /\ picker.selectedTerminal \in Ids \cup {None}
    /\ picker.space \in Ids \cup {None}
    /\ picker.dir \in Dirs \cup {None}
    /\ picker.dirInput \in {"empty", "filter", "absolute"}
    /\ picker.reconnect \in {None} \cup [terminal : Ids, generation : Nat]
    /\ attached \in Rows \cup {None}
    /\ server.spaces \subseteq Ids /\ server.rows \subseteq Rows /\ server.last \in Ids
    /\ keys \in 0..MaxKeys /\ faults \in 0..MaxFaults

\* The Terminals shown are those of the Space the picker is in, each once
\* and in the order of creation, so that row N is terminal N: an answer to a
\* superseded load never lands on another Space's screen, and a created
\* Terminal is appended only to the list it was created from (setTerminals,
\* terminalCreatedMsg and the seq stamps).
RowsAreTheSpaces ==
    /\ \A i \in DOMAIN picker.terminals :
         picker.terminals[i].space = picker.space
    /\ \A i, j \in DOMAIN picker.terminals :
         i < j => picker.terminals[i].id < picker.terminals[j].id

\* The loading mark, which blocks attaching, creating and deleting, always
\* has something on the way that will take it down: an answer with the
\* current stamp, an attachment whose end resets it, or a retry.
LoadingAnswered ==
    picker.loading =>
        \/ picker.reconnect # None \/ attached # None
        \/ \E c \in flight : c.kind \in {"exec", "ended"}
        \/ \E c \in flight : c.kind \in Calls \ {"poll"} /\ c.stamp = picker.seq

\* While the modal retry is up exactly one tick or poll of its generation is
\* on the way: the screen is never left waiting for a timer nobody set, and
\* no second chain of polls runs beside the first.
RetryAlive ==
    picker.reconnect # None =>
        Cardinality({c \in flight : /\ c.kind \in {"tick", "poll"}
                                    /\ c.stamp = picker.reconnect.generation}) = 1

\* The terminal is never handed over for something the user has escaped
\* from: an attachment starts only from a key, a create or a retry asked for
\* after the last Esc (the seq check on a late create, the generation check
\* on a late poll).
AttachWanted ==
    \A c \in flight' \ flight : c.kind = "exec" => c.epoch = picker'.escapes
=============================================================================
