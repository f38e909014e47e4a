--------------------------- MODULE ThreadsProofs ---------------------------
(***************************************************************************)
(* Proofs about Threads: the safety properties its runs check on small     *)
(* instances, for every set of threads, terminals, conversations and       *)
(* concurrent opens, and any number of failures and restarts.              *)
(***************************************************************************)
EXTENDS Threads, TLAPS

-----------------------------------------------------------------------------
(* The inductive invariant, in parts.                                      *)

(* A record with no submission pending, coherent, under a turn id below n. *)
RecordSound(r, n) ==
    /\ r.pending = None
    /\ RecordCoherent(r)
    /\ r.turn # None => r.turn.id < n

(* The foreign key holds of every row. *)
RowsSound ==
    \A id \in ThreadIds : rows[id] # None =>
        Storable(rows[id]) /\ RecordSound(rows[id], nextTurn)

(* Only a terminal that exists is active or looked at by the sweep, and *)
(* the sweep's reading that a terminal is gone stays true.              *)
TerminalsSound ==
    /\ \A t \in Terminals : active[t] # None => terms[t] # "unborn"
    /\ \A t \in sweep : terms[t] # "unborn"
    /\ verdict.gone => verdict.terminal # None /\ terms[verdict.terminal] = "deleted"

(* An open that owns a resume has marked its thread, alone. *)
Resuming == {"launching", "linking", "discarding", "converging", "finishing"}
OpensSound ==
    /\ \A o \in Openers : open[o].pc # "idle" => open[o].thread # None
    /\ \A o \in Openers : open[o].pc \in Resuming => open[o].thread \in opening
    /\ \A o \in Openers : open[o].pc \in {"linking", "discarding", "converging"} =>
          open[o].terminal # None
    /\ \A o \in Openers : open[o].pc \in {"deciding", "waiting", "launching"} =>
          open[o].terminal = None
    /\ \A o, p \in Openers :
          (/\ open[o].pc \in Resuming /\ open[p].pc \in Resuming
           /\ open[o].thread = open[p].thread) => o = p

SafeInv ==
    /\ TypeOK /\ RowsSound /\ ViewMatchesStore
    /\ OneThreadPerConversation /\ ActiveOnce
    /\ TerminalsSound /\ OpensSound /\ ChangesAnnounced

(* The terminal runs the resume of conversation k, and Open can tell. *)
Writes(t, k) == writer[t] = k /\ Up(t) /\ t \notin stray

(* While an open resumes a thread, the only resume of it that is up is its own. *)
OwnResumeOnly ==
    \A o \in Openers, t \in Terminals :
        (/\ open[o].pc \in Resuming
         /\ Writes(t, view[open[o].thread].key)) => open[o].terminal = t

(* A resume that is up is linked, or about to be linked or discarded. *)
ResumesLinked ==
    \A t \in Terminals, k \in Keys :
        Writes(t, k) /\ identities[k] # None =>
            \/ view[identities[k]].terminal = t
            \/ \E o \in Openers : /\ open[o].pc \in {"linking", "discarding"}
                                  /\ open[o].thread = identities[k]
                                  /\ open[o].terminal = t

(* A resumed terminal holds the conversation it resumed, or nothing, and no *)
(* other terminal that is up holds it.                                      *)
ResumesHold ==
    /\ \A t \in Terminals : terms[t] = "unborn" => writer[t] = None
    /\ \A t \in Terminals : writer[t] # None /\ active[t] # None =>
          view[active[t]].key = writer[t]
    /\ \A t, u \in Terminals :
          (/\ writer[t] # None /\ Writes(t, writer[t]) /\ Up(u)
           /\ active[u] # None /\ active[u] = identities[writer[t]]) => u = t

ResumeInv == OwnResumeOnly /\ ResumesLinked /\ ResumesHold /\ NoSecondResume

-----------------------------------------------------------------------------
(* What the policy of turns.go does to a record.                           *)

(* What evidence leaves alone: the identity, the link and the archiving. *)
SameIdentity(r, s) == s.key = r.key /\ s.terminal = r.terminal /\ s.archived = r.archived

(* Coherent but for what settling the turn restores. *)
TurnCoherent(r) ==
    /\ r.detail => r.status = "error"
    /\ r.turn # None =>
          /\ r.turn.completed <=> Ended(r.turn.state)
          /\ r.turn.response # None => Ended(r.turn.state)

(* The latest turn after a step: the one before it, or one under a new id. *)
TurnFrom(r, s, fresh) ==
    /\ s.turn = None => r.turn = None
    /\ s.turn # None => \/ r.turn # None /\ s.turn.id = r.turn.id
                        \/ r.pending # None /\ s.turn.id = r.pending.id
                        \/ s.turn.id = fresh

(* An ended turn that keeps its id keeps its outcome. *)
OutcomeKept(r, s) ==
    (/\ r.turn # None /\ Ended(r.turn.state) /\ s.turn # None
     /\ s.turn.id = r.turn.id) => s.turn.state = r.turn.state

(* Setting the link and the archiving of a record does that and no more. *)
LEMMA RecordLink ==
    ASSUME NEW r \in Record, NEW t \in Terminals \cup {None}, NEW a \in BOOLEAN
    PROVE  LET s == [r EXCEPT !.terminal = t, !.archived = a] IN
           /\ s \in Record
           /\ s.key = r.key /\ s.terminal = t /\ s.archived = a
           /\ s.turn = r.turn /\ s.pending = r.pending /\ s.status = r.status
           /\ s.detail = r.detail
    BY DEF Record

LEMMA ClaimStatusFacts ==
    ASSUME NEW r \in Record, NEW p \in Report, NEW held \in BOOLEAN
    PROVE  LET s == ClaimStatus(r, p, held) IN
           /\ s \in Record /\ SameIdentity(r, s)
           /\ s.turn = r.turn /\ s.pending = r.pending
           /\ TurnCoherent(r) => TurnCoherent(s)
           /\ ~held /\ ~IsLive(r.status) => ~IsLive(s.status)
    <1>1. CASE p.status = None \/ (IsLive(p.status) /\ ~held)
        BY <1>1 DEF ClaimStatus, SameIdentity
    <1>2. CASE ~(p.status = None \/ (IsLive(p.status) /\ ~held))
        <2>1. p.status \in Status /\ p.detail \in BOOLEAN
            BY <1>2 DEF Report
        <2>2. ClaimStatus(r, p, held) =
                [r EXCEPT !.status = p.status,
                          !.detail = p.detail /\ p.status = "error"]
            BY <1>2 DEF ClaimStatus
        <2>3. (p.detail /\ p.status = "error") \in BOOLEAN
            OBVIOUS
        <2>4. QED BY <1>2, <2>1, <2>2, <2>3 DEF Record, SameIdentity, TurnCoherent
    <1>3. QED BY <1>1, <1>2

LEMMA UpdateTurnFacts ==
    ASSUME NEW turn \in Turn, NEW p \in TurnReport
    PROVE  LET s == UpdateTurn(turn, p) IN
           /\ s \in Turn /\ s.id = turn.id /\ s.state = p.state
           /\ s.completed <=> Ended(s.state)
           /\ s.response # None => Ended(s.state)
    <1>1. CASE p.state \in EndedState
        <2>1. UpdateTurn(turn, p) = [turn EXCEPT !.state = p.state,
                                        !.completed = TRUE, !.response = p.response]
            BY Zenon, <1>1 DEF UpdateTurn, Ended
        <2>2. QED BY <1>1, <2>1 DEF Turn, TurnReport, Ended
    <1>2. CASE p.state \notin EndedState
        <2>1. UpdateTurn(turn, p) = [turn EXCEPT !.state = p.state,
                                        !.completed = FALSE, !.response = None]
            <3>1. Ended(p.state) = FALSE
                BY <1>2 DEF Ended
            <3>2. QED BY Zenon, <3>1 DEF UpdateTurn
        <2>2. QED BY <1>2, <2>1 DEF Turn, TurnReport, Ended
    <1>3. QED BY <1>1, <1>2

LEMMA MintTurnFacts ==
    ASSUME NEW id \in Nat, NEW p \in TurnReport
    PROVE  LET s == MintTurn(id, p) IN
           /\ s \in Turn /\ s.id = id /\ s.state = p.state
           /\ s.completed <=> Ended(s.state)
           /\ s.response # None => Ended(s.state)
    <1>1. [id |-> id, provider |-> p.provider, state |-> "unknown",
           completed |-> FALSE, response |-> None] \in Turn
        BY DEF Turn, TurnReport, TurnState
    <1>2. QED BY <1>1, UpdateTurnFacts DEF MintTurn

LEMMA AdoptResponseFacts ==
    ASSUME NEW turn \in Turn, NEW p \in TurnReport
    PROVE  LET s == AdoptResponse(turn, p.state, p.response) IN
           /\ s \in Turn /\ s.id = turn.id /\ s.state = turn.state
           /\ s.completed = turn.completed
    BY DEF AdoptResponse, Turn, TurnReport

(* A record under another latest turn, with the submission kept or bound. *)
LEMMA RecordTurn ==
    ASSUME NEW r \in Record, NEW turn \in Turn, NEW q \in {r.pending, None}
    PROVE  LET s == [r EXCEPT !.turn = turn, !.pending = q] IN
           /\ s \in Record /\ SameIdentity(r, s)
           /\ s.turn = turn /\ s.turn # None /\ s.pending = q
           /\ s.status = r.status /\ s.detail = r.detail
    BY NoneAssumption DEF Record, SameIdentity

(* The claim of a turn: a running one is accepted only of a thread held. *)
LEMMA ClaimTurnFacts ==
    ASSUME NEW r \in Record, NEW p \in TurnReport \cup {None},
           NEW held \in BOOLEAN, NEW fresh \in Nat
    PROVE  LET s == ClaimTurn(r, p, held, fresh) IN
           /\ s \in Record /\ SameIdentity(r, s) /\ s.status = r.status
           /\ s.pending \in {r.pending, None}
           /\ TurnCoherent(r) => TurnCoherent(s)
           /\ TurnFrom(r, s, fresh)
           /\ (r.pending = None /\ (r.turn # None => r.turn.id # fresh))
                 => OutcomeKept(r, s)
           /\ ~held /\ (r.turn # None => r.turn.state # "running")
                 => (s.turn # None => s.turn.state # "running")
    <1> DEFINE s == ClaimTurn(r, p, held, fresh)
    <1>1. CASE p = None \/ (p.state = "running" /\ ~held)
        BY <1>1 DEF ClaimTurn, SameIdentity, TurnFrom, OutcomeKept
    <1>2. CASE ~(p = None \/ (p.state = "running" /\ ~held))
        <2>1. p \in TurnReport /\ s = ApplyTurn(r, p, fresh)
              /\ (p.state = "running" => held)
            BY <1>2 DEF ClaimTurn
        <2>2. /\ r.turn \in Turn \cup {None} /\ r.pending \in Pending \cup {None}
              /\ (r.pending # None => r.pending \in Pending /\ r.pending.id \in Nat)
            BY DEF Record, Pending
        <2>3. CASE Binds(r, p)
            <3> DEFINE turn == MintTurn(r.pending.id, p)
            <3>1. r.pending # None
                BY <2>3 DEF Binds
            <3>2. /\ turn \in Turn /\ turn.id = r.pending.id /\ turn.state = p.state
                  /\ turn.completed <=> Ended(turn.state)
                  /\ turn.response # None => Ended(turn.state)
                BY <2>1, <2>2, <3>1, MintTurnFacts
            <3>3. s = [r EXCEPT !.turn = turn, !.pending = None]
                BY <2>1, <2>3 DEF ApplyTurn
            <3> HIDE DEF s, turn
            <3>4. /\ s \in Record /\ SameIdentity(r, s) /\ s.turn = turn
                  /\ s.turn # None /\ s.pending = None
                  /\ s.status = r.status /\ s.detail = r.detail
                BY <3>2, <3>3, RecordTurn
            <3>5. QED BY <2>1, <3>1, <3>2, <3>4
                     DEF TurnCoherent, TurnFrom, OutcomeKept, s
        <2>4. CASE ~Binds(r, p) /\ r.turn # None /\ SameTurn(r.turn, p)
            <3> DEFINE turn == IF Ended(r.turn.state)
                               THEN AdoptResponse(r.turn, p.state, p.response)
                               ELSE UpdateTurn(r.turn, p)
            <3>1. r.turn \in Turn
                BY <2>2, <2>4
            <3>2. CASE Ended(r.turn.state)
                <4>1. /\ turn \in Turn /\ turn.id = r.turn.id
                      /\ turn.state = r.turn.state
                      /\ turn.completed = r.turn.completed
                    BY <2>1, <3>1, <3>2, AdoptResponseFacts
                <4>2. s = [r EXCEPT !.turn = turn, !.pending = r.pending]
                    BY <2>1, <2>4 DEF ApplyTurn, Record
                <4> HIDE DEF s, turn
                <4>3. /\ s \in Record /\ SameIdentity(r, s) /\ s.turn = turn
                      /\ s.turn # None /\ s.pending = r.pending
                      /\ s.status = r.status /\ s.detail = r.detail
                    BY <4>1, <4>2, RecordTurn
                <4>4. QED BY <2>4, <3>2, <4>1, <4>3
                         DEF TurnCoherent, TurnFrom, OutcomeKept, s
            <3>3. CASE ~Ended(r.turn.state)
                <4>1. /\ turn \in Turn /\ turn.id = r.turn.id /\ turn.state = p.state
                      /\ turn.completed <=> Ended(turn.state)
                      /\ turn.response # None => Ended(turn.state)
                    BY <2>1, <3>1, <3>3, UpdateTurnFacts
                <4>2. s = [r EXCEPT !.turn = turn, !.pending = r.pending]
                    BY <2>1, <2>4 DEF ApplyTurn, Record
                <4> HIDE DEF s, turn
                <4>3. /\ s \in Record /\ SameIdentity(r, s) /\ s.turn = turn
                      /\ s.turn # None /\ s.pending = r.pending
                      /\ s.status = r.status /\ s.detail = r.detail
                    BY <4>1, <4>2, RecordTurn
                <4>4. QED BY <2>1, <2>4, <3>3, <4>1, <4>3
                         DEF TurnCoherent, TurnFrom, OutcomeKept, s
            <3>4. QED BY <3>2, <3>3
        <2>5. CASE ~Binds(r, p) /\ ~(r.turn # None /\ SameTurn(r.turn, p))
            <3> DEFINE turn == MintTurn(fresh, p)
            <3>1. /\ turn \in Turn /\ turn.id = fresh /\ turn.state = p.state
                  /\ turn.completed <=> Ended(turn.state)
                  /\ turn.response # None => Ended(turn.state)
                BY <2>1, MintTurnFacts
            <3>2. s = [r EXCEPT !.turn = turn, !.pending = r.pending]
                BY <2>1, <2>5 DEF ApplyTurn, Record
            <3> HIDE DEF s, turn
            <3>3. /\ s \in Record /\ SameIdentity(r, s) /\ s.turn = turn
                  /\ s.turn # None /\ s.pending = r.pending
                  /\ s.status = r.status /\ s.detail = r.detail
                BY <3>1, <3>2, RecordTurn
            <3>4. QED BY <2>1, <3>1, <3>3 DEF TurnCoherent, TurnFrom, OutcomeKept, s
        <2>6. QED BY <2>3, <2>4, <2>5
    <1>3. QED BY <1>1, <1>2

(* A fault or rest settles a running turn; an ended one it leaves alone. *)
LEMMA SettleRunningFacts ==
    ASSUME NEW r \in Record, NEW p \in TurnReport \cup {None}
    PROVE  LET s == SettleRunning(r, p) IN
           /\ s \in Record /\ SameIdentity(r, s)
           /\ s.status = r.status /\ s.detail = r.detail /\ s.pending = r.pending
           /\ s.turn = None <=> r.turn = None
           /\ r.turn # None => s.turn.id = r.turn.id
           /\ TurnCoherent(r) => TurnCoherent(s)
           /\ s.turn # None => /\ s.status = "error" => s.turn.state # "running"
                               /\ s.turn.state \in {r.turn.state, "failed", "unknown"}
           /\ OutcomeKept(r, s)
    <1> DEFINE s == SettleRunning(r, p)
    <1> DEFINE settles == /\ r.turn # None /\ r.turn.state = "running"
                          /\ \/ r.status = "error"
                             \/ /\ r.status \in {"idle", "unknown"}
                                /\ p = None \/ p.state # "running"
    <1>1. CASE ~settles
        <2>1. s = r
            BY <1>1 DEF SettleRunning
        <2>2. QED BY <1>1, <2>1 DEF SameIdentity, OutcomeKept
    <1>2. CASE settles
        <2>1. r.turn # None /\ r.turn.state = "running" /\ r.turn \in Turn
            BY <1>2 DEF Record
        <2>2. PICK v \in {"failed", "unknown"}, c \in BOOLEAN :
                /\ s = [r EXCEPT !.turn.state = v, !.turn.completed = c]
                /\ c <=> v = "failed"
            <3>1. CASE r.status = "error"
                <4>1. s = [r EXCEPT !.turn.state = "failed", !.turn.completed = TRUE]
                    BY <2>1, <3>1 DEF SettleRunning
                <4>2. QED BY <4>1
            <3>2. CASE r.status # "error"
                <4>1. s = [r EXCEPT !.turn.state = "unknown", !.turn.completed = FALSE]
                    BY <1>2, <2>1, <3>2 DEF SettleRunning
                <4>2. QED BY <4>1
            <3>3. QED BY <3>1, <3>2
        <2> DEFINE turn == [r.turn EXCEPT !.state = v, !.completed = c]
        <2>3. turn \in Turn /\ turn.id = r.turn.id /\ turn.state = v
              /\ turn.completed = c /\ turn.response = r.turn.response
            BY <2>1 DEF Turn, TurnState, EndedState
        <2>4. s = [r EXCEPT !.turn = turn, !.pending = r.pending]
            BY <2>2 DEF Record
        <2> HIDE DEF turn, s
        <2>5. /\ s \in Record /\ SameIdentity(r, s) /\ s.turn = turn
              /\ s.turn # None /\ s.pending = r.pending
              /\ s.status = r.status /\ s.detail = r.detail
            BY <2>3, <2>4, RecordTurn
        <2>6. Ended("failed") /\ ~Ended("unknown") /\ ~Ended("running")
            BY DEF Ended, EndedState
        <2>7. QED BY <2>1, <2>2, <2>3, <2>5, <2>6 DEF TurnCoherent, OutcomeKept, s
    <1>3. QED BY <1>1, <1>2

LEMMA SettlePendingFacts ==
    ASSUME NEW r \in Record
    PROVE  LET s == SettlePending(r) IN
           /\ s \in Record /\ SameIdentity(r, s)
           /\ s.status = r.status /\ s.detail = r.detail
           /\ s.pending \in {r.pending, None}
           /\ r.pending = None => s = r
           /\ s.status = "error" => s.pending = None
           /\ s # r => /\ s.turn # None /\ s.turn.state = "failed"
                       /\ s.turn.id = r.pending.id /\ r.pending # None
                       /\ s.turn.completed = TRUE
    <1> DEFINE s == SettlePending(r)
    <1>1. CASE r.pending = None \/ r.status # "error"
        BY <1>1 DEF SettlePending, SameIdentity
    <1>2. CASE ~(r.pending = None \/ r.status # "error")
        <2> DEFINE turn == [id |-> r.pending.id, provider |-> None, state |-> "failed",
                            completed |-> TRUE, response |-> None]
        <2>1. turn \in Turn /\ turn.id = r.pending.id /\ turn.state = "failed"
              /\ turn.completed = TRUE
            BY <1>2 DEF Record, Pending, Turn, TurnState, EndedState
        <2>2. s = [r EXCEPT !.turn = turn, !.pending = None]
            BY <1>2 DEF SettlePending
        <2> HIDE DEF turn, s
        <2>3. /\ s \in Record /\ SameIdentity(r, s) /\ s.turn = turn
              /\ s.turn # None /\ s.pending = None
              /\ s.status = r.status /\ s.detail = r.detail
            BY <2>1, <2>2, RecordTurn
        <2>4. QED BY <1>2, <2>1, <2>3 DEF s
    <1>3. QED BY <1>1, <1>2

(***************************************************************************)
(* ApplyStatus yields a coherent record of the same conversation, leaves   *)
(* an ended turn its outcome, and claims nothing live of a thread that     *)
(* nothing holds and that claimed nothing before.                          *)
(***************************************************************************)
LEMMA ApplyStatusFacts ==
    ASSUME NEW r \in Record, NEW p \in Report, NEW held \in BOOLEAN, NEW fresh \in Nat
    PROVE  LET s == ApplyStatus(r, p, held, fresh) IN
           /\ s \in Record /\ SameIdentity(r, s)
           /\ s.pending \in {r.pending, None}
           /\ TurnFrom(r, s, fresh)
           /\ TurnCoherent(r) => RecordCoherent(s)
           /\ (r.pending = None /\ (r.turn # None => r.turn.id # fresh))
                 => OutcomeKept(r, s)
           /\ ~held /\ ~ClaimsLive(r) => ~ClaimsLive(s)
    <1> DEFINE a == ClaimStatus(r, p, held)
               b == ClaimTurn(a, p.turn, held, fresh)
               c == SettleRunning(b, p.turn)
               s == SettlePending(c)
    <1>0. p.turn \in TurnReport \cup {None}
        BY DEF Report
    <1>1. /\ a \in Record /\ SameIdentity(r, a)
          /\ a.turn = r.turn /\ a.pending = r.pending
          /\ TurnCoherent(r) => TurnCoherent(a)
          /\ ~held /\ ~IsLive(r.status) => ~IsLive(a.status)
        BY ClaimStatusFacts
    <1> HIDE DEF a
    <1>2. /\ b \in Record /\ SameIdentity(a, b) /\ b.status = a.status
          /\ b.pending \in {a.pending, None}
          /\ TurnCoherent(a) => TurnCoherent(b)
          /\ TurnFrom(a, b, fresh)
          /\ (a.pending = None /\ (a.turn # None => a.turn.id # fresh))
                => OutcomeKept(a, b)
          /\ ~held /\ (a.turn # None => a.turn.state # "running")
                => (b.turn # None => b.turn.state # "running")
        BY <1>0, <1>1, ClaimTurnFacts
    <1> HIDE DEF b
    <1>3. /\ c \in Record /\ SameIdentity(b, c)
          /\ c.status = b.status /\ c.detail = b.detail /\ c.pending = b.pending
          /\ c.turn = None <=> b.turn = None
          /\ b.turn # None => c.turn.id = b.turn.id
          /\ TurnCoherent(b) => TurnCoherent(c)
          /\ c.turn # None => /\ c.status = "error" => c.turn.state # "running"
                              /\ c.turn.state \in {b.turn.state, "failed", "unknown"}
          /\ OutcomeKept(b, c)
        BY <1>0, <1>2, SettleRunningFacts
    <1> HIDE DEF c
    <1>4. /\ s \in Record /\ SameIdentity(c, s)
          /\ s.status = c.status /\ s.detail = c.detail
          /\ s.pending \in {c.pending, None}
          /\ c.pending = None => s = c
          /\ s.status = "error" => s.pending = None
          /\ s # c => /\ s.turn # None /\ s.turn.state = "failed"
                      /\ s.turn.id = c.pending.id /\ c.pending # None
                      /\ s.turn.completed = TRUE
        BY <1>3, SettlePendingFacts
    <1>5. ApplyStatus(r, p, held, fresh) = s
        BY DEF ApplyStatus, SettleTurn, a, b, c
    <1> HIDE DEF s
    <1>6. SameIdentity(r, s) /\ s.pending \in {r.pending, None}
        BY <1>1, <1>2, <1>3, <1>4 DEF SameIdentity
    <1>7. TurnFrom(r, s, fresh)
        BY <1>1, <1>2, <1>3, <1>4 DEF TurnFrom
    <1>8. TurnCoherent(r) => RecordCoherent(s)
        <2>1. Ended("failed")
            BY DEF Ended, EndedState
        <2>2. QED BY <1>1, <1>2, <1>3, <1>4, <2>1 DEF TurnCoherent, RecordCoherent
    <1>9. (r.pending = None /\ (r.turn # None => r.turn.id # fresh)) => OutcomeKept(r, s)
        BY <1>1, <1>2, <1>3, <1>4 DEF OutcomeKept
    <1>10. ~held /\ ~ClaimsLive(r) => ~ClaimsLive(s)
        BY <1>1, <1>2, <1>3, <1>4 DEF ClaimsLive
    <1>11. QED BY <1>4, <1>5, <1>6, <1>7, <1>8, <1>9, <1>10

(* Coercion drops the live claims and leaves the outcome of an ended turn. *)
LEMMA CoerceFacts ==
    ASSUME NEW r \in Record
    PROVE  LET s == CoerceRecord(r) IN
           /\ s \in Record /\ SameIdentity(r, s) /\ s.pending = r.pending
           /\ s.turn = None <=> r.turn = None
           /\ r.turn # None => s.turn.id = r.turn.id
           /\ ~ClaimsLive(s)
           /\ RecordCoherent(r) => RecordCoherent(s)
           /\ OutcomeKept(r, s)
    <1> DEFINE a == IF IsLive(r.status) THEN [r EXCEPT !.status = "unknown"] ELSE r
               s == CoerceRecord(r)
    <1>1. /\ a \in Record /\ SameIdentity(r, a) /\ a.pending = r.pending
          /\ a.turn = r.turn /\ a.detail = r.detail /\ ~IsLive(a.status)
          /\ a.status = "error" <=> r.status = "error"
        BY DEF Record, Status, LiveStatus, IsLive, SameIdentity
    <1>2. s = IF a.turn # None /\ a.turn.state = "running"
              THEN [a EXCEPT !.turn.state = "unknown", !.turn.completed = FALSE]
              ELSE a
        BY DEF CoerceRecord
    <1> HIDE DEF a, s
    <1>3. CASE ~(a.turn # None /\ a.turn.state = "running")
        BY <1>1, <1>2, <1>3 DEF SameIdentity, ClaimsLive, RecordCoherent, OutcomeKept, s
    <1>4. CASE a.turn # None /\ a.turn.state = "running"
        <2> DEFINE turn == [a.turn EXCEPT !.state = "unknown", !.completed = FALSE]
        <2>1. a.turn \in Turn
            BY <1>1, <1>4 DEF Record
        <2>2. turn \in Turn /\ turn.id = a.turn.id /\ turn.state = "unknown"
              /\ turn.completed = FALSE /\ turn.response = a.turn.response
            BY <2>1 DEF Turn, TurnState, EndedState
        <2>3. s = [a EXCEPT !.turn = turn, !.pending = a.pending]
            BY <1>1, <1>2, <1>4 DEF Record
        <2> HIDE DEF turn
        <2>4. /\ s \in Record /\ SameIdentity(a, s) /\ s.turn = turn
              /\ s.turn # None /\ s.pending = a.pending
              /\ s.status = a.status /\ s.detail = a.detail
            BY <1>1, <2>2, <2>3, RecordTurn
        <2>5. ~Ended("unknown") /\ ~Ended("running")
            BY DEF Ended, EndedState
        <2>6. QED BY <1>1, <1>4, <2>2, <2>4, <2>5
                 DEF SameIdentity, ClaimsLive, RecordCoherent, OutcomeKept, s
    <1>5. QED BY <1>3, <1>4

LEMMA NextTurnFacts ==
    ASSUME NEW s, NEW fresh \in Nat
    PROVE  /\ NextTurnId(s, fresh) \in Nat /\ NextTurnId(s, fresh) >= fresh
           /\ \A r \in Record :
                (/\ TurnFrom(r, s, fresh) /\ r.pending = None
                 /\ r.turn # None => r.turn.id < fresh)
                => (s.turn # None => s.turn.id < NextTurnId(s, fresh))
    BY DEF NextTurnId, TurnFrom, Record, Turn

-----------------------------------------------------------------------------
(* What a step does to the records.                                        *)

Same(id) == rows'[id] = rows[id] /\ view'[id] = view[id]

(* The row and the view now hold the same, sound record. *)
Fresh(id) ==
    /\ rows'[id] = view'[id] /\ view'[id] \in Record
    /\ RecordSound(view'[id], nextTurn') /\ Storable(view'[id])

(* The record goes on as that of the same conversation. *)
GoesOn(id) ==
    /\ Known(id) /\ Known(id)'
    /\ view'[id].key = view[id].key
    /\ OutcomeKept(view[id], view'[id])

TablesTyped ==
    /\ rows' \in [ThreadIds -> Record \cup {None}]
    /\ view' \in [ThreadIds -> Record \cup {None}]

(* Terminals come into being and their records last, but for deletion. *)
TermsForward ==
    \A t \in Terminals :
        /\ HasRecord(t) => HasRecord(t)'
        /\ terms[t] = "deleted" => terms'[t] = "deleted"
        /\ terms[t] # "unborn" => terms'[t] # "unborn"

(* What is known of a thread's record: the row is the view's, but for a  *)
(* link to a terminal that is deleted.                                    *)
LEMMA KnownFacts ==
    ASSUME TypeOK, RowsSound, ViewMatchesStore, NEW id \in ThreadIds
    PROVE  /\ Known(id) <=> rows[id] # None
           /\ Known(id) =>
                /\ view[id] \in Record /\ rows[id] \in Record
                /\ RecordSound(view[id], nextTurn) /\ Storable(rows[id])
                /\ rows[id].key = view[id].key /\ rows[id].turn = view[id].turn
                /\ rows[id].archived = view[id].archived
                /\ \/ rows[id].terminal = view[id].terminal
                   \/ /\ view[id].terminal # None /\ rows[id].terminal = None
                      /\ terms[view[id].terminal] = "deleted"
    <1>1. CASE view[id] = rows[id]
        BY <1>1, NoneAssumption DEF Known, TypeOK, RowsSound
    <1>2. CASE view[id] # rows[id]
        <2>1. /\ Known(id) /\ view[id].terminal # None
              /\ terms[view[id].terminal] = "deleted"
              /\ rows[id] = [view[id] EXCEPT !.terminal = None]
            BY <1>2 DEF ViewMatchesStore
        <2>2. view[id] \in Record
            BY <2>1 DEF Known, TypeOK
        <2>3. /\ rows[id] \in Record /\ rows[id] # None
              /\ rows[id].key = view[id].key /\ rows[id].turn = view[id].turn
              /\ rows[id].archived = view[id].archived
              /\ rows[id].pending = view[id].pending
              /\ rows[id].status = view[id].status /\ rows[id].detail = view[id].detail
              /\ rows[id].terminal = None
            BY <2>1, <2>2, NoneAssumption DEF Record
        <2>4. Storable(rows[id]) /\ RecordSound(rows[id], nextTurn)
            BY <2>3 DEF RowsSound
        <2>5. RecordSound(view[id], nextTurn)
            BY <2>3, <2>4 DEF RecordSound, RecordCoherent
        <2>6. QED BY <2>1, <2>2, <2>3, <2>4, <2>5
    <1>3. QED BY <1>1, <1>2

LEMMA PersistFacts ==
    ASSUME TypeOK, NEW D \in SUBSET ThreadIds, NEW f \in [D -> Record \cup {None}],
           Persist(f)
    PROVE  /\ TablesTyped
           /\ \A id \in D : rows'[id] = f[id] /\ view'[id] = f[id]
           /\ \A id \in ThreadIds \ D : Same(id)
    BY DEF TypeOK, Persist, Overwrite, TablesTyped, Same

LEMMA SettleFacts ==
    ASSUME TypeOK, RowsSound, ViewMatchesStore, NEW id \in ThreadIds,
           NEW record \in Record, RecordSound(record, nextTurn), nextTurn' = nextTurn,
           Settle(id, record)
    PROVE  /\ TablesTyped
           /\ view'[id] = record
           /\ Same(id) \/ Fresh(id)
           /\ \A x \in ThreadIds \ {id} : Same(x)
    <1>1. CASE record = view[id] /\ UNCHANGED <<rows, view>>
        BY <1>1 DEF TypeOK, TablesTyped, Same
    <1>2. CASE Storable(record) /\ Persist([x \in {id} |-> record])
        <2>1. {id} \in SUBSET ThreadIds
              /\ [x \in {id} |-> record] \in [{id} -> Record \cup {None}]
            OBVIOUS
        <2>2. /\ TablesTyped
              /\ rows'[id] = record /\ view'[id] = record
              /\ \A x \in ThreadIds \ {id} : Same(x)
            BY <1>2, <2>1, PersistFacts
        <2>3. QED BY <1>2, <2>2 DEF Fresh
    <1>3. QED BY <1>1, <1>2 DEF Settle

(* The store and the view stay in step when only sound records are written. *)
LEMMA StoreKept ==
    ASSUME TypeOK, RowsSound, ViewMatchesStore, TermsForward,
           nextTurn' \in Nat, nextTurn' >= nextTurn,
           \A id \in ThreadIds : \/ Same(id) \/ Fresh(id)
                                 \/ rows'[id] = None /\ view'[id] = None
    PROVE  RowsSound' /\ ViewMatchesStore'
    <1>1. ASSUME NEW id \in ThreadIds, rows'[id] # None
          PROVE  Storable(rows[id])' /\ RecordSound(rows'[id], nextTurn')
        <2>1. CASE Same(id)
            <3>1. rows[id] \in Record /\ Storable(rows[id]) /\ RecordSound(rows[id], nextTurn)
                BY <1>1, <2>1 DEF Same, TypeOK, RowsSound
            <3>2. Storable(rows[id])'
                BY <2>1, <3>1 DEF Same, Storable, TermsForward
            <3>3. RecordSound(rows'[id], nextTurn')
                BY <2>1, <3>1 DEF Same, RecordSound, TypeOK, Record, Turn
            <3>4. QED BY <3>2, <3>3
        <2>2. CASE Fresh(id)
            BY <2>2 DEF Fresh, Storable, TermsForward
        <2>3. QED BY <1>1, <2>1, <2>2
    <1>2. ASSUME NEW id \in ThreadIds, view'[id] # rows'[id]
          PROVE  /\ Known(id)' /\ view'[id].terminal # None
                 /\ terms'[view'[id].terminal] = "deleted"
                 /\ rows'[id] = [view'[id] EXCEPT !.terminal = None]
        <2>1. Same(id)
            BY <1>2 DEF Fresh
        <2>2. /\ Known(id) /\ view[id].terminal # None
              /\ terms[view[id].terminal] = "deleted"
              /\ rows[id] = [view[id] EXCEPT !.terminal = None]
            BY <1>2, <2>1 DEF Same, ViewMatchesStore
        <2>3. view[id].terminal \in Terminals
            BY <2>2 DEF TypeOK, Known, Record
        <2>4. QED BY <2>1, <2>2, <2>3 DEF Same, Known, TermsForward
    <1>3. QED BY <1>1, <1>2 DEF RowsSound, ViewMatchesStore

-----------------------------------------------------------------------------
(* The effect of each kind of write on the threads.                        *)

Store ==
    /\ RowsSound /\ ViewMatchesStore /\ OneThreadPerConversation
    /\ \A t \in Terminals : active[t] # None => Known(active[t])

(* The thread keeps its record, or goes on with the same link and archiving. *)
Untouched(id) ==
    Same(id) \/ (Fresh(id) /\ GoesOn(id) /\ SameIdentity(view[id], view'[id]))

(* Evidence applied to a sound record leaves it sound. *)
LEMMA EvidenceFacts ==
    ASSUME NEW r \in Record, RecordSound(r, nextTurn), nextTurn \in Nat,
           NEW report \in Reports, NEW held \in BOOLEAN
    PROVE  LET s == ApplyStatus(r, report, held, nextTurn) IN
           /\ s \in Record /\ SameIdentity(r, s) /\ OutcomeKept(r, s)
           /\ RecordSound(s, NextTurnId(s, nextTurn))
           /\ NextTurnId(s, nextTurn) \in Nat /\ NextTurnId(s, nextTurn) >= nextTurn
    <1> DEFINE s == ApplyStatus(r, report, held, nextTurn)
    <1>1. report \in Report /\ TurnCoherent(r) /\ r.pending = None
          /\ (r.turn # None => r.turn.id < nextTurn)
          /\ (r.turn # None => r.turn.id # nextTurn)
        BY ThreadsAssumption DEF RecordSound, RecordCoherent, TurnCoherent, Record, Turn
    <1>2. /\ s \in Record /\ SameIdentity(r, s)
          /\ s.pending \in {r.pending, None}
          /\ TurnFrom(r, s, nextTurn)
          /\ RecordCoherent(s)
          /\ OutcomeKept(r, s)
        BY <1>1, ApplyStatusFacts
    <1> HIDE DEF s
    <1>3. /\ NextTurnId(s, nextTurn) \in Nat /\ NextTurnId(s, nextTurn) >= nextTurn
          /\ s.turn # None => s.turn.id < NextTurnId(s, nextTurn)
        BY <1>1, <1>2, NextTurnFacts
    <1>4. RecordSound(s, NextTurnId(s, nextTurn))
        BY <1>1, <1>2, <1>3 DEF RecordSound
    <1>5. QED BY <1>2, <1>3, <1>4 DEF s

LEMMA ObservedFacts ==
    ASSUME NEW r \in Record, RecordSound(r, nextTurn), nextTurn \in Nat,
           NEW t \in Terminals, NEW report \in Reports
    PROVE  LET s == Observed(r, t, report) IN
           /\ s \in Record /\ s.key = r.key /\ s.terminal = t /\ s.archived = FALSE
           /\ OutcomeKept(r, s) /\ RecordSound(s, NextTurnId(s, nextTurn))
           /\ NextTurnId(s, nextTurn) \in Nat /\ NextTurnId(s, nextTurn) >= nextTurn
    <1> DEFINE q == [r EXCEPT !.terminal = t, !.archived = FALSE]
               s == ApplyStatus(q, report, TRUE, nextTurn)
    <1>1. /\ q \in Record /\ q.key = r.key /\ q.terminal = t /\ q.archived = FALSE
          /\ q.turn = r.turn /\ q.pending = r.pending /\ q.status = r.status
          /\ q.detail = r.detail
        BY DEF Record
    <1>2. RecordSound(q, nextTurn)
        BY <1>1 DEF RecordSound, RecordCoherent
    <1> HIDE DEF q
    <1>3. /\ s \in Record /\ SameIdentity(q, s) /\ OutcomeKept(q, s)
          /\ RecordSound(s, NextTurnId(s, nextTurn))
          /\ NextTurnId(s, nextTurn) \in Nat /\ NextTurnId(s, nextTurn) >= nextTurn
        BY <1>1, <1>2, EvidenceFacts
    <1>4. Observed(r, t, report) = s
        BY DEF Observed, q
    <1> HIDE DEF s
    <1>5. QED BY <1>1, <1>3, <1>4 DEF SameIdentity, OutcomeKept

LEMMA NewRecordFacts ==
    ASSUME NEW k \in Keys, NEW t \in Terminals, nextTurn \in Nat
    PROVE  LET r == NewRecord(k, t) IN
           r \in Record /\ r.key = k /\ RecordSound(r, nextTurn) /\ r.turn = None
    BY DEF NewRecord, Record, RecordSound, RecordCoherent, Status

(* Coercion leaves a sound record sound. *)
LEMMA CoercedFacts ==
    ASSUME NEW r \in Record, NEW n \in Nat, RecordSound(r, n)
    PROVE  LET s == CoerceRecord(r) IN
           /\ s \in Record /\ SameIdentity(r, s) /\ OutcomeKept(r, s)
           /\ RecordSound(s, n)
    BY CoerceFacts DEF RecordSound

(***************************************************************************)
(* An observation of conversation k in terminal t: one thread is k's from  *)
(* now on, linked to t and unarchived; what t showed before may have been  *)
(* coerced, and no other thread changes.                                   *)
(***************************************************************************)
Observation(t, k, id) ==
    /\ identities[k] = id \/ (identities[k] = None /\ ~Known(id))
    /\ Fresh(id) /\ view'[id].key = k
    /\ view'[id].terminal = t /\ view'[id].archived = FALSE
    /\ identities[k] = id => GoesOn(id)
    /\ \A x \in ThreadIds \ {id} : Untouched(x)
    /\ identities' = [identities EXCEPT ![k] = id]
    /\ active' = TakeOver(t, id)
    /\ TablesTyped

LEMMA ObserveSessionEffect ==
    ASSUME TypeOK, Store, NEW t \in Terminals, NEW k \in Keys, NEW report \in Reports,
           ObserveSession(t, k, report)
    PROVE  /\ \E id \in ThreadIds : Observation(t, k, id)
           /\ untold = {} => untold' = {}
           /\ terms[t] # "unborn" /\ terms' = terms
           /\ nextTurn' \in Nat /\ nextTurn' >= nextTurn /\ nextTurn' <= MaxTurns
    <1> DEFINE known(id) == identities[k] = id
               base(id) == IF known(id) THEN view[id] ELSE NewRecord(k, t)
               record(id) == Observed(base(id), t, report)
    <1> USE DEF Store
    <1>1. PICK id \in ThreadIds, failing \in SUBSET ThreadIds :
            /\ known(id) \/ (identities[k] = None /\ rows[id] = None)
            /\ terms[t] # "unborn" /\ terms' = terms
            /\ Storable(record(id))
            /\ nextTurn' = NextTurnId(record(id), nextTurn) /\ nextTurn' <= MaxTurns
            /\ Refused(Displaced(t, id), failing)
            /\ Persist([x \in {id} \cup (DOMAIN Displaced(t, id) \ failing) |->
                          IF x = id THEN record(id) ELSE Displaced(t, id)[x]])
            /\ identities' = [identities EXCEPT ![k] = id]
            /\ active' = TakeOver(t, id)
            /\ Announce({id} \cup (DOMAIN Displaced(t, id) \ failing) \cup Moved(t, id))
        <2>1. \A id \in ThreadIds : DOMAIN Displaced(t, id) \subseteq ThreadIds
            BY DEF Displaced, TypeOK
        <2>2. QED BY <2>1 DEF ObserveSession
    <1> DEFINE D == {id} \cup (DOMAIN Displaced(t, id) \ failing)
               f == [x \in D |-> IF x = id THEN record(id) ELSE Displaced(t, id)[x]]
    <1>2. /\ known(id) => Known(id) /\ view[id].key = k
          /\ ~known(id) => ~Known(id)
        BY <1>1, KnownFacts, ThreadsAssumption DEF OneThreadPerConversation
    <1>3. base(id) \in Record /\ base(id).key = k /\ RecordSound(base(id), nextTurn)
        BY <1>2, KnownFacts, NewRecordFacts DEF TypeOK
    <1>4. /\ record(id) \in Record /\ record(id).key = k /\ record(id).terminal = t
          /\ record(id).archived = FALSE /\ OutcomeKept(base(id), record(id))
          /\ RecordSound(record(id), nextTurn')
          /\ nextTurn' \in Nat /\ nextTurn' >= nextTurn
        <2>1. nextTurn \in Nat /\ nextTurn' = NextTurnId(record(id), nextTurn)
            BY <1>1 DEF TypeOK
        <2> HIDE DEF base
        <2>2. QED BY <1>3, <2>1, ObservedFacts
    <1>5. ASSUME NEW x \in DOMAIN Displaced(t, id) \ failing
          PROVE  /\ x \in ThreadIds /\ Known(x) /\ x # id
                 /\ Displaced(t, id)[x] \in Record
                 /\ SameIdentity(view[x], Displaced(t, id)[x])
                 /\ OutcomeKept(view[x], Displaced(t, id)[x])
                 /\ RecordSound(Displaced(t, id)[x], nextTurn')
                 /\ Storable(Displaced(t, id)[x])
        <2>1. x = active[t] /\ x # id /\ x # None /\ x \in ThreadIds
              /\ Displaced(t, id)[x] = CoerceRecord(view[x])
            BY DEF Displaced, TypeOK
        <2>2. Known(x)
            BY <2>1
        <2>3. view[x] \in Record /\ RecordSound(view[x], nextTurn)
            BY <2>1, <2>2, KnownFacts
        <2>4. /\ CoerceRecord(view[x]) \in Record
              /\ SameIdentity(view[x], CoerceRecord(view[x]))
              /\ OutcomeKept(view[x], CoerceRecord(view[x]))
              /\ RecordSound(CoerceRecord(view[x]), nextTurn)
            BY <2>3, CoercedFacts DEF TypeOK
        <2>5. Storable(Displaced(t, id)[x])
            BY <1>1 DEF Refused
        <2>6. RecordSound(CoerceRecord(view[x]), nextTurn')
            BY <1>4, <2>4 DEF RecordSound, Record, Turn, TypeOK
        <2>7. QED BY <2>1, <2>2, <2>4, <2>5, <2>6
    <1>6. D \in SUBSET ThreadIds /\ f \in [D -> Record \cup {None}] /\ Persist(f)
        BY <1>1, <1>4, <1>5
    <1>7. /\ TablesTyped
          /\ rows'[id] = record(id) /\ view'[id] = record(id)
          /\ \A x \in DOMAIN Displaced(t, id) \ failing :
                x # id => /\ rows'[x] = Displaced(t, id)[x]
                          /\ view'[x] = Displaced(t, id)[x]
          /\ \A x \in ThreadIds \ D : Same(x)
        <2> HIDE DEF record
        <2>1. /\ TablesTyped
              /\ \A x \in D : rows'[x] = f[x] /\ view'[x] = f[x]
              /\ \A x \in ThreadIds \ D : Same(x)
            BY <1>6, PersistFacts
        <2>2. QED BY <2>1
    <1> HIDE DEF base, record
    <1>8. Fresh(id) /\ view'[id].key = k /\ view'[id].terminal = t
          /\ view'[id].archived = FALSE
        BY <1>1, <1>4, <1>7 DEF Fresh
    <1>9. identities[k] = id => GoesOn(id)
        BY <1>2, <1>4, <1>7, NoneAssumption DEF GoesOn, Known, base
    <1>10. \A x \in ThreadIds \ {id} : Untouched(x)
        BY <1>5, <1>7, NoneAssumption
           DEF Untouched, Fresh, GoesOn, SameIdentity, Known
    <1>11. Observation(t, k, id)
        BY <1>1, <1>2, <1>7, <1>8, <1>9, <1>10 DEF Observation
    <1>12. untold = {} => untold' = {}
        <2>1. \A x \in ThreadIds \ D : view'[x] = view[x]
            BY <1>7 DEF Same
        <2>2. \A u \in Terminals \ Moved(t, id) : active'[u] = active[u]
            BY <1>1 DEF TakeOver, Moved
        <2>3. QED BY <1>1, <2>1, <2>2 DEF Announce
    <1>13. QED BY <1>1, <1>4, <1>11, <1>12

(* The write of one sound record that goes on from the thread's. *)
LEMMA WriteEffect ==
    ASSUME TypeOK, Store, NEW id \in ThreadIds, Known(id), NEW record \in Record,
           record.key = view[id].key, OutcomeKept(view[id], record),
           RecordSound(record, nextTurn'), Storable(record),
           Persist([x \in {id} |-> record])
    PROVE  /\ TablesTyped /\ view'[id] = record
           /\ Fresh(id) /\ GoesOn(id)
           /\ \A x \in ThreadIds \ {id} : Same(x)
    <1>1. {id} \in SUBSET ThreadIds
          /\ [x \in {id} |-> record] \in [{id} -> Record \cup {None}]
        OBVIOUS
    <1>2. /\ TablesTyped
          /\ rows'[id] = record /\ view'[id] = record
          /\ \A x \in ThreadIds \ {id} : Same(x)
        BY <1>1, PersistFacts
    <1>3. QED BY <1>2, NoneAssumption DEF Fresh, GoesOn, Known

LEMMA ObserveStatusEffect ==
    ASSUME TypeOK, Store, NEW k \in Keys, NEW report \in Reports,
           ObserveStatus(k, report)
    PROVE  /\ TablesTyped /\ \A x \in ThreadIds : Untouched(x)
           /\ untold = {} => untold' = {}
           /\ nextTurn' \in Nat /\ nextTurn' >= nextTurn /\ nextTurn' <= MaxTurns
    <1> DEFINE id == identities[k]
               record == ApplyStatus(view[id], report, Held(id), nextTurn)
    <1> USE DEF Store
    <1>1. /\ id \in ThreadIds /\ Known(id)
          /\ Storable(record)
          /\ nextTurn' = NextTurnId(record, nextTurn) /\ nextTurn' <= MaxTurns
          /\ Persist([x \in {id} |-> record])
          /\ active' = active /\ Announce({id})
        BY DEF ObserveStatus, TypeOK, OneThreadPerConversation
    <1>2. view[id] \in Record /\ RecordSound(view[id], nextTurn) /\ nextTurn \in Nat
          /\ Held(id) \in BOOLEAN
        BY <1>1, KnownFacts DEF TypeOK, Held
    <1>3. /\ record \in Record /\ SameIdentity(view[id], record)
          /\ OutcomeKept(view[id], record)
          /\ RecordSound(record, nextTurn')
          /\ nextTurn' \in Nat /\ nextTurn' >= nextTurn
        <2>1. nextTurn' = NextTurnId(record, nextTurn)
            BY <1>1
        <2> HIDE DEF id
        <2>2. QED BY <1>2, <2>1, EvidenceFacts
    <1> HIDE DEF id, record
    <1>4. /\ TablesTyped /\ view'[id] = record
          /\ Fresh(id) /\ GoesOn(id)
          /\ \A x \in ThreadIds \ {id} : Same(x)
        BY <1>1, <1>3, WriteEffect DEF SameIdentity
    <1>5. \A x \in ThreadIds : Untouched(x)
        BY <1>3, <1>4 DEF Untouched
    <1>6. untold = {} => untold' = {}
        BY <1>1, <1>4 DEF Announce, Same
    <1>7. QED BY <1>1, <1>3, <1>4, <1>5, <1>6

LEMMA DeactivatedEffect ==
    ASSUME TypeOK, Store, NEW t \in Terminals, Deactivated(t), nextTurn' = nextTurn
    PROVE  /\ TablesTyped /\ \A x \in ThreadIds : Untouched(x)
           /\ active[t] # None /\ active' = [active EXCEPT ![t] = None]
           /\ terms' = terms
           /\ untold = {} => untold' = {}
    <1> DEFINE id == active[t]
               record == CoerceRecord(view[id])
    <1> USE DEF Store
    <1>1. /\ id \in ThreadIds /\ Known(id)
          /\ Settle(id, record)
          /\ active' = [active EXCEPT ![t] = None]
          /\ terms' = terms /\ Announce({id, t})
        BY DEF Deactivated, TypeOK
    <1>2. view[id] \in Record /\ RecordSound(view[id], nextTurn) /\ nextTurn \in Nat
        BY <1>1, KnownFacts DEF TypeOK
    <1>3. /\ record \in Record /\ SameIdentity(view[id], record)
          /\ OutcomeKept(view[id], record)
          /\ RecordSound(record, nextTurn)
        BY <1>2, CoercedFacts
    <1> HIDE DEF record
    <1>4. /\ TablesTyped /\ view'[id] = record
          /\ Same(id) \/ Fresh(id)
          /\ \A x \in ThreadIds \ {id} : Same(x)
        BY <1>1, <1>3, SettleFacts
    <1>5. \A x \in ThreadIds : Untouched(x)
        BY <1>1, <1>3, <1>4, NoneAssumption DEF Untouched, GoesOn, SameIdentity, Known
    <1>6. untold = {} => untold' = {}
        BY <1>1, <1>4 DEF Announce, Same, TypeOK
    <1>7. QED BY <1>1, <1>4, <1>5, <1>6, ThreadsAssumption DEF TypeOK

LEMMA LinkToFacts ==
    ASSUME NEW r \in Record, NEW n \in Nat, RecordSound(r, n), NEW t \in Terminals
    PROVE  LET s == LinkTo(r, t) IN
           /\ s \in Record /\ s.key = r.key /\ s.terminal = t /\ s.archived = FALSE
           /\ RecordSound(s, n) /\ OutcomeKept(r, s)
    <1> DEFINE s == LinkTo(r, t)
    <1>1. /\ s \in Record /\ s.key = r.key /\ s.terminal = t /\ s.archived = FALSE
          /\ s.turn = r.turn /\ s.pending = r.pending /\ s.status = r.status
          /\ s.detail = r.detail
        BY DEF LinkTo, Record
    <1> HIDE DEF s
    <1>2. QED BY <1>1 DEF RecordSound, RecordCoherent, OutcomeKept, s

LEMMA LinkedEffect ==
    ASSUME TypeOK, Store, NEW id \in ThreadIds, NEW t \in Terminals,
           Linked(id, t), nextTurn' = nextTurn
    PROVE  /\ TablesTyped
           /\ Same(id) \/ Fresh(id)
           /\ GoesOn(id) /\ view'[id].terminal = t /\ view'[id].archived = FALSE
           /\ \A x \in ThreadIds \ {id} : Same(x)
           /\ active' = active /\ terms' = terms
           /\ untold = {} => untold' = {}
    <1> DEFINE record == LinkTo(view[id], t)
    <1> USE DEF Store
    <1>1. /\ Known(id) /\ Settle(id, record)
          /\ active' = active /\ terms' = terms /\ Announce({id})
        BY DEF Linked
    <1>2. view[id] \in Record /\ RecordSound(view[id], nextTurn) /\ nextTurn \in Nat
        BY <1>1, KnownFacts DEF TypeOK
    <1>3. /\ record \in Record /\ record.key = view[id].key /\ record.terminal = t
          /\ record.archived = FALSE /\ OutcomeKept(view[id], record)
          /\ RecordSound(record, nextTurn)
        BY <1>2, LinkToFacts
    <1> HIDE DEF record
    <1>4. /\ TablesTyped /\ view'[id] = record
          /\ Same(id) \/ Fresh(id)
          /\ \A x \in ThreadIds \ {id} : Same(x)
        BY <1>1, <1>3, SettleFacts
    <1>5. GoesOn(id)
        BY <1>1, <1>3, <1>4, NoneAssumption DEF GoesOn, Known
    <1>6. untold = {} => untold' = {}
        BY <1>1, <1>4 DEF Announce, Same
    <1>7. QED BY <1>1, <1>3, <1>4, <1>5, <1>6

(* The thread lost its link to terminal t, and only that. *)
UnlinkedFrom(id, t) ==
    /\ Fresh(id) /\ GoesOn(id)
    /\ view[id].terminal = t /\ view'[id].terminal = None
    /\ view'[id].archived = view[id].archived

LEMMA RemovedEffect ==
    ASSUME TypeOK, Store, NEW t \in Terminals, terms[t] = "deleted", Removed(t),
           nextTurn' = nextTurn
    PROVE  /\ TablesTyped
           /\ \A x \in ThreadIds : Same(x) \/ UnlinkedFrom(x, t)
           /\ active' \in {active, [active EXCEPT ![t] = None]}
           /\ terms' = terms
           /\ failures' \in {failures, failures + 1} /\ (failures' # failures => MayFail)
           /\ untold = {} => untold' = {}
    <1> USE DEF Store
    <1> DEFINE D == {id \in ThreadIds : Known(id) /\ view[id].terminal = t}
               record(id) == CoerceRecord([view[id] EXCEPT !.terminal = None])
    <1>1. PICK failing \in SUBSET D :
            /\ Refused(Unlinked(t), failing)
            /\ Persist(Without(Unlinked(t), failing))
            /\ active' \in {active, [active EXCEPT ![t] = None]}
            /\ terms' = terms
            /\ Announce(D \ failing)
        BY DEF Removed, Unlinked
    <1>2. ASSUME NEW id \in D
          PROVE  /\ record(id) \in Record /\ record(id).key = view[id].key
                 /\ record(id).terminal = None
                 /\ record(id).archived = view[id].archived
                 /\ OutcomeKept(view[id], record(id))
                 /\ RecordSound(record(id), nextTurn)
        <2> DEFINE q == [view[id] EXCEPT !.terminal = None]
        <2>1. view[id] \in Record /\ RecordSound(view[id], nextTurn) /\ nextTurn \in Nat
            BY KnownFacts DEF TypeOK
        <2>2. /\ q \in Record /\ q.key = view[id].key /\ q.terminal = None
              /\ q.archived = view[id].archived
              /\ q.turn = view[id].turn /\ q.pending = view[id].pending
              /\ q.status = view[id].status /\ q.detail = view[id].detail
            BY <2>1 DEF Record
        <2>3. RecordSound(q, nextTurn)
            BY <2>1, <2>2 DEF RecordSound, RecordCoherent
        <2> HIDE DEF q
        <2>4. /\ CoerceRecord(q) \in Record /\ SameIdentity(q, CoerceRecord(q))
              /\ OutcomeKept(q, CoerceRecord(q)) /\ RecordSound(CoerceRecord(q), nextTurn)
            BY <2>1, <2>2, <2>3, CoercedFacts
        <2>5. QED BY <2>2, <2>4 DEF SameIdentity, OutcomeKept, q
    <1> DEFINE f == [x \in D \ failing |-> record(x)]
    <1>3. Without(Unlinked(t), failing) = f
        BY DEF Without, Unlinked
    <1>4. /\ TablesTyped
          /\ \A x \in D \ failing : rows'[x] = record(x) /\ view'[x] = record(x)
          /\ \A x \in ThreadIds \ (D \ failing) : Same(x)
        <2>1. D \ failing \in SUBSET ThreadIds
              /\ f \in [D \ failing -> Record \cup {None}] /\ Persist(f)
            BY <1>1, <1>2, <1>3
        <2> HIDE DEF record
        <2>2. /\ TablesTyped
              /\ \A x \in D \ failing : rows'[x] = f[x] /\ view'[x] = f[x]
              /\ \A x \in ThreadIds \ (D \ failing) : Same(x)
            BY <2>1, PersistFacts
        <2>3. QED BY <2>2
    <1> HIDE DEF record
    <1>5. ASSUME NEW x \in D \ failing PROVE UnlinkedFrom(x, t)
        <2>1. Storable(record(x))
            BY <1>2 DEF Storable
        <2>2. Fresh(x) /\ GoesOn(x)
            BY <1>2, <1>4, <2>1, NoneAssumption DEF Fresh, GoesOn, Known
        <2>3. QED BY <1>2, <1>4, <2>2 DEF UnlinkedFrom
    <1>6. untold = {} => untold' = {}
        <2>1. \A x \in ThreadIds \ (D \ failing) : view'[x] = view[x]
            BY <1>4 DEF Same
        <2>2. \A u \in Terminals : active'[u] # active[u] => terms'[u] = "deleted"
            BY <1>1 DEF TypeOK
        <2>3. QED BY <1>1, <2>1, <2>2 DEF Announce
    <1>7. failures' \in {failures, failures + 1} /\ (failures' # failures => MayFail)
        BY <1>1 DEF Refused
    <1>8. QED BY <1>1, <1>4, <1>5, <1>6, <1>7

-----------------------------------------------------------------------------
(* How each part of the invariant is kept.                                 *)

LEMMA SafeStore ==
    ASSUME SafeInv
    PROVE  TypeOK /\ Store
    BY ThreadsAssumption DEF SafeInv, Store, ActiveOnce, Held, Holders, TypeOK

LEMMA TablesKept ==
    ASSUME TypeOK, UNCHANGED <<rows, view>>
    PROVE  TablesTyped /\ \A id \in ThreadIds : Same(id)
    BY DEF TypeOK, TablesTyped, Same

LEMMA OneThreadKept ==
    ASSUME TypeOK, OneThreadPerConversation, identities' = identities,
           \A id \in ThreadIds : Same(id) \/ GoesOn(id)
    PROVE  OneThreadPerConversation'
    <1>1. \A id \in ThreadIds : /\ Known(id)' <=> Known(id)
                                /\ Known(id) => view'[id].key = view[id].key
        BY DEF Same, GoesOn, Known
    <1>2. QED BY <1>1 DEF OneThreadPerConversation, TypeOK, Known, Record

(* Nothing becomes active, and nothing that is active is archived. *)
LEMMA ActiveKept ==
    ASSUME TypeOK, ActiveOnce,
           \A t \in Terminals : active'[t] \in {active[t], None},
           \A id \in ThreadIds :
              Same(id) \/ (GoesOn(id) /\ (view'[id].archived => view[id].archived)),
           \A id \in opening' : id \in opening \/ (id \in ThreadIds /\ Known(id))
    PROVE  ActiveOnce'
    <1>1. \A id \in ThreadIds : Known(id)' <=> Known(id)
        BY DEF Same, GoesOn, Known
    <1>2. \A id \in ThreadIds : Known(id) /\ view'[id].archived => view[id].archived
        BY DEF Same
    <1>3. \A id \in ThreadIds : Holders(id)' \subseteq Holders(id)
        BY ThreadsAssumption DEF Holders
    <1>4. QED BY <1>1, <1>2, <1>3 DEF ActiveOnce, Held, TypeOK

LEMMA TerminalsKept ==
    ASSUME TypeOK, TerminalsSound, TermsForward,
           \A t \in Terminals : active'[t] \in {active[t], None},
           sweep' \subseteq sweep \cup {t \in Terminals : active[t] # None},
           verdict' \in {verdict, NoVerdict}
    PROVE  TerminalsSound'
    BY DEF TypeOK, TerminalsSound, TermsForward, NoVerdict

LEMMA OpensKept ==
    ASSUME OpensSound, UNCHANGED openVars
    PROVE  OpensSound'
    BY DEF OpensSound, openVars

(* A step that writes no record and moves no projection. *)
LEMMA QuietStep ==
    ASSUME SafeInv, TypeOK', UNCHANGED <<rows, view, identities, active, nextTurn, untold>>,
           TermsForward,
           \A id \in opening' : id \in opening \/ (id \in ThreadIds /\ Known(id)),
           sweep' \subseteq sweep \cup {t \in Terminals : active[t] # None},
           TerminalsSound', OpensSound'
    PROVE  SafeInv'
    <1>1. TypeOK /\ Store
        BY SafeStore
    <1>2. TablesTyped /\ \A id \in ThreadIds : Same(id)
        BY <1>1, TablesKept
    <1>3. RowsSound' /\ ViewMatchesStore'
        BY <1>1, <1>2, StoreKept DEF Store, TypeOK
    <1>4. OneThreadPerConversation'
        BY <1>1, <1>2, OneThreadKept DEF Store
    <1>5. ActiveOnce'
        BY <1>1, <1>2, ActiveKept DEF SafeInv
    <1>6. ChangesAnnounced'
        BY DEF SafeInv, ChangesAnnounced
    <1>7. QED BY <1>3, <1>4, <1>5, <1>6 DEF SafeInv

(* A step that writes records and may let go of terminals. *)
LEMMA WritingStep ==
    ASSUME SafeInv, TypeOK', UNCHANGED <<identities, terms>>,
           nextTurn' \in Nat, nextTurn' >= nextTurn,
           \A id \in ThreadIds :
              \/ Same(id)
              \/ /\ Same(id) \/ Fresh(id)
                 /\ GoesOn(id) /\ (view'[id].archived => view[id].archived),
           \A t \in Terminals : active'[t] \in {active[t], None},
           opening' = opening \/ opening' \subseteq opening, sweep' = sweep,
           verdict' \in {verdict, NoVerdict}, OpensSound', untold' = {}
    PROVE  SafeInv'
    <1>1. TypeOK /\ Store
        BY SafeStore
    <1>2. TermsForward
        BY DEF TermsForward, HasRecord
    <1>3. RowsSound' /\ ViewMatchesStore'
        BY <1>1, <1>2, StoreKept DEF Store
    <1>4. OneThreadPerConversation'
        BY <1>1, OneThreadKept DEF Store
    <1>5. ActiveOnce'
        BY <1>1, ActiveKept DEF SafeInv
    <1>6. TerminalsSound'
        BY <1>1, <1>2, TerminalsKept DEF SafeInv
    <1>7. ChangesAnnounced'
        BY DEF ChangesAnnounced
    <1>8. QED BY <1>3, <1>4, <1>5, <1>6, <1>7 DEF SafeInv

-----------------------------------------------------------------------------
(* The invariant, action by action: terminals and the sweep.               *)

LEMMA SafeCreateTerminal ==
    ASSUME SafeInv, NEW t \in Terminals, CreateTerminal(t)
    PROVE  SafeInv'
    <1>1. TypeOK' /\ TermsForward
        BY DEF SafeInv, CreateTerminal, TypeOK, TermStatus, TermsForward, HasRecord,
               threadVars, openVars, sweepVars, bounds, ghosts
    <1>2. TerminalsSound'
        BY <1>1, TerminalsKept
           DEF SafeInv, CreateTerminal, threadVars, sweepVars
    <1>3. OpensSound'
        BY OpensKept DEF SafeInv, CreateTerminal
    <1>4. QED BY <1>1, <1>2, <1>3, QuietStep
             DEF CreateTerminal, threadVars, openVars, sweepVars, bounds

LEMMA SafeTerminalStatus ==
    ASSUME SafeInv, NEW t \in Terminals, TerminalStatus(t)
    PROVE  SafeInv'
    <1>1. TypeOK' /\ TermsForward
        <2>1. \E s \in {"running", "unreachable", "exited", "missing"} :
                 terms' = [terms EXCEPT ![t] = s]
            BY DEF TerminalStatus
        <2>2. terms[t] \notin {"unborn", "deleted"}
            BY DEF TerminalStatus, Up
        <2>3. QED BY <2>1, <2>2
            DEF SafeInv, TerminalStatus, TypeOK, TermStatus, TermsForward, HasRecord,
                threadVars, openVars, sweepVars, bounds, ghosts
    <1>2. TerminalsSound'
        BY <1>1, TerminalsKept
           DEF SafeInv, TerminalStatus, threadVars, sweepVars
    <1>3. OpensSound'
        BY OpensKept DEF SafeInv, TerminalStatus
    <1>4. QED BY <1>1, <1>2, <1>3, QuietStep
             DEF TerminalStatus, threadVars, openVars, sweepVars, bounds

(* A deletion empties the links of the rows; the view keeps its own. *)
LEMMA DeleteRowKept ==
    ASSUME TypeOK, Store, TerminalsSound, NEW t \in Terminals, HasRecord(t), DeleteRow(t),
           UNCHANGED <<view, identities, nextTurn, active, sweep, verdict>>
    PROVE  /\ RowsSound' /\ ViewMatchesStore' /\ OneThreadPerConversation'
           /\ TerminalsSound' /\ rows' \in [ThreadIds -> Record \cup {None}]
    <1>1. terms' = [terms EXCEPT ![t] = "deleted"]
        BY DEF DeleteRow
    <1>2. ASSUME NEW id \in ThreadIds
          PROVE  /\ rows'[id] \in Record \cup {None}
                 /\ rows'[id] # None => Storable(rows[id])' /\ RecordSound(rows'[id], nextTurn')
                 /\ \/ view'[id] = rows'[id]
                    \/ /\ Known(id)' /\ view'[id].terminal # None
                       /\ terms'[view'[id].terminal] = "deleted"
                       /\ rows'[id] = [view'[id] EXCEPT !.terminal = None]
        <2>1. CASE rows[id] # None /\ rows[id].terminal = t
            <3>1. rows[id] \in Record /\ RecordSound(rows[id], nextTurn)
                BY <2>1 DEF TypeOK, Store, RowsSound
            <3>2. rows'[id] = [rows[id] EXCEPT !.terminal = None]
                BY <2>1 DEF DeleteRow
            <3>3. view[id] = rows[id]
                <4>1. CASE view[id] # rows[id]
                    <5>1. Known(id) /\ rows[id] = [view[id] EXCEPT !.terminal = None]
                        BY <4>1 DEF Store, ViewMatchesStore
                    <5>2. view[id] \in Record
                        BY <5>1 DEF Known, TypeOK
                    <5>3. rows[id].terminal = None
                        BY <5>1, <5>2 DEF Record
                    <5>4. QED BY <2>1, <5>3, NoneAssumption
                <4>2. QED BY <4>1
            <3>4. /\ rows'[id] \in Record /\ rows'[id].terminal = None
                  /\ rows'[id].turn = rows[id].turn /\ rows'[id].pending = rows[id].pending
                  /\ rows'[id].status = rows[id].status /\ rows'[id].detail = rows[id].detail
                BY <3>1, <3>2 DEF Record
            <3>5. RecordSound(rows'[id], nextTurn')
                BY <3>1, <3>4 DEF RecordSound, RecordCoherent
            <3>6. Storable(rows[id])'
                BY <3>4 DEF Storable
            <3>7. /\ Known(id)' /\ view'[id].terminal = t /\ t # None
                  /\ terms'[t] = "deleted"
                  /\ rows'[id] = [view'[id] EXCEPT !.terminal = None]
                BY <1>1, <2>1, <3>2, <3>3, NoneAssumption DEF Known, TypeOK
            <3>8. QED BY <3>4, <3>5, <3>6, <3>7
        <2>2. CASE ~(rows[id] # None /\ rows[id].terminal = t)
            <3>1. rows'[id] = rows[id]
                BY <2>2 DEF DeleteRow
            <3>2. rows[id] # None => Storable(rows[id])'
                BY <1>1, <2>2, <3>1 DEF Storable, HasRecord, Store, RowsSound, TypeOK
            <3>3. rows'[id] # None => RecordSound(rows'[id], nextTurn')
                BY <3>1 DEF Store, RowsSound
            <3>4. \/ view'[id] = rows'[id]
                  \/ /\ Known(id)' /\ view'[id].terminal # None
                     /\ terms'[view'[id].terminal] = "deleted"
                     /\ rows'[id] = [view'[id] EXCEPT !.terminal = None]
                <4>1. CASE view[id] = rows[id]
                    BY <3>1, <4>1
                <4>2. CASE view[id] # rows[id]
                    <5>1. /\ Known(id) /\ view[id].terminal # None
                          /\ terms[view[id].terminal] = "deleted"
                          /\ rows[id] = [view[id] EXCEPT !.terminal = None]
                        BY <4>2 DEF Store, ViewMatchesStore
                    <5>2. view[id].terminal \in Terminals
                        BY <5>1 DEF Known, TypeOK, Record
                    <5>3. terms'[view[id].terminal] = "deleted"
                        BY <1>1, <5>1, <5>2 DEF TypeOK
                    <5>4. QED BY <3>1, <5>1, <5>3 DEF Known
                <4>3. QED BY <4>1, <4>2
            <3>5. QED BY <3>1, <3>2, <3>3, <3>4 DEF TypeOK
        <2>3. QED BY <2>1, <2>2
    <1>3. rows' \in [ThreadIds -> Record \cup {None}]
        BY <1>2 DEF DeleteRow
    <1>4. RowsSound' /\ ViewMatchesStore'
        BY <1>2 DEF RowsSound, ViewMatchesStore
    <1>5. OneThreadPerConversation'
        BY DEF Store, OneThreadPerConversation, Known
    <1>6. TerminalsSound'
        BY <1>1 DEF TerminalsSound, TypeOK
    <1>7. QED BY <1>3, <1>4, <1>5, <1>6

LEMMA SafeDeleteTerminal ==
    ASSUME SafeInv, NEW t \in Terminals, DeleteTerminal(t)
    PROVE  SafeInv'
    <1>1. TypeOK /\ Store
        BY SafeStore
    <1>2. /\ RowsSound' /\ ViewMatchesStore' /\ OneThreadPerConversation'
          /\ TerminalsSound' /\ rows' \in [ThreadIds -> Record \cup {None}]
        BY <1>1, DeleteRowKept DEF SafeInv, DeleteTerminal, sweepVars, bounds
    <1>3. TypeOK'
        BY <1>1, <1>2 DEF TypeOK, DeleteTerminal, DeleteRow, TermStatus, openVars,
                          sweepVars, bounds, ghosts
    <1>4. ActiveOnce'
        BY DEF SafeInv, ActiveOnce, Held, Holders, Known, DeleteTerminal, openVars
    <1>5. OpensSound'
        BY OpensKept DEF SafeInv, DeleteTerminal
    <1>6. ChangesAnnounced'
        BY DEF SafeInv, ChangesAnnounced, DeleteTerminal
    <1>7. QED BY <1>2, <1>3, <1>4, <1>5, <1>6 DEF SafeInv

LEMMA SafeSweepStart ==
    ASSUME SafeInv, SweepStart
    PROVE  SafeInv'
    <1>1. TypeOK' /\ TermsForward
        BY DEF SafeInv, SweepStart, TypeOK, TermsForward, HasRecord,
               threadVars, openVars, termVars, bounds, ghosts
    <1>2. TerminalsSound'
        BY <1>1, TerminalsKept DEF SafeInv, SweepStart, termVars
    <1>3. OpensSound'
        BY OpensKept DEF SafeInv, SweepStart
    <1>4. QED BY <1>1, <1>2, <1>3, QuietStep
             DEF SweepStart, threadVars, openVars, bounds

LEMMA SafeSweepLook ==
    ASSUME SafeInv, NEW t \in Terminals, SweepLook(t)
    PROVE  SafeInv'
    <1>1. TypeOK' /\ TermsForward
        BY DEF SafeInv, SweepLook, TypeOK, TermsForward, HasRecord, NoVerdict,
               threadVars, openVars, termVars, bounds, ghosts
    <1>2. TerminalsSound'
        BY NoneAssumption
           DEF SafeInv, TypeOK, TermStatus, SweepLook, TerminalsSound, HasRecord,
               NoVerdict, termVars
    <1>3. OpensSound'
        BY OpensKept DEF SafeInv, SweepLook
    <1>4. QED BY <1>1, <1>2, <1>3, QuietStep
             DEF SweepLook, threadVars, openVars, bounds

-----------------------------------------------------------------------------
(* Observation and removal.                                                *)

LEMMA UntouchedGoesOn ==
    ASSUME NEW id \in ThreadIds, Untouched(id)
    PROVE  Same(id) \/ (/\ Same(id) \/ Fresh(id)
                        /\ GoesOn(id) /\ (view'[id].archived => view[id].archived))
    BY DEF Untouched, SameIdentity

LEMMA SafeObserveSession ==
    ASSUME SafeInv, NEW t \in Terminals, NEW k \in Keys, NEW report \in Reports,
           ObserveSession(t, k, report)
    PROVE  SafeInv'
    <1>1. TypeOK /\ Store
        BY SafeStore
    <1>2. /\ untold' = {} /\ terms[t] # "unborn" /\ terms' = terms
          /\ nextTurn' \in Nat /\ nextTurn' >= nextTurn /\ nextTurn' <= MaxTurns
        BY <1>1, ObserveSessionEffect DEF SafeInv, ChangesAnnounced
    <1>3. PICK id \in ThreadIds : Observation(t, k, id)
        BY <1>1, ObserveSessionEffect
    <1>4. /\ id # None /\ Fresh(id) /\ view'[id] # None /\ view'[id].key = k
          /\ view'[id].archived = FALSE
          /\ identities' = [identities EXCEPT ![k] = id]
          /\ active' = TakeOver(t, id) /\ TablesTyped
          /\ identities[k] = id \/ (identities[k] = None /\ ~Known(id))
        BY <1>3, NoneAssumption, ThreadsAssumption DEF Observation, Fresh
    <1>5. \A x \in ThreadIds \ {id} :
             /\ Same(x) \/ Fresh(x)
             /\ Known(x)' <=> Known(x)
             /\ Known(x) => /\ view'[x].key = view[x].key
                            /\ view'[x].archived => view[x].archived
        BY <1>3, UntouchedGoesOn DEF Observation, Same, GoesOn, Known
    <1>6. TypeOK'
        <2>1. failures' \in 0 .. MaxFailures
            <3>1. failures' = failures \/ (failures < MaxFailures /\ failures' = failures + 1)
                BY DEF ObserveSession, Refused, MayFail
            <3>2. QED BY <1>1, <3>1, ThreadsAssumption DEF TypeOK
        <2>2. identities' \in [Keys -> ThreadIds \cup {None}]
              /\ active' \in [Terminals -> ThreadIds \cup {None}]
            BY <1>1, <1>4 DEF TypeOK, TakeOver
        <2>3. writer' \in [Terminals -> Keys \cup {None}]
            BY <1>1 DEF TypeOK, ObserveSession
        <2>4. UNCHANGED <<openVars, removing, sweepVars, crashes, stray>>
            BY DEF ObserveSession
        <2>5. QED BY <1>1, <1>2, <1>4, <2>1, <2>2, <2>3, <2>4
                 DEF TypeOK, TablesTyped, openVars, sweepVars
    <1>7. RowsSound' /\ ViewMatchesStore'
        <2>1. TermsForward
            BY <1>2 DEF TermsForward, HasRecord
        <2>2. QED BY <1>1, <1>2, <1>4, <1>5, <2>1, StoreKept DEF Store
    <1>8. OneThreadPerConversation'
        <2>1. ASSUME NEW j \in Keys, identities'[j] # None
              PROVE  Known(identities[j])' /\ view'[identities'[j]].key = j
            <3>1. CASE j = k
                BY <1>1, <1>4, <3>1 DEF TypeOK, Known
            <3>2. CASE j # k
                <4>1. identities'[j] = identities[j] /\ identities[j] \in ThreadIds
                    BY <1>1, <1>4, <2>1, <3>2 DEF TypeOK
                <4>2. Known(identities[j]) /\ view[identities[j]].key = j
                    BY <1>1, <2>1, <4>1 DEF Store, OneThreadPerConversation
                <4>3. identities[j] # id
                    BY <1>1, <1>4, <3>2, <4>2, ThreadsAssumption
                       DEF Store, OneThreadPerConversation
                <4>4. QED BY <1>5, <4>1, <4>2, <4>3 DEF Known
            <3>3. QED BY <3>1, <3>2
        <2>2. ASSUME NEW x \in ThreadIds, view'[x] # None
              PROVE  identities'[view'[x].key] = x
            <3>1. CASE x = id
                BY <1>1, <1>4, <3>1 DEF TypeOK
            <3>2. CASE x # id
                <4>1. Known(x) /\ view'[x].key = view[x].key /\ view[x].key \in Keys
                      /\ identities[view[x].key] = x
                    BY <1>1, <1>5, <2>2, <3>2
                       DEF Known, TypeOK, Record, Store, OneThreadPerConversation
                <4>2. view[x].key # k
                    BY <1>4, <3>2, <4>1, ThreadsAssumption
                <4>3. QED BY <1>1, <1>4, <4>1, <4>2 DEF TypeOK
            <3>3. QED BY <3>1, <3>2
        <2>3. QED BY <2>1, <2>2 DEF OneThreadPerConversation, Known
    <1>9. ActiveOnce'
        <2>1. \A u \in Terminals : active'[u] = id <=> u = t
            BY <1>4, ThreadsAssumption DEF TakeOver
        <2>2. \A x \in ThreadIds \ {id} : \A u \in Terminals :
                 active'[u] = x => active[u] = x
            BY <1>4, ThreadsAssumption DEF TakeOver
        <2>3. opening' = opening /\ opening \subseteq ThreadIds
            BY <1>1 DEF TypeOK, ObserveSession, openVars
        <2>4. \A x \in ThreadIds : \A u, v \in Holders(x)' : u = v
            BY <2>1, <2>2 DEF SafeInv, ActiveOnce, Holders
        <2>5. \A x \in ThreadIds : Held(x)' => Known(x)' /\ ~view'[x].archived
            BY <1>4, <1>5, <2>2 DEF SafeInv, ActiveOnce, Held, Holders, Known
        <2>6. \A x \in opening' : Known(x)'
            BY <1>4, <1>5, <2>3 DEF SafeInv, ActiveOnce, Known
        <2>7. QED BY <2>4, <2>5, <2>6 DEF ActiveOnce
    <1>10. TerminalsSound'
        <2>1. \A u \in Terminals : active'[u] # None => u = t \/ active[u] # None
            BY <1>4 DEF TakeOver
        <2>2. UNCHANGED <<sweep, verdict>>
            BY DEF ObserveSession, sweepVars
        <2>3. QED BY <1>2, <2>1, <2>2 DEF SafeInv, TerminalsSound
    <1>11. OpensSound'
        BY OpensKept DEF SafeInv, ObserveSession
    <1>12. QED BY <1>2, <1>6, <1>7, <1>8, <1>9, <1>10, <1>11
              DEF SafeInv, ChangesAnnounced

LEMMA SafeObserveStatus ==
    ASSUME SafeInv, NEW k \in Keys, NEW report \in Reports, ObserveStatus(k, report)
    PROVE  SafeInv'
    <1>1. TypeOK /\ Store
        BY SafeStore
    <1>2. /\ TablesTyped /\ \A x \in ThreadIds : Untouched(x)
          /\ untold' = {}
          /\ nextTurn' \in Nat /\ nextTurn' >= nextTurn /\ nextTurn' <= MaxTurns
        BY <1>1, ObserveStatusEffect DEF SafeInv, ChangesAnnounced
    <1>3. UNCHANGED <<identities, active, openVars, termVars, sweepVars, failures,
                      crashes, ghosts>>
        BY DEF ObserveStatus
    <1>4. TypeOK'
        BY <1>1, <1>2, <1>3
           DEF TypeOK, TablesTyped, openVars, termVars, sweepVars, ghosts
    <1>5. OpensSound'
        BY <1>3, OpensKept DEF SafeInv
    <1>6. QED BY <1>2, <1>3, <1>4, <1>5, UntouchedGoesOn, WritingStep
             DEF openVars, termVars, sweepVars

LEMMA SafeDeactivate ==
    ASSUME SafeInv, NEW t \in Terminals, Deactivate(t)
    PROVE  SafeInv'
    <1>1. TypeOK /\ Store
        BY SafeStore
    <1>2. /\ Deactivated(t)
          /\ UNCHANGED <<identities, openVars, removing, sweepVars, bounds, ghosts>>
        BY DEF Deactivate
    <1>3. /\ TablesTyped /\ \A x \in ThreadIds : Untouched(x)
          /\ active' = [active EXCEPT ![t] = None] /\ terms' = terms
          /\ untold' = {}
        BY <1>1, <1>2, DeactivatedEffect DEF SafeInv, ChangesAnnounced, bounds
    <1>4. TypeOK'
        BY <1>1, <1>2, <1>3
           DEF TypeOK, TablesTyped, openVars, sweepVars, bounds, ghosts
    <1>5. OpensSound'
        BY <1>2, OpensKept DEF SafeInv
    <1>6. \A u \in Terminals : active'[u] \in {active[u], None}
        BY <1>1, <1>3 DEF TypeOK
    <1>7. QED BY <1>1, <1>2, <1>3, <1>4, <1>5, <1>6, UntouchedGoesOn, WritingStep
             DEF openVars, sweepVars, bounds, TypeOK

LEMMA UnlinkedGoesOn ==
    ASSUME NEW id \in ThreadIds, NEW t, Same(id) \/ UnlinkedFrom(id, t)
    PROVE  Same(id) \/ (/\ Same(id) \/ Fresh(id)
                        /\ GoesOn(id) /\ (view'[id].archived => view[id].archived))
    BY DEF UnlinkedFrom

LEMMA SafeTerminalRemoved ==
    ASSUME SafeInv, NEW t \in Terminals, TerminalRemoved(t)
    PROVE  SafeInv'
    <1>1. TypeOK /\ Store
        BY SafeStore
    <1>2. /\ Removed(t) /\ t \in removing /\ terms[t] = "deleted"
          /\ removing' = removing \ {t}
          /\ UNCHANGED <<identities, openVars, sweepVars, nextTurn, crashes, ghosts>>
        BY <1>1 DEF TerminalRemoved, TypeOK
    <1>3. /\ TablesTyped
          /\ \A x \in ThreadIds : Same(x) \/ UnlinkedFrom(x, t)
          /\ active' \in {active, [active EXCEPT ![t] = None]} /\ terms' = terms
          /\ failures' \in {failures, failures + 1} /\ (failures' # failures => MayFail)
          /\ untold' = {}
        BY <1>1, <1>2, RemovedEffect DEF SafeInv, ChangesAnnounced
    <1>4. TypeOK'
        BY <1>1, <1>2, <1>3, ThreadsAssumption
           DEF TypeOK, TablesTyped, openVars, sweepVars, ghosts, MayFail
    <1>5. OpensSound'
        BY <1>2, OpensKept DEF SafeInv
    <1>6. \A u \in Terminals : active'[u] \in {active[u], None}
        BY <1>1, <1>3 DEF TypeOK
    <1>7. QED BY <1>1, <1>2, <1>3, <1>4, <1>5, <1>6, UnlinkedGoesOn, WritingStep
             DEF openVars, sweepVars, TypeOK

LEMMA SafeSweepAct ==
    ASSUME SafeInv, SweepAct
    PROVE  SafeInv'
    <1> DEFINE t == verdict.terminal
    <1>1. TypeOK /\ Store /\ t \in Terminals
        BY SafeStore DEF SweepAct, TypeOK
    <1>2. verdict' = NoVerdict /\ UNCHANGED <<openVars, removing, sweep, ghosts>>
        BY DEF SweepAct
    <1>3. OpensSound'
        BY <1>2, OpensKept DEF SafeInv
    <1>4. CASE verdict.gone /\ Removed(t) /\ UNCHANGED <<identities, nextTurn, crashes>>
        <2>1. terms[t] = "deleted"
            BY <1>4 DEF SafeInv, TerminalsSound
        <2>2. /\ TablesTyped
              /\ \A x \in ThreadIds : Same(x) \/ UnlinkedFrom(x, t)
              /\ active' \in {active, [active EXCEPT ![t] = None]} /\ terms' = terms
              /\ failures' \in {failures, failures + 1} /\ (failures' # failures => MayFail)
              /\ untold' = {}
            <3> HIDE DEF t
            <3>1. QED BY <1>1, <1>4, <2>1, RemovedEffect DEF SafeInv, ChangesAnnounced
        <2>3. TypeOK'
            BY <1>1, <1>2, <1>4, <2>2, ThreadsAssumption
               DEF TypeOK, TablesTyped, openVars, ghosts, MayFail, NoVerdict
        <2>4. \A u \in Terminals : active'[u] \in {active[u], None}
            BY <1>1, <2>2 DEF TypeOK
        <2>5. QED BY <1>1, <1>2, <1>3, <1>4, <2>2, <2>3, <2>4, UnlinkedGoesOn,
                     WritingStep DEF openVars, TypeOK
    <1>5. CASE Deactivated(t) /\ UNCHANGED <<identities, bounds>>
        <2>1. /\ TablesTyped /\ \A x \in ThreadIds : Untouched(x)
              /\ active' = [active EXCEPT ![t] = None] /\ terms' = terms
              /\ untold' = {}
            <3> HIDE DEF t
            <3>1. QED BY <1>1, <1>5, DeactivatedEffect DEF SafeInv, ChangesAnnounced, bounds
        <2>2. TypeOK'
            BY <1>1, <1>2, <1>5, <2>1
               DEF TypeOK, TablesTyped, openVars, bounds, ghosts, NoVerdict
        <2>3. \A u \in Terminals : active'[u] \in {active[u], None}
            BY <1>1, <2>1 DEF TypeOK
        <2>4. QED BY <1>1, <1>2, <1>3, <1>5, <2>1, <2>2, <2>3, UntouchedGoesOn,
                     WritingStep DEF openVars, bounds, TypeOK
    <1>6. CASE /\ \/ UNCHANGED failures
                  \/ MayFail /\ failures' = failures + 1
               /\ UNCHANGED <<threadVars, active, terms, nextTurn, crashes, untold>>
        <2>1. TypeOK'
            BY <1>1, <1>2, <1>6, ThreadsAssumption
               DEF TypeOK, threadVars, openVars, ghosts, MayFail, NoVerdict
        <2>2. TermsForward
            BY <1>6 DEF TermsForward, HasRecord
        <2>3. TerminalsSound'
            BY <1>1, <1>2, <1>6, <2>2, TerminalsKept DEF SafeInv
        <2>4. QED BY <1>2, <1>3, <1>6, <2>1, <2>2, <2>3, QuietStep
                 DEF threadVars, openVars
    <1>7. QED BY <1>4, <1>5, <1>6 DEF SweepAct

-----------------------------------------------------------------------------
(* PATCH, DELETE and the opens.                                            *)

LEMMA SafeUpdate ==
    ASSUME SafeInv, NEW id \in ThreadIds, NEW archived \in BOOLEAN, Update(id, archived)
    PROVE  SafeInv'
    <1> DEFINE record == [view[id] EXCEPT !.archived = archived]
    <1>1. TypeOK /\ Store
        BY SafeStore
    <1>2. /\ Known(id) /\ (archived => MayArchive(id))
          /\ Storable(view[id]) /\ Persist([x \in {id} |-> record])
          /\ UNCHANGED <<identities, active, openVars, termVars, sweepVars, bounds,
                         ghosts>>
          /\ Announce({id})
        BY DEF Update
    <1>3. view[id] \in Record /\ RecordSound(view[id], nextTurn)
        BY <1>1, <1>2, KnownFacts DEF Store
    <1>4. /\ record \in Record /\ record.key = view[id].key
          /\ record.terminal = view[id].terminal /\ record.archived = archived
          /\ record.turn = view[id].turn /\ record.pending = view[id].pending
          /\ record.status = view[id].status /\ record.detail = view[id].detail
        BY <1>3 DEF Record
    <1>5. RecordSound(record, nextTurn') /\ OutcomeKept(view[id], record)
          /\ Storable(record)
        BY <1>2, <1>3, <1>4
           DEF RecordSound, RecordCoherent, OutcomeKept, Storable, bounds
    <1> HIDE DEF record
    <1>6. /\ TablesTyped /\ view'[id] = record
          /\ Fresh(id) /\ GoesOn(id)
          /\ \A x \in ThreadIds \ {id} : Same(x)
        BY <1>1, <1>2, <1>4, <1>5, WriteEffect
    <1>7. TypeOK'
        BY <1>1, <1>2, <1>6, SafeStore
           DEF SafeInv, ChangesAnnounced, TypeOK, TablesTyped, Announce, Same, openVars,
               termVars, sweepVars, bounds, ghosts
    <1>8. RowsSound' /\ ViewMatchesStore'
        <2>1. TermsForward
            BY <1>2 DEF TermsForward, HasRecord, termVars
        <2>2. nextTurn' = nextTurn /\ nextTurn \in Nat
            BY <1>1, <1>2 DEF TypeOK, bounds
        <2>3. QED BY <1>1, <1>6, <2>1, <2>2, StoreKept DEF Store
    <1>9. OneThreadPerConversation'
        BY <1>1, <1>2, <1>6, OneThreadKept DEF Store
    <1>10. ActiveOnce'
        <2>1. \A x \in ThreadIds : /\ Known(x)' <=> Known(x)
                                   /\ Held(x) => (view'[x].archived => view[x].archived)
            BY <1>2, <1>4, <1>6 DEF Same, GoesOn, Known, MayArchive
        <2>2. active' = active /\ opening' = opening /\ opening \subseteq ThreadIds
            BY <1>1, <1>2 DEF openVars, TypeOK
        <2>3. QED BY <2>1, <2>2 DEF SafeInv, ActiveOnce, Held, Holders, Known
    <1>11. TerminalsSound'
        BY <1>2 DEF SafeInv, TerminalsSound, termVars, sweepVars
    <1>12. OpensSound'
        BY <1>2, OpensKept DEF SafeInv
    <1>13. ChangesAnnounced'
        BY <1>2, <1>6 DEF SafeInv, ChangesAnnounced, Announce, Same
    <1>14. QED BY <1>7, <1>8, <1>9, <1>10, <1>11, <1>12, <1>13 DEF SafeInv

LEMMA SafeDelete ==
    ASSUME SafeInv, NEW id \in ThreadIds, Delete(id)
    PROVE  SafeInv'
    <1>1. TypeOK /\ Store
        BY SafeStore
    <1>2. /\ Known(id) /\ ~Held(id) /\ id \notin opening
          /\ Persist([x \in {id} |-> None])
          /\ identities' = [k \in Keys |-> IF identities[k] = id THEN None
                                                                 ELSE identities[k]]
          /\ UNCHANGED <<active, openVars, termVars, sweepVars, bounds, ghosts>>
          /\ Announce({id})
        BY DEF Delete
    <1>3. /\ TablesTyped /\ rows'[id] = None /\ view'[id] = None
          /\ \A x \in ThreadIds \ {id} : Same(x)
        <2>1. {id} \in SUBSET ThreadIds
              /\ [x \in {id} |-> None] \in [{id} -> Record \cup {None}]
            OBVIOUS
        <2>2. QED BY <1>1, <1>2, <2>1, PersistFacts
    <1>4. untold' = {}
        BY <1>2, <1>3 DEF SafeInv, ChangesAnnounced, Announce, Same
    <1>5. TypeOK'
        BY <1>1, <1>2, <1>3, <1>4
           DEF TypeOK, TablesTyped, openVars, termVars, sweepVars, bounds, ghosts
    <1>6. RowsSound' /\ ViewMatchesStore'
        <2>1. TermsForward
            BY <1>2 DEF TermsForward, HasRecord, termVars
        <2>2. nextTurn' = nextTurn /\ nextTurn \in Nat
            BY <1>1, <1>2 DEF TypeOK, bounds
        <2>3. QED BY <1>1, <1>3, <2>1, <2>2, StoreKept DEF Store
    <1>7. \A x \in ThreadIds \ {id} : view'[x] = view[x]
        BY <1>3 DEF Same
    <1>8. OneThreadPerConversation'
        BY <1>1, <1>2, <1>3, <1>7, ThreadsAssumption
           DEF TypeOK, Store, OneThreadPerConversation, Known, Record
    <1>9. ActiveOnce'
        BY <1>1, <1>2, <1>3, <1>7
           DEF SafeInv, TypeOK, ActiveOnce, Held, Holders, Known, openVars
    <1>10. TerminalsSound'
        BY <1>2 DEF SafeInv, TerminalsSound, termVars, sweepVars
    <1>11. OpensSound'
        BY <1>2, OpensKept DEF SafeInv
    <1>12. QED BY <1>4, <1>5, <1>6, <1>8, <1>9, <1>10, <1>11
              DEF SafeInv, ChangesAnnounced

(* One open moves on, and the marks stay those of the resumes in flight. *)
LEMMA OpensMove ==
    ASSUME TypeOK, OpensSound, NEW o \in Openers,
           NEW pc \in OpenPc, NEW t \in Terminals \cup {None},
           open' = [open EXCEPT ![o] = [pc |-> pc, thread |-> open[o].thread,
                                        terminal |-> t]],
           open[o].pc # "idle",
           pc \in {"linking", "discarding", "converging"} => t # None,
           pc \in {"deciding", "waiting", "launching"} => t = None,
           \/ opening' = opening /\ (pc \in Resuming => open[o].pc \in Resuming)
           \/ open[o].thread \notin opening /\ opening' = opening \cup {open[o].thread}
    PROVE  /\ OpensSound'
           /\ open' \in [Openers -> [pc : OpenPc, thread : ThreadIds \cup {None},
                                     terminal : Terminals \cup {None}]]
    <1>1. /\ open'[o].pc = pc /\ open'[o].thread = open[o].thread
          /\ open'[o].terminal = t
          /\ \A p \in Openers : p # o => open'[p] = open[p]
        BY DEF TypeOK
    <1>2. OpensSound'
        BY <1>1 DEF OpensSound, Resuming
    <1>3. QED BY <1>2 DEF TypeOK

LEMMA GotoMoves ==
    ASSUME TypeOK, NEW o \in Openers, NEW pc \in OpenPc, Goto(o, pc)
    PROVE  open' = [open EXCEPT ![o] = [pc |-> pc, thread |-> open[o].thread,
                                        terminal |-> open[o].terminal]]
    <1>1. open[o] \in [pc : OpenPc, thread : ThreadIds \cup {None},
                       terminal : Terminals \cup {None}]
        BY DEF TypeOK
    <1>2. [open[o] EXCEPT !.pc = pc] = [pc |-> pc, thread |-> open[o].thread,
                                        terminal |-> open[o].terminal]
        BY <1>1
    <1>3. open' = [open EXCEPT ![o] = [open[o] EXCEPT !.pc = pc]]
        BY DEF TypeOK, Goto
    <1>4. QED BY <1>2, <1>3

(* An open that returns owned no resume. *)
LEMMA ReturnMoves ==
    ASSUME TypeOK, OpensSound, NEW o \in Openers, Return(o), opening' = opening
    PROVE  /\ OpensSound'
           /\ open' \in [Openers -> [pc : OpenPc, thread : ThreadIds \cup {None},
                                     terminal : Terminals \cup {None}]]
    BY DEF TypeOK, Return, Idle, OpenPc, OpensSound, Resuming

LEMMA SafeOpenCall ==
    ASSUME SafeInv, NEW o \in Openers, NEW id \in ThreadIds, OpenCall(o, id)
    PROVE  SafeInv'
    <1>1. TypeOK /\ OpensSound
        BY DEF SafeInv
    <1>2. OpensSound'
        BY <1>1, ThreadsAssumption DEF TypeOK, OpenCall, OpensSound, Resuming
    <1>3. TypeOK' /\ TermsForward
        BY <1>1 DEF OpenCall, TypeOK, OpenPc, TermsForward, HasRecord,
                    threadVars, termVars, sweepVars, bounds, ghosts
    <1>4. TerminalsSound'
        BY DEF SafeInv, TerminalsSound, OpenCall, termVars, sweepVars
    <1>5. QED BY <1>2, <1>3, <1>4, QuietStep
             DEF OpenCall, threadVars, sweepVars, bounds

LEMMA SafeOpenGiveUp ==
    ASSUME SafeInv, NEW o \in Openers, OpenGiveUp(o)
    PROVE  SafeInv'
    <1>1. TypeOK /\ OpensSound
        BY DEF SafeInv
    <1>2. OpensSound' /\ open' \in [Openers -> [pc : OpenPc, thread : ThreadIds \cup {None},
                                                terminal : Terminals \cup {None}]]
        BY <1>1, ReturnMoves DEF OpenGiveUp
    <1>3. TypeOK' /\ TermsForward
        BY <1>1, <1>2 DEF OpenGiveUp, TypeOK, TermsForward, HasRecord,
                          threadVars, termVars, sweepVars, bounds, ghosts
    <1>4. TerminalsSound'
        BY DEF SafeInv, TerminalsSound, OpenGiveUp, termVars, sweepVars
    <1>5. QED BY <1>2, <1>3, <1>4, QuietStep
             DEF OpenGiveUp, threadVars, sweepVars, bounds

LEMMA ReusableFacts ==
    ASSUME TypeOK, Store, NEW id \in ThreadIds, Known(id)
    PROVE  Reusable(id) \subseteq Terminals
    <1>1. view[id] \in Record
        BY KnownFacts DEF Store
    <1>2. QED BY <1>1 DEF Reusable, Holders, Record

LEMMA SafeOpenReuse ==
    ASSUME SafeInv, NEW o \in Openers, OpenReuse(o)
    PROVE  SafeInv'
    <1> DEFINE id == open[o].thread
    <1>1. TypeOK /\ Store /\ OpensSound
        BY SafeStore DEF SafeInv
    <1>2. id \in ThreadIds
        BY <1>1 DEF OpensSound, OpenReuse, At, TypeOK
    <1>3. UNCHANGED <<identities, opening, removing, sweepVars, nextTurn, crashes, ghosts>>
        BY DEF OpenReuse
    <1>4. OpensSound' /\ open' \in [Openers -> [pc : OpenPc, thread : ThreadIds \cup {None},
                                                terminal : Terminals \cup {None}]]
        BY <1>1, <1>3, ReturnMoves DEF OpenReuse
    <1>5. CASE /\ Known(id) /\ UNCHANGED failures
               /\ \E t \in Reusable(id) : Linked(id, t)
        <2>1. PICK t \in Terminals : Linked(id, t)
            BY <1>1, <1>2, <1>5, ReusableFacts
        <2>2. /\ TablesTyped
              /\ Same(id) \/ Fresh(id)
              /\ GoesOn(id) /\ view'[id].archived = FALSE
              /\ \A x \in ThreadIds \ {id} : Same(x)
              /\ active' = active /\ terms' = terms
              /\ untold' = {}
            <3> HIDE DEF id
            <3>1. QED BY <1>1, <1>2, <1>3, <2>1, LinkedEffect
                     DEF SafeInv, ChangesAnnounced
        <2> HIDE DEF id
        <2>3. TypeOK'
            <3>1. TablesTyped /\ active' = active /\ terms' = terms /\ untold' = {}
                BY <2>2
            <3>2. failures' = failures
                BY <1>5
            <3>3. QED BY <1>1, <1>3, <1>4, <3>1, <3>2
                     DEF TypeOK, TablesTyped, sweepVars, ghosts
        <2>4. QED BY <1>1, <1>3, <1>4, <2>2, <2>3, WritingStep DEF sweepVars, TypeOK
    <1>6. CASE /\ failures' = failures \/ (MayFail /\ failures' = failures + 1)
               /\ UNCHANGED <<rows, view, active, terms, untold>>
        <2>1. TypeOK' /\ TermsForward
            BY <1>1, <1>3, <1>4, <1>6, ThreadsAssumption
               DEF TypeOK, TermsForward, HasRecord, MayFail, sweepVars, ghosts
        <2>2. TerminalsSound'
            BY <1>3, <1>6 DEF SafeInv, TerminalsSound, sweepVars
        <2>3. QED BY <1>3, <1>4, <1>6, <2>1, <2>2, QuietStep DEF sweepVars
    <1>7. QED BY <1>5, <1>6 DEF OpenReuse

LEMMA SafeOpenDormant ==
    ASSUME SafeInv, NEW o \in Openers, OpenDormant(o)
    PROVE  SafeInv'
    <1> DEFINE id == open[o].thread
    <1>1. TypeOK /\ Store /\ OpensSound
        BY SafeStore DEF SafeInv
    <1>2. /\ id \in ThreadIds /\ Known(id) /\ open[o].pc = "deciding"
          /\ open[o].terminal \in Terminals \cup {None}
          /\ UNCHANGED <<threadVars, active, termVars, sweepVars, bounds, ghosts, untold>>
        BY <1>1 DEF OpensSound, OpenDormant, At, TypeOK
    <1>3. /\ OpensSound'
          /\ open' \in [Openers -> [pc : OpenPc, thread : ThreadIds \cup {None},
                                    terminal : Terminals \cup {None}]]
          /\ opening' \subseteq opening \cup {id}
        <2>1. CASE Goto(o, "waiting") /\ UNCHANGED opening
            <3>1. "waiting" \in OpenPc /\ "waiting" \notin Resuming
                BY DEF OpenPc, Resuming
            <3>2. open' = [open EXCEPT ![o] = [pc |-> "waiting", thread |-> open[o].thread,
                                               terminal |-> open[o].terminal]]
                BY <1>1, <2>1, <3>1, GotoMoves
            <3>3. open[o].terminal = None
                BY <1>1, <1>2 DEF OpensSound
            <3>4. QED BY <1>1, <1>2, <2>1, <3>1, <3>2, <3>3, OpensMove
        <2>2. CASE /\ id \notin opening
                   /\ Goto(o, "launching") /\ opening' = opening \cup {id}
            <3>1. "launching" \in OpenPc
                BY DEF OpenPc
            <3>2. open' = [open EXCEPT ![o] = [pc |-> "launching", thread |-> open[o].thread,
                                               terminal |-> open[o].terminal]]
                BY <1>1, <2>2, <3>1, GotoMoves
            <3>3. open[o].terminal = None
                BY <1>1, <1>2 DEF OpensSound
            <3>4. QED BY <1>1, <1>2, <2>2, <3>1, <3>2, <3>3, OpensMove
        <2>3. QED BY <2>1, <2>2 DEF OpenDormant
    <1>4. TypeOK' /\ TermsForward
        BY <1>1, <1>2, <1>3
           DEF TypeOK, TermsForward, HasRecord, threadVars, termVars, sweepVars, bounds,
               ghosts
    <1>5. TerminalsSound'
        BY <1>2 DEF SafeInv, TerminalsSound, termVars, sweepVars
    <1>6. QED BY <1>2, <1>3, <1>4, <1>5, QuietStep
             DEF threadVars, sweepVars, bounds

LEMMA SafeOpenResume ==
    ASSUME SafeInv, NEW o \in Openers, OpenResume(o)
    PROVE  SafeInv'
    <1>1. TypeOK /\ Store /\ OpensSound
        BY SafeStore DEF SafeInv
    <1>2. /\ open[o].pc = "launching" /\ open[o].terminal = None
          /\ open[o].thread \in ThreadIds /\ Known(open[o].thread)
          /\ UNCHANGED <<threadVars, active, opening, removing, sweepVars, bounds, untold>>
        BY <1>1 DEF SafeInv, ActiveOnce, TypeOK, OpensSound, Resuming, OpenResume, At
    <1>3. CASE \E t \in Terminals, s \in {"running", "exited", "missing"} :
                  /\ terms[t] = "unborn"
                  /\ terms' = [terms EXCEPT ![t] = s]
                  /\ writer' = [writer EXCEPT ![t] = view[open[o].thread].key]
                  /\ stray' \in {stray, stray \cup {t}}
                  /\ open' = [open EXCEPT ![o].pc = "linking", ![o].terminal = t]
        <2>1. PICK t \in Terminals, s \in {"running", "exited", "missing"} :
                  /\ terms[t] = "unborn"
                  /\ terms' = [terms EXCEPT ![t] = s]
                  /\ writer' = [writer EXCEPT ![t] = view[open[o].thread].key]
                  /\ stray' \in {stray, stray \cup {t}}
                  /\ open' = [open EXCEPT ![o].pc = "linking", ![o].terminal = t]
            BY <1>3
        <2>2. /\ open'[o].pc = "linking" /\ open'[o].thread = open[o].thread
              /\ open'[o].terminal = t
              /\ \A p \in Openers : p # o => open'[p] = open[p]
            BY <1>1, <2>1 DEF TypeOK
        <2>3. OpensSound'
            BY <1>2, <2>2, NoneAssumption, <1>1 DEF OpensSound, Resuming
        <2>4. view[open[o].thread].key \in Keys
            BY <1>1, <1>2 DEF TypeOK, Known, Record
        <2>5. open' \in [Openers -> [pc : OpenPc, thread : ThreadIds \cup {None},
                                     terminal : Terminals \cup {None}]]
            <3>1. open[o] \in [pc : OpenPc, thread : ThreadIds \cup {None},
                               terminal : Terminals \cup {None}]
                BY <1>1 DEF TypeOK
            <3>2. [open[o] EXCEPT !.pc = "linking", !.terminal = t]
                    \in [pc : OpenPc, thread : ThreadIds \cup {None},
                        terminal : Terminals \cup {None}]
                BY <3>1 DEF OpenPc
            <3>3. open' = [open EXCEPT ![o] = [open[o] EXCEPT !.pc = "linking",
                                                              !.terminal = t]]
                BY <1>1, <2>1 DEF TypeOK
            <3>4. QED BY <1>1, <3>2, <3>3 DEF TypeOK
        <2>6. TypeOK' /\ TermsForward
            BY <1>1, <1>2, <2>1, <2>4, <2>5
               DEF TypeOK, TermStatus, TermsForward, HasRecord, threadVars, sweepVars, bounds
        <2>7. TerminalsSound'
            BY <1>1, <1>2, <2>6, TerminalsKept DEF SafeInv, sweepVars
        <2>8. QED BY <1>2, <2>3, <2>6, <2>7, QuietStep
                 DEF threadVars, sweepVars, bounds
    <1>4. CASE Goto(o, "finishing") /\ UNCHANGED <<terms, writer, stray>>
        <2>1. "finishing" \in OpenPc
            BY DEF OpenPc
        <2>2. open' = [open EXCEPT ![o] = [pc |-> "finishing", thread |-> open[o].thread,
                                           terminal |-> open[o].terminal]]
            BY <1>1, <1>4, <2>1, GotoMoves
        <2>3. OpensSound' /\ open' \in [Openers -> [pc : OpenPc, thread : ThreadIds \cup {None},
                                                    terminal : Terminals \cup {None}]]
            BY <1>1, <1>2, <2>1, <2>2, OpensMove DEF Resuming
        <2>4. TypeOK' /\ TermsForward
            BY <1>1, <1>2, <1>4, <2>3
               DEF TypeOK, TermsForward, HasRecord, threadVars, sweepVars, bounds
        <2>5. TerminalsSound'
            BY <1>2, <1>4 DEF SafeInv, TerminalsSound, sweepVars
        <2>6. QED BY <1>2, <2>3, <2>4, <2>5, QuietStep
                 DEF threadVars, sweepVars, bounds
    <1>5. QED BY <1>3, <1>4 DEF OpenResume

(* An open that owns a resume moves on to pc, which owns it still. *)
LEMMA ResumingMoves ==
    ASSUME TypeOK, OpensSound, NEW o \in Openers, open[o].pc \in Resuming,
           NEW pc \in Resuming, pc # "launching", Goto(o, pc), opening' = opening,
           pc \in {"linking", "discarding", "converging"} => open[o].terminal # None
    PROVE  OpensSound' /\ open' \in [Openers -> [pc : OpenPc, thread : ThreadIds \cup {None},
                                                 terminal : Terminals \cup {None}]]
    <1>1. pc \in OpenPc /\ open[o].pc # "idle" /\ open[o].terminal \in Terminals \cup {None}
        BY DEF OpenPc, Resuming, TypeOK
    <1>2. open' = [open EXCEPT ![o] = [pc |-> pc, thread |-> open[o].thread,
                                       terminal |-> open[o].terminal]]
        BY <1>1, GotoMoves
    <1>3. pc \notin {"deciding", "waiting", "launching"}
        BY DEF Resuming
    <1>4. QED BY <1>1, <1>2, <1>3, OpensMove

LEMMA SafeOpenLink ==
    ASSUME SafeInv, NEW o \in Openers, OpenLink(o)
    PROVE  SafeInv'
    <1> DEFINE id == open[o].thread
               t == open[o].terminal
    <1>1. TypeOK /\ Store /\ OpensSound
        BY SafeStore DEF SafeInv
    <1>2. /\ open[o].pc = "linking" /\ open[o].pc \in Resuming
          /\ t \in Terminals /\ id \in ThreadIds
          /\ UNCHANGED <<identities, opening, removing, sweepVars, nextTurn, crashes,
                         ghosts>>
        BY <1>1 DEF OpenLink, At, OpensSound, TypeOK, Resuming
    <1>3. CASE Linked(id, t) /\ Goto(o, "finishing") /\ UNCHANGED failures
        <2>1. /\ TablesTyped
              /\ Same(id) \/ Fresh(id)
              /\ GoesOn(id) /\ view'[id].archived = FALSE
              /\ \A x \in ThreadIds \ {id} : Same(x)
              /\ active' = active /\ terms' = terms
              /\ untold' = {}
            <3> HIDE DEF id, t
            <3>1. QED BY <1>1, <1>2, <1>3, LinkedEffect DEF SafeInv, ChangesAnnounced
        <2> HIDE DEF id, t
        <2>2. OpensSound' /\ open' \in [Openers -> [pc : OpenPc, thread : ThreadIds \cup {None},
                                                    terminal : Terminals \cup {None}]]
            BY <1>1, <1>2, <1>3, ResumingMoves DEF Resuming
        <2>3. TypeOK'
            BY <1>1, <1>2, <1>3, <2>1, <2>2 DEF TypeOK, TablesTyped, sweepVars, ghosts
        <2>4. QED BY <1>1, <1>2, <2>1, <2>2, <2>3, WritingStep DEF sweepVars, TypeOK
    <1>4. CASE /\ failures' = failures \/ (MayFail /\ failures' = failures + 1)
               /\ Goto(o, "discarding")
               /\ UNCHANGED <<rows, view, active, terms, untold>>
        <2>1. OpensSound' /\ open' \in [Openers -> [pc : OpenPc, thread : ThreadIds \cup {None},
                                                    terminal : Terminals \cup {None}]]
            BY <1>1, <1>2, <1>4, ResumingMoves, NoneAssumption DEF Resuming
        <2>2. TypeOK' /\ TermsForward
            BY <1>1, <1>2, <1>4, <2>1, ThreadsAssumption
               DEF TypeOK, TermsForward, HasRecord, MayFail, sweepVars, ghosts
        <2>3. TerminalsSound'
            BY <1>2, <1>4 DEF SafeInv, TerminalsSound, sweepVars
        <2>4. QED BY <1>2, <1>4, <2>1, <2>2, <2>3, QuietStep DEF sweepVars
    <1>5. QED BY <1>3, <1>4 DEF OpenLink

LEMMA SafeOpenDiscard ==
    ASSUME SafeInv, NEW o \in Openers, OpenDiscard(o)
    PROVE  SafeInv'
    <1> DEFINE t == open[o].terminal
    <1>1. TypeOK /\ Store /\ OpensSound /\ TerminalsSound
        BY SafeStore DEF SafeInv
    <1>2. /\ open[o].pc = "discarding" /\ open[o].pc \in Resuming
          /\ t \in Terminals
          /\ UNCHANGED <<view, identities, active, opening, sweepVars, nextTurn,
                         crashes, writer, untold>>
        BY <1>1 DEF OpenDiscard, At, OpensSound, TypeOK, Resuming
    <1>3. CASE /\ HasRecord(t) /\ DeleteRow(t) /\ Goto(o, "converging")
               /\ UNCHANGED <<failures, stray>>
        <2>1. OpensSound' /\ open' \in [Openers -> [pc : OpenPc, thread : ThreadIds \cup {None},
                                                    terminal : Terminals \cup {None}]]
            BY <1>1, <1>2, <1>3, ResumingMoves, NoneAssumption DEF Resuming
        <2> HIDE DEF t
        <2>2. /\ RowsSound' /\ ViewMatchesStore' /\ OneThreadPerConversation'
              /\ TerminalsSound' /\ rows' \in [ThreadIds -> Record \cup {None}]
            BY <1>1, <1>2, <1>3, DeleteRowKept DEF sweepVars
        <2>3. TypeOK'
            BY <1>1, <1>2, <1>3, <2>1, <2>2
               DEF TypeOK, DeleteRow, TermStatus, sweepVars
        <2>4. ActiveOnce' /\ ChangesAnnounced'
            BY <1>2 DEF SafeInv, ActiveOnce, Held, Holders, Known, ChangesAnnounced
        <2>5. QED BY <2>1, <2>2, <2>3, <2>4 DEF SafeInv
    <1>4. CASE /\ failures' = failures \/ (MayFail /\ failures' = failures + 1)
               /\ stray' = stray \cup {t}
               /\ Goto(o, "finishing")
               /\ UNCHANGED <<terms, removing, rows>>
        <2>1. OpensSound' /\ open' \in [Openers -> [pc : OpenPc, thread : ThreadIds \cup {None},
                                                    terminal : Terminals \cup {None}]]
            BY <1>1, <1>2, <1>4, ResumingMoves, NoneAssumption DEF Resuming
        <2>2. TypeOK' /\ TermsForward
            BY <1>1, <1>2, <1>4, <2>1, ThreadsAssumption
               DEF TypeOK, TermsForward, HasRecord, MayFail, sweepVars
        <2>3. TerminalsSound'
            BY <1>2, <1>4 DEF SafeInv, TerminalsSound, sweepVars
        <2>4. QED BY <1>2, <1>4, <2>1, <2>2, <2>3, QuietStep DEF sweepVars
    <1>5. QED BY <1>3, <1>4 DEF OpenDiscard

LEMMA SafeOpenConverged ==
    ASSUME SafeInv, NEW o \in Openers, OpenConverged(o)
    PROVE  SafeInv'
    <1>1. TypeOK /\ OpensSound
        BY DEF SafeInv
    <1>2. /\ open[o].pc \in Resuming /\ Goto(o, "finishing")
          /\ UNCHANGED <<threadVars, active, opening, termVars, sweepVars, bounds,
                         ghosts, untold>>
        BY DEF OpenConverged, At, Resuming
    <1>3. OpensSound' /\ open' \in [Openers -> [pc : OpenPc, thread : ThreadIds \cup {None},
                                                terminal : Terminals \cup {None}]]
        BY <1>1, <1>2, ResumingMoves DEF Resuming
    <1>4. TypeOK' /\ TermsForward
        BY <1>1, <1>2, <1>3
           DEF TypeOK, TermsForward, HasRecord, threadVars, termVars, sweepVars, bounds,
               ghosts
    <1>5. TerminalsSound'
        BY <1>2 DEF SafeInv, TerminalsSound, termVars, sweepVars
    <1>6. QED BY <1>2, <1>3, <1>4, <1>5, QuietStep
             DEF threadVars, sweepVars, bounds

LEMMA SafeOpenFinish ==
    ASSUME SafeInv, NEW o \in Openers, OpenFinish(o)
    PROVE  SafeInv'
    <1> DEFINE id == open[o].thread
    <1>1. TypeOK /\ OpensSound
        BY DEF SafeInv
    <1>2. /\ open[o].pc = "finishing" /\ opening' = opening \ {id}
          /\ open' = [p \in Openers |->
                        IF p = o THEN Idle
                        ELSE IF At(p, "waiting") /\ open[p].thread = id
                        THEN [open[p] EXCEPT !.pc = "deciding"] ELSE open[p]]
          /\ UNCHANGED <<threadVars, active, termVars, sweepVars, bounds, ghosts, untold>>
        BY DEF OpenFinish, At
    <1>3. ASSUME NEW p \in Openers
          PROVE  /\ open'[p] \in [pc : OpenPc, thread : ThreadIds \cup {None},
                                  terminal : Terminals \cup {None}]
                 /\ open'[p].pc # "idle" => /\ p # o /\ open[p].pc # "idle"
                                            /\ open'[p].thread = open[p].thread
                                            /\ open'[p].terminal = open[p].terminal
                 /\ open'[p].pc \in Resuming => p # o /\ open'[p] = open[p]
        <2>1. open[p] \in [pc : OpenPc, thread : ThreadIds \cup {None},
                           terminal : Terminals \cup {None}]
            BY <1>1 DEF TypeOK
        <2>2. CASE p = o
            BY <1>2, <2>2 DEF Idle, OpenPc, Resuming
        <2>3. CASE p # o /\ At(p, "waiting") /\ open[p].thread = id
            <3>1. open'[p] = [open[p] EXCEPT !.pc = "deciding"]
                BY <1>2, <2>3
            <3>2. QED BY <2>1, <2>3, <3>1 DEF At, OpenPc, Resuming
        <2>4. CASE p # o /\ ~(At(p, "waiting") /\ open[p].thread = id)
            BY <1>2, <2>1, <2>4
        <2>5. QED BY <2>2, <2>3, <2>4
    <1>4. OpensSound'
        <2>1. \A p \in Openers : open[p].pc \in Resuming /\ p # o => open[p].thread # id
            BY <1>1, <1>2 DEF OpensSound, Resuming
        <2>2. \A p \in Openers :
                 open'[p].pc \in {"launching", "linking", "discarding", "converging"} =>
                     open'[p].pc \in Resuming
            BY DEF Resuming
        <2>3. ASSUME NEW p \in Openers
              PROVE  /\ open'[p].pc # "idle" => open'[p].thread # None
                     /\ open'[p].pc \in Resuming => open'[p].thread \in opening'
                     /\ open'[p].pc \in {"linking", "discarding", "converging"} =>
                           open'[p].terminal # None
                     /\ open'[p].pc = "launching" => open'[p].terminal = None
            BY <1>1, <1>2, <1>3, <2>1, <2>2 DEF OpensSound
        <2>4. ASSUME NEW p \in Openers, open'[p].pc \in {"deciding", "waiting"}
              PROVE  open'[p].terminal = None
            <3>1. open[p].pc \in {"deciding", "waiting"}
                <4>1. open[p] \in [pc : OpenPc, thread : ThreadIds \cup {None},
                                   terminal : Terminals \cup {None}]
                    BY <1>1 DEF TypeOK
                <4>2. QED BY <1>2, <2>4, <4>1 DEF Idle, At
            <3>2. QED BY <1>1, <1>3, <2>4, <3>1 DEF OpensSound
        <2>5. ASSUME NEW p \in Openers, NEW q \in Openers,
                     open'[p].pc \in Resuming, open'[q].pc \in Resuming,
                     open'[p].thread = open'[q].thread
              PROVE  p = q
            BY <1>1, <1>3, <2>5 DEF OpensSound
        <2>6. QED BY <2>3, <2>4, <2>5 DEF OpensSound
    <1>5. open' \in [Openers -> [pc : OpenPc, thread : ThreadIds \cup {None},
                                 terminal : Terminals \cup {None}]]
        BY <1>2, <1>3
    <1>6. TypeOK' /\ TermsForward
        BY <1>1, <1>2, <1>5
           DEF TypeOK, TermsForward, HasRecord, threadVars, termVars, sweepVars, bounds,
               ghosts
    <1>7. TerminalsSound'
        BY <1>2 DEF SafeInv, TerminalsSound, termVars, sweepVars
    <1>8. QED BY <1>2, <1>4, <1>6, <1>7, QuietStep
             DEF threadVars, sweepVars, bounds

-----------------------------------------------------------------------------
(* Boots, and the whole.                                                   *)

LEMMA RestartEffect ==
    ASSUME TypeOK, Store, Restart
    PROVE  /\ TablesTyped
           /\ \A id \in ThreadIds : IF rows[id] = None
                                    THEN rows'[id] = None /\ view'[id] = None
                                    ELSE /\ Fresh(id) /\ GoesOn(id)
                                         /\ SameIdentity(rows[id], view'[id])
           /\ \A id \in ThreadIds : Known(id)' <=> Known(id)
    <1>1. nextTurn' = nextTurn /\ nextTurn \in Nat
        BY DEF Restart, TypeOK
    <1>2. ASSUME NEW id \in ThreadIds, rows[id] # None
          PROVE  /\ Fresh(id) /\ GoesOn(id) /\ SameIdentity(rows[id], view'[id])
        <2>1. /\ rows'[id] = CoerceRecord(rows[id]) /\ view'[id] = CoerceRecord(rows[id])
            BY <1>2 DEF Restart, Loaded
        <2>2. /\ rows[id] \in Record /\ Storable(rows[id])
              /\ RecordSound(rows[id], nextTurn)
              /\ Known(id)
              /\ rows[id].key = view[id].key /\ rows[id].turn = view[id].turn
            BY <1>2, KnownFacts DEF Store, RowsSound
        <2>3. /\ CoerceRecord(rows[id]) \in Record
              /\ SameIdentity(rows[id], CoerceRecord(rows[id]))
              /\ OutcomeKept(rows[id], CoerceRecord(rows[id]))
              /\ RecordSound(CoerceRecord(rows[id]), nextTurn)
            BY <1>1, <2>2, CoercedFacts
        <2>4. QED BY <1>1, <2>1, <2>2, <2>3, NoneAssumption
                 DEF Fresh, GoesOn, Known, SameIdentity, OutcomeKept, Storable
    <1>3. \A id \in ThreadIds : rows[id] = None => rows'[id] = None /\ view'[id] = None
        BY DEF Restart, Loaded
    <1>4. TablesTyped
        <2>1. \A id \in ThreadIds : rows'[id] \in Record \cup {None}
                                    /\ view'[id] \in Record \cup {None}
            BY <1>2, <1>3 DEF Fresh
        <2>2. rows' = [id \in ThreadIds |-> rows'[id]]
              /\ view' = [id \in ThreadIds |-> view'[id]]
            BY DEF Restart, Loaded
        <2>3. QED BY <2>1, <2>2 DEF TablesTyped
    <1>5. \A id \in ThreadIds : Known(id)' <=> Known(id)
        BY <1>2, <1>3, KnownFacts DEF Store, GoesOn, Known
    <1>6. QED BY <1>2, <1>3, <1>4, <1>5

LEMMA SafeRestart ==
    ASSUME SafeInv, Restart
    PROVE  SafeInv'
    <1>1. TypeOK /\ Store
        BY SafeStore
    <1>2. /\ TablesTyped
          /\ \A id \in ThreadIds : IF rows[id] = None
                                   THEN rows'[id] = None /\ view'[id] = None
                                   ELSE Fresh(id) /\ GoesOn(id)
          /\ \A id \in ThreadIds : Known(id)' <=> Known(id)
        BY <1>1, RestartEffect
    <1>3. /\ crashes < MaxCrashes /\ crashes' = crashes + 1
          /\ active' = [t \in Terminals |-> None] /\ opening' = {}
          /\ open' = [o \in Openers |-> Idle]
          /\ removing' = {} /\ sweep' = {} /\ verdict' = NoVerdict /\ untold' = {}
          /\ UNCHANGED <<identities, terms, nextTurn, failures, writer>>
        BY DEF Restart
    <1>4. stray' \in SUBSET Terminals
        <2>1. \A o \in Openers : open[o].pc \in {"linking", "discarding"} =>
                 open[o].terminal \in Terminals
            BY <1>1 DEF SafeInv, OpensSound, TypeOK
        <2>2. QED BY <1>1, <2>1 DEF TypeOK, Restart
    <1>5. TypeOK'
        BY <1>1, <1>2, <1>3, <1>4, ThreadsAssumption
           DEF TypeOK, TablesTyped, Idle, OpenPc, NoVerdict
    <1>6. TermsForward
        BY <1>3 DEF TermsForward, HasRecord
    <1>7. RowsSound' /\ ViewMatchesStore'
        BY <1>1, <1>2, <1>3, <1>6, StoreKept DEF Store, TypeOK
    <1>8. OneThreadPerConversation'
        <2>1. \A id \in ThreadIds : Known(id) => view'[id].key = view[id].key
            BY <1>1, <1>2, KnownFacts DEF GoesOn, Store
        <2>2. QED BY <1>1, <1>2, <1>3, <2>1
                 DEF Store, OneThreadPerConversation, TypeOK, Known, Record
    <1>9. ActiveOnce'
        BY <1>3, ThreadsAssumption DEF ActiveOnce, Held, Holders
    <1>10. TerminalsSound'
        BY <1>3 DEF TerminalsSound, NoVerdict
    <1>11. OpensSound'
        BY <1>3 DEF OpensSound, Idle, Resuming
    <1>12. QED BY <1>3, <1>5, <1>7, <1>8, <1>9, <1>10, <1>11
              DEF SafeInv, ChangesAnnounced

LEMMA SafeInit ==
    ASSUME Init
    PROVE  SafeInv
    <1>1. TypeOK
        BY ThreadsAssumption DEF Init, TypeOK, TermStatus, NoVerdict, Idle, OpenPc
    <1>2. RowsSound /\ ViewMatchesStore /\ OneThreadPerConversation
        BY DEF Init, RowsSound, ViewMatchesStore, OneThreadPerConversation, Known
    <1>3. ActiveOnce
        BY ThreadsAssumption DEF Init, ActiveOnce, Held, Holders
    <1>4. TerminalsSound /\ OpensSound /\ ChangesAnnounced
        BY DEF Init, TerminalsSound, NoVerdict, OpensSound, Idle, Resuming,
               ChangesAnnounced
    <1>5. QED BY <1>1, <1>2, <1>3, <1>4 DEF SafeInv

LEMMA SafeUnchanged ==
    ASSUME SafeInv, UNCHANGED vars
    PROVE  SafeInv'
    BY DEF vars, SafeInv, TypeOK, RowsSound, Storable, HasRecord, ViewMatchesStore, Known,
           OneThreadPerConversation, ActiveOnce, Held, Holders, TerminalsSound,
           OpensSound, ChangesAnnounced

LEMMA SafeNext ==
    ASSUME SafeInv, [Next]_vars
    PROVE  SafeInv'
    <1>1. ASSUME NEW t \in Terminals,
                 \/ CreateTerminal(t) \/ TerminalStatus(t) \/ DeleteTerminal(t)
                 \/ TerminalRemoved(t) \/ Deactivate(t) \/ SweepLook(t)
                 \/ \E k \in Keys, report \in Reports : ObserveSession(t, k, report)
          PROVE  SafeInv'
        BY <1>1, SafeCreateTerminal, SafeTerminalStatus, SafeDeleteTerminal,
           SafeTerminalRemoved, SafeDeactivate, SafeSweepLook, SafeObserveSession
    <1>2. ASSUME NEW k \in Keys, NEW report \in Reports, ObserveStatus(k, report)
          PROVE  SafeInv'
        BY <1>2, SafeObserveStatus
    <1>3. CASE SweepStart \/ SweepAct
        BY <1>3, SafeSweepStart, SafeSweepAct
    <1>4. ASSUME NEW id \in ThreadIds,
                 Delete(id) \/ \E archived \in BOOLEAN : Update(id, archived)
          PROVE  SafeInv'
        BY <1>4, SafeDelete, SafeUpdate
    <1>5. ASSUME NEW o \in Openers,
                 \/ OpenStep(o) \/ OpenGiveUp(o)
                 \/ \E id \in ThreadIds : OpenCall(o, id)
          PROVE  SafeInv'
        BY <1>5, SafeOpenReuse, SafeOpenDormant, SafeOpenResume, SafeOpenLink,
           SafeOpenDiscard, SafeOpenConverged, SafeOpenFinish, SafeOpenGiveUp,
           SafeOpenCall DEF OpenStep
    <1>6. CASE Restart
        BY <1>6, SafeRestart
    <1>7. CASE UNCHANGED vars
        BY <1>7, SafeUnchanged
    <1>8. QED BY <1>1, <1>2, <1>3, <1>4, <1>5, <1>6, <1>7 DEF Next

(***************************************************************************)
(* The invariant holds of every reachable state.                           *)
(***************************************************************************)
THEOREM Safe == Spec => []SafeInv
    <1>1. Init => SafeInv
        BY SafeInit
    <1>2. SafeInv /\ [Next]_vars => SafeInv'
        BY SafeNext
    <1>3. QED BY <1>1, <1>2, PTL DEF Spec

(* Every state of the service is one of the declared types (all of it). *)
THEOREM TypeCorrect == Spec => []TypeOK
    <1>1. SafeInv => TypeOK
        BY DEF SafeInv
    <1>2. QED BY <1>1, Safe, PTL

(***************************************************************************)
(* The view never advertises what the database does not hold, across       *)
(* failed writes, deletions and boots (commit, link, TerminalRemoved).     *)
(***************************************************************************)
THEOREM ViewInStep == Spec => []ViewMatchesStore
    <1>1. SafeInv => ViewMatchesStore
        BY DEF SafeInv
    <1>2. QED BY <1>1, Safe, PTL

(* A conversation has one thread and a thread one conversation (insert). *)
THEOREM OneThread == Spec => []OneThreadPerConversation
    <1>1. SafeInv => OneThreadPerConversation
        BY DEF SafeInv
    <1>2. QED BY <1>1, Safe, PTL

(* A thread is open in one terminal at most, and not archived (commit). *)
THEOREM OpenOnce == Spec => []ActiveOnce
    <1>1. SafeInv => ActiveOnce
        BY DEF SafeInv
    <1>2. QED BY <1>1, Safe, PTL

(* Whatever a reader can see change is announced by an event (commit). *)
THEOREM Announced == Spec => []ChangesAnnounced
    <1>1. SafeInv => ChangesAnnounced
        BY DEF SafeInv
    <1>2. QED BY <1>1, Safe, PTL

(* Every record the policy and the coercions leave is coherent (turns.go). *)
THEOREM Coherent == Spec => []RecordsCoherent
    <1>1. SafeInv => RecordsCoherent
        BY SafeStore, KnownFacts DEF Store, RecordsCoherent, RecordSound
    <1>2. QED BY <1>1, Safe, PTL

-----------------------------------------------------------------------------
(* An ended turn is final.                                                 *)

(* No step gives a record another conversation or an ended turn another *)
(* outcome: it stays, it goes on, or it comes or goes as a whole.       *)
LEMMA RecordsGoOn ==
    ASSUME SafeInv, [Next]_vars, NEW id \in ThreadIds, Known(id), Known(id)'
    PROVE  view'[id] = view[id] \/ GoesOn(id)
    <1>1. TypeOK /\ Store
        BY SafeStore
    <1>2. CASE UNCHANGED view
        BY <1>2
    <1>3. ASSUME NEW t \in Terminals, NEW k \in Keys, NEW report \in Reports,
                 ObserveSession(t, k, report)
          PROVE  view'[id] = view[id] \/ GoesOn(id)
        <2>1. PICK x \in ThreadIds : Observation(t, k, x)
            BY <1>1, <1>3, ObserveSessionEffect
        <2>2. QED BY <2>1 DEF Observation, Untouched, Same
    <1>4. ASSUME NEW k \in Keys, NEW report \in Reports, ObserveStatus(k, report)
          PROVE  view'[id] = view[id] \/ GoesOn(id)
        BY <1>1, <1>4, ObserveStatusEffect DEF Untouched, Same
    <1>5. ASSUME NEW t \in Terminals, Deactivated(t), nextTurn' = nextTurn
          PROVE  view'[id] = view[id] \/ GoesOn(id)
        BY <1>1, <1>5, DeactivatedEffect DEF Untouched, Same
    <1>6. ASSUME NEW t \in Terminals, terms[t] = "deleted", Removed(t), nextTurn' = nextTurn
          PROVE  view'[id] = view[id] \/ GoesOn(id)
        BY <1>1, <1>6, RemovedEffect DEF UnlinkedFrom, Same
    <1>7. CASE SweepAct
        <2>1. verdict.terminal \in Terminals
              /\ (verdict.gone => terms[verdict.terminal] = "deleted")
            BY <1>1, <1>7 DEF SweepAct, TypeOK, SafeInv, TerminalsSound
        <2>2. CASE verdict.gone /\ Removed(verdict.terminal) /\ nextTurn' = nextTurn
            BY <1>6, <2>1, <2>2
        <2>3. CASE Deactivated(verdict.terminal) /\ nextTurn' = nextTurn
            BY <1>5, <2>1, <2>3
        <2>4. QED BY <1>2, <1>7, <2>2, <2>3 DEF SweepAct, threadVars, bounds
    <1>8. ASSUME NEW t \in Terminals, TerminalRemoved(t)
          PROVE  view'[id] = view[id] \/ GoesOn(id)
        <2>1. terms[t] = "deleted" /\ Removed(t) /\ nextTurn' = nextTurn
            BY <1>1, <1>8 DEF TerminalRemoved, TypeOK
        <2>2. QED BY <1>6, <2>1
    <1>9. ASSUME NEW x \in ThreadIds, NEW archived \in BOOLEAN, Update(x, archived)
          PROVE  view'[id] = view[id] \/ GoesOn(id)
        <2>1. view[x] \in Record /\ view[id] \in Record
              /\ view' = Overwrite(view, [y \in {x} |-> [view[x] EXCEPT !.archived = archived]])
            BY <1>1, <1>9, KnownFacts DEF Update, Persist, Store
        <2>2. CASE x = id
            <3>1. view'[id] = [view[id] EXCEPT !.archived = archived]
                BY <1>1, <2>1, <2>2 DEF Overwrite, TypeOK
            <3>2. view'[id].key = view[id].key /\ view'[id].turn = view[id].turn
                BY <2>1, <3>1 DEF Record
            <3>3. QED BY <3>2 DEF GoesOn, OutcomeKept
        <2>3. CASE x # id
            BY <1>1, <2>1, <2>3 DEF Overwrite, TypeOK
        <2>4. QED BY <2>2, <2>3
    <1>10. ASSUME NEW x \in ThreadIds, Delete(x)
           PROVE  view'[id] = view[id] \/ GoesOn(id)
        BY <1>1, <1>10 DEF Delete, Persist, Overwrite, TypeOK, Known
    <1>11. ASSUME NEW x \in ThreadIds, NEW t \in Terminals, Linked(x, t), nextTurn' = nextTurn
           PROVE  view'[id] = view[id] \/ GoesOn(id)
        BY <1>1, <1>11, LinkedEffect DEF Same
    <1>12. ASSUME NEW o \in Openers, OpenReuse(o)
           PROVE  view'[id] = view[id] \/ GoesOn(id)
        <2>1. open[o].thread \in ThreadIds
            BY <1>1, <1>12 DEF SafeInv, OpensSound, OpenReuse, At, TypeOK
        <2>2. QED BY <1>1, <1>2, <1>11, <1>12, <2>1, ReusableFacts DEF OpenReuse
    <1>13. ASSUME NEW o \in Openers, OpenLink(o)
           PROVE  view'[id] = view[id] \/ GoesOn(id)
        <2>1. open[o].thread \in ThreadIds /\ open[o].terminal \in Terminals
            BY <1>1, <1>13 DEF SafeInv, OpensSound, OpenLink, At, TypeOK
        <2>2. QED BY <1>2, <1>11, <1>13, <2>1 DEF OpenLink
    <1>14. CASE Restart
        BY <1>1, <1>14, RestartEffect DEF Known
    <1>15. ASSUME NEW t \in Terminals,
                  CreateTerminal(t) \/ TerminalStatus(t) \/ DeleteTerminal(t) \/ SweepLook(t)
           PROVE  UNCHANGED view
        BY <1>15 DEF CreateTerminal, TerminalStatus, DeleteTerminal, SweepLook, threadVars
    <1>16. ASSUME NEW o \in Openers,
                  \/ OpenDormant(o) \/ OpenResume(o) \/ OpenDiscard(o)
                  \/ OpenConverged(o) \/ OpenFinish(o) \/ OpenGiveUp(o)
                  \/ \E x \in ThreadIds : OpenCall(o, x)
           PROVE  UNCHANGED view
        BY <1>16 DEF OpenDormant, OpenResume, OpenDiscard, OpenConverged, OpenFinish,
                     OpenGiveUp, OpenCall, threadVars
    <1>17. SweepStart \/ UNCHANGED vars => UNCHANGED view
        BY DEF SweepStart, threadVars, vars
    <1>18. \A t \in Terminals : Deactivate(t) => Deactivated(t) /\ nextTurn' = nextTurn
        BY DEF Deactivate, bounds
    <1>19. QED BY <1>2, <1>3, <1>4, <1>5, <1>7, <1>8, <1>9, <1>10, <1>12, <1>13, <1>14,
                  <1>15, <1>16, <1>17, <1>18 DEF Next, OpenStep

(***************************************************************************)
(* Whoever ended a turn, evidence, coercion or a boot, its outcome stays   *)
(* while the thread keeps it (applyTurn, settleTurn, coerceRecord).        *)
(***************************************************************************)
THEOREM EndedFinal == Spec => EndedTurnsFinal
    <1> DEFINE A == \A id \in ThreadIds :
                  (/\ Known(id) /\ view[id].turn # None /\ Ended(view[id].turn.state)
                   /\ Known(id)' /\ view[id].turn' # None
                   /\ view[id].turn.id = view[id].turn.id')
                  => view[id].turn.state' = view[id].turn.state
    <1>1. SafeInv /\ [Next]_vars => A
        BY RecordsGoOn DEF GoesOn, OutcomeKept
    <1>2. SafeInv /\ [Next]_vars => [A]_vars
        BY <1>1
    <1>3. QED BY <1>2, Safe, PTL DEF Spec, EndedTurnsFinal

-----------------------------------------------------------------------------
(* At most one resume of a conversation is up.                             *)

(* No resume starts, comes up again or is forgiven, and no terminal comes *)
(* to hold anything.                                                      *)
NoNewResume ==
    /\ \A t \in Terminals : writer'[t] \in {writer[t], None}
    /\ stray \subseteq stray'
    /\ \A t \in Terminals : terms'[t] = "unborn" => terms[t] = "unborn"
    /\ \A t \in Terminals : Up(t)' /\ terms[t] # "unborn" => Up(t)
    /\ \A t \in Terminals : active'[t] \in {active[t], None}
    /\ \A k \in Keys : identities'[k] \in {identities[k], None}

(* An open leaves its resume linked, down or out of control. *)
OpensWindDown ==
    /\ \A o \in Openers : open'[o].pc \in Resuming =>
          /\ open[o].pc \in Resuming /\ open'[o].thread = open[o].thread
          /\ open'[o].terminal = open[o].terminal
    /\ \A o \in Openers, t \in Terminals :
          (/\ open[o].pc \in {"linking", "discarding"} /\ open[o].terminal = t
           /\ Up(t)' /\ t \notin stray')
          => \/ open'[o].pc \in {"linking", "discarding"}
             \/ view'[open[o].thread].terminal = t

(* The link to a resume that is up stays. *)
LinksKept ==
    \A id \in ThreadIds, t \in Terminals :
        (/\ Known(id) /\ Known(id)' /\ view[id].terminal = t /\ Up(t)'
         /\ Writes(t, view[id].key)) => view'[id].terminal = t

(* In such a step the resumes that are up are among those before it. *)
LEMMA ResumeKept ==
    ASSUME SafeInv, SafeInv', [Next]_vars, ResumeInv,
           NoNewResume, OpensWindDown, LinksKept
    PROVE  ResumeInv'
    <1> USE DEF NoNewResume, OpensWindDown, LinksKept
    <1>1. TypeOK /\ Store /\ TypeOK' /\ Store'
        <2>1. TypeOK /\ Store
            BY SafeStore
        <2>2. TypeOK' /\ OneThreadPerConversation' /\ ActiveOnce'
              /\ RowsSound' /\ ViewMatchesStore'
            BY DEF SafeInv
        <2>3. \A t \in Terminals : active'[t] # None => Known(active[t])'
            BY <2>2, ThreadsAssumption DEF ActiveOnce, Held, Holders, TypeOK
        <2>4. QED BY <2>1, <2>2, <2>3 DEF Store
    <1>2. \A t \in Terminals : terms[t] = "unborn" => writer[t] = None /\ active[t] = None
        BY DEF ResumeInv, ResumesHold, SafeInv, TerminalsSound
    <1>3. \A t \in Terminals, k \in Keys : Writes(t, k)' => Writes(t, k)
        BY <1>2, NoneAssumption DEF Writes, TypeOK
    <1>4. \A id \in ThreadIds : Known(id) /\ Known(id)' => view'[id].key = view[id].key
        BY RecordsGoOn DEF GoesOn
    <1>5. OwnResumeOnly'
        <2>1. ASSUME NEW o \in Openers, NEW t \in Terminals, open'[o].pc \in Resuming,
                     Writes(t, view[open[o].thread].key)'
              PROVE  open'[o].terminal = t
            <3>1. /\ open[o].pc \in Resuming /\ open'[o].thread = open[o].thread
                  /\ open'[o].terminal = open[o].terminal
                BY <2>1
            <3>2. open[o].thread \in ThreadIds
                  /\ Known(open[o].thread) /\ view'[open[o].thread] # None
                BY <1>1, <2>1, <3>1 DEF SafeInv, OpensSound, ActiveOnce, TypeOK, Known
            <3>3. view'[open[o].thread].key = view[open[o].thread].key
                  /\ view[open[o].thread].key \in Keys
                BY <1>1, <1>4, <3>2 DEF TypeOK, Known, Record
            <3>4. Writes(t, view[open[o].thread].key)
                BY <1>3, <2>1, <3>1, <3>3
            <3>5. QED BY <3>1, <3>4 DEF ResumeInv, OwnResumeOnly
        <2>2. QED BY <2>1 DEF OwnResumeOnly
    <1>6. ResumesLinked'
        <2>1. ASSUME NEW t \in Terminals, NEW k \in Keys, Writes(t, k)', identities'[k] # None
              PROVE  \/ view'[identities'[k]].terminal = t
                     \/ \E o \in Openers : /\ open'[o].pc \in {"linking", "discarding"}
                                           /\ open'[o].thread = identities'[k]
                                           /\ open'[o].terminal = t
            <3>1. PICK id \in ThreadIds :
                    /\ identities'[k] = id /\ identities[k] = id
                    /\ Known(id) /\ Known(id)' /\ view[id].key = k
                BY <1>1, <2>1 DEF TypeOK, Store, OneThreadPerConversation, Known
            <3>2. Writes(t, k) /\ Up(t)' /\ t \notin stray'
                BY <1>3, <2>1 DEF Writes
            <3>3. CASE view[id].terminal = t
                BY <3>1, <3>2, <3>3
            <3>4. CASE \E o \in Openers : /\ open[o].pc \in {"linking", "discarding"}
                                          /\ open[o].thread = id
                                          /\ open[o].terminal = t
                <4>1. PICK o \in Openers : /\ open[o].pc \in {"linking", "discarding"}
                                           /\ open[o].thread = id
                                           /\ open[o].terminal = t
                    BY <3>4
                <4>2. \/ open'[o].pc \in {"linking", "discarding"}
                      \/ view'[open[o].thread].terminal = t
                    BY <3>2, <4>1
                <4>3. CASE open'[o].pc \in {"linking", "discarding"}
                    <5>1. open'[o].pc \in Resuming
                        BY <4>3 DEF Resuming
                    <5>2. open'[o].thread = id /\ open'[o].terminal = t
                        BY <4>1, <5>1
                    <5>3. QED BY <3>1, <4>3, <5>2
                <4>4. CASE view'[open[o].thread].terminal = t
                    <5>1. view'[identities'[k]].terminal = t
                        BY <3>1, <4>1, <4>4
                    <5>2. QED BY <5>1
                <4>5. QED BY <4>2, <4>3, <4>4
            <3>5. \/ view[id].terminal = t
                  \/ \E o \in Openers : /\ open[o].pc \in {"linking", "discarding"}
                                        /\ open[o].thread = id
                                        /\ open[o].terminal = t
                BY <2>1, <3>1, <3>2 DEF ResumeInv, ResumesLinked
            <3>6. QED BY <3>3, <3>4, <3>5
        <2>2. QED BY <2>1 DEF ResumesLinked
    <1>7. ResumesHold'
        <2>1. \A t \in Terminals : terms'[t] = "unborn" => writer'[t] = None
            BY <1>2
        <2>2. ASSUME NEW t \in Terminals, writer'[t] # None, active'[t] # None
              PROVE  view'[active'[t]].key = writer'[t]
            <3>1. writer'[t] = writer[t] /\ active'[t] = active[t]
                BY <2>2
            <3>2. view[active[t]].key = writer[t]
                BY <2>2, <3>1 DEF ResumeInv, ResumesHold
            <3>3. active[t] \in ThreadIds /\ Known(active[t]) /\ Known(active[t])'
                BY <1>1, <2>2, <3>1 DEF Store, TypeOK
            <3>4. QED BY <1>4, <3>1, <3>2, <3>3
        <2>3. ASSUME NEW t \in Terminals, NEW u \in Terminals,
                     writer'[t] # None, Writes(t, writer[t])', Up(u)',
                     active'[u] # None, active'[u] = identities'[writer'[t]]
              PROVE  u = t
            <3>1. writer'[t] = writer[t] /\ writer[t] \in Keys /\ Writes(t, writer[t])
                BY <1>1, <1>3, <2>3 DEF TypeOK
            <3>2. active[u] = active'[u] /\ identities[writer[t]] = active'[u] /\ Up(u)
                BY <1>2, <2>3, <3>1
            <3>3. QED BY <2>3, <3>1, <3>2 DEF ResumeInv, ResumesHold
        <2>4. QED BY <2>1, <2>2, <2>3 DEF ResumesHold
    <1>8. NoSecondResume'
        <2>1. \A k \in Keys : \A t, u \in Terminals :
                 Writes(t, k)' /\ Writes(u, k)' => t = u
            BY <1>3 DEF ResumeInv, NoSecondResume, Writes
        <2>2. QED BY <2>1 DEF NoSecondResume, Writes
    <1>9. QED BY <1>5, <1>6, <1>7, <1>8 DEF ResumeInv

LEMMA ResumeObserveSession ==
    ASSUME SafeInv, SafeInv', ResumeInv, NEW t0 \in Terminals, NEW k0 \in Keys,
           NEW report \in Reports, ObserveSession(t0, k0, report)
    PROVE  ResumeInv'
    <1>1. TypeOK /\ Store
        BY SafeStore
    <1>2. PICK id \in ThreadIds : Observation(t0, k0, id)
        BY <1>1, ObserveSessionEffect
    <1>3. /\ terms' = terms /\ UNCHANGED <<openVars, stray>> /\ terms[t0] # "unborn"
          /\ writer' = [x \in Terminals |->
                          IF (x = t0 /\ writer[x] # k0) \/ (x # t0 /\ writer[x] = k0)
                          THEN None ELSE writer[x]]
          /\ identities' = [identities EXCEPT ![k0] = id] /\ active' = TakeOver(t0, id)
        BY <1>2 DEF ObserveSession, Observation
    <1>4. \A x \in ThreadIds \ {id} :
             view'[x] = view[x] \/ (/\ view'[x].key = view[x].key
                                    /\ view'[x].terminal = view[x].terminal)
        BY <1>2 DEF Observation, Untouched, Same, SameIdentity
    <1>5. /\ view'[id].key = k0 /\ view'[id].terminal = t0 /\ id # None
          /\ Known(id) => view[id].key = k0
          /\ identities'[k0] = id
        BY <1>1, <1>2, <1>3, ThreadsAssumption
           DEF Observation, Store, OneThreadPerConversation, TypeOK, Known
    <1>6. \A k \in Keys \ {k0} :
             /\ identities'[k] = identities[k] /\ identities[k] \in ThreadIds \cup {None}
             /\ identities[k] # None => /\ identities[k] \in ThreadIds
                                        /\ identities[k] # id
        BY <1>1, <1>3, <1>5 DEF Store, OneThreadPerConversation, TypeOK
    <1>7. \A t \in Terminals, k \in Keys :
             Writes(t, k)' => Writes(t, k) /\ (k = k0 <=> t = t0)
        BY <1>3, NoneAssumption DEF Writes, Up
    <1>8. OwnResumeOnly'
        <2>1. ASSUME NEW o \in Openers, NEW t \in Terminals, open'[o].pc \in Resuming,
                     Writes(t, view[open[o].thread].key)'
              PROVE  open'[o].terminal = t
            <3>1. open' = open /\ open[o].thread \in ThreadIds /\ Known(open[o].thread)
                BY <1>1, <1>3, <2>1
                   DEF SafeInv, OpensSound, ActiveOnce, TypeOK, Known, openVars
            <3>2. view'[open[o].thread].key = view[open[o].thread].key
                BY <1>4, <1>5, <3>1
            <3>3. view[open[o].thread].key \in Keys
                BY <1>1, <3>1 DEF TypeOK, Known, Record
            <3>4. QED BY <1>7, <2>1, <3>1, <3>2, <3>3 DEF ResumeInv, OwnResumeOnly
        <2>2. QED BY <2>1 DEF OwnResumeOnly
    <1>9. ResumesLinked'
        <2>1. ASSUME NEW t \in Terminals, NEW k \in Keys, Writes(t, k)', identities'[k] # None
              PROVE  \/ view'[identities'[k]].terminal = t
                     \/ \E o \in Openers : /\ open'[o].pc \in {"linking", "discarding"}
                                           /\ open'[o].thread = identities'[k]
                                           /\ open'[o].terminal = t
            <3>1. CASE k = k0
                BY <1>5, <1>7, <2>1, <3>1
            <3>2. CASE k # k0
                <4>1. Writes(t, k) /\ identities'[k] = identities[k]
                      /\ identities[k] \in ThreadIds \ {id}
                    BY <1>6, <1>7, <2>1, <3>2
                <4>2. view[identities[k]].terminal = t => view'[identities[k]].terminal = t
                    BY <1>4, <4>1
                <4>3. open' = open
                    BY <1>3 DEF openVars
                <4>4. QED BY <2>1, <4>1, <4>2, <4>3 DEF ResumeInv, ResumesLinked
            <3>3. QED BY <3>1, <3>2
        <2>2. QED BY <2>1 DEF ResumesLinked
    <1>10. ResumesHold'
        <2>1. \A t \in Terminals : terms'[t] = "unborn" => writer'[t] = None
            BY <1>3 DEF ResumeInv, ResumesHold
        <2>2. ASSUME NEW t \in Terminals, writer'[t] # None, active'[t] # None
              PROVE  view'[active'[t]].key = writer'[t]
            <3>1. CASE t = t0
                BY <1>3, <1>5, <2>2, <3>1 DEF TakeOver
            <3>2. CASE t # t0
                <4>1. active'[t] = active[t] /\ active[t] # id /\ writer'[t] = writer[t]
                      /\ active[t] \in ThreadIds
                    BY <1>1, <1>3, <2>2, <3>2 DEF TakeOver, TypeOK
                <4>2. view[active[t]].key = writer[t]
                    BY <2>2, <4>1 DEF ResumeInv, ResumesHold
                <4>3. QED BY <1>4, <4>1, <4>2
            <3>3. QED BY <3>1, <3>2
        <2>3. ASSUME NEW t \in Terminals, NEW u \in Terminals,
                     writer'[t] # None, Writes(t, writer[t])', Up(u)',
                     active'[u] # None, active'[u] = identities'[writer'[t]]
              PROVE  u = t
            <3>1. writer'[t] = writer[t] /\ writer[t] \in Keys /\ Up(u)
                  /\ Writes(t, writer[t])
                BY <1>1, <1>3, <1>7, <2>3 DEF TypeOK, Up
            <3>2. CASE writer[t] = k0
                <4>1. t = t0 /\ active'[u] = id
                    BY <1>5, <1>7, <2>3, <3>1, <3>2
                <4>2. u = t0
                    BY <1>3, <1>5, <4>1 DEF TakeOver
                <4>3. QED BY <4>1, <4>2
            <3>3. CASE writer[t] # k0
                <4>1. active'[u] = identities[writer[t]] /\ active'[u] # id
                    BY <1>6, <2>3, <3>1, <3>3
                <4>2. active[u] = active'[u]
                    BY <1>3, <2>3, <4>1 DEF TakeOver
                <4>3. QED BY <2>3, <3>1, <4>1, <4>2 DEF ResumeInv, ResumesHold
            <3>4. QED BY <3>2, <3>3
        <2>4. QED BY <2>1, <2>2, <2>3 DEF ResumesHold
    <1>11. NoSecondResume'
        <2>1. \A k \in Keys : \A t, u \in Terminals :
                 Writes(t, k)' /\ Writes(u, k)' => t = u
            BY <1>7 DEF ResumeInv, NoSecondResume, Writes
        <2>2. QED BY <2>1 DEF NoSecondResume, Writes
    <1>12. QED BY <1>8, <1>9, <1>10, <1>11 DEF ResumeInv

(* What Reusable finds of a thread with a resume that is up is that resume. *)
LEMMA ReusesTheResume ==
    ASSUME SafeInv, ResumeInv, NEW id \in ThreadIds, Known(id), NEW t \in Terminals,
           Writes(t, view[id].key), view[id].terminal = t
    PROVE  Reusable(id) = {t}
    <1>1. TypeOK /\ view[id].key \in Keys /\ identities[view[id].key] = id /\ id # None
          /\ t # None /\ writer[t] = view[id].key /\ Up(t) /\ writer[t] # None
        BY NoneAssumption, ThreadsAssumption
           DEF SafeInv, TypeOK, Known, Record, OneThreadPerConversation, Writes
    <1>2. \A u \in Holders(id) : Up(u) => u = t
        BY <1>1 DEF ResumeInv, ResumesHold, Holders
    <1>3. active[t] \in {None, id}
        <2>1. active[t] # None => active[t] \in ThreadIds /\ Known(active[t])
                                  /\ view[active[t]].key = view[id].key
            BY <1>1, SafeStore DEF ResumeInv, ResumesHold, Store, TypeOK
        <2>2. QED BY <1>1, <2>1 DEF SafeInv, OneThreadPerConversation
    <1>4. QED BY <1>1, <1>2, <1>3 DEF Reusable, Holders

(* The thread an open is at is one that exists, as long as it resumes it. *)
LEMMA ResumingThread ==
    ASSUME SafeInv, NEW o \in Openers, open[o].pc \in Resuming
    PROVE  /\ open[o].thread \in ThreadIds /\ Known(open[o].thread)
           /\ view[open[o].thread].key \in Keys
           /\ identities[view[open[o].thread].key] = open[o].thread
           /\ open[o].thread # None
    BY ThreadsAssumption
       DEF SafeInv, OpensSound, ActiveOnce, TypeOK, Known, Record,
           OneThreadPerConversation

LEMMA ResumeOpenDormant ==
    ASSUME SafeInv, SafeInv', ResumeInv, NEW o \in Openers, OpenDormant(o)
    PROVE  ResumeInv'
    <1> DEFINE id == open[o].thread
    <1>1. /\ TypeOK /\ id \in ThreadIds /\ Known(id) /\ Reusable(id) = {}
          /\ open[o].pc = "deciding" /\ open[o].terminal = None
          /\ view[id].key \in Keys /\ identities[view[id].key] = id /\ id # None
        BY ThreadsAssumption
           DEF SafeInv, OpensSound, OpenDormant, At, TypeOK, Known, Record,
               OneThreadPerConversation
    <1>2. /\ UNCHANGED <<rows, view, identities, active, terms, writer, stray>>
        BY DEF OpenDormant, threadVars, termVars, ghosts
    <1>3. /\ \A p \in Openers : p # o => open'[p] = open[p]
          /\ open'[o].thread = id /\ open'[o].terminal = None
          /\ open'[o].pc \in Resuming => id \notin opening
        <2>1. \E pc \in {"waiting", "launching"} :
                 /\ Goto(o, pc) /\ (pc = "launching" => id \notin opening)
            BY DEF OpenDormant
        <2>2. PICK pc \in {"waiting", "launching"} :
                 /\ Goto(o, pc) /\ (pc = "launching" => id \notin opening)
            BY <2>1
        <2>3. open' = [open EXCEPT ![o] = [pc |-> pc, thread |-> id,
                                           terminal |-> open[o].terminal]]
            BY <1>1, <2>2, GotoMoves DEF OpenPc
        <2>4. QED BY <1>1, <2>2, <2>3 DEF Resuming, TypeOK
    <1>4. ASSUME id \notin opening, NEW t \in Terminals, Writes(t, view[id].key)
          PROVE  FALSE
        <2>1. \A p \in Openers : open[p].pc \in {"linking", "discarding"} =>
                 open[p].thread # id
            BY <1>4 DEF SafeInv, OpensSound, Resuming
        <2>2. view[id].terminal = t
            BY <1>1, <1>4, <2>1 DEF ResumeInv, ResumesLinked
        <2> HIDE DEF id
        <2>3. QED BY <1>1, <1>4, <2>2, ReusesTheResume
    <1>5. OwnResumeOnly'
        <2>1. ASSUME NEW p \in Openers, NEW t \in Terminals, open'[p].pc \in Resuming,
                     Writes(t, view[open[p].thread].key)'
              PROVE  open'[p].terminal = t
            <3>1. CASE p = o
                <4>1. Writes(t, view[id].key) /\ id \notin opening
                    BY <1>2, <1>3, <2>1, <3>1 DEF Writes, Up
                <4>2. QED BY <1>4, <4>1
            <3>2. CASE p # o
                BY <1>2, <1>3, <2>1, <3>2 DEF ResumeInv, OwnResumeOnly, Writes, Up
            <3>3. QED BY <3>1, <3>2
        <2>2. QED BY <2>1 DEF OwnResumeOnly
    <1>6. ResumesLinked'
        <2>1. \A p \in Openers : open[p].pc \in {"linking", "discarding"} => p # o
            BY <1>1
        <2>2. QED BY <1>2, <1>3, <2>1 DEF ResumeInv, ResumesLinked, Writes, Up
    <1>7. ResumesHold' /\ NoSecondResume'
        BY <1>2 DEF ResumeInv, ResumesHold, NoSecondResume, Writes, Up
    <1>8. QED BY <1>5, <1>6, <1>7 DEF ResumeInv

LEMMA ResumeOpenResume ==
    ASSUME SafeInv, SafeInv', [Next]_vars, ResumeInv, NEW o \in Openers, OpenResume(o)
    PROVE  ResumeInv'
    <1> DEFINE id == open[o].thread
               k == view[id].key
    <1>1. /\ TypeOK /\ open[o].pc = "launching" /\ open[o].pc \in Resuming
          /\ open[o].terminal = None
          /\ UNCHANGED <<rows, view, identities, active>>
        BY DEF SafeInv, OpensSound, OpenResume, At, Resuming, threadVars
    <1>2. id \in ThreadIds /\ Known(id) /\ k \in Keys /\ identities[k] = id /\ id # None
        BY <1>1, ResumingThread
    <1>3. \A t \in Terminals : ~Writes(t, k)
        BY <1>1, NoneAssumption DEF ResumeInv, OwnResumeOnly, TypeOK
    <1>4. ASSUME NEW t \in Terminals, NEW s \in {"running", "exited", "missing"},
                 terms[t] = "unborn", terms' = [terms EXCEPT ![t] = s],
                 writer' = [writer EXCEPT ![t] = k],
                 stray' = IF {u \in Holders(id) : Up(u)} = {} THEN stray
                          ELSE stray \cup {t},
                 open' = [open EXCEPT ![o].pc = "linking", ![o].terminal = t]
          PROVE  ResumeInv'
        <2> HIDE DEF id, k
        <2>1. /\ open'[o].pc = "linking" /\ open'[o].thread = id /\ open'[o].terminal = t
              /\ \A p \in Openers : p # o => open'[p] = open[p]
            BY <1>1, <1>4 DEF TypeOK, id
        <2>2. active[t] = None /\ writer[t] = None
            BY <1>4 DEF SafeInv, TerminalsSound, ResumeInv, ResumesHold
        <2>3. /\ writer'[t] = k
              /\ \A u \in Terminals : u # t =>
                    /\ writer'[u] = writer[u] /\ terms'[u] = terms[u]
                    /\ u \in stray' <=> u \in stray
            BY <1>1, <1>4 DEF TypeOK
        <2>4. \A u \in Terminals, j \in Keys :
                 Writes(u, j)' => (u = t /\ j = k) \/ (u # t /\ j # k /\ Writes(u, j))
            BY <1>3, <2>3 DEF Writes, Up
        <2>5. OwnResumeOnly'
            <3>1. ASSUME NEW p \in Openers, NEW u \in Terminals, open'[p].pc \in Resuming,
                         Writes(u, view[open[p].thread].key)'
                  PROVE  open'[p].terminal = u
                <4>1. CASE p = o
                    BY <1>1, <1>2, <2>1, <2>4, <3>1, <4>1 DEF id, k
                <4>2. CASE p # o
                    <5>1. /\ open'[p] = open[p] /\ open[p].pc \in Resuming
                          /\ open[p].thread \in ThreadIds
                          /\ view[open[p].thread].key \in Keys
                          /\ identities[view[open[p].thread].key] = open[p].thread
                        BY <2>1, <3>1, <4>2, ResumingThread
                    <5>2. open[p].thread # id
                        BY <1>1, <4>2, <5>1 DEF SafeInv, OpensSound, id
                    <5>3. view[open[p].thread].key # k
                        BY <1>2, <5>1, <5>2
                    <5>4. QED BY <1>1, <2>4, <3>1, <5>1, <5>3 DEF ResumeInv, OwnResumeOnly
                <4>3. QED BY <4>1, <4>2
            <3>2. QED BY <3>1 DEF OwnResumeOnly
        <2>6. ResumesLinked'
            <3>1. ASSUME NEW u \in Terminals, NEW j \in Keys, Writes(u, j)',
                         identities'[j] # None
                  PROVE  \/ view'[identities'[j]].terminal = u
                         \/ \E p \in Openers : /\ open'[p].pc \in {"linking", "discarding"}
                                               /\ open'[p].thread = identities'[j]
                                               /\ open'[p].terminal = u
                <4>1. CASE u = t /\ j = k
                    BY <1>1, <1>2, <2>1, <4>1
                <4>2. CASE u # t /\ Writes(u, j)
                    <5>1. \A p \in Openers : open[p].pc \in {"linking", "discarding"} =>
                             p # o
                        BY <1>1
                    <5>2. QED BY <1>1, <2>1, <3>1, <4>2, <5>1 DEF ResumeInv, ResumesLinked
                <4>3. QED BY <2>4, <3>1, <4>1, <4>2
            <3>2. QED BY <3>1 DEF ResumesLinked
        <2>7. ResumesHold'
            <3>1. \A u \in Terminals : terms'[u] = "unborn" => writer'[u] = None
                BY <1>4, <2>3, <1>1 DEF ResumeInv, ResumesHold, TypeOK
            <3>2. \A u \in Terminals : writer'[u] # None /\ active'[u] # None =>
                     view'[active'[u]].key = writer'[u]
                BY <1>1, <2>2, <2>3 DEF ResumeInv, ResumesHold
            <3>3. ASSUME NEW u \in Terminals, NEW v \in Terminals, writer'[u] # None,
                         Writes(u, writer[u])', Up(v)', active'[v] # None,
                         active'[v] = identities'[writer'[u]]
                  PROVE  v = u
                <4>1. v # t /\ Up(v)
                    BY <1>1, <2>2, <2>3, <3>3 DEF Up
                <4>2. CASE u = t
                    <5>1. v \in Holders(id)
                        BY <1>1, <1>2, <2>3, <3>3, <4>2 DEF Holders
                    <5>2. t \in stray'
                        BY <1>4, <4>1, <5>1
                    <5>3. QED BY <3>3, <4>2, <5>2 DEF Writes
                <4>3. CASE u # t
                    <5>1. writer'[u] = writer[u] /\ writer[u] \in Keys /\ Writes(u, writer[u])
                        BY <1>1, <2>3, <3>3, <4>3 DEF TypeOK, Writes, Up
                    <5>2. QED BY <1>1, <3>3, <4>1, <5>1 DEF ResumeInv, ResumesHold
                <4>4. QED BY <4>2, <4>3
            <3>4. QED BY <3>1, <3>2, <3>3 DEF ResumesHold
        <2>8. NoSecondResume'
            <3>1. \A j \in Keys : \A u, v \in Terminals :
                     Writes(u, j)' /\ Writes(v, j)' => u = v
                BY <2>4 DEF ResumeInv, NoSecondResume, Writes
            <3>2. QED BY <3>1 DEF NoSecondResume, Writes
        <2>9. QED BY <2>5, <2>6, <2>7, <2>8 DEF ResumeInv
    <1>5. CASE Goto(o, "finishing") /\ UNCHANGED <<terms, writer, stray>>
        <2>1. "finishing" \in OpenPc
            BY DEF OpenPc
        <2>2. open' = [open EXCEPT ![o] = [pc |-> "finishing", thread |-> id,
                                           terminal |-> open[o].terminal]]
            BY <1>1, <1>5, <2>1, GotoMoves
        <2>3. \A p \in Openers : open'[p].pc \in Resuming =>
                 /\ open[p].pc \in Resuming /\ open'[p].thread = open[p].thread
                 /\ open'[p].terminal = open[p].terminal
            BY <1>1, <2>2 DEF TypeOK
        <2>4. \A p \in Openers : open[p].pc \in {"linking", "discarding"} =>
                 open'[p].pc \in {"linking", "discarding"}
            BY <1>1, <2>2 DEF TypeOK
        <2>5. NoNewResume /\ OpensWindDown /\ LinksKept
            BY <1>1, <1>5, <2>3, <2>4 DEF NoNewResume, OpensWindDown, LinksKept, Up
        <2>6. QED BY <2>5, ResumeKept
    <1>6. QED BY <1>4, <1>5 DEF OpenResume

(* A step that leaves the opens, the links and the ghosts of resumes alone. *)
LEMMA ResumeSame ==
    ASSUME SafeInv, SafeInv', [Next]_vars, ResumeInv,
           UNCHANGED <<identities, open, writer, stray>>,
           \A t \in Terminals : terms'[t] = "unborn" => terms[t] = "unborn",
           \A t \in Terminals : Up(t)' /\ terms[t] # "unborn" => Up(t),
           \A t \in Terminals : active'[t] \in {active[t], None},
           LinksKept
    PROVE  ResumeInv'
    <1>1. NoNewResume
        BY DEF NoNewResume
    <1>2. OpensWindDown
        BY DEF OpensWindDown
    <1>3. QED BY <1>1, <1>2, ResumeKept

LEMMA ResumeTerminals ==
    ASSUME SafeInv, SafeInv', [Next]_vars, ResumeInv, LateSessions = FALSE,
           NEW t \in Terminals,
           CreateTerminal(t) \/ TerminalStatus(t) \/ DeleteTerminal(t)
    PROVE  ResumeInv'
    <1>1. UNCHANGED <<view, identities, active, open, writer, stray>>
        BY DEF CreateTerminal, TerminalStatus, DeleteTerminal, threadVars, openVars, ghosts
    <1>2. terms \in [Terminals -> TermStatus]
        BY DEF SafeInv, TypeOK
    <1>3. /\ \A u \in Terminals : terms'[u] = "unborn" => terms[u] = "unborn"
          /\ \A u \in Terminals : Up(u)' /\ terms[u] # "unborn" => Up(u)
        <2>1. CASE CreateTerminal(t)
            BY <1>2, <2>1 DEF CreateTerminal, Up
        <2>2. CASE TerminalStatus(t)
            <3>1. \/ Up(t) /\ \E s \in {"running", "unreachable", "exited", "missing"} :
                                terms' = [terms EXCEPT ![t] = s]
                BY <2>2 DEF TerminalStatus, Up
            <3>2. QED BY <1>2, <3>1 DEF Up
        <2>3. CASE DeleteTerminal(t)
            BY <1>2, <2>3 DEF DeleteTerminal, DeleteRow, Up
        <2>4. QED BY <2>1, <2>2, <2>3
    <1>4. LinksKept
        BY <1>1 DEF LinksKept
    <1>5. QED BY <1>1, <1>3, <1>4, ResumeSame

LEMMA ResumeSweep ==
    ASSUME SafeInv, SafeInv', [Next]_vars, ResumeInv,
           \/ SweepStart \/ UNCHANGED vars \/ \E t \in Terminals : SweepLook(t)
           \/ \E o \in Openers : OpenGiveUp(o) \/ \E id \in ThreadIds : OpenCall(o, id)
    PROVE  ResumeInv'
    <1>1. UNCHANGED <<view, identities, active, terms, writer, stray>>
        BY DEF SweepStart, SweepLook, OpenGiveUp, OpenCall, vars, threadVars, termVars,
               ghosts
    <1>2. \A o \in Openers :
             /\ open'[o].pc \in Resuming => open'[o] = open[o]
             /\ open[o].pc \in Resuming => open'[o] = open[o]
        <2>1. CASE UNCHANGED open
            BY <2>1
        <2>2. ASSUME NEW o \in Openers, OpenGiveUp(o)
              PROVE  \A p \in Openers :
                        /\ open'[p].pc \in Resuming => open'[p] = open[p]
                        /\ open[p].pc \in Resuming => open'[p] = open[p]
            BY <2>2 DEF OpenGiveUp, Return, Idle, Resuming, At, SafeInv, TypeOK
        <2>3. ASSUME NEW o \in Openers, NEW id \in ThreadIds, OpenCall(o, id)
              PROVE  \A p \in Openers :
                        /\ open'[p].pc \in Resuming => open'[p] = open[p]
                        /\ open[p].pc \in Resuming => open'[p] = open[p]
            BY <2>3 DEF OpenCall, Resuming, At, SafeInv, TypeOK
        <2>4. QED BY <2>1, <2>2, <2>3 DEF SweepStart, SweepLook, vars, openVars
    <1>3. NoNewResume /\ LinksKept
        BY <1>1 DEF NoNewResume, LinksKept, Up
    <1>4. OpensWindDown
        BY <1>2 DEF OpensWindDown, Resuming
    <1>5. QED BY <1>3, <1>4, ResumeKept

LEMMA ResumeDeactivated ==
    ASSUME SafeInv, SafeInv', [Next]_vars, ResumeInv, NEW t \in Terminals, Deactivated(t),
           nextTurn' = nextTurn, UNCHANGED <<identities, open, writer, stray>>
    PROVE  ResumeInv'
    <1>1. /\ \A x \in ThreadIds : Untouched(x)
          /\ active' = [active EXCEPT ![t] = None] /\ terms' = terms
        BY SafeStore, DeactivatedEffect
    <1>2. \A u \in Terminals : active'[u] \in {active[u], None}
        BY <1>1 DEF SafeInv, TypeOK
    <1>3. LinksKept
        BY <1>1 DEF LinksKept, Untouched, Same, SameIdentity
    <1>4. QED BY <1>1, <1>2, <1>3, ResumeSame DEF Up

LEMMA ResumeRemoved ==
    ASSUME SafeInv, SafeInv', [Next]_vars, ResumeInv, NEW t \in Terminals, Removed(t),
           terms[t] = "deleted", nextTurn' = nextTurn,
           UNCHANGED <<identities, open, writer, stray>>
    PROVE  ResumeInv'
    <1>1. /\ \A x \in ThreadIds : Same(x) \/ UnlinkedFrom(x, t)
          /\ active' \in {active, [active EXCEPT ![t] = None]} /\ terms' = terms
        BY SafeStore, RemovedEffect
    <1>2. \A u \in Terminals : active'[u] \in {active[u], None}
        BY <1>1 DEF SafeInv, TypeOK
    <1>3. LinksKept
        BY <1>1 DEF LinksKept, UnlinkedFrom, Same, Up
    <1>4. QED BY <1>1, <1>2, <1>3, ResumeSame DEF Up

LEMMA ResumeUpdate ==
    ASSUME SafeInv, SafeInv', [Next]_vars, ResumeInv,
           \/ \E k \in Keys, report \in Reports : ObserveStatus(k, report)
           \/ \E id \in ThreadIds :
                 Delete(id) \/ \E archived \in BOOLEAN : Update(id, archived)
    PROVE  ResumeInv'
    <1>1. TypeOK /\ Store
        BY SafeStore
    <1>2. UNCHANGED <<active, terms, open, writer, stray>>
        BY DEF ObserveStatus, Delete, Update, openVars, termVars, ghosts
    <1>3. LinksKept /\ \A k \in Keys : identities'[k] \in {identities[k], None}
        <2>1. ASSUME NEW k \in Keys, NEW report \in Reports, ObserveStatus(k, report)
              PROVE  LinksKept /\ identities' = identities
            <3>1. \A x \in ThreadIds : Untouched(x)
                BY <1>1, <2>1, ObserveStatusEffect
            <3>2. QED BY <2>1, <3>1
                     DEF LinksKept, Untouched, Same, SameIdentity, ObserveStatus
        <2>2. ASSUME NEW id \in ThreadIds, Delete(id)
              PROVE  LinksKept /\ \A k \in Keys : identities'[k] \in {identities[k], None}
            BY <1>1, <2>2 DEF Delete, LinksKept, Persist, Overwrite, Known, TypeOK
        <2>3. ASSUME NEW id \in ThreadIds, NEW archived \in BOOLEAN, Update(id, archived)
              PROVE  LinksKept /\ identities' = identities
            <3>1. view[id] \in Record /\ identities' = identities
                  /\ view' = Overwrite(view, [y \in {id} |->
                                                [view[id] EXCEPT !.archived = archived]])
                BY <1>1, <2>3, KnownFacts DEF Update, Persist, Store
            <3>2. view'[id].terminal = view[id].terminal
                <4>1. view'[id] = [view[id] EXCEPT !.archived = archived]
                    BY <1>1, <3>1 DEF Overwrite, TypeOK
                <4>2. QED BY <3>1, <4>1 DEF Record
            <3>3. \A x \in ThreadIds \ {id} : view'[x] = view[x]
                BY <1>1, <3>1 DEF Overwrite, TypeOK
            <3>4. QED BY <3>1, <3>2, <3>3 DEF LinksKept
        <2>4. QED BY <2>1, <2>2, <2>3
    <1>4. NoNewResume /\ OpensWindDown
        BY <1>2, <1>3 DEF NoNewResume, OpensWindDown, Up
    <1>5. QED BY <1>3, <1>4, ResumeKept

(* An open links its thread to the resume of it that is up, if one is. *)
LEMMA LinkingKeepsLinks ==
    ASSUME SafeInv, NEW id \in ThreadIds, NEW t \in Terminals, Linked(id, t),
           nextTurn' = nextTurn,
           \A u \in Terminals : (Writes(u, view[id].key) /\ view[id].terminal = u) => u = t
    PROVE  LinksKept /\ view'[id].terminal = t /\ UNCHANGED <<active, terms>>
    <1>1. /\ view'[id].terminal = t
          /\ \A x \in ThreadIds \ {id} : Same(x)
          /\ active' = active /\ terms' = terms
        BY SafeStore, LinkedEffect
    <1>2. QED BY <1>1 DEF LinksKept, Same

LEMMA ResumeOpenReuse ==
    ASSUME SafeInv, SafeInv', [Next]_vars, ResumeInv, NEW o \in Openers, OpenReuse(o)
    PROVE  ResumeInv'
    <1> DEFINE id == open[o].thread
    <1>1. /\ open[o].pc = "deciding" /\ Return(o)
          /\ UNCHANGED <<identities, writer, stray, nextTurn>>
          /\ id \in ThreadIds /\ open \in [Openers -> [pc : OpenPc,
                thread : ThreadIds \cup {None}, terminal : Terminals \cup {None}]]
        BY DEF OpenReuse, At, ghosts, SafeInv, OpensSound, TypeOK
    <1>2. LinksKept /\ UNCHANGED <<active, terms>>
        <2>1. CASE Known(id) /\ \E t \in Reusable(id) : Linked(id, t)
            <3>1. PICK t \in Terminals : t \in Reusable(id) /\ Linked(id, t)
                BY <1>1, <2>1, SafeStore, ReusableFacts
            <3>2. \A u \in Terminals :
                     (Writes(u, view[id].key) /\ view[id].terminal = u) => u = t
                <4> HIDE DEF id
                <4>1. QED BY <1>1, <2>1, <3>1, ReusesTheResume
            <3> HIDE DEF id
            <3>3. QED BY <1>1, <3>1, <3>2, LinkingKeepsLinks
        <2>2. CASE UNCHANGED <<view, active, terms>>
            BY <2>2 DEF LinksKept
        <2>3. QED BY <2>1, <2>2 DEF OpenReuse
    <1>3. NoNewResume
        BY <1>1, <1>2 DEF NoNewResume, Up
    <1>4. OpensWindDown
        BY <1>1 DEF OpensWindDown, Return, Idle, Resuming
    <1>5. QED BY <1>2, <1>3, <1>4, ResumeKept

LEMMA ResumeOpenLink ==
    ASSUME SafeInv, SafeInv', [Next]_vars, ResumeInv, NEW o \in Openers, OpenLink(o)
    PROVE  ResumeInv'
    <1> DEFINE id == open[o].thread
               t == open[o].terminal
    <1>1. /\ open[o].pc = "linking" /\ open[o].pc \in Resuming
          /\ UNCHANGED <<identities, writer, stray, nextTurn>>
          /\ id \in ThreadIds /\ t \in Terminals /\ TypeOK
        BY DEF OpenLink, At, ghosts, SafeInv, OpensSound, TypeOK, Resuming
    <1>2. /\ LinksKept /\ UNCHANGED <<active, terms>>
          /\ \/ Goto(o, "finishing") /\ view'[id].terminal = t
             \/ Goto(o, "discarding")
        <2>1. CASE Linked(id, t) /\ Goto(o, "finishing")
            <3>1. \A u \in Terminals : Writes(u, view[id].key) => u = t
                BY <1>1 DEF ResumeInv, OwnResumeOnly
            <3> HIDE DEF id, t
            <3>2. QED BY <1>1, <2>1, <3>1, LinkingKeepsLinks
        <2>2. CASE UNCHANGED <<view, active, terms>> /\ Goto(o, "discarding")
            BY <2>2 DEF LinksKept
        <2>3. QED BY <2>1, <2>2 DEF OpenLink
    <1>3. NoNewResume
        BY <1>1, <1>2 DEF NoNewResume, Up
    <1>4. OpensWindDown
        <2>1. PICK pc \in {"finishing", "discarding"} :
                 Goto(o, pc) /\ (pc = "finishing" => view'[id].terminal = t)
            BY <1>2
        <2>2. open' = [open EXCEPT ![o] = [pc |-> pc, thread |-> id, terminal |-> t]]
            BY <1>1, <2>1, GotoMoves DEF OpenPc
        <2>3. QED BY <1>1, <2>1, <2>2 DEF OpensWindDown, TypeOK, Resuming
    <1>5. QED BY <1>2, <1>3, <1>4, ResumeKept

LEMMA ResumeOpenEnds ==
    ASSUME SafeInv, SafeInv', [Next]_vars, ResumeInv, NEW o \in Openers,
           OpenDiscard(o) \/ OpenConverged(o) \/ OpenFinish(o)
    PROVE  ResumeInv'
    <1>1. TypeOK /\ UNCHANGED <<view, identities, active, writer>>
        BY DEF OpenDiscard, OpenConverged, OpenFinish, threadVars, ghosts, SafeInv
    <1>2. LinksKept
        BY <1>1 DEF LinksKept
    <1>3. CASE OpenDiscard(o)
        <2> DEFINE t == open[o].terminal
        <2>1. open[o].pc = "discarding" /\ t \in Terminals
            BY <1>1, <1>3 DEF OpenDiscard, At, SafeInv, OpensSound, TypeOK
        <2>2. /\ \/ terms' = [terms EXCEPT ![t] = "deleted"] /\ stray' = stray
                 \/ terms' = terms /\ stray' = stray \cup {t}
              /\ \/ Goto(o, "converging")
                 \/ Goto(o, "finishing")
            BY <1>3 DEF OpenDiscard, DeleteRow
        <2>3. NoNewResume
            BY <1>1, <2>1, <2>2 DEF NoNewResume, Up, TypeOK
        <2>4. PICK pc \in {"converging", "finishing"} :
                 open' = [open EXCEPT ![o] = [pc |-> pc, thread |-> open[o].thread,
                                              terminal |-> t]]
            BY <1>1, <2>2, GotoMoves DEF OpenPc
        <2>5. terms'[t] = "deleted" \/ t \in stray'
            BY <1>1, <2>1, <2>2 DEF TypeOK
        <2>6. OpensWindDown
            BY <1>1, <2>1, <2>4, <2>5 DEF OpensWindDown, TypeOK, Resuming, Up
        <2>7. QED BY <1>2, <2>3, <2>6, ResumeKept
    <1>4. CASE OpenConverged(o)
        <2>1. open[o].pc = "converging" /\ UNCHANGED <<terms, stray>>
            BY <1>4 DEF OpenConverged, At, termVars, ghosts
        <2>2. open' = [open EXCEPT ![o] = [pc |-> "finishing", thread |-> open[o].thread,
                                           terminal |-> open[o].terminal]]
            BY <1>1, <1>4, GotoMoves DEF OpenConverged, OpenPc
        <2>3. OpensWindDown
            BY <1>1, <2>1, <2>2 DEF OpensWindDown, TypeOK, Resuming
        <2>4. NoNewResume
            BY <1>1, <2>1 DEF NoNewResume, Up
        <2>5. QED BY <1>2, <2>3, <2>4, ResumeKept
    <1>5. CASE OpenFinish(o)
        <2>1. /\ open[o].pc = "finishing" /\ UNCHANGED <<terms, stray>>
              /\ open' = [p \in Openers |->
                  IF p = o THEN Idle
                  ELSE IF open[p].pc = "waiting" /\ open[p].thread = open[o].thread
                  THEN [open[p] EXCEPT !.pc = "deciding"] ELSE open[p]]
            BY <1>5 DEF OpenFinish, At, termVars, ghosts
        <2>2. ASSUME NEW p \in Openers
              PROVE  /\ open'[p].pc \in Resuming => open'[p] = open[p]
                     /\ open[p].pc \in {"linking", "discarding"} => open'[p] = open[p]
            <3>1. open[p] \in [pc : OpenPc, thread : ThreadIds \cup {None},
                               terminal : Terminals \cup {None}]
                BY <1>1 DEF TypeOK
            <3>2. QED BY <2>1, <3>1 DEF Idle, Resuming
        <2>3. OpensWindDown
            BY <2>2 DEF OpensWindDown
        <2>4. NoNewResume
            BY <1>1, <2>1 DEF NoNewResume, Up
        <2>5. QED BY <1>2, <2>3, <2>4, ResumeKept
    <1>6. QED BY <1>3, <1>4, <1>5

LEMMA ResumeRestart ==
    ASSUME SafeInv, SafeInv', [Next]_vars, ResumeInv, Restart
    PROVE  ResumeInv'
    <1>1. TypeOK /\ Store
        BY SafeStore
    <1>2. /\ active' = [t \in Terminals |-> None] /\ open' = [o \in Openers |-> Idle]
          /\ UNCHANGED <<identities, terms, writer>>
          /\ stray' = stray \cup {open[o].terminal : o \in
                {p \in Openers : open[p].pc \in {"linking", "discarding"}}}
        BY DEF Restart
    <1>3. NoNewResume
        BY <1>2 DEF NoNewResume, Up
    <1>4. OpensWindDown
        BY <1>2 DEF OpensWindDown, Idle, Resuming
    <1>5. LinksKept
        <2>1. ASSUME NEW id \in ThreadIds, NEW t \in Terminals, Known(id), Up(t),
                     view[id].terminal = t
              PROVE  view'[id].terminal = t
            <3>1. rows[id] # None /\ rows[id].terminal = t
                BY <1>1, <2>1, KnownFacts DEF Store, Up
            <3>2. QED BY <1>1, <3>1, RestartEffect DEF SameIdentity
        <2>2. QED BY <1>2, <2>1 DEF LinksKept, Up
    <1>6. QED BY <1>3, <1>4, <1>5, ResumeKept

LEMMA ResumeInit ==
    ASSUME Init
    PROVE  ResumeInv
    BY DEF Init, ResumeInv, OwnResumeOnly, ResumesLinked, ResumesHold, NoSecondResume,
           Writes, Up, Idle, Resuming

LEMMA ResumeSweepAct ==
    ASSUME SafeInv, SafeInv', [Next]_vars, ResumeInv, SweepAct
    PROVE  ResumeInv'
    <1> DEFINE t == verdict.terminal
    <1>1. /\ t \in Terminals /\ (verdict.gone => terms[t] = "deleted")
          /\ UNCHANGED <<identities, open, writer, stray, nextTurn>>
        BY NoneAssumption
           DEF SweepAct, SafeInv, TypeOK, TerminalsSound, threadVars, openVars, bounds,
               ghosts
    <1>2. \/ terms[t] = "deleted" /\ Removed(t)
          \/ Deactivated(t)
          \/ UNCHANGED <<view, active, terms>>
        BY <1>1 DEF SweepAct, threadVars
    <1>3. CASE UNCHANGED <<view, active, terms>>
        <2>1. LinksKept
            BY <1>3 DEF LinksKept
        <2>2. QED BY <1>1, <1>3, <2>1, ResumeSame DEF Up
    <1> HIDE DEF t
    <1>4. QED BY <1>1, <1>2, <1>3, ResumeRemoved, ResumeDeactivated

LEMMA ResumeNext ==
    ASSUME SafeInv, SafeInv', ResumeInv, [Next]_vars, LateSessions = FALSE
    PROVE  ResumeInv'
    <1>1. ASSUME NEW t \in Terminals, Deactivate(t)
          PROVE  ResumeInv'
        BY <1>1, ResumeDeactivated DEF Deactivate, openVars, bounds, ghosts
    <1>2. ASSUME NEW t \in Terminals, TerminalRemoved(t)
          PROVE  ResumeInv'
        <2>1. terms[t] = "deleted"
            BY <1>2 DEF TerminalRemoved, SafeInv, TypeOK
        <2>2. QED BY <1>2, <2>1, ResumeRemoved DEF TerminalRemoved, openVars, ghosts
    <1>3. ASSUME NEW t \in Terminals, NEW k \in Keys, NEW report \in Reports,
                 ObserveSession(t, k, report)
          PROVE  ResumeInv'
        BY <1>3, ResumeObserveSession
    <1>4. ASSUME NEW o \in Openers, OpenStep(o)
          PROVE  ResumeInv'
        BY <1>4, ResumeOpenReuse, ResumeOpenDormant, ResumeOpenResume, ResumeOpenLink,
           ResumeOpenEnds DEF OpenStep
    <1>5. QED
        BY <1>1, <1>2, <1>3, <1>4, ResumeTerminals, ResumeSweep, ResumeSweepAct,
           ResumeUpdate, ResumeRestart DEF Next

(***************************************************************************)
(* Opening never puts a second writer on a conversation (Open, decideOpen, *)
(* link), whatever the number of opens, failures and boots, provided that  *)
(* no session comes up after its launch was counted as failed: that case   *)
(* (LateSessions) is the one service.go names and leaves to the user.      *)
(***************************************************************************)
THEOREM NoSecond ==
    ASSUME LateSessions = FALSE
    PROVE  Spec => []NoSecondResume
    <1>1. Init => ResumeInv
        BY ResumeInit
    <1>2. ResumeInv /\ SafeInv /\ SafeInv' /\ [Next]_vars => ResumeInv'
        BY ResumeNext
    <1>3. ResumeInv => NoSecondResume
        BY DEF ResumeInv
    <1>4. QED BY <1>1, <1>2, <1>3, Safe, PTL DEF Spec

-----------------------------------------------------------------------------
(* A live claim has a terminal behind it.                                  *)

(* What is open in a terminal is linked to that terminal. *)
HeldLinked == \A t \in Terminals : active[t] # None => view[active[t]].terminal = t

BackedInv == ClaimsBacked /\ HeldLinked

(* Nothing more is open, no link of what is open moves, and what claims to *)
(* be live is as it was, or was not let go of.                             *)
LEMMA BackedKept ==
    ASSUME SafeInv, BackedInv,
           \A t \in Terminals : active'[t] \in {active[t], None},
           \A t \in Terminals : active'[t] # None =>
              view'[active[t]].terminal = view[active[t]].terminal,
           \A id \in ThreadIds : Known(id)' /\ ClaimsLive(view'[id]) =>
              \/ Known(id) /\ ClaimsLive(view[id])
              \/ Held(id),
           \A id \in ThreadIds, t \in Terminals :
              (/\ active[t] = id /\ active'[t] = None
               /\ Known(id)' /\ ClaimsLive(view'[id])) => FALSE
    PROVE  BackedInv'
    <1>1. ASSUME NEW id \in ThreadIds, Known(id)', ClaimsLive(view'[id])
          PROVE  Held(id)'
        <2>1. PICK t \in Terminals : active[t] = id
            BY <1>1 DEF BackedInv, ClaimsBacked, Held, Holders
        <2>2. active'[t] = id
            BY <1>1, <2>1
        <2>3. QED BY <2>2 DEF Held, Holders
    <1>2. HeldLinked'
        BY DEF BackedInv, HeldLinked
    <1>3. QED BY <1>1, <1>2 DEF BackedInv, ClaimsBacked

LEMMA BackedObserveSession ==
    ASSUME SafeInv, BackedInv, MaxFailures = 0, NEW t \in Terminals, NEW k \in Keys,
           NEW report \in Reports, ObserveSession(t, k, report)
    PROVE  BackedInv'
    <1>1. TypeOK /\ Store
        BY SafeStore
    <1>2. PICK id \in ThreadIds : Observation(t, k, id)
        BY <1>1, ObserveSessionEffect
    <1>3. /\ view'[id].terminal = t /\ active' = TakeOver(t, id)
          /\ \A x \in ThreadIds \ {id} : view[x] # None =>
                view'[x].terminal = view[x].terminal
        BY <1>2 DEF Observation, Untouched, Same, SameIdentity
    <1>4. active'[t] = id
        BY <1>3 DEF TakeOver
    <1>5. \E x \in ThreadIds : \E failing \in SUBSET DOMAIN Displaced(t, x), r \in Record :
            /\ Storable(r) /\ r.terminal = t
            /\ Refused(Displaced(t, x), failing)
            /\ Persist([y \in {x} \cup (DOMAIN Displaced(t, x) \ failing) |->
                          IF y = x THEN r ELSE Displaced(t, x)[y]])
            /\ active' = TakeOver(t, x)
        <2>1. PICK x \in ThreadIds :
                LET known == identities[k] = x
                    record == Observed(IF known THEN view[x] ELSE NewRecord(k, t), t, report)
                IN  /\ known \/ (identities[k] = None /\ rows[x] = None)
                    /\ Storable(record)
                    /\ \E failing \in SUBSET DOMAIN Displaced(t, x) :
                        /\ Refused(Displaced(t, x), failing)
                        /\ Persist([y \in {x} \cup (DOMAIN Displaced(t, x) \ failing) |->
                                      IF y = x THEN record ELSE Displaced(t, x)[y]])
                        /\ active' = TakeOver(t, x)
            BY DEF ObserveSession
        <2> DEFINE base == IF identities[k] = x THEN view[x] ELSE NewRecord(k, t)
        <2>2. base \in Record /\ RecordSound(base, nextTurn) /\ nextTurn \in Nat
            BY <1>1, <2>1, KnownFacts, NewRecordFacts, ThreadsAssumption
               DEF TypeOK, Store, OneThreadPerConversation
        <2> HIDE DEF base
        <2>3. /\ Observed(base, t, report) \in Record
              /\ Observed(base, t, report).terminal = t
            BY <2>2, ObservedFacts
        <2>4. QED BY <2>1, <2>3 DEF base
    <1>6. PICK failing \in SUBSET DOMAIN Displaced(t, id), r \in Record :
            /\ Storable(r) /\ r.terminal = t
            /\ Refused(Displaced(t, id), failing)
            /\ Persist([y \in {id} \cup (DOMAIN Displaced(t, id) \ failing) |->
                          IF y = id THEN r ELSE Displaced(t, id)[y]])
        BY <1>4, <1>5 DEF TakeOver
    <1>7. ASSUME active[t] # None, active[t] # id
          PROVE  /\ view[active[t]] \in Record /\ DOMAIN Displaced(t, id) = {active[t]}
                 /\ Displaced(t, id)[active[t]] = CoerceRecord(view[active[t]])
                 /\ Storable(CoerceRecord(view[active[t]]))
                 /\ ~ClaimsLive(CoerceRecord(view[active[t]]))
        <2>1. active[t] \in ThreadIds /\ view[active[t]] \in Record
            BY <1>1, <1>7, KnownFacts DEF TypeOK, Store
        <2>2. view[active[t]].terminal = t
            BY <1>7 DEF BackedInv, HeldLinked
        <2>3. /\ CoerceRecord(view[active[t]]).terminal = t
              /\ ~ClaimsLive(CoerceRecord(view[active[t]]))
            BY <2>1, <2>2, CoerceFacts DEF SameIdentity
        <2>4. Storable(CoerceRecord(view[active[t]]))
            BY <1>6, <2>3 DEF Storable
        <2>5. DOMAIN Displaced(t, id) = {active[t]}
              /\ Displaced(t, id)[active[t]] = CoerceRecord(view[active[t]])
            BY <1>7, <2>1 DEF Displaced
        <2>6. QED BY <2>1, <2>3, <2>4, <2>5
    <1>8. failing = {}
        <2>1. ~MayFail
            BY <1>1 DEF MayFail, TypeOK
        <2>2. \A y \in DOMAIN Displaced(t, id) : Storable(Displaced(t, id)[y])
            BY <1>7 DEF Displaced
        <2>3. QED BY <1>6, <2>1, <2>2 DEF Refused
    <1>9. \A y \in ThreadIds \ {id} :
             view'[y] = IF y = active[t] THEN CoerceRecord(view[y]) ELSE view[y]
        <2>1. \A y \in ThreadIds \ {id} :
                 view'[y] = IF y \in DOMAIN Displaced(t, id)
                            THEN Displaced(t, id)[y] ELSE view[y]
            BY <1>1, <1>6, <1>8 DEF Persist, Overwrite, TypeOK
        <2>2. DOMAIN Displaced(t, id) = {active[t]} \ {id, None}
              /\ \A y \in DOMAIN Displaced(t, id) :
                    Displaced(t, id)[y] = CoerceRecord(view[y])
            BY DEF Displaced
        <2>3. QED BY <2>1, <2>2, ThreadsAssumption
    <1>10. ASSUME NEW y \in ThreadIds, Known(y)', ClaimsLive(view'[y])
           PROVE  Held(y)'
        <2>1. CASE y = id
            BY <1>4, <2>1 DEF Held, Holders
        <2>2. CASE y # id
            <3>1. y # active[t]
                BY <1>7, <1>9, <1>10, <2>2, ThreadsAssumption
            <3>2. view'[y] = view[y]
                BY <1>9, <2>2, <3>1
            <3>3. PICK u \in Terminals : active[u] = y
                BY <1>10, <3>2 DEF BackedInv, ClaimsBacked, Held, Holders, Known
            <3>4. active'[u] = y
                BY <1>3, <2>2, <3>1, <3>3 DEF TakeOver
            <3>5. QED BY <3>4 DEF Held, Holders
        <2>3. QED BY <2>1, <2>2
    <1>11. ASSUME NEW u \in Terminals, active'[u] # None
           PROVE  view'[active'[u]].terminal = u
        <2>1. CASE u = t
            BY <1>3, <1>4, <2>1
        <2>2. CASE u # t
            <3>1. active'[u] = active[u] /\ active[u] # id
                BY <1>3, <1>11, <2>2 DEF TakeOver
            <3>2. active[u] \in ThreadIds \ {id} /\ view[active[u]] # None
                  /\ view[active[u]].terminal = u
                BY <1>1, <1>11, <3>1 DEF TypeOK, Store, Known, BackedInv, HeldLinked
            <3>3. QED BY <1>3, <3>1, <3>2
        <2>3. QED BY <2>1, <2>2
    <1>12. QED BY <1>10, <1>11 DEF BackedInv, ClaimsBacked, HeldLinked

LEMMA BackedObserveStatus ==
    ASSUME SafeInv, BackedInv, NEW k \in Keys, NEW report \in Reports,
           ObserveStatus(k, report)
    PROVE  BackedInv'
    <1> DEFINE id == identities[k]
               record == ApplyStatus(view[id], report, Held(id), nextTurn)
    <1>1. TypeOK /\ Store
        BY SafeStore
    <1>2. /\ id \in ThreadIds /\ Known(id) /\ active' = active
          /\ view' = Overwrite(view, [x \in {id} |-> record])
        BY <1>1 DEF ObserveStatus, Persist, TypeOK, Store, OneThreadPerConversation
    <1>3. view[id] \in Record /\ report \in Report /\ Held(id) \in BOOLEAN /\ nextTurn \in Nat
        BY <1>1, <1>2, KnownFacts, ThreadsAssumption DEF Store, TypeOK, Held
    <1> HIDE DEF id
    <1>4. /\ record.terminal = view[id].terminal
          /\ ~Held(id) /\ ~ClaimsLive(view[id]) => ~ClaimsLive(record)
        BY <1>3, ApplyStatusFacts DEF SameIdentity
    <1> HIDE DEF record
    <1>5. view'[id] = record /\ \A x \in ThreadIds \ {id} : view'[x] = view[x]
        BY <1>1, <1>2 DEF Overwrite, TypeOK
    <1>6. \A t \in Terminals : active[t] # None =>
             view'[active[t]].terminal = view[active[t]].terminal
        BY <1>1, <1>4, <1>5 DEF TypeOK
    <1>7. \A x \in ThreadIds : Known(x)' /\ ClaimsLive(view'[x]) =>
             (Known(x) /\ ClaimsLive(view[x])) \/ Held(x)
        BY <1>2, <1>4, <1>5 DEF Known
    <1>8. QED BY <1>2, <1>6, <1>7, BackedKept, ThreadsAssumption

LEMMA BackedDeactivated ==
    ASSUME SafeInv, BackedInv, NEW t \in Terminals, Deactivated(t)
    PROVE  BackedInv'
    <1> DEFINE id == active[t]
    <1>1. TypeOK /\ Store
        BY SafeStore
    <1>2. /\ id \in ThreadIds /\ Known(id) /\ view[id] \in Record
          /\ active' = [active EXCEPT ![t] = None]
          /\ Settle(id, CoerceRecord(view[id]))
        BY <1>1, KnownFacts DEF Deactivated, TypeOK, Store
    <1>3. /\ CoerceRecord(view[id]).terminal = view[id].terminal
          /\ ~ClaimsLive(CoerceRecord(view[id]))
        BY <1>2, CoerceFacts DEF SameIdentity
    <1>4. /\ view'[id] = CoerceRecord(view[id])
          /\ \A x \in ThreadIds \ {id} : view'[x] = view[x]
        BY <1>1, <1>2 DEF Settle, Persist, Overwrite, TypeOK
    <1>5. \A u \in Terminals : active'[u] = IF u = t THEN None ELSE active[u]
        BY <1>1, <1>2 DEF TypeOK
    <1>6. \A u \in Terminals : active[u] # None =>
             view'[active[u]].terminal = view[active[u]].terminal
        BY <1>1, <1>3, <1>4 DEF TypeOK
    <1>7. \A x \in ThreadIds : Known(x)' /\ ClaimsLive(view'[x]) =>
             x # id /\ Known(x) /\ ClaimsLive(view[x])
        BY <1>3, <1>4 DEF Known
    <1>8. QED BY <1>5, <1>6, <1>7, BackedKept, ThreadsAssumption

LEMMA BackedRemoved ==
    ASSUME SafeInv, BackedInv, MaxFailures = 0, NEW t \in Terminals, Removed(t)
    PROVE  BackedInv'
    <1> DEFINE D == {x \in ThreadIds : Known(x) /\ view[x].terminal = t}
               record(x) == CoerceRecord([view[x] EXCEPT !.terminal = None])
    <1>1. TypeOK /\ Store
        BY SafeStore
    <1>2. PICK failing \in SUBSET D :
            /\ Refused(Unlinked(t), failing)
            /\ Persist(Without(Unlinked(t), failing))
            /\ active' = IF active[t] \in failing THEN active
                                                  ELSE [active EXCEPT ![t] = None]
        BY DEF Removed, Unlinked
    <1>3. ASSUME NEW x \in D
          PROVE  record(x).terminal = None /\ ~ClaimsLive(record(x))
        <2>1. view[x] \in Record
            BY <1>1, KnownFacts DEF Store
        <2>2. /\ [view[x] EXCEPT !.terminal = None] \in Record
              /\ [view[x] EXCEPT !.terminal = None].terminal = None
            BY <2>1 DEF Record
        <2>3. QED BY <2>2, CoerceFacts DEF SameIdentity
    <1>4. DOMAIN Unlinked(t) = D /\ \A x \in D : Unlinked(t)[x] = record(x)
        BY DEF Unlinked
    <1> HIDE DEF record
    <1>5. failing = {}
        <2>1. ~MayFail
            BY <1>1 DEF MayFail, TypeOK
        <2>2. \A x \in D : Storable(record(x))
            BY <1>3 DEF Storable
        <2>3. QED BY <1>2, <1>4, <2>1, <2>2 DEF Refused
    <1>6. \A x \in ThreadIds : view'[x] = IF x \in D THEN record(x) ELSE view[x]
        BY <1>1, <1>2, <1>4, <1>5 DEF Persist, Without, Overwrite, TypeOK
    <1>7. \A u \in Terminals : active'[u] = IF u = t THEN None ELSE active[u]
        BY <1>1, <1>2, <1>5 DEF TypeOK
    <1>8. \A u \in Terminals : active[u] # None =>
             active[u] \in ThreadIds /\ (active[u] \in D <=> u = t)
        BY <1>1 DEF TypeOK, Store, BackedInv, HeldLinked
    <1>9. \A u \in Terminals : active'[u] # None =>
             view'[active[u]].terminal = view[active[u]].terminal
        BY <1>6, <1>7, <1>8
    <1>10. \A x \in ThreadIds : Known(x)' /\ ClaimsLive(view'[x]) =>
              x \notin D /\ Known(x) /\ ClaimsLive(view[x])
        BY <1>3, <1>6 DEF Known
    <1> HIDE DEF D
    <1>11. \A x \in ThreadIds, u \in Terminals :
              (/\ active[u] = x /\ active'[u] = None
               /\ Known(x)' /\ ClaimsLive(view'[x])) => FALSE
        BY <1>7, <1>8, <1>10, ThreadsAssumption
    <1>12. QED BY <1>7, <1>9, <1>10, <1>11, BackedKept

LEMMA BackedUpdate ==
    ASSUME SafeInv, BackedInv, NEW id \in ThreadIds,
           Delete(id) \/ \E archived \in BOOLEAN : Update(id, archived)
    PROVE  BackedInv'
    <1>1. TypeOK /\ Store
        BY SafeStore
    <1>2. /\ active' = active /\ Known(id) /\ view[id] \in Record
          /\ \A x \in ThreadIds \ {id} : view'[x] = view[x]
        BY <1>1, KnownFacts DEF Delete, Update, Persist, Overwrite, TypeOK, Store
    <1>3. CASE Delete(id)
        <2>1. view'[id] = None /\ ~Held(id)
            BY <1>1, <1>3 DEF Delete, Persist, Overwrite, TypeOK
        <2>2. \A t \in Terminals : active[t] # id
            BY <2>1 DEF Held, Holders
        <2>3. \A t \in Terminals : active[t] # None =>
                 view'[active[t]].terminal = view[active[t]].terminal
            BY <1>1, <1>2, <2>2 DEF TypeOK
        <2>4. \A x \in ThreadIds : Known(x)' /\ ClaimsLive(view'[x]) =>
                 Known(x) /\ ClaimsLive(view[x])
            BY <1>2, <2>1 DEF Known
        <2>5. QED BY <1>2, <2>3, <2>4, BackedKept, ThreadsAssumption
    <1>4. CASE \E archived \in BOOLEAN : Update(id, archived)
        <2>1. PICK archived \in BOOLEAN : view'[id] = [view[id] EXCEPT !.archived = archived]
            BY <1>1, <1>4 DEF Update, Persist, Overwrite, TypeOK
        <2>2. /\ view'[id].terminal = view[id].terminal
              /\ view'[id].status = view[id].status /\ view'[id].turn = view[id].turn
            BY <1>2, <2>1 DEF Record
        <2>3. ClaimsLive(view'[id]) => ClaimsLive(view[id])
            BY <2>2 DEF ClaimsLive
        <2>4. \A t \in Terminals : active[t] # None =>
                 view'[active[t]].terminal = view[active[t]].terminal
            BY <1>1, <1>2, <2>2 DEF TypeOK
        <2>5. \A x \in ThreadIds : Known(x)' /\ ClaimsLive(view'[x]) =>
                 Known(x) /\ ClaimsLive(view[x])
            BY <1>2, <2>3 DEF Known
        <2>6. QED BY <1>2, <2>4, <2>5, BackedKept, ThreadsAssumption
    <1>5. QED BY <1>3, <1>4

LEMMA BackedRestart ==
    ASSUME SafeInv, Restart
    PROVE  BackedInv'
    <1>1. \A x \in ThreadIds : rows[x] # None => rows[x] \in Record
        BY DEF SafeInv, TypeOK
    <1>2. \A x \in ThreadIds : Known(x)' => ~ClaimsLive(view'[x])
        BY <1>1, CoerceFacts DEF Restart, Loaded, Known
    <1>3. \A t \in Terminals : active'[t] = None
        BY DEF Restart
    <1>4. QED BY <1>2, <1>3 DEF BackedInv, ClaimsBacked, HeldLinked

LEMMA BackedSame ==
    ASSUME BackedInv, UNCHANGED <<view, active>>
    PROVE  BackedInv'
    BY DEF BackedInv, ClaimsBacked, HeldLinked, Known, Held, Holders

LEMMA BackedNext ==
    ASSUME SafeInv, BackedInv, [Next]_vars, MaxFailures = 0, Openers = {}
    PROVE  BackedInv'
    <1>1. ASSUME NEW t \in Terminals,
                 CreateTerminal(t) \/ TerminalStatus(t) \/ DeleteTerminal(t) \/ SweepLook(t)
          PROVE  BackedInv'
        BY <1>1, BackedSame
           DEF CreateTerminal, TerminalStatus, DeleteTerminal, SweepLook, threadVars
    <1>2. ASSUME NEW t \in Terminals, TerminalRemoved(t) \/ Deactivate(t)
          PROVE  BackedInv'
        BY <1>2, BackedRemoved, BackedDeactivated DEF TerminalRemoved, Deactivate
    <1>3. ASSUME NEW t \in Terminals, NEW k \in Keys, NEW report \in Reports,
                 ObserveSession(t, k, report)
          PROVE  BackedInv'
        BY <1>3, BackedObserveSession
    <1>4. CASE SweepAct
        <2>1. verdict.terminal \in Terminals
            BY <1>4 DEF SweepAct, SafeInv, TypeOK
        <2>2. \/ Removed(verdict.terminal) \/ Deactivated(verdict.terminal)
              \/ UNCHANGED <<view, active>>
            BY <1>4 DEF SweepAct, threadVars
        <2>3. QED BY <2>1, <2>2, BackedRemoved, BackedDeactivated, BackedSame
    <1>5. CASE SweepStart \/ UNCHANGED vars
        BY <1>5, BackedSame DEF SweepStart, threadVars, vars
    <1>6. CASE Restart
        BY <1>6, BackedRestart
    <1>7. QED BY <1>1, <1>2, <1>3, <1>4, <1>5, <1>6, BackedObserveStatus, BackedUpdate
             DEF Next

(***************************************************************************)
(* A live status or a running turn has a terminal behind it that holds the *)
(* thread (commit, ObserveStatus, Deactivate, TerminalRemoved, Load), in   *)
(* every number of terminals and conversations, as long as no write fails  *)
(* and threads are opened in their terminals and not by a request: both    *)
(* leave a claim standing until the sweep, the next boot or a hook.        *)
(***************************************************************************)
THEOREM Backed ==
    ASSUME MaxFailures = 0, Openers = {}
    PROVE  Spec => []ClaimsBacked
    <1>1. Init => BackedInv
        BY DEF Init, BackedInv, ClaimsBacked, HeldLinked, Known
    <1>2. BackedInv /\ SafeInv /\ [Next]_vars => BackedInv'
        BY BackedNext
    <1>3. BackedInv => ClaimsBacked
        BY DEF BackedInv
    <1>4. QED BY <1>1, <1>2, <1>3, Safe, PTL DEF Spec
=============================================================================
