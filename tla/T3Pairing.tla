----------------------------- MODULE T3Pairing ------------------------------
(***************************************************************************)
(* How the T3 Code integration comes by its session (t3code/session.go,    *)
(* Run and serve of service.go): a session is paired through T3's CLI,     *)
(* kept in a file, presented for a ticket at every connection, and         *)
(* replaced when T3 no longer takes it.                                    *)
(*                                                                         *)
(* A session is the number of the pairing that minted it.  T3 is outside   *)
(* the repository: it keeps the sessions it issued, answers 401 for one it *)
(* no longer has and 403 for one whose scope does not do.  What follows    *)
(* the ticket is T3Mirror.                                                 *)
(***************************************************************************)
EXTENDS Naturals, FiniteSets

CONSTANTS
    MaxPairings,   \* bound: sessions T3 issues
    MaxFaults,     \* bound: CLI calls, exchanges, writes and answers that fail
    MaxCrashes     \* bound: restarts

VARIABLES
    live,       \* T3: the sessions it has
    narrow,     \* T3: sessions whose scope it refuses
    minted,     \* T3: how many it has issued
    file,       \* the session file: its session, Nobody, or unreadable
    session,    \* Service.session
    anonymous,  \* sessions whose id T3 was not asked for successfully
    stale,      \* sessions granted an earlier set of scopes
    pc,         \* serve: where it is, or the wait for the next try
    fresh,      \* the session serve has just paired
    repaired,   \* serve has paired already
    refused,    \* history: sessions that were refused for their scope
    presented,  \* history: the session the last ticket was asked with
    leaked,     \* history: sessions nothing can retire any more
    faults, crashes

t3 == <<live, narrow, minted>>
serving == <<pc, fresh, repaired>>
pairingVars == <<t3, file, session, anonymous, stale, serving, refused, presented,
                 leaked, faults, crashes>>

Nobody == 0
Unreadable == MaxPairings + 1
Sessions == 1 .. MaxPairings

TypeOK ==
    /\ live \subseteq Sessions /\ narrow \subseteq Sessions /\ minted \in 0 .. MaxPairings
    /\ file \in Sessions \cup {Nobody, Unreadable} /\ session \in Sessions \cup {Nobody}
    /\ anonymous \subseteq Sessions /\ stale \subseteq Sessions
    /\ pc \in {"start", "pair", "save", "ticket", "connected", "auth_failed"}
    /\ fresh \in Sessions \cup {Nobody} /\ repaired \in BOOLEAN
    /\ presented \in Sessions \cup {Nobody}
    /\ refused \subseteq Sessions /\ leaked \subseteq Sessions

Init ==
    /\ live = {} /\ narrow = {} /\ minted = 0
    /\ file = Nobody /\ session = Nobody /\ anonymous = {} /\ stale = {}
    /\ pc = "start" /\ fresh = Nobody /\ repaired = FALSE
    /\ refused = {} /\ presented = Nobody /\ leaked = {}
    /\ faults = 0 /\ crashes = 0

Fault == faults < MaxFaults /\ faults' = faults + 1

(* revoke, best effort: it needs the session's id and T3's CLI. *)
Revoke(s) ==
    \/ /\ s \notin anonymous /\ live' = live \ {s} /\ UNCHANGED <<leaked, faults>>
    \/ /\ s \in anonymous /\ leaked' = leaked \cup {s} /\ UNCHANGED <<live, faults>>
    \/ Fault /\ leaked' = leaked \cup {s} /\ UNCHANGED live

-----------------------------------------------------------------------------
(* serve begins: the file is read if there is no session in memory; one    *)
(* with another set of scopes is retired.                                  *)
Start ==
    LET loaded == IF session # Nobody THEN session
                  ELSE IF file = Unreadable THEN Nobody ELSE file
    IN
    /\ pc = "start"
    /\ repaired' = FALSE /\ fresh' = Nobody
    /\ \/ /\ loaded # Nobody /\ loaded \in stale
          /\ session' = Nobody /\ pc' = "pair" /\ Revoke(loaded)
       \/ /\ loaded \notin stale
          /\ session' = loaded
          /\ pc' = IF loaded = Nobody THEN "pair" ELSE "ticket"
          /\ UNCHANGED <<live, leaked, faults>>
    /\ UNCHANGED <<narrow, minted, file, anonymous, stale, refused, presented, crashes>>

(* A grant from the CLI, exchanged for a session; a scope other than the   *)
(* one asked for, and a CLI or exchange that refuses, is an authentication *)
(* failure, a T3 that cannot answer is not.                                *)
Pair ==
    /\ pc = "pair" /\ minted < MaxPairings
    /\ \/ /\ minted' = minted + 1 /\ live' = live \cup {minted'}
          /\ fresh' = minted' /\ pc' = "save"
          /\ \/ UNCHANGED <<anonymous, faults>>
             \/ Fault /\ anonymous' = anonymous \cup {minted'}
          /\ UNCHANGED leaked
       \/ /\ minted' = minted + 1 /\ live' = live \cup {minted'} /\ Fault
          /\ leaked' = leaked \cup {minted'} /\ pc' = "auth_failed"
          /\ UNCHANGED <<anonymous, fresh>>
       \/ /\ Fault /\ pc' \in {"auth_failed", "start"}
          /\ UNCHANGED <<minted, live, anonymous, leaked, fresh>>
    /\ UNCHANGED <<narrow, file, session, stale, repaired, refused, presented, crashes>>

(* Fault: a session that could not be kept is left to T3. *)
SaveUnretired ==
    /\ pc = "save"
    /\ \/ /\ file' = fresh /\ session' = fresh /\ repaired' = TRUE /\ pc' = "ticket"
          /\ UNCHANGED faults
       \/ Fault /\ pc' = "auth_failed" /\ UNCHANGED <<file, session, repaired>>
    /\ UNCHANGED <<t3, anonymous, stale, fresh, refused, presented, leaked, crashes>>

(* saveSession, by atomic replace; a session that only memory holds would  *)
(* leak, so it is retired at once.                                         *)
Save ==
    /\ pc = "save"
    /\ \/ /\ file' = fresh /\ session' = fresh /\ repaired' = TRUE /\ pc' = "ticket"
          /\ UNCHANGED <<live, leaked, faults>>
       \/ /\ faults < MaxFaults
          /\ \/ /\ fresh \notin anonymous /\ live' = live \ {fresh}
                /\ faults' = faults + 1 /\ UNCHANGED leaked
             \/ /\ fresh \in anonymous \/ faults + 1 < MaxFaults
                /\ leaked' = leaked \cup {fresh} /\ UNCHANGED live
                /\ faults' = IF fresh \in anonymous THEN faults + 1 ELSE faults + 2
          /\ pc' = "auth_failed" /\ UNCHANGED <<file, session, repaired>>
    /\ UNCHANGED <<narrow, minted, anonymous, stale, fresh, refused, presented, crashes>>

(* Fault: a session T3 rejects is not replaced. *)
PairsAgainNever == FALSE

(* A session T3 rejects is replaced once in a serve. *)
PairsAgain == ~repaired

(* The ticket: taken; 401, replaced once, the old one retired first; 403,  *)
(* retired (scopeRefused); anything else is tried again.                   *)
Ticket ==
    /\ pc = "ticket"
    /\ presented' = session
    /\ \/ /\ session \in live \ narrow /\ pc' = "connected"
          /\ UNCHANGED <<live, session, refused, leaked, faults>>
       \/ /\ session \notin live
          /\ \/ PairsAgain /\ session' = Nobody /\ pc' = "pair"
             \/ ~PairsAgain /\ pc' = "auth_failed" /\ UNCHANGED session
          /\ UNCHANGED <<live, refused, leaked, faults>>
       \/ /\ session \in live \cap narrow
          /\ Revoke(session) /\ session' = Nobody /\ pc' = "auth_failed"
          /\ refused' = refused \cup {session}
       \/ /\ Fault /\ pc' = "start" /\ UNCHANGED <<live, session, refused, leaked>>
    /\ UNCHANGED <<narrow, minted, file, anonymous, stale, fresh, repaired, crashes>>

(* The subscription ends, or is refused for the session's scope.           *)
Disconnect ==
    /\ pc = "connected"
    /\ \/ /\ Fault /\ pc' = "start" /\ UNCHANGED <<live, session, refused, leaked>>
       \/ /\ session \notin live /\ pc' = "start"
          /\ UNCHANGED <<live, session, refused, leaked, faults>>
       \/ /\ session \in live \cap narrow
          /\ Revoke(session) /\ session' = Nobody /\ pc' = "auth_failed"
          /\ refused' = refused \cup {session}
    /\ UNCHANGED <<narrow, minted, file, anonymous, stale, fresh, repaired, presented, crashes>>

(* The wait after an authentication failure is over, or T3 was restarted. *)
Retry ==
    /\ pc = "auth_failed"
    /\ pc' = "start"
    /\ UNCHANGED <<t3, file, session, anonymous, stale, fresh, repaired, refused,
                   presented, leaked, faults, crashes>>

-----------------------------------------------------------------------------
(* The user of T3 revokes ATC's session, or T3 comes to want more scope. *)
Outside ==
    /\ Fault
    /\ \E s \in live \ leaked :
          \/ live' = live \ {s} /\ UNCHANGED narrow
          \/ s \notin narrow /\ narrow' = narrow \cup {s} /\ UNCHANGED live
    /\ UNCHANGED <<minted, file, session, anonymous, stale, serving, refused, presented,
                   leaked, crashes>>

(* The file is damaged. *)
Damage ==
    /\ file \in Sessions /\ Fault
    /\ file' = Unreadable
    /\ leaked' = IF session = Nobody THEN leaked \cup {file} ELSE leaked
    /\ UNCHANGED <<t3, session, anonymous, stale, serving, refused, presented, crashes>>

(* A restart, perhaps of a version that asks for other scopes. *)
Restart ==
    /\ crashes < MaxCrashes
    /\ crashes' = crashes + 1
    /\ session' = Nobody /\ pc' = "start" /\ fresh' = Nobody /\ repaired' = FALSE
    /\ stale' \in {stale, 1 .. minted}
    /\ leaked' = leaked \cup {s \in live : s # file}
    /\ presented' = Nobody
    /\ UNCHANGED <<t3, file, anonymous, refused, faults>>

Step == Start \/ Pair \/ Save \/ Ticket \/ Retry

Next == Step \/ Disconnect \/ Outside \/ Damage \/ Restart

Spec == Init /\ [][Next]_pairingVars

-----------------------------------------------------------------------------
(* Properties.                                                             *)

(***************************************************************************)
(* Sessions do not pile up in T3: of those ATC paired at most one is left  *)
(* there -- besides the ones a failed revocation, a missing id, a refused  *)
(* scope or a crash before the file was written put out of reach           *)
(* (saveSession, revoke, serve).                                           *)
(***************************************************************************)
OneSessionInT3 == Cardinality(live \ leaked) <= 1

(***************************************************************************)
(* Nothing but a scope T3 goes on refusing keeps the integration away: it  *)
(* ends connected, its pairings used up, or presenting a session T3        *)
(* refuses for its scope and could not be made to revoke (Run, serve).     *)
(***************************************************************************)
Settled ==
    \/ pc = "connected" \/ minted = MaxPairings
    \/ (session = Nobody \/ session \in narrow) /\ file \in live \cap narrow
EndsConnected == <>[]Settled

(***************************************************************************)
(* scopeRefused: "the session is retired, so the slow retry pairs afresh   *)
(* instead of presenting the same credential".  The code does not keep it: *)
(* when the session cannot be revoked, its file is read again.             *)
(***************************************************************************)
RefusedNotPresented == [][presented' = presented \/ presented' \notin refused]_pairingVars
=============================================================================
