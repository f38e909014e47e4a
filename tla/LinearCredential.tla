-------------------------- MODULE LinearCredential --------------------------
(***************************************************************************)
(* The Linear app's credential (service.go, setup.go, api.go): tokens in   *)
(* an operator-written file, a copy of it in memory, and two loops -- the  *)
(* probe and the outbox sender -- that call Linear with the copy's access  *)
(* token and renew it when Linear refuses it or its expiry is near.        *)
(*                                                                         *)
(* A credential is the number of the grant that minted it; number n has    *)
(* one access and one refresh token.  Linear is outside the repository: it *)
(* accepts the newest access token while it lasts, and a refresh token     *)
(* once.  The renewal lock serialises renewals; reloading the file is not  *)
(* under it, and reads the file before it stores what it read.             *)
(***************************************************************************)
EXTENDS Naturals

CONSTANTS
    MaxGrants,    \* bound: credentials Linear mints
    MaxFaults,    \* bound: failed calls to Linear and failed file writes
    MaxCrashes    \* bound: restarts

VARIABLES
    file,       \* the setup file's credential; 0: missing or invalid
    setup,      \* Service.setup; 0: nil
    issued,     \* Linear: the newest credential
    expired,    \* Linear: its access token has run out
    spent,      \* Linear: refresh tokens that were used
    loaded,     \* the probe loop: what reloadSetup read and has not stored
    call,       \* per loop: where it is, and the token it uses
    lock,       \* renewMu: the loop that holds it
    state,      \* connection.State
    stranded,   \* history: a credential Linear minted did not reach the file
    faults, crashes

credentialVars == <<file, setup, issued, expired, spent, loaded, call, lock,
                    state, stranded, faults, crashes>>

Loops == {"probe", "sender"}
Missing == 0
NotRead == MaxGrants + 1

Resting == [pc |-> "rest", token |-> Missing, fresh |-> FALSE]

TypeOK ==
    /\ file \in 0 .. MaxGrants /\ setup \in 0 .. MaxGrants
    /\ issued \in 1 .. MaxGrants /\ expired \in BOOLEAN
    /\ spent \subseteq 1 .. MaxGrants
    /\ loaded \in 0 .. NotRead
    /\ call \in [Loops -> [pc : {"rest", "calling", "locking", "renewing", "saving"},
                           token : 0 .. MaxGrants, fresh : BOOLEAN]]
    /\ lock \in Loops \cup {"free"}
    /\ \A l \in Loops : lock = l <=> call[l].pc \in {"renewing", "saving"}
    /\ state \in {"connecting", "connected", "auth_failed", "unavailable"}

Init ==
    /\ file = 1 /\ setup = 1 /\ issued = 1 /\ expired = FALSE /\ spent = {}
    /\ loaded = NotRead
    /\ call = [l \in Loops |-> Resting]
    /\ lock = "free" /\ state = "connecting" /\ stranded = FALSE
    /\ faults = 0 /\ crashes = 0

Fault == faults < MaxFaults /\ faults' = faults + 1
Goes(l, pc) == call' = [call EXCEPT ![l].pc = pc]
Ends(l) == call' = [call EXCEPT ![l] = Resting]
linear == <<issued, expired, spent>>
bounds == <<faults, crashes>>

-----------------------------------------------------------------------------
(* Loading the file.                                                       *)

(* The probe loop reads the file ... *)
ReloadRead ==
    /\ loaded = NotRead /\ call["probe"].pc = "rest"
    /\ loaded' = file
    /\ UNCHANGED <<file, setup, linear, call, lock, state, stranded, bounds>>

(* ... stores what it read, and calls Linear if there is a setup: after a  *)
(* change, while not connected, and now and then.                          *)
ReloadStore ==
    /\ loaded # NotRead
    /\ setup' = loaded /\ loaded' = NotRead
    /\ \/ /\ loaded = Missing /\ state' = "unavailable" /\ UNCHANGED call
       \/ /\ loaded = setup /\ state = "connected" /\ UNCHANGED <<call, state>>
       \/ /\ loaded # Missing /\ UNCHANGED state
          /\ call' = [call EXCEPT !["probe"] =
                        [pc |-> "calling", token |-> loaded, fresh |-> FALSE]]
    /\ UNCHANGED <<file, linear, lock, stranded, bounds>>

(* The sender has a call to make; without a setup it is no attempt. *)
SenderCalls ==
    /\ call["sender"].pc = "rest" /\ setup # Missing
    /\ call' = [call EXCEPT !["sender"] =
                  [pc |-> "calling", token |-> setup, fresh |-> FALSE]]
    /\ UNCHANGED <<file, setup, linear, loaded, lock, state, stranded, bounds>>

-----------------------------------------------------------------------------
(* Calling Linear.                                                         *)

(* An authentication failure names the operator's action; anything else is *)
(* a reconnect in progress.  The sender reports only the former.           *)
Reports(l, verdict) ==
    state' = IF l = "sender" /\ verdict # "auth_failed" THEN state ELSE verdict

Valid(token) == token = issued /\ ~expired

(* Linear answers; a first refusal of the token asks for a renewal, and so *)
(* does an expiry that is near (token), before the call.                   *)
Call(l) ==
    /\ call[l].pc = "calling"
    /\ \/ /\ Valid(call[l].token) /\ Ends(l) /\ Reports(l, "connected")
          /\ UNCHANGED faults
       \/ /\ ~Valid(call[l].token) /\ ~call[l].fresh /\ Goes(l, "locking")
          /\ UNCHANGED <<state, faults>>
       \/ /\ ~Valid(call[l].token) /\ call[l].fresh /\ Ends(l)
          /\ Reports(l, "auth_failed") /\ UNCHANGED faults
       \/ /\ Fault /\ Ends(l) /\ Reports(l, "connecting")
    /\ UNCHANGED <<file, setup, linear, loaded, lock, stranded, crashes>>

-----------------------------------------------------------------------------
(* Renewing the token.                                                     *)

(* The call is made again, with the token that is in memory now. *)
Again(l) == call' = [call EXCEPT ![l] = [pc |-> "calling", token |-> setup',
                                         fresh |-> TRUE]]

(* Fault: the token that was refused is not compared with the current one. *)
ReplacedNever(l) == FALSE

(* Another renewal has replaced the token this one is for. *)
Replaced(l) == setup # call[l].token

RenewLock(l) ==
    /\ call[l].pc = "locking" /\ lock = "free"
    /\ \/ /\ setup = Missing /\ Ends(l) /\ Reports(l, "connecting")
          /\ UNCHANGED <<lock, setup>>
       \/ /\ setup # Missing /\ Replaced(l) /\ UNCHANGED setup /\ Again(l)
          /\ UNCHANGED <<lock, state>>
       \/ /\ setup # Missing /\ ~Replaced(l) /\ lock' = l /\ Goes(l, "renewing")
          /\ UNCHANGED <<setup, state>>
    /\ UNCHANGED <<file, linear, loaded, stranded, bounds>>

(* Linear mints a credential for an unspent refresh token.                 *)
Grants ==
    /\ setup # Missing /\ setup = issued /\ setup \notin spent
    /\ issued < MaxGrants
    /\ issued' = issued + 1 /\ expired' = FALSE
    /\ spent' = spent \cup {setup}

(***************************************************************************)
(* The answer to a renewal is the new credential, a refusal -- the         *)
(* credential's end -- or a failure.  A failure is a request Linear never  *)
(* took, or an answer that is lost, late or unreadable after Linear has    *)
(* granted it (refresh: the client's timeout, the read of the body, a body *)
(* without an access token): the refresh token is spent then.              *)
(***************************************************************************)
Refresh(l) ==
    /\ call[l].pc = "renewing"
    /\ \/ /\ Grants
          /\ call' = [call EXCEPT ![l].pc = "saving", ![l].token = issued']
          /\ UNCHANGED <<lock, state, stranded, faults>>
       \/ /\ setup # issued \/ setup \in spent
          /\ Ends(l) /\ lock' = "free" /\ Reports(l, "auth_failed")
          /\ UNCHANGED <<linear, stranded, faults>>
       \/ /\ Fault /\ Ends(l) /\ lock' = "free" /\ Reports(l, "connecting")
          /\ \/ UNCHANGED <<linear, stranded>>
             \/ Grants /\ stranded' = TRUE
    /\ UNCHANGED <<file, setup, loaded, crashes>>

(* Fault: the renewed token is kept in memory only. *)
SaveMemoryOnly(l) ==
    /\ call[l].pc = "saving"
    /\ setup' = call[l].token /\ Again(l) /\ lock' = "free"
    /\ UNCHANGED <<file, linear, loaded, state, stranded, bounds>>

(* The tokens go into the file as it is now -- if it can be read and       *)
(* replaced -- and the file into memory.                                   *)
Save(l) ==
    /\ call[l].pc = "saving"
    /\ \/ /\ file # Missing
          /\ file' = call[l].token /\ setup' = file' /\ Again(l)
          /\ stranded' = (stranded \/ file > call[l].token)
          /\ UNCHANGED <<state, faults>>
       \/ /\ file = Missing /\ UNCHANGED faults
          /\ Ends(l) /\ Reports(l, "connecting") /\ stranded' = TRUE
          /\ UNCHANGED <<file, setup>>
       \/ /\ Fault
          /\ Ends(l) /\ Reports(l, "connecting") /\ stranded' = TRUE
          /\ UNCHANGED <<file, setup>>
    /\ lock' = "free"
    /\ UNCHANGED <<linear, loaded, crashes>>

-----------------------------------------------------------------------------
(* The outside.                                                            *)

Expire ==
    /\ ~expired /\ issued < MaxGrants
    /\ expired' = TRUE
    /\ UNCHANGED <<file, setup, issued, spent, loaded, call, lock, state, stranded, bounds>>

(* The operator authorises the app anew and writes the file; Linear drops  *)
(* what it granted before.                                                 *)
Reauthorize ==
    /\ issued < MaxGrants
    /\ issued' = issued + 1 /\ expired' = FALSE /\ file' = issued'
    /\ stranded' = FALSE
    /\ UNCHANGED <<setup, spent, loaded, call, lock, state, bounds>>

(* The operator takes the file away. *)
RemoveFile ==
    /\ file # Missing /\ Fault
    /\ file' = Missing /\ stranded' = TRUE
    /\ UNCHANGED <<setup, linear, loaded, call, lock, state, crashes>>

(* A restart: New loads the file; a renewal in flight is lost. *)
Restart ==
    /\ crashes < MaxCrashes
    /\ crashes' = crashes + 1
    /\ stranded' = (stranded \/ \E l \in Loops : call[l].pc = "saving")
    /\ call' = [l \in Loops |-> Resting] /\ lock' = "free"
    /\ loaded' = NotRead /\ setup' = file
    /\ state' = IF file = Missing THEN "unavailable" ELSE "connecting"
    /\ UNCHANGED <<file, linear, faults>>

LoopStep(l) == Call(l) \/ RenewLock(l) \/ Refresh(l) \/ Save(l)

Next ==
    \/ ReloadRead \/ ReloadStore \/ SenderCalls
    \/ \E l \in Loops : LoopStep(l)
    \/ Expire \/ Reauthorize \/ RemoveFile \/ Restart

Spec == Init /\ [][Next]_credentialVars

-----------------------------------------------------------------------------
(* Properties.                                                             *)

(* A renewal Linear has granted and the file does not have yet. *)
Saving == \E l \in Loops : call[l].pc = "saving"

(***************************************************************************)
(* The refresh token is not lost, however the two loops, reloads and the   *)
(* operator interleave: the file holds the newest credential, or its       *)
(* renewal is being saved.  What loses it is a grant whose answer does not *)
(* arrive, a crash or a failed write between grant and file, or an         *)
(* operator who writes the file in that moment (refresh, renew,            *)
(* saveTokens).                                                            *)
(***************************************************************************)
FileHoldsGrant == file = issued \/ Saving \/ stranded

(***************************************************************************)
(* As long as the file holds a credential Linear takes, the probe comes    *)
(* back to "connected", also from a refusal that a stale copy of the file  *)
(* earned (probeLoop: "an operator's edit lands without a restart").       *)
(***************************************************************************)
Usable == file = issued /\ ~stranded
Back == state = "connected" \/ stranded
ReturnsToConnected == Usable ~> Back
=============================================================================
