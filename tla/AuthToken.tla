------------------------------ MODULE AuthToken ------------------------------
(***************************************************************************)
(* The bearer token file (internal/authtoken): processes that ensure the   *)
(* token (server boot, `atc server token`), rotate it and verify requests  *)
(* against it, over one file.  A token is the number of its generation; 0  *)
(* is contents that are no token (a restored fragment, a torn write).      *)
(*                                                                         *)
(* It is the other file, beside the database (StoreUpgrade), that the      *)
(* server must not lose; they share no state.                              *)
(***************************************************************************)
EXTENDS StoreUpgrade

CONSTANTS
    Callers,    \* concurrent callers of the store
    MaxTokens,  \* bound: tokens generated
    MaxMishaps  \* bound: killed callers, failed writes, files restored or deleted by hand

VARIABLES
    file,      \* the file at Path: -1 absent, 0 malformed, or a token
    caller,    \* per caller: [op, step, token]
    handed,    \* history: tokens returned to a caller
    held,      \* history: tokens that have been the file's contents
    elected,   \* history: tokens returned by Ensure since the file last was replaced or removed
    tokens, mishaps

ASSUME TokenBounds == MaxTokens \in Nat /\ MaxMishaps \in Nat

tokenVars == <<file, caller, handed, held, elected, tokens, mishaps>>

Absent == 0 - 1
Malformed == 0
Resting == [op |-> "none", step |-> "idle", token |-> Malformed]

(* format.MatchString *)
Valid(contents) == contents > Malformed

CallRecords == [op : {"none", "ensure", "rotate"},
                step : {"idle", "read", "write", "install", "adopt"},
                token : 0 .. MaxTokens]

TokenTypeOK ==
    /\ file \in Absent .. MaxTokens /\ tokens \in 0 .. MaxTokens /\ mishaps \in 0 .. MaxMishaps
    /\ caller \in [Callers -> CallRecords]
    /\ handed \subseteq 0 .. MaxTokens /\ held \subseteq 0 .. MaxTokens
    /\ elected \subseteq 0 .. MaxTokens

TokenInit ==
    /\ file \in {Absent, Malformed} /\ caller = [c \in Callers |-> Resting]
    /\ handed = {} /\ held = {} /\ elected = {} /\ tokens = 0 /\ mishaps = 0

Mishap == mishaps < MaxMishaps /\ mishaps' = mishaps + 1

Contents(contents) ==
    /\ file' = contents
    /\ held' = IF Valid(contents) THEN held \cup {contents} ELSE held

Return(c, token) ==
    /\ caller' = [caller EXCEPT ![c] = Resting]
    /\ handed' = handed \cup {token}

Fail(c) == caller' = [caller EXCEPT ![c] = Resting]

BeginCall(c, op) ==
    /\ caller[c].step = "idle"
    /\ caller' = [caller EXCEPT ![c] =
            [op |-> op, step |-> IF op = "ensure" THEN "read" ELSE "write", token |-> Malformed]]
    /\ UNCHANGED <<file, handed, held, elected, tokens, mishaps>>

(* What is there is returned when it is a token and refused when it is not. *)
EnsureRead(c) ==
    /\ caller[c].step = "read"
    /\ \/ /\ file = Absent /\ caller' = [caller EXCEPT ![c].step = "write"]
          /\ UNCHANGED <<handed, elected>>
       \/ Valid(file) /\ Return(c, file) /\ elected' = elected \cup {file}
       \/ file = Malformed /\ Fail(c) /\ UNCHANGED <<handed, elected>>
    /\ UNCHANGED <<file, held, tokens, mishaps>>

(* Fault: the token is written at Path, where a reader may find half of it. *)
WriteTempInPlace(c) ==
    /\ caller[c].step = "write" /\ tokens < MaxTokens /\ tokens' = tokens + 1
    /\ caller' = [caller EXCEPT ![c] = [@ EXCEPT !.step = "install", !.token = tokens + 1]]
    /\ Contents(Malformed)
    /\ UNCHANGED <<handed, elected, mishaps>>

(* generate and writeTemp: complete before it is visible. *)
WriteTemp(c) ==
    /\ caller[c].step = "write" /\ tokens < MaxTokens /\ tokens' = tokens + 1
    /\ caller' = [caller EXCEPT ![c] = [@ EXCEPT !.step = "install", !.token = tokens + 1]]
    /\ UNCHANGED <<file, handed, held, elected, mishaps>>

(* Fault: the installation replaces what is there. *)
LinkReplacing(c) == TRUE

(* os.Link refuses an existing file. *)
Link(c) == file = Absent

InstallToken(c) ==
    /\ caller[c].step = "install" /\ caller[c].op = "ensure"
    /\ IF Link(c)
       THEN /\ Contents(caller[c].token) /\ Return(c, caller[c].token)
            /\ elected' = elected \cup {caller[c].token}
       ELSE /\ caller' = [caller EXCEPT ![c].step = "adopt"]
            /\ UNCHANGED <<file, held, handed, elected>>
    /\ UNCHANGED <<tokens, mishaps>>

(* Fault: the loser hands out its own candidate. *)
WinnerOwn(c) == caller[c].token

(* The loser reads the file again. *)
Winner(c) == file

Adopt(c) ==
    /\ caller[c].step = "adopt"
    /\ IF Valid(Winner(c)) THEN Return(c, Winner(c)) /\ elected' = elected \cup {Winner(c)}
                           ELSE Fail(c) /\ UNCHANGED <<handed, elected>>
    /\ UNCHANGED <<file, held, tokens, mishaps>>

(* Rotate: a rename over whatever is there. *)
Rename(c) ==
    /\ caller[c].step = "install" /\ caller[c].op = "rotate"
    /\ Contents(caller[c].token) /\ Return(c, caller[c].token) /\ elected' = {}
    /\ UNCHANGED <<tokens, mishaps>>

(* An error of the filesystem, or the process is killed: the temporary     *)
(* file is removed, or left behind.                                        *)
Abandon(c) ==
    /\ caller[c].step # "idle" /\ Mishap /\ Fail(c)
    /\ UNCHANGED <<file, handed, held, elected, tokens>>

(* The user deletes the file, or restores a fragment of it. *)
Meddle(contents) ==
    /\ Mishap /\ file # contents /\ Contents(contents) /\ elected' = {}
    /\ UNCHANGED <<caller, handed, tokens>>

TokenNext ==
    \/ \E c \in Callers, op \in {"ensure", "rotate"} : BeginCall(c, op)
    \/ \E c \in Callers : EnsureRead(c) \/ WriteTemp(c) \/ InstallToken(c) \/ Adopt(c) \/ Rename(c)
    \/ \E c \in Callers : Abandon(c)
    \/ \E contents \in {Absent, Malformed} : Meddle(contents)

TokenSpec == TokenInit /\ [][TokenNext]_tokenVars

-----------------------------------------------------------------------------
(* Properties.                                                             *)

(***************************************************************************)
(* Whatever is handed out has been the file's contents, so that it did     *)
(* verify at some time: Ensure never mints what is not on disk (Ensure:    *)
(* "returning our own value here would hand out a credential that is not   *)
(* on disk and will never verify").                                        *)
(***************************************************************************)
HandedWasHeld == handed \subseteq held

(***************************************************************************)
(* Callers of Ensure that race a fresh install are handed one token,       *)
(* unless a rotation or the user came between (Ensure).                    *)
(***************************************************************************)
EnsuresAgree == \A t, u \in elected : t = u

(***************************************************************************)
(* The store itself never replaces a token by what is no token, whoever is *)
(* killed in the middle (writeTemp: "Complete-before-visible").            *)
(***************************************************************************)
TokenUntorn == (Valid(file) /\ ~Valid(file')) => mishaps' # mishaps
(***************************************************************************)
(* What is on disk survives: no migration touches a database before a      *)
(* whole backup of it, log and file of one moment, was taken; a token      *)
(* handed out has been in the file, callers racing a fresh install are     *)
(* handed the same one, and nobody killed in the middle leaves what is no  *)
(* token (migrate, backup; Ensure, writeTemp).                             *)
(***************************************************************************)
FilesSurvive ==
    /\ [](UpgradeTypeOK /\ BackedUpFirst)
    /\ [](TokenTypeOK /\ HandedWasHeld /\ EnsuresAgree)
    /\ [][TokenUntorn]_tokenVars
=============================================================================
