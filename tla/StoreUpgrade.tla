----------------------------- MODULE StoreUpgrade -----------------------------
(***************************************************************************)
(* Opening the database (internal/store, Open): the backup taken before    *)
(* pending migrations, the migrations, each a transaction of its own, and  *)
(* the server that then writes.  The server may stop anywhere, and its     *)
(* supervisor starts it again.                                             *)
(*                                                                         *)
(* A database is its file and the write-ahead log beside it, which holds   *)
(* what was committed and not yet copied into the file; its contents are   *)
(* the schema version and a count of rows.                                 *)
(***************************************************************************)
EXTENDS Naturals

CONSTANTS
    MaxSchema,   \* bound: migrations of the newest build
    MaxRows,     \* bound: rows written
    MaxStops,    \* bound: crashes and failed steps
    NoFile       \* where there is none

VARIABLES
    main, wal,     \* the database: contents or NoFile
    bmain, bwal,   \* its backup: contents, NoFile or, of an interrupted copy, "torn"
    boot,          \* the server: down, stat, copy, copyWal, up, open
    fresh,         \* this run found no database
    binary,        \* migrations compiled into the installed binary
    began,         \* history: the contents when this run began
    prior,         \* history: the contents when this build was installed
    stops

upgradeVars == <<main, wal, bmain, bwal, boot, fresh, binary, began, prior, stops>>

ASSUME Schemas == MaxSchema \in Nat \ {0} /\ MaxRows \in Nat /\ MaxStops \in Nat

Database == [schema : 0 .. MaxSchema, rows : 0 .. MaxRows]
Torn == [schema |-> 0, rows |-> MaxRows + 1]

ASSUME NoContents == NoFile \notin Database \cup {Torn}

(* What SQLite reads from a file and its log. *)
Read(file, log) == IF log # NoFile THEN log ELSE file
Current == Read(main, wal)

UpgradeTypeOK ==
    /\ main \in Database \cup {NoFile} /\ wal \in Database \cup {NoFile}
    /\ bmain \in Database \cup {NoFile, Torn} /\ bwal \in Database \cup {NoFile, Torn}
    /\ boot \in {"down", "stat", "copy", "copyWal", "up", "open"} /\ fresh \in BOOLEAN
    /\ binary \in 1 .. MaxSchema /\ stops \in 0 .. MaxStops
    /\ began \in Database \cup {NoFile} /\ prior \in Database \cup {NoFile}

UpgradeInit ==
    /\ main = NoFile /\ wal = NoFile /\ bmain = NoFile /\ bwal = NoFile
    /\ boot = "down" /\ fresh = FALSE /\ binary = 1 /\ began = NoFile /\ prior = NoFile /\ stops = 0

(* Whether there is anything to back up, before opening creates the file. *)
BeginRun ==
    /\ boot = "down" /\ boot' = "stat" /\ fresh' = (main = NoFile) /\ began' = Current
    /\ UNCHANGED <<main, wal, bmain, bwal, binary, prior, stops>>

(* HasPending, on a connection of its own. *)
HasPending ==
    /\ boot = "stat"
    /\ main' = IF main = NoFile THEN [schema |-> 0, rows |-> 0] ELSE main
    /\ boot' = IF Read(main', wal).schema = binary THEN "open" ELSE IF fresh THEN "up" ELSE "copy"
    /\ UNCHANGED <<wal, bmain, bwal, fresh, binary, began, prior, stops>>

Backup ==
    /\ boot = "copy" /\ bmain' = main /\ boot' = "copyWal"
    /\ UNCHANGED <<main, wal, bwal, fresh, binary, began, prior, stops>>

(* Fault: a log of an earlier backup is left beside the new one. *)
SidecarKept == IF wal = NoFile THEN bwal ELSE wal

(* No log is a normal state; a stale copy of one is removed. *)
Sidecar == wal

BackupWal ==
    /\ boot = "copyWal" /\ bwal' = Sidecar /\ boot' = "up"
    /\ UNCHANGED <<main, wal, bmain, fresh, binary, began, prior, stops>>

(* One migration, committed to the log. *)
Up ==
    /\ boot = "up" /\ wal' = [Current EXCEPT !.schema = @ + 1]
    /\ boot' = IF wal'.schema = binary THEN "open" ELSE "up"
    /\ UNCHANGED <<main, bmain, bwal, fresh, binary, began, prior, stops>>

Write ==
    /\ boot = "open" /\ Current.rows < MaxRows /\ wal' = [Current EXCEPT !.rows = @ + 1]
    /\ UNCHANGED <<main, bmain, bwal, boot, fresh, binary, began, prior, stops>>

(* The last connection closes: the log goes into the file. *)
Close ==
    /\ boot = "open" /\ boot' = "down" /\ main' = Current /\ wal' = NoFile
    /\ UNCHANGED <<bmain, bwal, fresh, binary, began, prior, stops>>

(* A step fails, closing the connection, or the process is killed: a copy  *)
(* then may be cut short.                                                  *)
Stop ==
    /\ boot # "down" /\ stops < MaxStops /\ stops' = stops + 1 /\ boot' = "down"
    /\ \/ main' = (IF main = NoFile THEN NoFile ELSE Current) /\ wal' = NoFile
       \/ UNCHANGED <<main, wal>>
    /\ \/ boot = "copy" /\ bmain' = Torn /\ UNCHANGED bwal
       \/ boot = "copyWal" /\ wal # NoFile /\ bwal' = Torn /\ UNCHANGED bmain
       \/ UNCHANGED <<bmain, bwal>>
    /\ UNCHANGED <<fresh, binary, began, prior>>

(* A newer binary replaces the installed one. *)
Upgrade ==
    /\ boot = "down" /\ main # NoFile /\ Current.schema = binary
    /\ \E newer \in binary + 1 .. MaxSchema : binary' = newer
    /\ prior' = Current
    /\ UNCHANGED <<main, wal, bmain, bwal, boot, fresh, began, stops>>

UpgradeNext ==
    \/ BeginRun \/ HasPending \/ Backup \/ BackupWal \/ Up \/ Write \/ Close
    \/ Stop \/ Upgrade

UpgradeSpec == UpgradeInit /\ [][UpgradeNext]_upgradeVars

-----------------------------------------------------------------------------
(* Properties.                                                             *)

(***************************************************************************)
(* No migration touches an existing database before a whole backup of it,  *)
(* log and file of one moment, has been taken in this run (migrate,        *)
(* backup).                                                                *)
(***************************************************************************)
BackedUpFirst == (boot = "up" /\ ~fresh) => Read(bmain, bwal) = began

(***************************************************************************)
(* Until an upgrade is through, what was there before it can be restored:  *)
(* "so a botched upgrade has a manual recovery path" (Open).  The code     *)
(* does not keep it: the next run backs the half-upgraded database up over *)
(* the one before it.                                                      *)
(***************************************************************************)
RecoveryPath ==
    (prior # NoFile /\ boot = "down" /\ Current.schema \in prior.schema + 1 .. binary - 1) =>
        Read(bmain, bwal) = prior
=============================================================================
