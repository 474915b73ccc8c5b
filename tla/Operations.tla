----------------------------- MODULE Operations -----------------------------
(***************************************************************************)
(* The memory store in operation: Core serving it, the legacy import       *)
(* writing to it from a process of its own, migrations and the adoption of *)
(* an old database, and the scripts that back it up and restore it         *)
(* (scripts/, migrations/).                                                *)
(*                                                                         *)
(* One operator runs one script at a time, against a Core that keeps       *)
(* serving.  Every step of a script may fail or be its last.  Backups are  *)
(* made in different seconds: each has a name of its own.  A digest is     *)
(* the content it was computed from.                                       *)
(***************************************************************************)
EXTENDS MemoryStore, Sequences

CONSTANTS
    Initial,      \* what the database may be at first
    Requests,     \* what each call of Core may ask
    Importer,     \* the call of the import script
    Entries,      \* the <<key, value>> pairs of the legacy file
    MaxBackups    \* bound: backups that are kept at once

\* "legacy" has the first schema and no alembic_version; "drifted" is like it but
\* was changed by hand.
Schemas == {"absent", "empty", "legacy", "drifted", "0001", "0002"}

Names == 1..MaxBackups

ASSUME OperationsAssumption ==
    /\ Absent \notin Values
    /\ Initial \subseteq Schemas \ {"absent"}
    /\ Requests \in [Calls -> SUBSET (Memory!Operations \ {NoOperation})]
    /\ Importer \in Calls
    /\ Entries \in Seq(Keys \X Values)
    /\ MaxBackups \in Nat

VARIABLES
    schema,   \* of the database
    core,     \* Core is "running" or "stopped"
    files,    \* the published dump and checksum under each name
    script,   \* the script that runs, and its variables
    dropped   \* history: the content of the database that was dropped last

opsVars == <<schema, core, files, script, dropped>>
vars == <<storeVars, opsVars>>

Latest == "0002"
HasTable == schema \in {"legacy", "drifted", "0001", "0002"}

Contents == [schema : Schemas, rows : Memory!Contents]
None == [schema |-> "absent", rows |-> Nothing]   \* no file
Database == [schema |-> schema, rows |-> rows]

Steps ==
    {<<"idle", "idle">>, <<"import", "write">>, <<"adopt", "stamp">>}
        \cup {"backup", "restore"} \X {"dump", "checksum", "archive"}
        \cup {"restore"} \X {"stop", "drop", "create", "load", "migrate", "start"}

NoScript ==
    [at |-> <<"idle", "idle">>,
     target |-> 0,             \* the name of the running backup
     partial |-> None,         \* and its dump
     source |-> 0,             \* the archive a restore loads
     wasRunning |-> FALSE,     \* core_was_running
     imported |-> 0]           \* entries that were imported

TypeOK ==
    /\ StoreTypeOK
    /\ schema \in Schemas
    /\ core \in {"running", "stopped"}
    /\ files \in [Names -> [dump : Contents, sum : Contents]]
    /\ script \in [at : Steps, target : Names \cup {0}, partial : Contents,
                   source : Names \cup {0}, wasRunning : BOOLEAN,
                   imported : 0..Len(Entries)]
    /\ dropped \in Contents

Init ==
    /\ StoreInit
    /\ schema \in Initial
    /\ ~HasTable => rows = Nothing
    /\ core \in {"running", "stopped"}
    /\ files = [n \in Names |-> [dump |-> None, sum |-> None]]
    /\ script = NoScript
    /\ dropped = None

-----------------------------------------------------------------------------
(* Calls *)

End == script' = NoScript

Request(c, o) ==
    /\ core = "running" /\ c # Importer
    /\ Ask(c, o)
    /\ UNCHANGED opsVars

\* Without the table a statement fails, and ends the import.
Statement(c) ==
    /\ \/ HasTable /\ Execute(c) /\ UNCHANGED script
       \/ /\ ~HasTable /\ at[c] = "asked"
          /\ FailAll({c})
          /\ IF c = Importer THEN End ELSE UNCHANGED script
    /\ UNCHANGED <<schema, core, files, dropped>>

CommitCall(c) == Commit(c) /\ UNCHANGED opsVars

ReturnCall(c) == c # Importer /\ Return(c) /\ UNCHANGED opsVars

CallFails(c) == c # Importer /\ at[c] # "resting" /\ FailAll({c}) /\ UNCHANGED opsVars

-----------------------------------------------------------------------------
(* The operator's jobs *)

Idle == script = NoScript
At(job, step) == script.at = <<job, step>>
NextStep(step) == script' = [script EXCEPT !.at[2] = step]

StartCore ==
    /\ Idle /\ core = "stopped"
    /\ core' = "running"
    /\ UNCHANGED <<storeVars, schema, files, script, dropped>>

\* import_data: one call after the other, each with its own commit.
StartImport ==
    /\ Idle
    /\ script' = [NoScript EXCEPT !.at = <<"import", "write">>]
    /\ UNCHANGED <<storeVars, schema, core, files, dropped>>

ImportNext ==
    /\ At("import", "write") /\ script.imported < Len(Entries)
    /\ LET e == Entries[script.imported + 1] IN
         Ask(Importer, [kind |-> "put", key |-> e[1], value |-> e[2]])
    /\ UNCHANGED opsVars

\* Mutant of Counted: an entry is counted twice.
CountedTwice == script' = [script EXCEPT !.imported = @ + 2]

Counted == script' = [script EXCEPT !.imported = @ + 1]

ImportReturns ==
    /\ Return(Importer)
    /\ Counted
    /\ UNCHANGED <<schema, core, files, dropped>>

ImportEnds ==
    /\ At("import", "write") /\ script.imported = Len(Entries)
    /\ End
    /\ UNCHANGED <<storeVars, schema, core, files, dropped>>

\* An error, or the death of the process, ends the import after what it stored.
ImportFails ==
    /\ At("import", "write")
    /\ FailAll({c \in {Importer} : at[c] # "resting"})
    /\ End
    /\ UNCHANGED <<schema, core, files, dropped>>

\* alembic upgrade head, in one transaction: it creates what a revision adds, and
\* fails on tables that are there without a version.
Upgraded(s) == IF s \in {"empty", "0001", "0002"} THEN Latest ELSE s

Migrate ==
    /\ Idle
    /\ schema' = Upgraded(schema)
    /\ UNCHANGED <<storeVars, core, files, script, dropped>>

\* adopt_baseline looks at the tables, disconnects, and stamps the baseline later.
StartAdoption ==
    /\ Idle /\ schema = "legacy"
    /\ script' = [NoScript EXCEPT !.at = <<"adopt", "stamp">>]
    /\ UNCHANGED <<storeVars, schema, core, files, dropped>>

Stamp ==
    /\ At("adopt", "stamp")
    /\ schema' = "0001"
    /\ End
    /\ UNCHANGED <<storeVars, core, files, dropped>>

-----------------------------------------------------------------------------
(* backup_postgres.sh, alone or as a step of a restore *)

Unused == {n \in Names : files[n] = [dump |-> None, sum |-> None]}
NewName == CHOOSE n \in Unused : TRUE

StartBackup ==
    /\ Idle /\ Unused # {}
    /\ script' = [NoScript EXCEPT !.at = <<"backup", "dump">>, !.target = NewName]
    /\ UNCHANGED <<storeVars, schema, core, files, dropped>>

\* pg_dump reads one snapshot; its file is checked and its digest computed.
Dump ==
    /\ script.at[2] = "dump" /\ schema # "absent"
    /\ script' = [script EXCEPT !.at[2] = "checksum", !.partial = Database]
    /\ UNCHANGED <<storeVars, schema, core, files, dropped>>

\* Mutant of Part: the archive is published first.
PartSwapped(step) == IF step = "checksum" THEN "dump" ELSE "sum"

Part(step) == IF step = "checksum" THEN "sum" ELSE "dump"

Publish(step) == files' = [files EXCEPT ![script.target][Part(step)] = script.partial]

PublishChecksum ==
    /\ script.at[2] = "checksum"
    /\ Publish("checksum")
    /\ NextStep("archive")
    /\ UNCHANGED <<storeVars, schema, core, dropped>>

PublishArchive ==
    /\ script.at[2] = "archive"
    /\ Publish("archive")
    /\ \/ script.at[1] = "backup" /\ End
       \/ script.at[1] = "restore" /\ NextStep("drop")
    /\ UNCHANGED <<storeVars, schema, core, dropped>>

\* The operator deletes old backups, but not the one of what was dropped last.
Prune(n) ==
    /\ Idle /\ n \notin Unused
    /\ dropped = None \/ files[n].dump # dropped
    /\ files' = [files EXCEPT ![n] = [dump |-> None, sum |-> None]]
    /\ UNCHANGED <<storeVars, schema, core, script, dropped>>

-----------------------------------------------------------------------------
(* restore_postgres.sh *)

\* An archive without its checksum, or with another one, is refused.
StartRestore(n) ==
    /\ Idle /\ Unused # {}
    /\ files[n].dump # None /\ files[n].sum = files[n].dump
    /\ script' = [NoScript EXCEPT !.at = <<"restore", "stop">>, !.target = NewName,
                                  !.source = n, !.wasRunning = (core = "running")]
    /\ UNCHANGED <<storeVars, schema, core, files, dropped>>

\* Mutant of StopCore: Core goes on.
StopCoreForgotten ==
    /\ At("restore", "stop")
    /\ NextStep("dump")
    /\ UNCHANGED <<storeVars, schema, core, files, dropped>>

\* The calls that are still in progress die with the process.
StopCore ==
    /\ At("restore", "stop")
    /\ core' = "stopped"
    /\ FailAll({c \in Calls : at[c] # "resting"})
    /\ NextStep("dump")
    /\ UNCHANGED <<schema, files, dropped>>

DropDatabase ==
    /\ At("restore", "drop")
    /\ dropped' = Database
    /\ schema' = "absent" /\ rows' = Nothing
    /\ NextStep("create")
    /\ UNCHANGED <<op, at, result, core, files>>

CreateDatabase ==
    /\ At("restore", "create")
    /\ schema' = "empty"
    /\ NextStep("load")
    /\ UNCHANGED <<storeVars, core, files, dropped>>

\* Mutant of Load: errors are passed over, and rows committed one by one.
LoadPartly ==
    /\ At("restore", "load")
    /\ schema' = files[script.source].dump.schema
    /\ rows' \in {r \in Memory!Contents :
                    \A k \in Keys : r[k] \in {Absent, files[script.source].dump.rows[k]}}
    /\ NextStep("migrate")
    /\ UNCHANGED <<op, at, result, core, files, dropped>>

\* pg_restore in a single transaction.
Load ==
    /\ At("restore", "load")
    /\ schema' = files[script.source].dump.schema
    /\ rows' = files[script.source].dump.rows
    /\ NextStep("migrate")
    /\ UNCHANGED <<op, at, result, core, files, dropped>>

MigrateRestored ==
    /\ At("restore", "migrate")
    /\ schema' = Upgraded(schema)
    /\ IF Upgraded(schema) = Latest THEN NextStep("start") ELSE End
    /\ UNCHANGED <<storeVars, core, files, dropped>>

Restart ==
    /\ At("restore", "start")
    /\ core' = IF script.wasRunning THEN "running" ELSE core
    /\ End
    /\ UNCHANGED <<storeVars, schema, files, dropped>>

\* A step that fails, or the death of the script, ends it there; what it wrote
\* besides the published files is cleaned up or ignored.
ScriptFails ==
    /\ script.at[1] \in {"adopt", "backup", "restore"}
    /\ End
    /\ UNCHANGED <<storeVars, schema, core, files, dropped>>

-----------------------------------------------------------------------------
CallNext ==
    \E c \in Calls :
        \/ \E o \in Requests[c] : Request(c, o)
        \/ Statement(c) \/ CommitCall(c) \/ ReturnCall(c) \/ CallFails(c)

JobNext ==
    \/ StartCore \/ Migrate \/ StartAdoption \/ Stamp
    \/ StartImport \/ ImportNext \/ ImportReturns \/ ImportEnds \/ ImportFails
    \/ StartBackup \/ Dump \/ PublishChecksum \/ PublishArchive
    \/ \E n \in Names : Prune(n) \/ StartRestore(n)
    \/ StopCore \/ DropDatabase \/ CreateDatabase \/ Load \/ MigrateRestored \/ Restart
    \/ ScriptFails

Next == CallNext \/ JobNext

Spec == Init /\ [][Next]_vars

-----------------------------------------------------------------------------
(* Properties *)

\* Every archive that can be seen has its matching checksum, wherever backups were
\* cut short (backup_postgres.sh:95-99).
VisibleDumpHasChecksum ==
    \A n \in Names : files[n].dump # None => files[n].sum = files[n].dump

\* What a restore dropped can be restored: the whole content of the database, with
\* every write that a call had returned for, is in a published archive
\* (restore_postgres.sh:94-121).
DroppedIsSaved ==
    dropped # None => \E n \in Names : files[n] = [dump |-> dropped, sum |-> dropped]

\* A Core that a restore starts serves the rows of the archive on the current schema,
\* whatever scripts failed before (restore_postgres.sh:89-150).
ServesWhatWasRestored ==
    [][script.at[1] = "restore" /\ core = "stopped" /\ core' = "running"
           => schema = Latest /\ rows' = files[script.source].dump.rows]_vars
=============================================================================
