-------------------------- MODULE OperationsProofs --------------------------
(***************************************************************************)
(* Proofs about Operations, for any keys, values and calls, any legacy     *)
(* file and any number of backups.                                         *)
(***************************************************************************)
EXTENDS Operations, TLAPS

ScriptTypes ==
    [at : Steps, target : Names \cup {0}, partial : Contents,
     source : Names \cup {0}, wasRunning : BOOLEAN, imported : 0..Len(Entries)]

\* What a call knows: its answer is that of its request on the rows of this moment
\* until it commits.
CallStates ==
    \A c \in Calls :
        /\ at[c] \in {"resting", "asked"} => result[c] = NoAnswer
        /\ at[c] # "resting" => op[c] # NoOperation
        /\ at[c] = "executed" =>
              /\ op[c].kind \in {"put", "delete"}
              /\ result[c] = Memory!Answer(op[c], rows)

\* A row has one writer.
OneHolder ==
    \A c, d \in Calls :
        at[c] = "executed" /\ at[d] = "executed" /\ op[c].key = op[d].key => c = d

\* No call is in progress in a process that does not run.
Quiet ==
    /\ core = "stopped" => \A c \in Calls \ {Importer} : at[c] = "resting"
    /\ at[Importer] # "resting" =>
          script.at = <<"import", "write">> /\ script.imported < Len(Entries)

\* The name of a backup under way is its own until it is published.
BackingUp ==
    /\ script.at[2] \in {"stop", "dump", "checksum"} => script.target \in Unused
    /\ script.at[2] = "archive" =>
          /\ script.target \in Names
          /\ files[script.target].dump = None
          /\ files[script.target].sum = script.partial

\* What a restore has made certain at each of its steps.
Restoring ==
    script.at[1] = "restore" =>
        /\ script.source \in Names
        /\ script.at[2] # "stop" => core = "stopped"
        /\ script.at[2] \in {"checksum", "archive", "drop"} => script.partial = Database
        /\ script.at[2] = "drop" =>
              /\ script.target \in Names
              /\ files[script.target] = [dump |-> script.partial, sum |-> script.partial]
        /\ script.at[2] \in {"migrate", "start"} => rows = files[script.source].dump.rows
        /\ script.at[2] = "start" => schema = Latest

\* The inductive invariant.
OperationsInv ==
    /\ TypeOK
    /\ CallStates
    /\ OneHolder
    /\ Quiet
    /\ BackingUp
    /\ Restoring
    /\ VisibleDumpHasChecksum
    /\ DroppedIsSaved

-----------------------------------------------------------------------------
(* Scripts *)

LEMMA StepFacts ==
    ASSUME NEW x \in Steps, NEW s
    PROVE  /\ x = <<x[1], x[2]>>
           /\ [x EXCEPT ![2] = s] = <<x[1], s>>
  BY DEF Steps

LEMMA NextStepEffect ==
    ASSUME TypeOK, NEW s, NextStep(s), <<script.at[1], s>> \in Steps
    PROVE  /\ script' \in ScriptTypes
           /\ script'.at = <<script.at[1], s>>
           /\ script'.at[1] = script.at[1]
           /\ script'.at[2] = s
           /\ script'.target = script.target
           /\ script'.partial = script.partial
           /\ script'.source = script.source
           /\ script'.wasRunning = script.wasRunning
           /\ script'.imported = script.imported
  <1>1. script \in ScriptTypes
    BY DEF TypeOK, ScriptTypes
  <1>2. script' = [script EXCEPT !.at = [script.at EXCEPT ![2] = s]]
    BY DEF NextStep
  <1>3. [script.at EXCEPT ![2] = s] = <<script.at[1], s>>
    BY <1>1, StepFacts DEF ScriptTypes
  <1>4. script' = [script EXCEPT !.at = <<script.at[1], s>>]
    BY <1>2, <1>3
  <1> QED
    BY <1>1, <1>4 DEF ScriptTypes

LEMMA NoScriptFacts ==
    /\ NoScript \in ScriptTypes
    /\ NoScript.at[1] = "idle" /\ NoScript.at[2] = "idle"
  BY OperationsAssumption
  DEF OperationsAssumption, NoScript, ScriptTypes, Steps, Contents, None, Schemas, Nothing,
      Memory!Contents

-----------------------------------------------------------------------------
(* Calls *)

StoreInv == StoreTypeOK /\ CallStates /\ OneHolder

LEMMA Requestable ==
    /\ \A c \in Calls : \A o \in Requests[c] : o \in Memory!Operations \ {NoOperation}
    /\ \A i \in 1..Len(Entries) :
          [kind |-> "put", key |-> Entries[i][1], value |-> Entries[i][2]]
              \in Memory!Operations \ {NoOperation}
  <1>1. \A c \in Calls : \A o \in Requests[c] : o \in Memory!Operations \ {NoOperation}
    BY OperationsAssumption DEF OperationsAssumption
  <1>2. ASSUME NEW i \in 1..Len(Entries)
        PROVE  Entries[i][1] \in Keys /\ Entries[i][2] \in Values
    <2>1. Entries[i] \in Keys \X Values
      BY OperationsAssumption DEF OperationsAssumption
    <2> QED
      BY <2>1
  <1>3. ASSUME NEW i \in 1..Len(Entries)
        PROVE  [kind |-> "put", key |-> Entries[i][1], value |-> Entries[i][2]]
                  \in Memory!Operations \ {NoOperation}
    <2> DEFINE o == [kind |-> "put", key |-> Entries[i][1], value |-> Entries[i][2]]
    <2>1. o \in Memory!Operations
      BY <1>2 DEF Memory!Operations
    <2>2. o.kind = "put" /\ NoOperation.kind = "none"
      BY DEF NoOperation
    <2> QED
      BY <2>1, <2>2
  <1> QED
    BY <1>1, <1>3

LEMMA Writes ==
    ASSUME StoreInv, NEW c \in Calls, op[c].kind \in {"put", "delete"}
    PROVE  op[c].key \in Keys /\ op[c].value \in Values \cup {Absent}
  BY DEF StoreInv, StoreTypeOK, Memory!Operations

LEMMA Effects ==
    ASSUME StoreTypeOK, NEW c \in Calls, op[c] # NoOperation
    PROVE  /\ op[c].kind \in {"put", "delete", "list"}
           /\ Memory!Answer(op[c], rows) \in Memory!Results
           /\ Memory!After(op[c], rows) \in Memory!Contents
  <1>1. op[c] \in Memory!Operations /\ rows \in Memory!Contents
    BY DEF StoreTypeOK
  <1>2. CASE op[c] \in [kind : {"put"}, key : Keys, value : Values]
    BY <1>1, <1>2
    DEF Memory!Answer, Memory!After, Memory!Results, Memory!Contents, Memory!Nothing
  <1>3. CASE op[c] \in [kind : {"delete"}, key : Keys, value : {Absent}]
    BY <1>1, <1>3
    DEF Memory!Answer, Memory!After, Memory!Results, Memory!Contents, Memory!Nothing
  <1>4. CASE op[c] \in [kind : {"list", "none"}]
    <2>1. op[c].kind = "list"
      BY <1>4 DEF NoOperation
    <2> QED
      BY <1>1, <2>1
      DEF Memory!Answer, Memory!After, Memory!Results
  <1> QED
    BY <1>1, <1>2, <1>3, <1>4 DEF Memory!Operations

LEMMA AskKeeps ==
    ASSUME StoreInv, NEW c \in Calls, NEW o \in Memory!Operations \ {NoOperation}, Ask(c, o)
    PROVE  StoreInv'
  <1>1. StoreTypeOK'
    BY DEF StoreInv, StoreTypeOK, Ask
  <1>2. CallStates'
    BY DEF StoreInv, StoreTypeOK, CallStates, Ask
  <1>3. OneHolder'
    BY DEF StoreInv, StoreTypeOK, OneHolder, Ask
  <1> QED
    BY <1>1, <1>2, <1>3 DEF StoreInv

LEMMA RestKeeps ==
    ASSUME StoreInv, NEW C, Rest(C)
    PROVE  StoreInv'
  <1>1. StoreTypeOK'
    BY DEF StoreInv, StoreTypeOK, Rest, NoOperation, NoAnswer, Nothing,
           Memory!Operations, Memory!Results, Memory!Nothing
  <1>2. CallStates'
    BY DEF StoreInv, StoreTypeOK, CallStates, Rest
  <1>3. OneHolder'
    BY DEF StoreInv, StoreTypeOK, OneHolder, Rest
  <1> QED
    BY <1>1, <1>2, <1>3 DEF StoreInv

\* A statement answers what is true of the rows, and holds the row it writes.
LEMMA ExecuteFacts ==
    ASSUME StoreInv, NEW c \in Calls, Execute(c)
    PROVE  /\ at[c] = "asked" /\ op[c] # NoOperation
           /\ op' = op /\ rows' = rows
           /\ result' = [result EXCEPT ![c] = Memory!Answer(op[c], rows)]
           /\ \/ /\ at' = [at EXCEPT ![c] = "executed"]
                 /\ op[c].kind \in {"put", "delete"}
                 /\ MayWrite(op[c].key)
              \/ /\ at' = [at EXCEPT ![c] = "effective"]
                 /\ Memory!After(op[c], rows) = rows
  <1>1. at[c] = "asked" /\ op' = op /\ rows' = rows
    BY DEF Execute, Upsert, Delete, ListAll, Executed
  <1>2. op[c] # NoOperation /\ rows \in Memory!Contents /\ op[c] \in Memory!Operations
    BY <1>1 DEF StoreInv, StoreTypeOK, CallStates
  <1>3. CASE Upsert(c)
    <2>1. at' = [at EXCEPT ![c] = "executed"]
      BY <1>3 DEF Upsert, Executed
    <2>2. result' = [result EXCEPT ![c] = Memory!Answer(op[c], rows)]
      BY <1>3 DEF Upsert, Executed, Memory!Answer, Nothing, Memory!Nothing
    <2> QED
      BY <1>1, <1>2, <1>3, <2>1, <2>2 DEF Upsert
  <1>4. CASE Delete(c) /\ rows[op[c].key] = Absent
    <2>1. at' = [at EXCEPT ![c] = "effective"]
      BY <1>4 DEF Delete, Executed
    <2>2. result' = [result EXCEPT ![c] = Memory!Answer(op[c], rows)]
      BY <1>4 DEF Delete, Executed, Memory!Answer, Nothing, Memory!Nothing
    <2>3. op[c].kind = "delete" /\ op[c].value = Absent
      BY <1>2, <1>4 DEF Delete, Memory!Operations
    <2>4. Memory!After(op[c], rows) = rows
      BY <1>2, <1>4, <2>3 DEF Memory!After, Memory!Contents
    <2> QED
      BY <1>1, <1>2, <2>1, <2>2, <2>4
  <1>5. CASE Delete(c) /\ rows[op[c].key] # Absent
    <2>1. at' = [at EXCEPT ![c] = "executed"]
      BY <1>5 DEF Delete, Executed
    <2>2. result' = [result EXCEPT ![c] = Memory!Answer(op[c], rows)]
      BY <1>5 DEF Delete, Executed, Memory!Answer, Nothing, Memory!Nothing
    <2> QED
      BY <1>1, <1>2, <1>5, <2>1, <2>2 DEF Delete
  <1>6. CASE ListAll(c)
    <2>1. at' = [at EXCEPT ![c] = "effective"]
      BY <1>6 DEF ListAll, Executed
    <2>2. result' = [result EXCEPT ![c] = Memory!Answer(op[c], rows)]
      BY <1>6 DEF ListAll, Executed, Memory!Answer
    <2>3. Memory!After(op[c], rows) = rows
      BY <1>6 DEF ListAll, Memory!After
    <2> QED
      BY <1>1, <1>2, <2>1, <2>2, <2>3
  <1> QED
    BY <1>3, <1>4, <1>5, <1>6 DEF Execute

LEMMA ExecuteKeeps ==
    ASSUME StoreInv, NEW c \in Calls, Execute(c)
    PROVE  StoreInv'
  <1>0. /\ at[c] = "asked" /\ op[c] # NoOperation
        /\ op' = op /\ rows' = rows
        /\ result' = [result EXCEPT ![c] = Memory!Answer(op[c], rows)]
        /\ \/ /\ at' = [at EXCEPT ![c] = "executed"]
              /\ op[c].kind \in {"put", "delete"}
              /\ MayWrite(op[c].key)
           \/ at' = [at EXCEPT ![c] = "effective"]
    BY ExecuteFacts
  <1>1. StoreTypeOK'
    <2>1. Memory!Answer(op[c], rows) \in Memory!Results
      BY <1>0, Effects DEF StoreInv
    <2> QED
      BY <1>0, <2>1 DEF StoreInv, StoreTypeOK
  <1>2. CallStates'
    <2>1. \A d \in Calls \ {c} : at'[d] = at[d] /\ result'[d] = result[d]
      BY <1>0 DEF StoreInv, StoreTypeOK
    <2>2. /\ result'[c] = Memory!Answer(op[c], rows)
          /\ \/ at'[c] = "executed" /\ op[c].kind \in {"put", "delete"}
             \/ at'[c] = "effective"
      BY <1>0 DEF StoreInv, StoreTypeOK
    <2> QED
      BY <1>0, <2>1, <2>2 DEF StoreInv, CallStates, Memory!Answer
  <1>3. OneHolder'
    <2>1. CASE at' = [at EXCEPT ![c] = "executed"] /\ MayWrite(op[c].key)
      BY <1>0, <2>1 DEF StoreInv, StoreTypeOK, OneHolder, MayWrite, Holders
    <2>2. CASE at' = [at EXCEPT ![c] = "effective"]
      BY <1>0, <2>2 DEF StoreInv, StoreTypeOK, OneHolder
    <2> QED
      BY <1>0, <2>1, <2>2
  <1> QED
    BY <1>1, <1>2, <1>3 DEF StoreInv

\* The commit changes no row that another call has answered for.
LEMMA CommitKeeps ==
    ASSUME StoreInv, NEW c \in Calls, Commit(c)
    PROVE  /\ StoreInv'
           /\ rows' = Memory!After(op[c], rows)
  <1>0. /\ at[c] = "executed" /\ op[c].kind \in {"put", "delete"}
        /\ op[c].key \in Keys /\ op[c].value \in Values \cup {Absent}
        /\ op' = op /\ result' = result
        /\ at' = [at EXCEPT ![c] = "effective"]
        /\ rows' = [rows EXCEPT ![op[c].key] = op[c].value]
    BY Writes DEF StoreInv, CallStates, Commit
  <1>1. StoreTypeOK'
    BY <1>0 DEF StoreInv, StoreTypeOK, Memory!Contents
  <1>2. CallStates'
    <2> SUFFICES ASSUME NEW d \in Calls, at'[d] = "executed"
                 PROVE  result[d] = Memory!Answer(op[d], rows') /\ op[d].kind \in {"put", "delete"}
      BY <1>0 DEF StoreInv, StoreTypeOK, CallStates
    <2>1. d # c /\ at[d] = "executed"
      BY <1>0 DEF StoreInv, StoreTypeOK
    <2>2. /\ op[d].kind \in {"put", "delete"} /\ op[d].key \in Keys
          /\ result[d] = Memory!Answer(op[d], rows)
      BY <2>1, Writes DEF StoreInv, CallStates
    <2>3. op[d].key # op[c].key
      BY <1>0, <2>1 DEF StoreInv, OneHolder
    <2>4. rows'[op[d].key] = rows[op[d].key]
      BY <1>0, <2>2, <2>3 DEF StoreInv, StoreTypeOK, Memory!Contents
    <2> QED
      BY <2>2, <2>4 DEF Memory!Answer
  <1>3. OneHolder'
    BY <1>0 DEF StoreInv, StoreTypeOK, OneHolder
  <1>4. rows' = Memory!After(op[c], rows)
    BY <1>0 DEF Memory!After
  <1> QED
    BY <1>1, <1>2, <1>3, <1>4 DEF StoreInv
LEMMA ReplaceKeeps ==
    ASSUME StoreInv, \A c \in Calls : at[c] = "resting",
           UNCHANGED <<op, at, result>>, rows' \in Memory!Contents
    PROVE  StoreInv'
  BY DEF StoreInv, StoreTypeOK, CallStates, OneHolder

-----------------------------------------------------------------------------
(* What each script does to its variables *)

LEMMA ScriptFacts ==
    ASSUME TypeOK
    PROVE  /\ script \in ScriptTypes
           /\ script.at = <<script.at[1], script.at[2]>>
           /\ Database \in Contents /\ None \in Contents
  <1>1. script \in ScriptTypes
    BY DEF TypeOK, ScriptTypes
  <1>2. script.at = <<script.at[1], script.at[2]>>
    BY <1>1, StepFacts DEF ScriptTypes
  <1>3. Database \in Contents /\ None \in Contents
    BY DEF TypeOK, StoreTypeOK, Database, None, Contents, Schemas, Nothing, Memory!Contents
  <1> QED
    BY <1>1, <1>2, <1>3

LEMMA NewNameFacts ==
    ASSUME Unused # {}
    PROVE  NewName \in Unused /\ NewName \in Names
  BY DEF NewName, Unused

LEMMA StartBackupEffect ==
    ASSUME TypeOK, StartBackup
    PROVE  /\ script' \in ScriptTypes
           /\ script'.at[1] = "backup" /\ script'.at[2] = "dump"
           /\ script'.target \in Unused
           /\ script.at[1] = "idle"
  <1>1. /\ script = NoScript /\ NewName \in Unused /\ NewName \in Names
        /\ script' = [NoScript EXCEPT !.at = <<"backup", "dump">>, !.target = NewName]
    BY NewNameFacts DEF StartBackup, Idle
  <1>2. <<"backup", "dump">> \in Steps
    BY DEF Steps
  <1> QED
    BY <1>1, <1>2, NoScriptFacts DEF ScriptTypes

LEMMA StartRestoreEffect ==
    ASSUME TypeOK, NEW n \in Names, StartRestore(n)
    PROVE  /\ script' \in ScriptTypes
           /\ script'.at[1] = "restore" /\ script'.at[2] = "stop"
           /\ script'.target \in Unused
           /\ script'.source = n
           /\ script.at[1] = "idle"
  <1>1. /\ script = NoScript /\ NewName \in Unused /\ NewName \in Names
        /\ script' = [NoScript EXCEPT !.at = <<"restore", "stop">>, !.target = NewName,
                                      !.source = n, !.wasRunning = (core = "running")]
    BY NewNameFacts DEF StartRestore, Idle
  <1>2. <<"restore", "stop">> \in Steps /\ (core = "running") \in BOOLEAN
    BY DEF Steps
  <1> QED
    BY <1>1, <1>2, NoScriptFacts DEF ScriptTypes

LEMMA StartOtherEffect ==
    ASSUME TypeOK, StartImport \/ StartAdoption
    PROVE  /\ script' \in ScriptTypes
           /\ script'.at \in {<<"import", "write">>, <<"adopt", "stamp">>}
           /\ script.at[1] = "idle"
  <1>1. <<"import", "write">> \in Steps /\ <<"adopt", "stamp">> \in Steps
    BY DEF Steps
  <1> QED
    BY <1>1, NoScriptFacts DEF ScriptTypes, StartImport, StartAdoption, Idle

LEMMA DumpEffect ==
    ASSUME TypeOK, Dump
    PROVE  /\ script' \in ScriptTypes
           /\ script'.at[1] = script.at[1] /\ script'.at[2] = "checksum"
           /\ script'.target = script.target /\ script'.source = script.source
           /\ script'.partial = Database
  <1>1. /\ script.at[2] = "dump"
        /\ script' = [script EXCEPT !.at = [script.at EXCEPT ![2] = "checksum"],
                                    !.partial = Database]
    BY DEF Dump
  <1>2. [script.at EXCEPT ![2] = "checksum"] = <<script.at[1], "checksum">>
    BY ScriptFacts, StepFacts DEF ScriptTypes
  <1>3. <<script.at[1], "checksum">> \in Steps
    BY <1>1, ScriptFacts DEF ScriptTypes, Steps
  <1> QED
    BY <1>1, <1>2, <1>3, ScriptFacts DEF ScriptTypes

LEMMA ImportReturnsEffect ==
    ASSUME OperationsInv, ImportReturns
    PROVE  /\ script' \in ScriptTypes
           /\ script'.at = script.at
  <1>1. /\ at[Importer] # "resting"
        /\ script' = [script EXCEPT !.imported = @ + 1]
    BY DEF ImportReturns, Return, Counted
  <1>2. script.imported < Len(Entries) /\ TypeOK
    BY <1>1 DEF OperationsInv, Quiet
  <1>3. script \in ScriptTypes /\ Len(Entries) \in Nat
    BY <1>2, ScriptFacts, OperationsAssumption DEF OperationsAssumption
  <1>4. script.imported + 1 \in 0..Len(Entries)
    BY <1>2, <1>3 DEF ScriptTypes
  <1> QED
    BY <1>1, <1>3, <1>4 DEF ScriptTypes

LEMMA PublishEffect ==
    ASSUME TypeOK, NEW step, script.target \in Names, Publish(step)
    PROVE  /\ files' \in [Names -> [dump : Contents, sum : Contents]]
           /\ \A n \in Names \ {script.target} : files'[n] = files[n]
           /\ step = "checksum" =>
                 files'[script.target] = [dump |-> files[script.target].dump,
                                          sum |-> script.partial]
           /\ step = "archive" =>
                 files'[script.target] = [dump |-> script.partial,
                                          sum |-> files[script.target].sum]
  <1>1. files \in [Names -> [dump : Contents, sum : Contents]] /\ script.partial \in Contents
    BY ScriptFacts DEF TypeOK, ScriptTypes
  <1>2. files' = [files EXCEPT ![script.target] =
                    [files[script.target] EXCEPT ![Part(step)] = script.partial]]
    BY DEF Publish
  <1>3. PICK d, u \in Contents : files[script.target] = [dump |-> d, sum |-> u]
    BY <1>1
  <1>4. [files[script.target] EXCEPT ![Part(step)] = script.partial]
           = IF step = "checksum" THEN [dump |-> d, sum |-> script.partial]
             ELSE [dump |-> script.partial, sum |-> u]
    BY <1>3 DEF Part
  <1> QED
    BY <1>1, <1>2, <1>3, <1>4
\* The steps of a script that go on to the next one, and keep its variables.
LEMMA GoOnEffect ==
    ASSUME TypeOK, NEW s, NextStep(s), script.at[1] = "restore",
           s \in {"dump", "archive", "drop", "create", "load", "migrate", "start"}
    PROVE  /\ script' \in ScriptTypes
           /\ script'.at = <<script.at[1], s>>
           /\ script'.at[1] = "restore" /\ script'.at[2] = s
           /\ script'.target = script.target /\ script'.partial = script.partial
           /\ script'.source = script.source
  <1>1. <<script.at[1], s>> \in Steps
    BY DEF Steps
  <1> QED
    BY <1>1, NextStepEffect

LEMMA GoOnToArchive ==
    ASSUME TypeOK, NextStep("archive"), script.at[2] = "checksum"
    PROVE  /\ script' \in ScriptTypes
           /\ script'.at = <<script.at[1], "archive">>
           /\ script'.at[1] = script.at[1] /\ script'.at[2] = "archive"
           /\ script'.target = script.target /\ script'.partial = script.partial
           /\ script'.source = script.source
  <1>1. <<script.at[1], "archive">> \in Steps
    BY ScriptFacts DEF ScriptTypes, Steps
  <1> QED
    BY <1>1, NextStepEffect

-----------------------------------------------------------------------------
(* Every step keeps the invariant *)

\* Past its first steps a restore is alone with the database.
LEMMA RestoringAlone ==
    ASSUME OperationsInv, script.at[1] = "restore", script.at[2] # "stop"
    PROVE  /\ core = "stopped"
           /\ \A c \in Calls : at[c] = "resting"
  <1>1. core = "stopped"
    BY DEF OperationsInv, Restoring
  <1>2. script.at # <<"import", "write">>
    OBVIOUS
  <1> QED
    BY <1>1, <1>2 DEF OperationsInv, Quiet

LEMMA AtFacts ==
    ASSUME NEW job, NEW step, At(job, step)
    PROVE  script.at[1] = job /\ script.at[2] = step
  BY DEF At

LEMMA LoadedRows ==
    ASSUME OperationsInv, At("restore", "load")
    PROVE  /\ script.source \in Names
           /\ files[script.source].dump.rows \in Memory!Contents
           /\ files[script.source].dump.schema \in Schemas
  <1>1. script.source \in Names
    BY AtFacts DEF OperationsInv, Restoring
  <1>2. files[script.source].dump \in Contents
    BY <1>1 DEF OperationsInv, TypeOK
  <1> QED
    BY <1>1, <1>2 DEF Contents

LEMMA StoreStep ==
    ASSUME OperationsInv, [Next]_vars
    PROVE  StoreInv'
  <1>0. StoreInv
    BY DEF OperationsInv, TypeOK, StoreInv
  <1>1. ASSUME NEW C, FailAll(C)
        PROVE  StoreInv'
    BY <1>0, <1>1, RestKeeps DEF FailAll
  <1>2. CASE UNCHANGED storeVars
    BY <1>0, <1>2
    DEF storeVars, StoreInv, StoreTypeOK, CallStates, OneHolder
  <1>3. ASSUME NEW c \in Calls,
               \/ \E o \in Requests[c] : Request(c, o)
               \/ Statement(c) \/ CommitCall(c) \/ ReturnCall(c) \/ CallFails(c)
        PROVE  StoreInv'
    <2>1. CASE \E o \in Requests[c] : Request(c, o)
      BY <1>0, <2>1, Requestable, AskKeeps DEF Request
    <2>2. CASE Statement(c)
      BY <1>0, <1>1, <2>2, ExecuteKeeps DEF Statement
    <2>3. CASE CommitCall(c)
      BY <1>0, <2>3, CommitKeeps DEF CommitCall
    <2>4. CASE ReturnCall(c) \/ CallFails(c)
      BY <1>0, <1>1, <2>4, RestKeeps DEF ReturnCall, Return, CallFails
    <2> QED
      BY <1>3, <2>1, <2>2, <2>3, <2>4
  <1>4. CASE ImportNext
    <2>1. script.imported + 1 \in 1..Len(Entries) /\ Importer \in Calls
      BY <1>4, OperationsAssumption, ScriptFacts
      DEF ImportNext, OperationsInv, ScriptTypes, OperationsAssumption
    <2> QED
      BY <1>0, <1>4, <2>1, Requestable, AskKeeps DEF ImportNext
  <1>5. CASE ImportReturns \/ ImportFails \/ StopCore
    BY <1>0, <1>1, <1>5, RestKeeps DEF ImportReturns, Return, ImportFails, StopCore
  <1>6. CASE DropDatabase
    <2>1. \A c \in Calls : at[c] = "resting"
      BY <1>6, AtFacts, RestoringAlone DEF DropDatabase
    <2>2. UNCHANGED <<op, at, result>> /\ rows' \in Memory!Contents
      BY <1>6 DEF DropDatabase, Nothing, Memory!Contents
    <2> QED
      BY <1>0, <2>1, <2>2, ReplaceKeeps
  <1>7. CASE Load
    <2>1. \A c \in Calls : at[c] = "resting"
      BY <1>7, AtFacts, RestoringAlone DEF Load
    <2>2. UNCHANGED <<op, at, result>> /\ rows' \in Memory!Contents
      BY <1>7, LoadedRows DEF Load
    <2> QED
      BY <1>0, <2>1, <2>2, ReplaceKeeps
  <1> QED
    BY <1>2, <1>3, <1>4, <1>5, <1>6, <1>7
    DEF Next, CallNext, JobNext, vars, StartCore, Migrate, StartAdoption, Stamp, StartImport,
        ImportEnds, StartBackup, Dump, PublishChecksum, PublishArchive, Prune, StartRestore,
        CreateDatabase, MigrateRestored, Restart, ScriptFails
\* Only a request, or the import, starts a call.
LEMMA ActiveStep ==
    ASSUME OperationsInv, [Next]_vars, NEW c \in Calls, at[c] = "resting", at'[c] # "resting"
    PROVE  \/ ImportNext /\ c = Importer
           \/ \E o \in Requests[c] : Request(c, o)
  <1>0. at \in [Calls -> {"resting", "asked", "executed", "effective"}]
    BY DEF OperationsInv, TypeOK, StoreTypeOK
  <1>1. ASSUME NEW C, FailAll(C)
        PROVE  at'[c] = "resting"
    BY <1>0, <1>1 DEF FailAll, Rest
  <1>2. ASSUME NEW d \in Calls, \E o \in Requests[d] : Request(d, o)
        PROVE  d = c
    BY <1>0, <1>2 DEF Request, Ask
  <1>3. ASSUME NEW d \in Calls,
               Statement(d) \/ CommitCall(d) \/ ReturnCall(d) \/ CallFails(d)
        PROVE  at'[c] = "resting"
    BY <1>0, <1>1, <1>3
    DEF Statement, Execute, Upsert, Delete, ListAll, Executed, CommitCall, Commit, ReturnCall,
        Return, Rest, CallFails
  <1>4. CASE ImportNext
    BY <1>0, <1>4 DEF ImportNext, Ask
  <1>5. CASE ImportReturns \/ ImportFails \/ StopCore
    BY <1>0, <1>1, <1>5 DEF ImportReturns, Return, Rest, ImportFails, StopCore
  <1>6. CASE UNCHANGED at
    BY <1>6
  <1> QED
    BY <1>2, <1>3, <1>4, <1>5, <1>6
    DEF Next, CallNext, JobNext, vars, storeVars, StartCore, Migrate, StartAdoption, Stamp,
        StartImport, ImportEnds, StartBackup, Dump, PublishChecksum, PublishArchive, Prune,
        StartRestore, DropDatabase, CreateDatabase, Load, MigrateRestored, Restart, ScriptFails

LEMMA QuietStep ==
    ASSUME OperationsInv, [Next]_vars
    PROVE  Quiet'
  <1>0. Quiet /\ TypeOK
    BY DEF OperationsInv
  <1>1. Importer \in Calls
    BY OperationsAssumption DEF OperationsAssumption
  <1>2. ASSUME core' = "stopped", NEW c \in Calls \ {Importer}
        PROVE  at'[c] = "resting"
    <2>1. CASE StopCore
      BY <2>1 DEF StopCore, FailAll, Rest
    <2>2. CASE ~StopCore
      <3>1. core = "stopped"
        BY <1>2, <2>2
        DEF Next, CallNext, JobNext, vars, opsVars, Request, Statement, CommitCall,
            ReturnCall, CallFails, StartCore, Migrate, StartAdoption, Stamp, StartImport,
            ImportNext, ImportReturns, ImportEnds, ImportFails, StartBackup, Dump,
            PublishChecksum, PublishArchive, Prune, StartRestore, DropDatabase,
            CreateDatabase, Load, MigrateRestored, Restart, ScriptFails
      <3>2. at[c] = "resting"
        BY <1>0, <3>1 DEF Quiet
      <3> QED
        BY <3>1, <3>2, ActiveStep DEF Request
    <2> QED
      BY <2>1, <2>2
  <1>3. ASSUME at'[Importer] # "resting"
        PROVE  /\ script'.at = <<"import", "write">>
               /\ script'.imported < Len(Entries)
    <2>1. CASE at[Importer] = "resting"
      <3>1. ImportNext
        BY <1>1, <1>3, <2>1, ActiveStep DEF Request
      <3>2. script' = script /\ script.at = <<"import", "write">>
                /\ script.imported < Len(Entries)
        BY <3>1 DEF ImportNext, At, opsVars
      <3> QED
        BY <3>2
    <2>2. CASE at[Importer] # "resting"
      <3>1. script.at = <<"import", "write">> /\ script.imported < Len(Entries)
        BY <1>0, <2>2 DEF Quiet
      <3>2. script.at[1] = "import" /\ script.at[2] = "write"
        BY <3>1
      <3>3. script # NoScript /\ \A step : ~At("restore", step) /\ ~At("adopt", step)
        BY <3>2, NoScriptFacts DEF At
      <3>4. ~ImportReturns /\ ~ImportFails /\ ~StopCore
        BY <1>1, <1>3
        DEF ImportReturns, Return, ImportFails, StopCore, FailAll, Rest
      <3>5. Len(Entries) \in Nat /\ script.imported # Len(Entries)
        BY <1>0, <3>1, OperationsAssumption, ScriptFacts DEF OperationsAssumption, ScriptTypes
      <3>6. ASSUME NEW c \in Calls, Statement(c)
            PROVE  script' = script
        BY <1>1, <1>3, <3>6 DEF Statement, FailAll, Rest
      <3>7. script' = script
        BY <3>2, <3>3, <3>4, <3>5, <3>6
        DEF Next, CallNext, JobNext, vars, opsVars, Request, CommitCall,
            ReturnCall, CallFails, StartCore, Migrate, StartAdoption, Stamp, StartImport,
            ImportNext, ImportEnds, StartBackup, Dump, Idle,
            PublishChecksum, PublishArchive, Prune, StartRestore, DropDatabase,
            CreateDatabase, Load, MigrateRestored, Restart, ScriptFails
      <3> QED
        BY <3>1, <3>7
    <2> QED
      BY <2>1, <2>2
  <1> QED
    BY <1>2, <1>3 DEF Quiet
\* How a step changes the script that runs.
LEMMA ScriptStep ==
    ASSUME OperationsInv, [Next]_vars
    PROVE  \/ UNCHANGED script
           \/ /\ script' \in ScriptTypes
              /\ script'.at[1] \in {"idle", "import", "adopt"}
              /\ script'.at[2] \in {"idle", "write", "stamp"}
              /\ UNCHANGED <<files, dropped>>
           \/ PublishArchive /\ script' = NoScript
           \/ StartBackup \/ \E n \in Names : StartRestore(n)
           \/ StopCore \/ Dump \/ PublishChecksum
           \/ PublishArchive /\ script.at[1] = "restore" /\ NextStep("drop")
           \/ DropDatabase \/ CreateDatabase \/ Load
           \/ MigrateRestored /\ NextStep("start")
  <1>0. TypeOK
    BY DEF OperationsInv
  <1>1. CASE StartImport \/ StartAdoption
    BY <1>0, <1>1, StartOtherEffect DEF StartImport, StartAdoption
  <1>2. CASE ImportReturns
    <2>1. at[Importer] # "resting"
      BY <1>2 DEF ImportReturns, Return
    <2>2. script'.at = <<"import", "write">>
      BY <1>2, <2>1, ImportReturnsEffect DEF OperationsInv, Quiet
    <2> QED
      BY <1>2, <2>2, ImportReturnsEffect DEF ImportReturns
  <1>3. CASE ImportEnds \/ ImportFails \/ Stamp \/ ScriptFails \/ Restart
    BY <1>3, NoScriptFacts DEF ImportEnds, ImportFails, Stamp, ScriptFails, Restart, End
  <1>4. CASE MigrateRestored \/ PublishArchive
    BY <1>4, NoScriptFacts DEF MigrateRestored, PublishArchive, End
  <1>5. ASSUME NEW c \in Calls, Statement(c)
        PROVE  \/ UNCHANGED script
               \/ script' = NoScript /\ UNCHANGED <<files, dropped>>
    BY <1>5 DEF Statement, End
  <1> QED
    BY <1>1, <1>2, <1>3, <1>4, <1>5, NoScriptFacts
    DEF Next, CallNext, JobNext, vars, opsVars, Request, CommitCall, ReturnCall, CallFails,
        StartCore, Migrate, ImportNext, Prune

LEMMA TargetFacts ==
    ASSUME OperationsInv, script.at[2] \in {"stop", "dump", "checksum", "archive"}
    PROVE  /\ script.target \in Names
           /\ files[script.target].dump = None
           /\ script.at[2] # "archive" =>
                 files[script.target] = [dump |-> None, sum |-> None]
  BY DEF OperationsInv, BackingUp, Unused

LEMMA ChecksumEffect ==
    ASSUME OperationsInv, PublishChecksum
    PROVE  /\ files' \in [Names -> [dump : Contents, sum : Contents]]
           /\ \A n \in Names \ {script.target} : files'[n] = files[n]
           /\ script.target \in Names
           /\ files[script.target].dump = None
           /\ files'[script.target] = [dump |-> None, sum |-> script.partial]
  <1>1. /\ script.target \in Names
        /\ files[script.target] = [dump |-> None, sum |-> None]
    BY TargetFacts DEF PublishChecksum
  <1>2. files[script.target].dump = None
    BY <1>1
  <1> QED
    BY <1>1, <1>2, PublishEffect DEF PublishChecksum, OperationsInv

LEMMA ArchiveEffect ==
    ASSUME OperationsInv, PublishArchive
    PROVE  /\ files' \in [Names -> [dump : Contents, sum : Contents]]
           /\ \A n \in Names \ {script.target} : files'[n] = files[n]
           /\ script.target \in Names
           /\ files[script.target].dump = None
           /\ files'[script.target] = [dump |-> script.partial, sum |-> script.partial]
  <1>1. script.target \in Names /\ files[script.target].dump = None
    BY TargetFacts DEF PublishArchive
  <1>2. files[script.target].sum = script.partial
    BY DEF PublishArchive, OperationsInv, BackingUp
  <1> QED
    BY <1>1, <1>2, PublishEffect DEF PublishArchive, OperationsInv

LEMMA PruneEffect ==
    ASSUME TypeOK, NEW n \in Names, Prune(n)
    PROVE  /\ files' \in [Names -> [dump : Contents, sum : Contents]]
           /\ \A m \in Names \ {n} : files'[m] = files[m]
           /\ files'[n] = [dump |-> None, sum |-> None]
           /\ script.at[2] = "idle"
  BY ScriptFacts, NoScriptFacts DEF TypeOK, Prune, Idle

LEMMA FilesUnchanged ==
    ASSUME [Next]_vars, ~PublishChecksum, ~PublishArchive, \A n \in Names : ~Prune(n)
    PROVE  files' = files
  BY DEF Next, CallNext, JobNext, vars, opsVars, Request, Statement, CommitCall,
         ReturnCall, CallFails, StartCore, Migrate, StartAdoption, Stamp, StartImport,
         ImportNext, ImportReturns, ImportEnds, ImportFails, StartBackup, Dump,
         StartRestore, StopCore, DropDatabase,
         CreateDatabase, Load, MigrateRestored, Restart, ScriptFails

LEMMA BackingUpStep ==
    ASSUME OperationsInv, [Next]_vars
    PROVE  BackingUp'
  <1>0. TypeOK /\ BackingUp
    BY DEF OperationsInv
  <1> USE DEF BackingUp, Unused
  <1>1. CASE script'.at[2] \notin {"stop", "dump", "checksum", "archive"}
    BY <1>1
  <1>2. CASE UNCHANGED script
    <2>1. CASE UNCHANGED files
      BY <1>0, <1>2, <2>1
    <2>2. CASE \E n \in Names : Prune(n)
      BY <1>0, <1>2, <2>2, PruneEffect
    <2>3. CASE PublishChecksum
      <3>1. script'.at[2] = "archive" /\ script.at[2] = "checksum"
        BY <1>0, <2>3, GoOnToArchive DEF PublishChecksum
      <3> QED
        BY <1>2, <3>1
    <2>4. CASE PublishArchive
      <3>1. script'.at[2] # "archive" /\ script.at[2] = "archive"
        BY <1>0, <2>4, GoOnEffect, NoScriptFacts DEF PublishArchive, End
      <3> QED
        BY <1>2, <3>1
    <2> QED
      BY <2>1, <2>2, <2>3, <2>4, FilesUnchanged
  <1>3. CASE StartBackup
    BY <1>0, <1>3, StartBackupEffect DEF StartBackup
  <1>4. CASE \E n \in Names : StartRestore(n)
    BY <1>0, <1>4, StartRestoreEffect DEF StartRestore
  <1>5. CASE StopCore
    <2>1. script.at[1] = "restore" /\ script.at[2] = "stop"
      BY <1>5, AtFacts DEF StopCore
    <2> QED
      BY <1>0, <1>5, <2>1, GoOnEffect DEF StopCore
  <1>6. CASE Dump
    BY <1>0, <1>6, DumpEffect DEF Dump
  <1>7. CASE PublishChecksum
    <2>1. script'.at[2] = "archive" /\ script'.target = script.target
              /\ script'.partial = script.partial
      BY <1>0, <1>7, GoOnToArchive DEF PublishChecksum
    <2> QED
      BY <1>7, <2>1, ChecksumEffect
  <1>8. CASE /\ script.at[1] = "restore"
             /\ \/ NextStep("drop") \/ NextStep("create") \/ NextStep("load")
                \/ NextStep("migrate") \/ NextStep("start")
    BY <1>0, <1>8, GoOnEffect
  <1>9. DropDatabase \/ CreateDatabase \/ Load \/ MigrateRestored => script.at[1] = "restore"
    BY AtFacts DEF DropDatabase, CreateDatabase, Load, MigrateRestored
  <1> QED
    BY <1>1, <1>2, <1>3, <1>4, <1>5, <1>6, <1>7, <1>8, <1>9, ScriptStep, NoScriptFacts
    DEF DropDatabase, CreateDatabase, Load
LEMMA TypeStep ==
    ASSUME OperationsInv, [Next]_vars
    PROVE  TypeOK'
  <1>0. TypeOK /\ StoreTypeOK'
    BY StoreStep DEF OperationsInv, StoreInv
  <1>1. schema' \in Schemas
    <2>1. ASSUME NEW n \in Names
          PROVE  files[n].dump.schema \in Schemas
      BY <1>0 DEF TypeOK, Contents
    <2> QED
      BY <1>0, <2>1, LoadedRows
      DEF TypeOK, Next, CallNext, JobNext, vars, opsVars, Request, Statement, CommitCall,
          ReturnCall, CallFails, StartCore, Migrate, StartAdoption, Stamp, StartImport,
          ImportNext, ImportReturns, ImportEnds, ImportFails, StartBackup, Dump,
          PublishChecksum, PublishArchive, Prune, StartRestore, StopCore, DropDatabase,
          CreateDatabase, Load, MigrateRestored, Restart, ScriptFails, Schemas, Upgraded,
          Latest
  <1>2. core' \in {"running", "stopped"}
    BY <1>0
    DEF TypeOK, Next, CallNext, JobNext, vars, opsVars, Request, Statement, CommitCall,
        ReturnCall, CallFails, StartCore, Migrate, StartAdoption, Stamp, StartImport,
        ImportNext, ImportReturns, ImportEnds, ImportFails, StartBackup, Dump,
        PublishChecksum, PublishArchive, Prune, StartRestore, StopCore, DropDatabase,
        CreateDatabase, Load, MigrateRestored, Restart, ScriptFails
  <1>3. files' \in [Names -> [dump : Contents, sum : Contents]]
    <2>1. CASE UNCHANGED files
      BY <1>0, <2>1 DEF TypeOK
    <2> QED
      BY <1>0, <2>1, FilesUnchanged, ChecksumEffect, ArchiveEffect, PruneEffect
  <1>4. script' \in ScriptTypes
    <2>1. script \in ScriptTypes
      BY <1>0, ScriptFacts
    <2>2. CASE StopCore \/ DropDatabase \/ CreateDatabase \/ Load
               \/ (MigrateRestored /\ NextStep("start"))
      BY <1>0, <2>2, AtFacts, GoOnEffect
      DEF StopCore, DropDatabase, CreateDatabase, Load, MigrateRestored
    <2>3. CASE PublishChecksum
      BY <1>0, <2>3, GoOnToArchive DEF PublishChecksum
    <2> QED
      BY <1>0, <2>1, <2>2, <2>3, ScriptStep, NoScriptFacts, StartBackupEffect,
         StartRestoreEffect, DumpEffect, GoOnEffect
  <1>5. dropped' \in Contents
    <2>1. dropped' = dropped \/ dropped' = Database
      BY DEF Next, CallNext, JobNext, vars, opsVars, Request, Statement, CommitCall,
        ReturnCall, CallFails, StartCore, Migrate, StartAdoption, Stamp, StartImport,
        ImportNext, ImportReturns, ImportEnds, ImportFails, StartBackup, Dump,
        PublishChecksum, PublishArchive, Prune, StartRestore, StopCore, DropDatabase,
        CreateDatabase, Load, MigrateRestored, Restart, ScriptFails
    <2> QED
      BY <1>0, <2>1, ScriptFacts DEF TypeOK
  <1> QED
    BY <1>0, <1>1, <1>2, <1>3, <1>4, <1>5 DEF TypeOK, ScriptTypes

\* No script and no call disturbs a restore.
LEMMA RestoreUndisturbed ==
    ASSUME OperationsInv, [Next]_vars, UNCHANGED script,
           script.at[1] = "restore", script.at[2] # "stop"
    PROVE  core' = core /\ Database' = Database /\ files' = files
  <1>1. \A c \in Calls : at[c] = "resting"
    BY RestoringAlone
  <1>2. core = "stopped"
    BY RestoringAlone
  <1>3. ~Idle /\ \A job, step : At(job, step) => job = "restore"
    BY AtFacts, NoScriptFacts DEF Idle
  <1>4. \A c \in Calls : /\ ~Statement(c) /\ ~CommitCall(c) /\ ~ReturnCall(c) /\ ~CallFails(c)
                         /\ \A o \in Requests[c] : ~Request(c, o)
    BY <1>1, <1>2
    DEF Statement, Execute, Upsert, Delete, ListAll, Executed, CommitCall, Commit, ReturnCall,
        Return, CallFails, Request
  <1>5. ~ImportReturns
    BY <1>1, OperationsAssumption DEF OperationsAssumption, ImportReturns, Return
  <1>6. TypeOK /\ script' # NoScript
    BY NoScriptFacts DEF OperationsInv
  <1>7. ~Dump /\ ~PublishChecksum
    BY <1>6, DumpEffect, GoOnToArchive DEF Dump, PublishChecksum
  <1>8. ~PublishArchive
    BY <1>6, GoOnEffect DEF PublishArchive, End
  <1>9. ~StopCore /\ ~DropDatabase /\ ~CreateDatabase /\ ~Load /\ ~MigrateRestored
    BY <1>6, AtFacts, GoOnEffect
    DEF StopCore, DropDatabase, CreateDatabase, Load, MigrateRestored, End
  <1>10. ~Restart /\ ~ScriptFails /\ ~Stamp /\ ~ImportEnds /\ ~ImportFails /\ ~ImportNext
    BY <1>3, <1>6 DEF Restart, ScriptFails, Stamp, ImportEnds, ImportFails, ImportNext, End
  <1>11. UNCHANGED vars
    BY <1>3, <1>4, <1>5, <1>7, <1>8, <1>9, <1>10
    DEF Next, CallNext, JobNext, StartCore, Migrate, StartAdoption, StartImport, StartBackup,
        Prune, StartRestore
  <1> QED
    BY <1>11 DEF vars, storeVars, opsVars, Database

LEMMA RestoringStep ==
    ASSUME OperationsInv, [Next]_vars
    PROVE  Restoring'
  <1>0. TypeOK /\ Restoring
    BY DEF OperationsInv
  <1> USE DEF Restoring
  <1>1. CASE script'.at[1] # "restore"
    BY <1>1
  <1>2. CASE UNCHANGED script
    <2>1. CASE script.at[1] = "restore" /\ script.at[2] # "stop"
      BY <1>0, <1>2, <2>1, RestoreUndisturbed DEF Database
    <2>2. CASE script.at[1] = "restore" /\ script.at[2] = "stop"
      BY <1>0, <1>2, <2>2
    <2> QED
      BY <1>1, <1>2, <2>1, <2>2
  <1>3. ASSUME NEW n \in Names, StartRestore(n)
        PROVE  Restoring'
    BY <1>0, <1>3, StartRestoreEffect
  <1>4. CASE StopCore
    <2>1. script.at[1] = "restore" /\ NextStep("dump") /\ core' = "stopped"
      BY <1>4, AtFacts DEF StopCore
    <2> QED
      BY <1>0, <2>1, GoOnEffect
  <1>5. CASE script.at[1] = "restore" /\ script.at[2] # "stop" /\ core' = core
    <2>0. core' = "stopped" /\ script.source \in Names
      BY <1>0, <1>5
    <2>1. CASE Dump
      <3>1. Database' = Database
        BY <2>1 DEF Dump, Database, storeVars
      <3> QED
        BY <1>0, <1>5, <2>0, <2>1, <3>1, DumpEffect
    <2>2. CASE PublishChecksum
      <3>1. Database' = Database
        BY <2>2 DEF PublishChecksum, Database, storeVars
      <3>2. NextStep("archive") /\ script.at[2] = "checksum"
        BY <2>2 DEF PublishChecksum
      <3> QED
        BY <1>0, <1>5, <2>0, <3>1, <3>2, GoOnToArchive
    <2>3. CASE PublishArchive /\ NextStep("drop")
      <3>1. Database' = Database /\ script.at[2] = "archive"
        BY <2>3 DEF PublishArchive, Database, storeVars
      <3> QED
        BY <1>0, <1>5, <2>0, <2>3, <3>1, GoOnEffect, ArchiveEffect
    <2>4. CASE DropDatabase \/ CreateDatabase
      BY <1>0, <1>5, <2>0, <2>4, GoOnEffect DEF DropDatabase, CreateDatabase
    <2>5. CASE Load
      BY <1>0, <1>5, <2>0, <2>5, GoOnEffect DEF Load
    <2>6. CASE MigrateRestored /\ NextStep("start")
      <3>1. script.at[2] = "migrate" /\ UNCHANGED <<rows, files>>
        BY <2>6, AtFacts DEF MigrateRestored, storeVars
      <3>2. /\ script'.at[1] = "restore" /\ script'.at[2] = "start"
            /\ script'.source = script.source
        BY <1>0, <1>5, <2>6, GoOnEffect
      <3>3. schema' = Latest
        BY <2>6, <3>2, NoScriptFacts DEF MigrateRestored, End
      <3> QED
        BY <1>0, <1>5, <2>0, <3>1, <3>2, <3>3 DEF Latest
    <2> QED
      BY <1>0, <1>1, <1>2, <1>3, <1>4, <1>5, <2>1, <2>2, <2>3, <2>4, <2>5, <2>6, ScriptStep,
         NoScriptFacts, StartBackupEffect
  <1>6. Dump \/ PublishChecksum => core' = core /\ script.at[2] # "stop"
    BY DEF Dump, PublishChecksum
  <1>7. DropDatabase \/ CreateDatabase \/ Load \/ MigrateRestored
           => core' = core /\ script.at[1] = "restore" /\ script.at[2] # "stop"
    BY AtFacts DEF DropDatabase, CreateDatabase, Load, MigrateRestored
  <1>8. PublishArchive => core' = core /\ script.at[2] # "stop"
    BY DEF PublishArchive
  <1>9. Dump \/ PublishChecksum => script'.at[1] = script.at[1]
    BY <1>0, DumpEffect, GoOnToArchive DEF PublishChecksum
  <1> QED
    BY <1>0, <1>1, <1>2, <1>3, <1>4, <1>5, <1>6, <1>7, <1>8, <1>9, ScriptStep, NoScriptFacts,
       StartBackupEffect

LEMMA VisibleStep ==
    ASSUME OperationsInv, [Next]_vars
    PROVE  VisibleDumpHasChecksum'
  <1>0. VisibleDumpHasChecksum /\ TypeOK
    BY DEF OperationsInv
  <1> USE DEF VisibleDumpHasChecksum
  <1>1. CASE PublishChecksum
    BY <1>0, <1>1, ChecksumEffect
  <1>2. CASE PublishArchive
    BY <1>0, <1>2, ArchiveEffect
  <1>3. CASE \E n \in Names : Prune(n)
    BY <1>0, <1>3, PruneEffect
  <1> QED
    BY <1>0, <1>1, <1>2, <1>3, FilesUnchanged

LEMMA DroppedStep ==
    ASSUME OperationsInv, [Next]_vars
    PROVE  DroppedIsSaved'
  <1>0. DroppedIsSaved /\ TypeOK
    BY DEF OperationsInv
  <1>1. CASE DropDatabase
    <2>1. script.at[1] = "restore" /\ script.at[2] = "drop"
      BY <1>1, AtFacts DEF DropDatabase
    <2>2. /\ script.target \in Names /\ script.partial = Database
          /\ files[script.target] = [dump |-> Database, sum |-> Database]
      BY <2>1 DEF OperationsInv, Restoring
    <2> QED
      BY <1>1, <2>2 DEF DropDatabase, DroppedIsSaved
  <1>2. CASE ~DropDatabase
    <2>1. dropped' = dropped
      BY <1>2
      DEF Next, CallNext, JobNext, vars, opsVars, Request, Statement, CommitCall,
        ReturnCall, CallFails, StartCore, Migrate, StartAdoption, Stamp, StartImport,
        ImportNext, ImportReturns, ImportEnds, ImportFails, StartBackup, Dump,
        PublishChecksum, PublishArchive, Prune, StartRestore, StopCore,
        CreateDatabase, Load, MigrateRestored, Restart, ScriptFails
    <2> SUFFICES ASSUME dropped # None
                 PROVE  \E n \in Names : files'[n] = [dump |-> dropped, sum |-> dropped]
      BY <2>1 DEF DroppedIsSaved
    <2>2. PICK n \in Names : files[n] = [dump |-> dropped, sum |-> dropped]
      BY <1>0 DEF DroppedIsSaved
    <2>3. files[n].dump = dropped
      BY <2>2
    <2>4. CASE PublishChecksum
      BY <2>2, <2>3, <2>4, ChecksumEffect
    <2>5. CASE PublishArchive
      BY <2>2, <2>3, <2>5, ArchiveEffect
    <2>6. ASSUME NEW m \in Names, Prune(m)
          PROVE  files'[n] = files[n]
      <3>1. m # n
        BY <2>3, <2>6 DEF Prune
      <3> QED
        BY <1>0, <2>6, <3>1, PruneEffect
    <2> QED
      BY <2>2, <2>4, <2>5, <2>6, FilesUnchanged
  <1> QED
    BY <1>1, <1>2
LEMMA InitInv == Init => OperationsInv
  <1> SUFFICES ASSUME Init PROVE OperationsInv
    OBVIOUS
  <1>1. StoreTypeOK
    BY DEF Init, StoreInit, StoreTypeOK, NoOperation, NoAnswer, Nothing,
           Memory!Operations, Memory!Results, Memory!Nothing
  <1>2. TypeOK
    <2>1. None \in Contents
      BY DEF None, Contents, Schemas, Nothing, Memory!Contents
    <2> QED
      BY <1>1, <2>1, OperationsAssumption, NoScriptFacts
      DEF Init, TypeOK, OperationsAssumption, ScriptTypes
  <1>3. CallStates /\ OneHolder
    BY DEF Init, StoreInit, CallStates, OneHolder
  <1>4. Quiet
    BY OperationsAssumption DEF Init, StoreInit, Quiet, OperationsAssumption
  <1>5. BackingUp /\ Restoring
    BY NoScriptFacts DEF Init, BackingUp, Restoring
  <1>6. VisibleDumpHasChecksum
    BY DEF Init, VisibleDumpHasChecksum
  <1>7. DroppedIsSaved
    BY DEF Init, DroppedIsSaved
  <1> QED
    BY <1>2, <1>3, <1>4, <1>5, <1>6, <1>7 DEF OperationsInv

LEMMA InvStep == OperationsInv /\ [Next]_vars => OperationsInv'
  BY StoreStep, TypeStep, QuietStep, BackingUpStep, RestoringStep, VisibleStep, DroppedStep
  DEF OperationsInv, StoreInv

-----------------------------------------------------------------------------
(* The memory API implements the atomic memory *)

LEMMA AskRefines ==
    ASSUME StoreInv, NEW c \in Calls, NEW o \in Memory!Operations \ {NoOperation}, Ask(c, o)
    PROVE  Memory!Next
  <1>1. Memory!Ask(c, o)
    BY DEF StoreInv, StoreTypeOK, Ask, Memory!Ask
  <1> QED
    BY <1>1 DEF Memory!Next, Memory!NoOperation, NoOperation

\* A statement that writes is no step of the memory yet; any other is the effect.
LEMMA ExecuteRefines ==
    ASSUME StoreInv, NEW c \in Calls, Execute(c)
    PROVE  Memory!Next \/ UNCHANGED Memory!vars
  <1>1. /\ at[c] = "asked"
        /\ op' = op /\ rows' = rows
        /\ result' = [result EXCEPT ![c] = Memory!Answer(op[c], rows)]
        /\ \/ at' = [at EXCEPT ![c] = "executed"]
           \/ /\ at' = [at EXCEPT ![c] = "effective"]
              /\ Memory!After(op[c], rows) = rows
    BY ExecuteFacts
  <1>2. result[c] = NoAnswer
    BY <1>1 DEF StoreInv, CallStates
  <1>3. CASE at' = [at EXCEPT ![c] = "executed"]
    BY <1>1, <1>2, <1>3 DEF StoreInv, StoreTypeOK, Memory!vars
  <1>4. CASE at' = [at EXCEPT ![c] = "effective"] /\ Memory!After(op[c], rows) = rows
    <2>1. Memory!Effect(c)
      BY <1>1, <1>2, <1>4 DEF StoreInv, StoreTypeOK, Memory!Effect
    <2> QED
      BY <2>1 DEF Memory!Next
  <1> QED
    BY <1>1, <1>3, <1>4

\* The effect of a write is its commit: what the statement answered is true of it.
LEMMA CommitRefines ==
    ASSUME StoreInv, NEW c \in Calls, Commit(c)
    PROVE  Memory!Next
  <1>1. rows' = Memory!After(op[c], rows)
    BY CommitKeeps
  <1>2. at[c] = "executed" /\ result[c] = Memory!Answer(op[c], rows)
    BY DEF StoreInv, CallStates, Commit
  <1>3. Memory!Effect(c)
    BY <1>1, <1>2 DEF StoreInv, StoreTypeOK, Commit, Memory!Effect
  <1> QED
    BY <1>3 DEF Memory!Next

LEMMA RestRefines ==
    ASSUME StoreInv, NEW C, Rest(C)
    PROVE  Memory!Rest(C)
  BY DEF StoreInv, StoreTypeOK, Rest, Memory!Rest, NoOperation, Memory!NoOperation,
         NoAnswer, Memory!NoAnswer, Nothing, Memory!Nothing

LEMMA ReturnRefines ==
    ASSUME StoreInv, NEW c \in Calls, Return(c)
    PROVE  Memory!Next
  <1>1. Memory!Return(c)
    BY RestRefines DEF Return, Memory!Return
  <1> QED
    BY <1>1 DEF Memory!Next

LEMMA FailRefines ==
    ASSUME StoreInv, NEW C \in SUBSET Calls, FailAll(C)
    PROVE  Memory!Next
  <1>1. Memory!Fail(C)
    BY RestRefines DEF FailAll, Memory!Fail
  <1> QED
    BY <1>1 DEF Memory!Next

LEMMA ReplaceRefines ==
    ASSUME \A c \in Calls : at[c] = "resting",
           UNCHANGED <<op, at, result>>, rows' \in Memory!Contents
    PROVE  Memory!Next
  <1>1. Memory!Replace
    BY DEF Memory!Replace
  <1> QED
    BY <1>1 DEF Memory!Next
LEMMA RefinesStep ==
    ASSUME OperationsInv, [Next]_vars
    PROVE  Memory!Next \/ UNCHANGED Memory!vars
  <1>0. StoreInv
    BY DEF OperationsInv, TypeOK, StoreInv
  <1>1. CASE UNCHANGED storeVars
    BY <1>1 DEF storeVars, Memory!vars
  <1>2. ASSUME NEW c \in Calls,
               \/ \E o \in Requests[c] : Request(c, o)
               \/ Statement(c) \/ CommitCall(c) \/ ReturnCall(c) \/ CallFails(c)
        PROVE  Memory!Next \/ UNCHANGED Memory!vars
    <2>1. CASE \E o \in Requests[c] : Request(c, o)
      BY <1>0, <2>1, Requestable, AskRefines DEF Request
    <2>2. CASE Statement(c)
      BY <1>0, <2>2, ExecuteRefines, FailRefines DEF Statement
    <2>3. CASE CommitCall(c)
      BY <1>0, <2>3, CommitRefines DEF CommitCall
    <2>4. CASE ReturnCall(c)
      BY <1>0, <2>4, ReturnRefines DEF ReturnCall
    <2>5. CASE CallFails(c)
      BY <1>0, <2>5, FailRefines DEF CallFails
    <2> QED
      BY <1>2, <2>1, <2>2, <2>3, <2>4, <2>5
  <1>3. Importer \in Calls
    BY OperationsAssumption DEF OperationsAssumption
  <1>4. CASE ImportNext
    <2>1. script.imported + 1 \in 1..Len(Entries)
      BY <1>4, OperationsAssumption, ScriptFacts
      DEF ImportNext, OperationsInv, ScriptTypes, OperationsAssumption
    <2> QED
      BY <1>0, <1>3, <1>4, <2>1, Requestable, AskRefines DEF ImportNext
  <1>5. CASE ImportReturns
    BY <1>0, <1>3, <1>5, ReturnRefines DEF ImportReturns
  <1>6. CASE ImportFails
    BY <1>0, <1>3, <1>6, FailRefines DEF ImportFails
  <1>7. CASE StopCore
    BY <1>0, <1>7, FailRefines DEF StopCore
  <1>8. CASE DropDatabase
    <2>1. \A c \in Calls : at[c] = "resting"
      BY <1>8, AtFacts, RestoringAlone DEF DropDatabase
    <2>2. UNCHANGED <<op, at, result>> /\ rows' \in Memory!Contents
      BY <1>8 DEF DropDatabase, Nothing, Memory!Contents
    <2> QED
      BY <2>1, <2>2, ReplaceRefines
  <1>9. CASE Load
    <2>1. \A c \in Calls : at[c] = "resting"
      BY <1>9, AtFacts, RestoringAlone DEF Load
    <2>2. UNCHANGED <<op, at, result>> /\ rows' \in Memory!Contents
      BY <1>9, LoadedRows DEF Load
    <2> QED
      BY <2>1, <2>2, ReplaceRefines
  <1> QED
    BY <1>1, <1>2, <1>4, <1>5, <1>6, <1>7, <1>8, <1>9
    DEF Next, CallNext, JobNext, vars, StartCore, Migrate, StartAdoption, Stamp, StartImport,
        ImportEnds, StartBackup, Dump, PublishChecksum, PublishArchive, Prune, StartRestore,
        CreateDatabase, MigrateRestored, Restart, ScriptFails

LEMMA RefinesInit == Init => Memory!Init
  BY DEF Init, StoreInit, Memory!Init, NoOperation, Memory!NoOperation,
         NoAnswer, Memory!NoAnswer, Nothing, Memory!Nothing

-----------------------------------------------------------------------------
\* What calls, backups and restores rely on holds at every step of them
\* (memory.py:35-87, backup_postgres.sh:54-99, restore_postgres.sh:89-150).
THEOREM OperationsInvariant == Spec => []OperationsInv
  BY InitInv, InvStep, PTL DEF Spec

\* Every variable keeps its type, for any calls, legacy file and number of backups.
THEOREM OperationsTypeCorrect == Spec => []TypeOK
  <1>1. OperationsInv => TypeOK
    BY DEF OperationsInv
  <1> QED
    BY <1>1, OperationsInvariant, PTL

\* No published archive lacks its checksum, wherever a backup was cut short
\* (backup_postgres.sh:95-99).
THEOREM ArchivesAreChecked == Spec => []VisibleDumpHasChecksum
  <1>1. OperationsInv => VisibleDumpHasChecksum
    BY DEF OperationsInv
  <1> QED
    BY <1>1, OperationsInvariant, PTL

\* What a restore drops is in a published archive, with every write a call had
\* returned for (restore_postgres.sh:94-121).
THEOREM DroppedDataIsSaved == Spec => []DroppedIsSaved
  <1>1. OperationsInv => DroppedIsSaved
    BY DEF OperationsInv
  <1> QED
    BY <1>1, OperationsInvariant, PTL

\* A restore starts Core on the rows of its archive and the current schema only
\* (restore_postgres.sh:89-150).
THEOREM RestoredIsServed == Spec => ServesWhatWasRestored
  <1>1. OperationsInv /\ [Next]_vars
           => [script.at[1] = "restore" /\ core = "stopped" /\ core' = "running"
                  => schema = Latest /\ rows' = files[script.source].dump.rows]_vars
    <2> SUFFICES ASSUME OperationsInv, [Next]_vars,
                        script.at[1] = "restore", core = "stopped", core' = "running"
                 PROVE  schema = Latest /\ rows' = files[script.source].dump.rows
      OBVIOUS
    <2>1. ~StartCore
      BY NoScriptFacts DEF StartCore, Idle
    <2>2. Restart
      BY <2>1
      DEF Next, CallNext, JobNext, vars, opsVars, Request, Statement, CommitCall,
          ReturnCall, CallFails, Migrate, StartAdoption, Stamp, StartImport,
          ImportNext, ImportReturns, ImportEnds, ImportFails, StartBackup, Dump,
          PublishChecksum, PublishArchive, Prune, StartRestore, StopCore, DropDatabase,
          CreateDatabase, Load, MigrateRestored, ScriptFails
    <2>3. script.at[2] = "start" /\ rows' = rows
      BY <2>2, AtFacts DEF Restart, storeVars
    <2> QED
      BY <2>3 DEF OperationsInv, Restoring
  <1> QED
    BY <1>1, OperationsInvariant, PTL DEF Spec, ServesWhatWasRestored

\* The memory API is linearizable, through failures, imports, restores and crashes:
\* every step is one of the atomic memory, or none (memory.py:35-87).
THEOREM MemoryIsLinearizable == Spec => Linearizable
  <1>1. OperationsInv /\ [Next]_vars => [Memory!Next]_(Memory!vars)
    BY RefinesStep
  <1> QED
    BY <1>1, RefinesInit, OperationsInvariant, PTL DEF Spec, Linearizable, Memory!Spec
=============================================================================
