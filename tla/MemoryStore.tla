---------------------------- MODULE MemoryStore -----------------------------
(***************************************************************************)
(* The memory API over its SQL table: app/api/routes/memories.py and       *)
(* chat.py, app/application/memory_service.py and                          *)
(* app/infrastructure/repositories/memory.py on PostgreSQL.                *)
(*                                                                         *)
(* A call runs one statement and commits it.  The statement locks the row  *)
(* it writes until the transaction ends, and sees what is committed.  The  *)
(* process runs other calls at every await.  Values are not interpreted,   *)
(* and neither is updated_at, which orders the list only.                  *)
(***************************************************************************)
EXTENDS Naturals

CONSTANTS Keys, Values, Absent, Calls

VARIABLES
    rows,     \* committed rows: key -> value, or Absent
    op,       \* the request of each call
    at,       \* where each call is
    result    \* its answer, from its statement to its end

storeVars == <<rows, op, at, result>>

Nothing == [k \in Keys |-> Absent]
NoOperation == [kind |-> "none"]
NoAnswer == <<"none", Nothing>>

\* A statement that is not committed has had no effect yet.
Memory == INSTANCE AtomicMemory WITH
    at <- [c \in Calls |-> IF at[c] = "executed" THEN "asked" ELSE at[c]],
    result <- [c \in Calls |-> IF at[c] = "executed" THEN NoAnswer ELSE result[c]]

StoreTypeOK ==
    /\ rows \in Memory!Contents
    /\ op \in [Calls -> Memory!Operations]
    /\ at \in [Calls -> {"resting", "asked", "executed", "effective"}]
    /\ result \in [Calls -> Memory!Results]

StoreInit ==
    /\ rows \in Memory!Contents
    /\ op = [c \in Calls |-> NoOperation]
    /\ at = [c \in Calls |-> "resting"]
    /\ result = [c \in Calls |-> NoAnswer]

-----------------------------------------------------------------------------
Ask(c, o) ==
    /\ at[c] = "resting"
    /\ at' = [at EXCEPT ![c] = "asked"]
    /\ op' = [op EXCEPT ![c] = o]
    /\ UNCHANGED <<rows, result>>

\* The calls whose transactions hold the row of k, or its index entry.
Holders(k) == {c \in Calls : at[c] = "executed" /\ op[c].key = k}

\* Mutant of MayWrite: a statement that does not wait.
NeverWaits(k) == TRUE

MayWrite(k) == Holders(k) = {}

Executed(c, answer) ==
    /\ at[c] = "asked"
    /\ at' = [at EXCEPT ![c] = IF answer[1] \in {"stored", "removed"} THEN "executed" ELSE "effective"]
    /\ result' = [result EXCEPT ![c] = answer]
    /\ UNCHANGED <<rows, op>>

\* INSERT ... ON CONFLICT DO UPDATE.
Upsert(c) ==
    /\ op[c].kind = "put"
    /\ MayWrite(op[c].key)
    /\ Executed(c, <<"stored", Nothing>>)

\* DELETE sees committed rows, waits for the one it found, and looks again: a row
\* another transaction inserts is not seen and not waited for.
Delete(c) ==
    /\ op[c].kind = "delete"
    /\ \/ rows[op[c].key] = Absent /\ Executed(c, <<"missing", Nothing>>)
       \/ /\ rows[op[c].key] # Absent
          /\ MayWrite(op[c].key)
          /\ Executed(c, <<"removed", Nothing>>)

\* SELECT, for the list or for the prompt of a chat.
ListAll(c) ==
    /\ op[c].kind = "list"
    /\ Executed(c, <<"listed", rows>>)

Commit(c) ==
    /\ at[c] = "executed"
    /\ at' = [at EXCEPT ![c] = "effective"]
    /\ rows' = [rows EXCEPT ![op[c].key] = op[c].value]
    /\ UNCHANGED <<op, result>>

Rest(C) ==
    /\ at' = [c \in Calls |-> IF c \in C THEN "resting" ELSE at[c]]
    /\ op' = [c \in Calls |-> IF c \in C THEN NoOperation ELSE op[c]]
    /\ result' = [c \in Calls |-> IF c \in C THEN NoAnswer ELSE result[c]]
    /\ UNCHANGED rows

\* 200, 204, or 404 for what was missing.
Return(c) == at[c] = "effective" /\ Rest({c})

\* A statement, the commit or its acknowledgement fails, the answer does (a chat
\* asks the AI provider first), or the calls are cancelled: the session rolls
\* back what is not committed.
FailAll(C) == (\A c \in C : at[c] # "resting") /\ Rest(C)

Execute(c) == Upsert(c) \/ Delete(c) \/ ListAll(c)

-----------------------------------------------------------------------------
\* The memory API is linearizable: row locks make the answer a statement gave
\* true at its commit, however calls interleave and fail (memory.py:35-87).
Linearizable == Memory!Spec
=============================================================================
