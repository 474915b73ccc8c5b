---------------------------- MODULE AtomicMemory ----------------------------
(***************************************************************************)
(* What the memory API promises: every call takes effect at one moment     *)
(* between its start and its end, and its answer is true of that moment.   *)
(* A call that ends with an error may have taken effect or not.  The       *)
(* memory is replaced as a whole only while no call is in progress.        *)
(***************************************************************************)
CONSTANTS
    Keys,     \* pairs of a category and a key
    Values,   \* what is remembered
    Absent,   \* no memory under a key
    Calls     \* calls of the API

VARIABLES
    rows,     \* the memory
    op,       \* what each call asks
    at,       \* "resting", "asked", "effective"
    result    \* its answer, from its effect to its end

vars == <<rows, op, at, result>>

Contents == [Keys -> Values \cup {Absent}]
Nothing == [k \in Keys |-> Absent]

Operations ==
    [kind : {"put"}, key : Keys, value : Values]
        \cup [kind : {"delete"}, key : Keys, value : {Absent}]
        \cup [kind : {"list", "none"}]

NoOperation == [kind |-> "none"]
NoAnswer == <<"none", Nothing>>

\* A word and what was read.
Results ==
    {"none", "stored", "removed", "missing"} \X {Nothing}
        \cup {"listed"} \X Contents

Init ==
    /\ rows \in Contents
    /\ op = [c \in Calls |-> NoOperation]
    /\ at = [c \in Calls |-> "resting"]
    /\ result = [c \in Calls |-> NoAnswer]

\* The answer to o if it takes effect on r.
Answer(o, r) ==
    CASE o.kind = "put" -> <<"stored", Nothing>>
      [] o.kind = "delete" ->
            <<IF r[o.key] = Absent THEN "missing" ELSE "removed", Nothing>>
      [] o.kind = "list" -> <<"listed", r>>

After(o, r) == IF o.kind = "list" THEN r ELSE [r EXCEPT ![o.key] = o.value]

\* The calls of C end.
Rest(C) ==
    /\ at' = [c \in Calls |-> IF c \in C THEN "resting" ELSE at[c]]
    /\ op' = [c \in Calls |-> IF c \in C THEN NoOperation ELSE op[c]]
    /\ result' = [c \in Calls |-> IF c \in C THEN NoAnswer ELSE result[c]]
    /\ UNCHANGED rows

Ask(c, o) ==
    /\ at[c] = "resting"
    /\ at' = [at EXCEPT ![c] = "asked"]
    /\ op' = [op EXCEPT ![c] = o]
    /\ UNCHANGED <<rows, result>>

Effect(c) ==
    /\ at[c] = "asked"
    /\ at' = [at EXCEPT ![c] = "effective"]
    /\ rows' = After(op[c], rows)
    /\ result' = [result EXCEPT ![c] = Answer(op[c], rows)]
    /\ UNCHANGED op

Return(c) ==
    /\ at[c] = "effective"
    /\ Rest({c})

\* Any set of calls fails, each before or after its effect.
Fail(C) ==
    /\ \A c \in C : at[c] # "resting"
    /\ Rest(C)

Replace ==
    /\ \A c \in Calls : at[c] = "resting"
    /\ rows' \in Contents
    /\ UNCHANGED <<op, at, result>>

Next ==
    \/ \E c \in Calls : \/ \E o \in Operations \ {NoOperation} : Ask(c, o)
                        \/ Effect(c) \/ Return(c)
    \/ \E C \in SUBSET Calls : Fail(C)
    \/ Replace

Spec == Init /\ [][Next]_vars
=============================================================================
