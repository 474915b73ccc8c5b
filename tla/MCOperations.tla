---------------------------- MODULE MCOperations ----------------------------
(***************************************************************************)
(* Instance of Operations for TLC: a legacy file with one entry, one call  *)
(* that writes and one that reads, and both delete.                        *)
(***************************************************************************)
EXTENDS Operations

CONSTANTS k1, v1, c1, c2

Put == [kind |-> "put", key |-> k1, value |-> v1]
DeleteIt == [kind |-> "delete", key |-> k1, value |-> Absent]
List == [kind |-> "list"]

Mix ==
    [c \in Calls |-> CASE c = c1 -> {Put, DeleteIt}
                       [] c = c2 -> {DeleteIt, List}
                       [] OTHER -> {}]

LegacyFile == << <<k1, v1>> >>
=============================================================================
