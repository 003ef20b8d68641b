--------------------------- MODULE MCTablePublish ---------------------------
(***************************************************************************)
(* TablePublish on a table with two keys: an entry can be added or         *)
(* removed, so that operations do not commute and a lost one shows.        *)
(***************************************************************************)
EXTENDS TablePublish, FiniteSets, TLC

CONSTANTS Keys

MCValues == SUBSET Keys
MCOps == [kind : {"add", "remove"}, key : Keys]
MCApply(op, v) == IF op.kind = "add" THEN v \cup {op.key} ELSE v \ {op.key}
MCInitVal == {}
==============================================================================
