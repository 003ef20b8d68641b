------------------------------- MODULE MCShard -------------------------------
(***************************************************************************)
(* Shard on small instances: queues of two segments, two vports, frames    *)
(* of two legal lengths and one past the MTU.                              *)
(***************************************************************************)
EXTENDS Shard
==============================================================================
