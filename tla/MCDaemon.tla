------------------------------ MODULE MCDaemon ------------------------------
(***************************************************************************)
(* Daemon on a small instance: one shard, two clients.                     *)
(***************************************************************************)
EXTENDS Daemon
=============================================================================
