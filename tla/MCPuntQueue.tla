----------------------------- MODULE MCPuntQueue -----------------------------
(***************************************************************************)
(* A ring of three slots of two bytes: six frames of mixed sizes wrap it   *)
(* twice, overwrite longer frames by shorter ones and overflow it.         *)
(***************************************************************************)
EXTENDS PuntQueue
==============================================================================
