------------------------------ MODULE MCSeqFlow ------------------------------
(***************************************************************************)
(* SeqFlow on a ring of eight numbers, so that a dozen frames wrap it, and *)
(* a peer may restart with the expectation anywhere on the ring.           *)
(***************************************************************************)
EXTENDS SeqFlow
==============================================================================
