---------------------------- MODULE MCX4cJournal ----------------------------
(***************************************************************************)
(* X4cJournal with one table, as both shipped programs have, two keys and  *)
(* two actions, and a slack small enough for the log to be rewritten.      *)
(***************************************************************************)
EXTENDS X4cJournal, TLC

Symmetry == Permutations(Keys) \cup Permutations(Actions)
==============================================================================
