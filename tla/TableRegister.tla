---------------------------- MODULE TableRegister ----------------------------
(***************************************************************************)
(* What the table publication discipline promises a frame (spec S7.3 of    *)
(* the repository): control operations take effect one at a time, each     *)
(* applied to the result of the one before it; a lookup serves some table  *)
(* that the history really contained, one that includes every operation    *)
(* completed before the lookup began; and a shard never goes back to an    *)
(* older table.  Nothing is said about locks, versions or caches.          *)
(***************************************************************************)
EXTENDS Integers, Sequences

CONSTANTS
  Readers,     \* the shards' engines
  Ops,         \* control operations
  Apply(_, _), \* Apply(op, v): the table after op
  InitVal      \* the empty table

VARIABLES
  history,    \* history[i + 1] is the table after i operations
  completed,  \* how many operations have returned to their caller
  joined,     \* the engines that exist
  floor,      \* `completed` when r's lookup in progress began, or Idle
  view        \* how many operations the table r served last includes

regVars == <<history, completed, joined, floor, view>>

Idle == -1

Applied == Len(history) - 1

Init ==
  /\ history = <<InitVal>>
  /\ completed = 0
  /\ joined = {}
  /\ floor = [r \in Readers |-> Idle]
  /\ view = [r \in Readers |-> 0]

(* An operation takes effect; the next one waits until it has completed.   *)
Write(op) ==
  /\ completed = Applied
  /\ history' = Append(history, Apply(op, history[Len(history)]))
  /\ UNCHANGED <<completed, joined, floor, view>>

Complete ==
  /\ completed < Applied
  /\ completed' = Applied
  /\ UNCHANGED <<history, joined, floor, view>>

(* An engine appears, with some table of the history as its first view.    *)
Join(r) ==
  /\ r \notin joined
  /\ joined' = joined \cup {r}
  /\ \E n \in 0 .. Applied : view' = [view EXCEPT ![r] = n]
  /\ UNCHANGED <<history, completed, floor>>

BeginRead(r) ==
  /\ r \in joined
  /\ floor[r] = Idle
  /\ floor' = [floor EXCEPT ![r] = completed]
  /\ UNCHANGED <<history, completed, joined, view>>

EndRead(r) ==
  /\ floor[r] # Idle
  /\ \E n \in 0 .. Applied :
       /\ n >= floor[r]
       /\ n >= view[r]
       /\ view' = [view EXCEPT ![r] = n]
  /\ floor' = [floor EXCEPT ![r] = Idle]
  /\ UNCHANGED <<history, completed, joined>>

Next ==
  \/ \E op \in Ops : Write(op)
  \/ Complete
  \/ \E r \in Readers : Join(r) \/ BeginRead(r) \/ EndRead(r)

Spec == Init /\ [][Next]_regVars
==============================================================================
