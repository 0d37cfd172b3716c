----------------------------- MODULE TaskDelivery -----------------------------
(***************************************************************************)
(* What the task queue promises, with no controller, agent, poll or post   *)
(* in it.  A task is offered once, in a lane; within a lane tasks are run  *)
(* in order, each possibly several times, none before those ahead of it    *)
(* have a result and none again after a later one was begun; a result is   *)
(* the outcome of some run of that task.  Which run's outcome stands, when *)
(* several runs ended differently, is not promised.                        *)
(***************************************************************************)
EXTENDS Naturals

CONSTANTS
  Task,      \* the tasks, numbered in the order of their creation
  Lane,      \* the lanes: one for each node, and each machine on a node
  NoLane,
  Outcome    \* what a run of a task may come to, and "killed" besides

VARIABLES
  lane,      \* the lane a task was offered in, or NoLane
  outcomes,  \* what the runs of a task have come to
  result     \* the outcome on record, or "none"

vars == <<lane, outcomes, result>>

Init ==
  /\ lane = [t \in Task |-> NoLane]
  /\ outcomes = [t \in Task |-> {}]
  /\ result = [t \in Task |-> "none"]

(* The tasks of S are offered together, behind all others of their lane. *)
Offer(S, l) ==
  /\ S # {}
  /\ \A t \in S : lane[t] = NoLane
  /\ \A t \in S, u \in Task : lane[u] = l => u < t
  /\ lane' = [t \in Task |-> IF t \in S THEN l ELSE lane[t]]
  /\ UNCHANGED <<outcomes, result>>

Run(t, o) ==
  /\ lane[t] # NoLane
  /\ \A u \in Task : lane[u] = lane[t] =>
       /\ u < t => result[u] # "none"
       /\ u > t => outcomes[u] = {}
  /\ outcomes' = [outcomes EXCEPT ![t] = @ \cup {o}]
  /\ UNCHANGED <<lane, result>>

Record(t, o) ==
  /\ o \in outcomes[t]
  /\ result' = [result EXCEPT ![t] = o]
  /\ UNCHANGED <<lane, outcomes>>

Next ==
  \/ \E S \in SUBSET Task, l \in Lane : Offer(S, l)
  \/ \E t \in Task, o \in Outcome \cup {"killed"} : Run(t, o)
  \/ \E t \in Task, o \in Outcome : Record(t, o)

Spec == Init /\ [][Next]_vars
=============================================================================
