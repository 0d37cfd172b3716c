--------------------------- MODULE MCForwardStages ---------------------------
(* ForwardStages with one or two requests handled at a time. *)
EXTENDS ForwardStages, FiniteSets, TLC
CONSTANTS q1, q2, a, b, r1, r2

Tasks == 1 .. 4
Outcomes == {"succeeded", "failed"}
There == {[entry |-> a, landing |-> b]}
ThereAndBack == {[entry |-> a, landing |-> b], [entry |-> b, landing |-> a]}

(* One task of each kind that counts for something else than its table, or *)
(* for no stage.                                                           *)
Made(op, on, s, r) == [op |-> op, on |-> on, stage |-> s, rule |-> r]
Payloads ==
  {Made("apply", "single", "", r1), Made("apply", "single", "landing", r1),
   Made("apply", "landing", "entry", r1),
   Made("disable", "entry", "landing", NoRule), Made("verify", "single", "", NoRule)}
Requests == Permutations({q1, q2})

(* Bounds.  What comes after a deletion is followed with two tasks, the    *)
(* first of which may run, for the forward is gone then; what comes after  *)
(* a PUT that switches the forward off is not: no property looks at that.  *)
(* A run cut short leaves the host as one that fails.  Where no task is to *)
(* apply, nothing comes to be there.                                       *)
Failed == {t \in Task : "failed" \in outcomes[t]}
Known ==
  /\ enabled \/ status = "disabled"
  /\ status = "deleted" => count <= 2 /\ {t \in Task : outcomes[t] # {}} \subseteq {1}
  /\ count >= 3 => \E t \in Task : task[t].op = "apply"

(* Each task has one outcome, and its result does not come late.  One task *)
(* of three fails at most, and of four none.                               *)
Orderly ==
  /\ Known /\ inOrder
  /\ \A t \in Task : outcomes[t] \in {{}, {"succeeded"}, {"failed"}}
  /\ Cardinality(Failed) <= 1
  /\ count = 4 => Failed = {}

(* Results come late and twice, and one of two tasks has two outcomes,     *)
(* while one request is handled at a time.                                 *)
Single == \E q \in Request : call[q] = "none"
Retried ==
  /\ count <= 2 /\ Known /\ Single
  /\ \A t \in Task : "killed" \notin outcomes[t]
  /\ Cardinality({t \in Task : Cardinality(outcomes[t]) = 2}) <= 1

(* The forward is what all its tasks and requests take it for, and no      *)
(* operator has created a task that a handler would not.                   *)
Usual(k) == k.op # "none" => k.on = k.stage
Stays ==
  /\ rule = r1
  /\ \A t \in Task : /\ Usual(task[t]) /\ task[t].rule \in {rule, NoRule}
                    /\ (lane[t] # NoLane => lane[t] = link[task[t].on])
  /\ \A q \in Request : call[q] # "none" => node[q] = link /\ told[q] \in {rule, NoRule}

(* Two such requests at a time are followed up to four tasks when none was *)
(* given up half-way; one at a time up to three tasks.                     *)
Whole ==
  \/ Single /\ count <= 3
  \/ Cardinality({q \in Request : step[q] = "landing"}) % 2 = count % 2

(* Where a PUT has changed the forward under its tasks or requests, or an  *)
(* operator has created a task that no handler would, one request at a     *)
(* time is followed: with any two tasks, and with a third when the first   *)
(* has been answered and all succeed, then with PUTs or with one such      *)
(* task.                                                                   *)
Changed ==
  /\ Single /\ Orderly
  /\ \/ count <= 2
     \/ /\ count = 3 /\ result[1] = "succeeded" /\ Failed = {}
        /\ \/ \A t \in Task : Usual(task[t])
           \/ rule = r1 /\ Cardinality({t \in Task : ~ Usual(task[t])}) = 1

(* A PUT changes link and rule together. *)
Followed ==
  /\ rule = r1 <=> link["entry"] = a
  /\ (Stays /\ Whole /\ (Orderly \/ Retried)) \/ Changed

(* Requests are given up with one task at most, and operators create tasks *)
(* while no request is being handled.                                      *)
GivenUp(q) == call[q] # "none" /\ call'[q] = "none" /\ step[q] # "note landing" /\ ~ MarkVerify(q)
Alone ==
  /\ (count' # count /\ step' = step => \A q \in Request : call[q] = "none")
  /\ (\E q \in Request : GivenUp(q)) =>
       count <= 1 /\ \A q \in Request : call[q] = "none" \/ call'[q] = "none"

(* Every request is handled to its end, and all tasks are the handlers'.   *)
Planned == (\A q \in Request : ~ GivenUp(q)) /\ (count' # count => step' # step)
=============================================================================
