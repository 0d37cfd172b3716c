---------------------------- MODULE MCNetworkLinks ----------------------------
(* NetworkLinks with a few tasks and secrets. *)
EXTENDS NetworkLinks
CONSTANT q1

Tasks == 1 .. 7
Ends == {"entry", "backend"}
Outcomes == {"succeeded", "failed"}
Secrets == 1 .. 2

(* Bounds.  A task has one outcome, in which a run cut short is one that   *)
(* fails, and at most one fails that is no verification.                   *)
FewRuns ==
  /\ \A t \in Task : Cardinality(outcomes[t]) <= 1 /\ "killed" \notin outcomes[t]
  /\ Cardinality({t \in Task : outcomes[t] = {"failed"} /\ task[t].action # "verify"}) <= 1

InTurn ==
  \A t \in Task : t <= count /\ result[t] = "none" =>
    /\ \A u \in Task : task[u].of <= task[t].of
    /\ \A q \in Request : call[q] # NoCall => call[q].first = task[t].of

(* Two requests or other tasks, each when nothing else is under way, for a *)
(* link whose nodes send one heartbeat.                                    *)
OneByOne ==
  /\ EasyTier /\ InTurn
  /\ \A e \in End : report[e] \in {NoReport, [status |-> "inactive", ok |-> FALSE]}
  /\ report["backend"] # NoReport => report["entry"] # NoReport
  /\ drawn > 0 => report["backend"] # NoReport
  /\ drawn > 0 => profiles = {1} /\ link.status # "deleted"
  /\ \A t \in Task : task[t].action \in {"cleanup", "restart"} => t = 3

(* Or two tasks, at most, in whatever order; each result comes once. *)
TwoTasks ==
  /\ count <= 2
  /\ count = 0 => \A e, f \in End : report[e] = report[f] \/ (profiles = {1} /\ link.status = "absent")
  /\ drawn = 2 => link.status = "absent" /\ task[1].secret # 2 /\ task[2].secret # 1
  /\ \A t \in Task : outcomes[t] # {"failed"} /\ task[t].action \notin {"cleanup", "restart"}
  /\ link.status = "deleted" => \E q \in Request : step[q] # "idle"

(* Or a link that is applied and verified, and verified again after the    *)
(* service of an end was cleaned up.                                       *)
VerifiedAgain ==
  /\ EasyTier /\ link.status # "deleted" /\ InTurn
  /\ \A t \in Task : t <= count =>
       /\ task[t].action = CASE t <= 2 -> "apply" [] t = 5 -> "cleanup" [] OTHER -> "verify"
       /\ t <= 5 => "failed" \notin outcomes[t]
  /\ \A e \in End : report[e] \in {NoReport, [status |-> "inactive", ok |-> FALSE]}
  /\ drawn <= 1

Few ==
  /\ once /\ FewRuns
  /\ VerifiedAgain \/ (count <= 4 /\ (OneByOne \/ TwoTasks))
=============================================================================
