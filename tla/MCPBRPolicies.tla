---------------------------- MODULE MCPBRPolicies ----------------------------
(* PBRPolicies with two policies, two line groups and up to three tasks. *)
EXTENDS PBRPolicies, TLC
CONSTANTS p1, p2, q1, q2

Tasks == 1 .. 3
Lanes == {"node"}
Outcomes == {"succeeded", "failed", "verified"}
Groups == 1 .. 2
Marks == 1 .. 2
Symmetry == Permutations({q1, q2}) \cup Permutations({p1, p2})

(* Bounds.  Results do not come late, a task has one outcome, in which a   *)
(* run cut short is one that fails, at most one task fails, no PUT         *)
(* switches a policy off, and what a PUT that switches one on does is      *)
(* followed only while it is not shown as disabled.                        *)
FewRuns ==
  /\ inOrder
  /\ \A t \in Task : Cardinality(outcomes[t]) <= 1 /\ "killed" \notin outcomes[t]
  /\ \A t, u \in Task : outcomes[t] = {"failed"} /\ outcomes[u] = {"failed"} => t = u
  /\ \A p \in Policy : enabled[p] <=> status[p] \notin {"absent", "disabled", "deleted"}

(* Two requests that apply and disable without failing, with one line      *)
(* group, or a cleanup of the node once they are handled.                  *)
TwoRequests ==
  /\ count <= 2
  /\ present = Group /\ \A p \in Policy : data[p].group # 2
  /\ \A t \in Task : task[t].action # "verify" /\ outcomes[t] # {"failed"}
  /\ task[1].action # "cleanup"
  /\ task[2].action = "cleanup" => \A q \in Request : step[q] = "idle"
  /\ \A q \in Request : call[q].op # "verify"

(* One request after the other, each when the task of the last has its     *)
(* result, with one policy that changes between two groups, the first of   *)
(* which may be gone between the tasks.                                    *)
OneByOne ==
  LET done == \A t \in Task : t <= count => result[t] # "none"
  IN /\ count <= 2
     /\ \E p \in Policy : status[p] = "absent"
     /\ \A p \in Policy : status[p] = "draft" => \E q \in Request : call[q].op = "create"
     /\ present = Group \/ (present = Group \ {1} /\ count = 1 /\ done)
     /\ \E q \in Request : step[q] = "idle"
     /\ \A t \in Task : task[t].action # "cleanup"
     /\ done \/ \A q \in Request : step[q] \in {"idle", "note"}

(* One policy, applied twice and then verified, by one request after the   *)
(* other.                                                                  *)
AppliedTwice ==
  /\ present = Group
  /\ task[1].action \in {"none", "apply"} /\ task[2].action \in {"none", "apply"}
  /\ task[3].action \in {"none", "verify"}
  /\ \E p \in Policy : status[p] = "absent"
  /\ \E q \in Request : step[q] = "idle"
  /\ (\A t \in Task : t <= count => result[t] # "none")
       \/ \A q \in Request : step[q] \in {"idle", "note"}

FewRequests == FewRuns /\ (TwoRequests \/ OneByOne \/ AppliedTwice)
=============================================================================
