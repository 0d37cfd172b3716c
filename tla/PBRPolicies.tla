------------------------------ MODULE PBRPolicies ------------------------------
(***************************************************************************)
(* The policy routes of one landing node: the panel's policies, the        *)
(* requests being handled, each of whose steps takes the store's lock for  *)
(* itself, the tasks they create, and what the results make of a policy.   *)
(* Tasks travel as TaskDelivery promises; the node's tasks are one lane.   *)
(***************************************************************************)
EXTENDS TaskDelivery, PBRHost

CONSTANTS
  Request,   \* slots for operator requests being handled at a time
  NoPolicy

NoData == [mark |-> NoMark, table |-> 0, group |-> NoGroup]

(* "verified" is a verify task that succeeds and says so in its result. *)
ASSUME TaskAssumption == Task \subseteq Nat \ {0}
ASSUME PolicyAssumption == NoPolicy \notin Policy
ASSUME LaneAssumption == Lane = {"node"} /\ NoLane # "node"
ASSUME OutcomeAssumption == Outcome = {"succeeded", "failed", "verified"}

VARIABLES
  count,     \* number of tasks created
  task,      \* what each task does, for which policy, and the payload's data
  status,    \* PBRPolicy.Status, "absent" before it exists
  enabled,   \* PBRPolicy.Enabled
  data,      \* its mark and routing table
  call,      \* the operation each request is to do, its policy as it was read
  step,      \* and how far it has come
  inOrder    \* history: results were processed in the order of the tasks

policies == <<status, enabled, data>>
handlers == <<call, step>>
pbrVars == <<vars, hostVars, count, task, policies, handlers, inOrder>>

Action == {"apply", "verify", "disable"}
Step == {"idle", "check", "undo", "create", "note"}
Status == {"absent", "draft", "applying", "applied", "verified", "failed", "disabled", "deleted"}
NoTask == [action |-> "none", policy |-> NoPolicy, data |-> NoData]
Cleanup == [action |-> "cleanup", policy |-> NoPolicy, data |-> NoData]
NoCall == [op |-> "none", policy |-> NoPolicy, data |-> NoData]

TypeOK ==
  /\ HostTypeOK
  /\ count \in Task \cup {0}
  /\ task \in [Task -> [action : Action, policy : Policy, data : Data] \cup {NoTask, Cleanup}]
  /\ status \in [Policy -> Status]
  /\ enabled \in [Policy -> BOOLEAN]
  /\ data \in [Policy -> Data \cup {NoData}]
  /\ call \in [Request -> [op : Action \cup {"create"}, policy : Policy, data : Data] \cup {NoCall}]
  /\ step \in [Request -> Step]
  /\ inOrder \in BOOLEAN

PBRInit ==
  /\ Init /\ HostInit
  /\ count = 0 /\ task = [t \in Task |-> NoTask]
  /\ status = [p \in Policy |-> "absent"]
  /\ enabled = [p \in Policy |-> FALSE]
  /\ data = [p \in Policy |-> NoData]
  /\ call = [q \in Request |-> NoCall] /\ step = [q \in Request |-> "idle"]
  /\ inOrder = TRUE

Exists(p) == status[p] \notin {"absent", "deleted"}

-----------------------------------------------------------------------------
(* The handlers. *)

(* nextPBRNumberLocked and nextPBRMarkLocked: the first that no policy of  *)
(* the list has.  What a deleted policy had is given out again.            *)
FreeMark(m) ==
  LET used == {data[p].mark : p \in {x \in Policy : Exists(x)}}
  IN m \in Mark \ used /\ \A n \in Mark \ used : m <= n

(* pbrPolicyFromRequestLocked: the request names one of the groups that    *)
(* were detected, and leaves mark and priority to the panel.               *)
CreatePBRPolicy(p, g, m) ==
  /\ status[p] = "absent" /\ g \in present /\ FreeMark(m)
  /\ status' = [status EXCEPT ![p] = "draft"]
  /\ enabled' = [enabled EXCEPT ![p] = TRUE]
  /\ data' = [data EXCEPT ![p] = [mark |-> m, table |-> DetectedTable(g), group |-> g]]

Create(p, g, m) ==
  /\ CreatePBRPolicy(p, g, m)
  /\ UNCHANGED <<vars, hostVars, count, task, handlers, inOrder>>

(* deletePBRPolicy takes the policy off the list; its host is not told.    *)
Forget(p) ==
  /\ status' = [status EXCEPT ![p] = "deleted"]
  /\ enabled' = [enabled EXCEPT ![p] = FALSE]
  /\ data' = [data EXCEPT ![p] = NoData]

(* POST .../create-and-apply creates the policy, looks for another active  *)
(* one, and deletes the new one again if there is any.                     *)
CreateAndApply(q, p, g, m) ==
  /\ step[q] = "idle"
  /\ CreatePBRPolicy(p, g, m)
  /\ call' = [call EXCEPT ![q] = [op |-> "create", policy |-> p, data |-> data'[p]]]
  /\ step' = [step EXCEPT ![q] = "check"]
  /\ UNCHANGED <<vars, hostVars, count, task, inOrder>>

(* POST .../apply, verify and disable read the policy with getPBRPolicy. *)
Begin(q, op, p) ==
  /\ step[q] = "idle" /\ Exists(p)
  /\ call' = [call EXCEPT ![q] = [op |-> op, policy |-> p, data |-> data[p]]]
  /\ step' = [step EXCEPT ![q] = IF op = "apply" THEN "check" ELSE "create"]
  /\ UNCHANGED <<vars, hostVars, count, task, policies, inOrder>>

HasActivePBRPolicy(except) ==
  \E p \in Policy \ {except} :
    enabled[p] /\ status[p] \in {"applying", "applied", "verified"}

CheckActive(q) ==
  /\ step[q] = "check"
  /\ LET active == HasActivePBRPolicy(call[q].policy)
         refused == IF call[q].op = "create" THEN "undo" ELSE "idle"
     IN /\ step' = [step EXCEPT ![q] = IF active THEN refused ELSE "create"]
        /\ call' = [call EXCEPT ![q] = IF active /\ refused = "idle" THEN NoCall ELSE @]
  /\ UNCHANGED <<vars, hostVars, count, task, policies, inOrder>>

UndoCreate(q) ==
  /\ step[q] = "undo"
  /\ Forget(call[q].policy)
  /\ step' = [step EXCEPT ![q] = "idle"] /\ call' = [call EXCEPT ![q] = NoCall]
  /\ UNCHANGED <<vars, hostVars, count, task, inOrder>>

(* The task carries the policy as it was read, whatever it is by now. *)
CreateTask(q) ==
  /\ step[q] = "create"
  /\ count + 1 \in Task
  /\ count' = count + 1
  /\ task' = [task EXCEPT ![count + 1] =
                [action |-> IF call[q].op = "create" THEN "apply" ELSE call[q].op,
                 policy |-> call[q].policy, data |-> call[q].data]]
  /\ Offer({count + 1}, "node")
  /\ step' = [step EXCEPT ![q] = "note"]
  /\ UNCHANGED <<hostVars, policies, call, inOrder>>

(* updatePBRTask, by when the task may have its result already. *)
Mutant_NotesApplied(q) ==
  IF call[q].op = "verify" \/ ~ Exists(call[q].policy) THEN status
  ELSE [status EXCEPT ![call[q].policy] = IF call[q].op = "disable" THEN "applying" ELSE "applied"]
Noted(q) ==
  IF call[q].op = "verify" \/ ~ Exists(call[q].policy) THEN status
  ELSE [status EXCEPT ![call[q].policy] = "applying"]

UpdatePBRTask(q) ==
  /\ step[q] = "note"
  /\ status' = Noted(q)
  /\ step' = [step EXCEPT ![q] = "idle"] /\ call' = [call EXCEPT ![q] = NoCall]
  /\ UNCHANGED <<vars, hostVars, count, task, enabled, data, inOrder>>

(* PUT changes the group and the switch, and keeps mark and status. *)
UpdatePBRPolicy(p, g, on) ==
  /\ Exists(p) /\ g \in present
  /\ enabled' = [enabled EXCEPT ![p] = on]
  /\ data' = [data EXCEPT ![p] = [mark |-> @.mark, table |-> DetectedTable(g), group |-> g]]
  /\ UNCHANGED <<vars, hostVars, count, task, status, handlers, inOrder>>

DeletePBRPolicy(p) ==
  /\ Exists(p)
  /\ Forget(p)
  /\ UNCHANGED <<vars, hostVars, count, task, handlers, inOrder>>

(* DELETE .../nodes/{id}?mode=clean_deployed has the agent clean its host. *)
CleanUpNode ==
  /\ count + 1 \in Task
  /\ count' = count + 1
  /\ task' = [task EXCEPT ![count + 1] = Cleanup]
  /\ Offer({count + 1}, "node")
  /\ UNCHANGED <<hostVars, policies, handlers, inOrder>>

-----------------------------------------------------------------------------
(* The agent. *)
RunApply(t, o) ==
  /\ task[t].action = "apply" /\ o # "verified"
  /\ \E done \in 0 .. MarksLoaded :
       /\ o = "succeeded" => done = MarksLoaded
       /\ o = "failed" => done < MarksLoaded
       /\ ApplyPBRPolicy(task[t].policy, task[t].data, done)

RunDisable(t, o) ==
  /\ task[t].action = "disable" /\ o # "verified"
  /\ IF o = "failed" THEN UNCHANGED hostVars ELSE DisablePBRPolicy(task[t].data)

RunVerify(t, o) ==
  /\ task[t].action = "verify"
  /\ o = "verified" => LooksVerified(task[t].data)
  /\ UNCHANGED hostVars

RunCleanup(t, o) ==
  /\ task[t].action = "cleanup" /\ o # "verified"
  /\ IF o = "failed" THEN UNCHANGED hostVars ELSE CleanupPBRRules

RunTask(t, o) ==
  /\ Run(t, o)
  /\ RunApply(t, o) \/ RunDisable(t, o) \/ RunVerify(t, o) \/ RunCleanup(t, o)
  /\ UNCHANGED <<count, task, policies, handlers, inOrder>>

(* The host's addresses change. *)
HostStep(g) ==
  /\ AddressesChange(g)
  /\ UNCHANGED <<vars, count, task, policies, handlers, inOrder>>

-----------------------------------------------------------------------------
(* The results: updatePBRStatusForTaskLocked. *)
Mutant_StatusOfTask(t, o) == IF task[t].action = "disable" THEN "disabled" ELSE o
StatusAfter(t, o) ==
  CASE task[t].action = "apply" -> IF o = "succeeded" THEN "applied" ELSE "failed"
    [] task[t].action = "verify" -> IF o = "verified" THEN "verified" ELSE "failed"
    [] OTHER -> IF o = "succeeded" THEN "disabled" ELSE "failed"

UpdatePBRStatus(t, o) ==
  /\ Record(t, o)
  /\ LET p == task[t].policy IN
     IF task[t].action # "cleanup" /\ Exists(p)
     THEN /\ status' = [status EXCEPT ![p] = StatusAfter(t, o)]
          /\ enabled' = [enabled EXCEPT ![p] = @ /\ StatusAfter(t, o) # "disabled"]
     ELSE UNCHANGED <<status, enabled>>
  /\ inOrder' = (inOrder /\ \A u \in Task : u > t => result[u] = "none")
  /\ UNCHANGED <<hostVars, count, task, data, handlers>>

PBRNext ==
  \/ \E p \in Policy, g \in Group, m \in Mark : Create(p, g, m)
  \/ \E q \in Request, p \in Policy, g \in Group, m \in Mark : CreateAndApply(q, p, g, m)
  \/ \E q \in Request, op \in Action, p \in Policy : Begin(q, op, p)
  \/ \E q \in Request : CheckActive(q)
  \/ \E q \in Request : UndoCreate(q)
  \/ \E q \in Request : CreateTask(q)
  \/ \E q \in Request : UpdatePBRTask(q)
  \/ \E p \in Policy, g \in Group, on \in BOOLEAN : UpdatePBRPolicy(p, g, on)
  \/ \E p \in Policy : DeletePBRPolicy(p)
  \/ \E t \in Task, o \in Outcome \cup {"killed"} : RunTask(t, o)
  \/ CleanUpNode
  \/ \E g \in Group : HostStep(g)
  \/ \E t \in Task, o \in Outcome : UpdatePBRStatus(t, o)

PBRSpec == PBRInit /\ [][PBRNext]_pbrVars

-----------------------------------------------------------------------------
(* A policy is called applied or verified only after an apply of it, or a  *)
(* verification, succeeded, whatever other requests wrote meanwhile.       *)
AppliedIsEarned ==
  \A p \in Policy : status[p] \in {"applied", "verified"} =>
    \E t \in Task : task[t].policy = p /\ task[t].action \in {"apply", "verify"}
                    /\ outcomes[t] \cap {"succeeded", "verified"} # {}

(* t is an apply task whose one outcome is on record, and the host has     *)
(* begun nothing but verifications since.                                  *)
LastApply(t) ==
  /\ task[t].action = "apply" /\ outcomes[t] = {result[t]}
  /\ \A u \in Task : u > t /\ outcomes[u] # {} => task[u].action = "verify"

(* It succeeded, or its policy is shown as applied and no result was late. *)
TakenForApplied(t) ==
  \/ result[t] = "succeeded"
  \/ inOrder /\ status[task[t].policy] = "applied"

(* The policy applied last, when the result or the panel says that it is   *)
(* applied, is whole on the host, however many applies of it or of others  *)
(* were cut short before, and whatever was asked for since: its mark is    *)
(* set, the rule for the mark is there, and the rule's table leads to the  *)
(* policy's group.  (A policy shown as verified may be less than whole: a  *)
(* verification takes the rule and the name of an earlier apply for those  *)
(* of one that failed.)                                                    *)
AppliedWorks ==
  \A t \in Task : LastApply(t) /\ TakenForApplied(t) =>
    LET d == task[t].data
    IN marked = d.mark /\ <<d.mark, d.table>> \in rules /\ routes[d.table] = d.group

(* docs/topology.md:25: the traffic that a policy marks leaves by the      *)
(* routing table of its line group, and by no other.                       *)
MarkedTakesItsLine ==
  \A t \in Task : LastApply(t) /\ TakenForApplied(t) =>
    \A r \in rules : r[1] = marked => routes[r[2]] = task[t].data.group
=============================================================================
