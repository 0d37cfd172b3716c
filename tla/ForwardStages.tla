----------------------------- MODULE ForwardStages -----------------------------
(***************************************************************************)
(* One forward: a rule on its entry node and one on its landing node.  The *)
(* v1 handlers for apply, disable and verify create a task for each stage  *)
(* and note them on the forward afterwards; each of these steps takes the  *)
(* store's lock for itself, so agents may fetch, run and answer the first  *)
(* task before the handler is done, and a PUT may come in between.         *)
(* Operators may also create such tasks one by one, for any node and with  *)
(* any payload: POST /api/v1/tasks.                                        *)
(*                                                                         *)
(* Tasks travel as TaskDelivery promises (TaskQueue implements it), with a *)
(* lane for each node.  A host keeps one nft table a stage, and one of the *)
(* older action apply_forward_config.  That reboots, cleanups and other    *)
(* forwards take such tables away, of which the panel learns nothing, is   *)
(* the matter of HostForwards.                                             *)
(***************************************************************************)
EXTENDS TaskDelivery

CONSTANTS
  Request,   \* slots for operator requests being handled at the same time
  Link,      \* the network links: the nodes of the two stages
  Rule,      \* what a forward does: its ports, its protocol and its landing host
  NoRule,
  Given      \* the tasks that operators create themselves

Stage == {"entry", "landing"}
Table == Stage \cup {"single"}

(* A task is to apply, disable or verify a table, and its payload may name *)
(* a stage, which for the panel counts besides the action.  A verify task  *)
(* has no table in its action: the agent takes that of the stage.          *)
Kind ==
  [op : {"apply"}, on : Table, stage : Stage \cup {""}, rule : Rule]
  \cup [op : {"disable"}, on : Stage, stage : Stage \cup {""}, rule : {NoRule}]
  \cup {[op |-> "verify", on |-> s, stage |-> s, rule |-> NoRule] : s \in Stage}
  \cup {[op |-> "verify", on |-> "single", stage |-> "", rule |-> NoRule]}

ASSUME TaskAssumption == Task \subseteq Nat \ {0}
ASSUME LaneAssumption == NoLane \notin Lane
ASSUME LinkAssumption == Link \subseteq [Stage -> Lane]
ASSUME RuleAssumption == NoRule \notin Rule
ASSUME OutcomeAssumption == Outcome = {"succeeded", "failed"}
ASSUME GivenAssumption == Given \subseteq Kind

VARIABLES
  count,     \* number of tasks created
  task,      \* Action and Payload of each task
  status,    \* Forward.Status
  stage,     \* EntryStageStatus and LandingStageStatus
  enabled,   \* Forward.Enabled
  link,      \* EntryNodeID and LandingNodeID
  rule,      \* the rest of the forward
  call,      \* what each request being handled is to do
  step,      \* how far it has come
  seen,      \* the status a verify request read when it began
  node,      \* the nodes a request read when it began
  told,      \* the rule an apply request has read
  tables,    \* the nft tables of the hosts, with the rule that each was made from
  latest,    \* history: the outcome of the last run of each task
  inOrder    \* history: results were processed in the order of the runs

forward == <<status, stage, enabled, link, rule>>
handlers == <<call, step, seen, node, told>>
fwVars == <<vars, count, task, forward, handlers, tables, latest, inOrder>>

Op == {"apply", "disable", "verify"}
Step == {"idle", "resolve", "entry", "landing", "note entry", "note landing"}
Status == {"draft", "applying", "applied", "failed", "disabled", "verified", "deleted"}
StageStatus == {"", "pending", "succeeded", "failed", "disabled"}

Unmade == [op |-> "none", on |-> "single", stage |-> "", rule |-> NoRule]
Nowhere == [s \in Stage |-> NoLane]

DataTypeOK ==
  /\ count \in Task \cup {0}
  /\ task \in [Task -> Kind \cup {Unmade}]
  /\ status \in Status
  /\ stage \in [Stage -> StageStatus]
  /\ link \in Link /\ rule \in Rule
  /\ call \in [Request -> Op \cup {"none"}]
  /\ step \in [Request -> Step]
  /\ seen \in [Request -> Status]
  /\ node \in [Request -> Link \cup {Nowhere}]
  /\ told \in [Request -> Rule \cup {NoRule}]
  /\ tables \in [Lane \X Table -> Rule \cup {NoRule}]
  /\ latest \in [Task -> Outcome \cup {"killed", "none"}]

TypeOK == DataTypeOK /\ enabled \in BOOLEAN /\ inOrder \in BOOLEAN

FwInit ==
  /\ Init
  /\ count = 0
  /\ task = [t \in Task |-> Unmade]
  /\ status = "draft" /\ stage = [s \in Stage |-> ""] /\ enabled = TRUE
  /\ link \in Link /\ rule \in Rule
  /\ call = [q \in Request |-> "none"] /\ step = [q \in Request |-> "idle"]
  /\ seen = [q \in Request |-> "draft"]
  /\ node = [q \in Request |-> Nowhere] /\ told = [q \in Request |-> NoRule]
  /\ tables = [h \in Lane \X Table |-> NoRule]
  /\ latest = [t \in Task |-> "none"]
  /\ inOrder = TRUE

-----------------------------------------------------------------------------
(* The handlers. *)

(* A request finds the forward: getForward.  Its tasks go to the nodes     *)
(* read here.                                                              *)
Begin(q, op) ==
  /\ status # "deleted" /\ call[q] = "none"
  /\ call' = [call EXCEPT ![q] = op]
  /\ step' = [step EXCEPT ![q] = IF op = "apply" THEN "resolve" ELSE "entry"]
  /\ node' = [node EXCEPT ![q] = link]
  /\ told' = IF op = "apply" THEN [told EXCEPT ![q] = rule] ELSE told
  /\ seen' = IF op = "verify" THEN [seen EXCEPT ![q] = status] ELSE seen
  /\ UNCHANGED <<vars, count, task, forward, tables, latest, inOrder>>

(* An apply notes the address of the landing node it has read, and goes on *)
(* with the forward as it is now, but for its nodes; if the forward was    *)
(* deleted in the meantime, with the forward as it was.                    *)
ResolveTarget(q) ==
  /\ call[q] = "apply" /\ step[q] = "resolve"
  /\ told' = IF status = "deleted" THEN told ELSE [told EXCEPT ![q] = rule]
  /\ step' = [step EXCEPT ![q] = "entry"]
  /\ UNCHANGED <<vars, count, task, forward, call, seen, node, tables, latest, inOrder>>

CreateTask(k, l) ==
  /\ count + 1 \in Task
  /\ count' = count + 1
  /\ task' = [task EXCEPT ![count + 1] = k]
  /\ Offer({count + 1}, l)

(* createTask, first for the entry and then for the landing stage. *)
CreateStageTask(q) ==
  /\ call[q] # "none" /\ step[q] \in Stage
  /\ CreateTask([op |-> call[q], on |-> step[q], stage |-> step[q], rule |-> told[q]],
                node[q][step[q]])
  /\ step' = [step EXCEPT ![q] = IF @ = "entry" THEN "landing" ELSE "note entry"]
  /\ UNCHANGED <<forward, call, seen, node, told, tables, latest, inOrder>>

End(q) ==
  /\ call' = [call EXCEPT ![q] = "none"] /\ step' = [step EXCEPT ![q] = "idle"]
  /\ seen' = [seen EXCEPT ![q] = "draft"]
  /\ node' = [node EXCEPT ![q] = Nowhere] /\ told' = [told EXCEPT ![q] = NoRule]

(* Then, for apply and disable, updateForwardTask notes the two tasks,     *)
(* by when they may have their results already.  A forward deleted in the  *)
(* meantime is not found and stays as it is.                               *)
MarkStage(q) ==
  /\ call[q] \in {"apply", "disable"} /\ step[q] \in {"note entry", "note landing"}
  /\ IF status = "deleted" THEN UNCHANGED <<stage, status>>
     ELSE /\ stage' = [stage EXCEPT ![IF step[q] = "note entry" THEN "entry" ELSE "landing"] = "pending"]
          /\ status' = "applying"
  /\ IF step[q] = "note entry"
     THEN step' = [step EXCEPT ![q] = "note landing"] /\ UNCHANGED <<call, seen, node, told>>
     ELSE End(q)
  /\ UNCHANGED <<vars, count, task, enabled, link, rule, tables, latest, inOrder>>

(* A verify request writes back the status that it read at first.          *)
MarkVerify(q) ==
  /\ call[q] = "verify" /\ step[q] = "note entry"
  /\ status' = IF status = "deleted" THEN status ELSE seen[q]
  /\ End(q)
  /\ UNCHANGED <<vars, count, task, stage, enabled, link, rule, tables, latest, inOrder>>

(* PUT gives the forward another link, and so other nodes, another rule,   *)
(* and keeps what is known of its status and of its stages.                *)
UpdateForward(l, r, on) ==
  /\ status # "deleted"
  /\ link' = l /\ rule' = r /\ enabled' = on
  /\ UNCHANGED <<vars, count, task, status, stage, handlers, tables, latest, inOrder>>

DeleteForward ==
  /\ status # "deleted"
  /\ status' = "deleted"
  /\ UNCHANGED <<vars, count, task, stage, enabled, link, rule, handlers, tables, latest, inOrder>>

(* POST /api/v1/tasks with the forward's id in the payload. *)
GenericTask(k, l) ==
  /\ CreateTask(k, l)
  /\ UNCHANGED <<forward, handlers, tables, latest, inOrder>>

(* A request ends at any step: a node, the link or the address of the      *)
(* landing node is not there, or a save failed.                            *)
Abandon(q) ==
  /\ call[q] # "none"
  /\ End(q)
  /\ UNCHANGED <<vars, count, task, forward, tables, latest, inOrder>>

-----------------------------------------------------------------------------
(* The agents. *)

(* What a run may leave of its table.  An apply deletes the table before   *)
(* it loads the new one, and may fail before, between and after; disabling *)
(* reports success even if nft would not delete the table, and fails only  *)
(* when the agent refuses write actions.                                   *)
TablesAfter(t, o) ==
  LET Loaded(r) == [tables EXCEPT ![<<lane[t], task[t].on>>] = r]
  IN CASE task[t].op = "apply" ->
            {Loaded(task[t].rule)} \cup (IF o = "succeeded" THEN {} ELSE {tables, Loaded(NoRule)})
       [] task[t].op = "disable" ->
            {tables} \cup (IF o = "failed" THEN {} ELSE {Loaded(NoRule)})
       [] OTHER -> {tables}

(* A verification succeeds when nft lists the table, whatever is in it. *)
RunStage(t, o) ==
  /\ Run(t, o)
  /\ task[t].op = "verify" /\ o = "succeeded" => tables[<<lane[t], task[t].on>>] # NoRule
  /\ tables' \in TablesAfter(t, o)
  /\ latest' = [latest EXCEPT ![t] = o]
  /\ UNCHANGED <<count, task, forward, handlers, inOrder>>

-----------------------------------------------------------------------------
(* The results: updateForwardStatusForTaskLocked. *)

(* The stages that a result is about, by its task's action and payload.  A *)
(* verify task that carries a stage is taken for an apply of that stage.   *)
Concerned(k) ==
  IF k.op # "disable" /\ "entry" \in {k.on, k.stage} THEN {"entry"} ELSE {k.on, k.stage} \cap Stage

(* Some apply_forward_config or verify tasks are about no stage.           *)
AppliesBoth(k) == k.op = "apply" /\ Concerned(k) = {}
VerifiesForward(k) == k.op = "verify" /\ Concerned(k) = {}

(* The result of a disable task is not looked at. *)
Mutant_StageOfResult(t, o) ==
  [s \in Stage |-> IF s \in Concerned(task[t]) THEN o ELSE stage[s]]
StageAfter(t, o) ==
  IF AppliesBoth(task[t]) /\ o = "succeeded" THEN [s \in Stage |-> "succeeded"]
  ELSE [s \in Stage |-> IF s \notin Concerned(task[t]) THEN stage[s]
                        ELSE IF task[t].op = "disable" THEN "disabled" ELSE o]

Mutant_AppliedByOne(t, o) == IF task[t].op = "apply" /\ o = "succeeded" THEN "applied" ELSE status
Mutant_StatusOfTask(t, o) == IF task[t].op = "verify" THEN o ELSE status
StatusAfter(t, o) ==
  LET now == StageAfter(t, o) IN
  CASE task[t].op = "apply" /\ task[t].on \in Stage ->
         IF \A s \in Stage : now[s] = "succeeded" THEN "applied"
         ELSE IF \E s \in Stage : now[s] = "failed" THEN "failed" ELSE "applying"
    [] AppliesBoth(task[t]) -> IF o = "succeeded" THEN "applied" ELSE "failed"
    [] VerifiesForward(task[t]) -> IF o = "succeeded" THEN "verified" ELSE "failed"
    [] task[t].op = "disable" /\ (\A s \in Stage : now[s] = "disabled") -> "disabled"
    [] OTHER -> status

UpdateForwardStatus(t, o) ==
  /\ Record(t, o)
  /\ IF status = "deleted" THEN UNCHANGED <<stage, status, enabled>>
     ELSE /\ stage' = StageAfter(t, o)
          /\ status' = StatusAfter(t, o)
          /\ enabled' = (enabled /\ ~ (task[t].op = "disable" /\ StatusAfter(t, o) = "disabled"))
  /\ inOrder' = (inOrder /\ o = latest[t]
                 /\ \A u \in Task : u > t /\ lane[u] = lane[t] => result[u] = "none")
  /\ UNCHANGED <<count, task, link, rule, handlers, tables, latest>>

FwNext ==
  \/ \E q \in Request, op \in Op : Begin(q, op)
  \/ \E q \in Request : ResolveTarget(q)
  \/ \E q \in Request : CreateStageTask(q)
  \/ \E q \in Request : MarkStage(q)
  \/ \E q \in Request : MarkVerify(q)
  \/ \E l \in Link, r \in Rule, on \in BOOLEAN : UpdateForward(l, r, on)
  \/ DeleteForward
  \/ \E k \in Given, l \in Lane : GenericTask(k, l)
  \/ \E t \in Task, o \in Outcome \cup {"killed"} : RunStage(t, o)
  \/ \E t \in Task, o \in Outcome : UpdateForwardStatus(t, o)
  \/ \E q \in Request : Abandon(q)

FwSpec == FwInit /\ [][FwNext]_fwVars

-----------------------------------------------------------------------------
(* Some run that was to apply or to verify stage s succeeded. *)
Earned(s) ==
  \E t \in Task : /\ task[t].op \in {"apply", "verify"}
                  /\ s \in Concerned(task[t]) \/ AppliesBoth(task[t])
                  /\ "succeeded" \in outcomes[t]

(* A forward is never called applied before both its stages were installed *)
(* or found by some run, and never verified before some verification of it *)
(* succeeded, however results overtake the handlers' notes, come twice or  *)
(* late, and however a verify request puts back an older status.  The runs *)
(* were for the nodes and the rule of their tasks: a PUT that moves the    *)
(* forward keeps the status.                                               *)
AppliedIsEarned ==
  /\ status = "applied" => \A s \in Stage : Earned(s)
  /\ status = "verified" =>
       \E t \in Task : VerifiesForward(task[t]) /\ "succeeded" \in outcomes[t]

(* Nothing is under way and no result came late or twice. *)
Settled ==
  /\ inOrder
  /\ \A q \in Request : call[q] = "none"
  /\ \A t \in Task : t <= count => result[t] # "none" /\ result[t] = latest[t]

(* The panel takes a task for one of the stage whose table it changes.     *)
(* This is so of the handlers' tasks; apply_forward_config has both stages *)
(* noted for a table of its own, and the payload of a task that an         *)
(* operator creates may name the other stage.                              *)
Fits(k) == k.op \in {"apply", "disable"} => Concerned(k) = {k.on}

(* What task t found or left on its host is still there. *)
StillThere(t) ==
  LET found == tables[<<lane[t], task[t].on>>]
  IN IF task[t].op = "apply" THEN found = task[t].rule ELSE found # NoRule

(* Once all is settled, a stage shown as succeeded was applied or verified *)
(* by a task whose table is on its host, with the rule of that task, also  *)
(* after requests that interleaved with one another, with operators' tasks *)
(* and with PUTs.  It need not be the forward's present host and rule: a   *)
(* PUT keeps the stages, and operators name any node.                      *)
ShownIsThere ==
  Settled /\ status # "deleted" /\ (\A t \in Task : Fits(task[t])) =>
    \A s \in Stage : stage[s] = "succeeded" =>
      \E t \in Task : /\ task[t].op \in {"apply", "verify"} /\ Concerned(task[t]) = {s}
                      /\ result[t] = "succeeded" /\ StillThere(t)

(* TestForwardStatusUpdatesFromTwoStageApplyResult (server_test.go:735):   *)
(* when both stages succeed, the forward is applied.                       *)
BothStagesApplied ==
  Settled /\ status # "deleted"
    /\ (\A s \in Stage : \E t \in Task : task[t].on = s)
    /\ (\A t \in Task : t <= count => /\ task[t].op = "apply" /\ Concerned(task[t]) = {task[t].on}
                                      /\ result[t] = "succeeded")
  => status = "applied"
=============================================================================
