-------------------------- MODULE ForwardStagesProofs --------------------------
(***************************************************************************)
(* A forward is shown as applied or verified only after runs that were to  *)
(* do that succeeded.  Every status the panel may yet show is traced back  *)
(* to such runs: the stages' own, the forward's, and the one that a        *)
(* request being handled has read and is to write back.                    *)
(***************************************************************************)
EXTENDS ForwardStages, TLAPS

FlagsOK == enabled \in BOOLEAN /\ inOrder \in BOOLEAN

DeliveryTypeOK ==
  /\ lane \in [Task -> Lane \cup {NoLane}]
  /\ outcomes \in [Task -> SUBSET (Outcome \cup {"killed"})]
  /\ result \in [Task -> Outcome \cup {"none"}]

(* The tasks offered are the tasks made, and only those are run.           *)
TaskInv ==
  \A t \in Task : /\ lane[t] # NoLane => task[t] \in Kind
                  /\ lane[t] = NoLane => task[t] = Unmade
                  /\ outcomes[t] # {} => lane[t] # NoLane

(* What a request being handled has read of the forward. *)
HandlerInv ==
  \A q \in Request : /\ call[q] # "none" => node[q] \in Link
                     /\ told[q] \in (IF call[q] = "apply" THEN Rule ELSE {NoRule})

Verified == \E t \in Task : VerifiesForward(task[t]) /\ "succeeded" \in outcomes[t]
EarnedAs(x) ==
  /\ x = "applied" => \A s \in Stage : Earned(s)
  /\ x = "verified" => Verified

StageInv == \A s \in Stage : stage[s] = "succeeded" => Earned(s)
SeenInv == \A q \in Request : EarnedAs(seen[q])

IInv ==
  /\ DataTypeOK
  /\ DeliveryTypeOK
  /\ TaskInv
  /\ HandlerInv
  /\ StageInv
  /\ SeenInv
  /\ EarnedAs(status)

USE TaskAssumption, LaneAssumption, OutcomeAssumption

-----------------------------------------------------------------------------
(* What a task may be. *)
LEMMA Kinds ==
  ASSUME NEW k \in Kind
  PROVE  /\ k.op \in Op /\ k.on \in Table /\ k.stage \in Stage \cup {""}
         /\ k.rule \in Rule \cup {NoRule}
         /\ k.op = "apply" => k.rule \in Rule
         /\ k.op = "verify" => Concerned(k) = {k.on} \cap Stage
<1>1. CASE k \in [op : {"apply"}, on : Table, stage : Stage \cup {""}, rule : Rule]
  BY <1>1 DEF Op
<1>2. CASE k \in [op : {"disable"}, on : Stage, stage : Stage \cup {""}, rule : {NoRule}]
  BY <1>2 DEF Op, Table
<1>3. CASE k \in {[op |-> "verify", on |-> s, stage |-> s, rule |-> NoRule] : s \in Stage}
  <2>1. PICK s \in Stage : k = [op |-> "verify", on |-> s, stage |-> s, rule |-> NoRule]
    BY <1>3
  <2>2. k.op = "verify" /\ k.on = s /\ k.stage = s /\ k.rule = NoRule
    BY <2>1
  <2> QED
    BY <2>2 DEF Op, Table, Stage, Concerned
<1>4. CASE k \in {[op |-> "verify", on |-> "single", stage |-> "", rule |-> NoRule]}
  <2>1. k = [op |-> "verify", on |-> "single", stage |-> "", rule |-> NoRule]
    BY <1>4, Zenon
  <2>2. k.op = "verify" /\ k.on = "single" /\ k.stage = "" /\ k.rule = NoRule
    BY <2>1
  <2> QED
    BY <2>2 DEF Op, Table, Stage, Concerned
<1> QED
  BY <1>1, <1>2, <1>3, <1>4 DEF Kind

LEMMA StagesConcerned ==
  ASSUME NEW k
  PROVE  Concerned(k) \subseteq Stage
BY DEF Concerned, Stage

(* A task that is created is the next one, and leaves the others alone.    *)
Added(k, l) ==
  /\ count \in Nat /\ count + 1 \in Task /\ count' = count + 1
  /\ lane[count + 1] = NoLane /\ task[count + 1] = Unmade /\ outcomes[count + 1] = {}
  /\ lane' = [t \in Task |-> IF t = count + 1 THEN l ELSE lane[t]]
  /\ task' = [task EXCEPT ![count + 1] = k]
  /\ lane'[count + 1] = l /\ task'[count + 1] = k
  /\ \A t \in Task : t # count + 1 => lane'[t] = lane[t] /\ task'[t] = task[t]
  /\ UNCHANGED <<outcomes, result>>

LEMMA NewTask ==
  ASSUME IInv, NEW k \in Kind, NEW l \in Lane, CreateTask(k, l)
  PROVE  Added(k, l)
<1>1. /\ count + 1 \in Task /\ count' = count + 1
      /\ lane' = [t \in Task |-> IF t = count + 1 THEN l ELSE lane[t]]
      /\ task' = [task EXCEPT ![count + 1] = k]
      /\ UNCHANGED <<outcomes, result>>
      /\ lane[count + 1] = NoLane
  BY DEF CreateTask, Offer
<1>2. task[count + 1] = Unmade /\ outcomes[count + 1] = {}
  BY <1>1 DEF IInv, TaskInv
<1>3. count \in Nat
  BY DEF IInv, DataTypeOK
<1>4. DOMAIN task = Task
  BY DEF IInv, DataTypeOK
<1> QED
  BY <1>1, <1>2, <1>3, <1>4 DEF Added

LEMMA StageTask ==
  ASSUME IInv, NEW q \in Request, CreateStageTask(q)
  PROVE  \E k \in Kind, l \in Lane : CreateTask(k, l)
<1> DEFINE k == [op |-> call[q], on |-> step[q], stage |-> step[q], rule |-> told[q]]
<1>1. /\ call[q] \in {"apply", "disable", "verify"} /\ step[q] \in Stage
      /\ CreateTask(k, node[q][step[q]])
  BY DEF CreateStageTask, IInv, DataTypeOK, Op
<1>2. node[q][step[q]] \in Lane
  BY <1>1, LinkAssumption DEF IInv, HandlerInv
<1>3. told[q] \in (IF call[q] = "apply" THEN Rule ELSE {NoRule})
  BY DEF IInv, HandlerInv
<1>4. k \in Kind
  <2>1. CASE call[q] = "apply"
    <3>1. k \in [op : {"apply"}, on : Table, stage : Stage \cup {""}, rule : Rule]
      BY <1>1, <1>3, <2>1 DEF Table
    <3> QED
      BY <3>1 DEF Kind
  <2>2. CASE call[q] = "disable"
    <3>1. k \in [op : {"disable"}, on : Stage, stage : Stage \cup {""}, rule : {NoRule}]
      BY <1>1, <1>3, <2>2
    <3> QED
      BY <3>1 DEF Kind
  <2>3. CASE call[q] = "verify"
    <3>1. k \in {[op |-> "verify", on |-> s, stage |-> s, rule |-> NoRule] : s \in Stage}
      BY <1>1, <1>3, <2>3
    <3> QED
      BY <3>1 DEF Kind
  <2> QED
    BY <1>1, <2>1, <2>2, <2>3
<1> QED
  BY <1>1, <1>2, <1>4

-----------------------------------------------------------------------------
(* What was earned stays earned: outcomes are only added, and a task that  *)
(* was run is not changed.                                                 *)
LEMMA TaskStays ==
  ASSUME IInv, [FwNext]_fwVars, NEW t \in Task, "succeeded" \in outcomes[t]
  PROVE  task'[t] = task[t] /\ "succeeded" \in outcomes'[t]
<1>1. CASE UNCHANGED <<outcomes, task>>
  BY <1>1
<1>2. ASSUME NEW k \in Kind, NEW l \in Lane, CreateTask(k, l)
      PROVE  task'[t] = task[t] /\ "succeeded" \in outcomes'[t]
  BY <1>2, NewTask DEF Added
<1>3. ASSUME NEW u \in Task, NEW o \in Outcome \cup {"killed"}, RunStage(u, o)
      PROVE  task'[t] = task[t] /\ "succeeded" \in outcomes'[t]
  BY <1>3 DEF RunStage, Run, IInv, DeliveryTypeOK
<1>4. ASSUME NEW q \in Request, CreateStageTask(q)
      PROVE  task'[t] = task[t] /\ "succeeded" \in outcomes'[t]
  BY <1>2, <1>4, StageTask
<1>5. ASSUME NEW k \in Given, NEW l \in Lane, GenericTask(k, l)
      PROVE  task'[t] = task[t] /\ "succeeded" \in outcomes'[t]
  BY <1>2, <1>5, GivenAssumption DEF GenericTask
<1> QED
  BY <1>1, <1>3, <1>4, <1>5
     DEF FwNext, fwVars, vars, Begin, ResolveTarget, MarkStage, MarkVerify, UpdateForward,
         DeleteForward, Abandon, UpdateForwardStatus, Record

LEMMA EarnedStays ==
  ASSUME IInv, [FwNext]_fwVars
  PROVE  \A x : EarnedAs(x) => EarnedAs(x)'
<1>1. ASSUME NEW s \in Stage, Earned(s) PROVE Earned(s)'
  <2>1. PICK t \in Task : /\ task[t].op \in {"apply", "verify"}
                          /\ s \in Concerned(task[t]) \/ AppliesBoth(task[t])
                          /\ "succeeded" \in outcomes[t]
    BY <1>1 DEF Earned
  <2>2. task'[t] = task[t] /\ "succeeded" \in outcomes'[t]
    BY <2>1, TaskStays
  <2> QED
    BY <2>1, <2>2 DEF Earned
<1>2. ASSUME Verified PROVE Verified'
  <2>1. PICK t \in Task : VerifiesForward(task[t]) /\ "succeeded" \in outcomes[t]
    BY <1>2 DEF Verified
  <2>2. task'[t] = task[t] /\ "succeeded" \in outcomes'[t]
    BY <2>1, TaskStays
  <2> QED
    BY <2>1, <2>2 DEF Verified
<1> QED
  BY <1>1, <1>2 DEF EarnedAs

LEMMA StageStaysEarned ==
  ASSUME IInv, [FwNext]_fwVars, NEW s \in Stage, Earned(s)
  PROVE  Earned(s)'
<1>1. PICK t \in Task : /\ task[t].op \in {"apply", "verify"}
                        /\ s \in Concerned(task[t]) \/ AppliesBoth(task[t])
                        /\ "succeeded" \in outcomes[t]
  BY DEF Earned
<1>2. task'[t] = task[t] /\ "succeeded" \in outcomes'[t]
  BY <1>1, TaskStays
<1> QED
  BY <1>1, <1>2 DEF Earned

(* A stage that is succeeded after a result is recorded was earned.        *)
LEMMA RecordShowsEarned ==
  ASSUME IInv, NEW t \in Task, NEW o \in Outcome, UpdateForwardStatus(t, o),
         NEW s \in Stage, StageAfter(t, o)[s] = "succeeded"
  PROVE  Earned(s)
<1>1. o \in outcomes[t] /\ task[t] \in Kind
  BY DEF UpdateForwardStatus, Record, IInv, TaskInv
<1>2. task[t].op \in {"apply", "disable", "verify"}
  BY <1>1, Kinds DEF Op
<1>3. CASE AppliesBoth(task[t]) /\ o = "succeeded"
  BY <1>1, <1>3 DEF Earned, AppliesBoth
<1>4. CASE ~ (AppliesBoth(task[t]) /\ o = "succeeded")
  <2>1. StageAfter(t, o)[s] = IF s \notin Concerned(task[t]) THEN stage[s]
                              ELSE IF task[t].op = "disable" THEN "disabled" ELSE o
    BY <1>4, Zenon DEF StageAfter
  <2>2. CASE s \notin Concerned(task[t])
    BY <2>1, <2>2 DEF IInv, StageInv
  <2>3. CASE s \in Concerned(task[t])
    <3>1. task[t].op \in {"apply", "verify"} /\ o = "succeeded"
      BY <1>2, <2>1, <2>3
    <3> QED
      BY <1>1, <2>3, <3>1 DEF Earned
  <2> QED
    BY <2>2, <2>3
<1> QED
  BY <1>3, <1>4

(* Nor is the forward's status after it more than was earned.              *)
LEMMA RecordKeepsStatus ==
  ASSUME IInv, NEW t \in Task, NEW o \in Outcome, UpdateForwardStatus(t, o)
  PROVE  EarnedAs(StatusAfter(t, o)) /\ StatusAfter(t, o) \in Status
<1> DEFINE now == StageAfter(t, o)
<1>0. status \in Status /\ EarnedAs(status)
  BY DEF IInv, DataTypeOK
<1>1. o \in outcomes[t]
  BY DEF UpdateForwardStatus, Record
<1>2. CASE task[t].op = "apply" /\ task[t].on \in Stage
  <2>0. ~ AppliesBoth(task[t]) /\ ~ VerifiesForward(task[t]) /\ task[t].op # "disable"
    BY <1>2 DEF AppliesBoth, VerifiesForward, Concerned, Stage
  <2>1. CASE \A s \in Stage : now[s] = "succeeded"
    <3>1. StatusAfter(t, o) = "applied"
      BY <1>2, <2>0, <2>1 DEF StatusAfter
    <3> QED
      BY <2>1, <3>1, RecordShowsEarned DEF EarnedAs, Status
  <2>2. CASE ~ \A s \in Stage : now[s] = "succeeded"
    <3>1. StatusAfter(t, o) \in {"failed", "applying"}
      BY <1>2, <2>0, <2>2 DEF StatusAfter
    <3> QED
      BY <3>1 DEF EarnedAs, Status
  <2> QED
    BY <2>1, <2>2
<1>3. CASE ~ (task[t].op = "apply" /\ task[t].on \in Stage) /\ AppliesBoth(task[t])
  <2>1. StatusAfter(t, o) = IF o = "succeeded" THEN "applied" ELSE "failed"
    BY <1>3 DEF StatusAfter, VerifiesForward, AppliesBoth
  <2>2. o = "succeeded" => \A s \in Stage : Earned(s)
    BY <1>1, <1>3 DEF Earned, AppliesBoth
  <2> QED
    BY <2>1, <2>2 DEF EarnedAs, Status
<1>4. CASE VerifiesForward(task[t])
  <2>1. StatusAfter(t, o) = IF o = "succeeded" THEN "verified" ELSE "failed"
    BY <1>4 DEF StatusAfter, VerifiesForward, AppliesBoth
  <2>2. o = "succeeded" => Verified
    BY <1>1, <1>4 DEF Verified
  <2> QED
    BY <2>1, <2>2 DEF EarnedAs, Status
<1>5. CASE /\ ~ (task[t].op = "apply" /\ task[t].on \in Stage)
           /\ ~ AppliesBoth(task[t]) /\ ~ VerifiesForward(task[t])
  <2>1. StatusAfter(t, o) = IF task[t].op = "disable" /\ (\A s \in Stage : now[s] = "disabled")
                            THEN "disabled" ELSE status
    BY <1>5 DEF StatusAfter
  <2> QED
    BY <1>0, <2>1 DEF EarnedAs, Status
<1> QED
  BY <1>2, <1>3, <1>4, <1>5

-----------------------------------------------------------------------------
(* The types are kept.  The tasks, by the steps that touch them:           *)
LEMMA TasksKept ==
  ASSUME IInv, [FwNext]_fwVars
  PROVE  DeliveryTypeOK' /\ TaskInv'
<1>1. CASE UNCHANGED <<vars, task>>
  BY <1>1 DEF vars, IInv, DeliveryTypeOK, TaskInv
<1>2. ASSUME NEW k \in Kind, NEW l \in Lane, CreateTask(k, l) PROVE DeliveryTypeOK' /\ TaskInv'
  <2>1. Added(k, l)
    BY <1>2, NewTask
  <2>2. DeliveryTypeOK'
    BY <2>1 DEF Added, IInv, DeliveryTypeOK
  <2>3. TaskInv'
    BY <2>1 DEF Added, IInv, TaskInv
  <2> QED
    BY <2>2, <2>3
<1>3. ASSUME NEW q \in Request, CreateStageTask(q) PROVE DeliveryTypeOK' /\ TaskInv'
  BY <1>2, <1>3, StageTask
<1>4. ASSUME NEW k \in Given, NEW l \in Lane, GenericTask(k, l) PROVE DeliveryTypeOK' /\ TaskInv'
  BY <1>2, <1>4, GivenAssumption DEF GenericTask
<1>5. ASSUME NEW t \in Task, NEW o \in Outcome \cup {"killed"}, RunStage(t, o)
      PROVE  DeliveryTypeOK' /\ TaskInv'
  BY <1>5 DEF RunStage, Run, IInv, DeliveryTypeOK, TaskInv
<1>6. ASSUME NEW t \in Task, NEW o \in Outcome, UpdateForwardStatus(t, o)
      PROVE  DeliveryTypeOK' /\ TaskInv'
  BY <1>6 DEF UpdateForwardStatus, Record, IInv, DeliveryTypeOK, TaskInv
<1> QED
  BY <1>1, <1>3, <1>4, <1>5, <1>6
     DEF FwNext, fwVars, Begin, ResolveTarget, MarkStage, MarkVerify, UpdateForward, DeleteForward,
         Abandon

(* the handlers,                                                           *)
HandlersOK ==
  /\ call \in [Request -> Op \cup {"none"}]
  /\ step \in [Request -> Step]
  /\ seen \in [Request -> Status]
  /\ node \in [Request -> Link \cup {Nowhere}]
  /\ told \in [Request -> Rule \cup {NoRule}]

LEMMA EndOfRequest ==
  ASSUME IInv, NEW q \in Request, End(q)
  PROVE  HandlersOK' /\ HandlerInv'
<1>1. HandlersOK'
  BY DEF End, HandlersOK, IInv, DataTypeOK, Op, Step, Status
<1>2. HandlerInv'
  BY DEF End, IInv, HandlerInv, DataTypeOK
<1> QED
  BY <1>1, <1>2

LEMMA HandlersKept ==
  ASSUME IInv, [FwNext]_fwVars
  PROVE  HandlersOK' /\ HandlerInv'
<1>0. link \in Link /\ rule \in Rule /\ status \in Status /\ HandlersOK
  BY DEF IInv, DataTypeOK, HandlersOK
<1>1. ASSUME NEW q \in Request, NEW op \in Op, Begin(q, op) PROVE HandlersOK' /\ HandlerInv'
  <2>1. /\ call' \in [Request -> Op \cup {"none"}] /\ step' \in [Request -> Step]
        /\ node' \in [Request -> Link \cup {Nowhere}]
    BY <1>0, <1>1 DEF Begin, HandlersOK, Step
  <2>2. told' \in [Request -> Rule \cup {NoRule}] /\ seen' \in [Request -> Status]
    BY <1>0, <1>1 DEF Begin, HandlersOK
  <2>3. HandlerInv'
    BY <1>0, <1>1 DEF Begin, HandlersOK, IInv, HandlerInv, Op
  <2> QED
    BY <2>1, <2>2, <2>3 DEF HandlersOK
<1>2. ASSUME NEW q \in Request, ResolveTarget(q) PROVE HandlersOK' /\ HandlerInv'
  <2>1. HandlersOK'
    BY <1>0, <1>2 DEF ResolveTarget, HandlersOK, Step
  <2>2. HandlerInv'
    BY <1>0, <1>2 DEF ResolveTarget, HandlersOK, IInv, HandlerInv
  <2> QED
    BY <2>1, <2>2
<1>3. ASSUME NEW q \in Request, CreateStageTask(q) PROVE HandlersOK' /\ HandlerInv'
  BY <1>0, <1>3 DEF CreateStageTask, HandlersOK, Step, IInv, HandlerInv
<1>4. ASSUME NEW q \in Request, MarkStage(q) PROVE HandlersOK' /\ HandlerInv'
  <2>1. CASE End(q)
    BY <2>1, EndOfRequest
  <2>2. CASE ~ End(q)
    BY <1>0, <1>4, <2>2 DEF MarkStage, HandlersOK, Step, IInv, HandlerInv
  <2> QED
    BY <2>1, <2>2
<1>5. ASSUME NEW q \in Request, MarkVerify(q) \/ Abandon(q) PROVE HandlersOK' /\ HandlerInv'
  BY <1>5, EndOfRequest DEF MarkVerify, Abandon
<1>6. CASE UNCHANGED handlers
  BY <1>0, <1>6 DEF handlers, HandlersOK, IInv, HandlerInv
<1> QED
  BY <1>1, <1>2, <1>3, <1>4, <1>5, <1>6
     DEF FwNext, fwVars, UpdateForward, DeleteForward, GenericTask, RunStage, UpdateForwardStatus

(* the panel and the hosts.                                                *)
TasksOK == count \in Task \cup {0} /\ task \in [Task -> Kind \cup {Unmade}]
PanelOK ==
  /\ status \in Status /\ stage \in [Stage -> StageStatus]
  /\ link \in Link /\ rule \in Rule
HostsOK ==
  /\ tables \in [Lane \X Table -> Rule \cup {NoRule}]
  /\ latest \in [Task -> Outcome \cup {"killed", "none"}]

LEMMA TablesKept ==
  ASSUME IInv, NEW t \in Task, NEW o \in Outcome \cup {"killed"}, RunStage(t, o)
  PROVE  tables' \in [Lane \X Table -> Rule \cup {NoRule}]
<1>1. lane[t] \in Lane /\ task[t] \in Kind
  BY DEF RunStage, Run, IInv, DeliveryTypeOK, TaskInv
<1>2. task[t].on \in Table /\ task[t].rule \in Rule \cup {NoRule}
  BY <1>1, Kinds
<1>3. tables \in [Lane \X Table -> Rule \cup {NoRule}]
  BY DEF IInv, DataTypeOK
<1>4. ASSUME NEW r \in Rule \cup {NoRule}
      PROVE  [tables EXCEPT ![<<lane[t], task[t].on>>] = r] \in [Lane \X Table -> Rule \cup {NoRule}]
  BY <1>3
<1>5. tables' \in {tables, [tables EXCEPT ![<<lane[t], task[t].on>>] = task[t].rule],
                   [tables EXCEPT ![<<lane[t], task[t].on>>] = NoRule]}
  BY DEF RunStage, TablesAfter
<1> QED
  BY <1>2, <1>3, <1>4, <1>5

LEMMA DataKept ==
  ASSUME IInv, [FwNext]_fwVars
  PROVE  TasksOK' /\ PanelOK' /\ HostsOK'
<1>0. TasksOK /\ PanelOK /\ HostsOK
  BY DEF IInv, DataTypeOK, TasksOK, PanelOK, HostsOK
<1>1. TasksOK'
  <2>1. ASSUME NEW k \in Kind, NEW l \in Lane, CreateTask(k, l) PROVE TasksOK'
    BY <1>0, <2>1, NewTask DEF Added, TasksOK
  <2>2. ASSUME NEW q \in Request, CreateStageTask(q) PROVE TasksOK'
    BY <2>1, <2>2, StageTask
  <2>3. ASSUME NEW k \in Given, NEW l \in Lane, GenericTask(k, l) PROVE TasksOK'
    BY <2>1, <2>3, GivenAssumption DEF GenericTask
  <2>4. CASE UNCHANGED <<count, task>>
    BY <1>0, <2>4 DEF TasksOK
  <2> QED
    BY <2>2, <2>3, <2>4
       DEF FwNext, fwVars, Begin, ResolveTarget, MarkStage, MarkVerify, UpdateForward,
           DeleteForward, Abandon, RunStage, UpdateForwardStatus
<1>2. PanelOK'
  <2>1. ASSUME NEW q \in Request, MarkStage(q) PROVE PanelOK'
    BY <1>0, <2>1 DEF MarkStage, PanelOK, Status, StageStatus
  <2>2. ASSUME NEW q \in Request, MarkVerify(q) PROVE PanelOK'
    BY <1>0, <2>2 DEF MarkVerify, PanelOK, IInv, DataTypeOK
  <2>3. ASSUME NEW l \in Link, NEW r \in Rule, NEW on \in BOOLEAN, UpdateForward(l, r, on)
        PROVE  PanelOK'
    BY <1>0, <2>3 DEF UpdateForward, PanelOK
  <2>4. CASE DeleteForward
    BY <1>0, <2>4 DEF DeleteForward, PanelOK, Status
  <2>5. ASSUME NEW t \in Task, NEW o \in Outcome, UpdateForwardStatus(t, o) PROVE PanelOK'
    <3>1. StageAfter(t, o) \in [Stage -> StageStatus]
      BY <1>0 DEF StageAfter, PanelOK, StageStatus
    <3>2. StatusAfter(t, o) \in Status
      BY <2>5, RecordKeepsStatus
    <3> QED
      BY <1>0, <2>5, <3>1, <3>2 DEF UpdateForwardStatus, PanelOK
  <2>6. CASE UNCHANGED forward
    BY <1>0, <2>6 DEF forward, PanelOK
  <2> QED
    BY <2>1, <2>2, <2>3, <2>4, <2>5, <2>6
       DEF FwNext, fwVars, Begin, ResolveTarget, CreateStageTask, GenericTask, Abandon, RunStage
<1>3. HostsOK'
  <2>1. ASSUME NEW t \in Task, NEW o \in Outcome \cup {"killed"}, RunStage(t, o) PROVE HostsOK'
    <3>1. tables' \in [Lane \X Table -> Rule \cup {NoRule}]
      BY <2>1, TablesKept
    <3> QED
      BY <1>0, <2>1, <3>1 DEF RunStage, HostsOK
  <2>2. CASE UNCHANGED <<tables, latest>>
    BY <1>0, <2>2 DEF HostsOK
  <2> QED
    BY <2>1, <2>2
       DEF FwNext, fwVars, Begin, ResolveTarget, CreateStageTask, MarkStage, MarkVerify,
           UpdateForward, DeleteForward, GenericTask, Abandon, UpdateForwardStatus
<1> QED
  BY <1>1, <1>2, <1>3

(* The two Boolean flags.                                                  *)
LEMMA FlagsKept ==
  ASSUME FlagsOK, [FwNext]_fwVars
  PROVE  FlagsOK'
<1>1. CASE UNCHANGED <<enabled, inOrder>>
  BY <1>1, Zenon DEF FlagsOK
<1>2. ASSUME NEW l \in Link, NEW r \in Rule, NEW on \in BOOLEAN, UpdateForward(l, r, on)
      PROVE  FlagsOK'
  BY <1>2, Zenon DEF FlagsOK, UpdateForward
<1>3. ASSUME NEW t \in Task, NEW o \in Outcome, UpdateForwardStatus(t, o)
      PROVE  FlagsOK'
  BY <1>3, Zenon DEF FlagsOK, UpdateForwardStatus
<1> QED
  BY <1>1, <1>2, <1>3, Zenon
     DEF FwNext, fwVars, forward, Begin, ResolveTarget, CreateStageTask, MarkStage, MarkVerify,
         DeleteForward, GenericTask, Abandon, RunStage

-----------------------------------------------------------------------------
(* Every status in store, in flight or on show stays earned.               *)
LEMMA StatusesStayEarned ==
  ASSUME IInv, [FwNext]_fwVars
  PROVE  StageInv' /\ SeenInv' /\ EarnedAs(status)'
<1>0. /\ \A x : EarnedAs(x) => EarnedAs(x)'
      /\ \A s \in Stage : Earned(s) => Earned(s)'
      /\ EarnedAs("draft") /\ EarnedAs("applying") /\ EarnedAs("deleted")
      /\ EarnedAs(status) /\ \A q \in Request : EarnedAs(seen[q])
      /\ \A s \in Stage : stage[s] = "succeeded" => Earned(s)
  BY EarnedStays, StageStaysEarned DEF IInv, SeenInv, StageInv, EarnedAs
<1>1. StageInv'
  <2>1. ASSUME NEW q \in Request, MarkStage(q) PROVE StageInv'
    BY <1>0, <2>1 DEF MarkStage, StageInv, IInv, DataTypeOK
  <2>2. ASSUME NEW t \in Task, NEW o \in Outcome, UpdateForwardStatus(t, o) PROVE StageInv'
    BY <1>0, <2>2, RecordShowsEarned DEF UpdateForwardStatus, StageInv
  <2>3. CASE UNCHANGED stage
    BY <1>0, <2>3 DEF StageInv
  <2> QED
    BY <2>1, <2>2, <2>3
       DEF FwNext, fwVars, forward, Begin, ResolveTarget, CreateStageTask, MarkVerify, UpdateForward,
           DeleteForward, GenericTask, Abandon, RunStage
<1>2. SeenInv'
  <2>1. ASSUME NEW q \in Request, NEW op \in Op, Begin(q, op) PROVE SeenInv'
    <3>1. \A p \in Request : seen'[p] \in {seen[p], status}
      BY <2>1 DEF Begin, IInv, DataTypeOK
    <3> QED
      BY <1>0, <3>1 DEF SeenInv
  <2>2. ASSUME NEW q \in Request, End(q) PROVE SeenInv'
    <3>1. \A p \in Request : seen'[p] \in {seen[p], "draft"}
      BY <2>2 DEF End, IInv, DataTypeOK
    <3> QED
      BY <1>0, <3>1 DEF SeenInv
  <2>3. CASE UNCHANGED seen
    BY <1>0, <2>3 DEF SeenInv
  <2> QED
    BY <2>1, <2>2, <2>3
       DEF FwNext, fwVars, handlers, ResolveTarget, CreateStageTask, MarkStage, MarkVerify,
           UpdateForward, DeleteForward, GenericTask, Abandon, RunStage, UpdateForwardStatus
<1>3. EarnedAs(status)'
  <2>1. ASSUME NEW t \in Task, NEW o \in Outcome, UpdateForwardStatus(t, o) PROVE EarnedAs(status)'
    BY <1>0, <2>1, RecordKeepsStatus DEF UpdateForwardStatus
  <2>2. CASE status' \in {status, "applying", "deleted"} \cup {seen[q] : q \in Request}
    BY <1>0, <2>2
  <2> QED
    BY <2>1, <2>2
       DEF FwNext, fwVars, forward, Begin, ResolveTarget, CreateStageTask, MarkStage, MarkVerify,
           UpdateForward, DeleteForward, GenericTask, Abandon, RunStage
<1> QED
  BY <1>1, <1>2, <1>3

-----------------------------------------------------------------------------
(* The invariant holds at first and is kept.                               *)
LEMMA InitEstablishes ==
  ASSUME FwInit
  PROVE  IInv
<1>1. DataTypeOK
  BY DEF FwInit, DataTypeOK, Status, StageStatus, Step
<1>2. DeliveryTypeOK /\ TaskInv /\ HandlerInv
  BY DEF FwInit, Init, DeliveryTypeOK, TaskInv, HandlerInv
<1>3. StageInv /\ SeenInv /\ EarnedAs(status)
  BY DEF FwInit, StageInv, SeenInv, EarnedAs
<1> QED
  BY <1>1, <1>2, <1>3 DEF IInv

THEOREM Invariance == FwSpec => []IInv
<1>1. IInv /\ [FwNext]_fwVars => IInv'
  <2> SUFFICES ASSUME IInv, [FwNext]_fwVars PROVE IInv'
    OBVIOUS
  <2>1. DataTypeOK'
    BY HandlersKept, DataKept DEF HandlersOK, TasksOK, PanelOK, HostsOK, DataTypeOK
  <2> QED
    BY <2>1, TasksKept, HandlersKept, StatusesStayEarned DEF IInv
<1> QED
  BY <1>1, InitEstablishes, PTL DEF FwSpec

(* Every variable keeps its type.                                          *)
THEOREM TypeCorrect == FwSpec => []TypeOK
<1>1. FwInit => FlagsOK
  BY Zenon DEF FwInit, FlagsOK
<1>2. FwSpec => []FlagsOK
  BY <1>1, FlagsKept, PTL DEF FwSpec
<1>3. FwSpec => []DataTypeOK
  BY Invariance, PTL DEF IInv
<1>4. DataTypeOK /\ FlagsOK => TypeOK
  BY Zenon DEF TypeOK, FlagsOK
<1> QED
  BY <1>2, <1>3, <1>4, PTL

(* A forward is never shown as applied (updateForwardStatusForTaskLocked,  *)
(* updateForwardTask) before for each of its stages a run that was to      *)
(* apply or to verify it succeeded, or one of apply_forward_config, and    *)
(* never as verified before a verification of it did: for any number of    *)
(* requests, tasks, PUTs and late or repeated results.                     *)
THEOREM AppliedOnlyWhenEarned == FwSpec => []AppliedIsEarned
<1>1. IInv => AppliedIsEarned
  BY DEF IInv, EarnedAs, Verified, AppliedIsEarned
<1> QED
  BY <1>1, Invariance, PTL

-----------------------------------------------------------------------------
(* Once all is settled, what is shown of a stage is true of some host.  On *)
(* a host, the last task for a table that was begun decides, for a run has *)
(* none begun after it; on the panel, as long as results come in the order *)
(* of the tasks and each task is taken for one of the stage whose table it *)
(* changes, a stage that succeeded has a task with no later result for the *)
(* same table.  When nothing is under way that task is the last for it.    *)
Begun(t) == outcomes[t] # {}
SameTable(t, u) == lane[u] = lane[t] /\ task[u].on = task[t].on
LastBegun(t) == Begun(t) /\ \A u \in Task : u > t /\ SameTable(t, u) => ~ Begun(u)

Shown(t) == task[t].op \in {"apply", "verify"}
HostInv ==
  \A t \in Task : LastBegun(t) /\ Shown(t) /\ latest[t] = "succeeded" => StillThere(t)

Shows(s, t) ==
  /\ Shown(t) /\ task[t].on = s /\ result[t] = "succeeded"
  /\ \A u \in Task : u > t /\ SameTable(t, u) => result[u] = "none"
PanelShows ==
  status # "deleted" => \A s \in Stage : stage[s] = "succeeded" => \E t \in Task : Shows(s, t)
AllFit == \A t \in Task : Fits(task[t])
PanelInv == inOrder /\ AllFit => PanelShows

NumberInv ==
  \A t \in Task : /\ lane[t] # NoLane => t <= count
                  /\ result[t] # "none" => Begun(t)

ShownInv == HostInv /\ PanelInv /\ NumberInv

LEMMA Numbers ==
  \A t, u \in Task : /\ u > t => u # t /\ ~ t > u
                     /\ u # t /\ ~ u > t => t > u
  OBVIOUS

(* A task is created by one of two steps, which leave the rest alone.      *)
Creates == \E k \in Kind, l \in Lane : Added(k, l)

LEMMA StepsThatCreate ==
  ASSUME IInv, \/ \E q \in Request : CreateStageTask(q)
               \/ \E k \in Given, l \in Lane : GenericTask(k, l)
  PROVE  Creates /\ UNCHANGED <<stage, status, tables, latest, inOrder>>
<1>1. ASSUME NEW q \in Request, CreateStageTask(q)
      PROVE  Creates /\ UNCHANGED <<stage, status, tables, latest, inOrder>>
  <2>1. Creates
    BY <1>1, StageTask, NewTask DEF Creates
  <2> QED
    BY <1>1, <2>1 DEF CreateStageTask, forward
<1>2. ASSUME NEW k \in Given, NEW l \in Lane, GenericTask(k, l)
      PROVE  Creates /\ UNCHANGED <<stage, status, tables, latest, inOrder>>
  <2>1. Creates
    BY <1>2, NewTask, GivenAssumption DEF GenericTask, Creates
  <2> QED
    BY <1>2, <2>1 DEF GenericTask, forward
<1> QED
  BY <1>1, <1>2

LEMMA NumbersKept ==
  ASSUME IInv, NumberInv, [FwNext]_fwVars
  PROVE  NumberInv'
<1>1. CASE \/ \E q \in Request : CreateStageTask(q)
           \/ \E k \in Given, l \in Lane : GenericTask(k, l)
  <2>1. PICK k \in Kind, l \in Lane : Added(k, l)
    BY <1>1, StepsThatCreate DEF Creates
  <2>2. ASSUME NEW t \in Task, lane'[t] # NoLane PROVE t <= count'
    <3>1. t = count + 1 \/ t <= count
      BY <2>1, <2>2 DEF Added, NumberInv
    <3> QED
      BY <2>1, <3>1 DEF Added
  <2>3. ASSUME NEW t \in Task, result'[t] # "none" PROVE Begun(t)'
    BY <2>1, <2>3 DEF Added, NumberInv, Begun
  <2> QED
    BY <2>2, <2>3 DEF NumberInv
<1>2. CASE UNCHANGED vars /\ count' = count
  BY <1>2 DEF vars, NumberInv, Begun
<1>3. ASSUME NEW t \in Task, NEW o \in Outcome \cup {"killed"}, RunStage(t, o) PROVE NumberInv'
  BY <1>3 DEF RunStage, Run, NumberInv, Begun, IInv, DeliveryTypeOK
<1>4. ASSUME NEW t \in Task, NEW o \in Outcome, UpdateForwardStatus(t, o) PROVE NumberInv'
  BY <1>4 DEF UpdateForwardStatus, Record, NumberInv, Begun, IInv, DeliveryTypeOK
<1> QED
  BY <1>1, <1>2, <1>3, <1>4
     DEF FwNext, fwVars, Begin, ResolveTarget, MarkStage, MarkVerify, UpdateForward, DeleteForward,
         Abandon

(* What a run leaves of the tables.                                        *)
LEMMA RunOnTable ==
  ASSUME IInv, NEW u \in Task, NEW o \in Outcome \cup {"killed"}, RunStage(u, o)
  PROVE  /\ lane[u] \in Lane /\ task[u] \in Kind
         /\ \A l \in Lane, on \in Table :
              l # lane[u] \/ on # task[u].on => tables'[<<l, on>>] = tables[<<l, on>>]
         /\ Shown(u) /\ o = "succeeded" => StillThere(u)'
<1>1. lane[u] \in Lane /\ task[u] \in Kind
  BY DEF RunStage, Run, IInv, DeliveryTypeOK, TaskInv
<1>2. /\ task[u].on \in Table
      /\ tables \in [Lane \X Table -> Rule \cup {NoRule}]
      /\ lane' = lane /\ task' = task
  BY <1>1, Kinds DEF IInv, DataTypeOK, RunStage, Run
<1>3. tables' \in {tables, [tables EXCEPT ![<<lane[u], task[u].on>>] = task[u].rule],
                   [tables EXCEPT ![<<lane[u], task[u].on>>] = NoRule]}
  BY DEF RunStage, TablesAfter
<1>4. ASSUME NEW l \in Lane, NEW on \in Table, l # lane[u] \/ on # task[u].on
      PROVE  tables'[<<l, on>>] = tables[<<l, on>>]
  <2>1. <<l, on>> # <<lane[u], task[u].on>> /\ <<l, on>> \in Lane \X Table
    BY <1>4
  <2> QED
    BY <1>2, <1>3, <2>1
<1>5. ASSUME task[u].op = "apply", o = "succeeded" PROVE StillThere(u)'
  <2>1. tables' = [tables EXCEPT ![<<lane[u], task[u].on>>] = task[u].rule]
    BY <1>5 DEF RunStage, TablesAfter
  <2>2. tables'[<<lane[u], task[u].on>>] = task[u].rule
    BY <1>1, <1>2, <2>1
  <2> QED
    BY <1>2, <1>5, <2>2 DEF StillThere
<1>6. ASSUME task[u].op = "verify", o = "succeeded" PROVE StillThere(u)'
  <2>1. tables' = tables /\ tables[<<lane[u], task[u].on>>] # NoRule
    BY <1>6 DEF RunStage, TablesAfter
  <2> QED
    BY <1>2, <1>6, <2>1 DEF StillThere
<1> QED
  BY <1>1, <1>4, <1>5, <1>6 DEF Shown

LEMMA HostKept ==
  ASSUME IInv, NumberInv, HostInv, [FwNext]_fwVars
  PROVE  HostInv'
<1>1. CASE UNCHANGED <<lane, outcomes, task, latest, tables>>
  BY <1>1 DEF HostInv, LastBegun, Begun, SameTable, Shown, StillThere
<1>2. CASE \/ \E q \in Request : CreateStageTask(q)
           \/ \E k \in Given, l \in Lane : GenericTask(k, l)
  <2>1. PICK k \in Kind, l \in Lane : Added(k, l)
    BY <1>2, StepsThatCreate DEF Creates
  <2>2. UNCHANGED <<tables, latest, outcomes>>
    BY <1>2, <2>1, StepsThatCreate DEF Added
  <2> SUFFICES ASSUME NEW t \in Task, LastBegun(t)', Shown(t)', latest'[t] = "succeeded"
               PROVE  StillThere(t)'
    BY DEF HostInv
  <2>3. t # count + 1 /\ count + 1 \in Task /\ lane'[t] = lane[t] /\ task'[t] = task[t]
    BY <2>1, <2>2 DEF Added, LastBegun, Begun
  <2>4. LastBegun(t) /\ Shown(t) /\ latest[t] = "succeeded"
    <3>1. ASSUME NEW u \in Task, u > t, SameTable(t, u), Begun(u) PROVE FALSE
      <4>1. u # count + 1
        BY <2>1, <3>1 DEF Added, Begun
      <4>2. SameTable(t, u)' /\ Begun(u)'
        BY <2>1, <2>2, <2>3, <3>1, <4>1 DEF Added, SameTable, Begun
      <4> QED
        BY <3>1, <4>2 DEF LastBegun
    <3> QED
      BY <2>2, <2>3, <3>1 DEF LastBegun, Begun, Shown
  <2> QED
    BY <2>2, <2>3, <2>4 DEF HostInv, StillThere
<1>3. ASSUME NEW u \in Task, NEW o \in Outcome \cup {"killed"}, RunStage(u, o) PROVE HostInv'
  <2>1. /\ UNCHANGED <<lane, task>>
        /\ \A t \in Task : t # u => outcomes'[t] = outcomes[t] /\ latest'[t] = latest[t]
        /\ outcomes'[u] = outcomes[u] \cup {o} /\ latest'[u] = o
        /\ \A t \in Task : t > u /\ lane[t] = lane[u] => ~ Begun(t)
    BY <1>3 DEF RunStage, Run, Begun, IInv, DataTypeOK, DeliveryTypeOK
  <2> SUFFICES ASSUME NEW t \in Task, LastBegun(t)', Shown(t)', latest'[t] = "succeeded"
               PROVE  StillThere(t)'
    BY DEF HostInv
  <2>2. CASE t = u
    BY <1>3, <2>1, <2>2, RunOnTable DEF Shown
  <2>3. CASE t # u /\ SameTable(u, t)
    <3>1. Begun(t) /\ Begun(u)'
      BY <2>1, <2>3 DEF LastBegun, Begun
    <3>2. u > t
      <4>1. ~ t > u
        BY <2>1, <2>3, <3>1, Zenon DEF SameTable
      <4> QED
        BY <2>3, <4>1, Numbers
    <3>3. SameTable(t, u)'
      BY <2>1, <2>3 DEF SameTable
    <3> QED
      BY <3>1, <3>2, <3>3 DEF LastBegun
  <2>4. CASE t # u /\ ~ SameTable(u, t)
    <3>1. LastBegun(t) /\ Shown(t) /\ latest[t] = "succeeded"
      <4>1. ASSUME NEW v \in Task, v > t, SameTable(t, v), Begun(v) PROVE FALSE
        <5>1. v # u
          BY <2>4, <4>1 DEF SameTable
        <5> QED
          BY <2>1, <4>1, <5>1 DEF LastBegun, SameTable, Begun
      <4> QED
        BY <2>1, <2>4, <4>1 DEF LastBegun, Begun, Shown
    <3>2. lane[t] \in Lane /\ task[t] \in Kind
      BY <3>1 DEF LastBegun, Begun, IInv, TaskInv, DeliveryTypeOK
    <3>3. task[t].on \in Table
      BY <3>2, Kinds
    <3>4. tables'[<<lane[t], task[t].on>>] = tables[<<lane[t], task[t].on>>]
      BY <1>3, <2>4, <3>2, <3>3, RunOnTable DEF SameTable
    <3>5. StillThere(t)
      BY <3>1 DEF HostInv
    <3> QED
      BY <2>1, <3>4, <3>5 DEF StillThere
  <2> QED
    BY <2>2, <2>3, <2>4
<1> QED
  BY <1>1, <1>2, <1>3
     DEF FwNext, fwVars, vars, Begin, ResolveTarget, MarkStage, MarkVerify, UpdateForward,
         DeleteForward, Abandon, UpdateForwardStatus, Record

(* No result comes in order again, nor does a misfit task go away.         *)
LEMMA InOrder ==
  ASSUME [FwNext]_fwVars, inOrder'
  PROVE  inOrder
BY Zenon DEF FwNext, fwVars, Begin, ResolveTarget, CreateStageTask, MarkStage, MarkVerify,
             UpdateForward, DeleteForward, GenericTask, Abandon, RunStage, UpdateForwardStatus

LEMMA AllFitBefore ==
  ASSUME IInv, [FwNext]_fwVars, AllFit'
  PROVE  AllFit
<1>1. CASE \/ \E q \in Request : CreateStageTask(q)
           \/ \E k \in Given, l \in Lane : GenericTask(k, l)
  <2>1. PICK k \in Kind, l \in Lane : Added(k, l)
    BY <1>1, StepsThatCreate DEF Creates
  <2>2. Fits(Unmade)
    BY DEF Fits, Unmade
  <2> QED
    BY <2>1, <2>2 DEF Added, AllFit
<1>2. CASE UNCHANGED task
  BY <1>2 DEF AllFit
<1> QED
  BY <1>1, <1>2
     DEF FwNext, fwVars, Begin, ResolveTarget, MarkStage, MarkVerify, UpdateForward, DeleteForward,
         Abandon, RunStage, UpdateForwardStatus

(* A result changes the stage of its task's table and no other, if the     *)
(* task fits.                                                              *)
LEMMA FittingResult ==
  ASSUME IInv, NEW t \in Task, NEW o \in Outcome, UpdateForwardStatus(t, o), Fits(task[t]),
         NEW s \in Stage
  PROVE  /\ task[t].on # s => StageAfter(t, o)[s] = stage[s]
         /\ task[t].on = s /\ StageAfter(t, o)[s] = "succeeded" => Shown(t) /\ o = "succeeded"
<1>1. task[t] \in Kind
  BY DEF UpdateForwardStatus, Record, IInv, TaskInv
<1>2. task[t].op \in {"apply", "disable", "verify"} /\ task[t].on \in Table
  BY <1>1, Kinds DEF Op
<1>3. task[t].on \in Stage => Concerned(task[t]) = {task[t].on}
  BY <1>1, <1>2, Kinds DEF Fits
<1>4. task[t].on \notin Stage => Concerned(task[t]) = {} /\ task[t].op = "verify"
  BY <1>1, <1>2, Kinds, StagesConcerned DEF Fits
<1>5. ~ AppliesBoth(task[t])
  BY <1>3, <1>4 DEF AppliesBoth
<1>6. StageAfter(t, o)[s] = IF s \notin Concerned(task[t]) THEN stage[s]
                            ELSE IF task[t].op = "disable" THEN "disabled" ELSE o
  BY <1>5, Zenon DEF StageAfter
<1> QED
  BY <1>2, <1>3, <1>4, <1>6 DEF Shown

LEMMA ShowsStays ==
  ASSUME NEW s, NEW t \in Task, Shows(s, t), UNCHANGED <<lane, result, task>>
  PROVE  Shows(s, t)'
BY DEF Shows, Shown, SameTable

LEMMA PanelKept ==
  ASSUME IInv, NumberInv, PanelInv, [FwNext]_fwVars
  PROVE  PanelInv'
<1> SUFFICES ASSUME inOrder', AllFit' PROVE PanelShows'
  BY DEF PanelInv
<1>0. AllFit /\ PanelShows
  BY InOrder, AllFitBefore, Zenon DEF PanelInv
<1>1. ASSUME UNCHANGED <<lane, result, task>>,
             \A s \in Stage : stage'[s] = "succeeded" => stage[s] = "succeeded",
             status' # "deleted" => status # "deleted"
      PROVE  PanelShows'
  BY <1>0, <1>1, ShowsStays DEF PanelShows
<1>2. CASE \/ \E q \in Request : CreateStageTask(q)
           \/ \E k \in Given, l \in Lane : GenericTask(k, l)
  <2>1. PICK k \in Kind, l \in Lane : Added(k, l)
    BY <1>2, StepsThatCreate DEF Creates
  <2>2. UNCHANGED <<stage, status>>
    BY <1>2, StepsThatCreate
  <2> SUFFICES ASSUME NEW s \in Stage, NEW t \in Task, Shows(s, t) PROVE Shows(s, t)'
    BY <1>0, <2>2 DEF PanelShows
  <2>3. result[count + 1] = "none" /\ result' = result
    BY <2>1 DEF Added, NumberInv, Begun
  <2>4. t # count + 1
    BY <2>3 DEF Shows
  <2>5. \A u \in Task : u # count + 1 => (SameTable(t, u)' <=> SameTable(t, u))
    BY <2>1, <2>4 DEF Added, SameTable
  <2>6. Shown(t)' /\ task'[t].on = s
    BY <2>1, <2>4 DEF Added, Shows, Shown
  <2> QED
    BY <2>3, <2>5, <2>6 DEF Shows
<1>3. ASSUME NEW q \in Request, MarkStage(q) PROVE PanelShows'
  <2>1. \A s \in Stage : stage'[s] = "succeeded" => stage[s] = "succeeded"
    BY <1>3 DEF MarkStage, IInv, DataTypeOK
  <2> QED
    BY <1>1, <1>3, <2>1 DEF MarkStage, vars
<1>4. ASSUME NEW q \in Request, MarkVerify(q) PROVE PanelShows'
  BY <1>1, <1>4 DEF MarkVerify, vars
<1>5. CASE DeleteForward
  BY <1>5 DEF DeleteForward, PanelShows
<1>6. ASSUME NEW t \in Task, NEW o \in Outcome, UpdateForwardStatus(t, o) PROVE PanelShows'
  <2> SUFFICES ASSUME status' # "deleted", NEW s \in Stage, stage'[s] = "succeeded"
               PROVE  \E u \in Task : Shows(s, u)'
    BY DEF PanelShows
  <2>1. /\ UNCHANGED <<lane, task>>
        /\ result'[t] = o /\ \A u \in Task : u # t => result'[u] = result[u]
    BY <1>6 DEF UpdateForwardStatus, Record, IInv, DeliveryTypeOK
  <2>2. \A u \in Task : u > t /\ lane[u] = lane[t] => result[u] = "none"
    BY <1>6, Zenon DEF UpdateForwardStatus
  <2>3. status # "deleted" /\ stage' = StageAfter(t, o)
    BY <1>6 DEF UpdateForwardStatus
  <2>4. Fits(task[t])
    BY <1>0 DEF AllFit
  <2>5. CASE task[t].on = s
    <3>1. Shown(t) /\ o = "succeeded"
      BY <1>6, <2>3, <2>4, <2>5, FittingResult
    <3>2. \A u \in Task : u > t /\ SameTable(t, u)' => result'[u] = "none"
      BY <2>1, <2>2, Numbers DEF SameTable
    <3> QED
      BY <2>1, <2>5, <3>1, <3>2 DEF Shows, Shown
  <2>6. CASE task[t].on # s
    <3>1. stage[s] = "succeeded"
      BY <1>6, <2>3, <2>4, <2>6, FittingResult
    <3>2. PICK u \in Task : Shows(s, u)
      BY <1>0, <2>3, <3>1 DEF PanelShows
    <3>3. ~ SameTable(u, t) /\ u # t
      BY <2>6, <3>2 DEF Shows, SameTable
    <3> QED
      BY <2>1, <3>2, <3>3 DEF Shows, Shown, SameTable
  <2> QED
    BY <2>5, <2>6
<1>7. CASE UNCHANGED <<lane, result, task, stage, status>>
  BY <1>1, <1>7
<1> QED
  BY <1>2, <1>3, <1>4, <1>5, <1>6, <1>7
     DEF FwNext, fwVars, vars, forward, Begin, ResolveTarget, UpdateForward, Abandon, RunStage, Run

(* The last result of a settled forward is that of its table's last run.   *)
LEMMA SettledIsShown ==
  ASSUME IInv, ShownInv
  PROVE  ShownIsThere
<1> SUFFICES ASSUME Settled, status # "deleted", AllFit, NEW s \in Stage, stage[s] = "succeeded"
             PROVE  \E t \in Task : /\ Shown(t) /\ Concerned(task[t]) = {s}
                                    /\ result[t] = "succeeded" /\ StillThere(t)
  BY DEF ShownIsThere, AllFit, Shown
<1>0. PanelShows
  BY Zenon DEF Settled, ShownInv, PanelInv
<1>1. PICK t \in Task : Shows(s, t)
  BY <1>0 DEF PanelShows
<1>2. Begun(t) /\ latest[t] = "succeeded" /\ lane[t] # NoLane
  BY <1>1 DEF Settled, ShownInv, NumberInv, Shows, IInv, TaskInv, Begun
<1>3. ASSUME NEW u \in Task, u > t, SameTable(t, u) PROVE FALSE
  BY <1>1, <1>2, <1>3 DEF Settled, ShownInv, NumberInv, Shows, SameTable
<1>4. StillThere(t)
  BY <1>1, <1>2, <1>3 DEF ShownInv, HostInv, LastBegun, Shows
<1>5. Concerned(task[t]) = {s}
  <2>1. task[t] \in Kind /\ task[t].on = s
    BY <1>1, <1>2 DEF IInv, TaskInv, Shows
  <2> QED
    BY <1>1, <2>1, Kinds DEF AllFit, Fits, Shows, Shown
<1> QED
  BY <1>1, <1>4, <1>5 DEF Shows

(* Once all is settled, a stage shown as succeeded is on a host, with the  *)
(* rule of a task that succeeded there (updateForwardStatusForTaskLocked), *)
(* for any number of requests, tasks and PUTs, however they interleaved.   *)
THEOREM SettledStagesAreThere == FwSpec => []ShownIsThere
<1>1. FwInit => ShownInv
  <2> SUFFICES ASSUME FwInit PROVE ShownInv
    OBVIOUS
  <2>1. PanelShows /\ HostInv /\ NumberInv
    BY DEF FwInit, Init, HostInv, PanelShows, NumberInv, LastBegun, Begun
  <2> QED
    BY <2>1, Zenon DEF ShownInv, PanelInv
<1>2. IInv /\ ShownInv /\ [FwNext]_fwVars => ShownInv'
  BY NumbersKept, HostKept, PanelKept DEF ShownInv
<1> QED
  BY <1>1, <1>2, Invariance, SettledIsShown, PTL DEF FwSpec
=============================================================================
