--------------------------- MODULE PBRPoliciesProofs ---------------------------
(***************************************************************************)
(* Policy routes, for any policies, line groups, marks, requests at a time *)
(* and tasks: a rule never leads to a table without a route, whatever was  *)
(* cut short, and a policy is called applied or verified only after a run  *)
(* on its host succeeded; and the one applied last is whole there.         *)
(***************************************************************************)
EXTENDS PBRPolicies, FiniteSetTheorems, TLAPS

PolicyTask == [action : Action, policy : Policy, data : Data]
PolicyCall == [op : Action \cup {"create"}, policy : Policy, data : Data]

DeliveryTypeOK ==
  /\ lane \in [Task -> Lane \cup {NoLane}]
  /\ outcomes \in [Task -> SUBSET (Outcome \cup {"killed"})]

PanelTypeOK ==
  /\ count \in Task \cup {0}
  /\ task \in [Task -> PolicyTask \cup {NoTask, Cleanup}]
  /\ status \in [Policy -> Status]
  /\ data \in [Policy -> Data \cup {NoData}]
  /\ call \in [Request -> PolicyCall \cup {NoCall}]
  /\ step \in [Request -> Step]

(* A policy on the list has its mark and table, a request under way has    *)
(* its policy, and only an offered task is run.                            *)
ListedHasData == \A p \in Policy : Exists(p) => data[p] \in Data
BusyHasCall == \A q \in Request : step[q] # "idle" => call[q] \in PolicyCall
TaskInv ==
  \A t \in Task : /\ lane[t] # NoLane => task[t] \in PolicyTask \cup {Cleanup}
                  /\ outcomes[t] # {} => lane[t] # NoLane

PanelInv == PanelTypeOK /\ DeliveryTypeOK /\ ListedHasData /\ BusyHasCall /\ TaskInv

USE TaskAssumption, LaneAssumption, OutcomeAssumption, PolicyAssumption

LEMMA TaskFields ==
  /\ \A x \in PolicyTask : x.action \in Action /\ x.policy \in Policy /\ x.data \in Data
  /\ \A a \in Action, p \in Policy, d \in Data :
       [action |-> a, policy |-> p, data |-> d] \in PolicyTask
  /\ NoTask \notin PolicyTask /\ NoTask # Cleanup
  /\ Cleanup.action = "cleanup" /\ "cleanup" \notin Action
BY DEF PolicyTask, Action, NoTask, Cleanup

LEMMA CallFields ==
  /\ \A x \in PolicyCall : x.op \in Action \cup {"create"} /\ x.policy \in Policy /\ x.data \in Data
  /\ \A a \in Action \cup {"create"}, p \in Policy, d \in Data :
       [op |-> a, policy |-> p, data |-> d] \in PolicyCall
BY DEF PolicyCall

LEMMA DataFields ==
  /\ \A d \in Data : d.mark \in Mark /\ d.table \in Table /\ d.group \in Group
  /\ \A m \in Mark, i \in Table, g \in Group : [mark |-> m, table |-> i, group |-> g] \in Data
BY DEF Data

(* A group that the host has is detected with one of the tables. *)
LEMMA Detected ==
  ASSUME HostTypeOK, NEW g \in present
  PROVE  DetectedTable(g) \in Table /\ g \in Group
<1> DEFINE S == {h \in present : h <= g}
<1>1. g \in Group /\ g \in Nat /\ IsFiniteSet(Group)
  BY GroupAssumption DEF HostTypeOK
<1>2. S \subseteq Group /\ g \in S
  <2>1. g <= g
    BY <1>1
  <2> QED
    BY <2>1, Zenon DEF HostTypeOK
<1>3. IsFiniteSet(S) /\ Cardinality(S) <= Cardinality(Group)
  BY <1>1, <1>2, FS_Subset
<1>4. Cardinality(S) \in Nat /\ Cardinality(Group) \in Nat /\ Cardinality(S) # 0
  BY <1>1, <1>2, <1>3, FS_CardinalityType, FS_EmptySet
<1> QED
  BY <1>1, <1>3, <1>4 DEF DetectedTable, Table

-----------------------------------------------------------------------------
(* The host. *)

LEMMA ApplyKeepsHost ==
  ASSUME HostTypeOK, RulesHaveRoutes, NEW p \in Policy, NEW d \in Data, NEW done \in 0 .. MarksLoaded,
         ApplyPBRPolicy(p, d, done)
  PROVE  HostTypeOK' /\ RulesHaveRoutes'
<1>1. d.mark \in Mark /\ d.table \in Table /\ d.group \in Group /\ d.group # NoGroup
  BY DataFields, GroupAssumption DEF NoGroup
<1>2. /\ present' = present
      /\ names' \subseteq Table \X Group
      /\ file' \in [Policy -> Data \cup {NoFile}]
      /\ marked' \in Mark \cup {NoMark}
  BY <1>1 DEF ApplyPBRPolicy, HostTypeOK
<1>3. /\ routes' \in [Table -> Group \cup {NoGroup}]
      /\ \A i \in Table : routes[i] # NoGroup => routes'[i] # NoGroup
      /\ done >= RoutedTable => routes'[d.table] # NoGroup
  BY <1>1 DEF ApplyPBRPolicy, RouteReplaced, HostTypeOK
<1>4. /\ rules' \subseteq rules \cup {<<d.mark, d.table>>}
      /\ done < RoutedTable => rules' = rules
  BY DEF ApplyPBRPolicy, RulesAfter, RoutedTable, RuleDeleted
<1>5. rules' \subseteq Mark \X Table
  BY <1>1, <1>4 DEF HostTypeOK
<1>6. RulesHaveRoutes'
  <2> SUFFICES ASSUME NEW x \in rules' PROVE routes'[x[2]] # NoGroup
    BY DEF RulesHaveRoutes
  <2>1. CASE x \in rules
    <3>1. x[2] \in Table /\ routes[x[2]] # NoGroup
      BY <2>1 DEF RulesHaveRoutes, HostTypeOK
    <3> QED
      BY <1>3, <3>1
  <2>2. CASE x \notin rules
    BY <1>3, <1>4, <2>2 DEF RoutedTable, MarksLoaded
  <2> QED
    BY <2>1, <2>2
<1> QED
  BY <1>2, <1>3, <1>5, <1>6 DEF HostTypeOK

LEMMA RemovalKeepsHost ==
  ASSUME HostTypeOK, RulesHaveRoutes, CleanupPBRRules \/ \E d \in Data : DisablePBRPolicy(d)
  PROVE  HostTypeOK' /\ RulesHaveRoutes'
<1>1. /\ rules' \subseteq rules /\ UNCHANGED <<present, names, routes>>
      /\ marked' \in {marked, NoMark}
      /\ file' = file \/ file' = [p \in Policy |-> NoFile]
  BY DEF CleanupPBRRules, DisablePBRPolicy
<1> QED
  BY <1>1 DEF HostTypeOK, RulesHaveRoutes

LEMMA HostKept ==
  ASSUME HostTypeOK, RulesHaveRoutes, PanelInv, [PBRNext]_pbrVars
  PROVE  HostTypeOK' /\ RulesHaveRoutes'
<1>1. CASE UNCHANGED hostVars
  BY <1>1 DEF hostVars, HostTypeOK, RulesHaveRoutes
<1>2. ASSUME NEW t \in Task, NEW o \in Outcome \cup {"killed"}, RunTask(t, o)
      PROVE  HostTypeOK' /\ RulesHaveRoutes'
  <2>1. task[t] \in PolicyTask \cup {Cleanup}
    BY <1>2 DEF RunTask, Run, PanelInv, TaskInv
  <2>2. CASE RunApply(t, o)
    <3>1. task[t].policy \in Policy /\ task[t].data \in Data
      BY <2>1, <2>2, TaskFields DEF RunApply
    <3> QED
      BY <2>2, <3>1, ApplyKeepsHost DEF RunApply
  <2>3. CASE RunDisable(t, o) /\ o # "failed"
    <3>1. task[t].data \in Data
      BY <2>1, <2>3, TaskFields DEF RunDisable
    <3> QED
      BY <2>3, <3>1, RemovalKeepsHost DEF RunDisable
  <2>4. CASE RunCleanup(t, o) /\ o # "failed"
    BY <2>4, RemovalKeepsHost DEF RunCleanup
  <2>5. CASE UNCHANGED hostVars
    BY <2>5, <1>1
  <2> QED
    BY <1>2, <2>2, <2>3, <2>4, <2>5 DEF RunTask, RunDisable, RunVerify, RunCleanup
<1>3. ASSUME NEW g \in Group, HostStep(g)
      PROVE  HostTypeOK' /\ RulesHaveRoutes'
  BY <1>3 DEF HostStep, AddressesChange, HostTypeOK, RulesHaveRoutes
<1> QED
  BY <1>1, <1>2, <1>3
     DEF PBRNext, pbrVars, Create, CreateAndApply, Begin, CheckActive, UndoCreate, CreateTask,
         UpdatePBRTask, UpdatePBRPolicy, DeletePBRPolicy, CleanUpNode, UpdatePBRStatus

-----------------------------------------------------------------------------
(* The tasks, by the steps that touch them.                                *)
TasksOK ==
  /\ count \in Task \cup {0}
  /\ task \in [Task -> PolicyTask \cup {NoTask, Cleanup}]
  /\ DeliveryTypeOK /\ TaskInv

LEMMA NewTaskKeeps ==
  ASSUME TasksOK, count + 1 \in Task, count' = count + 1, Offer({count + 1}, "node"),
         NEW x \in PolicyTask \cup {Cleanup}, task' = [task EXCEPT ![count + 1] = x]
  PROVE  TasksOK'
<1>1. /\ lane' = [t \in Task |-> IF t = count + 1 THEN "node" ELSE lane[t]]
      /\ outcomes' = outcomes
  BY DEF Offer
<1>2. DeliveryTypeOK'
  BY <1>1 DEF TasksOK, DeliveryTypeOK
<1>3. TaskInv'
  BY <1>1 DEF TasksOK, TaskInv
<1>4. task' \in [Task -> PolicyTask \cup {NoTask, Cleanup}]
  BY DEF TasksOK
<1> QED
  BY <1>2, <1>3, <1>4 DEF TasksOK

LEMMA TasksKept ==
  ASSUME PanelInv, [PBRNext]_pbrVars
  PROVE  TasksOK'
<1>0. TasksOK
  BY DEF PanelInv, PanelTypeOK, TasksOK
<1>1. CASE UNCHANGED <<vars, count, task>>
  BY <1>0, <1>1 DEF vars, TasksOK, DeliveryTypeOK, TaskInv
<1>2. ASSUME NEW q \in Request, CreateTask(q) PROVE TasksOK'
  <2> DEFINE a == IF call[q].op = "create" THEN "apply" ELSE call[q].op
             x == [action |-> a, policy |-> call[q].policy, data |-> call[q].data]
  <2>1. call[q] \in PolicyCall
    BY <1>2 DEF CreateTask, PanelInv, BusyHasCall
  <2>2. a \in Action
    BY <2>1, CallFields DEF Action
  <2>3. x \in PolicyTask
    BY <2>1, <2>2, CallFields, TaskFields
  <2>4. /\ count + 1 \in Task /\ count' = count + 1 /\ Offer({count + 1}, "node")
        /\ task' = [task EXCEPT ![count + 1] = x]
    BY <1>2 DEF CreateTask
  <2> QED
    BY <1>0, <2>3, <2>4, NewTaskKeeps
<1>3. CASE CleanUpNode
  BY <1>0, <1>3, NewTaskKeeps DEF CleanUpNode
<1>4. ASSUME NEW t \in Task, NEW o \in Outcome \cup {"killed"}, RunTask(t, o) PROVE TasksOK'
  BY <1>0, <1>4 DEF RunTask, Run, TasksOK, DeliveryTypeOK, TaskInv
<1>5. ASSUME NEW t \in Task, NEW o \in Outcome, UpdatePBRStatus(t, o) PROVE TasksOK'
  BY <1>0, <1>5 DEF UpdatePBRStatus, Record, TasksOK, DeliveryTypeOK, TaskInv
<1> QED
  BY <1>1, <1>2, <1>3, <1>4, <1>5
     DEF PBRNext, pbrVars, Create, CreateAndApply, Begin, CheckActive, UndoCreate,
         UpdatePBRTask, UpdatePBRPolicy, DeletePBRPolicy, HostStep

-----------------------------------------------------------------------------
(* The policies on the list. *)
PoliciesOK ==
  /\ status \in [Policy -> Status]
  /\ data \in [Policy -> Data \cup {NoData}]
  /\ ListedHasData

LEMMA CreateKeeps ==
  ASSUME HostTypeOK, PoliciesOK, NEW p \in Policy, NEW g \in Group, NEW m \in Mark,
         CreatePBRPolicy(p, g, m)
  PROVE  PoliciesOK' /\ data'[p] \in Data
<1> DEFINE d == [mark |-> m, table |-> DetectedTable(g), group |-> g]
<1>1. d \in Data
  BY Detected, DataFields DEF CreatePBRPolicy
<1>2. /\ status' = [status EXCEPT ![p] = "draft"]
      /\ data' = [data EXCEPT ![p] = d]
  BY DEF CreatePBRPolicy
<1>3. PoliciesOK'
  BY <1>1, <1>2 DEF PoliciesOK, Status, ListedHasData, Exists
<1> QED
  BY <1>1, <1>2, <1>3 DEF PoliciesOK

LEMMA ForgetKeeps ==
  ASSUME PoliciesOK, NEW p \in Policy, Forget(p)
  PROVE  PoliciesOK'
BY DEF Forget, PoliciesOK, Status, ListedHasData, Exists

LEMMA PoliciesKept ==
  ASSUME HostTypeOK, PanelInv, [PBRNext]_pbrVars
  PROVE  PoliciesOK'
<1>0. PoliciesOK
  BY DEF PanelInv, PanelTypeOK, PoliciesOK
<1>1. CASE UNCHANGED <<status, data>>
  BY <1>0, <1>1 DEF PoliciesOK, ListedHasData, Exists
<1>2. ASSUME NEW p \in Policy, NEW g \in Group, NEW m \in Mark, CreatePBRPolicy(p, g, m)
      PROVE  PoliciesOK'
  BY <1>0, <1>2, CreateKeeps
<1>3. ASSUME NEW q \in Request, UndoCreate(q) PROVE PoliciesOK'
  <2>1. call[q].policy \in Policy /\ Forget(call[q].policy)
    BY <1>3, CallFields DEF UndoCreate, PanelInv, BusyHasCall
  <2> QED
    BY <1>0, <2>1, ForgetKeeps
<1>4. ASSUME NEW q \in Request, UpdatePBRTask(q) PROVE PoliciesOK'
  <2>1. /\ status' = status \/ (/\ Exists(call[q].policy)
                                /\ status' = [status EXCEPT ![call[q].policy] = "applying"])
        /\ data' = data
    BY <1>4 DEF UpdatePBRTask, Noted
  <2>2. call[q].policy \in Policy
    BY <1>4, CallFields DEF UpdatePBRTask, PanelInv, BusyHasCall
  <2> QED
    BY <1>0, <2>1, <2>2 DEF PoliciesOK, Status, ListedHasData, Exists
<1>5. ASSUME NEW p \in Policy, NEW g \in Group, NEW on \in BOOLEAN, UpdatePBRPolicy(p, g, on)
      PROVE  PoliciesOK'
  <2> DEFINE d == [mark |-> data[p].mark, table |-> DetectedTable(g), group |-> g]
  <2>1. d \in Data
    BY <1>0, <1>5, Detected, DataFields DEF UpdatePBRPolicy, PoliciesOK, ListedHasData
  <2>2. data' = [data EXCEPT ![p] = d] /\ status' = status
    BY <1>5 DEF UpdatePBRPolicy
  <2> QED
    BY <1>0, <2>1, <2>2 DEF PoliciesOK, ListedHasData, Exists
<1>6. ASSUME NEW p \in Policy, DeletePBRPolicy(p) PROVE PoliciesOK'
  BY <1>0, <1>6, ForgetKeeps DEF DeletePBRPolicy
<1>7. ASSUME NEW t \in Task, NEW o \in Outcome, UpdatePBRStatus(t, o) PROVE PoliciesOK'
  <2>1. CASE UNCHANGED <<status, data>>
    BY <1>1, <2>1
  <2>2. CASE /\ task[t].action # "cleanup" /\ Exists(task[t].policy)
             /\ status' = [status EXCEPT ![task[t].policy] = StatusAfter(t, o)]
    <3>1. task[t] \in PolicyTask
      BY <1>7, <2>2, TaskFields DEF UpdatePBRStatus, Record, PanelInv, TaskInv
    <3>2. task[t].policy \in Policy /\ data' = data
      BY <1>7, <3>1, TaskFields DEF UpdatePBRStatus
    <3>3. StatusAfter(t, o) \in Status
      BY DEF StatusAfter, Status
    <3> QED
      BY <1>0, <2>2, <3>2, <3>3 DEF PoliciesOK, ListedHasData, Exists
  <2> QED
    BY <1>7, <2>1, <2>2 DEF UpdatePBRStatus
<1> QED
  BY <1>1, <1>2, <1>3, <1>4, <1>5, <1>6, <1>7
     DEF PBRNext, pbrVars, policies, Create, CreateAndApply, Begin, CheckActive, CreateTask,
         RunTask, CleanUpNode, HostStep

-----------------------------------------------------------------------------
(* The requests being handled. *)
HandlersOK ==
  /\ call \in [Request -> PolicyCall \cup {NoCall}]
  /\ step \in [Request -> Step]
  /\ BusyHasCall

LEMMA StepKeeps ==
  ASSUME HandlersOK, NEW q \in Request, NEW x \in Step, NEW c \in PolicyCall \cup {NoCall},
         step' = [step EXCEPT ![q] = x], call' = [call EXCEPT ![q] = c],
         x # "idle" => c \in PolicyCall
  PROVE  HandlersOK'
BY DEF HandlersOK, BusyHasCall

LEMMA HandlersKept ==
  ASSUME HostTypeOK, PanelInv, [PBRNext]_pbrVars
  PROVE  HandlersOK'
<1>0. HandlersOK /\ PoliciesOK
  BY DEF PanelInv, PanelTypeOK, HandlersOK, PoliciesOK
<1>1. CASE UNCHANGED handlers
  BY <1>0, <1>1 DEF handlers, HandlersOK, BusyHasCall
<1>2. ASSUME NEW q \in Request, NEW p \in Policy, NEW g \in Group, NEW m \in Mark,
             CreateAndApply(q, p, g, m)
      PROVE  HandlersOK'
  <2>1. data'[p] \in Data
    BY <1>0, <1>2, CreateKeeps DEF CreateAndApply
  <2>2. [op |-> "create", policy |-> p, data |-> data'[p]] \in PolicyCall
    BY <2>1, CallFields
  <2> QED
    BY <1>0, <1>2, <2>2, StepKeeps DEF CreateAndApply, Step
<1>3. ASSUME NEW q \in Request, NEW op \in Action, NEW p \in Policy, Begin(q, op, p)
      PROVE  HandlersOK'
  <2>1. [op |-> op, policy |-> p, data |-> data[p]] \in PolicyCall
    BY <1>0, <1>3, CallFields DEF Begin, PoliciesOK, ListedHasData
  <2>2. (IF op = "apply" THEN "check" ELSE "create") \in Step
    BY DEF Step
  <2> QED
    BY <1>0, <1>3, <2>1, <2>2, StepKeeps DEF Begin
<1>4. ASSUME NEW q \in Request, CheckActive(q) PROVE HandlersOK'
  <2>1. call[q] \in PolicyCall
    BY <1>0, <1>4 DEF CheckActive, HandlersOK, BusyHasCall
  <2>2. PICK x \in Step, c \in {call[q], NoCall} :
          /\ step' = [step EXCEPT ![q] = x] /\ call' = [call EXCEPT ![q] = c]
          /\ x # "idle" => c = call[q]
    BY <1>4 DEF CheckActive, Step
  <2> QED
    BY <1>0, <2>1, <2>2, StepKeeps
<1>5. ASSUME NEW q \in Request, UndoCreate(q) \/ UpdatePBRTask(q) PROVE HandlersOK'
  BY <1>0, <1>5, StepKeeps DEF UndoCreate, UpdatePBRTask, Step
<1>6. ASSUME NEW q \in Request, CreateTask(q) PROVE HandlersOK'
  BY <1>0, <1>6 DEF CreateTask, HandlersOK, BusyHasCall, Step
<1> QED
  BY <1>1, <1>2, <1>3, <1>4, <1>5, <1>6
     DEF PBRNext, pbrVars, Create, UpdatePBRPolicy, DeletePBRPolicy, RunTask, CleanUpNode,
         HostStep, UpdatePBRStatus

(* The Boolean parts. *)
FlagsOK == enabled \in [Policy -> BOOLEAN] /\ inOrder \in BOOLEAN

LEMMA FlagsKept ==
  ASSUME FlagsOK, [PBRNext]_pbrVars
  PROVE  FlagsOK'
<1>1. ASSUME NEW p \in Policy, NEW v \in BOOLEAN
      PROVE  [enabled EXCEPT ![p] = v] \in [Policy -> BOOLEAN]
  BY <1>1, Zenon DEF FlagsOK
<1>2. CASE UNCHANGED <<enabled, inOrder>>
  BY <1>2, Zenon DEF FlagsOK
<1>3. ASSUME NEW p, NEW v \in BOOLEAN, enabled' = [enabled EXCEPT ![p] = v], inOrder' = inOrder
      PROVE  FlagsOK'
  <2>1. CASE p \in Policy
    BY <1>1, <1>3, <2>1, Zenon DEF FlagsOK
  <2>2. CASE p \notin Policy
    <3>1. [enabled EXCEPT ![p] = v] = enabled
      BY <2>2 DEF FlagsOK
    <3> QED
      BY <1>3, <3>1, Zenon DEF FlagsOK
  <2> QED
    BY <2>1, <2>2
<1>4. ASSUME NEW p \in Policy, NEW g \in Group, NEW m \in Mark, CreatePBRPolicy(p, g, m), inOrder' = inOrder
      PROVE  FlagsOK'
  BY <1>3, <1>4, Zenon DEF CreatePBRPolicy
<1>5. ASSUME NEW p, Forget(p), inOrder' = inOrder PROVE FlagsOK'
  BY <1>3, <1>5, Zenon DEF Forget
<1>6. ASSUME NEW p \in Policy, NEW g \in Group, NEW on \in BOOLEAN, UpdatePBRPolicy(p, g, on)
      PROVE  FlagsOK'
  BY <1>3, <1>6, Zenon DEF UpdatePBRPolicy
<1>7. ASSUME NEW t \in Task, NEW o \in Outcome, UpdatePBRStatus(t, o) PROVE FlagsOK'
  <2> DEFINE v == enabled[task[t].policy] /\ StatusAfter(t, o) # "disabled"
  <2>1. v \in BOOLEAN
    BY Zenon
  <2>2. inOrder' \in BOOLEAN
    BY <1>7, Zenon DEF UpdatePBRStatus
  <2>3. enabled' = enabled \/ enabled' = [enabled EXCEPT ![task[t].policy] = v]
    BY <1>7, Zenon DEF UpdatePBRStatus
  <2>4. CASE task[t].policy \in Policy
    BY <1>1, <2>1, <2>2, <2>3, <2>4, Zenon DEF FlagsOK
  <2>5. CASE task[t].policy \notin Policy
    <3>1. [enabled EXCEPT ![task[t].policy] = v] = enabled
      BY <2>5 DEF FlagsOK
    <3> QED
      BY <2>2, <2>3, <3>1, Zenon DEF FlagsOK
  <2> QED
    BY <2>4, <2>5
<1> QED
  BY <1>2, <1>4, <1>5, <1>6, <1>7, Zenon
     DEF PBRNext, pbrVars, policies, Create, CreateAndApply, Begin, CheckActive, UndoCreate, CreateTask,
         UpdatePBRTask, DeletePBRPolicy, RunTask, CleanUpNode, HostStep

-----------------------------------------------------------------------------
(* A policy that is shown as applied or verified has earned it. *)
Earned(p) ==
  \E t \in Task : task[t].policy = p /\ task[t].action \in {"apply", "verify"}
                  /\ outcomes[t] \cap {"succeeded", "verified"} # {}

LEMMA EarnedStays ==
  ASSUME PanelInv, [PBRNext]_pbrVars, NEW p \in Policy, Earned(p)
  PROVE  Earned(p)'
<1>1. PICK t \in Task : /\ task[t].policy = p /\ task[t].action \in {"apply", "verify"}
                        /\ outcomes[t] \cap {"succeeded", "verified"} # {}
  BY DEF Earned
<1>2. CASE UNCHANGED <<outcomes, task>>
  BY <1>1, <1>2 DEF Earned
<1>3. CASE CleanUpNode \/ \E q \in Request : CreateTask(q)
  <2>1. t # count + 1
    BY <1>1, <1>3 DEF CleanUpNode, CreateTask, Offer, PanelInv, TaskInv
  <2>2. outcomes' = outcomes /\ task'[t] = task[t]
    BY <1>3, <2>1 DEF CleanUpNode, CreateTask, Offer, PanelInv, PanelTypeOK
  <2> QED
    BY <1>1, <2>2 DEF Earned
<1>4. CASE \E u \in Task, o \in Outcome \cup {"killed"} : RunTask(u, o)
  BY <1>1, <1>4 DEF RunTask, Run, Earned, PanelInv, DeliveryTypeOK
<1> QED
  BY <1>2, <1>3, <1>4
     DEF PBRNext, pbrVars, vars, Create, CreateAndApply, Begin, CheckActive, UndoCreate,
         UpdatePBRTask, UpdatePBRPolicy, DeletePBRPolicy, HostStep, UpdatePBRStatus, Record

LEMMA EarnedKept ==
  ASSUME PanelInv, AppliedIsEarned, [PBRNext]_pbrVars
  PROVE  AppliedIsEarned'
<1> SUFFICES ASSUME NEW p \in Policy, status'[p] \in {"applied", "verified"}
             PROVE  Earned(p)'
  BY DEF AppliedIsEarned, Earned
<1>1. CASE status[p] \in {"applied", "verified"}
  BY <1>1, EarnedStays DEF AppliedIsEarned, Earned
<1>2. ASSUME NEW t \in Task, NEW o \in Outcome, UpdatePBRStatus(t, o),
             status[p] \notin {"applied", "verified"}
      PROVE  Earned(p)'
  <2>1. task[t].policy = p /\ StatusAfter(t, o) = status'[p] /\ o \in outcomes[t]
    BY <1>2 DEF UpdatePBRStatus, Record, PanelInv, PanelTypeOK
  <2>2. task[t].action \in Action
    BY <1>2, <2>1, TaskFields DEF UpdatePBRStatus, PanelInv, TaskInv
  <2>3. task[t].action \in {"apply", "verify"} /\ o \in {"succeeded", "verified"}
    BY <2>1, <2>2 DEF StatusAfter, Action
  <2> QED
    BY <1>2, <2>1, <2>3, EarnedStays DEF Earned
<1>3. CASE UNCHANGED status
  BY <1>1, <1>3
<1>4. ASSUME NEW x \in Policy, NEW v \in {"draft", "deleted", "applying"}, status' = [status EXCEPT ![x] = v]
      PROVE  status[p] \in {"applied", "verified"}
  BY <1>4 DEF PanelInv, PanelTypeOK
<1>5. CASE \E q \in Request : UndoCreate(q) \/ UpdatePBRTask(q)
  <2>1. PICK q \in Request : UndoCreate(q) \/ UpdatePBRTask(q)
    BY <1>5
  <2>2. call[q].policy \in Policy
    BY <2>1, CallFields DEF UndoCreate, UpdatePBRTask, PanelInv, BusyHasCall
  <2> QED
    BY <2>1, <2>2, <1>1, <1>3, <1>4 DEF UndoCreate, Forget, UpdatePBRTask, Noted
<1> QED
  BY <1>1, <1>2, <1>3, <1>4, <1>5
     DEF PBRNext, pbrVars, policies, Create, CreateAndApply, CreatePBRPolicy, Begin, CheckActive, CreateTask,
         UpdatePBRPolicy, DeletePBRPolicy, Forget, RunTask, CleanUpNode, HostStep

-----------------------------------------------------------------------------
(* The policy applied last.  From here on a run, a result and a new task   *)
(* are known by what they do to the queue.                                 *)
LEMMA Numbers == \A t, u \in Task : t < u \/ u < t \/ t = u
OBVIOUS

(* Only the outcome of a run is put on record. *)
RecordedRan ==
  /\ result \in [Task -> Outcome \cup {"none"}]
  /\ \A t \in Task : result[t] = "none" \/ result[t] \in outcomes[t]

Added(n) ==
  /\ lane[n] = NoLane /\ UNCHANGED <<outcomes, result, hostVars, status, inOrder>>
  /\ \A t \in Task : t # n => task'[t] = task[t]

LEMMA NewTask ==
  ASSUME PanelInv, CleanUpNode \/ \E q \in Request : CreateTask(q)
  PROVE  \E n \in Task : Added(n)
<1>1. PICK n \in Task : /\ n = count + 1 /\ \E x : task' = [task EXCEPT ![n] = x]
                        /\ Offer({n}, "node") /\ UNCHANGED <<hostVars, status, inOrder>>
  BY DEF CleanUpNode, CreateTask, policies
<1>2. lane[n] = NoLane /\ UNCHANGED <<outcomes, result>>
  BY <1>1 DEF Offer
<1>3. \A t \in Task : t # n => task'[t] = task[t]
  BY <1>1 DEF PanelInv, PanelTypeOK
<1> QED
  BY <1>1, <1>2, <1>3, Zenon DEF Added

LEMMA RunOf ==
  ASSUME PanelInv, NEW t \in Task, NEW o \in Outcome \cup {"killed"}, RunTask(t, o)
  PROVE  /\ UNCHANGED <<lane, result, task, status, inOrder>>
         /\ outcomes' = [outcomes EXCEPT ![t] = @ \cup {o}]
         /\ \A u \in Task : outcomes[u] # {} => ~ t < u
<1>1. /\ lane[t] # NoLane
      /\ \A u \in Task : lane[u] = lane[t] => (u > t => outcomes[u] = {})
      /\ outcomes' = [outcomes EXCEPT ![t] = @ \cup {o}]
      /\ UNCHANGED <<lane, result>>
  BY DEF RunTask, Run
<1>2. \A u \in Task : outcomes[u] # {} => lane[u] = lane[t]
  BY <1>1 DEF PanelInv, TaskInv, DeliveryTypeOK
<1>3. UNCHANGED <<task, status, inOrder>>
  BY Zenon DEF RunTask, policies
<1> QED
  BY <1>1, <1>2, <1>3

LEMMA ResultOf ==
  ASSUME PanelInv, NEW t \in Task, NEW o \in Outcome, UpdatePBRStatus(t, o)
  PROVE  /\ o \in outcomes[t] /\ result' = [result EXCEPT ![t] = o]
         /\ UNCHANGED <<lane, outcomes, task, hostVars>>
         /\ inOrder' => inOrder /\ \A u \in Task : t < u => result[u] = "none"
<1>1. /\ o \in outcomes[t] /\ result' = [result EXCEPT ![t] = o]
      /\ UNCHANGED <<lane, outcomes>>
  BY DEF UpdatePBRStatus, Record
<1>2. UNCHANGED <<task, hostVars>>
  BY DEF UpdatePBRStatus
<1>3. inOrder' => inOrder /\ \A u \in Task : u > t => result[u] = "none"
  BY Zenon DEF UpdatePBRStatus
<1>4. \A u \in Task : t < u <=> u > t
  OBVIOUS
<1> QED
  BY <1>1, <1>2, <1>3, <1>4, Zenon

(* The steps of the panel alone never make a policy applied. *)
Quiet ==
  /\ UNCHANGED <<vars, task, names, routes, rules, marked, file, inOrder>>
  /\ \A p \in Policy : status'[p] = "applied" => status[p] = "applied"

LEMMA Steps ==
  ASSUME PanelInv, [PBRNext]_pbrVars
  PROVE  \/ \E n \in Task : Added(n)
         \/ \E t \in Task, o \in Outcome \cup {"killed"} : RunTask(t, o)
         \/ \E t \in Task, o \in Outcome : UpdatePBRStatus(t, o)
         \/ Quiet
<1>1. ASSUME NEW p \in Policy, NEW v \in Status, v # "applied", status' = [status EXCEPT ![p] = v]
      PROVE  \A x \in Policy : status'[x] = "applied" => status[x] = "applied"
  BY <1>1 DEF PanelInv, PanelTypeOK
<1>2. ASSUME NEW p \in Policy, NEW g \in Group, NEW m \in Mark, CreatePBRPolicy(p, g, m)
      PROVE  \A x \in Policy : status'[x] = "applied" => status[x] = "applied"
  BY <1>1, <1>2 DEF CreatePBRPolicy, Status
<1>3. ASSUME NEW p \in Policy, Forget(p)
      PROVE  \A x \in Policy : status'[x] = "applied" => status[x] = "applied"
  BY <1>1, <1>3 DEF Forget, Status
<1>4. CASE \E p \in Policy, g \in Group, m \in Mark :
             Create(p, g, m) \/ \E q \in Request : CreateAndApply(q, p, g, m)
  <2>1. \A x \in Policy : status'[x] = "applied" => status[x] = "applied"
    BY <1>2, <1>4, Zenon DEF Create, CreateAndApply
  <2>2. UNCHANGED <<vars, task, names, routes, rules, marked, file, inOrder>>
    BY <1>4, Zenon DEF Create, CreateAndApply, hostVars
  <2> QED
    BY <2>1, <2>2, Zenon DEF Quiet
<1>5. ASSUME NEW q \in Request, UndoCreate(q) \/ UpdatePBRTask(q) PROVE Quiet
  <2>1. call[q].policy \in Policy
    BY <1>5, CallFields DEF UndoCreate, UpdatePBRTask, PanelInv, BusyHasCall
  <2>2. CASE UndoCreate(q)
    <3>1. \A x \in Policy : status'[x] = "applied" => status[x] = "applied"
      BY <1>3, <2>1, <2>2 DEF UndoCreate
    <3>2. UNCHANGED <<vars, task, names, routes, rules, marked, file, inOrder>>
      BY <2>2, Zenon DEF UndoCreate, hostVars
    <3> QED
      BY <3>1, <3>2, Zenon DEF Quiet
  <2>3. CASE UpdatePBRTask(q)
    <3>1. status' = status \/ status' = [status EXCEPT ![call[q].policy] = "applying"]
      BY <2>3 DEF UpdatePBRTask, Noted
    <3>2. \A x \in Policy : status'[x] = "applied" => status[x] = "applied"
      BY <1>1, <2>1, <3>1 DEF Status
    <3>3. UNCHANGED <<vars, task, names, routes, rules, marked, file, inOrder>>
      BY <2>3, Zenon DEF UpdatePBRTask, hostVars
    <3> QED
      BY <3>2, <3>3, Zenon DEF Quiet
  <2> QED
    BY <1>5, <2>2, <2>3
<1>6. ASSUME NEW p \in Policy, DeletePBRPolicy(p) PROVE Quiet
  <2>1. \A x \in Policy : status'[x] = "applied" => status[x] = "applied"
    BY <1>3, <1>6 DEF DeletePBRPolicy
  <2>2. UNCHANGED <<vars, task, names, routes, rules, marked, file, inOrder>>
    BY <1>6, Zenon DEF DeletePBRPolicy, hostVars
  <2> QED
    BY <2>1, <2>2, Zenon DEF Quiet
<1>7. CASE \/ UNCHANGED pbrVars
           \/ \E q \in Request, op \in Action, p \in Policy : Begin(q, op, p)
           \/ \E q \in Request : CheckActive(q)
           \/ \E p \in Policy, g \in Group, on \in BOOLEAN : UpdatePBRPolicy(p, g, on)
           \/ \E g \in Group : HostStep(g)
  <2>1. UNCHANGED <<vars, task, names, routes, rules, marked, file, inOrder>>
    BY <1>7, Zenon DEF pbrVars, Begin, CheckActive, UpdatePBRPolicy, HostStep, AddressesChange, hostVars
  <2>2. status' = status
    BY <1>7, Zenon DEF pbrVars, policies, Begin, CheckActive, UpdatePBRPolicy, HostStep
  <2> QED
    BY <2>1, <2>2, Zenon DEF Quiet
<1>8. CASE CleanUpNode \/ \E q \in Request : CreateTask(q)
  BY <1>8, NewTask
<1> QED
  BY <1>4, <1>5, <1>6, <1>7, <1>8, Zenon DEF PBRNext

LEMMA RecordedKept ==
  ASSUME PanelInv, RecordedRan, [PBRNext]_pbrVars
  PROVE  RecordedRan'
<1>1. ASSUME NEW t \in Task, NEW o \in Outcome \cup {"killed"}, RunTask(t, o) PROVE RecordedRan'
  BY <1>1, RunOf DEF RecordedRan, PanelInv, DeliveryTypeOK
<1>2. ASSUME NEW t \in Task, NEW o \in Outcome, UpdatePBRStatus(t, o) PROVE RecordedRan'
  BY <1>2, ResultOf DEF RecordedRan
<1>3. CASE UNCHANGED <<outcomes, result>>
  BY <1>3 DEF RecordedRan
<1> QED
  BY <1>1, <1>2, <1>3, Steps DEF Quiet, Added, vars

(* Nothing but verifications was begun after t. *)
Undisturbed(t) == \A u \in Task : t < u /\ outcomes[u] # {} => task[u].action = "verify"

Whole(t) ==
  /\ marked = task[t].data.mark
  /\ <<task[t].data.mark, task[t].data.table>> \in rules
  /\ routes[task[t].data.table] = task[t].data.group

Works(t) ==
  task[t].action = "apply" /\ outcomes[t] = {"succeeded"} /\ Undisturbed(t) => Whole(t)

(* An apply that succeeds gets through all its commands, *)
LEMMA RunApplies ==
  ASSUME HostTypeOK, PanelInv, NEW t \in Task, task[t].action = "apply", RunTask(t, "succeeded")
  PROVE  Whole(t)'
<1>1. PICK p, d : p = task[t].policy /\ d = task[t].data
  OBVIOUS
<1>2. p \in Policy /\ d \in Data /\ task' = task
  <2>1. task[t] \in PolicyTask
    BY TaskFields DEF RunTask, Run, PanelInv, TaskInv
  <2> QED
    BY <1>1, <2>1, TaskFields DEF RunTask
<1>3. ApplyPBRPolicy(p, d, MarksLoaded)
  BY <1>1 DEF RunTask, RunApply, RunDisable, RunVerify, RunCleanup
<1>4. /\ marked' = d.mark /\ rules' = rules \cup {<<d.mark, d.table>>}
      /\ routes' = [routes EXCEPT ![d.table] = d.group]
  BY <1>3 DEF ApplyPBRPolicy, RulesAfter, RouteReplaced, RoutedTable, RuleDeleted, RuleAdded,
              MarksDeleted, MarksLoaded
<1>5. d.table \in Table
  BY <1>2, DataFields
<1>6. routes'[d.table] = d.group
  BY <1>4, <1>5 DEF HostTypeOK
<1> QED
  BY <1>1, <1>2, <1>4, <1>6 DEF Whole

(* and a verification leaves the host as it is. *)
LEMMA WorksKept ==
  ASSUME HostTypeOK, PanelInv, NEW t \in Task, Works(t), [PBRNext]_pbrVars
  PROVE  Works(t)'
<1>1. ASSUME NEW n \in Task, Added(n) PROVE Works(t)'
  <2>1. outcomes[n] = {} /\ UNCHANGED <<outcomes, routes, rules, marked>>
    BY <1>1 DEF Added, PanelInv, TaskInv, hostVars
  <2>2. CASE t = n
    BY <2>1, <2>2 DEF Works
  <2>3. CASE t # n
    <3>1. task'[t] = task[t]
      BY <1>1, <2>3 DEF Added
    <3>2. Undisturbed(t)' => Undisturbed(t)
      BY <1>1, <2>1 DEF Added, Undisturbed
    <3> QED
      BY <2>1, <3>1, <3>2 DEF Works, Whole
  <2> QED
    BY <2>2, <2>3
<1>2. ASSUME NEW u \in Task, NEW o \in Outcome \cup {"killed"}, RunTask(u, o) PROVE Works(t)'
  <2>1. /\ UNCHANGED <<lane, task>> /\ outcomes' = [outcomes EXCEPT ![u] = @ \cup {o}]
        /\ \A v \in Task : outcomes[v] # {} => ~ u < v
    BY <1>2, RunOf
  <2>2. outcomes'[u] = outcomes[u] \cup {o} /\ \A v \in Task : v # u => outcomes'[v] = outcomes[v]
    BY <2>1 DEF PanelInv, DeliveryTypeOK
  <2> SUFFICES ASSUME task[t].action = "apply", outcomes'[t] = {"succeeded"}, Undisturbed(t)'
               PROVE  Whole(t)'
    BY <2>1 DEF Works
  <2>3. CASE u = t
    <3>1. o = "succeeded"
      BY <2>2, <2>3
    <3> QED
      BY <1>2, <2>3, <3>1, RunApplies
  <2>4. CASE u < t
    BY <2>1, <2>2, <2>4
  <2>5. CASE t < u
    <3>1. outcomes'[u] # {} /\ outcomes'[t] = outcomes[t]
      BY <2>2, <2>5
    <3>2. task[u].action = "verify"
      BY <2>1, <2>5, <3>1 DEF Undisturbed
    <3>3. UNCHANGED hostVars
      BY <1>2, <3>2 DEF RunTask, RunApply, RunDisable, RunVerify, RunCleanup
    <3>4. Undisturbed(t)
      BY <2>1, <2>2 DEF Undisturbed
    <3>5. Whole(t)
      BY <3>1, <3>4 DEF Works
    <3> QED
      BY <2>1, <3>3, <3>5 DEF Whole, hostVars
  <2> QED
    BY <2>3, <2>4, <2>5, Numbers
<1>3. CASE UNCHANGED <<outcomes, task, routes, rules, marked>>
  BY <1>3 DEF Works, Undisturbed, Whole
<1>4. ASSUME NEW u \in Task, NEW o \in Outcome, UpdatePBRStatus(u, o) PROVE Works(t)'
  BY <1>3, <1>4, ResultOf DEF hostVars
<1> QED
  BY <1>1, <1>2, <1>3, <1>4, Steps DEF Quiet, vars

(* While results come in order, the policy of an apply that did not        *)
(* succeed, with nothing but verifications behind it, is not called        *)
(* applied.                                                                *)
Denied(t) ==
  task[t].action = "apply" /\ result[t] \notin {"none", "succeeded"} /\ Undisturbed(t)
    => status[task[t].policy] # "applied"

LEMMA DeniedKept ==
  ASSUME PanelInv, RecordedRan, NEW t \in Task, inOrder => Denied(t), [PBRNext]_pbrVars, inOrder'
  PROVE  Denied(t)'
<1>1. ASSUME NEW n \in Task, Added(n) PROVE Denied(t)'
  <2>1. outcomes[n] = {} /\ UNCHANGED <<outcomes, result, status>>
    BY <1>1 DEF Added, PanelInv, TaskInv
  <2>2. Denied(t)
    BY <1>1, Zenon DEF Added
  <2>3. CASE t = n
    BY <2>1, <2>3 DEF Denied, RecordedRan
  <2>4. CASE t # n
    <3>1. task'[t] = task[t]
      BY <1>1, <2>4 DEF Added
    <3>2. Undisturbed(t)' => Undisturbed(t)
      BY <1>1, <2>1 DEF Added, Undisturbed
    <3> QED
      BY <2>1, <2>2, <3>1, <3>2 DEF Denied
  <2> QED
    BY <2>3, <2>4
<1>2. ASSUME NEW u \in Task, NEW o \in Outcome \cup {"killed"}, RunTask(u, o) PROVE Denied(t)'
  <2>1. /\ UNCHANGED <<result, task, status>> /\ outcomes' = [outcomes EXCEPT ![u] = @ \cup {o}]
    BY <1>2, RunOf
  <2>2. Denied(t)
    BY <1>2, RunOf, Zenon
  <2>3. Undisturbed(t)' => Undisturbed(t)
    BY <2>1 DEF Undisturbed, PanelInv, DeliveryTypeOK
  <2> QED
    BY <2>1, <2>2, <2>3 DEF Denied
<1>3. ASSUME NEW u \in Task, NEW o \in Outcome, UpdatePBRStatus(u, o) PROVE Denied(t)'
  <2>1. /\ o \in outcomes[u] /\ result' = [result EXCEPT ![u] = o]
        /\ UNCHANGED <<outcomes, task>>
    BY <1>3, ResultOf
  <2>2. Denied(t) /\ \A v \in Task : u < v => result[v] = "none"
    BY <1>3, ResultOf, Zenon
  <2>3. task[u] \in PolicyTask \cup {Cleanup}
    BY <2>1 DEF PanelInv, TaskInv
  <2>4. \/ status' = status /\ ~ (task[u].action # "cleanup" /\ Exists(task[u].policy))
        \/ /\ task[u].policy \in Policy
           /\ status' = [status EXCEPT ![task[u].policy] = StatusAfter(u, o)]
    BY <1>3, <2>3, TaskFields DEF UpdatePBRStatus
  <2> SUFFICES ASSUME task[t].action = "apply", result'[t] \notin {"none", "succeeded"}, Undisturbed(t)
               PROVE  status'[task[t].policy] # "applied"
    BY <2>1 DEF Denied, Undisturbed
  <2>5. CASE u = t
    <3>1. o # "succeeded" /\ StatusAfter(u, o) = "failed"
      BY <2>1, <2>5 DEF StatusAfter, RecordedRan
    <3> QED
      BY <2>4, <2>5, <3>1 DEF Exists, PanelInv, PanelTypeOK
  <2>6. CASE u < t
    BY <2>1, <2>2, <2>6
  <2>7. CASE t < u
    <3>0. result'[t] = result[t]
      <4>1. t # u
        BY <2>7
      <4> QED
        BY <2>1, <4>1 DEF RecordedRan
    <3>1. status[task[t].policy] # "applied"
      BY <2>2, <3>0, Zenon DEF Denied
    <3>2. StatusAfter(u, o) # "applied"
      BY <2>1, <2>7 DEF Undisturbed, StatusAfter
    <3>3. task[t] \in PolicyTask
      BY <2>1, <2>7, TaskFields DEF RecordedRan, PanelInv, TaskInv
    <3> QED
      BY <2>4, <3>1, <3>2, <3>3, TaskFields DEF PanelInv, PanelTypeOK
  <2> QED
    BY <2>5, <2>6, <2>7, Numbers
<1>4. CASE Quiet
  <2>1. UNCHANGED <<outcomes, result, task>> /\ \A p \in Policy : status'[p] = "applied" => status[p] = "applied"
    BY <1>4, Zenon DEF Quiet, vars
  <2>2. Denied(t)
    BY <1>4, Zenon DEF Quiet
  <2>3. result[t] # "none" => task[t] \in PolicyTask \cup {Cleanup}
    BY DEF RecordedRan, PanelInv, TaskInv
  <2> QED
    BY <2>1, <2>2, <2>3, TaskFields DEF Denied, Undisturbed
<1> QED
  BY <1>1, <1>2, <1>3, <1>4, Steps

-----------------------------------------------------------------------------
Inv == HostTypeOK /\ RulesHaveRoutes /\ PanelInv /\ AppliedIsEarned

LEMMA InvHolds == PBRSpec => []Inv
<1>1. PBRInit => Inv
  <2> SUFFICES ASSUME PBRInit PROVE Inv
    OBVIOUS
  <2>1. HostTypeOK /\ RulesHaveRoutes
    BY DEF PBRInit, HostInit, HostTypeOK, RulesHaveRoutes
  <2>2. PanelTypeOK
    BY DEF PBRInit, PanelTypeOK, Status, Step
  <2>3. DeliveryTypeOK /\ TaskInv
    BY DEF PBRInit, Init, DeliveryTypeOK, TaskInv
  <2>4. ListedHasData /\ BusyHasCall /\ AppliedIsEarned
    BY DEF PBRInit, ListedHasData, BusyHasCall, AppliedIsEarned, Exists
  <2> QED
    BY <2>1, <2>2, <2>3, <2>4 DEF Inv, PanelInv
<1>2. Inv /\ [PBRNext]_pbrVars => Inv'
  <2> SUFFICES ASSUME Inv, [PBRNext]_pbrVars PROVE Inv'
    OBVIOUS
  <2>1. TasksOK' /\ PoliciesOK' /\ HandlersOK'
    BY TasksKept, PoliciesKept, HandlersKept DEF Inv
  <2>2. PanelInv'
    BY <2>1 DEF TasksOK, PoliciesOK, HandlersOK, PanelInv, PanelTypeOK
  <2> QED
    BY <2>2, HostKept, EarnedKept DEF Inv
<1> QED
  BY <1>1, <1>2, PTL DEF PBRSpec

LastInv ==
  /\ RecordedRan
  /\ \A t \in Task : Works(t)
  /\ inOrder => \A t \in Task : Denied(t)

LEMMA LastInvHolds == PBRSpec => []LastInv
<1>1. PBRInit => LastInv
  <2> SUFFICES ASSUME PBRInit PROVE LastInv
    OBVIOUS
  <2>1. RecordedRan
    BY DEF PBRInit, Init, RecordedRan
  <2>2. ASSUME NEW t \in Task PROVE Works(t) /\ Denied(t)
    BY <2>2 DEF PBRInit, NoTask, Works, Denied
  <2> QED
    BY <2>1, <2>2, Zenon DEF LastInv
<1>2. Inv /\ LastInv /\ [PBRNext]_pbrVars => LastInv'
  <2> SUFFICES ASSUME Inv, LastInv, [PBRNext]_pbrVars PROVE LastInv'
    OBVIOUS
  <2>1. HostTypeOK /\ PanelInv /\ RecordedRan
    BY Zenon DEF Inv, LastInv
  <2>2. RecordedRan'
    BY <2>1, RecordedKept
  <2>3. ASSUME NEW t \in Task PROVE Works(t)'
    <3>1. Works(t)
      BY Zenon DEF LastInv
    <3> QED
      BY <2>1, <3>1, WorksKept
  <2>4. ASSUME inOrder', NEW t \in Task PROVE Denied(t)'
    <3>1. inOrder => Denied(t)
      BY Zenon DEF LastInv
    <3> QED
      BY <2>1, <2>4, <3>1, DeniedKept
  <2> QED
    BY <2>2, <2>3, <2>4, Zenon DEF LastInv
<1> QED
  BY <1>1, <1>2, InvHolds, PTL DEF PBRSpec

(* Every variable of the panel and the host keeps its type.                *)
THEOREM TypeCorrect == PBRSpec => []TypeOK
<1>1. PBRInit => FlagsOK
  BY Zenon DEF PBRInit, FlagsOK
<1>2. Inv /\ FlagsOK => TypeOK
  BY Zenon DEF Inv, PanelInv, PanelTypeOK, FlagsOK, TypeOK, PolicyTask, PolicyCall
<1> QED
  BY <1>1, <1>2, InvHolds, FlagsKept, PTL DEF PBRSpec

(* However far an apply_pbr_policy got (applyPBRPolicy), the rules it left *)
(* lead to tables with a route.                                            *)
THEOREM RulesAlwaysHaveRoutes == PBRSpec => []RulesHaveRoutes
<1>1. Inv => RulesHaveRoutes
  BY DEF Inv
<1> QED
  BY <1>1, InvHolds, PTL

(* A policy is never called applied or verified (updatePBRStatusForTask-   *)
(* Locked, updatePBRTask) before a run of it on the host succeeded.        *)
THEOREM AppliedOnlyWhenEarned == PBRSpec => []AppliedIsEarned
<1>1. Inv => AppliedIsEarned
  BY DEF Inv
<1> QED
  BY <1>1, InvHolds, PTL

(* The policy that was applied last, and is taken for applied, is whole on *)
(* its host (applyPBRPolicy, updatePBRStatusForTaskLocked), whatever was   *)
(* cut short before and asked for since.                                   *)
THEOREM AppliedLastWorks == PBRSpec => []AppliedWorks
<1>1. Inv /\ LastInv => AppliedWorks
  <2> SUFFICES ASSUME Inv, LastInv, NEW t \in Task, LastApply(t), TakenForApplied(t)
               PROVE  Whole(t)
    BY DEF AppliedWorks, Whole
  <2>1. \A u \in Task : t < u <=> u > t
    OBVIOUS
  <2>2. Undisturbed(t)
    BY <2>1, Zenon DEF LastApply, Undisturbed
  <2>3. task[t].action = "apply" /\ outcomes[t] = {result[t]}
    BY DEF LastApply
  <2>4. result[t] # "none"
    BY <2>3 DEF Inv, PanelInv, DeliveryTypeOK
  <2>5. result[t] = "succeeded"
    BY <2>2, <2>3, <2>4, Zenon DEF TakenForApplied, LastInv, Denied
  <2> QED
    BY <2>2, <2>3, <2>5, Zenon DEF LastInv, Works
<1> QED
  BY <1>1, InvHolds, LastInvHolds, PTL
=============================================================================
