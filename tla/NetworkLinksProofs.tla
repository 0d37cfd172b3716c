--------------------------- MODULE NetworkLinksProofs ---------------------------
(***************************************************************************)
(* A link between two EasyTier nodes is never shown as active before their *)
(* services have met.  Whatever may yet make the panel show it so is       *)
(* traced back to such a meeting: the stored status, the heartbeats, the   *)
(* outcomes of verifications, and what requests under way are to note.     *)
(***************************************************************************)
EXTENDS NetworkLinks, TLAPS

TaskRecord ==
  [action : Op \cup {"cleanup", "restart"}, end : End, secret : Secret \cup {NoSecret},
   of : Task]
CallRecord ==
  [op : Op \cup {"quick", "profile", "status"}, secret : Secret \cup {NoSecret},
   ends : SUBSET End, first : Task \cup {0}]
Report == [status : {"none", "active", "inactive"}, ok : BOOLEAN]

LinkOK == link \in [type : {"easytier", "direct"}, status : Status]

TasksOK ==
  /\ count \in Task \cup {0}
  /\ task \in [Task -> TaskRecord \cup {NoTask}]
  /\ lane \in [Task -> Lane \cup {NoLane}]
  /\ outcomes \in [Task -> SUBSET (Outcome \cup {"killed"})]
  /\ result \in [Task -> Outcome \cup {"none"}]
  /\ \A t \in Task : /\ lane[t] # NoLane => t <= count /\ task[t] \in TaskRecord /\ task[t].end = lane[t]
                     /\ lane[t] = NoLane => task[t] = NoTask
                     /\ outcomes[t] # {} => lane[t] # NoLane
                     /\ result[t] # "none" => outcomes[t] # {}

(* What a request under way is about to note, and what it still has to     *)
(* send, fits its operation.                                               *)
HandlersOK ==
  /\ call \in [Request -> CallRecord \cup {NoCall}]
  /\ step \in [Request -> {"idle", "tasks", "note"}]
  /\ \A q \in Request :
       /\ step[q] # "idle" => call[q] \in CallRecord
       /\ step[q] = "tasks" => call[q].op # "status"
       /\ step[q] = "note" => call[q].op # "profile" /\ (call[q].op = "status" => ~ EasyTier)

HostsOK == \A f \in {unit, loaded, service} : f \in [End -> Secret \cup {NoSecret}]
ReportOK == report \in [End -> Report]
SecretsOK == drawn \in Secret \cup {0} /\ profiles \subseteq Secret
LastOK == lastMet \in Task \cup {0}
FlagsOK == boots \in [End -> BOOLEAN] /\ once \in BOOLEAN

USE TaskAssumption, SecretAssumption, LaneAssumption, OutcomeAssumption

LEMMA Truths == Connected \in BOOLEAN
BY Zenon DEF Connected

LEMMA TaskFields ==
  /\ \A x \in TaskRecord : x.action \in Op \cup {"cleanup", "restart"} /\ x.end \in End
                           /\ x.secret \in Secret \cup {NoSecret}
  /\ \A a \in Op \cup {"cleanup", "restart"}, e \in End, s \in Secret \cup {NoSecret}, t \in Task :
       [action |-> a, end |-> e, secret |-> s, of |-> t] \in TaskRecord
BY DEF TaskRecord

LEMMA CallFields ==
  /\ \A c \in CallRecord : /\ c.op \in Op \cup {"quick", "profile", "status"}
                           /\ c.secret \in Secret \cup {NoSecret} /\ c.ends \subseteq End
                           /\ c.first \in Task \cup {0}
  /\ \A a \in Op \cup {"quick", "profile", "status"}, s \in Secret \cup {NoSecret}, E \in SUBSET End,
        t \in Task \cup {0} :
       /\ [op |-> a, secret |-> s, ends |-> E, first |-> t] \in CallRecord
       /\ [op |-> a, secret |-> s, ends |-> E, first |-> t].op = a
BY DEF CallRecord

-----------------------------------------------------------------------------
(* The tasks. *)

LEMMA PayloadFits ==
  ASSUME HandlersOK, NEW q \in Request, NEW e \in End, step[q] = "tasks", count + 1 \in Task
  PROVE  Payload(q, e) \in TaskRecord /\ Payload(q, e).of \in Task /\ Payload(q, e).end = e
<1> DEFINE a == IF call[q].op \in {"quick", "profile"} THEN "apply" ELSE call[q].op
           o == IF call[q].first = 0 THEN count + 1 ELSE call[q].first
<1>1. call[q] \in CallRecord /\ call[q].op # "status"
  BY DEF HandlersOK
<1>2. a \in Op
  BY <1>1, CallFields DEF Op
<1>3. o \in Task
  BY <1>1, CallFields
<1>4. Payload(q, e) = [action |-> a, end |-> e, secret |-> call[q].secret, of |-> o]
  BY DEF Payload
<1> QED
  BY <1>1, <1>2, <1>3, <1>4, CallFields, TaskFields

(* What enqueueing one task does. *)
Added(x) ==
  /\ count \in Nat /\ count + 1 \in Task /\ count' = count + 1
  /\ x \in TaskRecord /\ x.end \in End
  /\ task'[count + 1] = x /\ lane'[count + 1] = x.end
  /\ lane[count + 1] = NoLane /\ task[count + 1] = NoTask
  /\ outcomes[count + 1] = {} /\ result[count + 1] = "none"
  /\ \A t \in Task : t # count + 1 => task'[t] = task[t] /\ lane'[t] = lane[t]
  /\ UNCHANGED <<outcomes, result>>

LEMMA NewTaskKeeps ==
  ASSUME TasksOK, count + 1 \in Task, count' = count + 1, NEW e \in End, Offer({count + 1}, e),
         NEW x \in TaskRecord, x.end = e, task' = [task EXCEPT ![count + 1] = x]
  PROVE  TasksOK' /\ Added(x)
<1>1. /\ lane' = [t \in Task |-> IF t = count + 1 THEN e ELSE lane[t]]
      /\ UNCHANGED <<outcomes, result>> /\ lane[count + 1] = NoLane
  BY DEF Offer
<1>2. count \in Nat
  BY DEF TasksOK
<1>3. /\ task'[count + 1] = x /\ lane'[count + 1] = e
      /\ \A t \in Task : t # count + 1 => task'[t] = task[t] /\ lane'[t] = lane[t]
  BY <1>1 DEF TasksOK
<1>4. outcomes[count + 1] = {} /\ result[count + 1] = "none" /\ task[count + 1] = NoTask
  BY <1>1 DEF TasksOK
<1>5. Added(x)
  BY <1>1, <1>2, <1>3, <1>4 DEF Added
<1>6. /\ task' \in [Task -> TaskRecord \cup {NoTask}] /\ lane' \in [Task -> Lane \cup {NoLane}]
      /\ count' \in Task \cup {0}
  BY <1>1 DEF TasksOK
<1>7. ASSUME NEW t \in Task
      PROVE  /\ lane'[t] # NoLane => t <= count' /\ task'[t] \in TaskRecord /\ task'[t].end = lane'[t]
             /\ lane'[t] = NoLane => task'[t] = NoTask
             /\ outcomes'[t] # {} => lane'[t] # NoLane
             /\ result'[t] # "none" => outcomes'[t] # {}
  <2>1. CASE t = count + 1
    <3>1. lane'[t] = e /\ e # NoLane /\ task'[t] = x /\ outcomes'[t] = {} /\ result'[t] = "none"
      BY <1>1, <1>3, <1>4, <2>1
    <3>2. t <= count'
      BY <1>2, <2>1
    <3> QED
      BY <3>1, <3>2
  <2>2. CASE t # count + 1
    BY <1>1, <1>2, <1>3, <2>2 DEF TasksOK
  <2> QED
    BY <2>1, <2>2
<1>8. TasksOK'
  BY <1>1, <1>6, <1>7 DEF TasksOK
<1> QED
  BY <1>5, <1>8

LEMMA NewTask ==
  ASSUME TasksOK, HandlersOK
  PROVE  /\ \A q \in Request, e \in End :
              CreateTask(q, e) => TasksOK' /\ Added(Payload(q, e)) /\ Payload(q, e).of \in Task
         /\ \A a \in {"cleanup", "restart"}, e \in End :
              CreateOtherTask(a, e) =>
                TasksOK' /\ Added([action |-> a, end |-> e, secret |-> NoSecret, of |-> count + 1])
<1>1. ASSUME NEW q \in Request, NEW e \in End, CreateTask(q, e)
      PROVE  TasksOK' /\ Added(Payload(q, e)) /\ Payload(q, e).of \in Task
  <2>1. Payload(q, e) \in TaskRecord /\ Payload(q, e).end = e /\ Payload(q, e).of \in Task
    BY <1>1, PayloadFits DEF CreateTask
  <2> QED
    BY <1>1, <2>1, NewTaskKeeps DEF CreateTask
<1>2. ASSUME NEW a \in {"cleanup", "restart"}, NEW e \in End, CreateOtherTask(a, e)
      PROVE  TasksOK' /\ Added([action |-> a, end |-> e, secret |-> NoSecret, of |-> count + 1])
  <2> DEFINE x == [action |-> a, end |-> e, secret |-> NoSecret, of |-> count + 1]
  <2>1. x \in TaskRecord /\ x.end = e
    BY <1>2, TaskFields DEF CreateOtherTask
  <2> QED
    BY <1>2, <2>1, NewTaskKeeps DEF CreateOtherTask
<1> QED
  BY <1>1, <1>2

(* The runs, and the results. *)
Ran(t, o) ==
  /\ lane[t] # NoLane /\ t <= count
  /\ UNCHANGED <<lane, result, task, count>>
  /\ outcomes'[t] = outcomes[t] \cup {o}
  /\ \A u \in Task : u # t => outcomes'[u] = outcomes[u]
  /\ \A u \in Task : lane[u] = lane[t] => /\ u < t => result[u] # "none"
                                          /\ u > t => outcomes[u] = {}

LEMMA RunOfTask ==
  ASSUME TasksOK, NEW t \in Task, NEW o \in Outcome \cup {"killed"}, RunTask(t, o)
  PROVE  TasksOK' /\ Ran(t, o)
<1>1. /\ lane[t] # NoLane
      /\ UNCHANGED <<lane, result, task, count>>
      /\ outcomes' = [outcomes EXCEPT ![t] = @ \cup {o}]
      /\ \A u \in Task : lane[u] = lane[t] => /\ u < t => result[u] # "none"
                                              /\ u > t => outcomes[u] = {}
  BY DEF RunTask, Run
<1>2. Ran(t, o)
  BY <1>1 DEF Ran, TasksOK
<1>3. TasksOK'
  BY <1>1 DEF TasksOK
<1> QED
  BY <1>2, <1>3

Recorded(t, o) ==
  /\ o \in outcomes[t] /\ result'[t] = o
  /\ UNCHANGED <<lane, outcomes, task, count>>
  /\ \A u \in Task : u # t => result'[u] = result[u]

LEMMA ResultOfTask ==
  ASSUME TasksOK, NEW t \in Task, NEW o \in Outcome, UpdateNetworkLinkStatus(t, o)
  PROVE  TasksOK' /\ Recorded(t, o)
<1>1. /\ UNCHANGED <<lane, outcomes, task, count>> /\ o \in outcomes[t]
      /\ result' = [result EXCEPT ![t] = o]
  BY DEF UpdateNetworkLinkStatus, Record
<1> QED
  BY <1>1 DEF Recorded, TasksOK

(* The steps of which the tasks are no part. *)
LEMMA TaskSteps ==
  ASSUME [LinkNext]_linkVars
  PROVE  \/ UNCHANGED <<lane, outcomes, result, count, task>>
         \/ \E q \in Request, e \in End : CreateTask(q, e)
         \/ \E a \in {"cleanup", "restart"}, e \in End : CreateOtherTask(a, e)
         \/ \E t \in Task, o \in Outcome \cup {"killed"} : RunTask(t, o)
         \/ \E t \in Task, o \in Outcome : UpdateNetworkLinkStatus(t, o)
BY DEF LinkNext, linkVars, vars, PostProfile, UpdateNetworkProfile, DeleteNetworkProfile, QuickApplyNetwork,
       CreateDirectLink, NetworkProfileApply, NetworkLinkReapply, NetworkLinkVerify,
       NetworkLinkDisable, DeleteNetworkLink, NoteTasks, ServiceRestarts, Reboot, Heartbeat

LEMMA TasksKept ==
  ASSUME TasksOK, HandlersOK, [LinkNext]_linkVars
  PROVE  TasksOK'
<1>1. CASE UNCHANGED <<lane, outcomes, result, count, task>>
  BY <1>1 DEF TasksOK
<1>2. CASE \/ \E q \in Request, e \in End : CreateTask(q, e)
           \/ \E a \in {"cleanup", "restart"}, e \in End : CreateOtherTask(a, e)
  BY <1>2, NewTask
<1>3. CASE \E t \in Task, o \in Outcome \cup {"killed"} : RunTask(t, o)
  BY <1>3, RunOfTask
<1>4. CASE \E t \in Task, o \in Outcome : UpdateNetworkLinkStatus(t, o)
  BY <1>4, ResultOfTask
<1> QED
  BY <1>1, <1>2, <1>3, <1>4, TaskSteps

-----------------------------------------------------------------------------
(* The requests under way. *)

LEMMA CallKeeps ==
  ASSUME HandlersOK, EasyTier' = EasyTier, NEW q \in Request, NEW c \in CallRecord \cup {NoCall},
         NEW x \in {"idle", "tasks", "note"},
         call' = [call EXCEPT ![q] = c], step' = [step EXCEPT ![q] = x],
         x # "idle" => c \in CallRecord,
         x = "tasks" => c.op # "status",
         x = "note" => c.op # "profile" /\ (c.op = "status" => ~ EasyTier)
  PROVE  HandlersOK'
BY DEF HandlersOK

LEMMA BeginKeeps ==
  ASSUME HandlersOK, EasyTier' = EasyTier, NEW q \in Request,
         NEW op \in Op \cup {"quick", "profile", "status"},
         NEW s \in Secret \cup {NoSecret}, NEW E \in SUBSET End, Begin(q, op, s, E),
         op = "status" => E = {} /\ ~ EasyTier,
         op = "profile" => E # {}
  PROVE  HandlersOK'
<1> DEFINE c == [op |-> op, secret |-> s, ends |-> E, first |-> 0]
           x == IF E = {} THEN "note" ELSE "tasks"
<1>1. c \in CallRecord /\ c.op = op
  BY CallFields
<1>2. call' = [call EXCEPT ![q] = c] /\ step' = [step EXCEPT ![q] = x]
  BY DEF Begin
<1>3. x \in {"tasks", "note"} /\ (x = "note" => E = {})
  OBVIOUS
<1> HIDE DEF c, x
<1>4. /\ x = "tasks" => c.op # "status" \/ E = {}
      /\ x = "note" => c.op # "profile" /\ (c.op = "status" => ~ EasyTier)
  BY <1>1, <1>3
<1>5. x = "tasks" => E # {}
  BY DEF x
<1> QED
  BY <1>1, <1>2, <1>3, <1>4, <1>5, CallKeeps

LEMMA HandlersKept ==
  ASSUME TasksOK, HandlersOK, LinkOK, [LinkNext]_linkVars
  PROVE  HandlersOK'
<1>0. EasyTier' = EasyTier
  BY DEF EasyTier, LinkOK, LinkNext, linkVars, PostProfile, UpdateNetworkProfile, DeleteNetworkProfile,
         QuickApplyNetwork, CreateDirectLink, NetworkProfileApply, NetworkLinkReapply, NetworkLinkVerify,
         NetworkLinkDisable, DeleteNetworkLink, CreateTask, NoteTasks, CreateOtherTask, RunTask,
         ServiceRestarts, Reboot, Heartbeat, UpdateNetworkLinkStatus
<1>1. CASE UNCHANGED handlers
  BY <1>0, <1>1 DEF handlers, HandlersOK
<1>2. ASSUME NEW q \in Request, NEW s \in Secret,
             QuickApplyNetwork(q, s) \/ NetworkLinkReapply(q, s)
               \/ \E E \in SUBSET End : NetworkProfileApply(q, s, E)
      PROVE  HandlersOK'
  <2>1. CASE QuickApplyNetwork(q, s)
    BY <1>0, <2>1, BeginKeeps DEF QuickApplyNetwork
  <2>2. CASE NetworkLinkReapply(q, s)
    <3>1. Begin(q, "apply", s, End) \/ (~ EasyTier /\ Begin(q, "status", NoSecret, {}))
      BY <2>2 DEF NetworkLinkReapply
    <3>2. CASE Begin(q, "apply", s, End)
      BY <1>0, <3>2, BeginKeeps DEF Op
    <3>3. CASE ~ EasyTier /\ Begin(q, "status", NoSecret, {})
      <4>1. PICK E \in SUBSET End : E = {}
        OBVIOUS
      <4>2. Begin(q, "status", NoSecret, E)
        BY <3>3, <4>1
      <4> QED
        BY <1>0, <3>3, <4>1, <4>2, BeginKeeps
    <3> QED
      BY <3>1, <3>2, <3>3
  <2>3. ASSUME NEW E \in SUBSET End, NetworkProfileApply(q, s, E) PROVE HandlersOK'
    BY <1>0, <2>3, BeginKeeps DEF NetworkProfileApply
  <2> QED
    BY <1>2, <2>1, <2>2, <2>3
<1>3. ASSUME NEW q \in Request, NetworkLinkVerify(q) \/ NetworkLinkDisable(q)
      PROVE  HandlersOK'
  <2>1. PICK op \in {"verify", "direct", "disable"}, E \in SUBSET End : Begin(q, op, NoSecret, E)
    BY <1>3 DEF NetworkLinkVerify, NetworkLinkDisable, End
  <2> QED
    BY <1>0, <2>1, BeginKeeps DEF Op
<1>4. ASSUME NEW q \in Request, NEW e \in End, CreateTask(q, e) PROVE HandlersOK'
  <2> DEFINE rest == call[q].ends \ {e}
             c == [call[q] EXCEPT !.ends = rest, !.first = Payload(q, e).of]
  <2>1. call[q] \in CallRecord /\ call[q].op # "status"
    BY <1>4 DEF CreateTask, HandlersOK
  <2>2. task'[count + 1] = Payload(q, e) /\ Payload(q, e).of \in Task
    BY <1>4, PayloadFits DEF CreateTask, TasksOK
  <2>3. c \in CallRecord /\ c.op = call[q].op
    BY <2>1, <2>2 DEF CallRecord
  <2>4. CASE rest = {} /\ call[q].op = "profile"
    <3>1. step' = [step EXCEPT ![q] = "idle"] /\ call' = [call EXCEPT ![q] = NoCall]
      BY <1>4, <2>4 DEF CreateTask
    <3> QED
      BY <1>0, <3>1, CallKeeps
  <2>5. CASE ~ (rest = {} /\ call[q].op = "profile")
    <3>1. /\ step' = [step EXCEPT ![q] = IF rest = {} THEN "note" ELSE step[q]]
          /\ call' = [call EXCEPT ![q].ends = rest, ![q].first = task'[count + 1].of]
          /\ step[q] = "tasks"
      BY <1>4, <2>5 DEF CreateTask
    <3>2. call' = [call EXCEPT ![q] = c]
      BY <2>2, <3>1 DEF HandlersOK
    <3>3. PICK x \in {"tasks", "note"} :
            step' = [step EXCEPT ![q] = x] /\ (x = "note" => call[q].op # "profile")
      BY <2>5, <3>1
    <3> QED
      BY <1>0, <2>1, <2>3, <3>2, <3>3, CallKeeps
  <2> QED
    BY <2>4, <2>5
<1>5. ASSUME NEW q \in Request, NoteTasks(q) PROVE HandlersOK'
  BY <1>0, <1>5, CallKeeps DEF NoteTasks
<1> QED
  BY <1>1, <1>2, <1>3, <1>4, <1>5
     DEF LinkNext, linkVars, PostProfile, UpdateNetworkProfile, DeleteNetworkProfile,
         CreateDirectLink, DeleteNetworkLink, CreateOtherTask, RunTask,
         ServiceRestarts, Reboot, Heartbeat, UpdateNetworkLinkStatus

-----------------------------------------------------------------------------
(* The link, the secrets, the hosts and their heartbeats. *)

LEMMA LinkKept ==
  ASSUME LinkOK, [LinkNext]_linkVars
  PROVE  LinkOK' /\ EasyTier' = EasyTier
<1>1. \E x \in Status : link' = [link EXCEPT !.status = x]
  <2>1. CASE link' = link
    BY <2>1 DEF LinkOK
  <2>2. CASE CreateDirectLink \/ DeleteNetworkLink
    BY <2>2 DEF CreateDirectLink, DeleteNetworkLink, Status
  <2>3. ASSUME NEW q \in Request, NoteTasks(q), link' # link PROVE \E x \in Status : link' = [link EXCEPT !.status = x]
    <3>1. NotedStatus(q) \in Status
      BY DEF NotedStatus, Status
    <3> QED
      BY <2>3, <3>1 DEF NoteTasks
  <2>4. ASSUME NEW t \in Task, NEW o \in Outcome, UpdateNetworkLinkStatus(t, o), link' # link
        PROVE \E x \in Status : link' = [link EXCEPT !.status = x]
    <3>1. LinkStatusAfter(t, o) \in Status
      BY DEF LinkStatusAfter, Status
    <3> QED
      BY <2>4, <3>1 DEF UpdateNetworkLinkStatus
  <2> QED
    BY <2>1, <2>2, <2>3, <2>4
       DEF LinkNext, linkVars, PostProfile, UpdateNetworkProfile, DeleteNetworkProfile, QuickApplyNetwork,
           NetworkProfileApply, NetworkLinkReapply, NetworkLinkVerify, NetworkLinkDisable, CreateTask,
           CreateOtherTask, RunTask, ServiceRestarts, Reboot, Heartbeat
<1> QED
  BY <1>1 DEF LinkOK, EasyTier

LEMMA SecretsKept ==
  ASSUME SecretsOK, [LinkNext]_linkVars
  PROVE  SecretsOK'
BY DEF SecretsOK, Draw, LinkNext, linkVars, PostProfile, CreateNetworkProfile, UpdateNetworkProfile,
       DeleteNetworkProfile, QuickApplyNetwork, CreateDirectLink, NetworkProfileApply, NetworkLinkReapply,
       NetworkLinkVerify, NetworkLinkDisable, DeleteNetworkLink, CreateTask, NoteTasks,
       CreateOtherTask, RunTask, ServiceRestarts, Reboot, Heartbeat, UpdateNetworkLinkStatus

LEMMA HostsKept ==
  ASSUME HostsOK, TasksOK, [LinkNext]_linkVars
  PROVE  HostsOK'
<1>1. CASE UNCHANGED <<unit, loaded, service>>
  BY <1>1 DEF HostsOK
<1>2. ASSUME NEW t \in Task, NEW o \in Outcome \cup {"killed"}, RunTask(t, o) PROVE HostsOK'
  <2> DEFINE e == task[t].end
  <2>1. e \in End /\ task[t].secret \in Secret \cup {NoSecret}
    BY <1>2, TaskFields DEF RunTask, Run, TasksOK
  <2> HIDE DEF e
  <2>2. ASSUME NEW done \in 0 .. LooksActive, ApplyNetworkProfile(e, task[t].secret, done) PROVE HostsOK'
    BY <2>1, <2>2 DEF ApplyNetworkProfile, Restarts, HostsOK
  <2>3. CASE RunDisable(t, e, o) \/ RunCleanup(t, e, o) \/ RunRestart(t, e, o) \/ RunVerify(t, e, o)
    BY <2>1, <2>3 DEF RunDisable, RunCleanup, RunRestart, RunVerify, Restarts, HostsOK
  <2> QED
    BY <1>2, <2>2, <2>3 DEF RunTask, RunApply, e
<1>3. ASSUME NEW e \in End, ServiceRestarts(e) \/ Reboot(e) PROVE HostsOK'
  BY <1>3 DEF ServiceRestarts, Reboot, Restarts, HostsOK
<1> QED
  BY <1>1, <1>2, <1>3
     DEF LinkNext, linkVars, hosts, running, PostProfile, UpdateNetworkProfile, DeleteNetworkProfile,
         QuickApplyNetwork, CreateDirectLink, NetworkProfileApply, NetworkLinkReapply, NetworkLinkVerify,
         NetworkLinkDisable, DeleteNetworkLink, CreateTask, NoteTasks, CreateOtherTask, Heartbeat,
         UpdateNetworkLinkStatus

LEMMA ReportKept ==
  ASSUME ReportOK, [LinkNext]_linkVars
  PROVE  ReportOK'
<1>1. CASE UNCHANGED report
  BY <1>1 DEF ReportOK
<1>2. ASSUME NEW e \in End, Heartbeat(e) PROVE ReportOK'
  <2>1. PICK ok \in {FALSE, Connected} :
          report' = [report EXCEPT ![e] =
                       [status |-> IF service[e] # NoSecret THEN "active" ELSE "inactive", ok |-> ok]]
    BY <1>2 DEF Heartbeat
  <2>2. ok \in BOOLEAN
    BY Truths
  <2>3. [status |-> IF service[e] # NoSecret THEN "active" ELSE "inactive", ok |-> ok] \in Report
    BY <2>2 DEF Report
  <2> QED
    BY <2>1, <2>3 DEF ReportOK
<1> QED
  BY <1>1, <1>2
     DEF LinkNext, linkVars, PostProfile, UpdateNetworkProfile, DeleteNetworkProfile, QuickApplyNetwork,
         CreateDirectLink, NetworkProfileApply, NetworkLinkReapply, NetworkLinkVerify,
         NetworkLinkDisable, DeleteNetworkLink, CreateTask, NoteTasks, CreateOtherTask, RunTask,
         ServiceRestarts, Reboot, UpdateNetworkLinkStatus

LEMMA FlagsKept ==
  ASSUME FlagsOK, TasksOK, [LinkNext]_linkVars
  PROVE  FlagsOK'
<1>1. CASE UNCHANGED <<boots, once>>
  BY <1>1, Zenon DEF FlagsOK
<1>3. \A e \in End, b \in BOOLEAN : [boots EXCEPT ![e] = b] \in [End -> BOOLEAN]
  BY Zenon DEF FlagsOK
<1>4. ASSUME NEW t \in Task, NEW o \in Outcome \cup {"killed"}, RunTask(t, o) PROVE FlagsOK'
  <2>1. task[t].end \in End
    BY <1>4, TaskFields DEF RunTask, Run, TasksOK
  <2>2. boots' \in {boots, [boots EXCEPT ![task[t].end] = TRUE], [boots EXCEPT ![task[t].end] = FALSE]}
    BY <1>4 DEF RunTask, RunApply, ApplyNetworkProfile, RunDisable, RunCleanup, RunRestart, RunVerify
  <2>3. once' = once
    BY <1>4, Zenon DEF RunTask
  <2> QED
    BY <2>1, <2>2, <2>3, <1>3, Zenon DEF FlagsOK
<1>5. ASSUME NEW t \in Task, NEW o \in Outcome, UpdateNetworkLinkStatus(t, o) PROVE FlagsOK'
  BY <1>5, Zenon DEF UpdateNetworkLinkStatus, hosts, running, FlagsOK
<1> QED
  BY <1>1, <1>4, <1>5, Zenon
     DEF LinkNext, linkVars, hosts, running, PostProfile, UpdateNetworkProfile, DeleteNetworkProfile, QuickApplyNetwork,
         CreateDirectLink, NetworkProfileApply, NetworkLinkReapply, NetworkLinkVerify,
         NetworkLinkDisable, DeleteNetworkLink, CreateTask, NoteTasks, CreateOtherTask, Heartbeat,
         ServiceRestarts, Reboot

-----------------------------------------------------------------------------
(* When the two services were last connected: the number of tasks there    *)
(* were then only grows, and is that of now while they are connected.      *)

LastInv == LastOK /\ lastMet <= count /\ (Connected => lastMet = count)

(* Nothing runs before there is a task. *)
Unused ==
  count = 0 => \A e \in End : unit[e] = NoSecret /\ loaded[e] = NoSecret /\ service[e] = NoSecret

LEMMA HostSteps ==
  ASSUME [LinkNext]_linkVars
  PROVE  /\ Remember \/ UNCHANGED <<service, count, lastMet>>
         /\ \/ UNCHANGED <<unit, loaded, service, boots>>
            \/ \E t \in Task, o \in Outcome \cup {"killed"} : RunTask(t, o)
            \/ \E e \in End : ServiceRestarts(e) \/ Reboot(e)
BY DEF LinkNext, linkVars, hosts, running, PostProfile, UpdateNetworkProfile, DeleteNetworkProfile,
       QuickApplyNetwork, CreateDirectLink, NetworkProfileApply, NetworkLinkReapply, NetworkLinkVerify,
       NetworkLinkDisable, DeleteNetworkLink, CreateTask, NoteTasks, CreateOtherTask, RunTask,
       ServiceRestarts, Reboot, Heartbeat, UpdateNetworkLinkStatus

LEMMA CountGrows ==
  ASSUME TasksOK, HandlersOK, [LinkNext]_linkVars
  PROVE  count \in Nat /\ count' \in Nat /\ count <= count'
<1>1. count \in Nat
  BY DEF TasksOK
<1>2. count' = count \/ count' = count + 1
  BY TaskSteps DEF CreateTask, CreateOtherTask, RunTask, UpdateNetworkLinkStatus
<1> QED
  BY <1>1, <1>2

LEMMA LastKept ==
  ASSUME TasksOK, HandlersOK, LastInv, [LinkNext]_linkVars
  PROVE  LastInv' /\ lastMet \in Nat /\ lastMet' \in Nat /\ lastMet <= lastMet'
<1>1. /\ count \in Nat /\ count' \in Nat /\ count <= count' /\ lastMet \in Nat
      /\ count' \in Task \cup {0}
  BY CountGrows, TasksKept DEF LastInv, LastOK, TasksOK
<1>2. CASE UNCHANGED <<service, count, lastMet>>
  BY <1>1, <1>2 DEF LastInv, LastOK, Connected
<1>3. CASE Remember /\ Connected'
  BY <1>1, <1>3 DEF Remember, LastInv, LastOK
<1>4. CASE Remember /\ ~ Connected'
  BY <1>1, <1>4 DEF Remember, LastInv, LastOK
<1> QED
  BY <1>2, <1>3, <1>4, HostSteps

LEMMA UnusedKept ==
  ASSUME TasksOK, HandlersOK, HostsOK, Unused, [LinkNext]_linkVars
  PROVE  Unused'
<1> SUFFICES ASSUME count' = 0
             PROVE  \A e \in End : unit'[e] = NoSecret /\ loaded'[e] = NoSecret /\ service'[e] = NoSecret
  BY DEF Unused
<1>1. count = 0
  BY CountGrows
<1>2. \A e \in End : unit[e] = NoSecret /\ loaded[e] = NoSecret /\ service[e] = NoSecret
  BY <1>1 DEF Unused
<1>3. ~ \E t \in Task, o \in Outcome \cup {"killed"} : RunTask(t, o)
  BY <1>1, RunOfTask DEF Ran
<1>4. CASE UNCHANGED <<unit, loaded, service, boots>>
  BY <1>2, <1>4
<1>5. ASSUME NEW e \in End, ServiceRestarts(e) \/ Reboot(e)
      PROVE  \A f \in End : unit'[f] = NoSecret /\ loaded'[f] = NoSecret /\ service'[f] = NoSecret
  BY <1>2, <1>5 DEF ServiceRestarts, Reboot, Restarts, HostsOK
<1> QED
  BY <1>3, <1>4, <1>5, HostSteps

-----------------------------------------------------------------------------
(* What may make the panel show the link as active: that the services have *)
(* met stays so, and each of these shows that they have.  A verification   *)
(* that succeeds does so after it was asked for.                           *)
Met == lastMet # 0
ReportsHaveMet == \A e \in End : report[e].ok => Met
StoredHasMet == EasyTier /\ link.status = "active" => Met
VerifiedIsFresh == \A t \in Task : task[t].action = "verify" /\ "succeeded" \in outcomes[t] => lastMet >= t
MetOK == LastInv /\ Unused /\ ReportsHaveMet /\ StoredHasMet /\ VerifiedIsFresh

DataOK == LinkOK /\ TasksOK /\ HandlersOK /\ HostsOK /\ ReportOK /\ SecretsOK

LEMMA DataKept ==
  ASSUME DataOK, [LinkNext]_linkVars
  PROVE  DataOK'
BY LinkKept, TasksKept, HandlersKept, HostsKept, ReportKept, SecretsKept DEF DataOK

LEMMA Meeting ==
  ASSUME DataOK, MetOK, [LinkNext]_linkVars
  PROVE  (Met => Met') /\ (Connected => Met)
<1>1. Met => Met'
  BY LastKept DEF Met, DataOK, MetOK
<1>2. Connected => count # 0
  BY DEF Connected, MetOK, Unused, End
<1> QED
  BY <1>1, <1>2 DEF Met, MetOK, LastInv

LEMMA ReportsKept ==
  ASSUME DataOK, MetOK, [LinkNext]_linkVars
  PROVE  ReportsHaveMet'
<1>0. Met => Met'
  BY Meeting
<1>1. CASE UNCHANGED report
  BY <1>0, <1>1 DEF MetOK, ReportsHaveMet
<1>2. ASSUME NEW e \in End, Heartbeat(e) PROVE ReportsHaveMet'
  <2>1. PICK ok \in {FALSE, Connected} :
          report' = [report EXCEPT ![e] =
                       [status |-> IF service[e] # NoSecret THEN "active" ELSE "inactive", ok |-> ok]]
    BY <1>2 DEF Heartbeat
  <2>2. report'[e].ok = ok /\ \A f \in End \ {e} : report'[f] = report[f]
    BY <2>1 DEF DataOK, ReportOK
  <2>3. ok => Met
    BY Meeting
  <2> QED
    BY <1>0, <2>2, <2>3 DEF MetOK, ReportsHaveMet
<1> QED
  BY <1>1, <1>2
     DEF LinkNext, linkVars, PostProfile, UpdateNetworkProfile, DeleteNetworkProfile, QuickApplyNetwork,
         CreateDirectLink, NetworkProfileApply, NetworkLinkReapply, NetworkLinkVerify,
         NetworkLinkDisable, DeleteNetworkLink, CreateTask, NoteTasks, CreateOtherTask, RunTask,
         ServiceRestarts, Reboot, UpdateNetworkLinkStatus

LEMMA VerifiedKept ==
  ASSUME DataOK, MetOK, [LinkNext]_linkVars
  PROVE  VerifiedIsFresh'
<1>0. lastMet \in Nat /\ lastMet' \in Nat /\ lastMet <= lastMet'
  BY LastKept DEF DataOK, MetOK
<1>1. CASE UNCHANGED <<task, outcomes>>
  BY <1>0, <1>1 DEF MetOK, VerifiedIsFresh
<1>2. CASE \/ \E q \in Request, e \in End : CreateTask(q, e)
           \/ \E a \in {"cleanup", "restart"}, e \in End : CreateOtherTask(a, e)
  <2>1. PICK x : Added(x)
    BY <1>2, NewTask DEF DataOK
  <2>2. /\ outcomes' = outcomes /\ outcomes[count + 1] = {}
        /\ \A t \in Task \ {count + 1} : task'[t] = task[t]
    BY <2>1 DEF Added
  <2> QED
    BY <1>0, <2>2 DEF MetOK, VerifiedIsFresh
<1>3. ASSUME NEW u \in Task, NEW o \in Outcome \cup {"killed"}, RunTask(u, o) PROVE VerifiedIsFresh'
  <2>1. Ran(u, o)
    BY <1>3, RunOfTask DEF DataOK
  <2>2. task' = task /\ \A t \in Task : outcomes'[t] = IF t = u THEN outcomes[t] \cup {o} ELSE outcomes[t]
    BY <2>1 DEF Ran
  <2>3. task[u].action = "verify" /\ o = "succeeded" => Connected
    BY <1>3 DEF RunTask, RunApply, RunDisable, RunCleanup, RunRestart, RunVerify
  <2>4. Connected => lastMet >= u
    BY <2>1 DEF Ran, MetOK, LastInv
  <2>5. ASSUME NEW t \in Task, task[t].action = "verify", "succeeded" \in outcomes'[t]
        PROVE  lastMet >= t
    <3>1. CASE "succeeded" \in outcomes[t]
      BY <2>5, <3>1 DEF MetOK, VerifiedIsFresh
    <3>2. CASE "succeeded" \notin outcomes[t]
      <4>1. t = u /\ o = "succeeded"
        BY <2>2, <2>5, <3>2
      <4> QED
        BY <2>3, <2>4, <2>5, <4>1
    <3> QED
      BY <3>1, <3>2
  <2> QED
    BY <1>0, <2>2, <2>5 DEF VerifiedIsFresh
<1> QED
  BY <1>1, <1>2, <1>3, TaskSteps DEF UpdateNetworkLinkStatus, Record

(* How a step may write the status of a link between EasyTier services. *)
LEMMA StatusSteps ==
  ASSUME DataOK, EasyTier, [LinkNext]_linkVars
  PROVE  \/ UNCHANGED link
         \/ link'.status # "active" /\ UNCHANGED <<result, once>>
         \/ \E t \in Task, o \in Outcome : /\ UpdateNetworkLinkStatus(t, o)
                                           /\ task[t].action \in {"verify", "direct"}
                                           /\ link'.status = LinkStatusAfter(t, o)
<1>1. ASSUME CreateDirectLink PROVE FALSE
  BY <1>1 DEF CreateDirectLink
<1>2. ASSUME DeleteNetworkLink PROVE link'.status # "active" /\ UNCHANGED <<result, once>>
  BY <1>2 DEF DeleteNetworkLink, vars, DataOK, LinkOK
<1>3. ASSUME NEW q \in Request, NoteTasks(q), link' # link
      PROVE  link'.status # "active" /\ UNCHANGED <<result, once>>
  <2>1. call[q].op \in Op \cup {"quick"}
    BY <1>3, CallFields DEF NoteTasks, DataOK, HandlersOK, Op
  <2>2. NotedStatus(q) # "active"
    BY <2>1 DEF NotedStatus, Op
  <2>3. link'.status = NotedStatus(q) /\ UNCHANGED <<result, once>>
    BY <1>3 DEF NoteTasks, vars, DataOK, LinkOK
  <2> QED
    BY <2>2, <2>3
<1>4. ASSUME NEW t \in Task, NEW o \in Outcome, UpdateNetworkLinkStatus(t, o), link' # link
      PROVE  /\ task[t].action \in {"verify", "direct"}
             /\ link'.status = LinkStatusAfter(t, o)
  BY <1>4 DEF UpdateNetworkLinkStatus, DataOK, LinkOK
<1> QED
  BY <1>1, <1>2, <1>3, <1>4
     DEF LinkNext, linkVars, PostProfile, UpdateNetworkProfile, DeleteNetworkProfile, QuickApplyNetwork,
         NetworkProfileApply, NetworkLinkReapply, NetworkLinkVerify,
         NetworkLinkDisable, CreateTask, CreateOtherTask, RunTask, ServiceRestarts, Reboot, Heartbeat

LEMMA StoredKept ==
  ASSUME DataOK, MetOK, [LinkNext]_linkVars
  PROVE  StoredHasMet'
<1>0. (Met => Met') /\ EasyTier' = EasyTier
  BY Meeting, LinkKept DEF DataOK
<1>1. ASSUME NEW t \in Task, NEW o \in Outcome, UpdateNetworkLinkStatus(t, o), LinkStatusAfter(t, o) = "active"
      PROVE  Met
  <2>1. task[t].action = "verify" /\ "succeeded" \in outcomes[t]
    BY <1>1 DEF LinkStatusAfter, UpdateNetworkLinkStatus, Record
  <2> QED
    BY <2>1 DEF MetOK, VerifiedIsFresh, Met
<1> QED
  BY <1>0, <1>1, StatusSteps DEF MetOK, StoredHasMet

-----------------------------------------------------------------------------
(* What a stored "active" rests on: a verification that is the last of its *)
(* end to have a result.  A node answers its tasks in order, so that a     *)
(* later answer of the same end, had there been one, would have come later.*)
InOrder ==
  \A t, u \in Task : lane[t] = lane[u] /\ u > t /\ outcomes[u] # {} => result[t] # "none"

LastAnswer(w) ==
  /\ task[w].action = "verify" /\ "succeeded" \in outcomes[w] /\ result[w] # "none"
  /\ \A u \in Task : u > w /\ lane[u] = lane[w] /\ task[u].action = "verify" => result[u] = "none"

Rests == EasyTier /\ link.status = "active" => \E w \in Task : LastAnswer(w)

LEMMA Numbers ==
  \A t, u \in Task : (u > t => u # t /\ ~ t > u) /\ (u # t /\ ~ u > t => t > u)
OBVIOUS

LEMMA InOrderKept ==
  ASSUME DataOK, InOrder, [LinkNext]_linkVars
  PROVE  InOrder'
<1>1. CASE UNCHANGED <<lane, outcomes, result, count, task>>
  BY <1>1 DEF InOrder
<1>2. CASE \/ \E q \in Request, e \in End : CreateTask(q, e)
           \/ \E a \in {"cleanup", "restart"}, e \in End : CreateOtherTask(a, e)
  <2>1. PICK x : Added(x)
    BY <1>2, NewTask DEF DataOK
  <2>2. \A t \in Task : t > count + 1 => outcomes[t] = {}
    BY <2>1 DEF Added, DataOK, TasksOK
  <2>3. ASSUME NEW t \in Task, NEW u \in Task, lane'[t] = lane'[u], u > t, outcomes'[u] # {}
        PROVE  result'[t] # "none"
    <3>1. u # count + 1 /\ outcomes[u] # {}
      BY <2>1, <2>3 DEF Added
    <3>2. t # count + 1
      BY <2>1, <2>2, <2>3, <3>1 DEF Added
    <3> QED
      BY <2>1, <2>3, <3>1, <3>2 DEF Added, InOrder
  <2> QED
    BY <2>3 DEF InOrder
<1>3. ASSUME NEW w \in Task, NEW o \in Outcome \cup {"killed"}, RunTask(w, o) PROVE InOrder'
  <2>1. Ran(w, o)
    BY <1>3, RunOfTask DEF DataOK
  <2>2. ASSUME NEW t \in Task, NEW u \in Task, lane[t] = lane[u], u > t, outcomes'[u] # {}
        PROVE  result[t] # "none"
    <3>1. CASE u = w
      BY <2>1, <2>2, <3>1 DEF Ran
    <3>2. CASE u # w
      BY <2>1, <2>2, <3>2 DEF Ran, InOrder
    <3> QED
      BY <3>1, <3>2
  <2> QED
    BY <2>1, <2>2 DEF InOrder, Ran
<1>4. ASSUME NEW w \in Task, NEW o \in Outcome, UpdateNetworkLinkStatus(w, o) PROVE InOrder'
  <2>1. Recorded(w, o) /\ o # "none"
    BY <1>4, ResultOfTask DEF DataOK
  <2> QED
    BY <2>1 DEF Recorded, InOrder
<1> QED
  BY <1>1, <1>2, <1>3, <1>4, TaskSteps

LEMMA AnswerKept ==
  ASSUME DataOK, NEW w \in Task, LastAnswer(w), [LinkNext]_linkVars,
         \A t \in Task : task[t].action = "verify" => result'[t] = result[t]
  PROVE  LastAnswer(w)'
<1>1. CASE UNCHANGED <<lane, outcomes, result, count, task>>
  BY <1>1 DEF LastAnswer
<1>2. CASE \/ \E q \in Request, e \in End : CreateTask(q, e)
           \/ \E a \in {"cleanup", "restart"}, e \in End : CreateOtherTask(a, e)
  <2>1. PICK x : Added(x)
    BY <1>2, NewTask DEF DataOK
  <2>2. w # count + 1
    BY <2>1 DEF Added, LastAnswer
  <2> QED
    BY <2>1, <2>2 DEF Added, LastAnswer
<1>3. ASSUME NEW t \in Task, NEW o \in Outcome \cup {"killed"}, RunTask(t, o) PROVE LastAnswer(w)'
  <2>1. Ran(t, o)
    BY <1>3, RunOfTask DEF DataOK
  <2>2. "succeeded" \in outcomes'[w]
    BY <2>1 DEF Ran, LastAnswer
  <2> QED
    BY <2>1, <2>2 DEF Ran, LastAnswer
<1>4. ASSUME NEW t \in Task, NEW o \in Outcome, UpdateNetworkLinkStatus(t, o) PROVE LastAnswer(w)'
  <2>1. UNCHANGED <<lane, outcomes, task>>
    BY <1>4, ResultOfTask DEF DataOK, Recorded
  <2> QED
    BY <2>1 DEF LastAnswer
<1> QED
  BY <1>1, <1>2, <1>3, <1>4, TaskSteps

LEMMA RestsKept ==
  ASSUME DataOK, InOrder, once => Rests, once', [LinkNext]_linkVars
  PROVE  Rests'
<1> SUFFICES ASSUME EasyTier', link'.status = "active"
             PROVE  \E w \in Task : LastAnswer(w)'
  BY DEF Rests
<1>1. EasyTier
  BY LinkKept DEF DataOK
<1>2. ASSUME NEW t \in Task, NEW o \in Outcome, UpdateNetworkLinkStatus(t, o) PROVE once /\ result[t] = "none"
  BY <1>2, Zenon DEF UpdateNetworkLinkStatus
<1>3. once
  <2>1. CASE UNCHANGED once
    BY <2>1, Zenon
  <2> QED
    BY <1>2, <2>1, Zenon
       DEF LinkNext, linkVars, PostProfile, UpdateNetworkProfile, DeleteNetworkProfile, QuickApplyNetwork,
           CreateDirectLink, NetworkProfileApply, NetworkLinkReapply, NetworkLinkVerify,
           NetworkLinkDisable, DeleteNetworkLink, CreateTask, NoteTasks, CreateOtherTask, RunTask,
           ServiceRestarts, Reboot, Heartbeat
<1>4. Rests
  BY <1>3, Zenon
<1>5. ASSUME NEW t \in Task, NEW o \in Outcome, UpdateNetworkLinkStatus(t, o), task[t].action = "verify"
      PROVE  \E w \in Task : LastAnswer(w)'
  <2>1. Recorded(t, o) /\ result[t] = "none"
    BY <1>2, <1>5, ResultOfTask DEF DataOK
  <2>2. o = "succeeded"
    <3>1. ~ Exists => link.status # "active" /\ link' = link
      BY <1>5 DEF Exists, UpdateNetworkLinkStatus
    <3>2. Exists => link'.status = LinkStatusAfter(t, o)
      BY <1>5 DEF UpdateNetworkLinkStatus, DataOK, LinkOK
    <3> QED
      BY <3>1, <3>2 DEF LinkStatusAfter
  <2>3. \A u \in Task : u > t /\ lane[u] = lane[t] => outcomes[u] = {}
    BY <2>1 DEF InOrder
  <2>4. \A u \in Task : u > t /\ lane[u] = lane[t] => result[u] = "none"
    BY <2>3 DEF DataOK, TasksOK
  <2>5. LastAnswer(t)'
    BY <1>5, <2>1, <2>2, <2>4, Numbers DEF Recorded, LastAnswer
  <2> QED
    BY <2>5
<1>6. CASE link' = link /\ \A t \in Task : task[t].action = "verify" => result'[t] = result[t]
  <2>1. PICK w \in Task : LastAnswer(w)
    BY <1>1, <1>4, <1>6 DEF Rests
  <2> QED
    BY <1>6, <2>1, AnswerKept
<1>7. ASSUME NEW t \in Task, NEW o \in Outcome, UpdateNetworkLinkStatus(t, o), task[t].action # "verify"
      PROVE  link' = link /\ \A u \in Task : task[u].action = "verify" => result'[u] = result[u]
  <2>1. link' # link => link'.status = LinkStatusAfter(t, o)
    BY <1>7 DEF UpdateNetworkLinkStatus, DataOK, LinkOK
  <2>2. LinkStatusAfter(t, o) = "failed"
    BY <1>7 DEF LinkStatusAfter
  <2>3. Recorded(t, o)
    BY <1>7, ResultOfTask DEF DataOK
  <2> QED
    BY <1>7, <2>1, <2>2, <2>3 DEF Recorded
<1>8. ASSUME ~ \E t \in Task, o \in Outcome : UpdateNetworkLinkStatus(t, o)
      PROVE  link' = link /\ \A u \in Task : task[u].action = "verify" => result'[u] = result[u]
  <2>1. link' = link
    BY <1>1, <1>8, StatusSteps
  <2>2. result' = result
    <3>1. ASSUME NEW x, Added(x) PROVE result' = result
      BY <3>1 DEF Added
    <3>2. ASSUME NEW t \in Task, NEW o \in Outcome \cup {"killed"}, RunTask(t, o) PROVE result' = result
      BY <3>2, RunOfTask DEF DataOK, Ran
    <3> QED
      BY <1>8, <3>1, <3>2, TaskSteps, NewTask DEF DataOK
  <2> QED
    BY <2>1, <2>2
<1> QED
  BY <1>5, <1>6, <1>7, <1>8

-----------------------------------------------------------------------------
(* The two tasks of a request do the same at either end, with one secret.  *)
Pair(t, u) ==
  /\ t \in Task /\ t < u /\ lane[t] # NoLane /\ task[t].of = t
  /\ lane[t] # lane[u]
  /\ task[t].action = task[u].action /\ task[t].secret = task[u].secret

Applies == {"quick", "profile", "apply"}
SentAction(q) == IF call[q].op \in {"quick", "profile"} THEN "apply" ELSE call[q].op

Sent(q, t) ==
  /\ t \in Task /\ lane[t] # NoLane /\ task[t].of = t
  /\ lane[t] \notin call[q].ends
  /\ task[t].action = SentAction(q) /\ task[t].secret = call[q].secret

Paired(u) ==
  /\ lane[u] # NoLane /\ task[u].of # u => Pair(task[u].of, u)
  /\ task[u].action = "apply" => task[u].secret \in Secret

TaskPairs == \A u \in Task : Paired(u)
CallPairs ==
  \A q \in Request : step[q] = "tasks" =>
    /\ call[q].first # 0 => Sent(q, call[q].first)
    /\ call[q].op \in Applies => call[q].secret \in Secret

(* A request that begins, or ends. *)
Begins(q) ==
  /\ UNCHANGED <<lane, outcomes, result, count, task>>
  /\ \A p \in Request : p # q => call'[p] = call[p] /\ step'[p] = step[p]
  /\ step'[q] = "tasks" => /\ call'[q].first = 0
                           /\ call'[q].op \in Applies => call'[q].secret \in Secret

LEMMA BeginBegins ==
  ASSUME HandlersOK, UNCHANGED <<vars, count, task>>, NEW q \in Request, NEW op, NEW s, NEW E,
         Begin(q, op, s, E), op \in Applies => s \in Secret
  PROVE  Begins(q)
BY DEF Begin, Begins, HandlersOK, vars

LEMMA CallSteps ==
  ASSUME HandlersOK, [LinkNext]_linkVars
  PROVE  \/ UNCHANGED <<call, step>>
         \/ \E q \in Request : Begins(q)
         \/ \E q \in Request, e \in End : CreateTask(q, e)
<1>1. ASSUME NEW q \in Request, NEW s \in Secret, QuickApplyNetwork(q, s) PROVE Begins(q)
  BY <1>1, BeginBegins DEF QuickApplyNetwork
<1>2. ASSUME NEW q \in Request, NEW s \in Secret, NEW E \in SUBSET End, NetworkProfileApply(q, s, E)
      PROVE  Begins(q)
  BY <1>2, BeginBegins DEF NetworkProfileApply
<1>3. ASSUME NEW q \in Request, NEW s \in Secret, NetworkLinkReapply(q, s) PROVE Begins(q)
  BY <1>3, BeginBegins DEF NetworkLinkReapply, Applies
<1>4. ASSUME NEW q \in Request, NetworkLinkVerify(q) PROVE Begins(q)
  BY <1>4, BeginBegins DEF NetworkLinkVerify, Applies
<1>5. ASSUME NEW q \in Request, NetworkLinkDisable(q) PROVE Begins(q)
  <2>1. PICK E : Begin(q, "disable", NoSecret, E)
    BY <1>5 DEF NetworkLinkDisable
  <2> QED
    BY <1>5, <2>1, BeginBegins DEF NetworkLinkDisable, Applies
<1>6. ASSUME NEW q \in Request, NoteTasks(q) PROVE Begins(q)
  BY <1>6 DEF NoteTasks, Begins, HandlersOK, vars
<1> QED
  BY <1>1, <1>2, <1>3, <1>4, <1>5, <1>6
     DEF LinkNext, linkVars, handlers, PostProfile, UpdateNetworkProfile, DeleteNetworkProfile,
         CreateDirectLink, DeleteNetworkLink, CreateOtherTask, RunTask, ServiceRestarts, Reboot, Heartbeat,
         UpdateNetworkLinkStatus

(* What CreateTask makes of the request. *)
LEMMA CallAfter ==
  ASSUME DataOK, NEW q \in Request, NEW e \in End, CreateTask(q, e)
  PROVE  /\ \A p \in Request : p # q => call'[p] = call[p] /\ step'[p] = step[p]
         /\ step'[q] = "tasks" =>
              /\ call'[q].ends = call[q].ends \ {e} /\ call'[q].first = Payload(q, e).of
              /\ call'[q].op = call[q].op /\ call'[q].secret = call[q].secret
<1> DEFINE rest == call[q].ends \ {e}
<1>1. call[q] \in CallRecord
  BY DEF CreateTask, DataOK, HandlersOK
<1>2. task'[count + 1] = Payload(q, e)
  BY DEF CreateTask, DataOK, TasksOK
<1>3. CASE rest = {} /\ call[q].op = "profile"
  BY <1>3 DEF CreateTask, DataOK, HandlersOK
<1>4. CASE ~ (rest = {} /\ call[q].op = "profile")
  <2>1. /\ step' = [step EXCEPT ![q] = IF rest = {} THEN "note" ELSE step[q]]
        /\ call' = [call EXCEPT ![q].ends = rest, ![q].first = task'[count + 1].of]
    BY <1>4 DEF CreateTask
  <2>2. call'[q] = [call[q] EXCEPT !.ends = rest, !.first = Payload(q, e).of]
    BY <1>2, <2>1 DEF DataOK, HandlersOK
  <2> QED
    BY <1>1, <2>1, <2>2 DEF CallRecord, DataOK, HandlersOK
<1> QED
  BY <1>3, <1>4

LEMMA PayloadOf ==
  ASSUME DataOK, CallPairs, NEW q \in Request, NEW e \in End, CreateTask(q, e)
  PROVE  /\ Payload(q, e).end = e /\ Payload(q, e).action = SentAction(q)
         /\ Payload(q, e).secret = call[q].secret
         /\ call[q].first = 0 => Payload(q, e).of = count + 1
         /\ call[q].first # 0 => Payload(q, e).of = call[q].first /\ Sent(q, call[q].first)
         /\ Payload(q, e).action = "apply" => call[q].secret \in Secret
         /\ e \in call[q].ends
<1>1. step[q] = "tasks" /\ e \in call[q].ends
  BY DEF CreateTask, NextEnd
<1> QED
  BY <1>1 DEF Payload, SentAction, CallPairs, Applies

LEMMA PairsKept ==
  ASSUME DataOK, TaskPairs, CallPairs, [LinkNext]_linkVars
  PROVE  TaskPairs' /\ CallPairs'
<1>1. CASE UNCHANGED <<lane, task>>
  <2>1. TaskPairs'
    BY <1>1 DEF TaskPairs, Paired, Pair
  <2>2. ASSUME UNCHANGED <<call, step>> PROVE CallPairs'
    BY <1>1, <2>2 DEF CallPairs, Sent, SentAction
  <2>3. ASSUME NEW q \in Request, Begins(q) PROVE CallPairs'
    BY <1>1, <2>3 DEF CallPairs, Sent, SentAction, Begins
  <2>4. ASSUME NEW q \in Request, NEW e \in End, CreateTask(q, e) PROVE FALSE
    <3>1. Added(Payload(q, e))
      BY <2>4, NewTask DEF DataOK
    <3> QED
      BY <1>1, <3>1 DEF Added
  <2> QED
    BY <2>1, <2>2, <2>3, <2>4, CallSteps DEF DataOK
<1>2. ASSUME NEW x, Added(x), NEW n \in Task, n = count + 1,
             x.of # n => Pair(x.of, n)',
             x.action = "apply" => x.secret \in Secret
      PROVE  TaskPairs'
  <2>1. task'[n] = x /\ \A u \in Task : u # n => task'[u] = task[u] /\ lane'[u] = lane[u]
    BY <1>2 DEF Added
  <2>2. lane[n] = NoLane
    BY <1>2 DEF Added
  <2>3. ASSUME NEW t, NEW u \in Task, u # n, Pair(t, u) PROVE Pair(t, u)'
    BY <2>1, <2>2, <2>3 DEF Pair
  <2>4. Paired(n)'
    BY <1>2, <2>1 DEF Paired
  <2>5. ASSUME NEW u \in Task, u # n PROVE Paired(u)'
    <3>1. task'[u] = task[u] /\ lane'[u] = lane[u]
      BY <2>1, <2>5
    <3>2. PICK t : t = task[u].of
      OBVIOUS
    <3>3. lane[u] # NoLane /\ t # u => Pair(t, u)'
      BY <2>3, <2>5, <3>2 DEF TaskPairs, Paired
    <3> QED
      BY <3>1, <3>2, <3>3 DEF TaskPairs, Paired
  <2> QED
    BY <2>4, <2>5 DEF TaskPairs
<1>3. ASSUME NEW q \in Request, NEW e \in End, CreateTask(q, e) PROVE TaskPairs' /\ CallPairs'
  <2>1. PICK x, f, n : x = Payload(q, e) /\ f = call[q].first /\ n = count + 1
    OBVIOUS
  <2>2. Added(x) /\ x.of \in Task /\ n \in Task
    BY <1>3, <2>1, NewTask DEF DataOK, Added
  <2>3. /\ x.end = e /\ x.action = SentAction(q) /\ x.secret = call[q].secret
        /\ f = 0 => x.of = n
        /\ f # 0 => x.of = f /\ Sent(q, f)
        /\ x.action = "apply" => call[q].secret \in Secret
        /\ e \in call[q].ends
    BY <1>3, <2>1, PayloadOf
  <2>4. /\ \A p \in Request : p # q => call'[p] = call[p] /\ step'[p] = step[p]
        /\ step'[q] = "tasks" =>
             /\ call'[q].ends = call[q].ends \ {e} /\ call'[q].first = x.of
             /\ call'[q].op = call[q].op /\ call'[q].secret = call[q].secret
    BY <1>3, <2>1, CallAfter
  <2>5. step[q] = "tasks"
    BY <1>3 DEF CreateTask
  <2>6. /\ task'[n] = x /\ lane'[n] = e /\ lane[n] = NoLane /\ e # NoLane
        /\ \A u \in Task : u # n => task'[u] = task[u] /\ lane'[u] = lane[u]
    BY <2>1, <2>2, <2>3 DEF Added
  <2>7. ASSUME NEW p \in Request, p # q, NEW t, Sent(p, t) PROVE Sent(p, t)'
    BY <2>4, <2>6, <2>7 DEF Sent, SentAction
  <2>8. ASSUME NEW p \in Request, p # q, step'[p] = "tasks"
        PROVE  /\ call'[p].first # 0 => Sent(p, call[p].first)'
               /\ call'[p].op \in Applies => call'[p].secret \in Secret
    <3>1. PICK t : t = call[p].first
      OBVIOUS
    <3>2. call'[p] = call[p] /\ step[p] = "tasks"
      BY <2>4, <2>8
    <3>3. t # 0 => Sent(p, t)'
      BY <2>7, <2>8, <3>1, <3>2 DEF CallPairs
    <3> QED
      BY <3>1, <3>2, <3>3 DEF CallPairs
  <2>9. CASE f = 0
    <3>1. x.of = n
      BY <2>3, <2>9
    <3>2. TaskPairs'
      BY <1>2, <2>1, <2>2, <2>3, <3>1
    <3>3. step'[q] = "tasks" => Sent(q, n)'
      BY <2>2, <2>3, <2>4, <2>6, <3>1 DEF Sent, SentAction
    <3> QED
      BY <2>4, <2>5, <2>8, <3>1, <3>2, <3>3 DEF CallPairs
  <2>10. CASE f # 0
    <3>1. f \in Task /\ lane[f] # NoLane /\ task[f].of = f /\ lane[f] # e
          /\ task[f].action = x.action /\ task[f].secret = x.secret /\ x.of = f
      BY <2>3, <2>10 DEF Sent
    <3>2. f < n /\ f # n
      BY <2>1, <3>1 DEF DataOK, TasksOK
    <3>3. Pair(f, n)'
      BY <2>6, <3>1, <3>2 DEF Pair
    <3>4. TaskPairs'
      BY <1>2, <2>1, <2>2, <2>3, <3>1, <3>3
    <3>5. step'[q] = "tasks" => Sent(q, f)'
      BY <2>3, <2>4, <2>6, <3>1, <3>2 DEF Sent, SentAction
    <3> QED
      BY <2>4, <2>5, <2>8, <3>1, <3>4, <3>5 DEF CallPairs
  <2> QED
    BY <2>9, <2>10
<1>4. ASSUME NEW a \in {"cleanup", "restart"}, NEW e \in End, CreateOtherTask(a, e)
      PROVE  TaskPairs' /\ CallPairs'
  <2> DEFINE x == [action |-> a, end |-> e, secret |-> NoSecret, of |-> count + 1]
  <2>1. Added(x)
    BY <1>4, NewTask DEF DataOK
  <2>2. x.of = count + 1 /\ x.action # "apply"
    OBVIOUS
  <2> HIDE DEF x
  <2>3. PICK n : n = count + 1
    OBVIOUS
  <2>4. n \in Task
    BY <2>1, <2>3 DEF Added
  <2>5. TaskPairs'
    BY <1>2, <2>1, <2>2, <2>3, <2>4
  <2>6. UNCHANGED <<call, step>>
    BY <1>4 DEF CreateOtherTask, handlers
  <2>7. ASSUME NEW q \in Request, NEW t, Sent(q, t) PROVE Sent(q, t)'
    BY <2>1, <2>6, <2>7 DEF Added, Sent, SentAction
  <2>8. ASSUME NEW q \in Request, step[q] = "tasks", call[q].first # 0
        PROVE  \E t : t = call[q].first /\ Sent(q, t)'
    BY <2>7, <2>8 DEF CallPairs
  <2>9. CallPairs'
    BY <2>6, <2>8 DEF CallPairs
  <2> QED
    BY <2>5, <2>9
<1>5. ASSUME NEW t \in Task, NEW o \in Outcome \cup {"killed"}, RunTask(t, o) PROVE UNCHANGED <<lane, task>>
  BY <1>5, RunOfTask DEF DataOK, Ran
<1>6. ASSUME NEW t \in Task, NEW o \in Outcome, UpdateNetworkLinkStatus(t, o) PROVE UNCHANGED <<lane, task>>
  BY <1>6, ResultOfTask DEF DataOK, Recorded
<1> QED
  BY <1>1, <1>3, <1>4, <1>5, <1>6, TaskSteps

-----------------------------------------------------------------------------
(* A host whose last begun task applied a profile, and succeeded whenever  *)
(* it ran, has that profile's secret wherever one is kept, so that neither *)
(* a restart of the service nor a reboot brings back another.              *)
Has(e, s) == unit[e] = s /\ loaded[e] = s /\ service[e] = s /\ boots[e]

Applied(t) ==
  task[t].action = "apply" /\ outcomes[t] = {"succeeded"} /\ LastBegun(t) => Has(lane[t], task[t].secret)

LEMMA HostHas ==
  ASSUME HostsOK, FlagsOK, NEW e \in End, NEW s \in Secret, Has(e, s), NEW f \in End,
         ServiceRestarts(f) \/ Reboot(f)
  PROVE  Has(e, s)'
<1>1. /\ unit' = unit /\ boots' = boots
      /\ loaded' = loaded \/ loaded' = [loaded EXCEPT ![f] = unit[f]]
  BY DEF ServiceRestarts, Reboot
<1>2. boots[e] /\ boots'[e]
  BY <1>1, Zenon DEF Has
<1>3. unit[e] = s /\ loaded[e] = s /\ service[e] = s
  BY Zenon DEF Has
<1>4. unit'[e] = s /\ loaded'[e] = s
  BY <1>1, <1>3 DEF HostsOK
<1>5. service'[e] = s
  <2>1. CASE f # e
    BY <1>3, <2>1 DEF ServiceRestarts, Reboot, Restarts, HostsOK
  <2>2. CASE f = e /\ ServiceRestarts(f)
    BY <1>3, <2>2 DEF ServiceRestarts, Restarts, HostsOK
  <2>3. CASE f = e /\ Reboot(f)
    <3>1. service' = [service EXCEPT ![e] = IF boots[e] THEN unit[e] ELSE NoSecret]
      BY <2>3 DEF Reboot, Restarts
    <3>2. service' = [service EXCEPT ![e] = unit[e]]
      BY <1>2, <3>1, Zenon
    <3> QED
      BY <1>3, <3>2 DEF HostsOK
  <2> QED
    BY <2>1, <2>2, <2>3
<1> QED
  BY <1>2, <1>4, <1>5, Zenon DEF Has

(* A run touches the host of its task alone, *)
LEMMA RunElsewhere ==
  ASSUME DataOK, FlagsOK, NEW e \in End, NEW s \in Secret, Has(e, s),
         NEW t \in Task, NEW o \in Outcome \cup {"killed"}, RunTask(t, o), task[t].end # e
  PROVE  Has(e, s)'
<1>1. task[t].end \in End
  BY RunOfTask, TaskFields DEF Ran, DataOK, TasksOK
<1>2. unit'[e] = unit[e] /\ loaded'[e] = loaded[e] /\ service'[e] = service[e]
  BY <1>1 DEF RunTask, RunApply, ApplyNetworkProfile, RunDisable, RunCleanup, RunRestart, RunVerify,
              Restarts, DataOK, HostsOK
<1>3. boots' \in {boots, [boots EXCEPT ![task[t].end] = TRUE], [boots EXCEPT ![task[t].end] = FALSE]}
  BY DEF RunTask, RunApply, ApplyNetworkProfile, RunDisable, RunCleanup, RunRestart, RunVerify
<1>4. boots'[e] = boots[e]
  BY <1>1, <1>3, Zenon DEF FlagsOK
<1> QED
  BY <1>2, <1>4, Zenon DEF Has

(* and an apply that succeeds gets through all its steps. *)
LEMMA RunApplies ==
  ASSUME DataOK, FlagsOK, NEW t \in Task, task[t].action = "apply", RunTask(t, "succeeded"),
         NEW e \in End, e = task[t].end, NEW s, s = task[t].secret
  PROVE  Has(e, s)'
<1>1. /\ unit' = [unit EXCEPT ![e] = s] /\ loaded' = [loaded EXCEPT ![e] = s]
      /\ service' = [service EXCEPT ![e] = s] /\ boots' = [boots EXCEPT ![e] = TRUE]
  BY DEF RunTask, RunApply, RunDisable, RunCleanup, RunRestart, RunVerify, ApplyNetworkProfile, Restarts,
         UnitWritten, Reloaded, Enabled, Restarted, LooksActive
<1>2. unit'[e] = s /\ loaded'[e] = s /\ service'[e] = s
  BY <1>1 DEF DataOK, HostsOK
<1>3. boots'[e] = TRUE
  BY <1>1, Zenon DEF FlagsOK
<1> QED
  BY <1>2, <1>3, Zenon DEF Has

LEMMA AppliedKept ==
  ASSUME DataOK, FlagsOK, TaskPairs, \A t \in Task : Applied(t), [LinkNext]_linkVars, NEW t \in Task
  PROVE  Applied(t)'
<1> USE DEF DataOK
<1>0. PICK e, s : e = lane[t] /\ s = task[t].secret
  OBVIOUS
<1>1. CASE /\ UNCHANGED <<unit, loaded, service, boots>>
           /\ UNCHANGED <<lane, outcomes, task>>
  BY <1>1, Zenon DEF Applied, LastBegun, Has
<1>2. ASSUME NEW x, Added(x), UNCHANGED <<unit, loaded, service, boots>> PROVE Applied(t)'
  <2>1. CASE t = count + 1
    <3>1. outcomes'[t] # {"succeeded"}
      BY <1>2, <2>1 DEF Added
    <3> QED
      BY <3>1, Zenon DEF Applied
  <2>2. CASE t # count + 1
    <3>1. task'[t] = task[t] /\ lane'[t] = lane[t] /\ outcomes' = outcomes
      BY <1>2, <2>2 DEF Added
    <3>2. LastBegun(t)' => LastBegun(t)
      BY <1>2, <2>2, <3>1 DEF Added, LastBegun
    <3> QED
      BY <1>2, <3>1, <3>2, Zenon DEF Applied, Has
  <2> QED
    BY <2>1, <2>2
<1>3. ASSUME NEW f \in End, ServiceRestarts(f) \/ Reboot(f) PROVE Applied(t)'
  <2>1. UNCHANGED <<lane, outcomes, result, count, task>>
    BY <1>3 DEF ServiceRestarts, Reboot, vars
  <2>2. LastBegun(t)' => LastBegun(t)
    BY <2>1 DEF LastBegun
  <2>3. ASSUME task[t].action = "apply", outcomes[t] = {"succeeded"}, LastBegun(t) PROVE Has(e, s)'
    <3>1. Has(e, s)
      BY <1>0, <2>3, Zenon DEF Applied
    <3>2. e \in End /\ s \in Secret
      BY <1>0, <2>3 DEF TasksOK, TaskPairs, Paired
    <3> QED
      BY <1>3, <3>1, <3>2, HostHas
  <2> QED
    BY <1>0, <2>1, <2>2, <2>3, Zenon DEF Applied
<1>4. ASSUME NEW u \in Task, NEW o \in Outcome \cup {"killed"}, RunTask(u, o) PROVE Applied(t)'
  <2>1. Ran(u, o)
    BY <1>4, RunOfTask
  <2>2. UNCHANGED <<lane, task>> /\ task[u].end = lane[u] /\ lane[u] \in End
    BY <2>1 DEF Ran, TasksOK
  <2>3. ASSUME task[t].action = "apply", outcomes'[t] = {"succeeded"}, LastBegun(t)' PROVE Has(e, s)'
    <3>1. e \in End /\ s \in Secret
      <4>1. lane'[t] # NoLane
        BY <2>3, TasksKept DEF TasksOK
      <4> QED
        BY <1>0, <2>2, <2>3, <4>1 DEF TasksOK, TaskPairs, Paired
    <3>2. CASE u = t
      <4>1. o = "succeeded"
        BY <2>1, <2>3, <3>2 DEF Ran
      <4> QED
        BY <1>0, <1>4, <2>2, <2>3, <3>1, <3>2, <4>1, RunApplies
    <3>3. CASE u # t
      <4>1. outcomes[t] = {"succeeded"}
        BY <2>1, <2>3, <3>3 DEF Ran
      <4>2. lane[u] # lane[t]
        <5>1. ASSUME lane[u] = lane[t] PROVE FALSE
          <6>1. CASE t > u
            BY <2>1, <4>1, <5>1, <6>1 DEF Ran
          <6>2. CASE u > t
            BY <2>1, <2>2, <2>3, <5>1, <6>2 DEF Ran, LastBegun
          <6> QED
            BY <3>3, <6>1, <6>2, Numbers
        <5> QED
          BY <5>1
      <4>3. LastBegun(t)
        BY <2>1, <2>2, <2>3, <4>2 DEF Ran, LastBegun
      <4>4. Has(e, s)
        BY <1>0, <2>3, <4>1, <4>3, Zenon DEF Applied
      <4> QED
        BY <1>0, <1>4, <2>2, <3>1, <4>2, <4>4, RunElsewhere
    <3> QED
      BY <3>2, <3>3
  <2> QED
    BY <1>0, <2>2, <2>3, Zenon DEF Applied
<1>5. CASE UNCHANGED <<unit, loaded, service, boots>>
  <2>1. ASSUME NEW u \in Task, NEW o \in Outcome, UpdateNetworkLinkStatus(u, o) PROVE Applied(t)'
    BY <1>1, <1>5, <2>1, ResultOfTask DEF Recorded
  <2> QED
    BY <1>1, <1>2, <1>4, <1>5, <2>1, TaskSteps, NewTask
<1> QED
  BY <1>3, <1>4, <1>5, HostSteps

-----------------------------------------------------------------------------
(* The invariant. *)
Inv == /\ DataOK /\ FlagsOK /\ MetOK /\ InOrder /\ TaskPairs /\ CallPairs
       /\ once => Rests
       /\ \A t \in Task : Applied(t)

LEMMA InvInit == LinkInit => Inv
<1> SUFFICES ASSUME LinkInit PROVE Inv
  OBVIOUS
<1>1. LinkOK /\ SecretsOK
  BY DEF LinkInit, LinkOK, SecretsOK, Status
<1>2. TasksOK /\ HandlersOK
  BY DEF LinkInit, Init, TasksOK, HandlersOK
<1>3. HostsOK /\ ~ Connected /\ Unused
  BY DEF LinkInit, HostsOK, Connected, End, Unused
<1>4. NoReport \in Report /\ ~ NoReport.ok
  BY DEF NoReport, Report
<1>5. ReportOK /\ ReportsHaveMet
  BY <1>4 DEF LinkInit, ReportOK, ReportsHaveMet
<1>6. StoredHasMet /\ VerifiedIsFresh /\ InOrder /\ TaskPairs /\ CallPairs
  BY DEF LinkInit, Init, StoredHasMet, VerifiedIsFresh, InOrder, TaskPairs, Paired, CallPairs, NoTask
<1>7. LastInv
  BY <1>3 DEF LinkInit, LastInv, LastOK
<1>8. FlagsOK
  BY Zenon DEF LinkInit, FlagsOK
<1>9. Rests
  BY DEF LinkInit, Rests
<1>10. \A t \in Task : task[t].action # "apply"
  BY DEF LinkInit, NoTask
<1>11. \A t \in Task : Applied(t)
  BY <1>10, Zenon DEF Applied
<1> QED
  BY <1>1, <1>2, <1>3, <1>5, <1>6, <1>7, <1>8, <1>9, <1>11, Zenon DEF Inv, DataOK, MetOK

LEMMA InvKept == Inv /\ [LinkNext]_linkVars => Inv'
<1> SUFFICES ASSUME Inv, [LinkNext]_linkVars PROVE Inv'
  OBVIOUS
<1>1. DataOK /\ FlagsOK /\ MetOK /\ InOrder /\ TaskPairs /\ CallPairs
  BY Zenon DEF Inv
<1>2. DataOK' /\ InOrder' /\ TaskPairs' /\ CallPairs'
  BY <1>1, DataKept, InOrderKept, PairsKept
<1>3. FlagsOK'
  BY <1>1, FlagsKept DEF DataOK
<1>4. MetOK'
  BY <1>1, LastKept, UnusedKept, ReportsKept, VerifiedKept, StoredKept DEF DataOK, MetOK
<1>5. once' => Rests'
  BY <1>1, RestsKept, Zenon DEF Inv
<1>6. \A t \in Task : Applied(t)'
  BY <1>1, AppliedKept, Zenon DEF Inv
<1> QED
  BY <1>2, <1>3, <1>4, <1>5, <1>6, Zenon DEF Inv

LEMMA InvHolds == LinkSpec => []Inv
  BY InvInit, InvKept, PTL DEF LinkSpec

(* Every variable of the panel and the hosts keeps its type.               *)
THEOREM TypeCorrect == LinkSpec => []TypeOK
<1>1. Inv => DataOK /\ FlagsOK /\ LastOK
  BY Zenon DEF Inv, MetOK, LastInv
<1>2. DataOK => TasksOK /\ HandlersOK
  BY DEF DataOK
<1>3. Inv => TypeOK
  BY <1>1, <1>2, Zenon DEF DataOK, LinkOK, TasksOK, HandlersOK, HostsOK, ReportOK, SecretsOK, FlagsOK,
       LastOK, TypeOK, TaskRecord, CallRecord, Report
<1> QED
  BY <1>3, InvHolds, PTL

(* The panel (decorateNetworkLinkLocked) never shows a link as active      *)
(* whose services have never met, whatever secrets were drawn, requests    *)
(* interleaved and results repeated.                                       *)
THEOREM ActiveOnlyOnceMet == LinkSpec => []ShownHasMet
<1>1. MetOK => ShownHasMet
  BY DEF MetOK, ReportsHaveMet, StoredHasMet, ShownHasMet, Shown, ReportedActive, Met
<1>2. Inv => ShownHasMet
  BY <1>1, Zenon DEF Inv
<1> QED
  BY <1>2, InvHolds, PTL

(* The two ends of a link (applyNetworkProfile, for the tasks of a quick   *)
(* apply, a reapply or a profile sent to both) run one network after both  *)
(* succeeded, until a later task is begun at one of them.                  *)
THEOREM AppliedEndsAgree == LinkSpec => []EndsAgree
<1>1. ASSUME DataOK, TaskPairs, \A t \in Task : Applied(t),
             NEW t \in Task, task[t].action = "apply", NEW u \in Task, task[u].of = t, u # t,
             \A x \in {t, u} : outcomes[x] = {"succeeded"} /\ LastBegun(x)
      PROVE  Connected
  <2>1. lane[t] \in End /\ lane[u] \in End
    BY <1>1 DEF DataOK, TasksOK
  <2>2. Pair(t, u) /\ task[t].secret \in Secret
    BY <1>1, <2>1 DEF TaskPairs, Paired
  <2>3. lane[t] # lane[u] /\ task[u].action = "apply" /\ task[u].secret = task[t].secret
    BY <1>1, <2>2 DEF Pair
  <2>4. Has(lane[t], task[t].secret) /\ Has(lane[u], task[t].secret)
    BY <1>1, <2>3, Zenon DEF Applied
  <2>5. service[lane[t]] = task[t].secret /\ service[lane[u]] = task[t].secret
    BY <2>4, Zenon DEF Has
  <2> QED
    BY <2>1, <2>2, <2>3, <2>5 DEF Connected, End
<1>2. Inv => EndsAgree
  BY <1>1, Zenon DEF Inv, EndsAgree
<1> QED
  BY <1>2, InvHolds, PTL

(* A stored "active" (updateNetworkLinkStatusForTaskLocked) is no older    *)
(* than the last verification that both ends have answered, unless a       *)
(* result was recorded twice.                                              *)
THEOREM StoredIsFresh == LinkSpec => []ActiveIsFresh
<1>1. ASSUME DataOK, MetOK, TaskPairs, NEW w \in Task, LastAnswer(w),
             NEW t \in Task, task[t].action = "verify", NEW u \in Task, task[u].of = t, u # t,
             \A x \in {t, u} : result[x] # "none"
      PROVE  lastMet >= t
  <2>1. lane[t] \in End /\ lane[u] \in End /\ lane[w] \in End
    BY <1>1 DEF DataOK, TasksOK, LastAnswer
  <2>2. Pair(t, u)
    BY <1>1, <2>1 DEF TaskPairs, Paired
  <2>3. t < u /\ lane[t] # lane[u] /\ task[u].action = "verify"
    BY <1>1, <2>2 DEF Pair
  <2>4. lane[w] = lane[t] \/ lane[w] = lane[u]
    BY <2>1, <2>3 DEF End
  <2>5. ~ t > w \/ ~ u > w
    BY <1>1, <2>3, <2>4 DEF LastAnswer
  <2>6. w >= t
    BY <2>3, <2>5
  <2>7. lastMet >= w
    BY <1>1 DEF MetOK, VerifiedIsFresh, LastAnswer
  <2> QED
    BY <1>1, <2>6, <2>7 DEF MetOK, LastInv, LastOK
<1>2. ASSUME Inv, once, EasyTier, link.status = "active" PROVE \E w \in Task : LastAnswer(w)
  BY <1>2, Zenon DEF Inv, Rests
<1>3. Inv => ActiveIsFresh
  BY <1>1, <1>2, Zenon DEF Inv, ActiveIsFresh
<1> QED
  BY <1>3, InvHolds, PTL
=============================================================================
