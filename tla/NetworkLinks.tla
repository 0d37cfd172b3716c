------------------------------ MODULE NetworkLinks ------------------------------
(***************************************************************************)
(* One network link between an entry and a backend node: the requests of   *)
(* the panel, each of whose steps takes the store's lock for itself, the   *)
(* tasks they create, one lane a node as TaskDelivery promises, the        *)
(* EasyTier service of each node, and what results and heartbeats make of  *)
(* the link.  Two services are connected when they run with the same       *)
(* secret; that they then find each other is EasyTier's part.              *)
(***************************************************************************)
EXTENDS TaskDelivery, FiniteSets

CONSTANTS
  Request,   \* slots for operator requests being handled at a time
  Secret,    \* network secrets, in the order in which they are drawn
  NoSecret

End == {"entry", "backend"}

ASSUME TaskAssumption == Task \subseteq Nat \ {0}
ASSUME SecretAssumption == Secret \subseteq Nat \ {0} /\ NoSecret \notin Secret
ASSUME LaneAssumption == Lane = End /\ NoLane \notin End
ASSUME OutcomeAssumption == Outcome = {"succeeded", "failed"}

VARIABLES
  count,     \* number of tasks created
  task,      \* what each task does, at which end, with which secret
  drawn,     \* number of secrets drawn
  profiles,  \* the secrets of the network profiles on the list
  link,      \* the link as it is stored
  call,      \* the operation each request is to do, and the ends still to be told
  step,      \* and how far it has come
  unit,      \* the secret in each end's service file
  loaded,    \* in the service as systemd has loaded it
  service,   \* and in the running service, NoSecret when it is stopped
  boots,     \* the service is started when the host boots
  report,    \* EasyTier in each node's last heartbeat
  lastMet,   \* history: how many tasks there were when the two services were
             \* last connected, 0 when they never were
  once       \* history: no task's result was recorded twice

running == <<unit, loaded, service, boots>>
hosts == <<running, lastMet>>
handlers == <<call, step>>
linkVars == <<vars, count, task, drawn, profiles, link, handlers, hosts, report, once>>

Op == {"apply", "disable", "verify", "direct"}
Status == {"absent", "applying", "verifying", "active", "failed", "disabled", "deleted"}
NoTask == [action |-> "none", end |-> "none", secret |-> NoSecret, of |-> 0]
NoCall == [op |-> "none", secret |-> NoSecret, ends |-> {}, first |-> 0]
NoReport == [status |-> "none", ok |-> FALSE]

(* "of" numbers the first task of the same request, which the code forgets.*)
TypeOK ==
  /\ count \in Task \cup {0}
  /\ task \in [Task ->
       [action : Op \cup {"cleanup", "restart"}, end : End, secret : Secret \cup {NoSecret},
        of : Task] \cup {NoTask}]
  /\ drawn \in Secret \cup {0}
  /\ profiles \subseteq Secret
  /\ link \in [type : {"easytier", "direct"}, status : Status]
  /\ call \in [Request ->
       [op : Op \cup {"quick", "profile", "status"}, secret : Secret \cup {NoSecret},
        ends : SUBSET End, first : Task \cup {0}] \cup {NoCall}]
  /\ step \in [Request -> {"idle", "tasks", "note"}]
  /\ \A f \in {unit, loaded, service} : f \in [End -> Secret \cup {NoSecret}]
  /\ boots \in [End -> BOOLEAN]
  /\ report \in [End -> [status : {"none", "active", "inactive"}, ok : BOOLEAN]]
  /\ lastMet \in Task \cup {0} /\ once \in BOOLEAN

LinkInit ==
  /\ Init
  /\ count = 0 /\ task = [t \in Task |-> NoTask]
  /\ drawn = 0 /\ profiles = {}
  /\ link \in [type : {"easytier", "direct"}, status : {"absent"}]
  /\ call = [q \in Request |-> NoCall] /\ step = [q \in Request |-> "idle"]
  /\ unit = [e \in End |-> NoSecret] /\ loaded = unit /\ service = unit
  /\ boots = [e \in End |-> FALSE]
  /\ report = [e \in End |-> NoReport]
  /\ lastMet = 0 /\ once = TRUE

Exists == link.status \notin {"absent", "deleted"}
EasyTier == link.type = "easytier"
Connected == service["entry"] # NoSecret /\ service["entry"] = service["backend"]
Remember == lastMet' = IF Connected' THEN count' ELSE lastMet

-----------------------------------------------------------------------------
(* The network profiles. *)

(* randomSecret. *)
Draw(s) == s = drawn + 1 /\ s \in Secret /\ drawn' = s

CreateNetworkProfile(s) == Draw(s) /\ profiles' = profiles \cup {s}

PostProfile(s) ==
  /\ CreateNetworkProfile(s)
  /\ UNCHANGED <<vars, count, task, link, handlers, hosts, report, once>>

(* The operator types another secret. *)
UpdateNetworkProfile(old, s) ==
  /\ old \in profiles /\ Draw(s)
  /\ profiles' = (profiles \ {old}) \cup {s}
  /\ UNCHANGED <<vars, count, task, link, handlers, hosts, report, once>>

DeleteNetworkProfile(s) ==
  /\ s \in profiles
  /\ profiles' = profiles \ {s}
  /\ UNCHANGED <<vars, count, task, drawn, link, handlers, hosts, report, once>>

-----------------------------------------------------------------------------
(* The handlers. *)

Begin(q, op, s, ends) ==
  /\ step[q] = "idle"
  /\ call' = [call EXCEPT ![q] =
                [op |-> op, secret |-> s, ends |-> ends, first |-> 0]]
  /\ step' = [step EXCEPT ![q] = IF ends = {} THEN "note" ELSE "tasks"]

(* quickApplyNetwork makes a profile, then the two tasks, then the link,   *)
(* of nodes that are online.                                               *)
QuickApplyNetwork(q, s) ==
  /\ link.status = "absent" /\ EasyTier
  /\ \A e \in End : report[e] # NoReport
  /\ CreateNetworkProfile(s)
  /\ Begin(q, "quick", s, End)
  /\ UNCHANGED <<vars, count, task, link, hosts, report, once>>

(* createNetworkLink for a direct link: no task. *)
CreateDirectLink ==
  /\ link.status = "absent" /\ ~ EasyTier
  /\ link' = [link EXCEPT !.status = "active"]
  /\ UNCHANGED <<vars, count, task, drawn, profiles, handlers, hosts, report, once>>

(* handleNetworkProfileApply sends a profile to one node or both, for no   *)
(* link.                                                                   *)
NetworkProfileApply(q, s, ends) ==
  /\ s \in profiles /\ ends # {}
  /\ Begin(q, "profile", s, ends)
  /\ UNCHANGED <<vars, count, task, drawn, profiles, link, hosts, report, once>>

(* handleNetworkLinkReapply, also as "enable": a new secret for both ends. *)
NetworkLinkReapply(q, s) ==
  /\ Exists
  /\ IF EasyTier THEN Draw(s) /\ Begin(q, "apply", s, End)
     ELSE Begin(q, "status", NoSecret, {}) /\ UNCHANGED drawn
  /\ UNCHANGED <<vars, count, task, profiles, link, hosts, report, once>>

NetworkLinkVerify(q) ==
  /\ Exists
  /\ IF EasyTier THEN Begin(q, "verify", NoSecret, End)
     ELSE Begin(q, "direct", NoSecret, {"entry"})
  /\ UNCHANGED <<vars, count, task, drawn, profiles, link, hosts, report, once>>

NetworkLinkDisable(q) ==
  /\ Exists
  /\ Begin(q, "disable", NoSecret, IF EasyTier THEN End ELSE {})
  /\ UNCHANGED <<vars, count, task, drawn, profiles, link, hosts, report, once>>

DeleteNetworkLink ==
  /\ Exists
  /\ link' = [link EXCEPT !.status = "deleted"]
  /\ UNCHANGED <<vars, count, task, drawn, profiles, handlers, hosts, report, once>>

(* The entry's task is created before the backend's. *)
NextEnd(q, e) ==
  e \in call[q].ends /\ (e = "backend" /\ call[q].op # "profile" => "entry" \notin call[q].ends)

Mutant_Payload(q, e) ==
  [action |-> IF call[q].op \in {"quick", "profile"} THEN "apply" ELSE call[q].op, end |-> e,
   secret |-> IF e = "backend" /\ call[q].op = "apply" /\ profiles # {}
              THEN CHOOSE s \in profiles : TRUE ELSE call[q].secret,
   of |-> IF call[q].first = 0 THEN count + 1 ELSE call[q].first]
Payload(q, e) ==
  [action |-> IF call[q].op \in {"quick", "profile"} THEN "apply" ELSE call[q].op, end |-> e,
   secret |-> call[q].secret,
   of |-> IF call[q].first = 0 THEN count + 1 ELSE call[q].first]

CreateTask(q, e) ==
  /\ step[q] = "tasks" /\ NextEnd(q, e)
  /\ count + 1 \in Task
  /\ count' = count + 1
  /\ task' = [task EXCEPT ![count + 1] = Payload(q, e)]
  /\ Offer({count + 1}, e)
  /\ LET rest == call[q].ends \ {e} IN
     IF rest = {} /\ call[q].op = "profile"
     THEN /\ step' = [step EXCEPT ![q] = "idle"] /\ call' = [call EXCEPT ![q] = NoCall]
     ELSE /\ step' = [step EXCEPT ![q] = IF rest = {} THEN "note" ELSE @]
          /\ call' = [call EXCEPT ![q].ends = rest, ![q].first = task'[count + 1].of]
  /\ UNCHANGED <<drawn, profiles, link, running, report, once>>
  /\ Remember

(* createNetworkLink, updateNetworkLinkTasks or updateNetworkLinkStatus,   *)
(* by when the tasks may have their results already.                       *)
NotedStatus(q) ==
  CASE call[q].op \in {"quick", "apply"} -> "applying"
    [] call[q].op \in {"verify", "direct"} -> "verifying"
    [] call[q].op = "disable" -> "disabled"
    [] OTHER -> "active"

NoteTasks(q) ==
  /\ step[q] = "note"
  /\ link' = IF Exists \/ (call[q].op = "quick" /\ link.status = "absent")
             THEN [link EXCEPT !.status = NotedStatus(q)] ELSE link
  /\ step' = [step EXCEPT ![q] = "idle"] /\ call' = [call EXCEPT ![q] = NoCall]
  /\ UNCHANGED <<vars, count, task, drawn, profiles, hosts, report, once>>

(* A task from the panel's task list, which asks for one by its name. *)
CreateOtherTask(action, e) ==
  /\ count + 1 \in Task
  /\ count' = count + 1
  /\ task' = [task EXCEPT ![count + 1] =
                [action |-> action, end |-> e, secret |-> NoSecret, of |-> count + 1]]
  /\ Offer({count + 1}, e)
  /\ UNCHANGED <<drawn, profiles, link, handlers, running, report, once>>
  /\ Remember

-----------------------------------------------------------------------------
(* The hosts. *)
Restarts(e, s) == service' = [service EXCEPT ![e] = s]

(* applyNetworkProfile, as far as it gets: the service file, daemon-reload,*)
(* enable, restart, and a last look whether the service is active.         *)
UnitWritten == 1
Reloaded == 2
Enabled == 3
Restarted == 4
LooksActive == 5

ApplyNetworkProfile(e, s, done) ==
  /\ unit' = IF done >= UnitWritten THEN [unit EXCEPT ![e] = s] ELSE unit
  /\ loaded' = IF done >= Reloaded THEN [loaded EXCEPT ![e] = s] ELSE loaded
  /\ boots' = IF done >= Enabled THEN [boots EXCEPT ![e] = TRUE] ELSE boots
  /\ IF done >= Restarted THEN Restarts(e, s) ELSE UNCHANGED service

RunApply(t, e, o) ==
  /\ task[t].action = "apply"
  /\ \E done \in 0 .. LooksActive :
       /\ o = "succeeded" => done = LooksActive
       /\ o = "failed" => done < LooksActive
       /\ ApplyNetworkProfile(e, task[t].secret, done)

(* disableNetworkLink stops and disables the service, whatever network it  *)
(* is in; that it could not do so does not fail the task.                  *)
RunDisable(t, e, o) ==
  /\ task[t].action = "disable"
  /\ IF o = "failed" THEN UNCHANGED <<service, boots>>
     ELSE /\ Restarts(e, NoSecret) \/ UNCHANGED service
          /\ boots' \in {boots, [boots EXCEPT ![e] = FALSE]}
  /\ UNCHANGED <<unit, loaded>>

(* The part of cleanup_node_deployment that is about EasyTier. *)
RunCleanup(t, e, o) ==
  /\ task[t].action = "cleanup"
  /\ IF o = "failed" THEN UNCHANGED <<unit, service, boots>>
     ELSE /\ Restarts(e, NoSecret) \/ UNCHANGED service
          /\ boots' = [boots EXCEPT ![e] = FALSE] /\ unit' = [unit EXCEPT ![e] = NoSecret]
  /\ UNCHANGED loaded

RunRestart(t, e, o) ==
  /\ task[t].action = "restart"
  /\ IF o = "failed" THEN UNCHANGED service ELSE Restarts(e, loaded[e])
  /\ UNCHANGED <<unit, loaded, boots>>

(* verify_network_connectivity succeeds when the service finds a peer and  *)
(* a route to it, verify_direct_link when there is a route.                *)
RunVerify(t, e, o) ==
  /\ task[t].action \in {"verify", "direct"}
  /\ (task[t].action = "verify" /\ o = "succeeded") => Connected
  /\ UNCHANGED <<unit, loaded, service, boots>>

RunTask(t, o) ==
  /\ Run(t, o)
  /\ LET e == task[t].end IN
     RunApply(t, e, o) \/ RunDisable(t, e, o) \/ RunCleanup(t, e, o)
       \/ RunRestart(t, e, o) \/ RunVerify(t, e, o)
  /\ UNCHANGED <<count, task, drawn, profiles, link, handlers, report, once>>
  /\ Remember

(* Restart=always. *)
ServiceRestarts(e) ==
  /\ service[e] # NoSecret /\ Restarts(e, loaded[e])
  /\ UNCHANGED <<vars, count, task, drawn, profiles, link, handlers, unit, loaded, boots, report, once>>
  /\ Remember

Reboot(e) ==
  /\ loaded' = [loaded EXCEPT ![e] = unit[e]]
  /\ Restarts(e, IF boots[e] THEN unit[e] ELSE NoSecret)
  /\ UNCHANGED <<vars, count, task, drawn, profiles, link, handlers, unit, boots, report, once>>
  /\ Remember

(* A heartbeat.  "active" is a service that runs; its peers may not have   *)
(* been found yet.                                                         *)
Heartbeat(e) ==
  /\ \E ok \in {FALSE, Connected} :
       report' = [report EXCEPT ![e] =
                    [status |-> IF service[e] # NoSecret THEN "active" ELSE "inactive", ok |-> ok]]
  /\ UNCHANGED <<vars, count, task, drawn, profiles, link, handlers, hosts, once>>

-----------------------------------------------------------------------------
(* updateNetworkLinkStatusForTaskLocked: the verification of either end    *)
(* decides.  The result of verify_direct_link has neither network_ok nor   *)
(* peer_count, whatever it found.                                          *)
Mutant_StatusOfTask(t, o) == IF task[t].action = "verify" THEN o ELSE "failed"
Mutant_KeepsStatus(t, o) ==
  CASE task[t].action = "verify" /\ o = "succeeded" -> "active"
    [] task[t].action = "verify" /\ o = "failed" -> link.status
    [] OTHER -> "failed"
LinkStatusAfter(t, o) ==
  IF task[t].action = "verify" /\ o = "succeeded" THEN "active" ELSE "failed"

UpdateNetworkLinkStatus(t, o) ==
  /\ Record(t, o)
  /\ link' = IF task[t].action \in {"verify", "direct"} /\ Exists
             THEN [link EXCEPT !.status = LinkStatusAfter(t, o)] ELSE link
  /\ once' = (once /\ result[t] = "none")
  /\ UNCHANGED <<count, task, drawn, profiles, handlers, hosts, report>>

(* decorateNetworkLinkLocked: what the panel shows.  The heartbeats may be *)
(* of any age.                                                             *)
Mutant_EitherRuns == EasyTier /\ \E e \in End : report[e].status = "active"
ReportedActive ==
  EasyTier /\ (\A e \in End : report[e].status = "active") /\ (\E e \in End : report[e].ok)

Shown ==
  CASE ReportedActive -> "active"
    [] EasyTier /\ ~ ReportedActive /\ link.status = "active"
         /\ (\E e \in End : report[e].status = "active") -> "partial"
    [] OTHER -> link.status

LinkNext ==
  \/ \E s \in Secret : PostProfile(s)
  \/ \E old, s \in Secret : UpdateNetworkProfile(old, s)
  \/ \E s \in Secret : DeleteNetworkProfile(s)
  \/ \E q \in Request, s \in Secret : QuickApplyNetwork(q, s)
  \/ CreateDirectLink
  \/ \E q \in Request, s \in Secret, ends \in SUBSET End : NetworkProfileApply(q, s, ends)
  \/ \E q \in Request, s \in Secret : NetworkLinkReapply(q, s)
  \/ \E q \in Request : NetworkLinkVerify(q)
  \/ \E q \in Request : NetworkLinkDisable(q)
  \/ DeleteNetworkLink
  \/ \E q \in Request, e \in End : CreateTask(q, e)
  \/ \E q \in Request : NoteTasks(q)
  \/ \E action \in {"cleanup", "restart"}, e \in End : CreateOtherTask(action, e)
  \/ \E t \in Task, o \in Outcome \cup {"killed"} : RunTask(t, o)
  \/ \E e \in End : ServiceRestarts(e)
  \/ \E e \in End : Reboot(e)
  \/ \E e \in End : Heartbeat(e)
  \/ \E t \in Task, o \in Outcome : UpdateNetworkLinkStatus(t, o)

LinkSpec == LinkInit /\ [][LinkNext]_linkVars

-----------------------------------------------------------------------------
LastBegun(t) == \A u \in Task : lane[u] = lane[t] /\ u > t => outcomes[u] = {}

(* After a request that applied a profile to both ends, by tasks that      *)
(* succeeded whenever they ran, both ends run one network until a later    *)
(* task is begun at one of them: in whatever order the nodes ran them,     *)
(* however far earlier applies got, whatever was asked for in between, and *)
(* whichever services and hosts were restarted since.                      *)
EndsAgree ==
  \A t \in Task : task[t].action = "apply" =>
    \A u \in Task : /\ task[u].of = t /\ u # t
                    /\ \A x \in {t, u} : outcomes[x] = {"succeeded"} /\ LastBegun(x)
                    => Connected

(* When both ends have answered a verification, a link that is stored as   *)
(* active is one whose ends were connected since it was asked for: what an *)
(* earlier one found is not passed off as its outcome.  (A result that is  *)
(* posted again may do just that, with no later one to put it right; and   *)
(* the status stays when the services stop after they were verified.)      *)
ActiveIsFresh ==
  once /\ EasyTier /\ link.status = "active" =>
    \A t \in Task : task[t].action = "verify" =>
      \A u \in Task : /\ task[u].of = t /\ u # t
                      /\ \A x \in {t, u} : result[x] # "none"
                      => lastMet >= t

(* The panel never shows a link as active whose ends have never met.       *)
ShownHasMet == EasyTier /\ Shown = "active" => lastMet # 0
=============================================================================
