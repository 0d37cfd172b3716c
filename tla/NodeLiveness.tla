------------------------------ MODULE NodeLiveness ------------------------------
(***************************************************************************)
(* One node: the process of its agent, the heartbeats it sends, and what   *)
(* the controller makes of them.  Time passes in ticks, and what the code  *)
(* keeps as a point in time is kept here as its age.  A call that the      *)
(* agent gives up may still reach the controller, or wait for the store's  *)
(* lock there, and be worked on later.                                     *)
(***************************************************************************)
EXTENDS Naturals

CONSTANTS
  ReportInterval,   \* ticks between two heartbeats: EDGE_REPORT_INTERVAL
  StaleAfter,       \* the age up to which a heartbeat is recent, 90 seconds
  OfflineAfter      \* and up to which its node is not offline, 5 minutes

ASSUME IntervalAssumption == ReportInterval \in Nat \ {0}
ASSUME ThresholdAssumption ==
  /\ StaleAfter \in Nat /\ OfflineAfter \in Nat
  /\ ReportInterval + 2 <= StaleAfter /\ StaleAfter < OfflineAfter

VARIABLES
  installed,  \* systemd has the agent's service, and starts it
  agent,      \* what the agent's process is at, "off" without one
  first,      \* it has not finished its first cycle, a failure in which ends it
  due,        \* ticks until its report ticker fires
  waited,     \* ticks that its call has been waiting, of at most one (10 seconds)
  stamp,      \* age of the stamp its report got when its handler began, or NotBegun
  lateRegister, lateReport,  \* given up, but still on their way
  uninstall,  \* "stop" when uninstall-agent has sent its notice
  notice,     \* the notice is on its way
  purge,      \* a purge_agent_deployment task is pending
  seen,       \* age of the node's LastSeenAt, Absent without a record
  marked,     \* its OfflineAt is set
  spent,      \* history: ticks spent on polls, tasks and the agent's own status
              \* since its last answered register call,
  clean       \* history: since its last answered report nothing went wrong

node == <<seen, marked>>
late == <<lateRegister, lateReport>>
removal == <<installed, uninstall, notice, purge>>
process == <<agent, first, due, waited, stamp>>
livenessVars == <<node, late, removal, process, spent, clean>>

Oldest == OfflineAfter + 1
Age == 0 .. Oldest
Older(a) == IF a < Oldest THEN a + 1 ELSE a
Absent == Oldest + 1
NotBegun == Oldest + 2
NoCall == Oldest + 3

TypeOK ==
  /\ installed \in BOOLEAN /\ notice \in BOOLEAN /\ purge \in BOOLEAN
  /\ agent \in {"off", "idle", "collect", "register", "report", "tasks"}
  /\ first \in BOOLEAN
  /\ due \in 0 .. ReportInterval /\ waited \in 0 .. 1
  /\ stamp \in Age \cup {NotBegun}
  /\ lateRegister \in BOOLEAN /\ lateReport \in Age \cup {NotBegun, NoCall}
  /\ uninstall \in {"no", "stop"}
  /\ seen \in Age \cup {Absent} /\ marked \in BOOLEAN
  /\ spent \in Age /\ clean \in BOOLEAN

Init ==
  /\ installed = TRUE /\ agent = "off" /\ first = TRUE
  /\ due = 0 /\ waited = 0 /\ stamp = NotBegun
  /\ lateRegister = FALSE /\ lateReport = NoCall
  /\ uninstall = "no" /\ notice = FALSE /\ purge = FALSE
  /\ seen = Absent /\ marked = FALSE
  /\ spent = 0 /\ clean = FALSE

Spoil == clean' = FALSE /\ spent' = 0

(* nodeStatusReason.  OfflineAt, when set, is later than LastSeenAt:       *)
(* markNodeOffline takes the time when it holds the lock, and every later  *)
(* heartbeat clears it.                                                    *)
Mutant_NeverOffline ==
  CASE seen = Absent -> "absent"
    [] seen # Absent /\ marked -> "offline"
    [] seen <= StaleAfter /\ ~ marked -> "online"
    [] OTHER -> "stale"
Status ==
  CASE seen = Absent -> "absent"
    [] seen # Absent /\ marked -> "offline"
    [] seen <= StaleAfter /\ ~ marked -> "online"
    [] StaleAfter < seen /\ seen <= OfflineAfter /\ ~ marked -> "stale"
    [] OfflineAfter < seen /\ seen # Absent /\ ~ marked -> "offline"

(* syncMachineStatusLocked: the machine that is bound to the node, as the  *)
(* list of machines and their stream show it.  A single machine that is    *)
(* asked for, GET /api/v2/machines/{id}, is shown with the status that the *)
(* last of these or a binding has stored.                                  *)
MachineStatus == IF Status = "absent" THEN "offline" ELSE Status

-----------------------------------------------------------------------------
(* The agent: main and runOnce. *)

Start ==
  /\ installed /\ agent = "off"
  /\ agent' = "collect" /\ first' = TRUE /\ waited' = 0 /\ stamp' = NotBegun
  /\ due' = ReportInterval
  /\ UNCHANGED <<node, late, removal, spent, clean>>

Heartbeat ==
  /\ agent = "idle" /\ due = 0
  /\ agent' = "collect" /\ due' = ReportInterval /\ waited' = 0 /\ stamp' = NotBegun
  /\ UNCHANGED <<node, late, removal, first, spent, clean>>

(* The agent first asks systemctl and easytier-cli for what it is to       *)
(* report, which takes as long as they do: no deadline is set.             *)
CollectStatus ==
  /\ agent = "collect"
  /\ agent' = "register"
  /\ UNCHANGED <<node, late, removal, first, due, waited, stamp, spent, clean>>

Poll ==
  /\ agent = "idle"
  /\ agent' = "tasks"
  /\ UNCHANGED <<node, late, removal, first, due, waited, stamp, spent, clean>>

(* A heartbeat makes the node's record if it has none, and clears its      *)
(* OfflineAt whatever the age of its own stamp.                            *)
Mutant_KeepsOffline(age) == seen' = age /\ UNCHANGED marked
Seen(age) == seen' = age /\ marked' = FALSE

(* createNode takes the time when it holds the lock; a node without a      *)
(* record gets that at which the handler began.                            *)
CreateNode(age) == Seen(IF seen = Absent THEN age ELSE 0)

HandleAgentRegister ==
  /\ agent = "register"
  /\ \E age \in 0 .. waited : CreateNode(age)
  /\ agent' = "report" /\ waited' = 0 /\ spent' = 0
  /\ UNCHANGED <<late, removal, first, due, stamp, clean>>

(* handleAgentReport takes the time when it begins. *)
BeginReport ==
  /\ agent = "report" /\ stamp = NotBegun
  /\ stamp' = 0
  /\ UNCHANGED <<node, late, removal, agent, first, due, waited, spent, clean>>

(* upsertReport replaces the whole node, whatever it had. *)
UpsertReport(age) == Seen(age)

Mutant_Unstamped ==
  /\ agent = "report"
  /\ UpsertReport(stamp)
  /\ agent' = "tasks" /\ waited' = 0 /\ stamp' = NotBegun
  /\ clean' = TRUE
  /\ UNCHANGED <<late, removal, first, due, spent>>
HandleAgentReport ==
  /\ agent = "report" /\ stamp # NotBegun
  /\ UpsertReport(stamp)
  /\ agent' = "tasks" /\ waited' = 0 /\ stamp' = NotBegun
  /\ clean' = TRUE
  /\ UNCHANGED <<late, removal, first, due, spent>>

EndTasks ==
  /\ agent = "tasks"
  /\ agent' = "idle" /\ first' = FALSE
  /\ due' = IF first THEN ReportInterval ELSE due
  /\ UNCHANGED <<node, late, removal, waited, stamp, spent, clean>>

(* purge_agent_deployment removes the agent's service and its files, and   *)
(* leaves its process running.                                             *)
RunPurge ==
  /\ agent = "tasks" /\ purge
  /\ purge' = FALSE /\ installed' = FALSE
  /\ UNCHANGED <<node, late, uninstall, notice, process, spent, clean>>

(* A call that is given up may be lost, or on its way still. *)
GiveUp ==
  /\ lateRegister' \in IF agent = "register" THEN {TRUE, lateRegister} ELSE {lateRegister}
  /\ lateReport' \in IF agent = "report" THEN {stamp, lateReport} ELSE {lateReport}
  /\ Spoil

CallFails ==
  /\ agent \in {"register", "report", "tasks"}
  /\ GiveUp
  /\ agent' = IF first THEN "off" ELSE "idle"
  /\ due' = IF first THEN 0 ELSE due
  /\ stamp' = NotBegun /\ waited' = 0
  /\ UNCHANGED <<node, removal, first>>

(* The process is killed, or the host goes down. *)
Stop ==
  /\ GiveUp
  /\ agent' = "off" /\ first' = TRUE /\ due' = 0 /\ stamp' = NotBegun /\ waited' = 0

Kill ==
  /\ agent # "off"
  /\ Stop
  /\ UNCHANGED <<node, removal>>

-----------------------------------------------------------------------------
(* uninstall_agent notifies the controller and stops the agent afterwards. *)
NotifyControllerOffline ==
  /\ installed /\ uninstall = "no"
  /\ uninstall' = "stop" /\ notice' \in {TRUE, notice}
  /\ UNCHANGED <<node, late, installed, purge, process, spent, clean>>

UninstallAgent ==
  /\ uninstall = "stop"
  /\ uninstall' = "no" /\ installed' = FALSE
  /\ Stop
  /\ UNCHANGED <<node, notice, purge>>

Install ==
  /\ ~ installed
  /\ installed' = TRUE
  /\ UNCHANGED <<node, late, uninstall, notice, purge, process, spent, clean>>

-----------------------------------------------------------------------------
(* The controller. *)

(* markNodeOffline. *)
HandleAgentUnregister ==
  /\ notice /\ notice' = FALSE
  /\ marked' = (seen # Absent) /\ Spoil
  /\ UNCHANGED <<seen, late, installed, uninstall, purge, process>>

LateRegister ==
  /\ lateRegister /\ lateRegister' = FALSE
  /\ (\E age \in Age : CreateNode(age)) /\ Spoil
  /\ UNCHANGED <<lateReport, removal, process>>

LateReportBegins ==
  /\ lateReport = NotBegun /\ lateReport' = 0
  /\ UNCHANGED <<node, lateRegister, removal, process, spent, clean>>

LateReport ==
  /\ lateReport \in Age /\ lateReport' = NoCall
  /\ UpsertReport(lateReport) /\ Spoil
  /\ UNCHANGED <<lateRegister, removal, process>>

Lost ==
  /\ \/ lateRegister /\ lateRegister' = FALSE /\ UNCHANGED <<lateReport, notice>>
     \/ lateReport # NoCall /\ lateReport' = NoCall /\ UNCHANGED <<lateRegister, notice>>
     \/ notice /\ notice' = FALSE /\ UNCHANGED <<lateRegister, lateReport>>
  /\ UNCHANGED <<node, installed, uninstall, purge, process, spent, clean>>

DeleteNode ==
  /\ seen # Absent
  /\ seen' = Absent /\ marked' = FALSE /\ Spoil
  /\ UNCHANGED <<late, removal, process>>

(* DELETE of a node that is online, with mode=purge_agent.  The task stays *)
(* pending when the node is not online any more.                           *)
PurgeNode ==
  /\ Status = "online"
  /\ purge' = TRUE
  /\ UNCHANGED <<node, late, installed, uninstall, notice, process, spent, clean>>

-----------------------------------------------------------------------------
(* Time.  The agent does not miss its ticker when it is idle, and no call  *)
(* of a heartbeat takes longer than its timeout.                           *)
Tick ==
  /\ ~ (agent = "idle" /\ due = 0)
  /\ agent \in {"register", "report"} => waited = 0
  /\ due' = IF due > 0 THEN due - 1 ELSE 0
  /\ waited' = IF agent \in {"register", "report"} THEN 1 ELSE 0
  /\ stamp' = IF stamp \in Age THEN Older(stamp) ELSE stamp
  /\ lateReport' = IF lateReport \in Age THEN Older(lateReport) ELSE lateReport
  /\ seen' = IF seen \in Age THEN Older(seen) ELSE seen
  /\ spent' = IF agent \in {"tasks", "collect"} /\ clean THEN Older(spent) ELSE spent
  /\ UNCHANGED <<marked, lateRegister, removal, agent, first, clean>>

Heartbeats ==
  \/ Start \/ Heartbeat \/ CollectStatus \/ HandleAgentRegister \/ BeginReport
  \/ HandleAgentReport \/ Poll \/ EndTasks \/ RunPurge \/ CallFails \/ Kill

Next ==
  \/ Heartbeats
  \/ NotifyControllerOffline \/ UninstallAgent \/ Install
  \/ HandleAgentUnregister \/ LateRegister \/ LateReportBegins \/ LateReport \/ Lost
  \/ DeleteNode \/ PurgeNode
  \/ Tick

Spec == Init /\ [][Next]_livenessVars

(* Time passes, systemd starts the service, the loop goes on, tasks and    *)
(* the commands that collect the status end, requests do not stay under    *)
(* way for ever, and a report that is tried again and again is answered    *)
(* now and then.                                                           *)
FairSpec ==
  /\ Spec
  /\ WF_livenessVars(Tick) /\ WF_livenessVars(Start) /\ SF_livenessVars(Heartbeat)
  /\ SF_livenessVars(CollectStatus) /\ SF_livenessVars(EndTasks)
  /\ SF_livenessVars(HandleAgentRegister) /\ SF_livenessVars(BeginReport)
  /\ SF_livenessVars(HandleAgentReport)
  /\ WF_livenessVars(UninstallAgent)
  /\ SF_livenessVars(HandleAgentUnregister \/ LateRegister \/ LateReport \/ LateReportBegins \/ Lost)

-----------------------------------------------------------------------------
(* An agent whose heartbeats are answered is shown for what it is: online, *)
(* and never offline, as long as the polls and tasks it works on between   *)
(* two heartbeats, and the commands that collect its status before each,   *)
(* leave time for the next one.                                            *)
WorkingIsShown ==
  clean /\ agent # "off" =>
    /\ spent + ReportInterval + 2 <= StaleAfter => Status = "online"
    /\ spent + ReportInterval + 2 <= OfflineAfter => Status \in {"online", "stale"}

(* A node whose agent is gone for good comes to be shown as offline, or    *)
(* has no record, and stays so, whether or not its notice arrived, and     *)
(* whatever heartbeats were still under way.                               *)
GoneIsOffline ==
  <>[](~ installed /\ agent = "off") => <>[](Status \in {"offline", "absent"} /\ MachineStatus = "offline")

(* A node whose agent is installed for good is shown as online again and   *)
(* again, whatever records were deleted or notices came late.              *)
InstalledComesBack == <>[](installed) => []<>(Status = "online" /\ MachineStatus = "online")
=============================================================================
