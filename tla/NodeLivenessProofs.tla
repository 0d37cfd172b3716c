-------------------------- MODULE NodeLivenessProofs --------------------------
(***************************************************************************)
(* That an agent whose heartbeats are answered is shown for what it is,    *)
(* for every report interval and every pair of thresholds the assumptions  *)
(* allow, however long time goes on.                                       *)
(***************************************************************************)
EXTENDS NodeLiveness, TLAPS

(* The three values that stand for no age are none. *)
LEMMA Ages ==
  /\ Age \subseteq Nat /\ 0 \in Age
  /\ Absent \notin Age /\ NotBegun \notin Age /\ NoCall \notin Age
BY ThresholdAssumption DEF Age, Oldest, Absent, NotBegun, NoCall

(* The type invariant, flags apart from ages and counts. *)
Flags ==
  /\ installed \in BOOLEAN /\ notice \in BOOLEAN /\ purge \in BOOLEAN
  /\ first \in BOOLEAN /\ lateRegister \in BOOLEAN
  /\ marked \in BOOLEAN /\ clean \in BOOLEAN
Values ==
  /\ agent \in {"off", "idle", "collect", "register", "report", "tasks"}
  /\ due \in 0 .. ReportInterval /\ waited \in 0 .. 1
  /\ stamp \in Age \cup {NotBegun} /\ lateReport \in Age \cup {NotBegun, NoCall}
  /\ uninstall \in {"no", "stop"}
  /\ seen \in Age \cup {Absent} /\ spent \in Age

LEMMA FlagsAreKept == Flags /\ [Next]_livenessVars => Flags'
<1> SUFFICES ASSUME Flags, [Next]_livenessVars PROVE Flags'
  OBVIOUS
<1>1. CASE Start
  BY <1>1, Zenon DEF Flags, Start, node, late, removal
<1>2. CASE Heartbeat
  BY <1>2, Zenon DEF Flags, Heartbeat, node, late, removal
<1>3. CASE Poll
  BY <1>3, Zenon DEF Flags, Poll, node, late, removal
<1>4. CASE HandleAgentRegister
  BY <1>4, Zenon DEF Flags, HandleAgentRegister, CreateNode, Seen, late, removal
<1>5. CASE BeginReport
  BY <1>5, Zenon DEF Flags, BeginReport, node, late, removal
<1>6. CASE HandleAgentReport
  BY <1>6, Zenon DEF Flags, HandleAgentReport, UpsertReport, Seen, late, removal
<1>7. CASE EndTasks
  BY <1>7, Zenon DEF Flags, EndTasks, node, late, removal
<1>8. CASE RunPurge
  BY <1>8, Zenon DEF Flags, RunPurge, node, late, process
<1>9. CASE CallFails
  BY <1>9, Zenon DEF Flags, CallFails, GiveUp, Spoil, node, removal
<1>10. CASE Kill
  BY <1>10, Zenon DEF Flags, Kill, Stop, GiveUp, Spoil, node, removal
<1>11. CASE NotifyControllerOffline
  BY <1>11, Zenon DEF Flags, NotifyControllerOffline, node, late, process
<1>12. CASE UninstallAgent
  BY <1>12, Zenon DEF Flags, UninstallAgent, Stop, GiveUp, Spoil, node
<1>13. CASE Install
  BY <1>13, Zenon DEF Flags, Install, node, late, process
<1>14. CASE HandleAgentUnregister
  BY <1>14, Zenon DEF Flags, HandleAgentUnregister, Spoil, late, process
<1>15. CASE LateRegister
  BY <1>15, Zenon DEF Flags, LateRegister, CreateNode, Seen, Spoil, removal, process
<1>16. CASE LateReportBegins
  BY <1>16, Zenon DEF Flags, LateReportBegins, node, removal, process
<1>17. CASE LateReport
  BY <1>17, Zenon DEF Flags, LateReport, UpsertReport, Seen, Spoil, removal, process
<1>18. CASE Lost
  BY <1>18, Zenon DEF Flags, Lost, node, process
<1>19. CASE DeleteNode
  BY <1>19, Zenon DEF Flags, DeleteNode, Spoil, late, removal, process
<1>20. CASE PurgeNode
  BY <1>20, Zenon DEF Flags, PurgeNode, node, late, process
<1>21. CASE Tick
  BY <1>21, Zenon DEF Flags, Tick, removal
<1>22. CASE UNCHANGED livenessVars
  BY <1>22, Zenon DEF Flags, livenessVars, node, late, removal, process
<1>23. CASE CollectStatus
  BY <1>23, Zenon DEF Flags, CollectStatus, node, late, removal
<1> QED
  BY <1>1, <1>2, <1>3, <1>4, <1>5, <1>6, <1>7, <1>8, <1>9, <1>10, <1>11,
     <1>12, <1>13, <1>14, <1>15, <1>16, <1>17, <1>18, <1>19, <1>20, <1>21, <1>22, <1>23
  DEF Next, Heartbeats

LEMMA ValuesAreKept == Values /\ [Next]_livenessVars => Values'
<1> SUFFICES ASSUME Values, [Next]_livenessVars PROVE Values'
  OBVIOUS
<1> USE IntervalAssumption, ThresholdAssumption DEF Values, Age, Oldest, Older, Absent, NotBegun, NoCall
<1>1. CASE Start
  BY <1>1 DEF Start, node, late, removal
<1>2. CASE Heartbeat
  BY <1>2 DEF Heartbeat, node, late, removal
<1>3. CASE Poll
  BY <1>3 DEF Poll, node, late, removal
<1>4. CASE HandleAgentRegister
  BY <1>4 DEF HandleAgentRegister, CreateNode, Seen, late, removal
<1>5. CASE BeginReport
  BY <1>5 DEF BeginReport, node, late, removal
<1>6. CASE HandleAgentReport
  BY <1>6 DEF HandleAgentReport, UpsertReport, Seen, late, removal
<1>7. CASE EndTasks
  BY <1>7 DEF EndTasks, node, late, removal
<1>8. CASE RunPurge
  BY <1>8 DEF RunPurge, node, late, process
<1>9. CASE CallFails
  BY <1>9 DEF CallFails, GiveUp, Spoil, node, removal
<1>10. CASE Kill
  BY <1>10 DEF Kill, Stop, GiveUp, Spoil, node, removal
<1>11. CASE NotifyControllerOffline
  BY <1>11 DEF NotifyControllerOffline, node, late, process
<1>12. CASE UninstallAgent
  BY <1>12 DEF UninstallAgent, Stop, GiveUp, Spoil, node
<1>13. CASE Install
  BY <1>13 DEF Install, node, late, process
<1>14. CASE HandleAgentUnregister
  BY <1>14 DEF HandleAgentUnregister, Spoil, late, process
<1>15. CASE LateRegister
  BY <1>15 DEF LateRegister, CreateNode, Seen, Spoil, removal, process
<1>16. CASE LateReportBegins
  BY <1>16 DEF LateReportBegins, node, removal, process
<1>17. CASE LateReport
  BY <1>17 DEF LateReport, UpsertReport, Seen, Spoil, removal, process
<1>18. CASE Lost
  BY <1>18 DEF Lost, node, process
<1>19. CASE DeleteNode
  BY <1>19 DEF DeleteNode, Spoil, late, removal, process
<1>20. CASE PurgeNode
  BY <1>20 DEF PurgeNode, node, late, process
<1>21. CASE Tick
  BY <1>21 DEF Tick, removal
<1>22. CASE UNCHANGED livenessVars
  BY <1>22 DEF livenessVars, node, late, removal, process
<1>23. CASE CollectStatus
  BY <1>23 DEF CollectStatus, node, late, removal
<1> QED
  BY <1>1, <1>2, <1>3, <1>4, <1>5, <1>6, <1>7, <1>8, <1>9, <1>10, <1>11,
     <1>12, <1>13, <1>14, <1>15, <1>16, <1>17, <1>18, <1>19, <1>20, <1>21, <1>22, <1>23
  DEF Next, Heartbeats

LEMMA TypeByParts == TypeOK <=> Flags /\ Values
BY DEF TypeOK, Flags, Values

(* Every variable keeps its type, whatever is late, lost or removed.       *)
THEOREM TypeCorrect == Spec => []TypeOK
<1>1. Init => Flags
  BY Zenon DEF Init, Flags
<1>2. Init => Values
  BY IntervalAssumption, Ages DEF Init, Values
<1>3. Flags /\ Values /\ [Next]_livenessVars => (Flags /\ Values)'
  BY FlagsAreKept, ValuesAreKept
<1> QED
  BY <1>1, <1>2, <1>3, TypeByParts, PTL DEF Spec

-----------------------------------------------------------------------------
(* How old the last heartbeat can be, at each point of the agent's loop:   *)
(* while it is idle, what is left until the next one counts too.           *)
WithinInterval ==
  clean =>
    /\ agent \in {"idle", "tasks"} => seen + due <= spent + ReportInterval + 1
    /\ agent = "tasks" /\ first => seen <= spent + 1
    /\ agent = "collect" => seen <= spent + ReportInterval + 1
    /\ agent = "register" => seen <= spent + ReportInterval + 1 + waited
    /\ agent = "report" => seen <= waited

KnownAge ==
  /\ agent \in {"collect", "register"} => stamp = NotBegun /\ (agent = "collect" => waited = 0)
  /\ agent = "report" => spent = 0 /\ (stamp \in Age => stamp <= waited)
  /\ agent = "idle" => ~ first
  /\ clean => agent # "off" /\ seen \in Age /\ ~ marked /\ WithinInterval

Inv == Values /\ KnownAge

LEMMA KnownAgeIsKept == Values /\ KnownAge /\ [Next]_livenessVars => KnownAge'
<1> SUFFICES ASSUME Values, KnownAge, [Next]_livenessVars PROVE KnownAge'
  OBVIOUS
<1> USE IntervalAssumption, ThresholdAssumption
        DEF Values, KnownAge, WithinInterval, Age, Oldest, Older, Absent, NotBegun, NoCall
<1>1. CASE Start
  BY <1>1 DEF Start, node, late, removal
<1>2. CASE Heartbeat
  BY <1>2 DEF Heartbeat, node, late, removal
<1>3. CASE Poll
  BY <1>3 DEF Poll, node, late, removal
<1>4. CASE HandleAgentRegister
  BY <1>4 DEF HandleAgentRegister, CreateNode, Seen, late, removal
<1>5. CASE BeginReport
  BY <1>5 DEF BeginReport, node, late, removal
<1>6. CASE HandleAgentReport
  BY <1>6 DEF HandleAgentReport, UpsertReport, Seen, late, removal
<1>7. CASE EndTasks
  BY <1>7 DEF EndTasks, node, late, removal
<1>8. CASE RunPurge
  BY <1>8 DEF RunPurge, node, late, process
<1>9. CASE CallFails
  BY <1>9 DEF CallFails, GiveUp, Spoil, node, removal
<1>10. CASE Kill
  BY <1>10 DEF Kill, Stop, GiveUp, Spoil, node, removal
<1>11. CASE NotifyControllerOffline
  BY <1>11 DEF NotifyControllerOffline, node, late, process
<1>12. CASE UninstallAgent
  BY <1>12 DEF UninstallAgent, Stop, GiveUp, Spoil, node
<1>13. CASE Install
  BY <1>13 DEF Install, node, late, process
<1>14. CASE HandleAgentUnregister
  BY <1>14 DEF HandleAgentUnregister, Spoil, late, process
<1>15. CASE LateRegister
  BY <1>15 DEF LateRegister, CreateNode, Seen, Spoil, removal, process
<1>16. CASE LateReportBegins
  BY <1>16 DEF LateReportBegins, node, removal, process
<1>17. CASE LateReport
  BY <1>17 DEF LateReport, UpsertReport, Seen, Spoil, removal, process
<1>18. CASE Lost
  BY <1>18 DEF Lost, node, process
<1>19. CASE DeleteNode
  BY <1>19 DEF DeleteNode, Spoil, late, removal, process
<1>20. CASE PurgeNode
  BY <1>20 DEF PurgeNode, node, late, process
<1>21. CASE Tick
  BY <1>21 DEF Tick, removal
<1>22. CASE UNCHANGED livenessVars
  BY <1>22 DEF livenessVars, node, late, removal, process
<1>23. CASE CollectStatus
  BY <1>23 DEF CollectStatus, node, late, removal
<1> QED
  BY <1>1, <1>2, <1>3, <1>4, <1>5, <1>6, <1>7, <1>8, <1>9, <1>10, <1>11,
     <1>12, <1>13, <1>14, <1>15, <1>16, <1>17, <1>18, <1>19, <1>20, <1>21, <1>22, <1>23
  DEF Next, Heartbeats

(* An agent whose heartbeats are answered is shown as online, and never as *)
(* offline, as long as its tasks and the collection of its status leave    *)
(* time for the next heartbeat.                                            *)
THEOREM AnsweredIsShown == Spec => []WorkingIsShown
<1>1. Init => Inv
  BY IntervalAssumption, Ages DEF Init, Values, KnownAge, Inv
<1>2. Inv /\ [Next]_livenessVars => Inv'
  BY ValuesAreKept, KnownAgeIsKept DEF Inv
<1>3. Inv => WorkingIsShown
  <2> SUFFICES ASSUME Inv, clean, agent # "off"
               PROVE  /\ spent + ReportInterval + 2 <= StaleAfter => Status = "online"
                      /\ spent + ReportInterval + 2 <= OfflineAfter => Status \in {"online", "stale"}
    BY DEF WorkingIsShown
  <2>1. seen \in Age /\ ~ marked /\ seen <= spent + ReportInterval + 2
    BY IntervalAssumption, ThresholdAssumption
       DEF Inv, Values, KnownAge, WithinInterval, Age, Oldest
  <2>2. spent \in Nat /\ seen \in Nat /\ seen # Absent
    BY <2>1, Ages DEF Inv, Values
  <2> QED
    BY <2>1, <2>2, IntervalAssumption, ThresholdAssumption DEF Status
<1> QED
  BY <1>1, <1>2, <1>3, PTL DEF Spec
=============================================================================
