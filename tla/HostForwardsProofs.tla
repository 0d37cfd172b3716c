---------------------------- MODULE HostForwardsProofs ----------------------------
(***************************************************************************)
(* What a report of the agent says of its host's tables, for any forwards, *)
(* stages and sequence of tasks, failures, kills and reboots.              *)
(***************************************************************************)
EXTENDS HostForwards, TLAPS

(* The type invariant, flags apart from the rest. *)
Results == [task : Task, status : {"succeeded", "failed"}] \cup [task : {Idle}, status : {"none"}]
Flags == ipForward \in BOOLEAN /\ obeyed \in BOOLEAN
Values ==
  /\ conf \in [Stage -> SUBSET Rule]
  /\ nftFile \in [Stage -> Rule \cup {NoRule}]
  /\ table \in [Stage -> SUBSET Rule]
  /\ mssFile \in {"none", "auto", "fixed"} /\ mss \in {"none", "auto", "fixed"}
  /\ running \in Task \cup {Idle}
  /\ next \in Command
  /\ last \in Results

LEMMA TypeByParts == TypeOK <=> Flags /\ Values
BY DEF TypeOK, Flags, Values, Results

(* A task with an action that names a rule has one, and is not Idle. *)
LEMMA TaskParts ==
  ASSUME NEW t \in Task \cup {Idle}
  PROVE  /\ t.action = "apply" => t \in Apply /\ t.rule \in Rule /\ t.stage \in Stage /\ t.clamp \in ClampMode
         /\ t.action \in {"verify", "disable"} => t \in OnRule /\ t.rule \in Rule /\ t.stage \in Stage
         /\ t.action \in {"cleanup", "reload"} => t \in OnHost
         /\ t.action # "none" => t \in Task
         /\ t.action = "none" <=> t = Idle
BY DEF Task, Apply, OnRule, OnHost, Idle, ClampMode

LEMMA ResultParts ==
  /\ NoResult \in Results /\ NoResult.status = "none"
  /\ \A t \in Task, status \in {"succeeded", "failed"} :
       /\ [task |-> t, status |-> status] \in Results
       /\ [task |-> t, status |-> status].task = t
       /\ [task |-> t, status |-> status].status = status
  /\ \A l \in Results : l.status # "none" => l.task \in Task
BY DEF Results, NoResult, Idle

LEMMA FlagsAreKept == Flags /\ [Next]_hfVars => Flags'
<1> SUFFICES ASSUME Flags, [Next]_hfVars PROVE Flags'
  OBVIOUS
<1>1. CASE \E t \in Task : Begin(t)
  BY <1>1, Zenon DEF Flags, Begin, hostVars, confVars, mssVars
<1>2. CASE Preflight
  BY <1>2, Zenon DEF Flags, Preflight, At, GoOn, End, hostVars, confVars, mssVars
<1>3. CASE WriteConf
  BY <1>3, Zenon DEF Flags, WriteConf, At, GoOn, End, r, s, mssVars
<1>4. CASE WriteNFT
  BY <1>4, Zenon DEF Flags, WriteNFT, At, GoOn, End, r, s, mssVars
<1>5. CASE EnableIPForward
  BY <1>5, Zenon DEF Flags, EnableIPForward, At, GoOn, End, confVars, mssVars
<1>6. CASE ApplyDeletes
  BY <1>6, Zenon DEF Flags, ApplyDeletes, DeleteTable, At, GoOn, s, confVars, mssVars
<1>7. CASE LoadNFT
  BY <1>7, Zenon DEF Flags, LoadNFT, At, GoOn, End, s, confVars, mssVars
<1>8. CASE WriteMSS
  BY <1>8, Zenon DEF Flags, WriteMSS, At, GoOn, End, confVars
<1>9. CASE DeleteMSS
  BY <1>9, Zenon DEF Flags, DeleteMSS, At, GoOn, confVars
<1>10. CASE LoadMSS
  BY <1>10, Zenon DEF Flags, LoadMSS, At, End, confVars
<1>11. CASE DisableDeletes
  BY <1>11, Zenon DEF Flags, DisableDeletes, DeleteTable, At, GoOn, s, confVars, mssVars
<1>12. CASE RemoveConf
  BY <1>12, Zenon DEF Flags, RemoveConf, At, GoOn, r, s, mssVars
<1>13. CASE RemoveNFT
  BY <1>13, Zenon DEF Flags, RemoveNFT, At, End, s, mssVars
<1>14. CASE VerifyForwardRules
  BY <1>14, Zenon DEF Flags, VerifyForwardRules, At, End, r, s, hostVars, confVars, mssVars
<1>15. CASE ReloadFirewall
  BY <1>15, Zenon DEF Flags, ReloadFirewall, At, End, confVars, mssVars
<1>16. CASE Refuse
  BY <1>16, Zenon DEF Flags, Refuse, End, hostVars, confVars, mssVars
<1>17. CASE CleanTables
  BY <1>17, Zenon DEF Flags, CleanTables, At, GoOn, confVars
<1>18. CASE CleanFiles
  BY <1>18, Zenon DEF Flags, CleanFiles, At, GoOn
<1>19. CASE CleanConf
  BY <1>19, Zenon DEF Flags, CleanConf, At, End, mssVars
<1>20. CASE Kill
  BY <1>20, Zenon DEF Flags, Kill, hostVars, confVars, mssVars
<1>21. CASE Reboot
  BY <1>21, Zenon DEF Flags, Reboot, confVars
<1>22. CASE UNCHANGED hfVars
  BY <1>22, Zenon DEF Flags, hfVars, hostVars, confVars, mssVars
<1> QED
  BY <1>1, <1>2, <1>3, <1>4, <1>5, <1>6, <1>7, <1>8, <1>9, <1>10, <1>11,
     <1>12, <1>13, <1>14, <1>15, <1>16, <1>17, <1>18, <1>19, <1>20, <1>21, <1>22
  DEF Next, ApplyNext

(* How far a task has come, and what is certain on the host by then. *)
Applied ==
  running.action = "apply" =>
    /\ next \notin {"start", "conf"} => r \in conf[s]
    /\ next \in {"sysctl", "delete", "load"} => nftFile[s] = r
    /\ next \in {"delete", "load", "mss file", "mss delete", "mss load"} => ipForward
    /\ next = "load" => (obeyed => table[s] = {})
    /\ next \in {"mss file", "mss delete", "mss load"} =>
         r \in table[s] /\ (obeyed => table[s] = {r}) /\ running.clamp # "disabled"
    /\ next \in {"mss delete", "mss load"} => mssFile # "none"

Removed ==
  /\ running.action = "disable" /\ next = "conf remove" /\ obeyed => table[s] = {}
  /\ running.action = "cleanup" /\ next \in {"file remove", "conf remove"} /\ obeyed =>
       \A i \in Stage : table[i] = {}

(* A result is reported by a host that runs nothing, and has not changed   *)
(* since; no table outlives its rules' JSON files.                         *)
Resting == last.status # "none" => running = Idle
Owned == obeyed => \A i \in Stage \ {"single"} : table[i] \subseteq conf[i]
Found == last.status = "succeeded" /\ last.task.action = "verify" => table[last.task.stage] # {}
Reported == Resting /\ Owned /\ Found

LEMMA ValuesAreKept == Values /\ Applied /\ [Next]_hfVars => Values'
<1> SUFFICES ASSUME Values, Applied, [Next]_hfVars PROVE Values'
  OBVIOUS
<1>0. /\ running.action = "apply" => running.rule \in Rule /\ running.stage \in Stage /\ running.clamp \in ClampMode
      /\ running.action \in {"verify", "disable"} => running.rule \in Rule /\ running.stage \in Stage
      /\ running.action # "none" => running \in Task
  BY TaskParts DEF Values
<1>1. CASE \E t \in Task : Begin(t)
  BY <1>1, <1>0, ResultParts DEF Values, Command, ClampMode, Begin, hostVars, confVars, mssVars
<1>2. CASE Preflight
  BY <1>2, <1>0, ResultParts DEF Values, Command, ClampMode, Preflight, At, GoOn, End, hostVars, confVars, mssVars
<1>3. CASE WriteConf
  <2>1. s \in Stage /\ r \in Rule /\ running \in Task
    BY <1>3, <1>0 DEF WriteConf, At, r, s
  <2>2. conf[s] \subseteq Rule /\ conf[s] \cup {r} \subseteq Rule /\ {r} \subseteq Rule
    BY <2>1 DEF Values
  <2>3. conf' \in [Stage -> SUBSET Rule]
    BY <1>3, <2>1, <2>2, Zenon DEF Values, WriteConf
  <2> QED
    BY <1>3, <2>1, <2>3, ResultParts DEF Values, Command, WriteConf, GoOn, End, mssVars
<1>4. CASE WriteNFT
  BY <1>4, <1>0, ResultParts DEF Values, Command, ClampMode, WriteNFT, At, GoOn, End, r, s, mssVars
<1>5. CASE EnableIPForward
  BY <1>5, <1>0, ResultParts DEF Values, Command, ClampMode, EnableIPForward, At, GoOn, End, confVars, mssVars
<1>6. CASE ApplyDeletes
  BY <1>6, <1>0, ResultParts DEF Values, Command, ClampMode, ApplyDeletes, DeleteTable, At, GoOn, s, confVars, mssVars
<1>7. CASE LoadNFT
  <2>1. s \in Stage /\ r \in Rule /\ running \in Task /\ nftFile[s] \in Rule
    BY <1>7, <1>0 DEF LoadNFT, At, Applied, r, s
  <2>2. table[s] \cup {nftFile[s]} \in SUBSET Rule
    BY <2>1 DEF Values
  <2>3. table' \in [Stage -> SUBSET Rule]
    BY <1>7, <2>1, <2>2 DEF Values, LoadNFT
  <2> QED
    BY <1>7, <2>1, <2>3, ResultParts DEF Values, Command, LoadNFT, GoOn, End, confVars, mssVars
<1>8. CASE WriteMSS
  BY <1>8, <1>0, ResultParts DEF Values, Command, ClampMode, Applied, WriteMSS, At, GoOn, End, confVars
<1>9. CASE DeleteMSS
  BY <1>9, <1>0, ResultParts DEF Values, Command, ClampMode, DeleteMSS, At, GoOn, confVars
<1>10. CASE LoadMSS
  <2>1. running \in Task
    BY <1>10, <1>0 DEF LoadMSS, At
  <2>2. mssFile' \in {"none", "auto", "fixed"} /\ mss' \in {"none", "auto", "fixed"}
    BY <1>10 DEF LoadMSS, Values
  <2> QED
    BY <1>10, <2>1, <2>2, ResultParts DEF Values, Command, LoadMSS, End, confVars
<1>11. CASE DisableDeletes
  BY <1>11, <1>0, ResultParts DEF Values, Command, ClampMode, DisableDeletes, DeleteTable, At, GoOn, s, confVars, mssVars
<1>12. CASE RemoveConf
  BY <1>12, <1>0, ResultParts DEF Values, Command, ClampMode, RemoveConf, At, GoOn, r, s, mssVars
<1>13. CASE RemoveNFT
  BY <1>13, <1>0, ResultParts DEF Values, Command, ClampMode, RemoveNFT, At, End, s, mssVars
<1>14. CASE VerifyForwardRules
  BY <1>14, <1>0, ResultParts DEF Values, Command, ClampMode, VerifyForwardRules, At, End, r, s, hostVars, confVars, mssVars
<1>15. CASE ReloadFirewall
  <2>1. running \in Task
    BY <1>15, <1>0 DEF ReloadFirewall, At
  <2>2. table' \in [Stage -> SUBSET Rule]
    <3>1. "single" \in Stage /\ nftFile["single"] # NoRule => table["single"] \cup {nftFile["single"]} \in SUBSET Rule
      BY DEF Values
    <3> QED
      BY <1>15, <3>1 DEF ReloadFirewall, Values
  <2> QED
    BY <1>15, <2>1, <2>2, ResultParts DEF Values, Command, ReloadFirewall, End, confVars, mssVars
<1>16. CASE Refuse
  BY <1>16, <1>0, ResultParts DEF Values, Command, ClampMode, Refuse, End, hostVars, confVars, mssVars
<1>17. CASE CleanTables
  BY <1>17, <1>0, ResultParts DEF Values, Command, ClampMode, CleanTables, At, GoOn, confVars
<1>18. CASE CleanFiles
  BY <1>18, <1>0, ResultParts DEF Values, Command, ClampMode, CleanFiles, At, GoOn
<1>19. CASE CleanConf
  BY <1>19, <1>0, ResultParts DEF Values, Command, ClampMode, CleanConf, At, End, mssVars
<1>20. CASE Kill
  BY <1>20, <1>0, ResultParts DEF Values, Command, ClampMode, Kill, hostVars, confVars, mssVars
<1>21. CASE Reboot
  BY <1>21, <1>0, ResultParts DEF Values, Command, ClampMode, Reboot, confVars
<1>22. CASE UNCHANGED hfVars
  BY <1>22, <1>0, ResultParts DEF Values, Command, ClampMode, hfVars, hostVars, confVars, mssVars
<1> QED
  BY <1>1, <1>2, <1>3, <1>4, <1>5, <1>6, <1>7, <1>8, <1>9, <1>10, <1>11,
     <1>12, <1>13, <1>14, <1>15, <1>16, <1>17, <1>18, <1>19, <1>20, <1>21, <1>22
  DEF Next, ApplyNext

LEMMA AppliedIsKept == Values /\ Applied /\ [Next]_hfVars => Applied'
<1> SUFFICES ASSUME Values, Applied, [Next]_hfVars PROVE Applied'
  OBVIOUS
<1>0. /\ running.action = "apply" => running.rule \in Rule /\ running.stage \in Stage /\ running.clamp \in ClampMode
      /\ running.action \in {"verify", "disable"} => running.rule \in Rule /\ running.stage \in Stage
      /\ Idle.action = "none"
  BY TaskParts DEF Values, Idle
<1>1. CASE \E t \in Task : Begin(t)
  BY <1>1, <1>0 DEF Values, Applied, Begin, hostVars, confVars, mssVars, r, s
<1>2. CASE Preflight
  BY <1>2, <1>0 DEF Values, Applied, Preflight, At, GoOn, End, hostVars, confVars, mssVars, r, s
<1>3. CASE WriteConf
  BY <1>3, <1>0 DEF Values, Applied, WriteConf, At, GoOn, End, r, s, mssVars
<1>4. CASE WriteNFT
  BY <1>4, <1>0 DEF Values, Applied, WriteNFT, At, GoOn, End, r, s, mssVars
<1>5. CASE EnableIPForward
  BY <1>5, <1>0 DEF Values, Applied, EnableIPForward, At, GoOn, End, confVars, mssVars, r, s
<1>6. CASE ApplyDeletes
  BY <1>6, <1>0 DEF Values, Applied, ApplyDeletes, DeleteTable, At, GoOn, s, confVars, mssVars, r
<1>7. CASE LoadNFT
  <2>1. s \in Stage /\ r \in Rule /\ nftFile[s] = r
    BY <1>7, <1>0 DEF LoadNFT, At, Applied, r, s
  <2>2. CASE running' = running /\ next' = "mss file"
    <3>1. ipForward /\ (obeyed => table[s] = {})
      BY <1>7 DEF LoadNFT, At, Applied
    <3>2. running.clamp # "disabled" /\ table' = [table EXCEPT ![s] = @ \cup {nftFile[s]}]
      BY <1>7, <2>2, <1>0 DEF LoadNFT, GoOn, End
    <3>3. table'[s] = table[s] \cup {r}
      BY <2>1, <3>2 DEF Values
    <3> QED
      BY <1>7, <2>1, <2>2, <3>1, <3>2, <3>3 DEF LoadNFT, At, Applied, confVars, mssVars, r, s
  <2>3. CASE running' = Idle
    BY <2>3, <1>0 DEF Applied
  <2> QED
    BY <1>7, <2>2, <2>3 DEF LoadNFT, GoOn, End
<1>8. CASE WriteMSS
  BY <1>8, <1>0 DEF Values, Applied, ClampMode, WriteMSS, At, GoOn, End, confVars, r, s
<1>9. CASE DeleteMSS
  BY <1>9, <1>0 DEF Values, Applied, DeleteMSS, At, GoOn, confVars, r, s
<1>10. CASE LoadMSS
  BY <1>10, <1>0 DEF Values, Applied, LoadMSS, At, End, confVars, r, s
<1>11. CASE DisableDeletes
  BY <1>11, <1>0 DEF Values, Applied, DisableDeletes, DeleteTable, At, GoOn, s, confVars, mssVars, r
<1>12. CASE RemoveConf
  BY <1>12, <1>0 DEF Values, Applied, RemoveConf, At, GoOn, r, s, mssVars
<1>13. CASE RemoveNFT
  BY <1>13, <1>0 DEF Values, Applied, RemoveNFT, At, End, s, mssVars, r
<1>14. CASE VerifyForwardRules
  BY <1>14, <1>0 DEF Values, Applied, VerifyForwardRules, At, End, r, s, hostVars, confVars, mssVars
<1>15. CASE ReloadFirewall
  BY <1>15, <1>0 DEF Values, Applied, ReloadFirewall, At, End, confVars, mssVars, r, s
<1>16. CASE Refuse
  BY <1>16, <1>0 DEF Values, Applied, Refuse, End, hostVars, confVars, mssVars, r, s
<1>17. CASE CleanTables
  BY <1>17, <1>0 DEF Values, Applied, CleanTables, At, GoOn, confVars, r, s
<1>18. CASE CleanFiles
  BY <1>18, <1>0 DEF Values, Applied, CleanFiles, At, GoOn, r, s
<1>19. CASE CleanConf
  BY <1>19, <1>0 DEF Values, Applied, CleanConf, At, End, mssVars, r, s
<1>20. CASE Kill
  BY <1>20, <1>0 DEF Values, Applied, Kill, hostVars, confVars, mssVars, r, s
<1>21. CASE Reboot
  BY <1>21, <1>0 DEF Values, Applied, Reboot, confVars, r, s
<1>22. CASE UNCHANGED hfVars
  BY <1>22, <1>0 DEF Values, Applied, hfVars, hostVars, confVars, mssVars, r, s
<1> QED
  BY <1>1, <1>2, <1>3, <1>4, <1>5, <1>6, <1>7, <1>8, <1>9, <1>10, <1>11,
     <1>12, <1>13, <1>14, <1>15, <1>16, <1>17, <1>18, <1>19, <1>20, <1>21, <1>22
  DEF Next, ApplyNext

LEMMA RemovedIsKept == Values /\ Removed /\ [Next]_hfVars => Removed'
<1> SUFFICES ASSUME Values, Removed, [Next]_hfVars PROVE Removed'
  OBVIOUS
<1>0. /\ running.action \in {"verify", "disable"} => running.rule \in Rule /\ running.stage \in Stage
      /\ Idle.action = "none"
  BY TaskParts DEF Values, Idle
<1>1. CASE \E t \in Task : Begin(t)
  BY <1>1, <1>0 DEF Values, Removed, Begin, hostVars, confVars, mssVars, s
<1>2. CASE Preflight
  BY <1>2, <1>0 DEF Values, Removed, Preflight, At, GoOn, End, hostVars, confVars, mssVars, s
<1>3. CASE WriteConf
  BY <1>3, <1>0 DEF Values, Removed, WriteConf, At, GoOn, End, r, s, mssVars
<1>4. CASE WriteNFT
  BY <1>4, <1>0 DEF Values, Removed, WriteNFT, At, GoOn, End, r, s, mssVars
<1>5. CASE EnableIPForward
  BY <1>5, <1>0 DEF Values, Removed, EnableIPForward, At, GoOn, End, confVars, mssVars, s
<1>6. CASE ApplyDeletes
  BY <1>6, <1>0 DEF Values, Removed, ApplyDeletes, DeleteTable, At, GoOn, s, confVars, mssVars
<1>7. CASE LoadNFT
  BY <1>7, <1>0 DEF Values, Removed, LoadNFT, At, GoOn, End, s, confVars, mssVars
<1>8. CASE WriteMSS
  BY <1>8, <1>0 DEF Values, Removed, WriteMSS, At, GoOn, End, confVars, s
<1>9. CASE DeleteMSS
  BY <1>9, <1>0 DEF Values, Removed, DeleteMSS, At, GoOn, confVars, s
<1>10. CASE LoadMSS
  BY <1>10, <1>0 DEF Values, Removed, LoadMSS, At, End, confVars, s
<1>11. CASE DisableDeletes
  BY <1>11, <1>0 DEF Values, Removed, DisableDeletes, DeleteTable, At, GoOn, s, confVars, mssVars
<1>12. CASE RemoveConf
  BY <1>12, <1>0 DEF Values, Removed, RemoveConf, At, GoOn, r, s, mssVars
<1>13. CASE RemoveNFT
  BY <1>13, <1>0 DEF Values, Removed, RemoveNFT, At, End, s, mssVars
<1>14. CASE VerifyForwardRules
  BY <1>14, <1>0 DEF Values, Removed, VerifyForwardRules, At, End, r, s, hostVars, confVars, mssVars
<1>15. CASE ReloadFirewall
  BY <1>15, <1>0 DEF Values, Removed, ReloadFirewall, At, End, confVars, mssVars, s
<1>16. CASE Refuse
  BY <1>16, <1>0 DEF Values, Removed, Refuse, End, hostVars, confVars, mssVars, s
<1>17. CASE CleanTables
  BY <1>17, <1>0 DEF Values, Removed, CleanTables, At, GoOn, confVars, s
<1>18. CASE CleanFiles
  BY <1>18, <1>0 DEF Values, Removed, CleanFiles, At, GoOn, s
<1>19. CASE CleanConf
  BY <1>19, <1>0 DEF Values, Removed, CleanConf, At, End, mssVars, s
<1>20. CASE Kill
  BY <1>20, <1>0 DEF Values, Removed, Kill, hostVars, confVars, mssVars, s
<1>21. CASE Reboot
  BY <1>21, <1>0 DEF Values, Removed, Reboot, confVars, s
<1>22. CASE UNCHANGED hfVars
  BY <1>22, <1>0 DEF Values, Removed, hfVars, hostVars, confVars, mssVars, s
<1> QED
  BY <1>1, <1>2, <1>3, <1>4, <1>5, <1>6, <1>7, <1>8, <1>9, <1>10, <1>11,
     <1>12, <1>13, <1>14, <1>15, <1>16, <1>17, <1>18, <1>19, <1>20, <1>21, <1>22
  DEF Next, ApplyNext

LEMMA ReportedIsKept == Values /\ Applied /\ Removed /\ Reported /\ [Next]_hfVars => Reported'
<1> SUFFICES ASSUME Values, Applied, Removed, Reported, [Next]_hfVars PROVE Reported'
  OBVIOUS
<1>0. /\ running.action = "apply" => running.rule \in Rule /\ running.stage \in Stage
      /\ running.action \in {"verify", "disable"} => running.rule \in Rule /\ running.stage \in Stage
      /\ Idle.action = "none"
  BY TaskParts DEF Values, Idle
<1>1. CASE \E t \in Task : Begin(t)
  BY <1>1, <1>0, ResultParts DEF Values, Reported, Resting, Owned, Found, Begin, hostVars, confVars, mssVars, s
<1>2. CASE Preflight
  BY <1>2, <1>0, ResultParts DEF Values, Reported, Resting, Owned, Found, Preflight, At, GoOn, End, hostVars, confVars, mssVars, s
<1>3. CASE WriteConf
  BY <1>3, <1>0, ResultParts DEF Values, Reported, Resting, Owned, Found, WriteConf, At, GoOn, End, r, s, mssVars
<1>4. CASE WriteNFT
  BY <1>4, <1>0, ResultParts DEF Values, Reported, Resting, Owned, Found, WriteNFT, At, GoOn, End, r, s, mssVars
<1>5. CASE EnableIPForward
  BY <1>5, <1>0, ResultParts DEF Values, Reported, Resting, Owned, Found, EnableIPForward, At, GoOn, End, confVars, mssVars, s
<1>6. CASE ApplyDeletes
  BY <1>6, <1>0, ResultParts DEF Values, Reported, Resting, Owned, Found, ApplyDeletes, DeleteTable, At, GoOn, s, confVars, mssVars
<1>7. CASE LoadNFT
  <2>1. s \in Stage /\ nftFile[s] = r /\ r \in conf[s] /\ last.status = "none"
    BY <1>7, <1>0 DEF LoadNFT, At, Applied, s, Reported, Resting
  <2>2. \A i \in Stage : table'[i] \subseteq table[i] \/ (i = s /\ table'[i] = table[i] \cup {r})
    BY <1>7, <2>1 DEF LoadNFT, Values
  <2>3. Owned'
    BY <1>7, <2>1, <2>2 DEF LoadNFT, Reported, Owned, confVars
  <2>4. Resting'
    BY <1>7, <2>1 DEF LoadNFT, GoOn, End, Resting
  <2>5. \/ last'.status = "none"
        \/ last' = [task |-> running, status |-> "succeeded"]
        \/ last' = [task |-> running, status |-> "failed"]
    BY <1>7, <2>1 DEF LoadNFT, GoOn, End
  <2>6. Found'
    <3>1. running.action = "apply" /\ running \in Task
      BY <1>7, TaskParts DEF LoadNFT, At, Values
    <3> QED
      BY <2>5, <3>1, ResultParts DEF Found
  <2> QED
    BY <2>3, <2>4, <2>6 DEF Reported
<1>8. CASE WriteMSS
  BY <1>8, <1>0, ResultParts DEF Values, Reported, Resting, Owned, Found, WriteMSS, At, GoOn, End, confVars, s
<1>9. CASE DeleteMSS
  BY <1>9, <1>0, ResultParts DEF Values, Reported, Resting, Owned, Found, DeleteMSS, At, GoOn, confVars, s
<1>10. CASE LoadMSS
  <2>1. Owned' /\ running' = Idle
    BY <1>10 DEF LoadMSS, End, Reported, Owned, confVars
  <2>2. last' = [task |-> running, status |-> "succeeded"] \/ last' = [task |-> running, status |-> "failed"]
    BY <1>10 DEF LoadMSS, End
  <2>3. Found'
    <3>1. running.action = "apply" /\ running \in Task
      BY <1>10, TaskParts DEF LoadMSS, At, Values
    <3> QED
      BY <2>2, <3>1, ResultParts DEF Found
  <2> QED
    BY <2>1, <2>3 DEF Reported, Resting
<1>11. CASE DisableDeletes
  <2>1. s \in Stage /\ last.status = "none" /\ UNCHANGED <<last, conf>>
    BY <1>11, <1>0 DEF DisableDeletes, At, DeleteTable, GoOn, s, Reported, Resting, confVars
  <2>2. obeyed' => obeyed /\ \A i \in Stage : table'[i] \subseteq table[i]
    BY <1>11, <2>1 DEF DisableDeletes, DeleteTable, Values
  <2>3. Owned'
    BY <2>1, <2>2 DEF Reported, Owned
  <2> QED
    BY <2>1, <2>3 DEF Reported, Resting, Found
<1>12. CASE RemoveConf
  <2>1. s \in Stage /\ last.status = "none" /\ UNCHANGED <<last, table, obeyed>>
    BY <1>12, <1>0 DEF RemoveConf, At, GoOn, s, Reported, Resting
  <2>2. \A i \in Stage \ {s} : conf'[i] = conf[i]
    BY <1>12, <2>1 DEF RemoveConf, Values
  <2>3. obeyed => table[s] = {}
    BY <1>12 DEF RemoveConf, At, Removed
  <2>4. Owned'
    BY <2>1, <2>2, <2>3 DEF Reported, Owned
  <2> QED
    BY <2>1, <2>4 DEF Reported, Resting, Found
<1>13. CASE RemoveNFT
  BY <1>13, <1>0, ResultParts DEF Values, Reported, Resting, Owned, Found, RemoveNFT, At, End, s, mssVars
<1>14. CASE VerifyForwardRules
  BY <1>14, <1>0, ResultParts DEF Values, Reported, Resting, Owned, Found, VerifyForwardRules, At, End, r, s, hostVars, confVars, mssVars
<1>15. CASE ReloadFirewall
  BY <1>15, <1>0, ResultParts DEF Values, Reported, Resting, Owned, Found, ReloadFirewall, At, End, confVars, mssVars, s
<1>16. CASE Refuse
  BY <1>16, <1>0, ResultParts DEF Values, Reported, Resting, Owned, Found, Refuse, End, hostVars, confVars, mssVars, s
<1>17. CASE CleanTables
  BY <1>17, <1>0, ResultParts DEF Values, Reported, Resting, Owned, Found, CleanTables, At, GoOn, confVars, s
<1>18. CASE CleanFiles
  BY <1>18, <1>0, ResultParts DEF Values, Reported, Resting, Owned, Found, CleanFiles, At, GoOn, s
<1>19. CASE CleanConf
  <2>1. UNCHANGED <<table, obeyed>> /\ running' = Idle
    BY <1>19 DEF CleanConf, End
  <2>2. obeyed => \A i \in Stage : table[i] = {}
    BY <1>19 DEF CleanConf, At, Removed
  <2>3. Found'
    BY <1>19 DEF CleanConf, At, End, Found
  <2> QED
    BY <2>1, <2>2, <2>3 DEF Reported, Resting, Owned
<1>20. CASE Kill
  BY <1>20, <1>0, ResultParts DEF Values, Reported, Resting, Owned, Found, Kill, hostVars, confVars, mssVars, s
<1>21. CASE Reboot
  BY <1>21, <1>0, ResultParts DEF Values, Reported, Resting, Owned, Found, Reboot, confVars, s
<1>22. CASE UNCHANGED hfVars
  BY <1>22, <1>0, ResultParts DEF Values, Reported, Resting, Owned, Found, hfVars, hostVars, confVars, mssVars, s
<1> QED
  BY <1>1, <1>2, <1>3, <1>4, <1>5, <1>6, <1>7, <1>8, <1>9, <1>10, <1>11,
     <1>12, <1>13, <1>14, <1>15, <1>16, <1>17, <1>18, <1>19, <1>20, <1>21, <1>22
  DEF Next, ApplyNext

LEMMA DoneIsKept == Values /\ Applied /\ Reported /\ ReportedIsDone /\ [Next]_hfVars => ReportedIsDone'
<1> SUFFICES ASSUME Values, Applied, Reported, ReportedIsDone, [Next]_hfVars PROVE ReportedIsDone'
  OBVIOUS
<1>0. /\ running.action = "apply" => running.rule \in Rule /\ running.stage \in Stage
      /\ Idle.action = "none"
  BY TaskParts DEF Values, Idle
<1>1. CASE \E t \in Task : Begin(t)
  BY <1>1, <1>0, ResultParts DEF Values, Reported, Resting, ReportedIsDone, Begin, hostVars, confVars, mssVars, s
<1>2. CASE Preflight
  BY <1>2, <1>0, ResultParts DEF Values, Reported, Resting, ReportedIsDone, Preflight, At, GoOn, End, hostVars, confVars, mssVars, s
<1>3. CASE WriteConf
  BY <1>3, <1>0, ResultParts DEF Values, Reported, Resting, ReportedIsDone, WriteConf, At, GoOn, End, r, s, mssVars
<1>4. CASE WriteNFT
  BY <1>4, <1>0, ResultParts DEF Values, Reported, Resting, ReportedIsDone, WriteNFT, At, GoOn, End, r, s, mssVars
<1>5. CASE EnableIPForward
  BY <1>5, <1>0, ResultParts DEF Values, Reported, Resting, ReportedIsDone, EnableIPForward, At, GoOn, End, confVars, mssVars, s
<1>6. CASE ApplyDeletes
  BY <1>6, <1>0, ResultParts DEF Values, Reported, Resting, ReportedIsDone, ApplyDeletes, DeleteTable, At, GoOn, s, confVars, mssVars
<1>7. CASE LoadNFT
  <2>1. s \in Stage /\ nftFile[s] = r /\ ipForward /\ (obeyed => table[s] = {}) /\ last.status = "none"
    BY <1>7, <1>0 DEF LoadNFT, At, Applied, s, Reported, Resting
  <2>2. CASE last' = last
    BY <2>1, <2>2 DEF ReportedIsDone
  <2>3. CASE last' = [task |-> running, status |-> "failed"]
    BY <2>3 DEF ReportedIsDone
  <2>4. CASE /\ last' = [task |-> running, status |-> "succeeded"]
             /\ table' = [table EXCEPT ![s] = @ \cup {nftFile[s]}]
             /\ ~ (s # "single" /\ running.clamp # "disabled")
    <3>1. table'[s] = table[s] \cup {r}
      BY <2>1, <2>4 DEF Values
    <3> QED
      BY <1>7, <2>1, <2>4, <3>1 DEF LoadNFT, ReportedIsDone, r, s
  <2> QED
    BY <1>7, <2>2, <2>3, <2>4 DEF LoadNFT, GoOn, End
<1>8. CASE WriteMSS
  BY <1>8, <1>0, ResultParts DEF Values, Reported, Resting, ReportedIsDone, WriteMSS, At, GoOn, End, confVars, s
<1>9. CASE DeleteMSS
  BY <1>9, <1>0, ResultParts DEF Values, Reported, Resting, ReportedIsDone, DeleteMSS, At, GoOn, confVars, s
<1>10. CASE LoadMSS
  <2>1. /\ r \in table[s] /\ (obeyed => table[s] = {r}) /\ ipForward /\ mssFile # "none"
        /\ UNCHANGED <<table, ipForward, obeyed>>
    BY <1>10 DEF LoadMSS, At, Applied
  <2>2. CASE last' = [task |-> running, status |-> "failed"]
    BY <2>2 DEF ReportedIsDone
  <2>3. CASE last' = [task |-> running, status |-> "succeeded"] /\ mss' = mssFile'
    <3>1. mss' # "none"
      BY <1>10, <2>1, <2>3 DEF LoadMSS
    <3> QED
      BY <2>1, <2>3, <3>1 DEF ReportedIsDone, r, s
  <2> QED
    BY <1>10, <2>2, <2>3 DEF LoadMSS, End
<1>11. CASE DisableDeletes
  BY <1>11, <1>0, ResultParts DEF Values, Reported, Resting, ReportedIsDone, DisableDeletes, DeleteTable, At, GoOn, s, confVars, mssVars
<1>12. CASE RemoveConf
  BY <1>12, <1>0, ResultParts DEF Values, Reported, Resting, ReportedIsDone, RemoveConf, At, GoOn, r, s, mssVars
<1>13. CASE RemoveNFT
  BY <1>13, <1>0, ResultParts DEF Values, Reported, Resting, ReportedIsDone, RemoveNFT, At, End, s, mssVars
<1>14. CASE VerifyForwardRules
  BY <1>14, <1>0, ResultParts DEF Values, Reported, Resting, ReportedIsDone, VerifyForwardRules, At, End, r, s, hostVars, confVars, mssVars
<1>15. CASE ReloadFirewall
  BY <1>15, <1>0, ResultParts DEF Values, Reported, Resting, ReportedIsDone, ReloadFirewall, At, End, confVars, mssVars, s
<1>16. CASE Refuse
  BY <1>16, <1>0, ResultParts DEF Values, Reported, Resting, ReportedIsDone, Refuse, End, hostVars, confVars, mssVars, s
<1>17. CASE CleanTables
  BY <1>17, <1>0, ResultParts DEF Values, Reported, Resting, ReportedIsDone, CleanTables, At, GoOn, confVars, s
<1>18. CASE CleanFiles
  BY <1>18, <1>0, ResultParts DEF Values, Reported, Resting, ReportedIsDone, CleanFiles, At, GoOn, s
<1>19. CASE CleanConf
  BY <1>19, <1>0, ResultParts DEF Values, Reported, Resting, ReportedIsDone, CleanConf, At, End, mssVars, s
<1>20. CASE Kill
  BY <1>20, <1>0, ResultParts DEF Values, Reported, Resting, ReportedIsDone, Kill, hostVars, confVars, mssVars, s
<1>21. CASE Reboot
  BY <1>21, <1>0, ResultParts DEF Values, Reported, Resting, ReportedIsDone, Reboot, confVars, s
<1>22. CASE UNCHANGED hfVars
  BY <1>22, <1>0, ResultParts DEF Values, Reported, Resting, ReportedIsDone, hfVars, hostVars, confVars, mssVars, s
<1> QED
  BY <1>1, <1>2, <1>3, <1>4, <1>5, <1>6, <1>7, <1>8, <1>9, <1>10, <1>11,
     <1>12, <1>13, <1>14, <1>15, <1>16, <1>17, <1>18, <1>19, <1>20, <1>21, <1>22
  DEF Next, ApplyNext

Inv == Values /\ Applied /\ Removed /\ Reported /\ ReportedIsDone

LEMMA InvHolds == Spec => []Inv
<1>1. Init => Inv
  <2> SUFFICES ASSUME Init PROVE Inv
    OBVIOUS
  <2>1. Values
    BY ResultParts DEF Init, Values, Command
  <2>2. Applied /\ Removed
    BY DEF Init, Applied, Removed, Idle
  <2>3. Reported /\ ReportedIsDone
    BY DEF Init, Reported, Resting, Owned, Found, ReportedIsDone, NoResult, Idle
  <2> QED
    BY <2>1, <2>2, <2>3 DEF Inv
<1>2. Inv /\ [Next]_hfVars => Inv'
  BY ValuesAreKept, AppliedIsKept, RemovedIsKept, ReportedIsKept, DoneIsKept DEF Inv
<1> QED
  BY <1>1, <1>2, PTL DEF Spec

(* Every variable keeps its type, through failures, kills and reboots.     *)
THEOREM TypeCorrect == Spec => []TypeOK
<1>1. Init => Flags
  BY Zenon DEF Init, Flags
<1>2. Inv => Values
  BY DEF Inv
<1> QED
  BY <1>1, <1>2, FlagsAreKept, InvHolds, TypeByParts, PTL DEF Spec

(* An apply that is reported as done is whole on the host.                 *)
THEOREM DoneIsWhole == Spec => []ReportedIsDone
<1>1. Inv => ReportedIsDone
  BY DEF Inv
<1> QED
  BY <1>1, InvHolds, PTL

(* The only rule configured in a stage is verified only when it is loaded. *)
THEOREM VerifiedTruthfully == Spec => []VerifiedIsLoaded
<1>1. Inv => VerifiedIsLoaded
  <2> SUFFICES ASSUME Inv, NEW i \in Stage \ {"single"},
                      obeyed, last.status = "succeeded", last.task.action = "verify",
                      last.task.stage = i, conf[i] = {last.task.rule}
               PROVE  table[i] = {last.task.rule}
    BY DEF VerifiedIsLoaded
  <2>1. table[i] # {} /\ table[i] \subseteq conf[i]
    BY DEF Inv, Reported, Owned, Found
  <2> QED
    BY <2>1
<1> QED
  BY <1>1, InvHolds, PTL
=============================================================================
