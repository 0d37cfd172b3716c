--------------------------- MODULE IXProfilesProofs ---------------------------
(***************************************************************************)
(* One ix profile, for any tasks, requests at a time and rules: once all   *)
(* is settled, the panel shows the line as the last pause or resume left   *)
(* it, and the rules as the last sync found them.  What the panel shows is *)
(* that of the last task with a result, what the host has is that of the   *)
(* last task begun, and in a settled profile these are the same task.      *)
(***************************************************************************)
EXTENDS IXProfiles, TLAPS

TasksOK ==
  /\ count \in Task \cup {0}
  /\ action \in [Task -> Action \cup {"none"}]
  /\ payload \in [Task -> Rules \cup {NoRules}]
  /\ lane \in [Task -> Lane \cup {NoLane}]
  /\ outcomes \in [Task -> SUBSET (Outcome \cup {"killed"})]
  /\ result \in [Task -> Outcome \cup {"none"}]
  /\ latest \in [Task -> Outcome \cup {"killed", "none"}]

(* Tasks are numbered as they are enqueued, each is in a lane from then    *)
(* on, and only those are run, and only what ran has a result.             *)
TaskInv ==
  \A t \in Task : /\ t <= count <=> lane[t] # NoLane
                  /\ t > count => action[t] = "none" /\ outcomes[t] = {}
                  /\ outcomes[t] = {} => result[t] = "none" /\ latest[t] = "none"

RulesOK ==
  /\ rules \in Rules \cup {NoRules} /\ hostRules \in Rules \cup {NoRules}
  /\ content \in [Task -> SUBSET (Rules \cup {NoRules, Unreadable})]
  /\ saved \in [Request -> Rules \cup {NoRules}]

(* Nothing is asked of a profile that does not exist. *)
HandlersOK ==
  /\ status \in {"absent", "pending", "healthy", "failed", "paused"}
  /\ call \in [Request -> Action \cup {"none", "read"}]
  /\ status = "absent" => count = 0 /\ \A q \in Request : call[q] = "none"

FlagsOK == enabled \in BOOLEAN /\ up \in BOOLEAN /\ inOrder \in BOOLEAN

DataOK == TasksOK /\ TaskInv /\ RulesOK /\ HandlersOK

USE TaskAssumption, LaneAssumption, OutcomeAssumption, NoRulesAssumption, UnreadableAssumption

LEMMA Numbers ==
  \A t, u \in Task : /\ u > t => u # t /\ ~ t > u
                     /\ u # t /\ ~ u > t => t > u
  OBVIOUS

-----------------------------------------------------------------------------
(* What the steps do to the tasks. *)

Added(a) ==
  /\ count \in Nat /\ count + 1 \in Task /\ count' = count + 1
  /\ action'[count + 1] = a /\ action[count + 1] = "none"
  /\ \A t \in Task : t # count + 1 => action'[t] = action[t] /\ lane'[t] = lane[t]
  /\ outcomes[count + 1] = {} /\ result[count + 1] = "none" /\ latest[count + 1] = "none"
  /\ lane'[count + 1] # NoLane
  /\ UNCHANGED <<outcomes, result>>

LEMMA Enqueued ==
  ASSUME TasksOK, TaskInv, RulesOK, NEW a \in Action, NEW r \in Rules \cup {NoRules},
         EnqueueIXTask(a, r), UNCHANGED latest
  PROVE  TasksOK' /\ TaskInv' /\ Added(a)
<1>1. PICK l \in Lane : Offer({count + 1}, l)
  BY DEF EnqueueIXTask
<1>2. /\ count + 1 \in Task /\ count' = count + 1
      /\ action' = [action EXCEPT ![count + 1] = a]
      /\ payload' = [payload EXCEPT ![count + 1] = r]
  BY DEF EnqueueIXTask
<1>3. /\ lane' = [t \in Task |-> IF t = count + 1 THEN l ELSE lane[t]]
      /\ UNCHANGED <<outcomes, result>>
  BY <1>1 DEF Offer
<1>4. TasksOK'
  <2>1. lane' \in [Task -> Lane \cup {NoLane}]
    BY <1>3 DEF TasksOK
  <2> QED
    BY <1>2, <1>3, <2>1 DEF TasksOK
<1>5. count \in Nat
  BY DEF TasksOK
<1>6. count + 1 > count
  BY <1>5
<1>7. outcomes[count + 1] = {} /\ action[count + 1] = "none"
  BY <1>2, <1>6 DEF TaskInv
<1>8. result[count + 1] = "none" /\ latest[count + 1] = "none"
  BY <1>2, <1>7 DEF TaskInv
<1>9. Added(a)
  BY <1>2, <1>3, <1>5, <1>7, <1>8 DEF Added, TasksOK
<1>10. /\ action' = [action EXCEPT ![count + 1] = a] /\ action'[count + 1] = a
       /\ lane'[count + 1] # NoLane /\ UNCHANGED <<outcomes, result, latest>>
  BY <1>2, <1>3, <1>9 DEF Added
<1>11. ASSUME NEW t \in Task
       PROVE  /\ t <= count' <=> lane'[t] # NoLane
              /\ t > count' => action'[t] = "none" /\ outcomes'[t] = {}
              /\ outcomes'[t] = {} => result'[t] = "none" /\ latest'[t] = "none"
  <2>1. CASE t = count + 1
    BY <1>2, <1>5, <1>7, <1>8, <1>10, <2>1
  <2>2. CASE t # count + 1
    <3>1. action'[t] = action[t] /\ lane'[t] = lane[t]
      BY <1>9, <2>2 DEF Added
    <3>2. t <= count' <=> t <= count
      BY <1>2, <1>5, <2>2
    <3>3. t > count' <=> t > count
      BY <1>2, <1>5, <2>2
    <3> QED
      BY <1>10, <3>1, <3>2, <3>3 DEF TaskInv
  <2> QED
    BY <2>1, <2>2
<1>12. TaskInv'
  BY <1>11 DEF TaskInv
<1> QED
  BY <1>4, <1>9, <1>12

(* The steps that enqueue a task, *)
LEMMA NewTask ==
  ASSUME DataOK, CreateIXProfile \/ \E q \in Request : FinishCall(q)
  PROVE  TasksOK' /\ TaskInv' /\ \E a \in Action : Added(a)
<1>1. CASE CreateIXProfile
  BY <1>1, Enqueued DEF CreateIXProfile, DataOK, Action, Write, Switch
<1>2. ASSUME NEW q \in Request, FinishCall(q) PROVE TasksOK' /\ TaskInv' /\ \E a \in Action : Added(a)
  <2>1. PICK r \in Rules \cup {NoRules} : EnqueueIXTask(call[q], r)
    BY <1>2 DEF FinishCall, DataOK, RulesOK
  <2>2. call[q] \in Action /\ UNCHANGED latest
    BY <1>2 DEF FinishCall
  <2> QED
    BY <2>1, <2>2, Enqueued DEF DataOK
<1> QED
  BY <1>1, <1>2

(* the runs *)
Ran(t, o) ==
  /\ lane[t] # NoLane
  /\ UNCHANGED <<lane, result, action, count>>
  /\ \A u \in Task : u # t => outcomes'[u] = outcomes[u] /\ latest'[u] = latest[u]
  /\ outcomes'[t] = outcomes[t] \cup {o} /\ latest'[t] = o

LEMMA RunOfTask ==
  ASSUME TasksOK, TaskInv, NEW t \in Task, NEW o \in Outcome \cup {"killed"}, RunAction(t, o)
  PROVE  TasksOK' /\ TaskInv' /\ Ran(t, o)
<1>1. Ran(t, o)
  BY DEF RunAction, Run, Ran, TasksOK
<1>2. TasksOK'
  BY DEF RunAction, Run, TasksOK
<1>3. t <= count /\ t \in Nat /\ count \in Nat
  <2>1. lane[t] # NoLane
    BY <1>1 DEF Ran
  <2>2. t <= count
    BY <2>1 DEF TaskInv
  <2> QED
    BY <2>2 DEF TasksOK
<1>4. outcomes'[t] # {}
  BY <1>1 DEF Ran
<1>5. ASSUME NEW u \in Task
      PROVE  /\ u <= count' <=> lane'[u] # NoLane
             /\ u > count' => action'[u] = "none" /\ outcomes'[u] = {}
             /\ outcomes'[u] = {} => result'[u] = "none" /\ latest'[u] = "none"
  <2>1. CASE u = t
    <3>1. ~ t > count
      BY <1>3
    <3> QED
      BY <1>1, <1>3, <1>4, <2>1, <3>1 DEF Ran
  <2>2. CASE u # t
    BY <1>1, <2>2 DEF Ran, TaskInv
  <2> QED
    BY <2>1, <2>2
<1>6. TaskInv'
  BY <1>5 DEF TaskInv
<1> QED
  BY <1>1, <1>2, <1>6

(* and the results. *)
Recorded(t, o) ==
  /\ o \in outcomes[t] /\ result'[t] = o
  /\ UNCHANGED <<lane, outcomes, action, count, latest>>
  /\ \A u \in Task : u # t => result'[u] = result[u]

LEMMA ResultOfTask ==
  ASSUME TasksOK, TaskInv, NEW t \in Task, NEW o \in Outcome, ApplyIXTaskResult(t, o)
  PROVE  TasksOK' /\ TaskInv' /\ Recorded(t, o)
<1>1. Recorded(t, o)
  BY DEF ApplyIXTaskResult, Record, Recorded, TasksOK
<1>2. TasksOK'
  BY DEF ApplyIXTaskResult, Record, TasksOK
<1>3. outcomes[t] # {}
  BY <1>1 DEF Recorded
<1>4. TaskInv'
  BY <1>1, <1>3 DEF Recorded, TaskInv
<1> QED
  BY <1>1, <1>2, <1>4

(* The handlers that only leave something to be done, and an edit. *)
Handling ==
  \/ \E q \in Request, on \in BOOLEAN : SetIXProfileEnabled(q, on)
  \/ \E q \in Request, r \in Rules : UpdateIXProfileRules(q, r)
  \/ \E q \in Request : GetIXProfile(q)
  \/ \E q \in Request : StartSync(q)
  \/ \E r \in Rules \cup {NoRules} : EditOnHost(r)
  \/ UNCHANGED ixVars

LEMMA SameTasks ==
  ASSUME Handling
  PROVE  UNCHANGED <<lane, outcomes, result, count, action, payload, content, latest, inOrder>>
  BY DEF Handling, SetIXProfileEnabled, UpdateIXProfileRules, GetIXProfile, StartSync,
         EditOnHost, ixVars, vars

LEMMA Steps ==
  ASSUME [IXNext]_ixVars
  PROVE  \/ CreateIXProfile
         \/ \E q \in Request : FinishCall(q)
         \/ Handling
         \/ \E t \in Task, o \in Outcome \cup {"killed"} : RunAction(t, o)
         \/ \E t \in Task, o \in Outcome : ApplyIXTaskResult(t, o)
  BY DEF IXNext, Handling

LEMMA TasksKept ==
  ASSUME DataOK, [IXNext]_ixVars
  PROVE  TasksOK' /\ TaskInv'
<1>1. CASE CreateIXProfile \/ \E q \in Request : FinishCall(q)
  BY <1>1, NewTask
<1>2. CASE Handling
  <2>1. UNCHANGED <<lane, outcomes, result, count, action, payload, latest>>
    BY <1>2, SameTasks
  <2> QED
    BY <2>1 DEF DataOK, TasksOK, TaskInv
<1>3. CASE \E t \in Task, o \in Outcome \cup {"killed"} : RunAction(t, o)
  BY <1>3, RunOfTask DEF DataOK
<1>4. CASE \E t \in Task, o \in Outcome : ApplyIXTaskResult(t, o)
  BY <1>4, ResultOfTask DEF DataOK
<1> QED
  BY <1>1, <1>2, <1>3, <1>4, Steps

-----------------------------------------------------------------------------
(* The other types. *)

LEMMA RulesKept ==
  ASSUME DataOK, [IXNext]_ixVars
  PROVE  RulesOK'
<1> USE DEF DataOK, RulesOK
<1>1. CASE CreateIXProfile
  BY <1>1 DEF CreateIXProfile, host
<1>2. ASSUME NEW q \in Request, FinishCall(q) PROVE RulesOK'
  BY <1>2 DEF FinishCall, panel, host
<1>3. ASSUME NEW q \in Request, NEW on \in BOOLEAN, SetIXProfileEnabled(q, on) PROVE RulesOK'
  BY <1>3 DEF SetIXProfileEnabled, host
<1>4. ASSUME NEW q \in Request, NEW r \in Rules, UpdateIXProfileRules(q, r) PROVE RulesOK'
  BY <1>4 DEF UpdateIXProfileRules, host
<1>5. ASSUME NEW q \in Request, GetIXProfile(q) PROVE RulesOK'
  BY <1>5 DEF GetIXProfile, panel, host
<1>6. ASSUME NEW q \in Request, StartSync(q) PROVE RulesOK'
  BY <1>6 DEF StartSync, panel, host
<1>7. ASSUME NEW r \in Rules \cup {NoRules}, EditOnHost(r) PROVE RulesOK'
  BY <1>7 DEF EditOnHost, panel
<1>8. ASSUME NEW t \in Task, NEW o \in Outcome \cup {"killed"}, RunAction(t, o) PROVE RulesOK'
  <2>1. UNCHANGED <<rules, saved, hostRules>>
    BY <1>8 DEF RunAction, Effect, panel, host
  <2>2. content' \in [Task -> SUBSET (Rules \cup {NoRules, Unreadable})]
    BY <1>8 DEF RunAction
  <2> QED
    BY <2>1, <2>2
<1>9. ASSUME NEW t \in Task, NEW o \in Outcome, ApplyIXTaskResult(t, o) PROVE RulesOK'
  <2>1. UNCHANGED <<hostRules, saved, content>> /\ rules' \in RulesAfter(t, o)
    BY <1>9 DEF ApplyIXTaskResult, host
  <2>2. \A c \in content[t] : Parsed(c) \in Rules \cup {NoRules}
    BY DEF Parsed
  <2>3. rules' \in Rules \cup {NoRules}
    BY <2>1, <2>2 DEF RulesAfter
  <2> QED
    BY <2>1, <2>3
<1>10. CASE UNCHANGED ixVars
  BY <1>10 DEF ixVars, panel, host
<1> QED
  BY <1>1, <1>2, <1>3, <1>4, <1>5, <1>6, <1>7, <1>8, <1>9, <1>10 DEF IXNext

LEMMA HandlersKept ==
  ASSUME DataOK, [IXNext]_ixVars
  PROVE  HandlersOK'
<1> USE DEF DataOK, HandlersOK, Action, Write, Switch
<1>1. CASE CreateIXProfile
  BY <1>1 DEF CreateIXProfile
<1>2. ASSUME NEW q \in Request, FinishCall(q) PROVE HandlersOK'
  BY <1>2 DEF FinishCall, panel
<1>3. ASSUME NEW q \in Request, NEW on \in BOOLEAN, SetIXProfileEnabled(q, on) PROVE HandlersOK'
  BY <1>3 DEF SetIXProfileEnabled
<1>4. ASSUME NEW q \in Request, NEW r \in Rules, UpdateIXProfileRules(q, r) PROVE HandlersOK'
  BY <1>4 DEF UpdateIXProfileRules
<1>5. ASSUME NEW q \in Request, GetIXProfile(q) PROVE HandlersOK'
  BY <1>5 DEF GetIXProfile, panel
<1>6. ASSUME NEW q \in Request, StartSync(q) PROVE HandlersOK'
  BY <1>6 DEF StartSync, panel
<1>7. ASSUME NEW r \in Rules \cup {NoRules}, EditOnHost(r) PROVE HandlersOK'
  BY <1>7 DEF EditOnHost, panel
<1>8. ASSUME NEW t \in Task, NEW o \in Outcome \cup {"killed"}, RunAction(t, o) PROVE HandlersOK'
  BY <1>8 DEF RunAction, panel
<1>9. ASSUME NEW t \in Task, NEW o \in Outcome, ApplyIXTaskResult(t, o) PROVE HandlersOK'
  <2>1. UNCHANGED <<count, call>> /\ status' = StatusAfter(t, o)
    BY <1>9 DEF ApplyIXTaskResult
  <2>2. status' \in {"pending", "healthy", "failed", "paused"} \/ status' = status
    BY <2>1 DEF StatusAfter
  <2>3. o \in outcomes[t]
    BY <1>9 DEF ApplyIXTaskResult, Record
  <2>4. count # 0
    BY <2>3 DEF TaskInv, TasksOK
  <2> QED
    BY <2>1, <2>2, <2>4
<1>10. CASE UNCHANGED ixVars
  BY <1>10 DEF ixVars, panel
<1> QED
  BY <1>1, <1>2, <1>3, <1>4, <1>5, <1>6, <1>7, <1>8, <1>9, <1>10 DEF IXNext

LEMMA FlagsKept ==
  ASSUME FlagsOK, [IXNext]_ixVars
  PROVE  FlagsOK'
<1> USE DEF FlagsOK
<1>1. CASE CreateIXProfile
  BY <1>1, Zenon DEF CreateIXProfile, host
<1>2. ASSUME NEW q \in Request, FinishCall(q) PROVE FlagsOK'
  BY <1>2, Zenon DEF FinishCall, panel, host
<1>3. ASSUME NEW q \in Request, NEW on \in BOOLEAN, SetIXProfileEnabled(q, on) PROVE FlagsOK'
  BY <1>3, Zenon DEF SetIXProfileEnabled, host
<1>4. ASSUME NEW q \in Request, NEW r \in Rules, UpdateIXProfileRules(q, r) PROVE FlagsOK'
  BY <1>4, Zenon DEF UpdateIXProfileRules, host
<1>5. ASSUME NEW q \in Request, GetIXProfile(q) PROVE FlagsOK'
  BY <1>5, Zenon DEF GetIXProfile, panel, host
<1>6. ASSUME NEW q \in Request, StartSync(q) PROVE FlagsOK'
  BY <1>6, Zenon DEF StartSync, panel, host
<1>7. ASSUME NEW r \in Rules \cup {NoRules}, EditOnHost(r) PROVE FlagsOK'
  BY <1>7, Zenon DEF EditOnHost, panel
<1>8. ASSUME NEW t \in Task, NEW o \in Outcome \cup {"killed"}, RunAction(t, o) PROVE FlagsOK'
  <2>1. up' = up \/ up' = TRUE \/ up' = FALSE
    BY <1>8, Zenon DEF RunAction, Effect, host
  <2>2. UNCHANGED <<enabled, inOrder>>
    BY <1>8, Zenon DEF RunAction, panel
  <2> QED
    BY <2>1, <2>2, Zenon
<1>9. ASSUME NEW t \in Task, NEW o \in Outcome, ApplyIXTaskResult(t, o) PROVE FlagsOK'
  <2>1. enabled' \in BOOLEAN
    BY <1>9, Zenon DEF ApplyIXTaskResult, EnabledAfter
  <2>2. up' = up /\ inOrder' \in BOOLEAN
    BY <1>9, Zenon DEF ApplyIXTaskResult, host
  <2> QED
    BY <2>1, <2>2, Zenon
<1>10. CASE UNCHANGED ixVars
  BY <1>10, Zenon DEF ixVars, panel, host
<1> QED
  BY <1>1, <1>2, <1>3, <1>4, <1>5, <1>6, <1>7, <1>8, <1>9, <1>10 DEF IXNext

LEMMA DataInit ==
  ASSUME IXInit
  PROVE  DataOK /\ FlagsOK
<1>1. TasksOK /\ TaskInv
  BY DEF IXInit, Init, TasksOK, TaskInv
<1>2. RulesOK
  BY DEF IXInit, RulesOK
<1>3. HandlersOK
  BY DEF IXInit, HandlersOK
<1>4. FlagsOK
  BY Zenon DEF IXInit, FlagsOK
<1> QED
  BY <1>1, <1>2, <1>3, <1>4 DEF DataOK

LEMMA DataKept ==
  ASSUME DataOK, [IXNext]_ixVars
  PROVE  DataOK'
  BY TasksKept, RulesKept, HandlersKept DEF DataOK

LEMMA DataSafe == IXSpec => [](DataOK /\ FlagsOK)
  BY DataInit, DataKept, FlagsKept, PTL DEF IXSpec

(* Every variable keeps its type.                                          *)
THEOREM TypeCorrect == IXSpec => []TypeOK
<1>1. DataOK => count \in Task \cup {0} /\ action \in [Task -> Action \cup {"none"}]
                /\ payload \in [Task -> Rules \cup {NoRules}]
                /\ latest \in [Task -> Outcome \cup {"killed", "none"}]
  BY DEF DataOK, TasksOK
<1>2. DataOK => /\ status \in {"absent", "pending", "healthy", "failed", "paused"}
                /\ call \in [Request -> Action \cup {"none", "read"}]
                /\ rules \in Rules \cup {NoRules} /\ hostRules \in Rules \cup {NoRules}
                /\ content \in [Task -> SUBSET (Rules \cup {NoRules, Unreadable})]
                /\ saved \in [Request -> Rules \cup {NoRules}]
  BY DEF DataOK, RulesOK, HandlersOK
<1>3. DataOK /\ FlagsOK => TypeOK
  BY <1>1, <1>2, Zenon DEF FlagsOK, TypeOK
<1> QED
  BY <1>3, DataSafe, PTL

-----------------------------------------------------------------------------
(* The rules.  While results come in order, no request is about to give    *)
(* the profile others, and a sync is the last task, its result stands:     *)
(* whoever changes the rules has a task to enqueue.                        *)
Read(t) ==
  \/ rules \in content[t] \ {Unreadable}
  \/ Unreadable \in content[t] /\ rules = NoRules
Synced(t) == t = count /\ action[t] = "list_rules" /\ result[t] = "succeeded" => Read(t)
NoWriter == \A q \in Request : call[q] \notin {"read", "apply"}

LEMMA SyncKept ==
  ASSUME DataOK, inOrder /\ NoWriter => \A t \in Task : Synced(t), [IXNext]_ixVars,
         inOrder', NoWriter'
  PROVE  \A t \in Task : Synced(t)'
<1>1. CASE CreateIXProfile \/ \E q \in Request : FinishCall(q)
  <2>1. PICK a \in Action : Added(a)
    BY <1>1, NewTask
  <2>2. result'[count'] = "none"
    BY <2>1 DEF Added
  <2> QED
    BY <2>2 DEF Synced
<1>2. CASE Handling
  <2>1. UNCHANGED <<lane, outcomes, result, count, action, payload, content, latest, inOrder>>
    BY <1>2, SameTasks
  <2>2. NoWriter /\ rules' = rules
    <3>1. ASSUME NEW q \in Request, NEW on \in BOOLEAN, SetIXProfileEnabled(q, on)
          PROVE  NoWriter /\ rules' = rules
      BY <3>1 DEF SetIXProfileEnabled, NoWriter, DataOK, HandlersOK
    <3>2. ASSUME NEW q \in Request, NEW r \in Rules, UpdateIXProfileRules(q, r)
          PROVE  FALSE
      BY <3>2 DEF UpdateIXProfileRules, NoWriter, DataOK, HandlersOK
    <3>3. ASSUME NEW q \in Request, GetIXProfile(q)
          PROVE  NoWriter /\ rules' = rules
      BY <3>3 DEF GetIXProfile, NoWriter, DataOK, HandlersOK, panel
    <3>4. ASSUME NEW q \in Request, StartSync(q)
          PROVE  NoWriter /\ rules' = rules
      BY <3>4 DEF StartSync, NoWriter, DataOK, HandlersOK, panel
    <3>5. ASSUME NEW r \in Rules \cup {NoRules}, EditOnHost(r)
          PROVE  NoWriter /\ rules' = rules
      BY <3>5 DEF EditOnHost, NoWriter, panel
    <3>6. CASE UNCHANGED ixVars
      BY <3>6 DEF ixVars, NoWriter, panel
    <3> QED
      BY <1>2, <3>1, <3>2, <3>3, <3>4, <3>5, <3>6 DEF Handling
  <2>3. inOrder
    BY <2>1, Zenon
  <2>4. \A t \in Task : Synced(t)
    BY <2>2, <2>3, Zenon
  <2> QED
    BY <2>1, <2>2, <2>4 DEF Synced, Read
<1>3. ASSUME NEW t \in Task, NEW o \in Outcome \cup {"killed"}, RunAction(t, o)
      PROVE  \A u \in Task : Synced(u)'
  <2>1. UNCHANGED <<rules, call, inOrder, count, action>>
    BY <1>3 DEF RunAction, panel
  <2>2. Ran(t, o)
    BY <1>3, RunOfTask DEF DataOK
  <2>3. \A u \in Task : content[u] \subseteq content'[u]
    BY <1>3 DEF RunAction, DataOK, RulesOK
  <2>4. inOrder /\ NoWriter
    BY <2>1, Zenon DEF NoWriter
  <2>5. \A u \in Task : Synced(u)
    BY <2>4, Zenon
  <2>6. UNCHANGED <<rules, count, action, result>>
    BY <2>1, <2>2 DEF Ran
  <2> QED
    BY <2>3, <2>5, <2>6 DEF Synced, Read
<1>4. ASSUME NEW t \in Task, NEW o \in Outcome, ApplyIXTaskResult(t, o)
      PROVE  \A u \in Task : Synced(u)'
  <2>1. UNCHANGED <<call, content>> /\ rules' \in RulesAfter(t, o)
    BY <1>4 DEF ApplyIXTaskResult
  <2>2. Recorded(t, o)
    BY <1>4, ResultOfTask DEF DataOK
  <2>3. inOrder /\ \A u \in Task : u > t => result[u] = "none"
    BY <1>4, Zenon DEF ApplyIXTaskResult
  <2>4. NoWriter
    BY <2>1 DEF NoWriter
  <2>5. \A u \in Task : Synced(u)
    BY <2>3, <2>4, Zenon
  <2>6. Synced(t)'
    BY <2>1, <2>2 DEF Recorded, Synced, Read, RulesAfter, Parsed
  <2>7. t <= count
    BY <2>2 DEF Recorded, DataOK, TaskInv, TasksOK
  <2>8. ASSUME NEW u \in Task, u # t PROVE Synced(u)'
    <3>1. CASE u = count
      <4>1. u > t
        BY <2>7, <2>8, <3>1 DEF DataOK, TasksOK
      <4>2. result[u] = "none" /\ result'[u] = result[u]
        BY <2>2, <2>3, <2>8, <4>1 DEF Recorded
      <4> QED
        BY <4>2 DEF Synced
    <3>2. CASE u # count
      BY <2>2, <3>2 DEF Recorded, Synced
    <3> QED
      BY <3>1, <3>2
  <2> QED
    BY <2>6, <2>8
<1> QED
  BY <1>1, <1>2, <1>3, <1>4, Steps

-----------------------------------------------------------------------------
(* The switch on the panel: while results come in order and no pause or    *)
(* resume is between its two steps, the panel shows the last of them that  *)
(* succeeded, if it was the last enqueued.                                 *)
Shown(t) ==
  action[t] \in Switch /\ result[t] = "succeeded"
    /\ (\A u \in Task : u > t => action[u] \notin Switch) => (enabled <=> action[t] = "enable")
NoSwitching == \A q \in Request : call[q] \notin Switch

LEMMA ShownKept ==
  ASSUME DataOK, inOrder /\ NoSwitching => \A t \in Task : Shown(t), [IXNext]_ixVars,
         inOrder', NoSwitching'
  PROVE  \A t \in Task : Shown(t)'
<1>1. CASE CreateIXProfile
  <2>1. count = 0
    BY <1>1 DEF CreateIXProfile, DataOK, HandlersOK
  <2>2. PICK a \in Action : Added(a)
    BY <1>1, NewTask
  <2>3. \A t \in Task : result[t] = "none"
    BY <2>1 DEF DataOK, TasksOK, TaskInv
  <2>4. \A t \in Task : result'[t] = "none"
    BY <2>2, <2>3 DEF Added
  <2> QED
    BY <2>4, Zenon DEF Shown
<1>2. ASSUME NEW q \in Request, FinishCall(q) PROVE \A t \in Task : Shown(t)'
  <2>1. UNCHANGED <<enabled, inOrder>>
    BY <1>2 DEF FinishCall, panel
  <2>2. call[q] \in Action /\ EnqueueIXTask(call[q], IF call[q] = "apply" THEN saved[q] ELSE NoRules)
    BY <1>2 DEF FinishCall
  <2>3. Added(call[q])
    BY <1>2, <2>2, Enqueued DEF DataOK, RulesOK, FinishCall
  <2>4. \A p \in Request : p # q => call[p] \notin Switch
    BY <1>2 DEF FinishCall, NoSwitching, DataOK, HandlersOK
  <2>5. count + 1 \in Task /\ result'[count + 1] = "none" /\ action'[count + 1] = call[q]
    BY <2>3 DEF Added
  <2>6. \A t \in Task : t # count + 1 => action'[t] = action[t] /\ result'[t] = result[t]
    BY <2>3 DEF Added
  <2>7. \A t \in Task : t > count + 1 => action[t] = "none"
    BY DEF DataOK, TasksOK, TaskInv
  <2>8. \A t \in Task : t # count + 1 /\ result'[t] # "none" => count + 1 > t
    BY <2>6 DEF DataOK, TasksOK, TaskInv
  <2>9. CASE call[q] \in Switch
    BY <2>5, <2>8, <2>9, Zenon DEF Shown
  <2>10. CASE call[q] \notin Switch
    <3>1. NoSwitching
      BY <2>4, <2>10 DEF NoSwitching
    <3>2. \A t \in Task : Shown(t)
      BY <2>1, <3>1, Zenon
    <3>3. action[count + 1] \notin Switch
      BY <2>3 DEF Added, Switch
    <3> QED
      BY <2>1, <2>5, <2>6, <3>2, <3>3, Zenon DEF Shown
  <2> QED
    BY <2>9, <2>10
<1>3. CASE Handling
  <2>1. UNCHANGED <<lane, outcomes, result, count, action, payload, content, latest, inOrder>>
    BY <1>3, SameTasks
  <2>2. NoSwitching /\ enabled' = enabled
    <3>1. ASSUME NEW q \in Request, NEW on \in BOOLEAN, SetIXProfileEnabled(q, on)
          PROVE  FALSE
      BY <3>1 DEF SetIXProfileEnabled, NoSwitching, Switch, DataOK, HandlersOK
    <3>2. ASSUME NEW q \in Request, NEW r \in Rules, UpdateIXProfileRules(q, r)
          PROVE  NoSwitching /\ enabled' = enabled
      BY <3>2 DEF UpdateIXProfileRules, NoSwitching, Switch, DataOK, HandlersOK
    <3>3. ASSUME NEW q \in Request, GetIXProfile(q)
          PROVE  NoSwitching /\ enabled' = enabled
      BY <3>3 DEF GetIXProfile, NoSwitching, Switch, DataOK, HandlersOK, panel
    <3>4. ASSUME NEW q \in Request, StartSync(q)
          PROVE  NoSwitching /\ enabled' = enabled
      BY <3>4 DEF StartSync, NoSwitching, Switch, DataOK, HandlersOK, panel
    <3>5. ASSUME NEW r \in Rules \cup {NoRules}, EditOnHost(r)
          PROVE  NoSwitching /\ enabled' = enabled
      BY <3>5 DEF EditOnHost, NoSwitching, panel
    <3>6. CASE UNCHANGED ixVars
      BY <3>6 DEF ixVars, NoSwitching, panel
    <3> QED
      BY <1>3, <3>1, <3>2, <3>3, <3>4, <3>5, <3>6 DEF Handling
  <2>3. \A t \in Task : Shown(t)
    BY <2>1, <2>2, Zenon
  <2> QED
    BY <2>1, <2>2, <2>3, Zenon DEF Shown
<1>4. ASSUME NEW t \in Task, NEW o \in Outcome \cup {"killed"}, RunAction(t, o)
      PROVE  \A u \in Task : Shown(u)'
  <2>1. UNCHANGED <<enabled, call, inOrder>>
    BY <1>4 DEF RunAction, panel
  <2>2. UNCHANGED <<result, action>>
    BY <1>4, RunOfTask DEF DataOK, Ran
  <2>3. \A u \in Task : Shown(u)
    BY <2>1, Zenon DEF NoSwitching
  <2> QED
    BY <2>1, <2>2, <2>3, Zenon DEF Shown
<1>5. ASSUME NEW t \in Task, NEW o \in Outcome, ApplyIXTaskResult(t, o)
      PROVE  \A u \in Task : Shown(u)'
  <2>1. call' = call /\ enabled' = EnabledAfter(t, o)
    BY <1>5, Zenon DEF ApplyIXTaskResult
  <2>2. Recorded(t, o)
    BY <1>5, ResultOfTask DEF DataOK
  <2>3. inOrder /\ \A u \in Task : u > t => result[u] = "none"
    BY <1>5, Zenon DEF ApplyIXTaskResult
  <2>4. \A u \in Task : Shown(u)
    BY <2>1, <2>3, Zenon DEF NoSwitching
  <2>5. action' = action /\ result'[t] = o /\ \A u \in Task : u # t => result'[u] = result[u]
    BY <2>2 DEF Recorded
  <2>6. Shown(t)'
    BY <2>1, <2>5, Zenon DEF Shown, EnabledAfter
  <2>7. ASSUME NEW u \in Task, u # t PROVE Shown(u)'
    <3>1. CASE u > t
      BY <2>3, <2>5, <2>7, <3>1, Zenon DEF Shown
    <3>2. CASE ~ u > t
      <4>1. t > u
        BY <2>7, <3>2, Numbers, Zenon
      <4>2. CASE action[t] \in Switch
        BY <2>5, <4>1, <4>2, Zenon DEF Shown
      <4>3. CASE action[t] \notin Switch
        <5>1. enabled' = enabled
          BY <2>1, <4>3, Zenon DEF EnabledAfter
        <5> QED
          BY <2>4, <2>5, <2>7, <5>1, Zenon DEF Shown
      <4> QED
        BY <4>2, <4>3
    <3> QED
      BY <3>1, <3>2
  <2> QED
    BY <2>6, <2>7
<1> QED
  BY <1>1, <1>2, <1>3, <1>4, <1>5, Steps

-----------------------------------------------------------------------------
(* The line on its host is as the last pause or resume left it, when that  *)
(* succeeded and no pause, resume or create was begun after it.            *)
Left(t) ==
  action[t] \in Switch /\ latest[t] = "succeeded"
    /\ (\A u \in Task : u > t /\ action[u] \in Switch \cup {"create"} => outcomes[u] = {})
    => (up <=> action[t] = "enable")

LEMMA LeftKept ==
  ASSUME DataOK, \A t \in Task : Left(t), [IXNext]_ixVars
  PROVE  \A t \in Task : Left(t)'
<1>1. CASE CreateIXProfile \/ \E q \in Request : FinishCall(q)
  <2>1. PICK a \in Action : Added(a)
    BY <1>1, NewTask
  <2>2. UNCHANGED <<up, latest>>
    BY <1>1 DEF CreateIXProfile, FinishCall, host
  <2>3. UNCHANGED outcomes /\ latest[count + 1] = "none" /\ outcomes[count + 1] = {}
    BY <2>1 DEF Added
  <2>4. \A t \in Task : t # count + 1 => action'[t] = action[t]
    BY <2>1 DEF Added
  <2> QED
    BY <2>2, <2>3, <2>4, Zenon DEF Left
<1>2. CASE Handling
  <2>1. UNCHANGED <<outcomes, action, latest>>
    BY <1>2, SameTasks
  <2>2. up' = up
    BY <1>2 DEF Handling, SetIXProfileEnabled, UpdateIXProfileRules, GetIXProfile, StartSync,
                EditOnHost, ixVars, host
  <2> QED
    BY <2>1, <2>2, Zenon DEF Left
<1>3. ASSUME NEW t \in Task, NEW o \in Outcome \cup {"killed"}, RunAction(t, o)
      PROVE  \A u \in Task : Left(u)'
  <2>1. Ran(t, o)
    BY <1>3, RunOfTask DEF DataOK
  <2>2. /\ action' = action /\ latest'[t] = o /\ outcomes'[t] # {}
        /\ \A u \in Task : u # t => outcomes'[u] = outcomes[u] /\ latest'[u] = latest[u]
    BY <2>1 DEF Ran
  <2>3. \A u \in Task : u > t => outcomes[u] = {} /\ latest[u] = "none"
    <3>1. lane[t] \in Lane
      BY <2>1 DEF Ran, DataOK, TasksOK
    <3>2. \A u \in Task : lane[u] = lane[t] /\ u > t => outcomes[u] = {}
      BY <1>3 DEF RunAction, Run
    <3>3. \A u \in Task : lane[u] = NoLane => outcomes[u] = {}
      BY DEF DataOK, TaskInv, TasksOK
    <3>4. \A u \in Task : lane[u] # NoLane => lane[u] = lane[t]
      BY <3>1 DEF DataOK, TasksOK
    <3> QED
      BY <3>2, <3>3, <3>4 DEF DataOK, TaskInv
  <2>4. up' = up \/ action[t] \in Switch \cup {"create"}
    BY <1>3, Zenon DEF RunAction, Effect, host, Switch
  <2>5. Left(t)'
    <3>1. CASE action[t] \in Switch /\ o = "succeeded"
      <4>1. up' = (CASE action[t] \in {"create", "enable"} -> TRUE
                     [] action[t] = "disable" -> FALSE
                     [] OTHER -> up)
        BY <1>3, <3>1, Zenon DEF RunAction, Effect, Switch
      <4>2. action[t] = "enable" \/ action[t] = "disable"
        BY <3>1 DEF Switch
      <4>3. action[t] = "enable" => up' = TRUE
        BY <4>1, Zenon
      <4>4. action[t] = "disable" => up' = FALSE
        <5>1. "disable" \notin {"create", "enable"}
          OBVIOUS
        <5> QED
          BY <4>1, <5>1, Zenon
      <4>5. "enable" # "disable"
        OBVIOUS
      <4> QED
        BY <2>2, <4>2, <4>3, <4>4, <4>5, Zenon DEF Left
    <3>2. CASE ~ (action[t] \in Switch /\ o = "succeeded")
      BY <2>2, <3>2, Zenon DEF Left
    <3> QED
      BY <3>1, <3>2
  <2>6. ASSUME NEW u \in Task, u # t PROVE Left(u)'
    <3>1. CASE u > t
      <4>1. latest'[u] # "succeeded"
        BY <2>2, <2>3, <2>6, <3>1
      <4> QED
        BY <4>1, Zenon DEF Left
    <3>2. CASE ~ u > t
      <4>1. t > u
        BY <2>6, <3>2, Numbers, Zenon
      <4>2. CASE action[t] \in Switch \cup {"create"}
        BY <2>2, <4>1, <4>2, Zenon DEF Left
      <4>3. CASE action[t] \notin Switch \cup {"create"}
        <5>1. \A w \in Task : action[w] \in Switch \cup {"create"} => outcomes'[w] = outcomes[w]
          BY <2>2, <4>3, Zenon
        <5>2. up' = up /\ action'[u] = action[u] /\ latest'[u] = latest[u] /\ Left(u)
          BY <2>2, <2>4, <2>6, <4>3, Zenon
        <5> QED
          BY <2>2, <5>1, <5>2, Zenon DEF Left
      <4> QED
        BY <4>2, <4>3
    <3> QED
      BY <3>1, <3>2
  <2> QED
    BY <2>5, <2>6
<1>4. ASSUME NEW t \in Task, NEW o \in Outcome, ApplyIXTaskResult(t, o)
      PROVE  \A u \in Task : Left(u)'
  <2>1. UNCHANGED <<outcomes, action, latest, up>>
    BY <1>4, Zenon DEF ApplyIXTaskResult, Record, host
  <2> QED
    BY <2>1, Zenon DEF Left
<1> QED
  BY <1>1, <1>2, <1>3, <1>4, Steps

-----------------------------------------------------------------------------
(* The invariant, and the properties. *)

IInv ==
  /\ DataOK /\ FlagsOK
  /\ inOrder /\ NoWriter => \A t \in Task : Synced(t)
  /\ inOrder /\ NoSwitching => \A t \in Task : Shown(t)
  /\ \A t \in Task : Left(t)

LEMMA InvInit == IXInit => IInv
<1> SUFFICES ASSUME IXInit PROVE IInv
  OBVIOUS
<1>1. DataOK /\ FlagsOK
  BY DataInit
<1>2. \A t \in Task : result[t] = "none" /\ latest[t] = "none"
  BY DEF IXInit, Init
<1>3. \A t \in Task : Synced(t)
  BY <1>2 DEF Synced
<1>4. "none" # "succeeded"
  OBVIOUS
<1>5. \A t \in Task : Shown(t) /\ Left(t)
  BY <1>2, <1>4, Zenon DEF Shown, Left
<1> QED
  BY <1>1, <1>3, <1>5, Zenon DEF IInv

LEMMA InvKept == IInv /\ [IXNext]_ixVars => IInv'
<1> SUFFICES ASSUME IInv, [IXNext]_ixVars PROVE IInv'
  OBVIOUS
<1>1. DataOK' /\ FlagsOK'
  BY DataKept, FlagsKept, Zenon DEF IInv
<1>2. inOrder' /\ NoWriter' => \A t \in Task : Synced(t)'
  BY SyncKept, Zenon DEF IInv
<1>3. inOrder' /\ NoSwitching' => \A t \in Task : Shown(t)'
  BY ShownKept, Zenon DEF IInv
<1>4. \A t \in Task : Left(t)'
  BY LeftKept, Zenon DEF IInv
<1> QED
  BY <1>1, <1>2, <1>3, <1>4, Zenon DEF IInv

LEMMA InvSafe == IXSpec => []IInv
  BY InvInit, InvKept, PTL DEF IXSpec

LEMMA SettledCalls ==
  ASSUME Settled, DataOK
  PROVE  /\ inOrder /\ NoWriter /\ NoSwitching
         /\ \A t \in Task : t <= count => result[t] = latest[t]
<1>1. inOrder /\ (\A q \in Request : call[q] = "none")
        /\ \A t \in Task : t <= count => result[t] = latest[t]
  BY Zenon DEF Settled
<1>2. NoWriter /\ NoSwitching
  BY <1>1 DEF NoWriter, NoSwitching, Switch
<1> QED
  BY <1>1, <1>2

(* However pauses and resumes of one line interleave, once all is settled  *)
(* and the last of them succeeded the panel shows the line as it is on its *)
(* host: setIXProfileEnabled and enqueueIXTask, applyIXTaskResultLocked.   *)
THEOREM PanelShowsTheLine == IXSpec => []LastSwitchWins
<1>1. ASSUME IInv PROVE LastSwitchWins
  <2> SUFFICES ASSUME Settled, NEW t \in Task, action[t] \in Switch, result[t] = "succeeded",
                      \A u \in Task : u > t => action[u] \notin Switch \cup {"create"}
               PROVE  enabled <=> up
    BY Zenon DEF LastSwitchWins
  <2>1. DataOK
    BY <1>1, Zenon DEF IInv
  <2>2. t <= count
    BY <2>1 DEF DataOK, TasksOK, TaskInv, Switch
  <2>3. inOrder /\ NoSwitching /\ result[t] = latest[t]
    BY <2>1, <2>2, SettledCalls, Zenon
  <2>4. Shown(t) /\ Left(t)
    BY <1>1, <2>3, Zenon DEF IInv
  <2>5. enabled <=> action[t] = "enable"
    BY <2>4, Zenon DEF Shown
  <2>6. up <=> action[t] = "enable"
    BY <2>3, <2>4, Zenon DEF Left
  <2> QED
    BY <2>5, <2>6, Zenon
<1> QED
  BY <1>1, InvSafe, PTL

(* A sync that comes last and succeeds leaves the profile the rules it     *)
(* read on the host, or none if what it read is not the JSON it expects,   *)
(* whatever was applied, failed or edited before: syncIXProfile,           *)
(* applyIXTaskResultLocked and parseIXRules.                               *)
THEOREM PanelShowsTheRules == IXSpec => []SyncRepairs
<1>1. ASSUME IInv PROVE SyncRepairs
  <2> SUFFICES ASSUME Settled, NEW t \in Task, t = count, action[t] = "list_rules",
                      result[t] = "succeeded"
               PROVE  Read(t)
    BY Zenon DEF SyncRepairs, Read
  <2>1. inOrder /\ NoWriter
    BY <1>1, SettledCalls, Zenon DEF IInv
  <2>2. Synced(t)
    BY <1>1, <2>1, Zenon DEF IInv
  <2> QED
    BY <2>2, Zenon DEF Synced
<1> QED
  BY <1>1, InvSafe, PTL
=============================================================================
