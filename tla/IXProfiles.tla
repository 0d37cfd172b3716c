------------------------------ MODULE IXProfiles ------------------------------
(***************************************************************************)
(* One ix profile (a line): what the panel says of it and what its host    *)
(* has.  The v2 handlers for pause, resume, apply and sync take the        *)
(* store's lock several times, so two requests may interleave between      *)
(* those steps and with the results that agents post.                      *)
(*                                                                         *)
(* Tasks travel as TaskDelivery promises (TaskQueue implements it): the    *)
(* profile's machine is bound to one node, so its tasks share one lane.    *)
(* Of an ix action only the effect on the line (up or down) and on its     *)
(* forwarding rules is kept; port maps, access codes and the diagnosis     *)
(* change nothing that a property here tells apart.  The host's own ix     *)
(* command, which the agent runs for most actions, is external: it keeps   *)
(* the host's rules, and an administrator may use it there directly.       *)
(***************************************************************************)
EXTENDS TaskDelivery

CONSTANTS
  Request,   \* slots for operator requests being handled at the same time
  Rules,     \* rule sets an operator may give a profile
  NoRules,   \* a profile or a host without rules
  Unreadable \* a list of rules that is not the JSON the controller expects, or is cut off at 64 KiB

ASSUME TaskAssumption == Task \subseteq Nat \ {0}
ASSUME LaneAssumption == NoLane \notin Lane /\ \A l, m \in Lane : l = m
ASSUME OutcomeAssumption == Outcome = {"succeeded", "failed"}
ASSUME NoRulesAssumption == NoRules \notin Rules
ASSUME UnreadableAssumption == Unreadable \notin Rules \cup {NoRules}

VARIABLES
  count,      \* number of tasks enqueued
  action,     \* Task.Action of each task, "none" before it is enqueued
  payload,    \* the rules in the payload of an apply_rules task
  enabled,    \* IXProfile.Enabled
  status,     \* IXProfile.Status, "absent" before the profile is created
  rules,      \* IXProfile.Rules
  call,       \* what each request being handled still has to do
  saved,      \* the rules a request has read for its task
  up,         \* whether the line is up on its host
  hostRules,  \* the forwarding rules that the host's ix command keeps
  content,    \* what the runs of a list_rules task printed
  latest,     \* history: the outcome of the last run of each task
  inOrder     \* history: results were processed in the order of the runs

panel == <<enabled, status, rules>>
host == <<up, hostRules>>
ixVars == <<vars, count, action, payload, panel, call, saved, host, content, latest, inOrder>>

Switch == {"enable", "disable"}
Write == Switch \cup {"create", "apply", "refresh_code"}
Action == Write \cup {"show_config", "list_rules"}

TypeOK ==
  /\ count \in Task \cup {0}
  /\ action \in [Task -> Action \cup {"none"}]
  /\ payload \in [Task -> Rules \cup {NoRules}]
  /\ enabled \in BOOLEAN
  /\ status \in {"absent", "pending", "healthy", "failed", "paused"}
  /\ rules \in Rules \cup {NoRules}
  /\ call \in [Request -> Action \cup {"none", "read"}]
  /\ saved \in [Request -> Rules \cup {NoRules}]
  /\ up \in BOOLEAN /\ inOrder \in BOOLEAN
  /\ hostRules \in Rules \cup {NoRules}
  /\ content \in [Task -> SUBSET (Rules \cup {NoRules, Unreadable})]
  /\ latest \in [Task -> Outcome \cup {"killed", "none"}]

IXInit ==
  /\ Init
  /\ count = 0
  /\ action = [t \in Task |-> "none"]
  /\ payload = [t \in Task |-> NoRules]
  /\ enabled = FALSE /\ status = "absent" /\ rules = NoRules
  /\ call = [q \in Request |-> "none"]
  /\ saved = [q \in Request |-> NoRules]
  /\ up = FALSE /\ hostRules = NoRules
  /\ content = [t \in Task |-> {}]
  /\ latest = [t \in Task |-> "none"]
  /\ inOrder = TRUE

-----------------------------------------------------------------------------
(* The handlers. *)

(* enqueueIXTask: one hold of the lock. *)
EnqueueIXTask(a, r) ==
  /\ count + 1 \in Task
  /\ count' = count + 1
  /\ action' = [action EXCEPT ![count + 1] = a]
  /\ payload' = [payload EXCEPT ![count + 1] = r]
  /\ \E l \in Lane : Offer({count + 1}, l)

(* The profile and its first task are stored under one hold of the lock. *)
CreateIXProfile ==
  /\ status = "absent"
  /\ enabled' = TRUE /\ status' = "pending"
  /\ EnqueueIXTask("create", NoRules)
  /\ UNCHANGED <<rules, call, saved, host, content, latest, inOrder>>

(* pause and resume: setIXProfileEnabled, then the task. *)
SetIXProfileEnabled(q, on) ==
  /\ status # "absent" /\ call[q] = "none"
  /\ enabled' = on
  /\ status' = IF on THEN (IF status = "paused" THEN "healthy" ELSE status) ELSE "paused"
  /\ call' = [call EXCEPT ![q] = IF on THEN "enable" ELSE "disable"]
  /\ UNCHANGED <<vars, count, action, payload, rules, saved, host, content, latest, inOrder>>

(* apply with rules: updateIXProfileRules, getIXProfile, then the task. *)
UpdateIXProfileRules(q, r) ==
  /\ status # "absent" /\ call[q] = "none"
  /\ rules' = r
  /\ call' = [call EXCEPT ![q] = "read"]
  /\ UNCHANGED <<vars, count, action, payload, enabled, status, saved, host, content, latest, inOrder>>

(* The rules are read; without a body an apply starts here, as the create  *)
(* action on a nat-transit profile.                                        *)
GetIXProfile(q) ==
  /\ status # "absent"
  /\ \/ call[q] = "read" /\ call' = [call EXCEPT ![q] = "apply"]
     \/ call[q] = "none" /\ \E a \in {"apply", "create"} : call' = [call EXCEPT ![q] = a]
  /\ saved' = [saved EXCEPT ![q] = rules]
  /\ UNCHANGED <<vars, count, action, payload, panel, host, content, latest, inOrder>>

(* sync enqueues show_config and list_rules one after the other; refresh   *)
(* enqueues a task of its own.                                             *)
StartSync(q) ==
  /\ status # "absent" /\ call[q] = "none"
  /\ \E a \in {"show_config", "refresh_code"} : call' = [call EXCEPT ![q] = a]
  /\ UNCHANGED <<vars, count, action, payload, panel, saved, host, content, latest, inOrder>>

FinishCall(q) ==
  /\ call[q] \in Action
  /\ EnqueueIXTask(call[q], IF call[q] = "apply" THEN saved[q] ELSE NoRules)
  /\ call' = [call EXCEPT ![q] = IF @ = "show_config" THEN "list_rules" ELSE "none"]
  /\ saved' = [saved EXCEPT ![q] = NoRules]
  /\ UNCHANGED <<panel, host, content, latest, inOrder>>

-----------------------------------------------------------------------------
(* The agent and the results it posts. *)

(* What a run does to the host.  The ix command is told the profile's id   *)
(* and nothing else of the payload, so an apply_rules installs the rules   *)
(* that the host keeps; and the agent's native apply_rules writes a file   *)
(* made from the profile's config.  The rules in the payload stay unread.  *)
Effect(t) ==
  /\ up' = CASE action[t] \in {"create", "enable"} -> TRUE
             [] action[t] = "disable" -> FALSE
             [] OTHER -> up
  /\ UNCHANGED hostRules

(* A run that fails, or is cut short, may have done its work or not; and   *)
(* the native create only writes files, unless it is to start the line.    *)
(* A list_rules task prints the rules that the host keeps, in a form of    *)
(* the ix command's choosing and of any length.                            *)
RunAction(t, o) ==
  /\ Run(t, o)
  /\ Effect(t) \/ ((o # "succeeded" \/ action[t] = "create") /\ UNCHANGED host)
  /\ IF action[t] = "list_rules" /\ o = "succeeded"
     THEN \E c \in {hostRules, Unreadable} : content' = [content EXCEPT ![t] = @ \cup {c}]
     ELSE UNCHANGED content
  /\ latest' = [latest EXCEPT ![t] = o]
  /\ UNCHANGED <<count, action, payload, panel, call, saved, inOrder>>

(* An administrator edits the rules with the ix command on the host. *)
EditOnHost(r) ==
  /\ r # hostRules
  /\ hostRules' = r
  /\ UNCHANGED <<vars, count, action, payload, panel, call, saved, up, content, latest, inOrder>>

(* applyIXTaskResultLocked: what a result makes of the profile. *)
Mutant_EnabledKept(t, o) == enabled
EnabledAfter(t, o) ==
  IF o = "succeeded" /\ action[t] \in Switch THEN action[t] = "enable" ELSE enabled

Mutant_StatusOfTask(t, o) == o
StatusAfter(t, o) ==
  CASE o = "failed" /\ action[t] \in Write -> "failed"
    [] o = "succeeded" /\ action[t] = "disable" -> "paused"
    [] o = "succeeded" /\ action[t] \in {"create", "apply", "enable", "show_config"} -> "healthy"
    [] OTHER -> status

(* parseIXRules: what cannot be read is taken for an empty list, and a     *)
(* task that succeeded with it leaves the profile without rules.           *)
Parsed(c) == IF c = Unreadable THEN NoRules ELSE c

Mutant_RulesKept(t, o) ==
  IF o = "succeeded" /\ action[t] = "list_rules" /\ rules = NoRules
  THEN {Parsed(c) : c \in content[t]} ELSE {rules}
RulesAfter(t, o) ==
  IF o = "succeeded" /\ action[t] = "list_rules" THEN {Parsed(c) : c \in content[t]} ELSE {rules}

ApplyIXTaskResult(t, o) ==
  /\ Record(t, o)
  /\ enabled' = EnabledAfter(t, o)
  /\ status' = StatusAfter(t, o)
  /\ rules' \in RulesAfter(t, o)
  /\ inOrder' = (inOrder /\ o = latest[t] /\ \A u \in Task : u > t => result[u] = "none")
  /\ UNCHANGED <<count, action, payload, call, saved, host, content, latest>>

IXNext ==
  \/ CreateIXProfile
  \/ \E q \in Request, on \in BOOLEAN : SetIXProfileEnabled(q, on)
  \/ \E q \in Request, r \in Rules : UpdateIXProfileRules(q, r)
  \/ \E q \in Request : GetIXProfile(q)
  \/ \E q \in Request : StartSync(q)
  \/ \E q \in Request : FinishCall(q)
  \/ \E t \in Task, o \in Outcome \cup {"killed"} : RunAction(t, o)
  \/ \E r \in Rules \cup {NoRules} : EditOnHost(r)
  \/ \E t \in Task, o \in Outcome : ApplyIXTaskResult(t, o)

IXSpec == IXInit /\ [][IXNext]_ixVars
-----------------------------------------------------------------------------
(* Nothing is under way and no result came late or twice. *)
Settled ==
  /\ inOrder
  /\ \A q \in Request : call[q] = "none"
  /\ \A t \in Task : t <= count => result[t] # "none" /\ result[t] = latest[t]

(* However pauses and resumes were interleaved, the one enqueued last      *)
(* decides: once everything has settled, and if that task succeeded, the   *)
(* panel shows the line as it is.  (The handlers' own writes of Enabled    *)
(* come in another order than their tasks; the results put that right.)    *)
LastSwitchWins ==
  Settled => \A t \in Task :
    /\ action[t] \in Switch
    /\ result[t] = "succeeded"
    /\ \A u \in Task : u > t => action[u] \notin Switch \cup {"create"}
    => (enabled <=> up)

(* A sync that comes last and succeeds brings the panel's rules to what it *)
(* read on the host, whatever requests and results it was interleaved with *)
(* and whatever failed before.  When the controller cannot read the list   *)
(* the same sync erases the rules instead: the panel shows none, whatever  *)
(* the host has and whatever the operator had saved.                       *)
SyncRepairs ==
  Settled => \A t \in Task :
    t = count /\ action[t] = "list_rules" /\ result[t] = "succeeded" =>
      \/ rules \in content[t] \ {Unreadable}
      \/ Unreadable \in content[t] /\ rules = NoRules
=============================================================================
