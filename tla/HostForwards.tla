----------------------------- MODULE HostForwards -----------------------------
(***************************************************************************)
(* One host and all forwards it takes part in.  The agent runs one task at *)
(* a time, command by command; it stops at the first command that fails    *)
(* and may be killed, or the host rebooted, between any two.  Each stage   *)
(* has one nft file and one nft table for all its rules, and a JSON file   *)
(* for each rule; the clamping of MSS has one file and one table for all.  *)
(***************************************************************************)
EXTENDS Naturals

CONSTANTS
  Rule,     \* the forwards' ids
  Stage,    \* the stages this host has a part in
  NoRule

(* "single" is the stage of the older apply_forward_config, which has one  *)
(* JSON file for all its rules.                                            *)
ASSUME StageAssumption == Stage \subseteq {"entry", "landing", "single"}
ASSUME RuleAssumption == NoRule \notin Rule

VARIABLES
  conf,       \* the rules with a JSON file, by stage
  nftFile,    \* the rule that each stage's nft file has, or NoRule
  table,      \* the rules loaded in each stage's nft table
  ipForward,  \* net.ipv4.ip_forward
  mssFile,    \* the mode in the file for MSS clamping, "none" without it
  mss,        \* the mode loaded, "none" without table edge_tunnel_mss
  running,    \* the task being run, or Idle
  next,       \* its next command
  last,       \* the result of the last task, until another begins
  obeyed      \* history: nft never refused to delete a table that was there

confVars == <<conf, nftFile>>
mssVars == <<mssFile, mss>>
hostVars == <<confVars, table, ipForward, mssVars>>
hfVars == <<hostVars, running, next, last, obeyed>>

ClampMode == {"disabled", "auto", "fixed"}
Apply == [action : {"apply"}, rule : Rule, stage : Stage, clamp : ClampMode]
OnRule ==
  [action : {"verify"}, rule : Rule, stage : Stage]
    \cup [action : {"disable"}, rule : Rule, stage : Stage \ {"single"}]
OnHost == [action : {"cleanup", "reload"}]
Task == Apply \cup OnRule \cup OnHost
Idle == [action |-> "none"]
Command == {"start", "conf", "file", "sysctl", "delete", "load",
            "mss file", "mss delete", "mss load", "conf remove", "file remove"}

TypeOK ==
  /\ conf \in [Stage -> SUBSET Rule]
  /\ nftFile \in [Stage -> Rule \cup {NoRule}]
  /\ table \in [Stage -> SUBSET Rule]
  /\ ipForward \in BOOLEAN /\ obeyed \in BOOLEAN
  /\ mssFile \in {"none", "auto", "fixed"} /\ mss \in {"none", "auto", "fixed"}
  /\ running \in Task \cup {Idle}
  /\ next \in Command
  /\ last \in [task : Task, status : {"succeeded", "failed"}]
              \cup [task : {Idle}, status : {"none"}]

NoResult == [task |-> Idle, status |-> "none"]

Init ==
  /\ conf = [s \in Stage |-> {}] /\ nftFile = [s \in Stage |-> NoRule]
  /\ table = [s \in Stage |-> {}]
  /\ ipForward \in BOOLEAN
  /\ mssFile = "none" /\ mss = "none"
  /\ running = Idle /\ next = "start" /\ last = NoResult
  /\ obeyed = TRUE

Begin(t) ==
  /\ running = Idle
  /\ running' = t /\ next' = "start" /\ last' = NoResult
  /\ UNCHANGED <<hostVars, obeyed>>

At(a, c) == running.action = a /\ next = c
GoOn(c) == next' = c /\ UNCHANGED <<running, last>>
End(status) ==
  /\ running' = Idle /\ next' = "start"
  /\ last' = [task |-> running, status |-> status]

r == running.rule
s == running.stage

-----------------------------------------------------------------------------
(* apply_entry_forward_config, apply_landing_forward_config and            *)
(* apply_forward_config.                                                   *)

(* A target that is no IPv4 address or a port in use ends the task. *)
Preflight ==
  /\ At("apply", "start")
  /\ GoOn("conf") \/ End("failed")
  /\ UNCHANGED <<hostVars, obeyed>>

WriteConf ==
  /\ At("apply", "conf")
  /\ \/ /\ conf' = [conf EXCEPT ![s] = IF s = "single" THEN {r} ELSE @ \cup {r}]
        /\ GoOn("file")
     \/ UNCHANGED conf /\ End("failed")
  /\ UNCHANGED <<nftFile, table, ipForward, mssVars, obeyed>>

WriteNFT ==
  /\ At("apply", "file")
  /\ \/ nftFile' = [nftFile EXCEPT ![s] = r] /\ GoOn("sysctl")
     \/ UNCHANGED nftFile /\ End("failed")
  /\ UNCHANGED <<conf, table, ipForward, mssVars, obeyed>>

Mutant_SysctlIgnored ==
  /\ At("apply", "sysctl")
  /\ ipForward' \in {ipForward, TRUE} /\ GoOn("delete")
  /\ UNCHANGED <<confVars, table, mssVars, obeyed>>
EnableIPForward ==
  /\ At("apply", "sysctl")
  /\ \/ ipForward' = TRUE /\ GoOn("delete")
     \/ ~ ipForward /\ UNCHANGED ipForward /\ End("failed")
  /\ UNCHANGED <<confVars, table, mssVars, obeyed>>

(* nft delete table, whose failure nobody looks at. *)
DeleteTable(i, then) ==
  /\ \/ table' = [table EXCEPT ![i] = {}] /\ UNCHANGED obeyed
     \/ table[i] # {} /\ UNCHANGED table /\ obeyed' = FALSE
  /\ GoOn(then)
  /\ UNCHANGED <<confVars, ipForward, mssVars>>

ApplyDeletes == At("apply", "delete") /\ DeleteTable(s, "load")

(* nft -c and nft -f: what the file has is added to what is loaded. *)
Mutant_ClampsDisabled ==
  /\ At("apply", "load")
  /\ table' = [table EXCEPT ![s] = @ \cup {nftFile[s]}] /\ GoOn("mss file")
  /\ UNCHANGED <<confVars, ipForward, mssVars, obeyed>>
LoadNFT ==
  /\ At("apply", "load")
  /\ \/ /\ table' = [table EXCEPT ![s] = @ \cup {nftFile[s]}]
        /\ IF s # "single" /\ running.clamp # "disabled"
           THEN GoOn("mss file") ELSE End("succeeded")
     \/ UNCHANGED table /\ End("failed")
  /\ UNCHANGED <<confVars, ipForward, mssVars, obeyed>>

(* applyMSSClampIfRequested. *)
WriteMSS ==
  /\ At("apply", "mss file")
  /\ \/ mssFile' = running.clamp /\ GoOn("mss delete")
     \/ UNCHANGED mssFile /\ End("failed")
  /\ UNCHANGED <<confVars, table, ipForward, mss, obeyed>>

DeleteMSS ==
  /\ At("apply", "mss delete")
  /\ mss' = "none"
  /\ GoOn("mss load")
  /\ UNCHANGED <<confVars, table, ipForward, mssFile, obeyed>>

(* An nft that does not know "rt mtu" gets the fixed value instead. *)
LoadMSS ==
  /\ At("apply", "mss load")
  /\ mssFile' \in {mssFile, "fixed"}
  /\ (mss' = mssFile' /\ End("succeeded")) \/ (mss' = mss /\ End("failed"))
  /\ UNCHANGED <<confVars, table, ipForward, obeyed>>

-----------------------------------------------------------------------------
(* disable_entry_forward_config and disable_landing_forward_config delete  *)
(* the stage's table and nft file, whichever rule they have.               *)
Mutant_KeepsTable ==
  At("disable", "start") /\ GoOn("conf remove") /\ UNCHANGED <<hostVars, obeyed>>
DisableDeletes == At("disable", "start") /\ DeleteTable(s, "conf remove")

RemoveConf ==
  /\ At("disable", "conf remove")
  /\ conf' = [conf EXCEPT ![s] = @ \ {r}]
  /\ GoOn("file remove")
  /\ UNCHANGED <<nftFile, table, ipForward, mssVars, obeyed>>

RemoveNFT ==
  /\ At("disable", "file remove")
  /\ nftFile' = [nftFile EXCEPT ![s] = NoRule]
  /\ End("succeeded")
  /\ UNCHANGED <<conf, table, ipForward, mssVars, obeyed>>

(* The agent refuses a task that writes when write actions are disabled.   *)
Refuse ==
  /\ running.action \in {"apply", "disable", "cleanup", "reload"} /\ next = "start"
  /\ End("failed")
  /\ UNCHANGED <<hostVars, obeyed>>

(* verify_forward_rules: the rule's JSON file (the single stage has one    *)
(* for all), the stage's nft file and its table are there, whichever rule  *)
(* the latter two have.                                                    *)
VerifyForwardRules ==
  /\ At("verify", "start")
  /\ End(IF /\ conf[s] \cap (IF s = "single" THEN Rule ELSE {r}) # {}
            /\ nftFile[s] # NoRule /\ table[s] # {}
         THEN "succeeded" ELSE "failed")
  /\ UNCHANGED <<hostVars, obeyed>>

(* reload_firewall_rules loads the single stage's file once more, without  *)
(* deleting its table before.                                              *)
ReloadFirewall ==
  /\ At("reload", "start")
  /\ \/ /\ "single" \in Stage /\ nftFile["single"] # NoRule
        /\ table' = [table EXCEPT !["single"] = @ \cup {nftFile["single"]}]
        /\ End("succeeded")
     \/ UNCHANGED table /\ End("failed")
  /\ UNCHANGED <<confVars, ipForward, mssVars, obeyed>>

(* cleanup_node_deployment deletes the tables and then the files, but not  *)
(* the JSON file of the single stage.                                      *)
CleanTables ==
  /\ At("cleanup", "start")
  /\ \E kept \in SUBSET Stage :
       /\ table' = [i \in Stage |-> IF i \in kept THEN table[i] ELSE {}]
       /\ obeyed' = (obeyed /\ \A i \in kept : table[i] = {})
  /\ mss' = "none"
  /\ GoOn("file remove")
  /\ UNCHANGED <<confVars, ipForward, mssFile>>

CleanFiles ==
  /\ At("cleanup", "file remove")
  /\ nftFile' = [i \in Stage |-> NoRule] /\ mssFile' = "none"
  /\ GoOn("conf remove")
  /\ UNCHANGED <<conf, table, ipForward, mss, obeyed>>

CleanConf ==
  /\ At("cleanup", "conf remove")
  /\ conf' = [i \in Stage |-> IF i = "single" THEN conf[i] ELSE {}]
  /\ End("succeeded")
  /\ UNCHANGED <<nftFile, table, ipForward, mssVars, obeyed>>

-----------------------------------------------------------------------------
(* The agent is killed; its task stays pending and may be begun again. *)
Kill ==
  /\ running # Idle
  /\ running' = Idle /\ next' = "start" /\ last' = NoResult
  /\ UNCHANGED <<hostVars, obeyed>>

(* Files outlive a reboot, tables do not, and nothing loads them again.    *)
(* ip_forward gets the value in sysctl.d, the agent's or another's.        *)
Reboot ==
  /\ table' = [i \in Stage |-> {}] /\ mss' = "none"
  /\ running' = Idle /\ next' = "start" /\ last' = NoResult
  /\ ipForward' \in BOOLEAN
  /\ UNCHANGED <<confVars, mssFile, obeyed>>

ApplyNext ==
  \/ Preflight \/ WriteConf \/ WriteNFT \/ EnableIPForward \/ ApplyDeletes \/ LoadNFT
  \/ WriteMSS \/ DeleteMSS \/ LoadMSS

Next ==
  \/ \E t \in Task : Begin(t)
  \/ ApplyNext
  \/ DisableDeletes \/ RemoveConf \/ RemoveNFT
  \/ VerifyForwardRules \/ ReloadFirewall \/ Refuse
  \/ CleanTables \/ CleanFiles \/ CleanConf
  \/ Kill \/ Reboot

Spec == Init /\ [][Next]_hfVars

-----------------------------------------------------------------------------
(* What an apply reported as done is whole on the host: the rule is loaded *)
(* in its stage's table and nothing else is, packets are forwarded, and    *)
(* MSS is clamped if the rule wants it, in whatever state earlier tasks    *)
(* and kills had left the host.                                            *)
ReportedIsDone ==
  last.status = "succeeded" /\ last.task.action = "apply" =>
    LET t == last.task IN
    /\ t.rule \in table[t.stage] /\ ipForward
    /\ obeyed => table[t.stage] = {t.rule}
    /\ t.clamp # "disabled" /\ t.stage # "single" => mss # "none"

(* A stage with one rule configured, as docs/network-forwarding.md:19      *)
(* advises, is verified truthfully: what is loaded is that rule.  The      *)
(* table of one rule never outlives the rule's JSON file.                  *)
VerifiedIsLoaded ==
  \A i \in Stage \ {"single"} :
    obeyed /\ last.status = "succeeded" /\ last.task.action = "verify"
      /\ last.task.stage = i /\ conf[i] = {last.task.rule}
    => table[i] = {last.task.rule}
=============================================================================
