------------------------------ MODULE TaskQueue ------------------------------
(***************************************************************************)
(* The controller's task queue and the agents that serve it.               *)
(*                                                                         *)
(* The controller keeps one slice of tasks (StoreFile.Tasks) and a list of *)
(* machines (StoreFile.IXMachines); every store method runs under one lock,*)
(* so it is one step here.  An operator enqueues a task for a machine, or, *)
(* through the v1 API, for a node.  An agent polls for the pending tasks   *)
(* of its own node id, executes the batch in order and posts each result.  *)
(* A post that the agent believes lost makes it drop the rest of the batch *)
(* and poll again; the controller may still process that post later.       *)
(*                                                                         *)
(* Tasks are numbered in the order of their creation, which is the order   *)
(* of the slice: t < u says that t was appended before u.                  *)
(***************************************************************************)
EXTENDS Naturals

CONSTANTS
  Machines,   \* machine records the operator created
  Nodes,      \* node ids the agents are configured with, one agent each
  Home,       \* the machine an agent's token belongs to, or NoMachine
  MaxTasks,   \* bound: number of tasks ever created
  NoNode, NoMachine

ASSUME NoNodeAssumption == NoNode \notin Nodes
ASSUME NoMachineAssumption == NoMachine \notin Machines
ASSUME HomeAssumption == Home \in [Nodes -> Machines \cup {NoMachine}]
ASSUME MaxTasksAssumption == MaxTasks \in Nat

Task == 1 .. MaxTasks

(* What DispatchAction reports, and what becomes of an execution that the  *)
(* death of the agent cuts short.                                          *)
Outcome == {"succeeded", "failed"}
Terminal == Outcome

(* A restart_agent task runs "systemctl restart edge-tunnel-agent.service" *)
(* from inside that service: systemd stops the agent before it can report. *)
Kind == {"plain", "restart"}

VARIABLES
  last,         \* number of tasks created so far
  status,       \* Task.Status of each task, "none" before it is created
  node,         \* Task.NodeID
  machine,      \* Payload["machine_id"], NoMachine for a v1 task
  kind,         \* what executing the task does to the agent
  machineNode,  \* IXMachine.NodeID: the node a machine is bound to
  pc,           \* where each agent is: down, starting, idle or working
  batch,        \* tasks of the current batch an agent has still to finish
  held,         \* outcome of the batch's first task, to be posted, or "none"
  beats,        \* agents with a register or report request on its way
  late,         \* results whose agent has given up on the post
  gone,         \* nodes whose host was taken away for good
  ran           \* history: which node executed which task, to which outcome

controller == <<last, status, node, machine, kind, machineNode>>
agents == <<pc, batch, held>>
vars == <<controller, agents, beats, late, gone, ran>>

TypeOK ==
  /\ last \in 0 .. MaxTasks
  /\ status \in [Task -> {"none", "waiting_agent", "pending"} \cup Terminal]
  /\ node \in [Task -> Nodes \cup {NoNode}]
  /\ machine \in [Task -> Machines \cup {NoMachine}]
  /\ kind \in [Task -> Kind]
  /\ machineNode \in [Machines -> Nodes \cup {NoNode}]
  /\ pc \in [Nodes -> {"down", "starting", "idle", "working"}]
  /\ batch \in [Nodes -> SUBSET Task]
  /\ held \in [Nodes -> Outcome \cup {"none"}]
  /\ beats \in SUBSET Nodes
  /\ late \in SUBSET (Task \X Outcome)
  /\ gone \in SUBSET Nodes
  /\ ran \in [Task -> SUBSET (Nodes \X (Outcome \cup {"killed"}))]

Init ==
  /\ last = 0
  /\ status = [t \in Task |-> "none"]
  /\ node = [t \in Task |-> NoNode]
  /\ machine = [t \in Task |-> NoMachine]
  /\ kind = [t \in Task |-> "plain"]
  /\ machineNode = [m \in Machines |-> NoNode]
  /\ pc = [n \in Nodes |-> "down"]
  /\ batch = [n \in Nodes |-> {}]
  /\ held = [n \in Nodes |-> "none"]
  /\ beats = {}
  /\ late = {}
  /\ gone = {}
  /\ ran = [t \in Task |-> {}]

-----------------------------------------------------------------------------
(* The operator. *)

(* A v2 handler enqueues an ix task for machine m.  The task is born       *)
(* addressed to the node m is bound to, or waiting when there is none; the *)
(* binding is read and the task appended under one hold of the lock.       *)
EnqueueForMachine(m) ==
  /\ last < MaxTasks
  /\ last' = last + 1
  /\ machine' = [machine EXCEPT ![last + 1] = m]
  /\ node' = [node EXCEPT ![last + 1] = machineNode[m]]
  /\ status' = [status EXCEPT ![last + 1] =
                  IF machineNode[m] = NoNode THEN "waiting_agent" ELSE "pending"]
  /\ UNCHANGED <<kind, machineNode, agents, beats, late, gone, ran>>

(* A v1 handler creates a task that names its node outright. *)
EnqueueForNode(n, k) ==
  /\ last < MaxTasks
  /\ last' = last + 1
  /\ node' = [node EXCEPT ![last + 1] = n]
  /\ kind' = [kind EXCEPT ![last + 1] = k]
  /\ status' = [status EXCEPT ![last + 1] = "pending"]
  /\ UNCHANGED <<machine, machineNode, agents, beats, late, gone, ran>>

-----------------------------------------------------------------------------
(* Registration. *)

(* systemd starts the agent, again after every exit (Restart=always). *)
Start(n) ==
  /\ pc[n] = "down"
  /\ n \notin gone
  /\ pc' = [pc EXCEPT ![n] = "starting"]
  /\ UNCHANGED <<controller, batch, held, beats, late, gone, ran>>

(* runOnce sends register, then report: at start and on every report tick. *)
Heartbeat(n) ==
  /\ pc[n] \in {"starting", "idle"}
  /\ n \notin beats
  /\ beats' = beats \cup {n}
  /\ UNCHANGED <<controller, agents, late, gone, ran>>

(* The tasks that a node takes over with machine m. *)
Mutant_ActivatesNone(m) == {}
Mutant_ActivatesAll(m) == {t \in Task : machine[t] = m}
Activated(m) == {t \in Task : status[t] = "waiting_agent" /\ machine[t] = m}

(* The controller handles the request: linkMachineToNode binds the machine *)
(* of the token to the node and hands over every task that waited for it.  *)
(* An agent that was starting has registered and begins to poll.           *)
LinkMachine(n) ==
  /\ n \in beats
  /\ beats' = beats \ {n}
  /\ pc' = [pc EXCEPT ![n] = IF @ = "starting" THEN "idle" ELSE @]
  /\ LET m == Home[n] IN
       /\ machineNode' = [x \in Machines |-> IF x = m THEN n ELSE machineNode[x]]
       /\ node' = [t \in Task |-> IF t \in Activated(m) THEN n ELSE node[t]]
       /\ status' = [t \in Task |-> IF t \in Activated(m) THEN "pending" ELSE status[t]]
  /\ UNCHANGED <<last, machine, kind, batch, held, late, gone, ran>>

-----------------------------------------------------------------------------
(* Serving the queue. *)

Mutant_TasksForAnyNode(n) == {t \in Task : status[t] = "pending"}
TasksForNode(n) == {t \in Task : node[t] = n /\ status[t] = "pending"}

(* Fetching claims nothing: the tasks stay pending in the controller. *)
Poll(n) ==
  /\ pc[n] = "idle"
  /\ TasksForNode(n) # {}
  /\ batch' = [batch EXCEPT ![n] = TasksForNode(n)]
  /\ pc' = [pc EXCEPT ![n] = "working"]
  /\ UNCHANGED <<controller, held, beats, late, gone, ran>>

IsNext(n, t) == t \in batch[n] /\ \A u \in batch[n] : t <= u

Execute(n, t, o) ==
  /\ pc[n] = "working" /\ held[n] = "none"
  /\ IsNext(n, t)
  /\ kind[t] = "plain"
  /\ held' = [held EXCEPT ![n] = o]
  /\ ran' = [ran EXCEPT ![t] = @ \cup {<<n, o>>}]
  /\ UNCHANGED <<controller, pc, batch, beats, late, gone>>

(* updateTaskResult records whatever it is sent: it asks neither who sends *)
(* the result nor whether the task has one already.                        *)
UpdateTaskResult(t, o) == status' = [status EXCEPT ![t] = o]

(* Mutant: the result of one task is kept and posted for the next as well. *)
Mutant_KeepsResult(n, t) ==
  /\ pc[n] = "working" /\ held[n] # "none"
  /\ IsNext(n, t)
  /\ UpdateTaskResult(t, held[n])
  /\ held' = [held EXCEPT ![n] = IF batch[n] = {t} THEN "none" ELSE @]
  /\ batch' = [batch EXCEPT ![n] = @ \ {t}]
  /\ pc' = [pc EXCEPT ![n] = IF batch[n] = {t} THEN "idle" ELSE @]
  /\ UNCHANGED <<last, node, machine, kind, machineNode, beats, late, gone, ran>>

(* The post is answered in time: the agent goes on with the batch. *)
SubmitTaskResult(n, t) ==
  /\ pc[n] = "working" /\ held[n] # "none"
  /\ IsNext(n, t)
  /\ UpdateTaskResult(t, held[n])
  /\ held' = [held EXCEPT ![n] = "none"]
  /\ batch' = [batch EXCEPT ![n] = @ \ {t}]
  /\ pc' = [pc EXCEPT ![n] = IF batch[n] = {t} THEN "idle" ELSE @]
  /\ UNCHANGED <<last, node, machine, kind, machineNode, beats, late, gone, ran>>

(* Mutant: the result is posted before there is one. *)
Mutant_PostsEarly(n, t) ==
  /\ pc[n] = "working"
  /\ IsNext(n, t)
  /\ late' = late \cup {<<t, held[n]>>}
  /\ held' = [held EXCEPT ![n] = "none"]
  /\ batch' = [batch EXCEPT ![n] = {}]
  /\ pc' = [pc EXCEPT ![n] = "idle"]
  /\ UNCHANGED <<controller, beats, gone, ran>>

(* Mutant: a failed post is skipped and the batch goes on. *)
Mutant_GoesOn(n, t) ==
  /\ pc[n] = "working" /\ held[n] # "none"
  /\ IsNext(n, t)
  /\ late' = late \cup {<<t, held[n]>>}
  /\ held' = [held EXCEPT ![n] = "none"]
  /\ batch' = [batch EXCEPT ![n] = @ \ {t}]
  /\ pc' = [pc EXCEPT ![n] = IF batch[n] = {t} THEN "idle" ELSE @]
  /\ UNCHANGED <<controller, beats, gone, ran>>

(* Mutant: a failed post drops the batch and never gets back to polling. *)
Mutant_Hangs(n, t) ==
  /\ pc[n] = "working" /\ held[n] # "none"
  /\ IsNext(n, t)
  /\ late' = late \cup {<<t, held[n]>>}
  /\ held' = [held EXCEPT ![n] = "none"]
  /\ batch' = [batch EXCEPT ![n] = {}]
  /\ UNCHANGED <<controller, pc, beats, gone, ran>>

(* The post fails for the agent, which drops the rest of the batch.  It    *)
(* may have been lost, it may be processed any time later, or it may have  *)
(* been processed already with only the answer missing: see LateResult.    *)
SubmitFails(n, t) ==
  /\ pc[n] = "working" /\ held[n] # "none"
  /\ IsNext(n, t)
  /\ late' = late \cup {<<t, held[n]>>}
  /\ held' = [held EXCEPT ![n] = "none"]
  /\ batch' = [batch EXCEPT ![n] = {}]
  /\ pc' = [pc EXCEPT ![n] = "idle"]
  /\ UNCHANGED <<controller, beats, gone, ran>>

(* The controller processes a result nobody waits for any more. *)
LateResult(t, o) ==
  /\ <<t, o>> \in late
  /\ late' = late \ {<<t, o>>}
  /\ UpdateTaskResult(t, o)
  /\ UNCHANGED <<last, node, machine, kind, machineNode, agents, beats, gone, ran>>

-----------------------------------------------------------------------------
(* The agent process and its host. *)

(* The agent dies and forgets its batch.  A post it was making may be on   *)
(* its way.  (A failed first registration is an exit too.)                 *)
Crash(n) ==
  /\ pc[n] # "down"
  /\ pc' = [pc EXCEPT ![n] = "down"]
  /\ batch' = [batch EXCEPT ![n] = {}]
  /\ held' = [held EXCEPT ![n] = "none"]
  /\ \/ late' = late
     \/ \E t \in Task : /\ held[n] # "none" /\ IsNext(n, t)
                        /\ late' = late \cup {<<t, held[n]>>}
  /\ UNCHANGED <<controller, beats, gone, ran>>

(* The agent dies with an execution under way.  For a restart_agent task   *)
(* that is what executing it does.                                         *)
KilledExecuting(n, t) ==
  /\ pc[n] = "working" /\ held[n] = "none"
  /\ IsNext(n, t)
  /\ ran' = [ran EXCEPT ![t] = @ \cup {<<n, "killed">>}]
  /\ pc' = [pc EXCEPT ![n] = "down"]
  /\ batch' = [batch EXCEPT ![n] = {}]
  /\ UNCHANGED <<controller, held, beats, late, gone>>

(* The host is retired for good; another node may take over its machine.   *)
Retire(n) ==
  /\ pc[n] = "down"
  /\ n \notin gone
  /\ gone' = gone \cup {n}
  /\ UNCHANGED <<controller, agents, beats, late, ran>>

-----------------------------------------------------------------------------
Next ==
  \/ \E m \in Machines : EnqueueForMachine(m)
  \/ \E n \in Nodes, k \in Kind : EnqueueForNode(n, k)
  \/ \E n \in Nodes : Start(n)
  \/ \E n \in Nodes : Heartbeat(n)
  \/ \E n \in Nodes : LinkMachine(n)
  \/ \E n \in Nodes : Poll(n)
  \/ \E n \in Nodes, t \in Task, o \in Outcome : Execute(n, t, o)
  \/ \E n \in Nodes, t \in Task : SubmitTaskResult(n, t)
  \/ \E n \in Nodes, t \in Task : SubmitFails(n, t)
  \/ \E t \in Task, o \in Outcome : LateResult(t, o)
  \/ \E n \in Nodes : Crash(n)
  \/ \E n \in Nodes, t \in Task : KilledExecuting(n, t)
  \/ \E n \in Nodes : Retire(n)

(* An agent that keeps getting the chance to take its next step takes it:  *)
(* systemd restarts it, its tickers fire, and neither the network nor      *)
(* crashes hit it at the same point for ever.  Nothing is assumed of the   *)
(* operator, of lost posts, of crashes or of executions being cut short.   *)
Fairness ==
  \A n \in Nodes :
    /\ WF_vars(Start(n))
    /\ SF_vars(Heartbeat(n))
    /\ SF_vars(LinkMachine(n))
    /\ SF_vars(pc[n] = "starting" /\ LinkMachine(n))
    /\ SF_vars(Poll(n))
    /\ SF_vars(\E t \in Task, o \in Outcome : Execute(n, t, o))
    /\ SF_vars(\E t \in Task : SubmitTaskResult(n, t))

Spec == Init /\ [][Next]_vars
FairSpec == Spec /\ Fairness

-----------------------------------------------------------------------------
(* Two tasks share a lane when they were enqueued the same way (for one    *)
(* machine, or both by the v1 API) and are addressed to one node.          *)
SameLane(t, u) ==
  /\ node[t] = node[u] /\ node[t] # NoNode
  /\ machine[t] = machine[u]

(* A task waits only for an agent that has never come: no task is left in  *)
(* waiting_agent for a machine that is bound.  docs/deployment-v2.md:362   *)
(* explains the status to operators as "Agent not registered".             *)
WaitingMeansUnbound ==
  \A t \in Task : status[t] = "waiting_agent" =>
    /\ machine[t] # NoMachine
    /\ machineNode[machine[t]] = NoNode

(* Only the node a task is addressed to ever executes it, whatever the     *)
(* machine is bound to by then, and a waiting task is not executed.        *)
RunsWhereAddressed ==
  \A t \in Task : \A r \in ran[t] : r[1] = node[t]

(* A recorded result is never invented: an execution of that very task, on *)
(* its own node, ended that way, however posts were lost, delayed, or      *)
(* overtaken by those of a later attempt.                                  *)
ResultsAreReal ==
  \A t \in Task : status[t] \in Terminal => <<node[t], status[t]>> \in ran[t]

(* ProcessTasks stops at the first post that fails, so within a lane a     *)
(* task is not even begun before all earlier ones have a recorded result.  *)
HeadOfLine ==
  \A t, u \in Task :
    t < u /\ SameLane(t, u) /\ ran[u] # {} => status[t] \in Terminal

(* A lane never goes back: once a later task has been begun, no retry      *)
(* executes an earlier one again.  (A pause retried after the resume that  *)
(* followed it would leave the line down.)                                 *)
NeverBackwards ==
  [][\A t, u \in Task :
       t < u /\ SameLane(t, u) /\ ran[u] # {} => ran'[t] = ran[t]]_vars

(* A finished task is never handed out again: neither a late result nor a  *)
(* re-registering agent takes a task back from a terminal status.          *)
TerminalStays ==
  [][\A t \in Task : status[t] \in Terminal => status'[t] \in Terminal]_vars

(* A restart_agent task no later than t is pending on t's node. *)
BehindRestart(t) ==
  \E u \in Task : u <= t /\ kind[u] = "restart" /\ node[u] = node[t]
                         /\ status[u] = "pending"

(* A task that is pending is finished in the end, through any number of    *)
(* crashes and lost posts, unless its host is retired or a restart_agent   *)
(* task stands before it in the queue.                                     *)
PendingFinishes ==
  \A t \in Task :
    (status[t] = "pending" /\ ~ BehindRestart(t))
      ~> (status[t] \in Terminal \/ node[t] \in gone)

(* A task waiting for a machine is handed over once some agent that holds  *)
(* the machine's token stays in service.                                   *)
WaitingIsHandedOver ==
  \A t \in Task :
    status[t] = "waiting_agent"
      ~> (status[t] # "waiting_agent" \/ \A n \in Nodes : Home[n] = machine[t] => n \in gone)
-----------------------------------------------------------------------------
(* What the queue promises.  A task is offered when it gets its node; the  *)
(* tasks of one machine on one node, and the v1 tasks of one node, are a   *)
(* lane.                                                                   *)
LaneOf(n, m) == IF n = NoNode THEN <<>> ELSE <<n, m>>

Delivery == INSTANCE TaskDelivery WITH
  Lane <- Nodes \X (Machines \cup {NoMachine}),
  NoLane <- <<>>,
  lane <- [t \in Task |-> LaneOf(node[t], machine[t])],
  outcomes <- [t \in Task |-> {r[2] : r \in ran[t]}],
  result <- [t \in Task |-> IF status[t] \in Terminal THEN status[t] ELSE "none"]

(* The queue implements TaskDelivery, through crashes, lost and late posts *)
(* and a machine's move from node to node.                                 *)
Delivers == Delivery!Spec
=============================================================================
