--------------------------- MODULE TaskQueueProofs ---------------------------
(***************************************************************************)
(* Proofs about TaskQueue, for any machines, nodes, tokens and number of   *)
(* tasks.                                                                  *)
(*                                                                         *)
(* The inductive invariant says, beyond the properties themselves, what a  *)
(* batch is: tasks of the agent's own node, together with every earlier    *)
(* task of their lanes that has no result yet (BatchClosed), and behind no *)
(* task of their lanes that was begun already (BatchAhead).                *)
(***************************************************************************)
EXTENDS TaskQueue, TLAPS

(* Task numbers are given out in order. *)
Created ==
  \A t \in Task : status[t] = "none" <=> t > last

(* A task has a node exactly when it may be, or has been, handed out. *)
Addressed ==
  \A t \in Task :
    /\ node[t] = NoNode <=> status[t] \in {"none", "waiting_agent"}
    /\ status[t] = "none" => machine[t] = NoMachine

(* Once a task of a machine has been addressed, the machine is bound. *)
OfferedMeansBound ==
  \A t \in Task : node[t] # NoNode /\ machine[t] # NoMachine =>
    machineNode[machine[t]] # NoNode

BatchAddressed == \A n \in Nodes : \A t \in batch[n] : node[t] = n

BatchClosed ==
  \A n \in Nodes : \A t \in batch[n] : \A u \in Task :
    u < t /\ SameLane(u, t) => u \in batch[n] \/ status[u] \in Terminal

BatchAhead ==
  \A n \in Nodes : \A t \in batch[n] : \A u \in Task :
    t < u /\ SameLane(t, u) => ran[u] = {}

(* A result on its way, held or late, is one its task really came to. *)
HeldIsReal ==
  \A n \in Nodes : held[n] # "none" =>
    /\ pc[n] = "working"
    /\ \A t \in Task : IsNext(n, t) => <<n, held[n]>> \in ran[t]

LateIsReal ==
  \A t \in Task, o \in Outcome :
    <<t, o>> \in late => <<node[t], o>> \in ran[t]

RanIsAddressed == \A t \in Task : ran[t] # {} => node[t] # NoNode

QueueInv ==
  Created /\ Addressed /\ OfferedMeansBound /\ WaitingMeansUnbound

BatchInv == BatchAddressed /\ BatchClosed /\ BatchAhead

ResultInv ==
  HeldIsReal /\ LateIsReal /\ RanIsAddressed /\ RunsWhereAddressed /\ ResultsAreReal

IInv == TypeOK /\ QueueInv /\ BatchInv /\ ResultInv /\ HeadOfLine

-----------------------------------------------------------------------------
(* Starting an agent disturbs nothing: it begins with an empty batch.      *)
LEMMA StartKeeps ==
  ASSUME NEW n \in Nodes, IInv, Start(n)
  PROVE  IInv'
<1> USE DEF IInv, Start, controller
<1>1. TypeOK'
  BY DEF TypeOK, Task, Kind, Outcome, Terminal
<1>2. QueueInv'
  BY DEF TypeOK, Task, Kind, Outcome, Terminal, QueueInv, Created, Addressed,
    OfferedMeansBound, WaitingMeansUnbound
<1>3. BatchInv'
  BY DEF TypeOK, Task, Kind, Outcome, Terminal, BatchInv, BatchAddressed,
    BatchClosed, BatchAhead, SameLane
<1>4. ResultInv'
  BY DEF TypeOK, Task, IsNext, ResultInv, HeldIsReal, LateIsReal,
    RanIsAddressed, RunsWhereAddressed, ResultsAreReal
<1>5. HeadOfLine'
  BY DEF TypeOK, Task, Kind, Outcome, Terminal, HeadOfLine, SameLane
<1> QED BY <1>1, <1>2, <1>3, <1>4, <1>5

(* Sending a register or report request disturbs nothing by itself.        *)
LEMMA HeartbeatKeeps ==
  ASSUME NEW n \in Nodes, IInv, Heartbeat(n)
  PROVE  IInv'
<1> USE DEF IInv, Heartbeat, controller, agents
<1>1. TypeOK'
  BY DEF TypeOK, Task, Kind, Outcome, Terminal
<1>2. QueueInv'
  BY DEF TypeOK, Task, Kind, Outcome, Terminal, QueueInv, Created, Addressed,
    OfferedMeansBound, WaitingMeansUnbound
<1>3. BatchInv'
  BY DEF TypeOK, Task, Kind, Outcome, Terminal, BatchInv, BatchAddressed,
    BatchClosed, BatchAhead, SameLane
<1>4. ResultInv'
  BY DEF TypeOK, Task, IsNext, ResultInv, HeldIsReal, LateIsReal,
    RanIsAddressed, RunsWhereAddressed, ResultsAreReal
<1>5. HeadOfLine'
  BY DEF TypeOK, Task, Kind, Outcome, Terminal, HeadOfLine, SameLane
<1> QED BY <1>1, <1>2, <1>3, <1>4, <1>5

(* Retiring a host disturbs nothing that is recorded.                      *)
LEMMA RetireKeeps ==
  ASSUME NEW n \in Nodes, IInv, Retire(n)
  PROVE  IInv'
<1> USE DEF IInv, Retire, controller, agents
<1>1. TypeOK'
  BY DEF TypeOK, Task, Kind, Outcome, Terminal
<1>2. QueueInv'
  BY DEF TypeOK, Task, Kind, Outcome, Terminal, QueueInv, Created, Addressed,
    OfferedMeansBound, WaitingMeansUnbound
<1>3. BatchInv'
  BY DEF TypeOK, Task, Kind, Outcome, Terminal, BatchInv, BatchAddressed,
    BatchClosed, BatchAhead, SameLane
<1>4. ResultInv'
  BY DEF TypeOK, Task, IsNext, ResultInv, HeldIsReal, LateIsReal,
    RanIsAddressed, RunsWhereAddressed, ResultsAreReal
<1>5. HeadOfLine'
  BY DEF TypeOK, Task, Kind, Outcome, Terminal, HeadOfLine, SameLane
<1> QED BY <1>1, <1>2, <1>3, <1>4, <1>5

(* createTask appends: the new task is behind every other, in no batch.    *)
LEMMA EnqueueForMachineKeeps ==
  ASSUME NEW m \in Machines, IInv, EnqueueForMachine(m)
  PROVE  IInv'
<1> USE DEF IInv, EnqueueForMachine, agents
<1>new. /\ last + 1 \in Task /\ status[last + 1] = "none"
        /\ node[last + 1] = NoNode /\ machine[last + 1] = NoMachine
        /\ ran[last + 1] = {} /\ \A x \in Nodes : last + 1 \notin batch[x]
  BY MaxTasksAssumption, NoNodeAssumption DEF TypeOK, Task, QueueInv,
    Created, Addressed, BatchInv, BatchAddressed, ResultInv, RanIsAddressed
<1>old. \A t \in Task : t # last + 1 =>
        node'[t] = node[t] /\ machine'[t] = machine[t] /\ status'[t] = status[t]
  BY DEF TypeOK, Task
<1>later. \A t \in Task : t > last + 1 => node[t] = NoNode
  BY DEF TypeOK, Task, QueueInv, Created, Addressed
<1>1. TypeOK'
  BY MaxTasksAssumption DEF TypeOK, Task, Kind, Outcome, Terminal
<1>2. QueueInv'
  <2>1. Created'
    BY <1>new, <1>old DEF QueueInv, Created, TypeOK, Task
  <2>2. Addressed'
    BY <1>new, <1>old, NoNodeAssumption DEF QueueInv, Addressed, TypeOK, Task
  <2>3. OfferedMeansBound'
    BY <1>new, <1>old DEF QueueInv, OfferedMeansBound, TypeOK, Task
  <2>4. WaitingMeansUnbound'
    BY <1>new, <1>old, NoMachineAssumption DEF QueueInv, WaitingMeansUnbound,
      TypeOK, Task
  <2> QED BY <2>1, <2>2, <2>3, <2>4 DEF QueueInv
<1>3. BatchInv'
  <2>1. BatchAddressed'
    BY <1>new, <1>old DEF BatchInv, BatchAddressed, TypeOK
  <2>2. BatchClosed'
    BY <1>new, <1>old, <1>later DEF BatchInv, BatchClosed, BatchAddressed,
      SameLane, TypeOK, Task
  <2>3. BatchAhead'
    BY <1>new, <1>old DEF BatchInv, BatchAhead, SameLane, TypeOK, Task
  <2> QED BY <2>1, <2>2, <2>3 DEF BatchInv
<1>4. ResultInv'
  <2>1. HeldIsReal'
    BY <1>new, <1>old DEF ResultInv, HeldIsReal, IsNext, TypeOK
  <2>2. LateIsReal'
    BY <1>new, <1>old DEF ResultInv, LateIsReal, TypeOK, Outcome
  <2>3. RanIsAddressed'
    BY <1>new, <1>old DEF ResultInv, RanIsAddressed, TypeOK
  <2>4. RunsWhereAddressed'
    BY <1>new, <1>old DEF ResultInv, RunsWhereAddressed, TypeOK
  <2>5. ResultsAreReal'
    BY <1>new, <1>old DEF ResultInv, ResultsAreReal, TypeOK, Terminal,
      Outcome
  <2> QED BY <2>1, <2>2, <2>3, <2>4, <2>5 DEF ResultInv
<1>5. HeadOfLine'
  BY <1>new, <1>old, <1>later DEF HeadOfLine, SameLane, TypeOK, Task
<1> QED BY <1>1, <1>2, <1>3, <1>4, <1>5

(* The same for a task that names its node, whose lane is the node itself. *)
LEMMA EnqueueForNodeKeeps ==
  ASSUME NEW n \in Nodes, NEW k \in Kind, IInv, EnqueueForNode(n, k)
  PROVE  IInv'
<1> USE DEF IInv, EnqueueForNode, agents
<1>new. /\ last + 1 \in Task /\ status[last + 1] = "none"
        /\ node[last + 1] = NoNode /\ machine[last + 1] = NoMachine
        /\ ran[last + 1] = {} /\ \A x \in Nodes : last + 1 \notin batch[x]
  BY MaxTasksAssumption, NoNodeAssumption DEF TypeOK, Task, QueueInv,
    Created, Addressed, BatchInv, BatchAddressed, ResultInv, RanIsAddressed
<1>old. \A t \in Task : t # last + 1 =>
        node'[t] = node[t] /\ machine'[t] = machine[t] /\ status'[t] = status[t]
  BY DEF TypeOK, Task
<1>later. \A t \in Task : t > last + 1 => node[t] = NoNode
  BY DEF TypeOK, Task, QueueInv, Created, Addressed
<1>1. TypeOK'
  BY MaxTasksAssumption DEF TypeOK, Task, Kind, Outcome, Terminal
<1>2. QueueInv'
  <2>1. Created'
    BY <1>new, <1>old DEF QueueInv, Created, TypeOK, Task
  <2>2. Addressed'
    BY <1>new, <1>old, NoNodeAssumption DEF QueueInv, Addressed, TypeOK, Task
  <2>3. OfferedMeansBound'
    BY <1>new, <1>old DEF QueueInv, OfferedMeansBound, TypeOK, Task
  <2>4. WaitingMeansUnbound'
    BY <1>new, <1>old, NoMachineAssumption DEF QueueInv, WaitingMeansUnbound,
      TypeOK, Task
  <2> QED BY <2>1, <2>2, <2>3, <2>4 DEF QueueInv
<1>3. BatchInv'
  <2>1. BatchAddressed'
    BY <1>new, <1>old DEF BatchInv, BatchAddressed, TypeOK
  <2>2. BatchClosed'
    BY <1>new, <1>old, <1>later DEF BatchInv, BatchClosed, BatchAddressed,
      SameLane, TypeOK, Task
  <2>3. BatchAhead'
    BY <1>new, <1>old DEF BatchInv, BatchAhead, SameLane, TypeOK, Task
  <2> QED BY <2>1, <2>2, <2>3 DEF BatchInv
<1>4. ResultInv'
  <2>1. HeldIsReal'
    BY <1>new, <1>old DEF ResultInv, HeldIsReal, IsNext, TypeOK
  <2>2. LateIsReal'
    BY <1>new, <1>old DEF ResultInv, LateIsReal, TypeOK, Outcome
  <2>3. RanIsAddressed'
    BY <1>new, <1>old DEF ResultInv, RanIsAddressed, TypeOK
  <2>4. RunsWhereAddressed'
    BY <1>new, <1>old DEF ResultInv, RunsWhereAddressed, TypeOK
  <2>5. ResultsAreReal'
    BY <1>new, <1>old DEF ResultInv, ResultsAreReal, TypeOK, Terminal,
      Outcome
  <2> QED BY <2>1, <2>2, <2>3, <2>4, <2>5 DEF ResultInv
<1>5. HeadOfLine'
  BY <1>new, <1>old, <1>later DEF HeadOfLine, SameLane, TypeOK, Task
<1> QED BY <1>1, <1>2, <1>3, <1>4, <1>5

(* Binding hands over the waiting tasks of a machine no lane of which was open. *)
(* linkMachineToNode addresses the waiting tasks of an unbound machine, of *)
(* which none was offered before, and moves no task that has a node.       *)
LEMMA LinkMachineKeeps ==
  ASSUME NEW n \in Nodes, IInv, LinkMachine(n)
  PROVE  IInv'
<1> USE DEF IInv, LinkMachine, Activated
<1>moved. \A t \in Task :
        \/ /\ status[t] = "waiting_agent" /\ machine[t] = Home[n]
           /\ node[t] = NoNode /\ node'[t] = n
           /\ status'[t] = "pending" /\ ran[t] = {}
        \/ /\ ~ (status[t] = "waiting_agent" /\ machine[t] = Home[n])
           /\ node'[t] = node[t] /\ status'[t] = status[t]
  BY DEF TypeOK, Task, QueueInv, Addressed, ResultInv, RanIsAddressed
<1>closed. \A t, u \in Task :
        status[t] = "waiting_agent" /\ machine[t] = Home[n] /\ machine[u] = machine[t]
          => node[u] = NoNode
  BY DEF TypeOK, Task, QueueInv, OfferedMeansBound, WaitingMeansUnbound
<1>batch. \A x \in Nodes : \A t \in batch[x] : t \in Task /\ node[t] # NoNode /\ node'[t] = node[t]
  BY <1>moved, NoNodeAssumption DEF TypeOK, BatchInv, BatchAddressed
<1>1. TypeOK'
  BY DEF TypeOK, Task, Kind, Outcome, Terminal
<1>2. QueueInv'
  <2>1. Created'
    BY <1>moved DEF QueueInv, Created
  <2>2. Addressed'
    BY <1>moved, NoNodeAssumption DEF QueueInv, Addressed
  <2>3. OfferedMeansBound'
    BY <1>moved, NoNodeAssumption, HomeAssumption DEF QueueInv,
      OfferedMeansBound, TypeOK
  <2>4. WaitingMeansUnbound'
    BY <1>moved DEF QueueInv, WaitingMeansUnbound, TypeOK
  <2> QED BY <2>1, <2>2, <2>3, <2>4 DEF QueueInv
<1>3. BatchInv'
  <2>1. BatchAddressed'
    BY <1>batch DEF BatchInv, BatchAddressed
  <2>2. BatchClosed'
    BY <1>batch, <1>moved, <1>closed DEF BatchInv, BatchClosed, SameLane,
      Terminal, Outcome
  <2>3. BatchAhead'
    BY <1>batch, <1>moved, <1>closed DEF BatchInv, BatchAhead, SameLane
  <2> QED BY <2>1, <2>2, <2>3 DEF BatchInv
<1>4. ResultInv'
  <2>1. HeldIsReal'
    BY DEF ResultInv, HeldIsReal, IsNext
  <2>2. LateIsReal'
    BY <1>moved DEF ResultInv, LateIsReal
  <2>3. RanIsAddressed'
    BY <1>moved, NoNodeAssumption DEF ResultInv, RanIsAddressed
  <2>4. RunsWhereAddressed'
    BY <1>moved DEF ResultInv, RunsWhereAddressed, TypeOK
  <2>5. ResultsAreReal'
    BY <1>moved DEF ResultInv, ResultsAreReal, Terminal, Outcome
  <2> QED BY <2>1, <2>2, <2>3, <2>4, <2>5 DEF ResultInv
<1>5. HeadOfLine'
  BY <1>moved, <1>closed DEF HeadOfLine, SameLane, Terminal, Outcome
<1> QED BY <1>1, <1>2, <1>3, <1>4, <1>5

(* A poll fetches every pending task of the node, so the batch is closed;  *)
(* and what is behind a pending task was not begun, by HeadOfLine.         *)
LEMMA PollKeeps ==
  ASSUME NEW n \in Nodes, IInv, Poll(n)
  PROVE  IInv'
<1> USE DEF IInv, Poll, TasksForNode, controller
<1>1. TypeOK'
  BY DEF TypeOK, Task, Kind, Outcome, Terminal
<1>2. QueueInv'
  BY DEF TypeOK, Task, Kind, Outcome, Terminal, QueueInv, Created, Addressed,
    OfferedMeansBound, WaitingMeansUnbound
<1>3. BatchInv'
  <2>1. BatchAddressed'
    BY DEF BatchInv, BatchAddressed, TypeOK
  <2>2. BatchClosed'
    BY NoNodeAssumption DEF BatchInv, BatchClosed, QueueInv, Addressed,
      SameLane, TypeOK, Terminal, Outcome
  <2>3. BatchAhead'
    BY DEF BatchInv, BatchAhead, HeadOfLine, SameLane, TypeOK, Terminal,
      Outcome
  <2> QED BY <2>1, <2>2, <2>3 DEF BatchInv
<1>4. ResultInv'
  <2>1. HeldIsReal'
    BY DEF ResultInv, HeldIsReal, IsNext, TypeOK
  <2>2. LateIsReal'
    BY DEF ResultInv, LateIsReal
  <2>3. RanIsAddressed'
    BY DEF ResultInv, RanIsAddressed
  <2>4. RunsWhereAddressed'
    BY DEF ResultInv, RunsWhereAddressed
  <2>5. ResultsAreReal'
    BY DEF ResultInv, ResultsAreReal
  <2> QED BY <2>1, <2>2, <2>3, <2>4, <2>5 DEF ResultInv
<1>5. HeadOfLine'
  BY DEF TypeOK, Task, Kind, Outcome, Terminal, HeadOfLine, SameLane
<1> QED BY <1>1, <1>2, <1>3, <1>4, <1>5

(* The agent executes the first task of its batch only.                    *)
LEMMA ExecuteKeeps ==
  ASSUME NEW n \in Nodes, NEW t \in Task, NEW o \in Outcome, IInv, Execute(n, t, o)
  PROVE  IInv'
<1> USE DEF IInv, Execute, controller
<1>ran. ran' = [ran EXCEPT ![t] = @ \cup {<<n, o>>}]
  OBVIOUS
<1>next. /\ t \in batch[n] /\ node[t] = n
         /\ \A u \in batch[n] : ~ (u < t)
  BY DEF IsNext, BatchInv, BatchAddressed, TypeOK, Task
<1>1. TypeOK'
  BY DEF TypeOK, Task, Kind, Outcome, Terminal
<1>2. QueueInv'
  BY DEF TypeOK, Task, Kind, Outcome, Terminal, QueueInv, Created, Addressed,
    OfferedMeansBound, WaitingMeansUnbound
<1>3. BatchInv'
  <2>1. BatchAddressed'
    BY DEF BatchInv, BatchAddressed, TypeOK
  <2>2. BatchClosed'
    BY DEF BatchInv, BatchClosed, SameLane, TypeOK
  <2>3. BatchAhead'
    BY <1>next, <1>ran DEF BatchInv, BatchAhead, BatchAddressed, BatchClosed,
      SameLane, TypeOK, Task
  <2> QED BY <2>1, <2>2, <2>3 DEF BatchInv
<1>4. ResultInv'
  <2>1. HeldIsReal'
    BY <1>ran, <1>next DEF ResultInv, HeldIsReal, IsNext, TypeOK, Task,
      Outcome
  <2>2. LateIsReal'
    BY <1>ran DEF ResultInv, LateIsReal, TypeOK
  <2>3. RanIsAddressed'
    BY <1>ran, <1>next, NoNodeAssumption DEF ResultInv, RanIsAddressed,
      TypeOK
  <2>4. RunsWhereAddressed'
    BY <1>ran, <1>next DEF ResultInv, RunsWhereAddressed, TypeOK
  <2>5. ResultsAreReal'
    BY <1>ran DEF ResultInv, ResultsAreReal, TypeOK
  <2> QED BY <2>1, <2>2, <2>3, <2>4, <2>5 DEF ResultInv
<1>5. HeadOfLine'
  BY <1>ran, <1>next DEF HeadOfLine, BatchInv, BatchClosed, SameLane, TypeOK,
    Task
<1> QED BY <1>1, <1>2, <1>3, <1>4, <1>5

(* Dying inside an execution counts as having begun it.                    *)
LEMMA KilledExecutingKeeps ==
  ASSUME NEW n \in Nodes, NEW t \in Task, IInv, KilledExecuting(n, t)
  PROVE  IInv'
<1> USE DEF IInv, KilledExecuting, controller
<1>ran. ran' = [ran EXCEPT ![t] = @ \cup {<<n, "killed">>}]
  OBVIOUS
<1>next. /\ t \in batch[n] /\ node[t] = n
         /\ \A u \in batch[n] : ~ (u < t)
  BY DEF IsNext, BatchInv, BatchAddressed, TypeOK, Task
<1>1. TypeOK'
  BY DEF TypeOK, Task, Kind, Outcome, Terminal
<1>2. QueueInv'
  BY DEF TypeOK, Task, Kind, Outcome, Terminal, QueueInv, Created, Addressed,
    OfferedMeansBound, WaitingMeansUnbound
<1>3. BatchInv'
  <2>1. BatchAddressed'
    BY DEF BatchInv, BatchAddressed, TypeOK
  <2>2. BatchClosed'
    BY DEF BatchInv, BatchClosed, SameLane, TypeOK
  <2>3. BatchAhead'
    BY <1>next, <1>ran DEF BatchInv, BatchAhead, BatchAddressed, BatchClosed,
      SameLane, TypeOK, Task
  <2> QED BY <2>1, <2>2, <2>3 DEF BatchInv
<1>4. ResultInv'
  <2>1. HeldIsReal'
    BY <1>ran, <1>next DEF ResultInv, HeldIsReal, IsNext, TypeOK, Task,
      Outcome
  <2>2. LateIsReal'
    BY <1>ran DEF ResultInv, LateIsReal, TypeOK
  <2>3. RanIsAddressed'
    BY <1>ran, <1>next, NoNodeAssumption DEF ResultInv, RanIsAddressed,
      TypeOK
  <2>4. RunsWhereAddressed'
    BY <1>ran, <1>next DEF ResultInv, RunsWhereAddressed, TypeOK
  <2>5. ResultsAreReal'
    BY <1>ran DEF ResultInv, ResultsAreReal, TypeOK
  <2> QED BY <2>1, <2>2, <2>3, <2>4, <2>5 DEF ResultInv
<1>5. HeadOfLine'
  BY <1>ran, <1>next DEF HeadOfLine, BatchInv, BatchClosed, SameLane, TypeOK,
    Task
<1> QED BY <1>1, <1>2, <1>3, <1>4, <1>5

(* A result that is taken finishes the first task and the batch goes on.   *)
LEMMA SubmitTaskResultKeeps ==
  ASSUME NEW n \in Nodes, NEW t \in Task, IInv, SubmitTaskResult(n, t)
  PROVE  IInv'
<1> USE DEF IInv, SubmitTaskResult, UpdateTaskResult
<1>offered. status[t] \notin {"none", "waiting_agent"}
  BY NoNodeAssumption DEF IsNext, BatchInv, BatchAddressed, QueueInv,
    Addressed, TypeOK
<1>1. TypeOK'
  BY DEF TypeOK, Task, Kind, Outcome, Terminal
<1>2. QueueInv'
  <2>1. Created'
    BY <1>offered DEF QueueInv, Created, TypeOK, Task, Outcome
  <2>2. Addressed'
    BY <1>offered DEF QueueInv, Addressed, TypeOK, Outcome
  <2>3. OfferedMeansBound'
    BY DEF QueueInv, OfferedMeansBound, TypeOK
  <2>4. WaitingMeansUnbound'
    BY <1>offered DEF QueueInv, WaitingMeansUnbound, TypeOK, Outcome
  <2> QED BY <2>1, <2>2, <2>3, <2>4 DEF QueueInv
<1>3. BatchInv'
  BY DEF TypeOK, Task, Kind, Outcome, Terminal, BatchInv, BatchAddressed,
    BatchClosed, BatchAhead, SameLane
<1>4. ResultInv'
  BY DEF TypeOK, Task, IsNext, ResultInv, HeldIsReal, LateIsReal,
    RanIsAddressed, RunsWhereAddressed, ResultsAreReal
<1>5. HeadOfLine'
  BY DEF TypeOK, Task, Kind, Outcome, Terminal, HeadOfLine, SameLane
<1> QED BY <1>1, <1>2, <1>3, <1>4, <1>5

(* A post that fails drops the batch; its result is a real one.            *)
LEMMA SubmitFailsKeeps ==
  ASSUME NEW n \in Nodes, NEW t \in Task, IInv, SubmitFails(n, t)
  PROVE  IInv'
<1> USE DEF IInv, SubmitFails, controller
<1>1. TypeOK'
  BY DEF TypeOK, Task, Kind, Outcome, Terminal
<1>2. QueueInv'
  BY DEF TypeOK, Task, Kind, Outcome, Terminal, QueueInv, Created, Addressed,
    OfferedMeansBound, WaitingMeansUnbound
<1>3. BatchInv'
  BY DEF TypeOK, Task, Kind, Outcome, Terminal, BatchInv, BatchAddressed,
    BatchClosed, BatchAhead, SameLane
<1>4. ResultInv'
  BY DEF TypeOK, Task, IsNext, ResultInv, HeldIsReal, LateIsReal,
    RanIsAddressed, RunsWhereAddressed, ResultsAreReal
<1>5. HeadOfLine'
  BY DEF TypeOK, Task, Kind, Outcome, Terminal, HeadOfLine, SameLane
<1> QED BY <1>1, <1>2, <1>3, <1>4, <1>5

(* A late result is a real one, and leaves a terminal status terminal.     *)
LEMMA LateResultKeeps ==
  ASSUME NEW t \in Task, NEW o \in Outcome, IInv, LateResult(t, o)
  PROVE  IInv'
<1> USE DEF IInv, LateResult, UpdateTaskResult, agents
<1>offered. status[t] \notin {"none", "waiting_agent"}
  BY DEF ResultInv, LateIsReal, RanIsAddressed, QueueInv, Addressed
<1>1. TypeOK'
  BY DEF TypeOK, Task, Kind, Outcome, Terminal
<1>2. QueueInv'
  <2>1. Created'
    BY <1>offered DEF QueueInv, Created, TypeOK, Task, Outcome
  <2>2. Addressed'
    BY <1>offered DEF QueueInv, Addressed, TypeOK, Outcome
  <2>3. OfferedMeansBound'
    BY DEF QueueInv, OfferedMeansBound, TypeOK
  <2>4. WaitingMeansUnbound'
    BY <1>offered DEF QueueInv, WaitingMeansUnbound, TypeOK, Outcome
  <2> QED BY <2>1, <2>2, <2>3, <2>4 DEF QueueInv
<1>3. BatchInv'
  BY DEF TypeOK, Task, Kind, Outcome, Terminal, BatchInv, BatchAddressed,
    BatchClosed, BatchAhead, SameLane
<1>4. ResultInv'
  BY DEF TypeOK, Task, IsNext, ResultInv, HeldIsReal, LateIsReal,
    RanIsAddressed, RunsWhereAddressed, ResultsAreReal
<1>5. HeadOfLine'
  BY DEF TypeOK, Task, Kind, Outcome, Terminal, HeadOfLine, SameLane
<1> QED BY <1>1, <1>2, <1>3, <1>4, <1>5

(* A crash drops the batch; the post under way is a real result.           *)
LEMMA CrashKeeps ==
  ASSUME NEW n \in Nodes, IInv, Crash(n)
  PROVE  IInv'
<1> USE DEF IInv, Crash, controller
<1>1. TypeOK'
  BY DEF TypeOK, Task, Kind, Outcome, Terminal
<1>2. QueueInv'
  BY DEF TypeOK, Task, Kind, Outcome, Terminal, QueueInv, Created, Addressed,
    OfferedMeansBound, WaitingMeansUnbound
<1>3. BatchInv'
  BY DEF TypeOK, Task, Kind, Outcome, Terminal, BatchInv, BatchAddressed,
    BatchClosed, BatchAhead, SameLane
<1>4. ResultInv'
  BY DEF TypeOK, Task, IsNext, ResultInv, HeldIsReal, LateIsReal,
    RanIsAddressed, RunsWhereAddressed, ResultsAreReal
<1>5. HeadOfLine'
  BY DEF TypeOK, Task, Kind, Outcome, Terminal, HeadOfLine, SameLane
<1> QED BY <1>1, <1>2, <1>3, <1>4, <1>5

-----------------------------------------------------------------------------
(* The empty store satisfies the invariant.                                *)
LEMMA InitEstablishes == Init => IInv
  BY NoNodeAssumption, MaxTasksAssumption
  DEF Init, IInv, TypeOK, Task, Kind, Outcome, Terminal,
    QueueInv, Created, Addressed, OfferedMeansBound, WaitingMeansUnbound,
    BatchInv, BatchAddressed, BatchClosed, BatchAhead,
    ResultInv, HeldIsReal, LateIsReal, RanIsAddressed, RunsWhereAddressed,
    ResultsAreReal, HeadOfLine, SameLane

(* The invariant is inductive.                                             *)
LEMMA NextKeeps == IInv /\ [Next]_vars => IInv'
<1> SUFFICES ASSUME IInv, [Next]_vars PROVE IInv'
  OBVIOUS
<1>1. CASE Next
  BY <1>1, EnqueueForMachineKeeps, EnqueueForNodeKeeps, StartKeeps, HeartbeatKeeps,
     LinkMachineKeeps, PollKeeps, ExecuteKeeps, SubmitTaskResultKeeps,
     SubmitFailsKeeps, LateResultKeeps, CrashKeeps, KilledExecutingKeeps,
     RetireKeeps
  DEF Next
<1>2. CASE UNCHANGED vars
  BY <1>2
  DEF vars, controller, agents, IInv, TypeOK, QueueInv, Created, Addressed,
    OfferedMeansBound, WaitingMeansUnbound, BatchInv, BatchAddressed, BatchClosed,
    BatchAhead, ResultInv, HeldIsReal, LateIsReal, RanIsAddressed,
    RunsWhereAddressed, ResultsAreReal, HeadOfLine, SameLane, IsNext
<1> QED BY <1>1, <1>2

(* The inductive invariant holds in every reachable state. *)
THEOREM Invariance == Spec => []IInv
  BY InitEstablishes, NextKeeps, PTL DEF Spec

(* The variables keep their types: no store method or agent step leaves a  *)
(* task with a status, node or machine outside the ones named.             *)
THEOREM TypeCorrect == Spec => []TypeOK
  BY Invariance, PTL DEF IInv

(* No task is left waiting for a machine that is bound to a node.          *)
THEOREM NoTaskLeftWaiting == Spec => []WaitingMeansUnbound
  BY Invariance, PTL DEF IInv, QueueInv

(* A task is only ever executed on the node it is addressed to.            *)
THEOREM OnlyTheAddresseeRuns == Spec => []RunsWhereAddressed
  BY Invariance, PTL DEF IInv, ResultInv

(* A recorded result is one an execution of that task really had, however  *)
(* posts are lost, delayed or overtaken.                                   *)
THEOREM NoInventedResult == Spec => []ResultsAreReal
  BY Invariance, PTL DEF IInv, ResultInv

(* Within a lane a task is begun only when all before it have a result.    *)
THEOREM LanesAreSerial == Spec => []HeadOfLine
  BY Invariance, PTL DEF IInv

(* No retry executes a task again once a later one of its lane was begun.  *)
LEMMA StepNeverBackwards ==
  ASSUME IInv, Next, NEW t \in Task, NEW u \in Task,
         t < u, SameLane(t, u), ran[u] # {}
  PROVE  ran'[t] = ran[t]
<1>1. ASSUME NEW n \in Nodes PROVE t \notin batch[n]
  BY <1>1 DEF IInv, BatchInv, BatchAhead
<1>2. ASSUME NEW n \in Nodes, NEW v \in Task, NEW o \in Outcome, Execute(n, v, o)
      PROVE  ran'[t] = ran[t]
  BY <1>1, <1>2 DEF Execute, IsNext, IInv, TypeOK
<1>3. ASSUME NEW n \in Nodes, NEW v \in Task, KilledExecuting(n, v)
      PROVE  ran'[t] = ran[t]
  BY <1>1, <1>3 DEF KilledExecuting, IsNext, IInv, TypeOK
<1> QED
  BY <1>2, <1>3
  DEF Next, EnqueueForMachine, EnqueueForNode, Start, Heartbeat, LinkMachine, Poll,
    SubmitTaskResult, SubmitFails, LateResult, Crash, Retire

(* Hence no lane ever goes back.                                           *)
THEOREM LanesNeverGoBack == Spec => NeverBackwards
<1>1. IInv /\ [Next]_vars =>
        [\A t, u \in Task :
           t < u /\ SameLane(t, u) /\ ran[u] # {} => ran'[t] = ran[t]]_vars
  BY StepNeverBackwards DEF vars
<1> QED BY Invariance, <1>1, PTL DEF Spec, NeverBackwards

(* A task with a result is never handed out again.                         *)
THEOREM FinishedIsFinal == Spec => TerminalStays
<1>1. ASSUME IInv, Next, NEW t \in Task, status[t] \in Terminal
      PROVE  status'[t] \in Terminal
  <2> USE <1>1 DEF IInv, TypeOK
  <2>1. status[t] \notin {"none", "waiting_agent"} /\ (last < MaxTasks => t # last + 1)
    BY MaxTasksAssumption DEF Terminal, Outcome, QueueInv, Created, Task
  <2>2. ASSUME NEW m \in Machines, EnqueueForMachine(m) PROVE status'[t] \in Terminal
    BY <2>1, <2>2 DEF EnqueueForMachine
  <2>3. ASSUME NEW n \in Nodes, NEW k \in Kind, EnqueueForNode(n, k)
        PROVE  status'[t] \in Terminal
    BY <2>1, <2>3 DEF EnqueueForNode
  <2>4. ASSUME NEW n \in Nodes, LinkMachine(n) PROVE status'[t] \in Terminal
    BY <2>1, <2>4 DEF LinkMachine, Activated
  <2>5. ASSUME NEW u \in Task, NEW o \in Outcome, UpdateTaskResult(u, o)
        PROVE  status'[t] \in Terminal
    BY <2>5 DEF UpdateTaskResult, Terminal
  <2>6. ASSUME NEW n \in Nodes, NEW u \in Task, SubmitTaskResult(n, u)
        PROVE  status'[t] \in Terminal
    <3>1. held[n] \in Outcome
      BY <2>6 DEF SubmitTaskResult
    <3> QED BY <2>5, <2>6, <3>1 DEF SubmitTaskResult
  <2>7. ASSUME NEW u \in Task, NEW o \in Outcome, LateResult(u, o)
        PROVE  status'[t] \in Terminal
    BY <2>5, <2>7 DEF LateResult
  <2> QED
    BY <2>2, <2>3, <2>4, <2>6, <2>7
    DEF Next, Start, Heartbeat, Poll, Execute, SubmitFails, Crash, KilledExecuting,
      Retire, controller
<1>2. IInv /\ [Next]_vars =>
        [\A t \in Task : status[t] \in Terminal => status'[t] \in Terminal]_vars
  BY <1>1
<1> QED BY Invariance, <1>2, PTL DEF Spec, TerminalStays

-----------------------------------------------------------------------------
(* The task queue implements TaskDelivery: every step of TaskQueue offers, *)
(* runs or records a task, or changes nothing TaskDelivery can see.        *)


(* The refinement mapping, by name. *)
laneOf == [t \in Task |-> LaneOf(node[t], machine[t])]
outcomesOf == [t \in Task |-> {r[2] : r \in ran[t]}]
resultOf == [t \in Task |-> IF status[t] \in Terminal THEN status[t] ELSE "none"]

mapping == <<laneOf, outcomesOf, resultOf>>

(* Steps that leave nodes, results and executions alone are stutters.      *)
LEMMA Stutters ==
  ASSUME UNCHANGED <<node, machine, status, ran>>
  PROVE  UNCHANGED mapping
  BY DEF mapping, laneOf, outcomesOf, resultOf, LaneOf

(* LaneOf tells lanes apart as SameLane does.                              *)
LEMMA Lanes ==
  ASSUME NEW t \in Task, NEW u \in Task, node[t] # NoNode
  PROVE  /\ laneOf[t] # <<>> /\ laneOf[t] = <<node[t], machine[t]>>
         /\ laneOf[u] = laneOf[t] <=> SameLane(t, u)
  BY DEF laneOf, LaneOf, SameLane

(* Enqueuing for a bound machine, or for a node, offers the new task.      *)
LEMMA OffersNew ==
  ASSUME IInv, last < MaxTasks, NEW n \in Nodes,
         NEW m \in Machines \cup {NoMachine},
         node' = [node EXCEPT ![last + 1] = n],
         machine' = [machine EXCEPT ![last + 1] = m],
         status' = [status EXCEPT ![last + 1] = "pending"],
         UNCHANGED ran
  PROVE  Delivery!Offer({last + 1}, <<n, m>>)
<1>1. /\ last + 1 \in Task /\ node[last + 1] = NoNode
      /\ status[last + 1] = "none"
  BY MaxTasksAssumption DEF IInv, TypeOK, Task, QueueInv, Created, Addressed
<1>2. \A u \in Task : laneOf[u] = <<n, m>> => u < last + 1
  BY DEF IInv, TypeOK, Task, QueueInv, Created, Addressed, laneOf, LaneOf
<1>3. laneOf' = [t \in Task |-> IF t \in {last + 1} THEN <<n, m>> ELSE laneOf[t]]
  BY <1>1, NoNodeAssumption DEF laneOf, LaneOf, IInv, TypeOK
<1>4. UNCHANGED <<outcomesOf, resultOf>>
  BY <1>1 DEF outcomesOf, resultOf, IInv, TypeOK, Terminal, Outcome
<1>5. laneOf[last + 1] = <<>>
  BY <1>1 DEF laneOf, LaneOf
<1> QED
  BY <1>2, <1>3, <1>4, <1>5 DEF Delivery!Offer, laneOf, outcomesOf, resultOf

(* Linking a machine offers, together, the tasks that waited for it; its   *)
(* lane on the node is empty until then, for a bound machine keeps none    *)
(* waiting and an unbound one was never offered anything.                  *)
LEMMA LinkOffers ==
  ASSUME IInv, NEW n \in Nodes, LinkMachine(n)
  PROVE  [Delivery!Next]_mapping
<1> DEFINE m == Home[n]
           S == {t \in Task : status[t] = "waiting_agent" /\ machine[t] = m}
<1>1. CASE S = {}
  <2>1. UNCHANGED <<node, machine, status, ran>>
    BY <1>1 DEF LinkMachine, Activated, IInv, TypeOK
  <2> QED BY <2>1, Stutters
<1>2. CASE S # {}
  <2>1. m \in Machines /\ machineNode[m] = NoNode
    BY <1>2 DEF IInv, TypeOK, QueueInv, WaitingMeansUnbound
  <2>2. \A u \in Task : laneOf[u] # <<n, m>>
    BY <2>1, NoMachineAssumption
    DEF laneOf, LaneOf, IInv, QueueInv, OfferedMeansBound
  <2>3. \A t \in S : laneOf[t] = <<>>
    BY DEF laneOf, LaneOf, IInv, QueueInv, Addressed
  <2>4. laneOf' = [t \in Task |-> IF t \in S THEN <<n, m>> ELSE laneOf[t]]
    BY NoNodeAssumption DEF LinkMachine, Activated, laneOf, LaneOf
  <2>5. UNCHANGED <<outcomesOf, resultOf>>
    BY DEF LinkMachine, Activated, outcomesOf, resultOf, Terminal, Outcome
  <2>6. Delivery!Offer(S, <<n, m>>)
    BY <1>2, <2>2, <2>3, <2>4, <2>5 DEF Delivery!Offer, laneOf, outcomesOf, resultOf
  <2>7. S \in SUBSET Task /\ <<n, m>> \in Nodes \X (Machines \cup {NoMachine})
    BY <2>1
  <2> QED BY <2>6, <2>7 DEF Delivery!Next
<1> QED BY <1>1, <1>2

(* Executing the first task of a batch, to an outcome or to the agent's    *)
(* death, runs it: what is ahead of it in its lane has a result, because a *)
(* batch is closed, and nothing behind it was begun.                       *)
LEMMA Runs ==
  ASSUME IInv, NEW n \in Nodes, NEW t \in Task, NEW o \in Outcome \cup {"killed"},
         IsNext(n, t), ran' = [ran EXCEPT ![t] = @ \cup {<<n, o>>}],
         UNCHANGED <<node, machine, status>>
  PROVE  Delivery!Next
<1>1. node[t] = n /\ node[t] # NoNode
  BY NoNodeAssumption DEF IsNext, IInv, BatchInv, BatchAddressed
<1>2. ASSUME NEW u \in Task, SameLane(t, u), u < t
      PROVE  resultOf[u] # "none"
  <2>1. status[u] \in Terminal
    BY <1>2 DEF IsNext, IInv, BatchInv, BatchClosed, SameLane, Task
  <2> QED BY <2>1 DEF resultOf, Terminal, Outcome
<1>3. ASSUME NEW u \in Task, SameLane(t, u), u > t
      PROVE  outcomesOf[u] = {}
  <2>1. ran[u] = {}
    BY <1>3 DEF IsNext, IInv, BatchInv, BatchAhead, Task
  <2> QED BY <2>1 DEF outcomesOf
<1>4. outcomesOf' = [outcomesOf EXCEPT ![t] = @ \cup {o}]
  <2>1. \A R : {r[2] : r \in R \cup {<<n, o>>}} = {r[2] : r \in R} \cup {<<n, o>>[2]}
    BY Zenon
  <2>2. <<n, o>>[2] = o
    OBVIOUS
  <2> QED BY <2>1, <2>2 DEF outcomesOf, IInv, TypeOK
<1>5. UNCHANGED <<laneOf, resultOf>>
  BY DEF laneOf, resultOf
<1>6. Delivery!Run(t, o)
  BY <1>1, <1>2, <1>3, <1>4, <1>5, Lanes
  DEF Delivery!Run, laneOf, outcomesOf, resultOf
<1> QED BY <1>6 DEF Delivery!Next

(* Recording a result an execution really had is Record.                   *)
LEMMA Records ==
  ASSUME IInv, NEW t \in Task, NEW o \in Outcome, <<node[t], o>> \in ran[t],
         UpdateTaskResult(t, o), UNCHANGED <<node, machine, ran>>
  PROVE  Delivery!Next
<1>1. o \in outcomesOf[t]
  BY DEF outcomesOf
<1>2. resultOf' = [resultOf EXCEPT ![t] = o]
  BY DEF resultOf, UpdateTaskResult, IInv, TypeOK, Terminal
<1>3. UNCHANGED <<laneOf, outcomesOf>>
  BY DEF laneOf, outcomesOf
<1>4. Delivery!Record(t, o)
  BY <1>1, <1>2, <1>3 DEF Delivery!Record, laneOf, outcomesOf, resultOf
<1> QED BY <1>4 DEF Delivery!Next

(* A task enqueued for a machine is offered, or waits unseen.              *)
LEMMA EnqueuesForMachine ==
  ASSUME IInv, NEW m \in Machines, EnqueueForMachine(m)
  PROVE  [Delivery!Next]_mapping
<1>1. /\ last + 1 \in Task /\ node[last + 1] = NoNode
      /\ status[last + 1] = "none"
  BY MaxTasksAssumption
  DEF EnqueueForMachine, IInv, TypeOK, Task, QueueInv, Created, Addressed
<1>2. CASE machineNode[m] = NoNode
  <2>1. UNCHANGED laneOf
    BY <1>1, <1>2 DEF EnqueueForMachine, laneOf, LaneOf, IInv, TypeOK
  <2>2. UNCHANGED <<outcomesOf, resultOf>>
    BY <1>1 DEF EnqueueForMachine, outcomesOf, resultOf, IInv, TypeOK, Terminal, Outcome
  <2> QED BY <2>1, <2>2 DEF mapping
<1>3. CASE machineNode[m] # NoNode
  <2>1. /\ machineNode[m] \in Nodes
        /\ {last + 1} \in SUBSET Task
        /\ <<machineNode[m], m>> \in Nodes \X (Machines \cup {NoMachine})
    BY <1>1, <1>3 DEF IInv, TypeOK
  <2>2. Delivery!Offer({last + 1}, <<machineNode[m], m>>)
    BY <1>3, <2>1, OffersNew DEF EnqueueForMachine
  <2> QED BY <2>1, <2>2 DEF Delivery!Next
<1> QED BY <1>2, <1>3

(* A task enqueued for a node is offered at once.                          *)
LEMMA EnqueuesForNode ==
  ASSUME IInv, NEW n \in Nodes, NEW k \in Kind, EnqueueForNode(n, k)
  PROVE  Delivery!Next
<1>1. /\ last + 1 \in Task /\ machine[last + 1] = NoMachine
  BY MaxTasksAssumption
  DEF EnqueueForNode, IInv, TypeOK, Task, QueueInv, Created, Addressed
<1>2. machine' = [machine EXCEPT ![last + 1] = NoMachine]
  BY <1>1 DEF EnqueueForNode, IInv, TypeOK
<1>3. Delivery!Offer({last + 1}, <<n, NoMachine>>)
  BY <1>2, OffersNew DEF EnqueueForNode
<1>4. /\ {last + 1} \in SUBSET Task
      /\ <<n, NoMachine>> \in Nodes \X (Machines \cup {NoMachine})
  BY <1>1
<1> QED BY <1>3, <1>4 DEF Delivery!Next

(* Every step of the queue is a step of TaskDelivery, or a stutter.        *)
LEMMA StepRefines == IInv /\ [Next]_vars => [Delivery!Next]_mapping
<1> SUFFICES ASSUME IInv, [Next]_vars PROVE [Delivery!Next]_mapping
  OBVIOUS
<1>1. CASE UNCHANGED vars
  BY <1>1, Stutters DEF vars, controller
<1>2. ASSUME NEW n \in Nodes,
             Start(n) \/ Heartbeat(n) \/ Poll(n) \/ Crash(n) \/ Retire(n)
      PROVE  [Delivery!Next]_mapping
  BY <1>2, Stutters DEF Start, Heartbeat, Poll, Crash, Retire, controller
<1>3. ASSUME NEW n \in Nodes, NEW t \in Task, SubmitFails(n, t)
      PROVE  [Delivery!Next]_mapping
  BY <1>3, Stutters DEF SubmitFails, controller
<1>4. ASSUME NEW n \in Nodes, NEW t \in Task, NEW o \in Outcome, Execute(n, t, o)
      PROVE  [Delivery!Next]_mapping
  BY <1>4, Runs DEF Execute, controller
<1>5. ASSUME NEW n \in Nodes, NEW t \in Task, KilledExecuting(n, t)
      PROVE  [Delivery!Next]_mapping
  BY <1>5, Runs DEF KilledExecuting, controller
<1>6. ASSUME NEW n \in Nodes, NEW t \in Task, SubmitTaskResult(n, t)
      PROVE  [Delivery!Next]_mapping
  <2>1. held[n] \in Outcome /\ <<n, held[n]>> \in ran[t] /\ node[t] = n
    BY <1>6
    DEF SubmitTaskResult, IsNext, IInv, TypeOK, ResultInv, HeldIsReal, BatchInv,
      BatchAddressed
  <2> QED BY <1>6, <2>1, Records DEF SubmitTaskResult
<1>7. ASSUME NEW t \in Task, NEW o \in Outcome, LateResult(t, o)
      PROVE  [Delivery!Next]_mapping
  BY <1>7, Records DEF LateResult, IInv, ResultInv, LateIsReal
<1> QED
  BY <1>1, <1>2, <1>3, <1>4, <1>5, <1>6, <1>7, LinkOffers, EnqueuesForMachine,
     EnqueuesForNode
  DEF Next

(* The task queue implements TaskDelivery: whatever is crashed, lost, late *)
(* or re-bound, tasks are offered once, run in order within their lane and *)
(* recorded as a run of theirs came out.                                   *)
THEOREM QueueDelivers == Spec => Delivers
<1>1. Init => Delivery!Init
  BY DEF Init, Delivery!Init, LaneOf, Terminal, Outcome
<1>2. IInv /\ [Next]_vars => [Delivery!Next]_(Delivery!vars)
  BY StepRefines DEF mapping, laneOf, outcomesOf, resultOf, Delivery!vars
<1> QED BY Invariance, <1>1, <1>2, PTL DEF Spec, Delivers, Delivery!Spec
=============================================================================
