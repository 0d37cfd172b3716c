# TLA+ models of Edge Tunnel Panel

Edge Tunnel Panel is a web panel for a few hosts ("nodes", "machines") that carry traffic for each
other.  A *controller* (Go, one process, one JSON file) answers operators, the web page and agents
over HTTP; an *agent* (Go, one process a host, run by systemd as root) fetches tasks from the
controller, executes them (nft, ip, systemctl, the `ix` command) and posts the results.  The v1 API
knows nodes, network links, forwards and policy routes; the v2 API, the one the page uses, knows
machines and *ix profiles* ("lines").

This directory holds TLA+ modules translated from that code, configurations that check them with
TLC, and theorems about them that TLAPS proves.  Paths below are relative to the repository's
`panel/` unless they begin with `src/`; `controller/internal/controller/` is shortened to
`controller/…`, `agent/internal/agent/` to `agent/…`.

## 1. The system

| component | state it keeps | operations | talks to |
|---|---|---|---|
| task queue and agent loop (`store.go`, `v2_store.go`, `agent_binding.go`; agent `tasks.go`, `client.go`, `main.go`) | `StoreFile.Tasks` in creation order; `IXMachine.NodeID`; in the agent the batch being worked on, in memory only | enqueue (v1: for a node, v2: for a machine), register and report, hand over waiting tasks, fetch, execute, post the result | everything: all that changes a host is a task |
| ix profiles (`v2_store.go`, `v2_handlers.go`; agent `ixtf_actions.go`) | `IXProfile` (status, enabled, rules, ports, code, diagnosis); on the host the line and its rules | create, import code, pause, resume, apply, sync, refresh, diagnose, delete | enqueues tasks; their results change the profile |
| two-stage forwards, v1 (`server.go`, `store.go`; agent `real_actions.go`) | `Forward` (status, two stage statuses, task ids, enabled); an nft table for each stage, on its host | apply, disable, verify, PUT, DELETE, operators' own tasks | enqueues two tasks a request; their results change the forward |
| store file (`store.go`) | `Store.data` and `store.json` | load, mutate and save | every mutation of the controller ends with it |
| several forwards on one node, v1 (agent `real_actions.go`) | on the host: a JSON file a rule, one nft file and one nft table a stage, `ip_forward`, one file and table for MSS | apply, disable, verify, reload, cleanup | run by tasks |
| node liveness (`store.go`, `server.go`, agent `main.go`, `install-agent.sh`) | `Node.LastSeenAt`, `OfflineAt`, the machine's status; the agent's process and its tickers | register, report, compute status, unregister, delete, purge | machine status shown by the page |
| task stream, SSE (`v2_handlers.go`; page `taskStream.js`, `AppContext.jsx`) | the page's pending marks and promises | open, poll the store each second, time out after 5 minutes, refresh | task queue → page |
| machine stream, WebSocket (`v2_ws.go`; page `machineStream.js`) | connection, backoff | authenticate, push every few seconds, reconnect | liveness → page |
| policy routing, PBR, v1 (`server.go`, `store.go`; agent `real_actions.go`) | `PBRPolicy` (mark, table, status, enabled); on the host table names, routes, ip rules, one nft table, a file a policy | create, create-and-apply, apply, verify, disable, PUT, DELETE | tasks |
| network links and profiles, v1 (`server.go`, `store.go`) | `NetworkProfile` (secret), `NetworkLink` (status); on each host one EasyTier service | quick apply, apply, reapply, verify, disable, delete | tasks for both ends, heartbeats of both |
| login limiter and authentication (`security_middleware.go`, `agent_binding.go`) | times of failures by address | allow, record | HTTP |
| validation, collectors, file writers, installer, pages | none, or text | — | — |

How they interact.  Operators' requests change the store and enqueue tasks; each *store method*
holds one mutex, but a *handler* calls several, so handlers interleave with each other, with
agents fetching tasks and with results.  Fetching claims nothing: a task stays `pending` until a
result arrives.  Results are recorded by task id, whoever sends them and whether or not the task
has one already, and under the same hold of the lock change the profile, forward, link or policy
the task belongs to.

What is hard:

- **Retries of what is done already.**  A post that times out drops the rest of the batch; the
  first task is fetched and executed again, while its first post may still arrive (`agent/tasks.go:153`).
- **Crashes.**  The batch lives in the agent's memory; `store.json` is truncated before it is
  written (`store.go:42`) and there is no copy.
- **A machine that moves** to another node while tasks wait or are addressed to the old one
  (`v2_store.go:225-262`).
- **Handlers in several steps** whose later steps assume that nothing happened since the earlier
  ones: `createForwardApplyTask`, `handleForwardVerify`, pause, resume, apply, sync.
- **Actions of many commands** (`agent/real_actions.go`) that stop at the first that fails and roll
  nothing back, on hosts whose files, tables and services are shared by all rules of the node.
- **Data sent as they were read**: a task carries the policy or the profile of some moments ago.
- **One loop for heartbeats and tasks**, against ages that are fixed in the controller; calls that
  were given up and arrive late.
- **State shown before it is true**: `Enabled` is written before the agent has acted.
- **Things that must eventually happen**: a waiting task is handed over, a pending one finished.

What makes each component correct: *queue* — an executed task is one of that node, results are
real, lanes keep their order through every retry, finished is final, pending finishes; *profiles,
forwards, policies, links* — once nothing is under way, what the panel shows is what the host has,
and nothing is called applied that was not; *store* — what was acknowledged survives a restart or
the store is visibly empty; *liveness* — a host that reports is shown online in the end, one that
does not is shown offline, an unregistered one stays so; *streams* — a page learns of every end of
a task it waits for.

`PROJECT.json` lists every hazard with its line and the property that covers it, or why none does.

## 2. The modules

```
TaskDelivery            what the queue promises (abstract)
   ^ implemented by     ^ extended by
TaskQueue               IXProfiles    ForwardStages        PBRPolicies          NetworkLinks
MCTaskQueue             MCIXProfiles  MCForwardStages      MCPBRPolicies        MCNetworkLinks
TaskQueueProofs         IXProfilesProofs
                                      ForwardStagesProofs  PBRPoliciesProofs    NetworkLinksProofs
                                                           (extends PBRHost)

PBRHost             what policy routing keeps on a host, and each action's effect on it
HostForwards        the forwards of one host, command by command      HostForwardsProofs
NodeLiveness        one node, its agent's loop, its record            NodeLivenessProofs
StoreFile           memory and store.json                             ControllerProofs
TaskStream          the page and the controller's loop for one        ControllerProofs
                    stream a task
```

The system is composed in layers: `TaskQueue` is shown to implement `TaskDelivery`, and the
modules of what tasks are *for* are built on `TaskDelivery`'s actions `Offer`, `Run` and `Record`
instead of on the whole queue.  What holds of a profile over `TaskDelivery` holds of it over the
queue, with all its crashes, lost posts and retries.

### TaskQueue

One controller, any number of nodes, machines and tasks.  Tasks are numbered by their position in
`StoreFile.Tasks`.  Each store method is one step (one hold of `Store.mu`).

| TLA+ | code |
|---|---|
| `status`, `node`, `machine` | `Task.Status`, `Task.NodeID`, `Payload["machine_id"]` |
| `machineNode` | `IXMachine.NodeID` |
| `pc`, `batch`, `held` | where the agent's loop is; the tasks `FetchTasks` returned and not yet finished; the `TaskResult` being posted |
| `beats` | register/report requests on their way (they may arrive after the agent died) |
| `late` | posts the agent has given up on, which the controller may still process, once, or never |
| `EnqueueForMachine`, `EnqueueForNode` | `enqueueIXTask`, `createTask` |
| `Heartbeat`, `LinkMachine` | `runOnce`; `linkMachineToNode` |
| `Poll`, `Execute`, `SubmitTaskResult`, `SubmitFails` | the body of `ProcessTasks` |
| `LateResult` | `handleAgentTaskResult` for a post nobody waits for |
| `Crash`, `KilledExecuting`, `Start`, `Retire` | exit or kill at any point, systemd's `Restart=always`, a host taken away |

`Home` (which machine a token belongs to) is a constant: `agent_binding.go` decides it from the
token alone.  Two nodes with one machine is a host that was reinstalled under another node id.
A task of kind `restart` is `restart_agent`: it kills its own agent before it can report.

### TaskDelivery

A task is offered once, in a lane; a lane runs its tasks in order, each perhaps several times, none
before those ahead have a result, none again after a later one was begun; a result is the outcome
of some run of that task.  *Not* promised, because the code does not give it: that a task runs only
once, or which run's outcome stands when several ended differently.  A lane is (node, machine):
tasks of one machine that waited are handed over together and must keep their order, but a v1
task of the same node may be older or younger than they are.

### IXProfiles

One profile, several requests handled at a time (`call[q]` is what request `q` still has to do),
the tasks' runs on the host and their results.  `SetIXProfileEnabled` / `FinishCall` are the two
halves of pause and resume; `UpdateIXProfileRules`, `GetIXProfile`, `FinishCall` the three of apply
with rules; `StartSync` and two `FinishCall` those of sync.  `ApplyIXTaskResult` is
`applyIXTaskResultLocked`.  On the host there are `up` and `hostRules`, kept by the external `ix`
command, which an administrator may also use directly (`EditOnHost`); a successful native `create`
may leave the line down, for it only writes files.  `RunAction` with a failed or killed outcome may
have done its work or not.  A run of `list_rules` prints the host's rules in a form that the
controller can read or not (`Unreadable`: text, or JSON cut off at 64 KiB by `capText`); `Parsed`
is `parseIXRules`, for which what cannot be read is an empty list, so that a sync that succeeds
with it erases the profile's rules.  The profile's machine is one bound to one node: all its tasks
are in one lane (`LaneAssumption`).

### ForwardStages

One forward, the nft tables of all hosts it may come to, several requests.  `Begin` is `getForward`
with the guards of the three handlers, `ResolveTarget` the `updateForwardResolvedTarget` of an
apply, which goes on with the forward as it is then but for the nodes read before,
`CreateStageTask` the two `createTask`, `MarkStage` the two `updateForwardTask` notes, `MarkVerify`
the write-back of the status that verify read at first, and `Abandon` a request that ends at any of
these steps (a node, the link or its address is not there, or a save failed).  A link stands for the
nodes of both stages, a rule for all else that a forward says (ports, protocol, landing host).
`UpdateForward` is PUT: it may change both and keeps the forward's status and those of its stages.
`GenericTask` is POST /api/v1/tasks: a task with any action of a forward (`apply_forward_config`,
whose table is "single", included), for any node, with any rule, and with any stage or none in its
payload.

`UpdateForwardStatus` is the whole of `updateForwardStatusForTaskLocked`: `Concerned` says which
stages a result is about, by the task's action and the stage in its payload, so that the result of
a verify task with a stage is taken for that of an apply of it; `AppliesBoth` and `VerifiesForward`
are its branches for tasks about no stage, which set both stages and `applied`, or `verified`; the
status of a disable task is not looked at.  `TablesAfter` says what the agent may leave: an apply
deletes the table before it loads the new one.

### StoreFile

Mutations and the file.  `os.WriteFile` is three steps, `OpenFile` (truncates), `WriteSome`,
`WriteAll`, with failure and kill in between; `Start` is `OpenStore`, for which a missing, an empty
and an unreadable file are a new installation, and a torn one that can be read is an exit.  A save
that fails leaves the change in memory; most handlers answer `STORE_ERROR`, but those of the
`Careless` mutations answer well: the binding of a machine by a register or report
(`server.go:442`, `:479`), the taking back of a second active policy (`:1393`) and POST of entries
and the like (`:1754-1764`).  `unsaved` remembers what was acknowledged so and is not on file since.

### TaskStream

One page and the tasks it creates.  `CreateTask` and `RecordResult` are all it needs of the queue.
`TrackTasks` is `trackTasks` (and the part of `diagnoseIxProfile` and `fetchIxProfileCode` that does
the same), with `AtBegin`, `AtEnd` and `OnError` saying which lists each kind of operation fetches.
`OpenStream`, `SendTask`, `Timeout` are `handleV2TaskStream`; `sent` is its `lastFingerprint`.
`Receive`, `EndOfStream`, `Broken` are the three ways through `streamTask`'s loop: an event, the end
of the body (nobody is told), an exception (`onError`).  A fetch is answered (`AnswerFetch`, what the
controller has then is remembered in `seen`) and at some later time replaces what the page shows
(`FinishFetch`), or fails.  A task's two ends are one status here, so a second result of a finished
task changes nothing.  `lossless` and `ordered` are history variables: no stream or fetch
was cut short, no answer of the profiles arrived behind a newer one.

### PBRHost and PBRPolicies

`PBRHost` is the landing host: `names` (rt_tables), `routes`, `rules`, `marked` (the one nft table)
and `file` (pbr.d).  `ApplyPBRPolicy(p, d, done)` is `applyPBRPolicy` cut short after `done` of its
commands; the parts are numbered in the code's order.  `DetectedTable` is the numbering of
`detectPBRRouteGroups`, which gives a group another table when an address before it comes or goes
(`AddressesChange`).  A policy's mark stands for its fwmark and its priority.

`PBRPolicies` composes it with the panel and `TaskDelivery`.  A request is a slot with the steps of
its handler, one a hold of the lock: `Begin` (or `CreateAndApply`), `CheckActive`, `UndoCreate`,
`CreateTask`, `UpdatePBRTask`.  The task carries the policy as `Begin` read it.  `FreeMark` gives the
lowest mark that no policy on the list has, so that of a deleted one is given out again.
`UpdatePBRStatus` is `updatePBRStatusForTaskLocked`; `CleanUpNode` the deletion of a node in the mode
that has the host cleaned.

### HostForwards

One host whose agent runs one task, of any rule and stage, command by command (`next`): `Preflight`,
`WriteConf`, `WriteNFT`, `EnableIPForward`, `ApplyDeletes`, `LoadNFT`, `WriteMSS`, `DeleteMSS`,
`LoadMSS` are the parts of an apply, `DisableDeletes`, `RemoveConf`, `RemoveNFT` of a disable,
`CleanTables`, `CleanFiles`, `CleanConf` of a cleanup.  Each may fail as the code lets it: `nft delete`
without effect and without consequence, the others ending the task.  `Kill` and `Reboot` may come
between any two.  Tasks come in any order, as often as one likes: that is more than `TaskDelivery`
would send, and needs no queue.  Stage "single" is the older `apply_forward_config`.  `obeyed` is a
history variable: nft never refused to delete a table that was there.

### NetworkLinks

One link, the network profiles, several requests, and on each of its two nodes the service file
(`unit`), what systemd has loaded of it, the running `service`, and whether it is started at boot.
A secret stands for a network; `Draw` numbers them as `randomSecret` is called.  `Begin`, `CreateTask`
(once an end) and `NoteTasks` are the steps of the handlers; `ApplyNetworkProfile(e, s, done)` is cut
short like a PBR apply.  `Connected` is what `easyTierDiagnosticsFromCLI` can find: both services run
with one secret.  `Heartbeat` is EasyTier's part of `CollectStatus`, `Shown` is
`decorateNetworkLinkLocked`.  History are: `of` in a task (the first task of the same request, written
when it is created), `lastMet` (how many tasks there were when the two services were last connected,
0 if never) and `once` (no task's result was recorded twice).

### NodeLiveness

One node, with ages instead of times: `seen` is the age of `LastSeenAt`, `stamp` that of the time
`handleAgentReport` took when it began.  `agent` says where `main`'s loop is; each heartbeat begins
with "collect", the commands of `CollectStatus` (`systemctl`, `easytier-cli`), which take any time,
for they run under a context without a deadline.  A call has its timeout in ticks (`waited`), and
one that is given up may be lost or arrive later (`lateRegister`, `lateReport`, with the stamp it
had).  `NotifyControllerOffline` and `UninstallAgent` are the two halves of `uninstall_agent`,
`HandleAgentUnregister` is `markNodeOffline` whenever the notice gets there.  `RunPurge` removes the
service and leaves the process, which goes on until it ends or is killed.  `MachineStatus` is that
of the machine list and the machine stream, which call `syncMachineStatusLocked`; GET
/api/v2/machines/{id} (`v2_store.go:49`) does not, and shows what one of these has stored last.
`spent` (ticks spent on polls, tasks and the collection of the status since the last heartbeat) and
`clean` (since the last answered report nothing was lost, deleted or marked) are history variables
that say when a heartbeat could be on time.

## 3. The runs

| run | instance | what it shows |
|---|---|---|
| `queue_rebind` | 2 nodes, 1 machine, 2 tasks | `TypeOK`, `WaitingMeansUnbound`, `RunsWhereAddressed`, `TerminalStays`, and `Delivers`: the queue implements `TaskDelivery` while a machine moves between hosts and agents crash |
| `queue_lane` | 1 node, 2 tasks, any number of late posts, fairness | `ResultsAreReal`, `HeadOfLine`, `NeverBackwards`; `PendingFinishes`, `WaitingIsHandedOver` |
| `ix_panel` | 2 requests, 4 tasks, 1 rule set and none | `TypeOK`; `LastSwitchWins`: however pauses and resumes interleave, the one enqueued last decides what is shown, and that is what the host does; `SyncRepairs`: a sync that comes last brings the rules it read, or none if they cannot be read |
| `forward_shown` | 2 links, 2 rules; 2 requests, 4 tasks; 1 request at a time: 2 tasks with late and repeated results, 3 with PUTs or an operator's task | `TypeOK`; `ShownIsThere`: once all is settled, a stage shown as succeeded is loaded on the host of a task that succeeded, with its rule; `AppliedIsEarned`: applied and verified only after runs that earned it |
| `forward_applied` | 1 request, 4 tasks | *violated* `BothStagesApplied` (divergence 1) |
| `store_restart` | 4 mutations, 1 careless | `StoreTypeOK`; `AllOrNothing`: a restart loses all, or nothing that was acknowledged after a save; `AckedIsOnFile`: a good answer of a careful handler means that the file is the memory |
| `stream_page` | 1 task, every operation, fairness | `TypeOK`, `RefreshedWhenDone`, `ReleasedMeansEnded`, `LearnsTheEnd` |
| `pbr_panel` | 2 policies, 2 groups, 2 marks, 2 requests, 2 tasks; 1 policy, 3 tasks | `TypeOK`; `RulesHaveRoutes`: a rule leads to a table with a route, wherever an apply stopped; `AppliedIsEarned`; `AppliedWorks`: the policy applied last, which succeeded or is shown as applied, is whole on its host |
| `pbr_routes` | as `pbr_panel` | *violated* `MarkedTakesItsLine` (divergence 2) |
| `host_tables` | 2 rules, stages "entry" and "single" | `TypeOK`; `ReportedIsDone`: an apply that reports success has done all its parts; `VerifiedIsLoaded` |
| `links_panel` | 1 request, 4 tasks, 2 secrets; 7 tasks, 1 secret | `TypeOK`; `EndsAgree`: after a whole apply both ends run one network; `ShownHasMet`; `ActiveIsFresh`: when a verification has both its answers, an active link was connected since it was asked for |
| `liveness_loop` | interval 1, stale after 3, offline after 4 ticks, fairness | `TypeOK`, `WorkingIsShown`; `GoneIsOffline`, `InstalledComesBack` |

Deadlock is not checked: every instance has a last task or mutation after which the system may
rest.

**Bounds.**

- `MaxTasks`, `Task = 1..4`.  Every property of the queue speaks of one task or of two in a lane,
  and the run has two; the theorems of section 4 state the safety ones for any number.  Four tasks
  of a profile or forward are two whole two-stage requests, or a creation, a pause, a resume and one
  more.
- `FewFaults` (`queue_rebind`): at most one given-up post at a time, and no host is retired.  Any
  number of late posts, and retirement, are in `queue_lane`; a retired host takes no step, so to the
  others it is one that stays down.
- `Orderly` (`ix_panel`, `forward_*`): each task has one outcome, results are processed in the order of
  their runs, and, for profiles, `refresh_code`, which touches neither line nor rules, is left out.
  `LastSwitchWins`, `SyncRepairs` and `ShownIsThere` speak of the state in which all has `Settled`
  without a late result, so the states cut off cannot violate them; their theorems have no bounds.
- `Apart` (`ix_panel`): once there is a pause or resume, only what happens while panel and host
  have no rules is followed, as neither touches them.
- `forward_shown` joins several families (`Followed`).  What all handlers take the forward for
  (`Stays`) is followed with two requests and four tasks, of three tasks at most one failing and of
  four none (`Orderly`), or with one request and two tasks with late and repeated results
  (`Retried`).  Where a PUT has moved the forward under its tasks or requests, or an operator's task
  names another stage than its table's or none, one request at a time is followed (`Changed`): with
  any two tasks, and with a third when the first was answered and all succeed.  A PUT changes link
  and rule together; requests are given up with one task at most, and operators create tasks while
  no request is handled (`Alone`).  After a deletion two tasks are followed, and nothing after a PUT
  that switches the forward off, at which no property looks (`Known`).  The theorems have none of
  these bounds.
- `store_restart` has four mutations, one of which is careless: enough for a good answer before and
  after a save that failed and one in between.
- `stream_page` has one task, of which all its properties speak, and all four of its fetches, two of
  each list, so that an older answer may arrive behind a newer.
- `FewRuns`, `TwoRequests`, `OneByOne`, `AppliedTwice` (`pbr_*`): a task has one outcome (a killed
  apply leaves what a failed one leaves), results come in order, and at most one task fails, after
  any of its commands.  Two tasks are two applies, or an apply and a disable, a verify or a cleanup.
  Either two requests interleave without failures, on one line group (`TwoRequests`), or one
  follows the other with failures, two groups and the first group's address coming or going
  (`OneByOne`), or one policy is applied twice and then verified, in one group or two
  (`AppliedTwice`, three tasks).  The theorems have none of these bounds.
- `FewRuns`, `OneByOne`, `TwoTasks`, `VerifiedAgain` (`links_panel`): either two requests with two
  tasks each, one after the other, at most one apply failing, hosts and services restarting at any
  time, with one heartbeat before; or two tasks at most with any heartbeats and handlers in any
  order; or (`VerifiedAgain`, seven tasks) one request after the other, an apply and a verification that
  succeed, the cleanup of one end, and a verification again, which may fail: the fewest tasks in which
  an older success could pass for a newer one.
- `host_tables` has no bound but its two rules: tasks, kills and reboots come for ever.  "entry" and
  "single" are the two kinds of stage; a landing stage is an entry stage under another name, and
  the theorems take any.  MSS has one table for all stages, which one stage with two rules shows.
- `liveness_loop`: an interval of one tick, 3 and 4 for the two ages, the smallest that the
  assumption on them (interval + 2 <= stale < offline) allows; the safety theorem takes all.
- Symmetry (of nodes, requests, policies, rules, mutations) is used in safety runs only.

**Fairness** (`FairSpec` of `TaskQueue`).  An agent's process is restarted by systemd
(`install-agent.sh`: `Restart=always`, `RestartSec=5`), hence weak fairness of `Start`.  Its two
tickers (report 30 s, poll 5 s by default) make it heartbeat and poll again and again, but a crash
or an execution may interrupt either any number of times, so those steps have strong fairness: a
step that keeps becoming possible is taken at some time.  The same holds of a registration, of an
execution and of a post: the network does not lose *every* post and a task is not cut short
*every* time.  Nothing is assumed of the operator, of crashes, of lost posts' arrival, or of a
retired host.  `PendingFinishes` excludes tasks behind a pending `restart_agent` task by name.

`FairSpec` of `TaskStream` has weak fairness of opening a stream, of sending (the loop's ticker fires
every second while the stream is open) and of receiving what was sent.  It has none of tasks' ends
or of fetches, and `Timeout` and `Broken` may come at any moment: `LearnsTheEnd` says which of its
conclusions holds.

`FairSpec` of `NodeLiveness`: time passes, and `Tick` is not enabled when the idle loop has its report
due, as a ticker that has fired is served before the next one of 30 seconds; systemd starts the
installed service (`Restart=always`).  `select` picks at random among the tickers that have fired, so
a heartbeat that keeps being due is taken at some time although polls may come first (strong
fairness).  Tasks and collections of the status end (strong, because a kill may come first): that is
an assumption on the commands they run, for the agent sets no deadline (`agent/runner.go:13-19`,
`main.go:71`), and the liveness properties rest on it.  A register or report that is tried again and
again is answered now and then: strong fairness of the three handlers, which a call given up or a
process killed may disable any number of times.  An uninstallation that sent its notice goes on (weak), and what is under way arrives or is
lost in the end.  Nothing is assumed of operators, of kills, of purges or of installations.

## 4. What is proved

`TLAPS` proves the following for every value of the constants: any nodes, machines, tokens,
requests, tasks, policies, rules, secrets and mutations, under the named `ASSUME`s of the modules
only (the values that mean "none" are no members of their sets; `MaxTasks`, tasks and outcomes are
what they are in the code).

| module | theorems | argument |
|---|---|---|
| `TaskQueueProofs` | `TypeCorrect`, `NoTaskLeftWaiting`, `OnlyTheAddresseeRuns`, `NoInventedResult`, `LanesAreSerial`, `LanesNeverGoBack`, `FinishedIsFinal` | below |
| | `QueueDelivers` (`Spec => Delivers`) | each action of the queue is an `Offer`, a `Run`, a `Record` or a stutter under the mapping of `TaskQueue` |
| `IXProfilesProofs` | `TypeCorrect`, `PanelShowsTheLine` (`LastSwitchWins`), `PanelShowsTheRules` (`SyncRepairs`) | below |
| `ForwardStagesProofs` | `TypeCorrect`, `AppliedOnlyWhenEarned`, `SettledStagesAreThere` (`ShownIsThere`) | below |
| `ControllerProofs`, of `StoreFile` | `StoreTypeCorrect`, `RestartIsAllOrNothing`, `GoodAnswersAreOnFile` | below |
| `ControllerProofs`, of `TaskStream` | `StreamTypeCorrect`, `MarksAreKept` (`ReleasedMeansEnded`), `LinesAreRefreshed` (`RefreshedWhenDone`) | below |
| `PBRPoliciesProofs` | `TypeCorrect`, `RulesAlwaysHaveRoutes`, `AppliedOnlyWhenEarned`, `AppliedLastWorks` (`AppliedWorks`) | below |
| `HostForwardsProofs` | `TypeCorrect`, `DoneIsWhole`, `VerifiedTruthfully` | below |
| `NetworkLinksProofs` | `TypeCorrect`, `ActiveOnlyOnceMet` (`ShownHasMet`), `AppliedEndsAgree` (`EndsAgree`), `StoredIsFresh` (`ActiveIsFresh`) | below |
| `NodeLivenessProofs` | `TypeCorrect`, `AnsweredIsShown` | below |

*Queue.*  The interesting invariant, `HeadOfLine`, is not inductive: that a task is not begun
before its elders are finished follows from what the agent has in its batch, and that no elder is
handed to it later follows from how tasks get their node.  The strengthening (`IInv`) says that
(1) a batch holds tasks addressed to its agent's node, together with every older task of their
lanes that has no result (`BatchClosed`), and behind no task of their lanes that was begun already
(`BatchAhead`);
(2) a result held or under way is the outcome of a run on the task's node (`HeldIsReal`,
`LateIsReal`);
(3) a task beyond `last` is untouched, a task has a node exactly when it was handed out, and once a
task of a machine has a node the machine is bound (`Created`, `Addressed`, `OfferedMeansBound`) —
so tasks that waited are handed over before any younger one of their lane is; and
(4) only tasks with a node ran.  `NeverBackwards` and `TerminalStays` follow step by step from the
same invariant.

*Delivery.*  The refinement needs of the queue exactly `HeadOfLine` and (2); the hand-over of a
set of waiting tasks is one `Offer` of the whole set, which is why `Offer` takes a set.

*Forwards.* `AppliedIsEarned` needs that a stage's *status* `succeeded` is earned (`StageInv`: a
run that was to apply or verify that stage, or both, succeeded, so that a late note or a disable
cannot invent it), and that a status read by a verify request and put back later was earned when it
was read (`SeenInv`); runs are never forgotten and a task that ran is not changed (`TaskInv`), so
it still is.  It speaks of the nodes and the rule of the tasks, for a PUT keeps the status of a
forward that it moves.  This is the proof that the write-back of `handleForwardVerify`, which does
undo other statuses, can at least not announce a forward that was never installed.

`ShownIsThere` joins two halves that know nothing of each other.  On the host (`HostInv`) the task
begun last on a table of a lane, if it was an apply or a verify and its last run succeeded, has
left the table there, an apply with its own rule.  On the panel (`PanelInv`), while results come in
order and every task fits (`Fits`), a stage shown as succeeded is so by the last result of some
lane's table.  When all is settled every task of the lane has its last outcome on record, so that
the last begun and the last recorded are one task.  What fits is a task that the panel takes for one
of the stage whose table it changes, as all those of the handlers are.  `apply_forward_config` is
none: it has both stages noted for a table of its own, which neither stage's verification looks at.

*Profiles.* `LastSwitchWins` has the same shape, but the panel's half is not a matter of results
alone: pause and resume write `Enabled` before they enqueue.  `Shown` therefore holds while no
request is between its two steps, and is restored by the step that enqueues, after which the switch
that was last is no longer so.  `Left` is the host's half; no other action touches the line but
`create`.  `SyncRepairs` (`Synced`) needs no half on the host, for what a sync found is in its task
(`content`), readable or not: while no request is about to write rules and the sync is the last
task, whatever result is recorded leaves its own, and whoever writes rules afterwards has a task to
enqueue, so that the sync is no longer the last.

*Store.* `AllOrNothing` speaks of the memory, which a restart fills from the file; so the invariant
says of the file that, when it is whole, it holds every mutation acknowledged since the controller
last began with nothing (`WholeHoldsAcked`), but for the `unsaved` ones: acknowledging a mutation
and making the file whole with it are one step, and every step that makes the file hold less
empties it first.  A save under way has a running controller and a request that waits for it
(`SavingInv`).  `AckedIsOnFile` needs no more: from a good answer to the next request neither memory
nor file changes.

*Streams.*  What may be on a stream's wire is one of four sequences (`Open`, `Closing`), and which of them
says how far the stream is (`StreamOK`): an end on the wire means that the task has ended and the
controller has closed the stream.  `ReleasedMeansEnded` follows, step by step.  While nothing was cut
short a closed stream has the end on it (`ClosedWithEnd`), so that the page cannot come to the end of
a stream without that of its task; from then on (`Refreshed`) a change to a line is shown, or asked for
after the task has ended, or answered with it, and in order no later answer takes it back.

*Policies.* That a table number is one of the host's needs a count: `DetectedTable(g)` is the
cardinality of a part of the finite set of groups (`Detected`, from `FiniteSetTheorems`).
`RulesHaveRoutes` is inductive with the types: a rule is only added by an apply that has come past
its route, and no action takes a route away.  `AppliedIsEarned` needs that a recorded result is an
outcome of its task's run and that tasks, once created, and outcomes are never forgotten; notes
only ever write `applying`.  `AppliedWorks` is again a half on the host (`Works`: an apply that
succeeded whenever it ran, with nothing but verifications begun after it, is whole) and one on the
panel (`Denied`: while results come in order, the policy of an apply that failed, with nothing but
verifications behind it, is not called applied).  `Works` needs of the queue that no task is run
again once a later one was begun.

*Forwards of a host.*  `ReportedIsDone` speaks of the end of an apply; the invariant says what is
certain at each of its commands (`Applied`: from "sysctl" on the file has the rule, from "delete" on
packets are forwarded, before "load" the table is empty if nft obeyed, after it the rule is loaded),
likewise of disable and cleanup (`Removed`), and, for `VerifiedIsLoaded`, that no table outlives the
JSON files of its rules (`Owned`) and that nothing has changed since the last result (`Resting`).

*Links.* `lastMet` remembers when both services last ran one network.  A heartbeat that says so came
after the first time, and a verification that succeeded found it after it was created
(`VerifiedIsFresh`), hence a link stored as active has met (`StoredHasMet`), hence one shown so.
For `ActiveIsFresh` the invariant says whose result the status is (`Rests`): a verification that
succeeded and behind which no result is recorded in its lane (`LastAnswer`), as long as none is
recorded twice.  Of two tasks of one verification with both answers, one is in that lane, and not
younger.  `EndsAgree` takes apart what one request created (`Paired`, `Sent`: the two tasks of an
apply are for different ends and carry one secret, whatever other requests draw meanwhile) and what
an apply that succeeded leaves (`Has`: the file, what systemd has loaded, the running service and
its start at boot all have that secret, so that neither `ServiceRestarts` nor `Reboot` brings back
another).  `TypeCorrect` goes by groups of variables, each with a lemma over the actions.

*Liveness.* `WorkingIsShown` bounds the age of the last heartbeat by what the agent did since;
`WithinInterval` says how old it may be at each point of the loop: while the agent is idle, the
ticks left until the ticker fires count too, so that age + rest <= spent + interval + 1 is kept by
a tick, which takes one from the rest and gives it to the age.  `KnownAge` adds that the stamp of a
call under way is no older than the call.

**Only model-checked.**  The liveness properties (`PendingFinishes`, `WaitingIsHandedOver`,
`LearnsTheEnd`, `GoneIsOffline`, `InstalledComesBack`), which this prover does not reach: they rest on
fairness.  Every invariant and action property of a passing run is the subject of a theorem.  The
violations are traces of TLC.

**What the proofs corrected.** Two properties that TLC had found to hold turned out to be true only
within the bounds of their runs, when no inductive invariant could be found for them, and were
restated.  That a link stored as active is connected as long as its services are not touched fails
from the seventh task on: an answer of an earlier verification posted again, or a service that a
half-finished disable keeps from starting at boot, leaves it active (`ActiveIsFresh` is what the
code gives).  That a policy shown as *verified* is whole fails with the third task:
`verifyPBRPolicy` finds the rule of an earlier apply and the table's name of one that failed before
it came to its route (`AppliedWorks` speaks of applies that succeeded and of policies shown as
applied, and no longer asks that nothing be under way).

## 5. Where the code and what is said of it part

Two are runs whose property is violated; the others were met while modelling and have no run.

1. `forward_applied`: `createForwardApplyTask` notes `pending` and `applying` after the tasks
   exist (`server.go:1313`).  If both results come first, they are overwritten and the forward is
   `applying` for ever.
2. `pbr_routes`: `applyPBRPolicy` deletes the ip rule of the policy's mark with the policy's present
   table only (`agent/real_actions.go:1663`).  After a PUT to another line group, or when the groups
   are numbered anew, the rule to the old table stays, with the same mark and priority; the policy
   is shown as applied and its traffic may leave by the old line (`docs/topology.md:25` says that it
   leaves by that of its group).

Seen in the code and kept in the models:

- `setIXProfileEnabled` (`v2_store.go:394-417`) records a pause before any agent has acted; if the
  disable task fails the page says of a line that is up that its rules are disabled
  (`ProfileDetail.jsx:333`).
- A sync whose list of rules the controller cannot read, because it is text or was cut off at 64 KiB,
  succeeds and erases the profile's rules (`v2_store.go:339`, `parseIXRules`).
- Rules saved by dragging go into the payload of an `apply_rules` task, and `ixArgsFromPayload`
  (`agent/ixtf_actions.go:85-104`) passes on the profile's id only: the host's rules stay.
- A PUT that moves a forward to other nodes or ports keeps `applied` and both stages `succeeded`
  (`store.go:515`), and the tables stay on the nodes it has left; an apply that read the forward before
  such a PUT sends the new rule to the old nodes (`server.go:1303`).
- `apply_forward_config`, which only an operator's POST /api/v1/tasks creates, sets both stages to
  `succeeded` for one table on one node (`store.go:322`).
- Some handlers answer 200 after a save that failed (`server.go:442`, `:479`, `:1393`, `:1754-1764`): a
  restart forgets what they said was done.
- The result of a disable task is not looked at (`store.go:288`), and the agent reports success even
  if nft did not delete the table (`agent/real_actions.go:1285`).
- A stream that breaks, or that the controller closes after five minutes, leaves the page's pending
  mark for ever (`AppContext.jsx:164`, `taskStream.js:26`); and an answer of the profiles fetched
  before a task's end may replace the one fetched after it (`AppContext.jsx:98-102`).
- `verifyPBRPolicy` (`agent/real_actions.go:1748`) looks for the mark, the table and the nft table
  each for itself and anywhere in the output; a policy moved to another group whose apply failed
  after naming the table is verified although its traffic leaves by the old one.
- The result of a verification that is posted twice makes a link active that a later verification
  found down (`store.go:254`).
- A disabled PBR policy that is applied again is `applied` with `enabled` false, so that another
  may be applied beside it (`store.go:1257-1269`); a disable sent with the data of a policy that was
  deleted meanwhile removes the rule of one that got its mark.
- Two forwards in one stage of a node: the second apply replaces the first one's rule, disabling
  either removes both, and verify succeeds for either (`docs/network-forwarding.md:19` advises one).
- A link's outstanding verification overwrites `disabled` (`store.go:351-396`); two reapplies at a
  time may leave the ends with different secrets; a successful `verify_direct_link` makes the link
  `failed`, for its result has neither `network_ok` nor `peer_count` (`store.go:364`).
- A purged agent's process goes on and brings its node's record back (`agent/real_actions.go:1330`);
  an interval above the controller's 90 seconds makes every healthy node stale (`agent/config.go:40`);
  and an `easytier-cli` that hangs keeps the agent from every further heartbeat (`main.go:71`).

## 6. Assumptions and what is left out

- Outside `StoreFile`, the controller does not restart and every save succeeds.  `StoreFile` shows
  what a restart may lose.  A handler that stops half-way because a save failed (the memory keeps the
  change, the handler answers `STORE_ERROR`) is in `ForwardStages` (`Abandon`), and in the plan for the
  others.
- Tokens decide machines as the code says (`Home`); a registration with a wrong token changes
  nothing and is not modelled.
- A task's data are its action, its stage, its rules; bodies of requests are valid.  Validation on both
  sides is table look-up, and a rejected task is one that fails.
- Task expiry is not modelled because `ExpiresAt` is never read.
- One landing node, one profile on a machine bound to one node (`IXProfiles`' `LaneAssumption`), one link
  and one node each: several links on a node share its EasyTier service
  and its heartbeat, which `NetworkLinks` leaves out (a link's ends are its own).
- A heartbeat's ages in `NodeLiveness` assume one clock, the controller's, as the code does.
- Not modelled, and not planned: rendering of EasyTier, nft and systemd text, collectors and
  metrics, scripts other than the uninstall order, pages.  They are text and look-ups without
  interleavings.  `PROJECT.json` gives a reason for each component.

## 7. Plan

What is left, in order.

| module | models | properties | theorem |
|---|---|---|---|
| `TaskStream`, further | leaving the page, `resolve` and `reject` of the diagnosis's promise | every promise is settled when its stream is over, if it is | extends `PageInv` |
| `MachineStream` | authentication frame, push, silence, backoff | an unauthenticated connection gets nothing; a page reconnects | — |
| `IXProfiles`, `PBRPolicies`, `NetworkLinks`, further | `STORE_ERROR` at each step of a handler | what half a handler leaves is repaired by the next sync or apply | extends the existing proofs |
