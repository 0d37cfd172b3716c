------------------------------ MODULE TaskStream ------------------------------
(***************************************************************************)
(* How a page of the web panel learns what became of the tasks it created. *)
(* For each of them it marks the task as pending and opens a stream (SSE)  *)
(* on which the controller, looking at the task once a second, sends every *)
(* change until the task has ended or five minutes are over.  Beside that  *)
(* the page fetches the lists of tasks and of profiles, several at a time, *)
(* each replacing what it has when its answer arrives.                     *)
(*                                                                         *)
(* A page that is reloaded is a new one, which Init describes: the tasks   *)
(* that exist already are not watched on it, and not among Task.  The      *)
(* button that fetches the list of tasks again is left out, for it changes *)
(* neither the pending marks nor the profiles.                             *)
(***************************************************************************)
EXTENDS Naturals, Sequences

CONSTANT Task

(* A task that is neither created nor ended is "pending" (waiting_agent    *)
(* too); the two ends, succeeded and failed, are treated alike here, so    *)
(* that a late result of an ended task changes nothing.                    *)
Status == {"none", "pending", "ended"}

(* The page's operations, by what they fetch: those that change a line     *)
(* ("switch": create, import, pause and resume; "line": the others), the   *)
(* diagnosis and the access code.                                          *)
Operation == {"switch", "line", "diagnose", "code"}
List == {"tasks", "profiles"}
AtBegin == [switch |-> List, line |-> {"tasks"}, diagnose |-> {}, code |-> {}]

(* Mutant: the end of a change to a line fetches the tasks alone. *)
Mutant_ForgetsProfiles ==
  [switch |-> List, line |-> {"tasks"}, diagnose |-> {"tasks"}, code |-> {"profiles"}]
AtEnd == [switch |-> List, line |-> List, diagnose |-> {"tasks"}, code |-> {"profiles"}]
OnError == [switch |-> {"tasks"}, line |-> {"tasks"}, diagnose |-> {}, code |-> {}]

(* A fetch is named by the task and the end of its operation it is for.    *)
Fetch == Task \X {"begin", "end"} \X List

VARIABLES
  status,    \* Task.Status in the controller
  conn,      \* the stream of each task
  sent,      \* the status in lastFingerprint, "none" when there is none
  wire,      \* what was sent on the stream and is not yet received
  watched,   \* the operation for which the page watches a task, or "none"
  pending,   \* pendingTaskIds
  listed,    \* the page's list of tasks: their statuses
  shown,     \* the results that the page's profiles show, by their tasks
  fetch,     \* how far each fetch has come
  seen,      \* what the controller answered to a fetch: the tasks' statuses
  lossless,  \* history: no stream or fetch was cut short
  ordered    \* history: no answer replaced a newer one in the profiles

server == <<status>>
streams == <<conn, sent, wire>>
page == <<watched, pending, listed, shown>>
fetches == <<fetch, seen>>
history == <<lossless, ordered>>
vars == <<server, streams, page, fetches, history>>

(* A stream carries each change of its task once: pending, and its end.    *)
TypeOK ==
  /\ status \in [Task -> Status]
  /\ conn \in [Task -> {"none", "opening", "open", "ended", "off"}]
  /\ sent \in [Task -> Status]
  /\ wire \in [Task -> Seq(Status)] /\ \A t \in Task : Len(wire[t]) <= 2
  /\ watched \in [Task -> Operation \cup {"none"}]
  /\ pending \subseteq Task
  /\ listed \in [Task -> Status]
  /\ shown \subseteq Task
  /\ fetch \in [Fetch -> {"idle", "asked", "answered"}]
  /\ seen \in [Fetch -> [Task -> Status]]
  /\ lossless \in BOOLEAN /\ ordered \in BOOLEAN

Unknown == [t \in Task |-> "none"]
EndedIn(s) == {t \in Task : s[t] = "ended"}

Init ==
  /\ status = Unknown
  /\ conn = [t \in Task |-> "none"]
  /\ sent = Unknown
  /\ wire = [t \in Task |-> <<>>]
  /\ watched = [t \in Task |-> "none"]
  /\ pending = {}
  /\ listed = Unknown
  /\ shown = {}
  /\ fetch = [f \in Fetch |-> "idle"]
  /\ seen = [f \in Fetch |-> Unknown]
  /\ lossless = TRUE /\ ordered = TRUE

-----------------------------------------------------------------------------
(* The tasks. *)

CreateTask(t) ==
  /\ status[t] = "none"
  /\ status' = [status EXCEPT ![t] = "pending"]
  /\ UNCHANGED <<streams, page, fetches, history>>

(* A result is recorded; under the same lock the task's profile changes    *)
(* with it.                                                                *)
RecordResult(t) ==
  /\ status[t] = "pending"
  /\ status' = [status EXCEPT ![t] = "ended"]
  /\ UNCHANGED <<streams, page, fetches, history>>

-----------------------------------------------------------------------------
(* The page's operations. *)

Ask(t, when, lists) ==
  fetch' = [f \in Fetch |-> IF f[1] = t /\ f[2] = when /\ f[3] \in lists THEN "asked" ELSE fetch[f]]

(* The answer to an operation names the tasks S it created: trackTasks     *)
(* marks and watches them, and the operation fetches its lists.            *)
TrackTasks(S, op) ==
  /\ S # {} /\ \A t \in S : status[t] # "none" /\ watched[t] = "none"
  /\ op \in {"diagnose", "code"} => \A t, u \in S : t = u
  /\ watched' = [t \in Task |-> IF t \in S THEN op ELSE watched[t]]
  /\ pending' = pending \cup S
  /\ conn' = [t \in Task |-> IF t \in S THEN "opening" ELSE conn[t]]
  /\ \E t \in S : Ask(t, "begin", AtBegin[op])
  /\ UNCHANGED <<server, sent, wire, listed, shown, seen, history>>

-----------------------------------------------------------------------------
(* The stream. *)

OpenStream(t) ==
  /\ conn[t] = "opening"
  /\ conn' = [conn EXCEPT ![t] = "open"]
  /\ UNCHANGED <<server, sent, wire, page, fetches, history>>

(* Mutant: the controller leaves the loop before it has sent the end.      *)
Mutant_EndsUnsent(t) ==
  /\ conn[t] = "open"
  /\ sent[t] # status[t] \/ status[t] = "ended"
  /\ sent' = [sent EXCEPT ![t] = IF status[t] = "ended" THEN "none" ELSE status[t]]
  /\ wire' = IF status[t] = "ended" THEN wire ELSE [wire EXCEPT ![t] = Append(@, status[t])]
  /\ conn' = [conn EXCEPT ![t] = IF status[t] = "ended" THEN "ended" ELSE @]
  /\ UNCHANGED <<server, page, fetches, history>>

(* Mutant: every look at the task is sent. *)
Mutant_SendsAlways(t) ==
  /\ conn[t] = "open"
  /\ Len(wire[t]) <= 2
  /\ wire' = [wire EXCEPT ![t] = Append(@, status[t])]
  /\ sent' = [sent EXCEPT ![t] = IF status[t] = "ended" THEN "none" ELSE status[t]]
  /\ conn' = [conn EXCEPT ![t] = IF status[t] = "ended" THEN "ended" ELSE @]
  /\ UNCHANGED <<server, page, fetches, history>>

(* One turn of the controller's loop that finds a change; the handler      *)
(* returns when the task has ended.                                        *)
SendTask(t) ==
  /\ conn[t] = "open"
  /\ sent[t] # status[t]
  /\ sent' = [sent EXCEPT ![t] = IF status[t] = "ended" THEN "none" ELSE status[t]]
  /\ wire' = [wire EXCEPT ![t] = Append(@, status[t])]
  /\ conn' = [conn EXCEPT ![t] = IF status[t] = "ended" THEN "ended" ELSE @]
  /\ UNCHANGED <<server, page, fetches, history>>

(* Five minutes are over; the task may have ended since the last turn.     *)
Timeout(t) ==
  /\ conn[t] = "open" /\ sent[t] # "none"
  /\ conn' = [conn EXCEPT ![t] = "ended"]
  /\ sent' = [sent EXCEPT ![t] = "none"]
  /\ lossless' = FALSE
  /\ UNCHANGED <<server, wire, page, fetches, ordered>>

(* onUpdate, and onDone if the task has ended. *)
Receive(t) ==
  /\ conn[t] \in {"open", "ended"} /\ wire[t] # <<>>
  /\ listed' = [listed EXCEPT ![t] = Head(wire[t])]
  /\ IF Head(wire[t]) = "ended"
     THEN /\ pending' = pending \ {t}
          /\ conn' = [conn EXCEPT ![t] = "off"]
          /\ wire' = [wire EXCEPT ![t] = <<>>]
          /\ Ask(t, "end", AtEnd[watched[t]])
     ELSE /\ wire' = [wire EXCEPT ![t] = Tail(@)]
          /\ UNCHANGED <<pending, conn, fetch>>
  /\ UNCHANGED <<server, sent, watched, shown, seen, history>>

(* Mutant: the page takes the end of the stream for that of the task.      *)
Mutant_EofIsDone(t) ==
  /\ conn[t] = "ended" /\ wire[t] = <<>>
  /\ conn' = [conn EXCEPT ![t] = "off"]
  /\ pending' = pending \ {t}
  /\ UNCHANGED <<server, sent, wire, watched, listed, shown, fetches, history>>

(* The page comes to the end of the stream without the end of the task:    *)
(* streamTask returns and calls nobody.                                    *)
EndOfStream(t) ==
  /\ conn[t] = "ended" /\ wire[t] = <<>>
  /\ conn' = [conn EXCEPT ![t] = "off"]
  /\ UNCHANGED <<server, sent, wire, page, fetches, history>>

(* The stream cannot be opened or breaks: onError. *)
Broken(t) ==
  /\ conn[t] \in {"opening", "open", "ended"}
  /\ conn' = [conn EXCEPT ![t] = "off"]
  /\ sent' = [sent EXCEPT ![t] = "none"]
  /\ wire' = [wire EXCEPT ![t] = <<>>]
  /\ Ask(t, "end", OnError[watched[t]])
  /\ lossless' = FALSE
  /\ UNCHANGED <<server, page, seen, ordered>>

-----------------------------------------------------------------------------
(* Fetching a list. *)

AnswerFetch(f) ==
  /\ fetch[f] = "asked"
  /\ fetch' = [fetch EXCEPT ![f] = "answered"]
  /\ seen' = [seen EXCEPT ![f] = status]
  /\ UNCHANGED <<server, streams, page, history>>

(* setTasks, setIxProfiles: what was there before is replaced. *)
FinishFetch(f) ==
  /\ fetch[f] = "answered"
  /\ fetch' = [fetch EXCEPT ![f] = "idle"]
  /\ seen' = [seen EXCEPT ![f] = Unknown]
  /\ IF f[3] = "tasks" THEN listed' = seen[f] /\ UNCHANGED shown
                       ELSE shown' = EndedIn(seen[f]) /\ UNCHANGED listed
  /\ ordered' = (ordered /\ shown \subseteq shown')
  /\ UNCHANGED <<server, streams, watched, pending, lossless>>

FetchFails(f) ==
  /\ fetch[f] # "idle"
  /\ fetch' = [fetch EXCEPT ![f] = "idle"]
  /\ seen' = [seen EXCEPT ![f] = Unknown]
  /\ lossless' = FALSE
  /\ UNCHANGED <<server, streams, page, ordered>>

-----------------------------------------------------------------------------
Next ==
  \/ \E t \in Task : CreateTask(t)
  \/ \E t \in Task : RecordResult(t)
  \/ \E S \in SUBSET Task, op \in Operation : TrackTasks(S, op)
  \/ \E t \in Task : OpenStream(t)
  \/ \E t \in Task : SendTask(t)
  \/ \E t \in Task : Timeout(t)
  \/ \E t \in Task : Receive(t)
  \/ \E t \in Task : EndOfStream(t)
  \/ \E t \in Task : Broken(t)
  \/ \E f \in Fetch : AnswerFetch(f)
  \/ \E f \in Fetch : FinishFetch(f)
  \/ \E f \in Fetch : FetchFails(f)

(* The controller looks at the task every second, and connections deliver. *)
Fairness ==
  \A t \in Task : WF_vars(OpenStream(t)) /\ WF_vars(SendTask(t)) /\ WF_vars(Receive(t))

Spec == Init /\ [][Next]_vars
FairSpec == Spec /\ Fairness

-----------------------------------------------------------------------------
(* The page drops a pending mark only when the task has ended, however its *)
(* stream ends.                                                            *)
ReleasedMeansEnded ==
  [][\A t \in pending \ pending' : status[t] = "ended"]_vars

(* The page learns of the end of every task it waits for, unless a stream  *)
(* was cut short by five minutes or by the network.                        *)
LearnsTheEnd ==
  \A t \in Task : t \in pending /\ status[t] = "ended" ~> (t \notin pending \/ ~ lossless)

(* Nothing is under way to the page. *)
Quiet ==
  /\ \A t \in Task : conn[t] \in {"none", "off"}
  /\ \A f \in Fetch : fetch[f] = "idle"

(* ProfileDetail.jsx:331 says of a line with pending tasks that it will be *)
(* refreshed when they are done: once nothing is under way, the page shows *)
(* their results, unless a stream or a fetch was cut short, or an answer   *)
(* of the profiles arrived behind a newer one, which it then replaced.     *)
RefreshedWhenDone ==
  Quiet /\ lossless /\ ordered =>
    \A t \in Task : watched[t] \in {"switch", "line"} => t \in shown
=============================================================================
