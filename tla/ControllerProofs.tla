---------------------------- MODULE ControllerProofs ----------------------------
(***************************************************************************)
(* The controller's file and what its task streams make of a page.         *)
(*                                                                         *)
(* A restart loses everything or nothing.  The invariant behind it: a file *)
(* that is whole holds whatever was acknowledged and saved, for            *)
(* acknowledging a mutation and making the file whole with it are one      *)
(* step, and every step that makes the file hold less makes it empty       *)
(* first.                                                                  *)
(*                                                                         *)
(* A page's mark of a pending task goes when the task has ended, and the   *)
(* profiles it shows then are those of after it.  The invariant: what is   *)
(* on the wire of each stream, and the fetch that the end has asked for.   *)
(***************************************************************************)
EXTENDS StoreFile, TaskStream, SequenceTheorems, TLAPS

WholeHoldsAcked == file = "whole" => acked \ unsaved \subseteq data

(* A save has a request that waits for it, which has no answer yet, and a  *)
(* controller that makes it.                                               *)
SavingInv ==
  /\ saving # "no" => running = "yes" /\ asked # {} /\ asked \subseteq memory
  /\ saving = "no" => asked = {}
  /\ running = "no" => last = {}
  /\ acked \cap refused = {} /\ asked \cap (acked \cup refused) = {}

StoreInv ==
  /\ StoreTypeOK
  /\ WholeHoldsAcked
  /\ SavingInv
  /\ AllOrNothing
  /\ AckedIsOnFile

LEMMA StoreBegins == StoreInit => StoreInv
  BY DEF StoreInit, StoreInv, StoreTypeOK, WholeHoldsAcked, SavingInv, AllOrNothing, AckedIsOnFile

(* A start loads what the file holds or nothing.                           *)
LEMMA StartKeeps ==
  ASSUME StoreInv, Start
  PROVE  StoreInv'
<1>1. /\ file = "whole" /\ memory' = data
      \/ memory' = {}
  BY DEF Start, Loads
<1>2. StoreTypeOK'
  BY <1>1 DEF Start, StoreInv, StoreTypeOK
<1>3. WholeHoldsAcked' /\ AllOrNothing'
  BY <1>1 DEF Start, StoreInv, WholeHoldsAcked, AllOrNothing
<1>4. SavingInv'
  BY DEF Start, StoreInv, StoreTypeOK, SavingInv
<1>5. AckedIsOnFile'
  BY <1>1 DEF Start, AckedIsOnFile
<1> QED
  BY <1>2, <1>3, <1>4, <1>5 DEF StoreInv

(* The steps of a mutation and its save.                                   *)
LEMMA MutationKeeps ==
  ASSUME StoreInv, NEW m \in Mutation, Mutate(m)
  PROVE  StoreInv'
  BY DEF Mutate, StoreInv, StoreTypeOK, WholeHoldsAcked, SavingInv, AllOrNothing, AckedIsOnFile

LEMMA SaveKeeps ==
  ASSUME StoreInv, OpenFile \/ WriteSome \/ WriteAll \/ SaveFails
  PROVE  StoreInv'
<1> USE DEF StoreInv, StoreTypeOK, WholeHoldsAcked, SavingInv, AllOrNothing, AckedIsOnFile
<1>1. CASE OpenFile
  BY <1>1 DEF OpenFile
<1>2. CASE WriteSome
  BY <1>2 DEF WriteSome
<1>3. CASE WriteAll
  BY <1>3 DEF WriteAll
<1>4. CASE SaveFails
  BY <1>4 DEF SaveFails
<1> QED
  BY <1>1, <1>2, <1>3, <1>4

LEMMA KillKeeps ==
  ASSUME StoreInv, Kill
  PROVE  StoreInv'
  BY DEF Kill, StoreInv, StoreTypeOK, WholeHoldsAcked, SavingInv, AllOrNothing, AckedIsOnFile

LEMMA StoreStutterKeeps ==
  ASSUME StoreInv, UNCHANGED storeVars
  PROVE  StoreInv'
  BY DEF storeVars, StoreInv, StoreTypeOK, WholeHoldsAcked, SavingInv, AllOrNothing, AckedIsOnFile

THEOREM StoreInvariance == StoreSpec => []StoreInv
<1>1. StoreInv /\ [StoreNext]_storeVars => StoreInv'
  BY StartKeeps, MutationKeeps, SaveKeeps, KillKeeps, StoreStutterKeeps DEF StoreNext
<1> QED
  BY <1>1, StoreBegins, PTL DEF StoreSpec

(* Every variable of the store and its file keeps its type.                *)
THEOREM StoreTypeCorrect == StoreSpec => []StoreTypeOK
  BY StoreInvariance, PTL DEF StoreInv

(* A controller that did not begin with an empty store shows every         *)
(* mutation it acknowledged, for any number of mutations and failed saves, *)
(* but for those that careless handlers acknowledged without a save.       *)
THEOREM RestartIsAllOrNothing == StoreSpec => []AllOrNothing
  BY StoreInvariance, PTL DEF StoreInv

(* After a good answer of a handler that looks at the error of saveLocked  *)
(* the file is the memory, whatever failed before.                         *)
THEOREM GoodAnswersAreOnFile == StoreSpec => []AckedIsOnFile
  BY StoreInvariance, PTL DEF StoreInv
-----------------------------------------------------------------------------
(* The streams.  A stream carries each change of its task once: pending,   *)
(* and its end, which closes it.                                           *)
Open == {<<>>, <<"pending">>}
Closing == {<<"ended">>, <<"pending", "ended">>}

DataOK ==
  /\ status \in [Task -> Status]
  /\ conn \in [Task -> {"none", "opening", "open", "ended", "off"}]
  /\ sent \in [Task -> Status]
  /\ wire \in [Task -> Open \cup Closing]
  /\ watched \in [Task -> Operation \cup {"none"}]
  /\ pending \subseteq Task
  /\ listed \in [Task -> Status]
  /\ shown \subseteq Task
  /\ fetch \in [Fetch -> {"idle", "asked", "answered"}]
  /\ seen \in [Fetch -> [Task -> Status]]

FlagsOK == lossless \in BOOLEAN /\ ordered \in BOOLEAN

StreamOK(t) ==
  /\ wire[t] \in Closing => conn[t] = "ended" /\ status[t] = "ended"
  /\ conn[t] \notin {"open", "ended"} => wire[t] = <<>>
  /\ conn[t] # "open" => sent[t] = "none"
  /\ conn[t] = "open" => sent[t] = "pending" \/ (sent[t] = "none" /\ wire[t] = <<>>)
  /\ watched[t] = "none" <=> conn[t] = "none"
  /\ watched[t] # "none" => status[t] # "none"

LEMMA Wires ==
  /\ Append(<<>>, "pending") = <<"pending">>
  /\ Append(<<>>, "ended") = <<"ended">>
  /\ Append(<<"pending">>, "ended") = <<"pending", "ended">>
  /\ Head(<<"pending">>) = "pending" /\ Tail(<<"pending">>) = <<>>
  /\ Head(<<"pending", "ended">>) = "pending" /\ Tail(<<"pending", "ended">>) = <<"ended">>
  /\ Head(<<"ended">>) = "ended"
  /\ Open \cup Closing \subseteq Seq(Status)
  /\ \A w \in Open \cup Closing : Len(w) <= 2
  /\ \A w \in Open : w \notin Closing
  /\ <<>> \in Open
<1>1. /\ Append(<<>>, "pending") = <<"pending">>
      /\ Append(<<>>, "ended") = <<"ended">>
      /\ Append(<<"pending">>, "ended") = <<"pending", "ended">>
  <2> DEFINE s == Append(<<"pending">>, "ended")
             r == <<"pending", "ended">>
  <2>1. s \in Seq(Status) /\ r \in Seq(Status)
    BY DEF Status
  <2>2. Len(s) = 2 /\ Len(r) = 2 /\ s[1] = r[1] /\ s[2] = r[2]
    OBVIOUS
  <2>3. \A i \in 1 .. Len(s) : s[i] = r[i]
    BY <2>2
  <2>4. s = r
    BY <2>1, <2>2, <2>3, SeqEqual
  <2>5. Append(<<>>, "pending") = <<"pending">> /\ Append(<<>>, "ended") = <<"ended">>
    OBVIOUS
  <2> QED
    BY <2>4, <2>5
<1>2. /\ Head(<<"pending">>) = "pending" /\ Tail(<<"pending">>) = <<>>
      /\ Head(<<"pending", "ended">>) = "pending" /\ Tail(<<"pending", "ended">>) = <<"ended">>
      /\ Head(<<"ended">>) = "ended"
  OBVIOUS
<1>3. /\ Open \cup Closing \subseteq Seq(Status)
      /\ \A w \in Open \cup Closing : Len(w) <= 2
  BY DEF Open, Closing, Status
<1>4. \A w \in Open : w \notin Closing
  BY DEF Open, Closing
<1> QED
  BY <1>1, <1>2, <1>3, <1>4 DEF Open

LEMMA Asked ==
  ASSUME DataOK, NEW t, NEW when, NEW lists, Ask(t, when, lists)
  PROVE  fetch' \in [Fetch -> {"idle", "asked", "answered"}]
BY DEF Ask, DataOK

(* What a turn of the controller's loop sends. *)
LEMMA Sends ==
  ASSUME DataOK, NEW t \in Task, StreamOK(t), SendTask(t)
  PROVE  \/ status[t] = "pending" /\ wire[t] = <<>> /\ wire'[t] = <<"pending">>
         \/ status[t] = "ended" /\ wire[t] \in Open /\ wire'[t] \in Closing
<1>1. conn[t] = "open" /\ sent[t] # status[t] /\ wire'[t] = Append(wire[t], status[t])
  BY DEF SendTask, DataOK
<1>2. status[t] \in {"pending", "ended"} /\ wire[t] \in Open
  BY <1>1 DEF StreamOK, DataOK, Status
<1>3. CASE status[t] = "pending"
  BY <1>1, <1>3, Wires DEF StreamOK
<1>4. CASE status[t] = "ended"
  BY <1>1, <1>2, <1>4, Wires DEF Open, Closing
<1> QED
  BY <1>2, <1>3, <1>4

(* What the page takes from the wire. *)
LEMMA Receives ==
  ASSUME DataOK, NEW t \in Task, StreamOK(t), Receive(t)
  PROVE  \/ /\ Head(wire[t]) = "pending" /\ wire'[t] \in Open \cup Closing
            /\ wire'[t] \in Closing <=> wire[t] \in Closing
            /\ UNCHANGED <<pending, conn, fetch>>
         \/ /\ Head(wire[t]) = "ended" /\ status[t] = "ended" /\ wire'[t] = <<>> /\ conn'[t] = "off"
            /\ conn' = [conn EXCEPT ![t] = "off"]
            /\ pending' = pending \ {t} /\ Ask(t, "end", AtEnd[watched[t]])
<1>1. wire[t] \in {<<"pending">>, <<"ended">>, <<"pending", "ended">>}
  BY DEF Receive, DataOK, Open, Closing
<1>2. CASE wire[t] = <<"ended">>
  <2>1. Head(wire[t]) = "ended" /\ status[t] = "ended"
    BY <1>2, Wires DEF StreamOK, Closing
  <2> QED
    BY <2>1 DEF Receive, DataOK
<1>3. CASE wire[t] \in {<<"pending">>, <<"pending", "ended">>}
  <2>1. Head(wire[t]) = "pending"
    BY <1>3, Wires
  <2>2. wire'[t] = Tail(wire[t]) /\ UNCHANGED <<pending, conn, fetch>>
    BY <2>1 DEF Receive, DataOK
  <2>3. wire[t] = <<"pending">> => wire'[t] = <<>> /\ wire[t] \notin Closing /\ wire'[t] \notin Closing
    BY <2>2, Wires DEF Open
  <2>4. wire[t] = <<"pending", "ended">> => wire'[t] \in Closing /\ wire[t] \in Closing
    BY <2>2, Wires DEF Closing
  <2> QED
    BY <1>3, <2>1, <2>2, <2>3, <2>4 DEF Open
<1> QED
  BY <1>1, <1>2, <1>3

LEMMA DataKept ==
  ASSUME DataOK, \A t \in Task : StreamOK(t), [Next]_vars
  PROVE  DataOK'
<1>1. ASSUME NEW t \in Task, CreateTask(t) \/ RecordResult(t) PROVE DataOK'
  BY <1>1 DEF CreateTask, RecordResult, streams, page, fetches, DataOK, Status
<1>2. ASSUME NEW S \in SUBSET Task, NEW op \in Operation, TrackTasks(S, op) PROVE DataOK'
  <2>1. PICK t \in S : Ask(t, "begin", AtBegin[op])
    BY <1>2 DEF TrackTasks
  <2>2. fetch' \in [Fetch -> {"idle", "asked", "answered"}]
    BY <2>1, Asked
  <2> QED
    BY <1>2, <2>2 DEF TrackTasks, server, DataOK
<1>3. ASSUME NEW t \in Task, OpenStream(t) \/ EndOfStream(t) \/ Timeout(t) PROVE DataOK'
  BY <1>3 DEF OpenStream, EndOfStream, Timeout, server, page, fetches, DataOK, Status
<1>4. ASSUME NEW t \in Task, SendTask(t) PROVE DataOK'
  <2>1. wire'[t] \in Open \cup Closing
    BY <1>4, Sends, Wires DEF Open
  <2>2. wire' \in [Task -> Open \cup Closing]
    BY <1>4, <2>1 DEF SendTask, DataOK
  <2> QED
    BY <1>4, <2>2 DEF SendTask, server, page, fetches, DataOK, Status
<1>5. ASSUME NEW t \in Task, Receive(t) PROVE DataOK'
  <2>1. wire' \in [Task -> Open \cup Closing]
    <3>1. wire'[t] \in Open \cup Closing
      BY <1>5, Receives DEF Open
    <3> QED
      BY <1>5, <3>1 DEF Receive, DataOK
  <2>2. Head(wire[t]) \in Status
    BY <1>5, Receives DEF Status
  <2>3. fetch' \in [Fetch -> {"idle", "asked", "answered"}]
    BY <1>5, Receives, Asked DEF DataOK
  <2>4. pending' \subseteq Task /\ conn' \in [Task -> {"none", "opening", "open", "ended", "off"}]
    BY <1>5, Receives DEF DataOK
  <2>5. listed' \in [Task -> Status]
    BY <1>5, <2>2 DEF Receive, DataOK
  <2> QED
    BY <1>5, <2>1, <2>3, <2>4, <2>5 DEF Receive, server, DataOK
<1>6. ASSUME NEW t \in Task, Broken(t) PROVE DataOK'
  <2>1. fetch' \in [Fetch -> {"idle", "asked", "answered"}]
    BY <1>6, Asked DEF Broken
  <2> QED
    BY <1>6, <2>1, Wires DEF Broken, server, page, DataOK, Status
<1>7. ASSUME NEW f \in Fetch, AnswerFetch(f) PROVE DataOK'
  BY <1>7 DEF AnswerFetch, server, streams, page, DataOK
<1>8. Unknown \in [Task -> Status]
  BY DEF Unknown, Status
<1>9. ASSUME NEW f \in Fetch, FinishFetch(f) PROVE DataOK'
  <2>1. listed' \in [Task -> Status] /\ shown' \subseteq Task
    BY <1>9 DEF FinishFetch, EndedIn, DataOK
  <2> QED
    BY <1>8, <1>9, <2>1 DEF FinishFetch, server, streams, DataOK
<1>10. ASSUME NEW f \in Fetch, FetchFails(f) PROVE DataOK'
  BY <1>8, <1>10 DEF FetchFails, server, streams, page, DataOK
<1>11. CASE UNCHANGED vars
  BY <1>11 DEF vars, server, streams, page, fetches, DataOK
<1> QED
  BY <1>1, <1>2, <1>3, <1>4, <1>5, <1>6, <1>7, <1>9, <1>10, <1>11 DEF Next

LEMMA StreamsKept ==
  ASSUME DataOK, \A t \in Task : StreamOK(t), [Next]_vars, NEW t \in Task
  PROVE  StreamOK(t)'
<1>0. StreamOK(t)
  OBVIOUS
<1>1. ASSUME NEW u \in Task, CreateTask(u) \/ RecordResult(u) PROVE StreamOK(t)'
  <2>1. UNCHANGED <<conn, sent, wire, watched>>
    BY <1>1 DEF CreateTask, RecordResult, streams, page
  <2>2. /\ status[t] # "none" => status'[t] # "none"
        /\ status[t] = "ended" => status'[t] = "ended"
    BY <1>1 DEF CreateTask, RecordResult, DataOK
  <2> QED
    BY <1>0, <2>1, <2>2 DEF StreamOK
<1>2. ASSUME NEW S \in SUBSET Task, NEW op \in Operation, TrackTasks(S, op) PROVE StreamOK(t)'
  <2>1. UNCHANGED <<status, sent, wire>>
    BY <1>2 DEF TrackTasks, server
  <2>2. CASE t \in S
    <3>1. watched[t] = "none" /\ status[t] # "none" /\ watched'[t] = op /\ conn'[t] = "opening"
      BY <1>2, <2>2 DEF TrackTasks
    <3>2. op # "none"
      BY DEF Operation
    <3> QED
      BY <1>0, <2>1, <3>1, <3>2, Wires DEF StreamOK
  <2>3. CASE t \notin S
    <3>1. watched'[t] = watched[t] /\ conn'[t] = conn[t]
      BY <1>2, <2>3 DEF TrackTasks
    <3> QED
      BY <1>0, <2>1, <3>1 DEF StreamOK
  <2> QED
    BY <2>2, <2>3
<1>3. CASE UNCHANGED <<status, conn, sent, wire, watched>>
  BY <1>0, <1>3 DEF StreamOK
<1>4. ASSUME NEW u \in Task, u # t,
             OpenStream(u) \/ SendTask(u) \/ Timeout(u) \/ Receive(u) \/ EndOfStream(u) \/ Broken(u)
      PROVE  StreamOK(t)'
  <2>1. UNCHANGED <<status, watched>>
    BY <1>4 DEF OpenStream, SendTask, Timeout, Receive, EndOfStream, Broken, server, page
  <2>2. conn'[t] = conn[t] /\ sent'[t] = sent[t] /\ wire'[t] = wire[t]
    BY <1>4 DEF OpenStream, SendTask, Timeout, Receive, EndOfStream, Broken, DataOK
  <2> QED
    BY <1>0, <2>1, <2>2 DEF StreamOK
<1>5. CASE OpenStream(t) \/ Timeout(t) \/ EndOfStream(t) \/ Broken(t)
  BY <1>0, <1>5, Wires
     DEF OpenStream, Timeout, EndOfStream, Broken, server, page, StreamOK, DataOK
<1>6. CASE SendTask(t)
  <2>1. /\ conn[t] = "open" /\ UNCHANGED <<status, watched>>
        /\ sent'[t] = IF status[t] = "ended" THEN "none" ELSE status[t]
        /\ conn'[t] = IF status[t] = "ended" THEN "ended" ELSE conn[t]
    BY <1>6 DEF SendTask, server, page, DataOK
  <2>2. CASE status[t] = "pending"
    <3>1. wire'[t] \in Open
      <4>1. wire'[t] = <<"pending">>
        BY <1>0, <1>6, <2>2, Sends
      <4> QED
        BY <4>1, Zenon DEF Open
    <3>2. wire'[t] \notin Closing
      BY <3>1, Wires, Zenon
    <3> QED
      BY <1>0, <2>1, <2>2, <3>2 DEF StreamOK
  <2>3. CASE status[t] = "ended"
    BY <1>0, <2>1, <2>3 DEF StreamOK
  <2> QED
    BY <1>0, <1>6, <2>2, <2>3, Sends
<1>7. CASE Receive(t)
  <2>1. UNCHANGED <<status, sent, watched>> /\ conn[t] \in {"open", "ended"} /\ wire[t] # <<>>
    BY <1>7 DEF Receive, server
  <2>2. CASE Head(wire[t]) = "ended"
    <3>1. wire'[t] = <<>> /\ conn'[t] = "off" /\ wire[t] \in Closing
      <4>1. wire[t] # <<"pending">>
        BY <2>2, Wires
      <4> QED
        BY <1>0, <1>7, <2>1, <2>2, <4>1, Receives DEF Open, DataOK
    <3> QED
      BY <1>0, <2>1, <3>1, Wires DEF StreamOK
  <2>3. CASE Head(wire[t]) = "pending"
    <3>1. conn'[t] = conn[t] /\ (wire'[t] \in Closing => wire[t] \in Closing)
      BY <1>0, <1>7, <2>3, Receives
    <3> QED
      BY <1>0, <2>1, <3>1 DEF StreamOK
  <2> QED
    BY <1>0, <1>7, <2>2, <2>3, Receives
<1> QED
  BY <1>1, <1>2, <1>3, <1>4, <1>5, <1>6, <1>7
     DEF Next, vars, server, streams, page, AnswerFetch, FinishFetch, FetchFails

LEMMA FlagsKept ==
  ASSUME FlagsOK, [Next]_vars
  PROVE  FlagsOK'
<1>1. UNCHANGED <<lossless, ordered>> \/ (lossless' = FALSE /\ ordered' = ordered)
      \/ (lossless' = lossless /\ ordered' \in BOOLEAN)
  BY Zenon DEF Next, vars, history, CreateTask, RecordResult, TrackTasks, OpenStream, SendTask, Timeout,
               Receive, EndOfStream, Broken, AnswerFetch, FinishFetch, FetchFails
<1> QED
  BY <1>1, Zenon DEF FlagsOK

-----------------------------------------------------------------------------
(* The pending marks. *)
LEMMA Released ==
  ASSUME DataOK, \A t \in Task : StreamOK(t), [Next]_vars, NEW t \in pending \ pending'
  PROVE  status[t] = "ended"
<1>1. PICK u \in Task : Receive(u)
  <2>1. CASE pending \subseteq pending'
    BY <2>1
  <2>2. CASE \E S \in SUBSET Task, op \in Operation : TrackTasks(S, op)
    BY <2>1, <2>2 DEF TrackTasks
  <2> QED
    BY <2>1, <2>2
       DEF Next, vars, page, CreateTask, RecordResult, OpenStream, SendTask, Timeout, EndOfStream, Broken,
           AnswerFetch, FinishFetch, FetchFails
<1>2. pending' = pending \ {u} /\ status[u] = "ended"
  BY <1>1, Receives
<1> QED
  BY <1>2

-----------------------------------------------------------------------------
(* A page for which nothing was cut short.                                 *)
LEMMA LosslessSteps ==
  ASSUME [Next]_vars, lossless'
  PROVE  /\ lossless
         /\ \/ \E t \in Task : \/ CreateTask(t) \/ RecordResult(t) \/ OpenStream(t) \/ SendTask(t)
                               \/ Receive(t) \/ EndOfStream(t)
            \/ \E S \in SUBSET Task, op \in Operation : TrackTasks(S, op)
            \/ \E f \in Fetch : AnswerFetch(f) \/ FinishFetch(f)
            \/ UNCHANGED vars
<1>1. (\E t \in Task : Timeout(t) \/ Broken(t)) \/ (\E f \in Fetch : FetchFails(f)) => lossless' = FALSE
  BY Zenon DEF Timeout, Broken, FetchFails
<1>2. lossless' = lossless \/ lossless' = FALSE
  BY Zenon DEF Next, vars, history, CreateTask, RecordResult, TrackTasks, OpenStream, SendTask, Timeout,
               Receive, EndOfStream, Broken, AnswerFetch, FinishFetch, FetchFails
<1>3. lossless
  BY <1>2, Zenon
<1> QED
  BY <1>1, <1>3, Zenon DEF Next

(* The controller closes a stream with the end on it. *)
ClosedWithEnd(t) == conn[t] = "ended" => wire[t] \in Closing

LEMMA ClosedKept ==
  ASSUME DataOK, \A t \in Task : StreamOK(t), NEW t \in Task, lossless => ClosedWithEnd(t),
         [Next]_vars, lossless'
  PROVE  ClosedWithEnd(t)'
<1>0. StreamOK(t) /\ ClosedWithEnd(t)
  BY LosslessSteps, Zenon
<1>1. ASSUME NEW u \in Task, OpenStream(u) \/ EndOfStream(u) PROVE ClosedWithEnd(t)'
  BY <1>0, <1>1 DEF OpenStream, EndOfStream, ClosedWithEnd, DataOK
<1>2. ASSUME NEW u \in Task, SendTask(u) PROVE ClosedWithEnd(t)'
  <2>1. CASE u = t
    <3>1. conn[t] = "open" /\ (conn'[t] = "ended" => status[t] = "ended")
      BY <1>2, <2>1 DEF SendTask, DataOK
    <3>2. status[t] = "ended" => wire'[t] \in Closing
      BY <1>0, <1>2, <2>1, Sends
    <3> QED
      BY <3>1, <3>2 DEF ClosedWithEnd
  <2>2. CASE u # t
    BY <1>0, <1>2, <2>2 DEF SendTask, ClosedWithEnd, DataOK
  <2> QED
    BY <2>1, <2>2
<1>3. ASSUME NEW u \in Task, Receive(u) PROVE ClosedWithEnd(t)'
  <2>1. CASE u = t
    BY <1>0, <1>3, <2>1, Receives DEF ClosedWithEnd
  <2>2. CASE u # t
    BY <1>0, <1>3, <2>2 DEF Receive, ClosedWithEnd, DataOK
  <2> QED
    BY <2>1, <2>2
<1>4. ASSUME NEW S \in SUBSET Task, NEW op \in Operation, TrackTasks(S, op) PROVE ClosedWithEnd(t)'
  BY <1>0, <1>4 DEF TrackTasks, ClosedWithEnd
<1>5. CASE UNCHANGED <<conn, wire>>
  BY <1>0, <1>5 DEF ClosedWithEnd
<1> QED
  BY <1>1, <1>2, <1>3, <1>4, <1>5, LosslessSteps
     DEF vars, streams, CreateTask, RecordResult, AnswerFetch, FinishFetch

(* Once the stream of a change to a line is done with, the page shows the  *)
(* change or fetches it, by a fetch that was or will be answered after it. *)
End(t) == <<t, "end", "profiles">>

Refreshed(t) ==
  conn[t] = "off" /\ watched[t] \in {"switch", "line"} =>
    \/ t \in shown
    \/ fetch[End(t)] = "asked" /\ status[t] = "ended"
    \/ fetch[End(t)] = "answered" /\ seen[End(t)][t] = "ended"

LEMMA FetchOfEnd ==
  ASSUME NEW t \in Task
  PROVE  End(t) \in Fetch /\ End(t)[1] = t /\ End(t)[2] = "end" /\ End(t)[3] = "profiles"
BY DEF End, Fetch, List

LEMMA RefreshKept ==
  ASSUME DataOK, \A t \in Task : StreamOK(t), NEW t \in Task, lossless => ClosedWithEnd(t),
         lossless /\ ordered => Refreshed(t), [Next]_vars, lossless', ordered'
  PROVE  Refreshed(t)'
<1>1. lossless /\ ordered /\ shown \subseteq shown'
  <2>1. ordered' => ordered /\ shown \subseteq shown'
    <3>1. (ordered' = ordered /\ shown' = shown) \/ (ordered' = (ordered /\ shown \subseteq shown'))
      BY Zenon DEF Next, vars, page, history, CreateTask, RecordResult, TrackTasks, OpenStream, SendTask,
                   Timeout, Receive, EndOfStream, Broken, AnswerFetch, FinishFetch, FetchFails
    <3> QED
      BY <3>1, Zenon
  <2> QED
    BY <2>1, LosslessSteps, Zenon
<1>0. StreamOK(t) /\ ClosedWithEnd(t) /\ Refreshed(t)
  BY <1>1, Zenon
<1> DEFINE e == End(t)
<1>e. e \in Fetch /\ e[1] = t /\ e[2] = "end" /\ e[3] = "profiles" /\ e = End(t)
  BY FetchOfEnd
<1> HIDE DEF e
<1>2. ASSUME NEW u \in Task, CreateTask(u) \/ RecordResult(u) PROVE Refreshed(t)'
  BY <1>0, <1>2 DEF CreateTask, RecordResult, streams, page, fetches, Refreshed, DataOK
<1>3. ASSUME NEW S \in SUBSET Task, NEW op \in Operation, TrackTasks(S, op) PROVE Refreshed(t)'
  <2>1. PICK u \in S : Ask(u, "begin", AtBegin[op])
    BY <1>3 DEF TrackTasks
  <2>2. fetch'[e] = fetch[e]
    BY <2>1, <1>e DEF Ask
  <2>3. UNCHANGED <<status, shown, seen>> /\ (conn'[t] = "off" => conn'[t] = conn[t] /\ watched'[t] = watched[t])
    BY <1>3 DEF TrackTasks, server
  <2> QED
    BY <1>0, <1>e, <2>2, <2>3 DEF Refreshed
<1>4. ASSUME NEW u \in Task, Receive(u) PROVE Refreshed(t)'
  <2>1. UNCHANGED <<status, watched, shown, seen>>
    BY <1>4 DEF Receive, server
  <2>2. CASE Head(wire[u]) = "ended"
    <3>1. /\ status[u] = "ended" /\ conn' = [conn EXCEPT ![u] = "off"]
          /\ Ask(u, "end", AtEnd[watched[u]])
      <4>1. Head(wire[u]) # "pending"
        BY <2>2
      <4> QED
        BY <1>4, <4>1, Receives
    <3>2. CASE u = t
      <4>1. watched[t] \in {"switch", "line"} => "profiles" \in AtEnd[watched[t]]
        BY DEF AtEnd, List
      <4>2. watched[t] \in {"switch", "line"} => fetch'[e] = "asked"
        BY <1>e, <3>1, <3>2, <4>1 DEF Ask
      <4> QED
        BY <1>e, <2>1, <3>1, <3>2, <4>2 DEF Refreshed
    <3>3. CASE u # t
      <4>1. fetch'[e] = fetch[e]
        BY <1>e, <3>1, <3>3 DEF Ask
      <4>2. conn'[t] = conn[t]
        BY <3>1, <3>3 DEF DataOK
      <4> QED
        BY <1>0, <1>e, <2>1, <4>1, <4>2 DEF Refreshed
    <3> QED
      BY <3>2, <3>3
  <2>3. CASE Head(wire[u]) = "pending"
    <3>1. UNCHANGED <<conn, fetch>>
      BY <1>4, <2>3, Receives
    <3> QED
      BY <1>0, <2>1, <3>1 DEF Refreshed
  <2> QED
    BY <1>4, <2>2, <2>3, Receives
<1>5. ASSUME NEW u \in Task, OpenStream(u) \/ SendTask(u) PROVE Refreshed(t)'
  <2>1. UNCHANGED <<status, watched, shown, fetch, seen>>
    BY <1>5 DEF OpenStream, SendTask, server, page, fetches
  <2>2. conn'[t] = "off" => conn[t] = "off"
    BY <1>5 DEF OpenStream, SendTask, DataOK
  <2> QED
    BY <1>0, <2>1, <2>2 DEF Refreshed
<1>6. ASSUME NEW u \in Task, EndOfStream(u) PROVE Refreshed(t)'
  <2>1. u # t
    BY <1>0, <1>6 DEF EndOfStream, ClosedWithEnd, Closing
  <2>2. UNCHANGED <<status, watched, shown, fetch, seen>> /\ conn'[t] = conn[t]
    BY <1>6, <2>1 DEF EndOfStream, server, page, fetches, DataOK
  <2> QED
    BY <1>0, <2>2 DEF Refreshed
<1>7. ASSUME NEW f \in Fetch, AnswerFetch(f) PROVE Refreshed(t)'
  <2>1. UNCHANGED <<status, conn, watched, shown>>
    BY <1>7 DEF AnswerFetch, server, streams, page
  <2>2. f # e => fetch'[e] = fetch[e] /\ seen'[e] = seen[e]
    BY <1>7, <1>e DEF AnswerFetch, DataOK
  <2>3. f = e => fetch[e] = "asked" /\ fetch'[e] = "answered" /\ seen'[e] = status
    BY <1>7, <1>e DEF AnswerFetch, DataOK
  <2> QED
    BY <1>0, <1>e, <2>1, <2>2, <2>3 DEF Refreshed
<1>8. ASSUME NEW f \in Fetch, FinishFetch(f) PROVE Refreshed(t)'
  <2>1. UNCHANGED <<status, conn, watched>>
    BY <1>8 DEF FinishFetch, server, streams
  <2>2. f # e => fetch'[e] = fetch[e] /\ seen'[e] = seen[e]
    BY <1>8, <1>e DEF FinishFetch, DataOK
  <2>3. f = e => fetch[e] = "answered" /\ (seen[e][t] = "ended" => t \in shown')
    BY <1>8, <1>e DEF FinishFetch, EndedIn
  <2> QED
    BY <1>0, <1>1, <1>e, <2>1, <2>2, <2>3 DEF Refreshed
<1>9. CASE UNCHANGED vars
  BY <1>0, <1>9 DEF vars, server, streams, page, fetches, Refreshed
<1> QED
  BY <1>2, <1>3, <1>4, <1>5, <1>6, <1>7, <1>8, <1>9, LosslessSteps

-----------------------------------------------------------------------------
PageInv ==
  /\ DataOK /\ FlagsOK
  /\ \A t \in Task : StreamOK(t)
  /\ lossless => \A t \in Task : ClosedWithEnd(t)
  /\ lossless /\ ordered => \A t \in Task : Refreshed(t)

LEMMA PageInvKept ==
  ASSUME PageInv, [Next]_vars
  PROVE  PageInv'
<1>1. DataOK /\ FlagsOK /\ (\A t \in Task : StreamOK(t))
  BY Zenon DEF PageInv
<1>2. DataOK' /\ FlagsOK' /\ (\A t \in Task : StreamOK(t)')
  BY <1>1, DataKept, FlagsKept, StreamsKept
<1>3. ASSUME lossless', NEW t \in Task PROVE ClosedWithEnd(t)'
  <2>1. lossless => ClosedWithEnd(t)
    BY Zenon DEF PageInv
  <2> QED
    BY <1>1, <1>3, <2>1, ClosedKept
<1>4. ASSUME lossless', ordered', NEW t \in Task PROVE Refreshed(t)'
  <2>1. (lossless => ClosedWithEnd(t)) /\ (lossless /\ ordered => Refreshed(t))
    BY Zenon DEF PageInv
  <2> QED
    BY <1>1, <1>4, <2>1, RefreshKept
<1> QED
  BY <1>2, <1>3, <1>4, Zenon DEF PageInv

LEMMA PageInvHolds == Spec => []PageInv
<1>1. Init => PageInv
  <2> SUFFICES ASSUME Init PROVE PageInv
    OBVIOUS
  <2>1. DataOK
    BY DEF Init, DataOK, Unknown, Status, Open
  <2>2. FlagsOK
    BY Zenon DEF Init, FlagsOK
  <2>3. ASSUME NEW t \in Task PROVE StreamOK(t) /\ ClosedWithEnd(t) /\ Refreshed(t)
    <3>1. StreamOK(t)
      BY Wires DEF Init, StreamOK, Unknown
    <3>2. ClosedWithEnd(t) /\ Refreshed(t)
      BY DEF Init, ClosedWithEnd, Refreshed
    <3> QED
      BY <3>1, <3>2
  <2> QED
    BY <2>1, <2>2, <2>3, Zenon DEF PageInv
<1> QED
  BY <1>1, PageInvKept, PTL DEF Spec

(* Every variable of the streams and of the page keeps its type: a stream  *)
(* (handleTaskStream) never carries more than pending and the end.         *)
THEOREM StreamTypeCorrect == Spec => []TypeOK
<1>1. PageInv => TypeOK
  <2> SUFFICES ASSUME PageInv PROVE TypeOK
    OBVIOUS
  <2>1. DataOK /\ FlagsOK
    BY Zenon DEF PageInv
  <2>2. wire \in [Task -> Seq(Status)] /\ \A t \in Task : Len(wire[t]) <= 2
    <3>1. \A w \in Open \cup Closing : w \in Seq(Status) /\ Len(w) <= 2
      BY Wires, Zenon
    <3>2. \A t \in Task : wire[t] \in Open \cup Closing
      BY <2>1, Zenon DEF DataOK
    <3>3. wire = [t \in Task |-> wire[t]]
      BY <2>1, Zenon DEF DataOK
    <3> QED
      BY <3>1, <3>2, <3>3
  <2> QED
    BY <2>1, <2>2, Zenon DEF DataOK, FlagsOK, TypeOK
<1> QED
  BY <1>1, PageInvHolds, PTL

(* The page (trackTasks, streamTask) takes a task off its pending ones     *)
(* only when it has ended, for any number of tasks and streams.            *)
THEOREM MarksAreKept == Spec => ReleasedMeansEnded
<1>1. PageInv /\ [Next]_vars => \A t \in pending \ pending' : status[t] = "ended"
  BY Released, Zenon DEF PageInv
<1> QED
  BY <1>1, PageInvHolds, PTL DEF Spec, ReleasedMeansEnded

(* Once nothing is under way to the page, it shows what every change to a  *)
(* line came to, unless a stream or a fetch was cut short or an answer of  *)
(* the profiles was late, for any number of tasks, streams and fetches.    *)
THEOREM LinesAreRefreshed == Spec => []RefreshedWhenDone
<1>1. PageInv => RefreshedWhenDone
  <2> SUFFICES ASSUME PageInv, Quiet, lossless, ordered, NEW t \in Task, watched[t] \in {"switch", "line"}
               PROVE  t \in shown
    BY Zenon DEF RefreshedWhenDone
  <2>1. DataOK /\ StreamOK(t) /\ Refreshed(t)
    BY Zenon DEF PageInv
  <2>2. conn[t] = "off"
    BY <2>1 DEF Quiet, StreamOK
  <2>3. fetch[End(t)] = "idle"
    BY FetchOfEnd DEF Quiet
  <2> QED
    BY <2>1, <2>2, <2>3 DEF Refreshed
<1> QED
  BY <1>1, PageInvHolds, PTL
=============================================================================
