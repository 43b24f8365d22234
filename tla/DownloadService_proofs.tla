------------------------- MODULE DownloadService_proofs -------------------------
(***************************************************************************)
(* The control of the download service, for any number of tasks, cancels   *)
(* and deaths of the http service: where a worker stands and where its     *)
(* call stands, its verdict and its callbacks, and the handshake by which  *)
(* cancel() reaches a transfer.                                            *)
(***************************************************************************)
EXTENDS DownloadService, HttpService_proofs

USE DEF Tasks

-------------------------------------------------------------------------------
(* The inductive invariant *)

TaskRecs ==
    [state : States, pc : WorkerPcs, canceled : BOOLEAN, httpRequestId : Ids \cup {-1},
     downloaded : Nat, total : Int, resumedFrom : Nat, ino : Inodes \cup {NoInode},
     resume : Nat, onDisk : Nat, http : Nat, outcome : Terminal \cup {"none"}, error : Errors]

\* The oneway calls to a relay: an offset or a count, and the total or -1.
Msgs == {"start", "bytes"} \X Nat \X Int

Events == {"started", "progress"} \cup Terminal

EarlyPcs == {"none", "start", "dir", "measure", "open", "lookup", "polling", "newId"}
OpenPcs == {"lookup", "polling", "newId", "publish", "check", "call", "fetching"}
RunningPcs == WorkerPcs \ {"none", "start", "report", "done"}

\* The process has the call in its hands.
HandedPcs == ServedPcs \cup {"queued"}

\* A worker makes its call between newRequestId() and the reply, and the id that
\* cancel() reads is the id of that call.
CallOK(s, f) ==
    /\ s.pc \in EarlyPcs => f.pc = "none"
    /\ s.pc \in {"publish", "check", "call"} => f.pc = "reserved"
    /\ s.pc = "fetching" => f.pc \notin {"none", "reserved"}
    /\ f.pc \in HandedPcs => s.pc = "fetching"
    /\ s.pc \in EarlyPcs \cup {"publish"} => s.httpRequestId = -1
    /\ s.pc \in {"check", "call", "fetching"} => s.httpRequestId # -1
    /\ s.httpRequestId # -1 => s.httpRequestId = f.id /\ f.pc # "none"

\* The recorded state follows the worker, and the verdict is found before it is
\* recorded.
VerdictOK(s) ==
    /\ s.pc = "none" <=> s.state = "UNKNOWN"
    /\ s.pc = "start" <=> s.state = "PENDING"
    /\ s.pc \in RunningPcs <=> s.state = "RUNNING"
    /\ s.pc \in {"fail", "unlink"} => s.outcome = "FAILED"
    /\ s.pc \in {"report", "done"} => s.state = s.outcome
    /\ s.outcome # "none" <=> s.pc \in {"fail", "unlink", "finish", "report", "done"}

\* The only terminal callback is the one of the last step.
EventsOK(s, e) ==
    /\ s.pc # "done" => \A i \in DOMAIN e : e[i] \notin Terminal
    /\ s.pc = "done" => \E k \in DOMAIN e : /\ e[k] = s.state
                                            /\ \A i \in DOMAIN e : e[i] \in Terminal => i = k

\* From open() on the worker has a descriptor.
OpenOK(s) == s.pc \in OpenPcs => s.ino \in Inodes

TaskOK(s, f, e) == CallOK(s, f) /\ VerdictOK(s) /\ EventsOK(s, e) /\ OpenOK(s)

\* What the handler of cancel() holds is about a task that was accepted, and the
\* id is that of its call.
CancellerFacts ==
    /\ canceller.pc = "idle" => canceller = Idle
    /\ canceller.pc # "idle" => canceller.task \in Tasks /\ task[canceller.task].state # "UNKNOWN"
    /\ canceller.pc \in {"lookup", "polling", "send"} =>
          canceller.id # -1 /\ canceller.id = task[canceller.task].httpRequestId
    /\ canceller.pc \in {"readId", "lookup", "polling", "send"} => task[canceller.task].canceled

CancellerRecs ==
    [pc : {"idle", "flag", "readId", "lookup", "polling", "send"},
     task : Tasks \cup {NoTask}, id : Ids \cup {-1}, http : Nat]

\* The types that TypeOK adds to those of the http service.
DlTyped ==
    /\ task \in [Tasks -> TaskRecs]
    /\ events \in [Tasks -> Seq(Events)]
    /\ part \in [Dests -> Inodes \cup {NoInode}]
    /\ dest \in [Dests -> Inodes \cup {NoInode}]
    /\ mHttp \in Nat /\ registered \in Nat
    /\ deadProxies \subseteq Nat
    /\ httpLock \in Tasks \cup {NoTask, "cancel"}
    /\ canceller \in CancellerRecs
    /\ relayQ \in [Tasks -> Seq(Msgs)]

TasksOK == \A t \in Tasks : /\ TaskOK(task[t], fetch[t], events[t])
                            /\ task[t].pc = "size" => dest[DestOf[t]] \in Inodes

ControlInv == DlTyped /\ CancellerFacts /\ TasksOK

DlInv == HttpInv /\ ControlInv

-------------------------------------------------------------------------------
(* Callbacks *)

\* Told adds at most one callback, to the history of its task.
LEMMA ToldTyped ==
    ASSUME events \in [Tasks -> Seq(Events)], NEW t \in Tasks, NEW e \in Events, Told(t, e)
    PROVE  /\ events' \in [Tasks -> Seq(Events)]
           /\ \A u \in Tasks \ {t} : events'[u] = events[u]
           /\ events'[t] = Append(events[t], e) \/ (e = "progress" /\ events'[t] = events[t])
<1>1. events[t] \in Seq(Events) /\ Append(events[t], e) \in Seq(Events)
  OBVIOUS
<1> QED BY <1>1 DEF Told

\* A callback that is no verdict leaves the verdict alone.
LEMMA MildEvent ==
    ASSUME NEW s \in TaskRecs, NEW h \in Seq(Events), NEW e \in Events, e \notin Terminal,
           EventsOK(s, h)
    PROVE  EventsOK(s, Append(h, e))
<1>1. /\ DOMAIN h = 1..Len(h) /\ DOMAIN Append(h, e) = 1..(Len(h) + 1) /\ Len(h) \in Nat
      /\ \A i \in 1..Len(h) : Append(h, e)[i] = h[i]
      /\ Append(h, e)[Len(h) + 1] = e
  OBVIOUS
<1>2. CASE s.pc # "done"
  BY <1>1, <1>2 DEF EventsOK
<1>3. CASE s.pc = "done"
  <2>1. PICK k \in DOMAIN h : h[k] = s.state /\ \A i \in DOMAIN h : h[i] \in Terminal => i = k
    BY <1>3 DEF EventsOK
  <2>2. k \in DOMAIN Append(h, e) /\ Append(h, e)[k] = s.state
    BY <1>1, <2>1
  <2>3. ASSUME NEW i \in DOMAIN Append(h, e), Append(h, e)[i] \in Terminal
        PROVE  i = k
    BY <1>1, <2>1, <2>3
  <2> QED BY <1>3, <2>2, <2>3 DEF EventsOK
<1> QED BY <1>2, <1>3

\* The verdict is told.
LEMMA LastEvent ==
    ASSUME NEW s \in TaskRecs, NEW g \in TaskRecs, NEW h \in Seq(Events), NEW e \in Terminal,
           EventsOK(s, h), s.pc # "done", g.pc = "done", g.state = e
    PROVE  EventsOK(g, Append(h, e))
<1>1. /\ DOMAIN h = 1..Len(h) /\ DOMAIN Append(h, e) = 1..(Len(h) + 1) /\ Len(h) \in Nat
      /\ \A i \in 1..Len(h) : Append(h, e)[i] = h[i]
      /\ Append(h, e)[Len(h) + 1] = e
  BY DEF Events
<1>2. \A i \in DOMAIN h : h[i] \notin Terminal
  BY DEF EventsOK
<1>3. Len(h) + 1 \in DOMAIN Append(h, e)
  BY <1>1
<1>4. \A i \in DOMAIN Append(h, e) : Append(h, e)[i] \in Terminal => i = Len(h) + 1
  BY <1>1, <1>2
<1> QED BY <1>1, <1>3, <1>4 DEF EventsOK

-------------------------------------------------------------------------------
(* One task moves *)

\* What no step of a worker or of a relay takes back.
Keeps(s, g) ==
    /\ g.canceled = s.canceled
    /\ s.httpRequestId # -1 => g.httpRequestId = s.httpRequestId
    /\ s.state # "UNKNOWN" => g.state # "UNKNOWN"

\* A step that changes one task, its call and its callbacks.
TaskMoves(t) ==
    /\ task' = [task EXCEPT ![t] = task'[t]]
    /\ task'[t] \in TaskRecs /\ Keeps(task[t], task'[t])
    /\ \A u \in Tasks \ {t} : fetch'[u] = fetch[u] /\ events'[u] = events[u]
    /\ canceller' = canceller

\* Nothing else of the download service changes its type.
RestTyped ==
    /\ events' \in [Tasks -> Seq(Events)]
    /\ part' \in [Dests -> Inodes \cup {NoInode}]
    /\ dest' \in [Dests -> Inodes \cup {NoInode}]
    /\ \A d \in Dests : dest[d] \in Inodes => dest'[d] \in Inodes
    /\ mHttp' \in Nat /\ registered' \in Nat
    /\ deadProxies' \subseteq Nat
    /\ httpLock' \in Tasks \cup {NoTask, "cancel"}
    /\ relayQ' \in [Tasks -> Seq(Msgs)]

\* Such a step keeps the invariant if it keeps it for its task.
LEMMA TaskMovesInv ==
    ASSUME ControlInv, NEW t \in Tasks, TaskMoves(t), RestTyped,
           TaskOK(task'[t], fetch'[t], events'[t]),
           task'[t].pc = "size" => dest'[DestOf[t]] \in Inodes
    PROVE  ControlInv'
<1>1. /\ task \in [Tasks -> TaskRecs] /\ task' \in [Tasks -> TaskRecs]
      /\ \A u \in Tasks \ {t} : task'[u] = task[u]
  BY DEF ControlInv, DlTyped, TaskMoves
<1>2. DlTyped'
  BY <1>1 DEF RestTyped, ControlInv, DlTyped, TaskMoves
<1>3. CancellerFacts'
  <2>1. \A u \in Tasks : Keeps(task[u], task'[u])
    BY <1>1 DEF TaskMoves, Keeps
  <2>2. canceller' = canceller /\ CancellerFacts
    BY DEF TaskMoves, ControlInv
  <2>3. canceller.pc # "idle" => Keeps(task[canceller.task], task'[canceller.task])
    BY <2>1, <2>2 DEF CancellerFacts
  <2> QED BY <2>2, <2>3 DEF CancellerFacts, Keeps
<1>4. TasksOK'
  <2>1. ASSUME NEW u \in Tasks \ {t}
        PROVE  /\ TaskOK(task'[u], fetch'[u], events'[u])
               /\ task'[u].pc = "size" => dest'[DestOf[u]] \in Inodes
    BY <1>1, TasksAssumption DEF ControlInv, TasksOK, TaskMoves, RestTyped
  <2> QED BY <2>1 DEF TasksOK
<1> QED BY <1>2, <1>3, <1>4 DEF ControlInv

\* A step of runTask() that touches only its task.
LEMMA LocalInv ==
    ASSUME DlInv, NEW t \in Tasks, NEW s \in TaskRecs, Local(t, s), Keeps(task[t], s),
           TaskOK(s, fetch[t], events[t]), s.pc = "size" => dest[DestOf[t]] \in Inodes
    PROVE  DlInv'
<1>1. /\ UNCHANGED <<httpVars, events, part, dest, mHttp, deadProxies, httpLock, registered, canceller>>
      /\ task' = [task EXCEPT ![t] = s] /\ task'[t] = s
  BY DEF Local, DlInv, ControlInv, DlTyped
<1>2. RestTyped /\ fetch' = fetch
  BY <1>1 DEF RestTyped, DlInv, ControlInv, DlTyped, httpVars
<1>3. TaskMoves(t)
  BY <1>1, <1>2 DEF TaskMoves
<1>4. ControlInv'
  BY <1>1, <1>2, <1>3, TaskMovesInv DEF DlInv
<1>5. HttpInv'
  BY <1>1, QueueInv DEF httpVars, tableVars, DlInv, HttpInv, HttpTypeOK
<1> QED BY <1>4, <1>5 DEF DlInv

-------------------------------------------------------------------------------
(* The worker *)

\* What the invariant says of one task.
LEMMA TaskFacts ==
    ASSUME DlInv, NEW t \in Tasks
    PROVE  /\ task[t] \in TaskRecs /\ fetch[t] \in Transfers /\ events[t] \in Seq(Events)
           /\ CallOK(task[t], fetch[t]) /\ VerdictOK(task[t]) /\ EventsOK(task[t], events[t])
           /\ OpenOK(task[t]) /\ (task[t].pc = "size" => dest[DestOf[t]] \in Inodes)
           /\ PartSize(t) \in Nat /\ DestOf[t] \in Dests
<1>1. DestOf[t] \in Dests
  BY TasksAssumption
<1>2. PartSize(t) \in Nat
  BY <1>1 DEF PartSize, DlInv, ControlInv, DlTyped, HttpInv, HttpTypeOK
<1> QED BY <1>1, <1>2 DEF DlInv, ControlInv, DlTyped, TasksOK, TaskOK, HttpInv, HttpTypeOK

\* The first failures and the first steps.
LEMMA FailedOK ==
    ASSUME NEW s \in TaskRecs, NEW f \in Transfers, NEW h \in Seq(Events), NEW error \in Errors,
           CallOK(s, f), VerdictOK(s), EventsOK(s, h), f.pc \notin HandedPcs,
           s.state = "RUNNING"
    PROVE  /\ Failed(s, error) \in TaskRecs /\ Keeps(s, Failed(s, error))
           /\ TaskOK(Failed(s, error), f, h) /\ Failed(s, error).pc = "fail"
<1> DEFINE g == Failed(s, error)
<1>1. "fail" \in WorkerPcs /\ "FAILED" \in Terminal
  BY DEF WorkerPcs, Terminal
<1>2. /\ g \in TaskRecs /\ g.pc = "fail" /\ g.outcome = "FAILED" /\ g.state = s.state
      /\ g.canceled = s.canceled /\ g.httpRequestId = s.httpRequestId
  BY <1>1 DEF Failed, TaskRecs
<1> HIDE DEF g
<1>3. CallOK(g, f) /\ OpenOK(g)
  BY <1>2 DEF CallOK, OpenOK, EarlyPcs, OpenPcs
<1>4. VerdictOK(g)
  BY <1>2 DEF VerdictOK, RunningPcs, WorkerPcs
<1>5. s.pc # "done"
  BY DEF VerdictOK, RunningPcs
<1>6. EventsOK(g, h)
  BY <1>2, <1>5 DEF EventsOK
<1> QED BY <1>2, <1>3, <1>4, <1>6 DEF TaskOK, Keeps, g

\* The worker sees that it was cancelled.
LEMMA CanceledOK ==
    ASSUME NEW s \in TaskRecs, NEW f \in Transfers, NEW h \in Seq(Events),
           CallOK(s, f), VerdictOK(s), EventsOK(s, h), f.pc \notin HandedPcs, s.state = "RUNNING"
    PROVE  /\ Canceled(s) \in TaskRecs /\ Keeps(s, Canceled(s))
           /\ TaskOK(Canceled(s), f, h) /\ Canceled(s).pc = "finish"
<1> DEFINE g == Canceled(s)
<1>1. "finish" \in WorkerPcs /\ "CANCELED" \in Terminal
  BY DEF WorkerPcs, Terminal
<1>2. /\ g \in TaskRecs /\ g.pc = "finish" /\ g.outcome = "CANCELED" /\ g.state = s.state
      /\ g.canceled = s.canceled /\ g.httpRequestId = s.httpRequestId
  BY <1>1 DEF Canceled, TaskRecs
<1> HIDE DEF g
<1>3. CallOK(g, f) /\ OpenOK(g)
  BY <1>2 DEF CallOK, OpenOK, EarlyPcs, OpenPcs
<1>4. VerdictOK(g)
  BY <1>2 DEF VerdictOK, RunningPcs, WorkerPcs
<1>5. s.pc # "done"
  BY DEF VerdictOK, RunningPcs
<1>6. EventsOK(g, h)
  BY <1>2, <1>5 DEF EventsOK
<1> QED BY <1>2, <1>3, <1>4, <1>6 DEF TaskOK, Keeps, g

\* A worker that is running goes on, with its call where it was.
LEMMA AdvanceOK ==
    ASSUME NEW s \in TaskRecs, NEW f \in Transfers, NEW h \in Seq(Events), NEW g \in TaskRecs,
           VerdictOK(s), EventsOK(s, h), s.state = "RUNNING", s.outcome = "none",
           g.pc \in RunningPcs \ {"fail", "unlink", "finish"}, g.state = s.state, g.outcome = s.outcome,
           g.canceled = s.canceled, CallOK(g, f), OpenOK(g),
           s.httpRequestId # -1 => g.httpRequestId = s.httpRequestId
    PROVE  Keeps(s, g) /\ TaskOK(g, f, h)
<1>1. VerdictOK(g)
  BY DEF VerdictOK, RunningPcs, WorkerPcs
<1>2. s.pc # "done" /\ g.pc # "done"
  BY DEF VerdictOK, RunningPcs
<1>3. EventsOK(g, h)
  BY <1>2 DEF EventsOK
<1> QED BY <1>1, <1>3 DEF TaskOK, Keeps

\* The steps of runTask() that touch only the task.
LocalStep(t) ==
    \/ Start(t) \/ EnsureParentDir(t) \/ Measure(t) \/ OpenFails(t) \/ PublishId(t) \/ CheckCanceled(t)
    \/ DupFails(t) \/ StoreOnDisk(t) \/ RenameFails(t) \/ FinalSize(t) \/ StatPart(t) \/ Finish(t)

\* They keep the invariant.
LEMMA LocalStepInv ==
    ASSUME DlInv, NEW t \in Tasks, LocalStep(t)
    PROVE  DlInv'
<1> DEFINE s == task[t]
           f == fetch[t]
           h == events[t]
           N == PartSize(t)
<1>0. /\ s \in TaskRecs /\ f \in Transfers /\ h \in Seq(Events)
      /\ CallOK(s, f) /\ VerdictOK(s) /\ EventsOK(s, h) /\ OpenOK(s)
      /\ (s.pc = "size" => dest[DestOf[t]] \in Inodes) /\ N \in Nat
  BY TaskFacts
<1>1. ASSUME NEW error \in Errors, Local(t, Failed(task[t], error)), s.state = "RUNNING", f.pc \notin HandedPcs
      PROVE  DlInv'
  <2>1. /\ Failed(s, error) \in TaskRecs /\ Keeps(s, Failed(s, error))
        /\ TaskOK(Failed(s, error), f, h) /\ Failed(s, error).pc = "fail"
    BY <1>0, <1>1, FailedOK
  <2> QED BY <1>1, <2>1, LocalInv
<1>2. ASSUME NEW g \in TaskRecs, Local(t, g), s.state = "RUNNING", s.outcome = "none",
             g.pc \in RunningPcs \ {"fail", "unlink", "finish", "size"}, g.state = s.state, g.outcome = s.outcome,
             g.canceled = s.canceled, CallOK(g, f), OpenOK(g),
             s.httpRequestId # -1 => g.httpRequestId = s.httpRequestId
      PROVE  DlInv'
  <2>1. Keeps(s, g) /\ TaskOK(g, f, h)
    BY <1>0, <1>2, AdvanceOK
  <2> QED BY <1>2, <2>1, LocalInv
<1>3. CASE Start(t)
  <2> DEFINE g == [s EXCEPT !.state = "RUNNING", !.pc = "dir"]
  <2>1. Local(t, g) /\ s.pc = "start"
    BY <1>3 DEF Start
  <2>2. /\ g \in TaskRecs /\ g.pc = "dir" /\ g.state = "RUNNING" /\ g.outcome = s.outcome
        /\ g.canceled = s.canceled /\ g.httpRequestId = s.httpRequestId
    <3>1. "dir" \in WorkerPcs /\ "RUNNING" \in States
      BY DEF WorkerPcs, States
    <3> QED BY <1>0, <3>1 DEF TaskRecs
  <2> HIDE DEF g
  <2>3. TaskOK(g, f, h) /\ Keeps(s, g)
    BY <1>0, <2>1, <2>2 DEF TaskOK, Keeps, CallOK, VerdictOK, EventsOK, OpenOK, EarlyPcs, OpenPcs,
                            RunningPcs, WorkerPcs
  <2> QED BY <2>1, <2>2, <2>3, LocalInv
<1>4. CASE EnsureParentDir(t)
  <2>1. s.pc = "dir" /\ s.state = "RUNNING" /\ s.outcome = "none" /\ f.pc \notin HandedPcs
    BY <1>0, <1>4, PcSets DEF EnsureParentDir, VerdictOK, CallOK, RunningPcs, WorkerPcs, EarlyPcs, HandedPcs
  <2> DEFINE g == [s EXCEPT !.pc = "measure"]
  <2>2. Local(t, Failed(task[t], "ERROR_BAD_DESTINATION")) \/ Local(t, g)
    BY <1>4 DEF EnsureParentDir
  <2>3. /\ g \in TaskRecs /\ g.pc = "measure" /\ g.state = s.state /\ g.outcome = s.outcome
        /\ g.canceled = s.canceled /\ g.httpRequestId = s.httpRequestId
    <3>1. "measure" \in WorkerPcs
      BY DEF WorkerPcs
    <3> QED BY <1>0, <3>1 DEF TaskRecs
  <2> HIDE DEF g
  <2>4. CallOK(g, f) /\ OpenOK(g) /\ g.pc \in RunningPcs \ {"fail", "unlink", "finish", "size"}
    BY <1>0, <2>1, <2>3 DEF CallOK, OpenOK, EarlyPcs, OpenPcs, RunningPcs, WorkerPcs
  <2>5. "ERROR_BAD_DESTINATION" \in Errors
    BY DEF Errors
  <2> QED BY <1>1, <1>2, <2>1, <2>2, <2>3, <2>4, <2>5
<1>5. CASE Measure(t)
  <2>1. s.pc = "measure" /\ s.state = "RUNNING" /\ s.outcome = "none"
    BY <1>0, <1>5 DEF Measure, VerdictOK, RunningPcs, WorkerPcs
  <2> DEFINE g == [s EXCEPT !.pc = "open", !.resume = N, !.downloaded = N, !.resumedFrom = N]
  <2>2. Local(t, g)
    BY <1>5 DEF Measure
  <2>3. /\ g \in TaskRecs /\ g.pc = "open" /\ g.state = s.state /\ g.outcome = s.outcome
        /\ g.canceled = s.canceled /\ g.httpRequestId = s.httpRequestId
    <3>1. "open" \in WorkerPcs
      BY DEF WorkerPcs
    <3> HIDE DEF N
    <3> QED BY <1>0, <3>1 DEF TaskRecs
  <2> HIDE DEF g
  <2>4. CallOK(g, f) /\ OpenOK(g) /\ g.pc \in RunningPcs \ {"fail", "unlink", "finish", "size"}
    BY <1>0, <2>1, <2>3 DEF CallOK, OpenOK, EarlyPcs, OpenPcs, RunningPcs, WorkerPcs
  <2> QED BY <1>2, <2>1, <2>2, <2>3, <2>4
<1>6. CASE OpenFails(t) \/ DupFails(t) \/ RenameFails(t)
  <2>1. s.pc \in {"open", "call", "rename"} /\ Local(t, Failed(task[t], "ERROR_IO"))
    BY <1>6 DEF OpenFails, DupFails, RenameFails
  <2>2. s.state = "RUNNING" /\ f.pc \notin HandedPcs
    BY <1>0, <2>1 DEF VerdictOK, RunningPcs, WorkerPcs, CallOK
  <2>3. "ERROR_IO" \in Errors
    BY DEF Errors
  <2> QED BY <1>1, <2>1, <2>2, <2>3
<1>7. CASE PublishId(t)
  <2>1. /\ s.pc = "publish" /\ s.state = "RUNNING" /\ s.outcome = "none" /\ f.pc = "reserved"
        /\ s.httpRequestId = -1
    BY <1>0, <1>7 DEF PublishId, VerdictOK, CallOK, RunningPcs, WorkerPcs
  <2>2. f.id \in Ids /\ f.id # -1
    BY <2>1 DEF DlInv, HttpInv, TableInv, CallFacts, Ids
  <2> DEFINE g == [s EXCEPT !.pc = "check", !.httpRequestId = f.id]
  <2>3. Local(t, g)
    BY <1>7 DEF PublishId
  <2>4. /\ g \in TaskRecs /\ g.pc = "check" /\ g.state = s.state /\ g.outcome = s.outcome
        /\ g.canceled = s.canceled /\ g.httpRequestId = f.id /\ g.ino = s.ino
    <3>1. "check" \in WorkerPcs
      BY DEF WorkerPcs
    <3> QED BY <1>0, <2>2, <3>1 DEF TaskRecs
  <2> HIDE DEF g
  <2>5. CallOK(g, f) /\ OpenOK(g) /\ g.pc \in RunningPcs \ {"fail", "unlink", "finish", "size"}
    BY <1>0, <2>1, <2>2, <2>4, PcSets DEF CallOK, OpenOK, EarlyPcs, OpenPcs, RunningPcs, WorkerPcs, HandedPcs
  <2> QED BY <1>2, <2>1, <2>3, <2>4, <2>5
<1>8. CASE CheckCanceled(t)
  <2>1. /\ s.pc = "check" /\ s.state = "RUNNING" /\ s.outcome = "none" /\ f.pc = "reserved"
        /\ f.pc \notin HandedPcs
    BY <1>0, <1>8, PcSets DEF CheckCanceled, VerdictOK, CallOK, RunningPcs, WorkerPcs, HandedPcs
  <2> DEFINE g == [s EXCEPT !.pc = "call"]
  <2>2. Local(t, Canceled(s)) \/ Local(t, g)
    BY <1>8 DEF CheckCanceled
  <2>3. /\ g \in TaskRecs /\ g.pc = "call" /\ g.state = s.state /\ g.outcome = s.outcome
        /\ g.canceled = s.canceled /\ g.httpRequestId = s.httpRequestId /\ g.ino = s.ino
    <3>1. "call" \in WorkerPcs
      BY DEF WorkerPcs
    <3> QED BY <1>0, <3>1 DEF TaskRecs
  <2> HIDE DEF g
  <2>4. CallOK(g, f) /\ OpenOK(g) /\ g.pc \in RunningPcs \ {"fail", "unlink", "finish", "size"}
    BY <1>0, <2>1, <2>3 DEF CallOK, OpenOK, EarlyPcs, OpenPcs, RunningPcs, WorkerPcs
  <2>5. CASE Local(t, Canceled(s))
    <3>1. /\ Canceled(s) \in TaskRecs /\ Keeps(s, Canceled(s))
          /\ TaskOK(Canceled(s), f, h) /\ Canceled(s).pc = "finish"
      BY <1>0, <2>1, CanceledOK
    <3> QED BY <2>5, <3>1, LocalInv
  <2> QED BY <1>2, <2>1, <2>2, <2>3, <2>4, <2>5
<1>9. ASSUME NEW g \in TaskRecs, Local(t, g), s.state = "RUNNING", f.pc \notin HandedPcs,
             g.state = s.state, g.pc = "finish", g.outcome \in Terminal, g.canceled = s.canceled,
             g.httpRequestId = s.httpRequestId
      PROVE  DlInv'
  <2>1. s.pc # "done"
    BY <1>0, <1>9 DEF VerdictOK, RunningPcs
  <2>2. TaskOK(g, f, h) /\ Keeps(s, g)
    BY <1>0, <1>9, <2>1 DEF TaskOK, Keeps, CallOK, VerdictOK, EventsOK, OpenOK, EarlyPcs, OpenPcs,
                            RunningPcs, WorkerPcs, Terminal
  <2> QED BY <1>9, <2>2, LocalInv
<1>10. CASE FinalSize(t)
  <2>1. s.pc = "size" /\ s.state = "RUNNING" /\ f.pc \notin HandedPcs
    BY <1>0, <1>10 DEF FinalSize, VerdictOK, RunningPcs, WorkerPcs, CallOK
  <2> DEFINE n == Len(content[dest[DestOf[t]]])
             g == [s EXCEPT !.pc = "finish", !.outcome = "COMPLETED", !.total = n]
  <2>2. Local(t, g)
    BY <1>10 DEF FinalSize
  <2>3. n \in Int
    BY <1>0, <2>1 DEF DlInv, HttpInv, HttpTypeOK
  <2> HIDE DEF n
  <2>4. /\ g \in TaskRecs /\ g.pc = "finish" /\ g.state = s.state /\ g.outcome \in Terminal
        /\ g.canceled = s.canceled /\ g.httpRequestId = s.httpRequestId
    <3>1. "finish" \in WorkerPcs /\ "COMPLETED" \in Terminal
      BY DEF WorkerPcs, Terminal
    <3> QED BY <1>0, <2>3, <3>1 DEF TaskRecs
  <2> QED BY <1>9, <2>1, <2>2, <2>4
<1>11. CASE StatPart(t)
  <2>1. s.pc = "fail" /\ s.state = "RUNNING" /\ s.outcome = "FAILED" /\ f.pc \notin HandedPcs
    BY <1>0, <1>11 DEF StatPart, VerdictOK, RunningPcs, WorkerPcs, CallOK
  <2> DEFINE g == [s EXCEPT !.pc = IF N = 0 THEN "unlink" ELSE "finish"]
  <2>2. Local(t, g)
    BY <1>11 DEF StatPart
  <2>3. /\ g \in TaskRecs /\ g.pc \in {"unlink", "finish"} /\ g.state = s.state /\ g.outcome = s.outcome
        /\ g.canceled = s.canceled /\ g.httpRequestId = s.httpRequestId
    <3>1. "unlink" \in WorkerPcs /\ "finish" \in WorkerPcs
      BY DEF WorkerPcs
    <3> QED BY <1>0, <3>1 DEF TaskRecs
  <2> HIDE DEF g
  <2>4. TaskOK(g, f, h) /\ Keeps(s, g)
    BY <1>0, <2>1, <2>3 DEF TaskOK, Keeps, CallOK, VerdictOK, EventsOK, OpenOK, EarlyPcs, OpenPcs,
                            RunningPcs, WorkerPcs
  <2> QED BY <2>2, <2>3, <2>4, LocalInv
<1>12. CASE Finish(t)
  <2>1. s.pc = "finish" /\ s.outcome # "none" /\ f.pc \notin HandedPcs
    BY <1>0, <1>12 DEF Finish, VerdictOK, CallOK
  <2>2. s.outcome \in Terminal /\ s.outcome \in States
    BY <1>0, <2>1 DEF TaskRecs, States
  <2> DEFINE g == [s EXCEPT !.state = s.outcome, !.pc = "report"]
  <2>3. Local(t, g)
    BY <1>12 DEF Finish
  <2>4. /\ g \in TaskRecs /\ g.pc = "report" /\ g.state = s.outcome /\ g.outcome = s.outcome
        /\ g.canceled = s.canceled /\ g.httpRequestId = s.httpRequestId
    <3>1. "report" \in WorkerPcs
      BY DEF WorkerPcs
    <3> QED BY <1>0, <2>2, <3>1 DEF TaskRecs
  <2> HIDE DEF g
  <2>5. CallOK(g, f) /\ OpenOK(g) /\ EventsOK(g, h) /\ Keeps(s, g)
    BY <1>0, <2>1, <2>2, <2>4 DEF CallOK, EventsOK, OpenOK, EarlyPcs, OpenPcs, Keeps, Terminal
  <2>6. VerdictOK(g)
    BY <2>2, <2>4 DEF VerdictOK, RunningPcs, Terminal
  <2> QED BY <2>3, <2>4, <2>5, <2>6, LocalInv DEF TaskOK
<1>13. CASE StoreOnDisk(t)
  <2>1. /\ s.pc = "store" /\ s.state = "RUNNING" /\ s.outcome = "none" /\ f.pc \notin HandedPcs
        /\ s.onDisk \in Nat
    BY <1>0, <1>13 DEF StoreOnDisk, VerdictOK, CallOK, RunningPcs, WorkerPcs, TaskRecs
  <2> DEFINE g == [s EXCEPT !.pc = "rename", !.downloaded = s.onDisk]
  <2>2. Local(t, g)
    BY <1>13 DEF StoreOnDisk
  <2>3. /\ g \in TaskRecs /\ g.pc = "rename" /\ g.state = s.state /\ g.outcome = s.outcome
        /\ g.canceled = s.canceled /\ g.httpRequestId = s.httpRequestId
    <3>1. "rename" \in WorkerPcs
      BY DEF WorkerPcs
    <3> QED BY <1>0, <2>1, <3>1 DEF TaskRecs
  <2> HIDE DEF g
  <2>4. CallOK(g, f) /\ OpenOK(g) /\ g.pc \in RunningPcs \ {"fail", "unlink", "finish", "size"}
    BY <1>0, <2>1, <2>3 DEF CallOK, OpenOK, EarlyPcs, OpenPcs, RunningPcs, WorkerPcs
  <2> QED BY <1>2, <2>1, <2>2, <2>3, <2>4
<1> QED BY <1>3, <1>4, <1>5, <1>6, <1>7, <1>8, <1>10, <1>11, <1>12, <1>13 DEF LocalStep

\* The variables of the http service stay as they are.
LEMMA HttpStutter ==
    ASSUME HttpInv, UNCHANGED httpVars
    PROVE  HttpInv'
BY QueueInv DEF httpVars, tableVars, HttpInv, HttpTypeOK

\* The worker's steps on the two paths, its last step, and enqueue().
LEMMA PathStepInv ==
    ASSUME DlInv, NEW t \in Tasks,
           Enqueue(t) \/ OpenPart(t) \/ Rename(t) \/ UnlinkPart(t) \/ Report(t)
    PROVE  DlInv'
<1> DEFINE s == task[t]
           f == fetch[t]
           h == events[t]
<1>0. /\ s \in TaskRecs /\ f \in Transfers /\ h \in Seq(Events)
      /\ CallOK(s, f) /\ VerdictOK(s) /\ EventsOK(s, h) /\ OpenOK(s) /\ DestOf[t] \in Dests
  BY TaskFacts
<1>1. UNCHANGED <<httpVars, mHttp, deadProxies, httpLock, registered, canceller>>
  BY DEF Enqueue, OpenPart, Rename, UnlinkPart, Report
<1>2. HttpInv'
  BY <1>1, HttpStutter DEF DlInv
<1>3. /\ fetch' = fetch /\ canceller' = canceller /\ mHttp' \in Nat /\ registered' \in Nat
      /\ deadProxies' \subseteq Nat /\ httpLock' \in Tasks \cup {NoTask, "cancel"}
      /\ relayQ' \in [Tasks -> Seq(Msgs)]
  BY <1>1 DEF httpVars, DlInv, ControlInv, DlTyped
<1>4. task \in [Tasks -> TaskRecs] /\ events \in [Tasks -> Seq(Events)]
      /\ part \in [Dests -> Inodes \cup {NoInode}] /\ dest \in [Dests -> Inodes \cup {NoInode}]
  BY DEF DlInv, ControlInv, DlTyped
<1>5. CASE Enqueue(t)
  <2> DEFINE g == [s EXCEPT !.state = "PENDING", !.pc = "start"]
  <2>1. s.pc = "none" /\ task' = [task EXCEPT ![t] = g] /\ UNCHANGED <<events, part, dest>>
    BY <1>5 DEF Enqueue
  <2>2. /\ g \in TaskRecs /\ g.pc = "start" /\ g.state = "PENDING" /\ g.outcome = s.outcome
        /\ g.canceled = s.canceled /\ g.httpRequestId = s.httpRequestId
    <3>1. "start" \in WorkerPcs /\ "PENDING" \in States
      BY DEF WorkerPcs, States
    <3> QED BY <1>0, <3>1 DEF TaskRecs
  <2>3. task'[t] = g
    BY <1>4, <2>1
  <2> HIDE DEF g
  <2>4. TaskOK(g, f, h) /\ Keeps(s, g)
    BY <1>0, <2>1, <2>2 DEF TaskOK, Keeps, CallOK, VerdictOK, EventsOK, OpenOK, EarlyPcs, OpenPcs,
                            RunningPcs, WorkerPcs
  <2>5. RestTyped /\ TaskMoves(t)
    BY <1>3, <1>4, <2>1, <2>2, <2>3, <2>4 DEF RestTyped, TaskMoves
  <2> QED BY <1>2, <1>3, <2>1, <2>2, <2>3, <2>4, <2>5, TaskMovesInv DEF DlInv
<1>6. CASE OpenPart(t)
  <2> DEFINE d == DestOf[t]
             ino == IF part[d] = NoInode THEN t ELSE part[d]
             g == [s EXCEPT !.pc = "lookup", !.ino = ino]
  <2>1. /\ s.pc = "open" /\ task' = [task EXCEPT ![t] = g] /\ UNCHANGED <<events, dest>>
        /\ part' = [part EXCEPT ![d] = ino]
    BY <1>6 DEF OpenPart
  <2>2. ino \in Inodes
    BY <1>0, <1>4, TasksAssumption
  <2> HIDE DEF ino
  <2>3. /\ g \in TaskRecs /\ g.pc = "lookup" /\ g.state = s.state /\ g.outcome = s.outcome
        /\ g.canceled = s.canceled /\ g.httpRequestId = s.httpRequestId /\ g.ino = ino
    <3>1. "lookup" \in WorkerPcs
      BY DEF WorkerPcs
    <3> QED BY <1>0, <2>2, <3>1 DEF TaskRecs
  <2>4. task'[t] = g
    BY <1>4, <2>1
  <2> HIDE DEF g
  <2>5. TaskOK(g, f, h) /\ Keeps(s, g)
    BY <1>0, <2>1, <2>2, <2>3 DEF TaskOK, Keeps, CallOK, VerdictOK, EventsOK, OpenOK, EarlyPcs, OpenPcs,
                                  RunningPcs, WorkerPcs
  <2>6. RestTyped /\ TaskMoves(t)
    BY <1>0, <1>3, <1>4, <2>1, <2>2, <2>3, <2>4, <2>5 DEF RestTyped, TaskMoves
  <2> QED BY <1>2, <1>3, <2>1, <2>3, <2>4, <2>5, <2>6, TaskMovesInv DEF DlInv
<1>7. CASE Rename(t)
  <2> DEFINE d == DestOf[t]
             g == [s EXCEPT !.pc = "size"]
  <2>1. /\ s.pc = "rename" /\ task' = [task EXCEPT ![t] = g] /\ UNCHANGED <<events>>
        /\ part[d] # NoInode /\ part' = [part EXCEPT ![d] = NoInode] /\ dest' = [dest EXCEPT ![d] = part[d]]
    BY <1>7 DEF Rename
  <2>2. /\ g \in TaskRecs /\ g.pc = "size" /\ g.state = s.state /\ g.outcome = s.outcome
        /\ g.canceled = s.canceled /\ g.httpRequestId = s.httpRequestId
    <3>1. "size" \in WorkerPcs
      BY DEF WorkerPcs
    <3> QED BY <1>0, <3>1 DEF TaskRecs
  <2>3. task'[t] = g
    BY <1>4, <2>1
  <2> HIDE DEF g
  <2>4. TaskOK(g, f, h) /\ Keeps(s, g)
    BY <1>0, <2>1, <2>2 DEF TaskOK, Keeps, CallOK, VerdictOK, EventsOK, OpenOK, EarlyPcs, OpenPcs,
                            RunningPcs, WorkerPcs
  <2>5. RestTyped /\ TaskMoves(t) /\ dest'[d] \in Inodes
    BY <1>0, <1>3, <1>4, <2>1, <2>2, <2>3, <2>4 DEF RestTyped, TaskMoves
  <2> QED BY <1>2, <1>3, <2>1, <2>2, <2>3, <2>4, <2>5, TaskMovesInv DEF DlInv
<1>8. CASE UnlinkPart(t)
  <2> DEFINE d == DestOf[t]
             g == [s EXCEPT !.pc = "finish"]
  <2>1. /\ s.pc = "unlink" /\ task' = [task EXCEPT ![t] = g] /\ UNCHANGED <<events, dest>>
        /\ part' = [part EXCEPT ![d] = NoInode]
    BY <1>8 DEF UnlinkPart
  <2>2. /\ g \in TaskRecs /\ g.pc = "finish" /\ g.state = s.state /\ g.outcome = s.outcome
        /\ g.canceled = s.canceled /\ g.httpRequestId = s.httpRequestId
    <3>1. "finish" \in WorkerPcs
      BY DEF WorkerPcs
    <3> QED BY <1>0, <3>1 DEF TaskRecs
  <2>3. task'[t] = g
    BY <1>4, <2>1
  <2> HIDE DEF g
  <2>4. TaskOK(g, f, h) /\ Keeps(s, g)
    BY <1>0, <2>1, <2>2 DEF TaskOK, Keeps, CallOK, VerdictOK, EventsOK, OpenOK, EarlyPcs, OpenPcs,
                            RunningPcs, WorkerPcs
  <2>5. RestTyped /\ TaskMoves(t)
    BY <1>0, <1>3, <1>4, <2>1, <2>2, <2>3, <2>4 DEF RestTyped, TaskMoves
  <2> QED BY <1>2, <1>3, <2>1, <2>2, <2>3, <2>4, <2>5, TaskMovesInv DEF DlInv
<1>9. CASE Report(t)
  <2> DEFINE g == [s EXCEPT !.pc = "done", !.ino = NoInode, !.http = 0]
  <2>1. /\ s.pc = "report" /\ task' = [task EXCEPT ![t] = g] /\ Told(t, s.outcome)
        /\ UNCHANGED <<part, dest>>
    BY <1>9 DEF Report
  <2>2. /\ g \in TaskRecs /\ g.pc = "done" /\ g.state = s.state /\ g.outcome = s.outcome
        /\ g.canceled = s.canceled /\ g.httpRequestId = s.httpRequestId
    <3>1. "done" \in WorkerPcs
      BY DEF WorkerPcs
    <3> QED BY <1>0, <3>1 DEF TaskRecs
  <2>3. task'[t] = g
    BY <1>4, <2>1
  <2> HIDE DEF g
  <2>4. s.outcome \in Terminal /\ s.outcome \in Events /\ s.outcome # "progress" /\ s.state = s.outcome
    BY <1>0, <2>1 DEF VerdictOK, TaskRecs, Events, Terminal
  <2>5. /\ events' \in [Tasks -> Seq(Events)] /\ events'[t] = Append(h, s.outcome)
        /\ \A u \in Tasks \ {t} : events'[u] = events[u]
    BY <1>4, <2>1, <2>4, ToldTyped
  <2>6. EventsOK(g, events'[t])
    BY <1>0, <2>1, <2>2, <2>4, <2>5, LastEvent
  <2>7. CallOK(g, f) /\ OpenOK(g) /\ VerdictOK(g) /\ Keeps(s, g)
    BY <1>0, <2>1, <2>2 DEF CallOK, OpenOK, VerdictOK, Keeps, EarlyPcs, OpenPcs, RunningPcs, WorkerPcs
  <2>8. RestTyped /\ TaskMoves(t)
    BY <1>3, <1>4, <2>1, <2>2, <2>3, <2>5, <2>7 DEF RestTyped, TaskMoves
  <2> QED BY <1>2, <1>3, <2>2, <2>3, <2>6, <2>7, <2>8, TaskMovesInv DEF DlInv, TaskOK
<1> QED BY <1>5, <1>6, <1>7, <1>8, <1>9

\* The worker's calls to the http service, through the proxy.
LEMMA CallStepInv ==
    ASSUME DlInv, NEW t \in Tasks,
           WorkerLookup(t) \/ ReserveId(t) \/ ReserveIdFails(t) \/ CallFetch(t) \/ FetchReturns(t)
    PROVE  DlInv'
<1> DEFINE s == task[t]
           f == fetch[t]
           h == events[t]
<1>0. /\ s \in TaskRecs /\ f \in Transfers /\ h \in Seq(Events)
      /\ CallOK(s, f) /\ VerdictOK(s) /\ EventsOK(s, h) /\ OpenOK(s) /\ DestOf[t] \in Dests
  BY TaskFacts
<1>1. UNCHANGED <<events, part, dest, registered, canceller>>
  BY DEF WorkerLookup, ReserveId, ReserveIdFails, CallFetch, FetchReturns
<1>2. /\ task \in [Tasks -> TaskRecs] /\ mHttp \in Nat /\ registered \in Nat
      /\ events' \in [Tasks -> Seq(Events)]
      /\ part' \in [Dests -> Inodes \cup {NoInode}] /\ dest' \in [Dests -> Inodes \cup {NoInode}]
      /\ mHttp' \in Nat /\ registered' \in Nat /\ deadProxies' \subseteq Nat
      /\ httpLock' \in Tasks \cup {NoTask, "cancel"} /\ relayQ' \in [Tasks -> Seq(Msgs)]
  <2>1. DlTyped
    BY DEF DlInv, ControlInv
  <2>2. relayQ' = relayQ
    BY DEF WorkerLookup, ReserveId, ReserveIdFails, CallFetch, FetchReturns, NewRequestId, FetchToFd, httpVars
  <2>3. s.http \in Nat /\ f.inst \in Nat
    BY <1>0 DEF TaskRecs, Transfers
  <2>4. deadProxies' \subseteq Nat
    BY <2>1, <2>3 DEF DlTyped, WorkerLookup, ReserveId, ReserveIdFails, CallFetch, FetchReturns
  <2>5. mHttp' \in Nat /\ httpLock' \in Tasks \cup {NoTask, "cancel"}
    BY <2>1 DEF DlTyped, WorkerLookup, ReserveId, ReserveIdFails, CallFetch, FetchReturns,
                ProxyCached, ProxyDropped, ProxyFound, ProxyTimeout
  <2> QED BY <1>1, <2>1, <2>2, <2>4, <2>5 DEF DlTyped
<1>3. RestTyped
  BY <1>1, <1>2 DEF RestTyped
<1>4. ASSUME NEW g \in TaskRecs, task' = [task EXCEPT ![t] = g], Keeps(s, g), TaskOK(g, fetch'[t], h),
             g.pc # "size", \A u \in Tasks \ {t} : fetch'[u] = fetch[u]
      PROVE  ControlInv'
  <2>1. task'[t] = g
    BY <1>2, <1>4
  <2>2. TaskMoves(t)
    BY <1>1, <1>4, <2>1 DEF TaskMoves
  <2> QED BY <1>1, <1>3, <1>4, <2>1, <2>2, TaskMovesInv DEF DlInv
<1>5. CASE WorkerLookup(t)
  <2>1. UNCHANGED httpVars /\ fetch' = fetch
    BY <1>5 DEF WorkerLookup, httpVars
  <2>2. s.pc \in {"lookup", "polling"} /\ s.state = "RUNNING" /\ f.pc = "none" /\ f.pc \notin HandedPcs
    BY <1>0, <1>5, PcSets DEF WorkerLookup, VerdictOK, CallOK, RunningPcs, WorkerPcs, EarlyPcs, HandedPcs
  <2>3. \/ \E n \in Nat : task' = [task EXCEPT ![t] = [s EXCEPT !.pc = "newId", !.http = n]]
        \/ task' = [task EXCEPT ![t] = [s EXCEPT !.pc = "polling"]]
        \/ task' = [task EXCEPT ![t] = Failed(s, "ERROR_HTTP_SERVICE")]
    BY <1>2, <1>5 DEF WorkerLookup
  <2>4. ASSUME NEW g \in TaskRecs, task' = [task EXCEPT ![t] = g], g.pc \in {"newId", "polling"},
               g.state = s.state, g.outcome = s.outcome, g.canceled = s.canceled,
               g.httpRequestId = s.httpRequestId, g.ino = s.ino
        PROVE  ControlInv'
    <3>1. TaskOK(g, f, h) /\ Keeps(s, g)
      BY <1>0, <2>2, <2>4 DEF TaskOK, Keeps, CallOK, VerdictOK, EventsOK, OpenOK, EarlyPcs, OpenPcs,
                              RunningPcs, WorkerPcs
    <3> QED BY <1>4, <2>1, <2>4, <3>1
  <2>5. ASSUME NEW n \in Nat, task' = [task EXCEPT ![t] = [s EXCEPT !.pc = "newId", !.http = n]]
        PROVE  ControlInv'
    <3> DEFINE g == [s EXCEPT !.pc = "newId", !.http = n]
    <3>1. "newId" \in WorkerPcs
      BY DEF WorkerPcs
    <3>2. /\ g \in TaskRecs /\ g.pc = "newId" /\ g.state = s.state /\ g.outcome = s.outcome
          /\ g.canceled = s.canceled /\ g.httpRequestId = s.httpRequestId /\ g.ino = s.ino
      BY <1>0, <3>1 DEF TaskRecs
    <3> QED BY <2>4, <2>5, <3>2
  <2>6. ASSUME task' = [task EXCEPT ![t] = [s EXCEPT !.pc = "polling"]]
        PROVE  ControlInv'
    <3> DEFINE g == [s EXCEPT !.pc = "polling"]
    <3>1. "polling" \in WorkerPcs
      BY DEF WorkerPcs
    <3>2. /\ g \in TaskRecs /\ g.pc = "polling" /\ g.state = s.state /\ g.outcome = s.outcome
          /\ g.canceled = s.canceled /\ g.httpRequestId = s.httpRequestId /\ g.ino = s.ino
      BY <1>0, <3>1 DEF TaskRecs
    <3> QED BY <2>4, <2>6, <3>2
  <2>7. ASSUME task' = [task EXCEPT ![t] = Failed(s, "ERROR_HTTP_SERVICE")]
        PROVE  ControlInv'
    <3>1. "ERROR_HTTP_SERVICE" \in Errors
      BY DEF Errors
    <3>2. /\ Failed(s, "ERROR_HTTP_SERVICE") \in TaskRecs /\ Keeps(s, Failed(s, "ERROR_HTTP_SERVICE"))
          /\ TaskOK(Failed(s, "ERROR_HTTP_SERVICE"), f, h) /\ Failed(s, "ERROR_HTTP_SERVICE").pc = "fail"
      BY <1>0, <2>2, <3>1, FailedOK
    <3> QED BY <1>4, <2>1, <2>7, <3>2
  <2>8. ControlInv'
    BY <2>3, <2>5, <2>6, <2>7
  <2> QED BY <2>1, <2>8, HttpStutter DEF DlInv
<1>6. CASE ReserveId(t)
  <2> DEFINE g == [s EXCEPT !.pc = "publish"]
  <2>1. s.pc = "newId" /\ task' = [task EXCEPT ![t] = g] /\ NewRequestId(t)
    BY <1>6 DEF ReserveId
  <2>2. /\ g \in TaskRecs /\ g.pc = "publish" /\ g.state = s.state /\ g.outcome = s.outcome
        /\ g.canceled = s.canceled /\ g.httpRequestId = s.httpRequestId /\ g.ino = s.ino
    <3>1. "publish" \in WorkerPcs
      BY DEF WorkerPcs
    <3> QED BY <1>0, <3>1 DEF TaskRecs
  <2>3. fetch'[t].pc = "reserved" /\ \A u \in Tasks \ {t} : fetch'[u] = fetch[u]
    BY <1>0, <2>1 DEF NewRequestId, Transfers, DlInv, HttpInv, HttpTypeOK
  <2> HIDE DEF g
  <2>4. TaskOK(g, fetch'[t], h) /\ Keeps(s, g)
    BY <1>0, <2>1, <2>2, <2>3, PcSets DEF TaskOK, Keeps, CallOK, VerdictOK, EventsOK, OpenOK, EarlyPcs,
                                          OpenPcs, RunningPcs, WorkerPcs, HandedPcs
  <2>5. HttpInv'
    BY <2>1, NewRequestIdInv DEF DlInv
  <2> QED BY <1>4, <2>1, <2>2, <2>3, <2>4, <2>5 DEF DlInv
<1>7. CASE ReserveIdFails(t)
  <2>1. /\ s.pc = "newId" /\ task' = [task EXCEPT ![t] = Failed(s, "ERROR_HTTP_SERVICE")]
        /\ UNCHANGED httpVars /\ fetch' = fetch
    BY <1>7 DEF ReserveIdFails, httpVars
  <2>2. s.state = "RUNNING" /\ f.pc \notin HandedPcs /\ "ERROR_HTTP_SERVICE" \in Errors
    BY <1>0, <2>1 DEF VerdictOK, CallOK, RunningPcs, WorkerPcs, Errors
  <2>3. /\ Failed(s, "ERROR_HTTP_SERVICE") \in TaskRecs /\ Keeps(s, Failed(s, "ERROR_HTTP_SERVICE"))
        /\ TaskOK(Failed(s, "ERROR_HTTP_SERVICE"), f, h) /\ Failed(s, "ERROR_HTTP_SERVICE").pc = "fail"
    BY <1>0, <2>2, FailedOK
  <2> QED BY <1>4, <2>1, <2>3, HttpStutter DEF DlInv
<1>8. CASE CallFetch(t)
  <2> DEFINE g == [s EXCEPT !.pc = "fetching"]
  <2>1. s.pc = "call" /\ task' = [task EXCEPT ![t] = g] /\ FetchToFd(t, s.ino, s.resume)
    BY <1>8 DEF CallFetch
  <2>2. /\ g \in TaskRecs /\ g.pc = "fetching" /\ g.state = s.state /\ g.outcome = s.outcome
        /\ g.canceled = s.canceled /\ g.httpRequestId = s.httpRequestId /\ g.ino = s.ino
    <3>1. "fetching" \in WorkerPcs
      BY DEF WorkerPcs
    <3> QED BY <1>0, <3>1 DEF TaskRecs
  <2>3. fetch'[t].pc \in {"queued", "replied"} /\ fetch'[t].id = f.id
    <3>1. fetch'[t] = [f EXCEPT !.pc = "queued", !.ino = s.ino, !.resume = s.resume]
          \/ fetch'[t] = ReplyOf(f, "DEAD_OBJECT")
      BY <2>1 DEF FetchToFd, DlInv, HttpInv, HttpTypeOK
    <3>2. /\ ReplyOf(f, "DEAD_OBJECT").pc = "replied" /\ ReplyOf(f, "DEAD_OBJECT").id = f.id
      BY <1>0, ReplyTyped DEF Results
    <3> QED BY <1>0, <3>1, <3>2 DEF Transfers
  <2>4. \A u \in Tasks \ {t} : fetch'[u] = fetch[u]
    BY <2>1 DEF FetchToFd, DlInv, HttpInv, HttpTypeOK
  <2> HIDE DEF g
  <2>5. CallOK(g, fetch'[t])
    BY <1>0, <2>1, <2>2, <2>3 DEF CallOK, EarlyPcs
  <2>6. VerdictOK(g) /\ EventsOK(g, h) /\ OpenOK(g) /\ Keeps(s, g)
    BY <1>0, <2>1, <2>2 DEF Keeps, VerdictOK, EventsOK, OpenOK, OpenPcs, RunningPcs, WorkerPcs
  <2>7. HttpInv'
    <3>1. s.ino \in Inodes /\ s.resume \in Nat
      BY <1>0, <2>1 DEF OpenOK, OpenPcs, TaskRecs
    <3> QED BY <2>1, <3>1, FetchToFdInv DEF DlInv
  <2> QED BY <1>4, <2>1, <2>2, <2>4, <2>5, <2>6, <2>7 DEF DlInv, TaskOK
<1>9. CASE FetchReturns(t)
  <2>1. s.pc = "fetching" /\ f.pc = "replied" /\ UNCHANGED httpVars /\ fetch' = fetch
    BY <1>9 DEF FetchReturns, httpVars
  <2>2. s.state = "RUNNING" /\ f.pc \notin HandedPcs /\ s.outcome = "none"
    BY <1>0, <2>1, PcSets DEF VerdictOK, RunningPcs, WorkerPcs, HandedPcs
  <2> DEFINE n == s.resumedFrom + f.written
             g == [s EXCEPT !.pc = "store", !.onDisk = n]
  <2>3. \/ task' = [task EXCEPT ![t] = g]
        \/ task' = [task EXCEPT ![t] = Canceled(s)]
        \/ \E e \in Errors : task' = [task EXCEPT ![t] = Failed(s, e)]
    BY <1>9 DEF FetchReturns, Errors
  <2>4. n \in Nat
    <3>1. s.resumedFrom \in Nat
      BY <1>0 DEF TaskRecs
    <3>2. f.written \in Nat
      BY <1>0 DEF Transfers
    <3> QED BY <3>1, <3>2
  <2>5. ASSUME task' = [task EXCEPT ![t] = g] PROVE ControlInv'
    <3> HIDE DEF n
    <3>1. "store" \in WorkerPcs
      BY DEF WorkerPcs
    <3>2. /\ g \in TaskRecs /\ g.pc = "store" /\ g.state = s.state /\ g.outcome = s.outcome
          /\ g.canceled = s.canceled /\ g.httpRequestId = s.httpRequestId
      BY <1>0, <2>4, <3>1 DEF TaskRecs
    <3> HIDE DEF g
    <3>3. TaskOK(g, f, h) /\ Keeps(s, g)
      BY <1>0, <2>1, <2>2, <3>2 DEF TaskOK, Keeps, CallOK, VerdictOK, EventsOK, OpenOK, EarlyPcs, OpenPcs,
                                    RunningPcs, WorkerPcs
    <3> QED BY <1>4, <2>1, <2>5, <3>2, <3>3
  <2>6. ASSUME task' = [task EXCEPT ![t] = Canceled(s)] PROVE ControlInv'
    <3>1. /\ Canceled(s) \in TaskRecs /\ Keeps(s, Canceled(s))
          /\ TaskOK(Canceled(s), f, h) /\ Canceled(s).pc = "finish"
      BY <1>0, <2>2, CanceledOK
    <3> QED BY <1>4, <2>1, <2>6, <3>1
  <2>7. ASSUME NEW e \in Errors, task' = [task EXCEPT ![t] = Failed(s, e)] PROVE ControlInv'
    <3>1. /\ Failed(s, e) \in TaskRecs /\ Keeps(s, Failed(s, e))
          /\ TaskOK(Failed(s, e), f, h) /\ Failed(s, e).pc = "fail"
      BY <1>0, <2>2, FailedOK
    <3> QED BY <1>4, <2>1, <2>7, <3>1
  <2>8. ControlInv'
    BY <2>3, <2>5, <2>6, <2>7
  <2> QED BY <2>1, <2>8, HttpStutter DEF DlInv
<1> QED BY <1>5, <1>6, <1>7, <1>8, <1>9

-------------------------------------------------------------------------------
(* cancel(), the relay and the registry *)

\* A step that leaves tasks, calls and files alone.
LEMMA OtherStepInv ==
    ASSUME DlInv, HttpInv', CancellerFacts', canceller' \in CancellerRecs,
           mHttp' \in Nat, registered' \in Nat, deadProxies' \subseteq Nat,
           httpLock' \in Tasks \cup {NoTask, "cancel"},
           UNCHANGED <<task, fetch, events, part, dest, relayQ>>
    PROVE  DlInv'
<1>1. DlTyped'
  BY DEF DlInv, ControlInv, DlTyped
<1>2. TasksOK'
  BY DEF DlInv, ControlInv, TasksOK
<1> QED BY <1>1, <1>2 DEF DlInv, ControlInv

\* The client's cancel, and the steps of its handler that only look.
LEMMA CancelStepInv ==
    ASSUME DlInv, (\E t \in Tasks : ClientCancel(t)) \/ ReadId \/ CancelLookup \/ ForwardCancel
    PROVE  DlInv'
<1>0. DlTyped /\ CancellerFacts /\ HttpInv /\ canceller \in CancellerRecs
  BY DEF DlInv, ControlInv, DlTyped
<1>1. Idle \in CancellerRecs /\ Idle.pc = "idle"
  BY DEF Idle, CancellerRecs
<1>2. ASSUME NEW t \in Tasks, ClientCancel(t)
      PROVE  DlInv'
  <2> DEFINE g == [canceller EXCEPT !.pc = "flag", !.task = t]
  <2>1. /\ canceller = Idle /\ task[t].state # "UNKNOWN" /\ cancels' = cancels + 1
        /\ canceller' = Idle \/ canceller' = g
        /\ UNCHANGED <<task, events, part, dest, mHttp, deadProxies, httpLock, registered,
                       up, instance, tableVars, fetch, content, relayQ, cancelQ, doomed>>
    BY <1>2 DEF ClientCancel
  <2>2. g \in CancellerRecs /\ g.pc = "flag" /\ g.task = t
    BY <1>0 DEF CancellerRecs
  <2> HIDE DEF g
  <2>3. CancellerFacts' /\ canceller' \in CancellerRecs
    BY <1>1, <2>1, <2>2 DEF CancellerFacts
  <2>4. HttpInv'
    BY <1>0, <2>1, QueueInv DEF HttpInv, HttpTypeOK
  <2> QED BY <1>0, <2>1, <2>3, <2>4, OtherStepInv DEF DlTyped
<1>3. CASE ReadId
  <2> DEFINE id == task[canceller.task].httpRequestId
             g == [canceller EXCEPT !.pc = "lookup", !.id = id]
  <2>1. /\ canceller.pc = "readId" /\ canceller' = (IF id >= 0 THEN g ELSE Idle)
        /\ UNCHANGED <<httpVars, task, events, part, dest, mHttp, deadProxies, httpLock, registered>>
    BY <1>3 DEF ReadId
  <2>2. canceller.task \in Tasks /\ task[canceller.task] \in TaskRecs
    BY <1>0, <2>1 DEF CancellerFacts, DlTyped
  <2>3. id \in Ids \cup {-1}
    BY <2>2 DEF TaskRecs
  <2>4. g \in CancellerRecs /\ g.pc = "lookup" /\ g.task = canceller.task /\ g.id = id
    BY <1>0, <2>3 DEF CancellerRecs
  <2> HIDE DEF g
  <2>5. CancellerFacts' /\ canceller' \in CancellerRecs
    BY <1>0, <1>1, <2>1, <2>2, <2>4 DEF CancellerFacts
  <2> QED BY <1>0, <2>1, <2>5, OtherStepInv, HttpStutter DEF DlTyped, httpVars
<1>4. CASE CancelLookup
  <2>1. /\ canceller.pc \in {"lookup", "polling"}
        /\ UNCHANGED <<httpVars, task, events, part, dest, deadProxies, registered>>
    BY <1>4 DEF CancelLookup
  <2>2. \/ \E n \in Nat : canceller' = [canceller EXCEPT !.pc = "send", !.http = n]
        \/ canceller' = [canceller EXCEPT !.pc = "polling"]
        \/ canceller' = Idle
    BY <1>0, <1>4 DEF CancelLookup, DlTyped
  <2>3. mHttp' \in Nat /\ httpLock' \in Tasks \cup {NoTask, "cancel"}
    BY <1>0, <1>4 DEF CancelLookup, DlTyped, ProxyCached, ProxyDropped, ProxyFound, ProxyTimeout
  <2>4. \/ canceller' = Idle
        \/ /\ canceller' \in CancellerRecs /\ canceller'.pc \in {"polling", "send"}
           /\ canceller'.task = canceller.task /\ canceller'.id = canceller.id
    BY <1>0, <2>2 DEF CancellerRecs
  <2>5. CancellerFacts' /\ canceller' \in CancellerRecs
    BY <1>0, <1>1, <2>1, <2>4 DEF CancellerFacts
  <2> QED BY <1>0, <2>1, <2>3, <2>5, OtherStepInv, HttpStutter DEF DlTyped, httpVars
<1>5. CASE ForwardCancel
  <2>1. /\ canceller.pc = "send" /\ SendCancel(canceller.http, canceller.id) /\ canceller' = Idle
        /\ UNCHANGED <<up, instance, tableVars, fetch, content, relayQ, cancels, doomed, task,
                       events, part, dest, mHttp, httpLock, registered>>
    BY <1>5 DEF ForwardCancel
  <2>2. canceller.id \in Ids /\ canceller.http \in Nat
    BY <1>0, <2>1 DEF CancellerFacts, CancellerRecs
  <2>3. cancelQ' \in Seq(Ids)
    BY <1>0, <2>1, <2>2 DEF SendCancel, HttpInv, HttpTypeOK
  <2>4. deadProxies' \subseteq Nat
    BY <1>0, <1>5, <2>2 DEF ForwardCancel, DlTyped
  <2>5. HttpInv'
    BY <1>0, <2>1, <2>3, QueueInv DEF HttpInv, HttpTypeOK
  <2>6. CancellerFacts' /\ canceller' \in CancellerRecs
    BY <1>1, <2>1 DEF CancellerFacts
  <2> QED BY <1>0, <2>1, <2>4, <2>5, <2>6, OtherStepInv DEF DlTyped
<1> QED BY <1>2, <1>3, <1>4, <1>5

\* cancel() stores the flag.
LEMMA SetFlagInv ==
    ASSUME DlInv, SetFlag
    PROVE  DlInv'
<1> DEFINE t == canceller.task
           g == [task[t] EXCEPT !.canceled = TRUE]
           k == [canceller EXCEPT !.pc = "readId"]
<1>0. DlTyped /\ CancellerFacts /\ TasksOK /\ HttpInv /\ canceller \in CancellerRecs
  BY DEF DlInv, ControlInv, DlTyped
<1>1. /\ canceller.pc = "flag" /\ task' = [task EXCEPT ![t] = g] /\ canceller' = k
      /\ UNCHANGED <<httpVars, events, part, dest, mHttp, deadProxies, httpLock, registered>>
  BY DEF SetFlag
<1>2. t \in Tasks /\ task[t].state # "UNKNOWN" /\ task[t] \in TaskRecs
  BY <1>0, <1>1 DEF CancellerFacts, DlTyped
<1>3. /\ g \in TaskRecs /\ g.canceled /\ g.pc = task[t].pc /\ g.state = task[t].state
      /\ g.outcome = task[t].outcome /\ g.httpRequestId = task[t].httpRequestId /\ g.ino = task[t].ino
  BY <1>2 DEF TaskRecs
<1>4. k \in CancellerRecs /\ k.pc = "readId" /\ k.task = t
  BY <1>0 DEF CancellerRecs
<1> HIDE DEF g, k
<1>5. task'[t] = g /\ \A u \in Tasks \ {t} : task'[u] = task[u]
  BY <1>0, <1>1, <1>2 DEF DlTyped
<1>6. CancellerFacts'
  BY <1>1, <1>2, <1>3, <1>4, <1>5 DEF CancellerFacts
<1>7. DlTyped'
  BY <1>0, <1>1, <1>3, <1>4 DEF DlTyped, httpVars
<1>8. TaskOK(g, fetch[t], events[t])
  BY <1>0, <1>2, <1>3 DEF TasksOK, TaskOK, CallOK, VerdictOK, EventsOK, OpenOK
<1>9. TasksOK'
  BY <1>0, <1>1, <1>3, <1>5, <1>8 DEF TasksOK, httpVars
<1> QED BY <1>0, <1>1, <1>6, <1>7, <1>9, HttpStutter DEF DlInv, ControlInv

\* The relay's two handlers store counters of the task.
LEMMA RelayShape ==
    ASSUME DlInv, NEW t \in Tasks, Relay(t)
    PROVE  \E n \in Nat, r \in Nat, m \in Int :
             task' = [task EXCEPT ![t] = [task[t] EXCEPT !.downloaded = n, !.resumedFrom = r, !.total = m]]
<1> DEFINE s == task[t]
           q == relayQ[t]
<1>0. s \in TaskRecs
  BY TaskFacts
<1>1. q \in Seq(Msgs) /\ q # << >>
  BY DEF DlInv, ControlInv, DlTyped, Relay, OnResponseStart, OnBytesReceived
<1>3. Head(q) \in Msgs
  BY <1>1
<1>4. Head(q)[2] \in Nat /\ Head(q)[3] \in Int
  BY <1>3 DEF Msgs
<1>5. CASE OnResponseStart(t)
  <2>1. task' = [task EXCEPT ![t] = [s EXCEPT !.downloaded = Head(q)[2], !.resumedFrom = Head(q)[2],
                                              !.total = Head(q)[3]]]
    BY <1>0, <1>5 DEF OnResponseStart, TaskRecs
  <2> QED BY <1>4, <2>1
<1>6. CASE OnBytesReceived(t)
  <2> DEFINE n == s.resumedFrom + Head(q)[2]
             m == IF Head(q)[3] >= 0 THEN Head(q)[3] ELSE s.total
  <2>1. n \in Nat /\ m \in Int /\ s.resumedFrom \in Nat
    BY <1>0, <1>4 DEF TaskRecs
  <2>2. task' = [task EXCEPT ![t] = [s EXCEPT !.downloaded = n, !.total = m]]
    BY <1>6 DEF OnBytesReceived
  <2>3. [s EXCEPT !.downloaded = n, !.total = m] =
          [s EXCEPT !.downloaded = n, !.resumedFrom = s.resumedFrom, !.total = m]
    BY <1>0 DEF TaskRecs
  <2> QED BY <2>1, <2>2, <2>3
<1> QED BY <1>5, <1>6 DEF Relay

\* The relay's two handlers.
LEMMA RelayInv ==
    ASSUME DlInv, NEW t \in Tasks, Relay(t)
    PROVE  DlInv'
<1> DEFINE s == task[t]
           q == relayQ[t]
<1>0. /\ s \in TaskRecs /\ fetch[t] \in Transfers /\ events[t] \in Seq(Events)
      /\ CallOK(s, fetch[t]) /\ VerdictOK(s) /\ EventsOK(s, events[t]) /\ OpenOK(s)
      /\ (s.pc = "size" => dest[DestOf[t]] \in Inodes)
  BY TaskFacts
<1>1. DlTyped /\ HttpInv /\ q \in Seq(Msgs) /\ q # << >>
  BY DEF DlInv, ControlInv, DlTyped, Relay, OnResponseStart, OnBytesReceived
<1>2. /\ relayQ' = [relayQ EXCEPT ![t] = Tail(q)]
      /\ UNCHANGED <<up, instance, tableVars, fetch, content, cancelQ, cancels, doomed,
                     part, dest, mHttp, deadProxies, httpLock, registered, canceller>>
      /\ Told(t, "started") \/ Told(t, "progress") \/ UNCHANGED events
  BY DEF Relay, OnResponseStart, OnBytesReceived
<1>3. Head(q) \in Msgs /\ Tail(q) \in Seq(Msgs)
  BY <1>1
<1>6. PICK n \in Nat, r \in Nat, m \in Int :
        task' = [task EXCEPT ![t] = [s EXCEPT !.downloaded = n, !.resumedFrom = r, !.total = m]]
  BY RelayShape
<1> DEFINE g == [s EXCEPT !.downloaded = n, !.resumedFrom = r, !.total = m]
<1>7. /\ g \in TaskRecs /\ g.pc = s.pc /\ g.state = s.state /\ g.outcome = s.outcome
      /\ g.canceled = s.canceled /\ g.httpRequestId = s.httpRequestId /\ g.ino = s.ino
  BY <1>0 DEF TaskRecs
<1>8. task'[t] = g
  BY <1>1, <1>6 DEF DlTyped
<1> HIDE DEF g
<1>9. /\ events' \in [Tasks -> Seq(Events)] /\ \A u \in Tasks \ {t} : events'[u] = events[u]
      /\ EventsOK(s, events'[t])
  <2>1. "started" \in Events \ Terminal /\ "progress" \in Events \ Terminal
    BY DEF Events, Terminal
  <2>2. CASE UNCHANGED events
    BY <1>0, <1>1, <2>2 DEF DlTyped
  <2>3. ASSUME NEW e \in Events \ Terminal, Told(t, e)
        PROVE  <1>9!:
    <3>1. /\ events' \in [Tasks -> Seq(Events)] /\ \A u \in Tasks \ {t} : events'[u] = events[u]
          /\ events'[t] = Append(events[t], e) \/ events'[t] = events[t]
      BY <1>1, <2>3, ToldTyped DEF DlTyped
    <3>2. EventsOK(s, Append(events[t], e))
      BY <1>0, MildEvent
    <3> QED BY <1>0, <3>1, <3>2
  <2> QED BY <1>2, <2>1, <2>2, <2>3
<1>10. TaskOK(g, fetch'[t], events'[t]) /\ Keeps(s, g)
  <2>1. fetch'[t] = fetch[t]
    BY <1>2
  <2> QED BY <1>0, <1>7, <1>9, <2>1 DEF TaskOK, Keeps, CallOK, VerdictOK, EventsOK, OpenOK
<1>11. relayQ' \in [Tasks -> Seq(Msgs)]
  BY <1>1, <1>2, <1>3 DEF DlTyped
<1>12. RestTyped /\ TaskMoves(t)
  BY <1>1, <1>2, <1>6, <1>7, <1>8, <1>9, <1>10, <1>11 DEF RestTyped, TaskMoves, DlTyped, g
<1>13. HttpInv'
  BY <1>1, <1>2, <1>11, QueueInv DEF HttpInv, HttpTypeOK
<1> QED BY <1>0, <1>2, <1>7, <1>8, <1>10, <1>12, <1>13, TaskMovesInv DEF DlInv

\* servicemanager's entry.
LEMMA RegistryInv ==
    ASSUME DlInv, Register \/ Reap
    PROVE  DlInv'
<1>1. /\ UNCHANGED <<httpVars, task, events, part, dest, mHttp, deadProxies, httpLock, canceller>>
      /\ registered' = instance \/ registered' = 0
  BY DEF Register, Reap
<1>2. registered' \in Nat
  BY <1>1 DEF DlInv, HttpInv, HttpTypeOK
<1>3. CancellerFacts' /\ UNCHANGED <<fetch, relayQ>>
  BY <1>1 DEF CancellerFacts, DlInv, ControlInv, httpVars
<1> QED BY <1>1, <1>2, <1>3, HttpStutter, OtherStepInv DEF DlInv, ControlInv, DlTyped

-------------------------------------------------------------------------------
(* The http process *)

\* What a step of the process can do to a call.
Served1(f, g) ==
    /\ g.id = f.id /\ g.inst = f.inst
    /\ g = f \/ (f.pc \in HandedPcs /\ g.pc \in ServedPcs \cup {"replied"})

\* The process moves the calls it has in its hands, and no others.
LEMMA ProcessCalls ==
    ASSUME HttpInv, HttpProcess
    PROVE  \A c \in Calls : Served1(fetch[c], fetch'[c])
<1>0. HttpTypeOK /\ fetch \in [Calls -> Transfers]
  BY DEF HttpInv, HttpTypeOK
<1>1. ASSUME NEW c \in Calls, Transport(c)
      PROVE  \A d \in Calls : Served1(fetch[d], fetch'[d])
  <2>1. Moves(c)
    BY <1>0, <1>1, TransportMoves
  <2> QED BY <2>1, PcSets DEF Moves, Served1, HandedPcs
<1>2. ASSUME NEW c \in Calls, NEW g \in Transfers, fetch' = [fetch EXCEPT ![c] = g],
             Served1(fetch[c], g)
      PROVE  \A d \in Calls : Served1(fetch[d], fetch'[d])
  BY <1>0, <1>2 DEF Served1
<1>3. ASSUME NEW c \in Calls, BeginRequest(c) \/ CountRequest(c) \/ UncountRequest(c)
      PROVE  \A d \in Calls : Served1(fetch[d], fetch'[d])
  <2>1. PICK pc \in {"begun", "hop", "ended"} : fetch' = [fetch EXCEPT ![c] = [fetch[c] EXCEPT !.pc = pc]]
    BY <1>3 DEF BeginRequest, CountRequest, UncountRequest
  <2>2. fetch[c].pc \in HandedPcs /\ pc \in ServedPcs /\ pc \in FetchPcs
    BY <1>3, PcSets DEF BeginRequest, CountRequest, UncountRequest, HandedPcs
  <2> DEFINE g == [fetch[c] EXCEPT !.pc = pc]
  <2>3. g \in Transfers /\ g.pc = pc /\ g.id = fetch[c].id /\ g.inst = fetch[c].inst
    BY <1>0, <2>2, PcTyped
  <2> QED BY <1>2, <2>1, <2>2, <2>3 DEF Served1
<1>4. ASSUME NEW c \in Calls, RejectSink(c) \/ EndRequest(c)
      PROVE  \A d \in Calls : Served1(fetch[d], fetch'[d])
  <2>1. fetch[c].result \in Results /\ "ERROR_WRITE" \in Results
    BY <1>0 DEF Transfers, Results
  <2>2. PICK r \in Results : fetch' = [fetch EXCEPT ![c] = ReplyOf(fetch[c], r)]
    BY <1>4, <2>1 DEF RejectSink, EndRequest
  <2>3. fetch[c].pc \in HandedPcs
    BY <1>4, PcSets DEF RejectSink, EndRequest, HandedPcs
  <2> DEFINE g == ReplyOf(fetch[c], r)
  <2>4. g \in Transfers /\ g.pc = "replied" /\ g.id = fetch[c].id /\ g.inst = fetch[c].inst
    BY <1>0, ReplyTyped
  <2> QED BY <1>2, <2>2, <2>3, <2>4 DEF Served1
<1>5. CASE Crash
  <2>1. ASSUME NEW c \in Calls PROVE Served1(fetch[c], fetch'[c])
    <3>1. fetch'[c] = IF fetch[c].pc \in HandedPcs THEN ReplyOf(fetch[c], "DEAD_OBJECT") ELSE fetch[c]
      BY <1>5 DEF Crash, HandedPcs
    <3>2. /\ ReplyOf(fetch[c], "DEAD_OBJECT").pc = "replied"
          /\ ReplyOf(fetch[c], "DEAD_OBJECT").id = fetch[c].id
          /\ ReplyOf(fetch[c], "DEAD_OBJECT").inst = fetch[c].inst
      BY <1>0, ReplyTyped DEF Results
    <3> QED BY <3>1, <3>2 DEF Served1
  <2> QED BY <2>1
<1>6. CASE GetStringBegin \/ GetStringEnd \/ CancelHandler \/ Restart \/ \E id \in Ids : Expire(id)
  <2>1. fetch' = fetch
    BY <1>6 DEF GetStringBegin, GetStringEnd, CancelHandler, Restart, Expire
  <2> QED BY <2>1 DEF Served1
<1> QED BY <1>1, <1>3, <1>4, <1>5, <1>6 DEF HttpProcess, Accept, Transfer, Transport

\* It sends well-formed reports.
LEMMA ProcessRelay ==
    ASSUME HttpInv, HttpProcess, relayQ \in [Calls -> Seq(Msgs)]
    PROVE  relayQ' \in [Calls -> Seq(Msgs)]
<1>0. fetch \in [Calls -> Transfers]
  BY DEF HttpInv, HttpTypeOK
<1>1. ASSUME NEW c \in Calls, NEW m \in Msgs, relayQ' = [relayQ EXCEPT ![c] = Append(@, m)]
      PROVE  relayQ' \in [Calls -> Seq(Msgs)]
  <2>1. Append(relayQ[c], m) \in Seq(Msgs)
    OBVIOUS
  <2> QED BY <1>1, <2>1
<1>2. ASSUME NEW c \in Calls, RecvHead(c)
      PROVE  relayQ' \in [Calls -> Seq(Msgs)]
  <2>1. PICK f \in Framings : \E a \in Answers(fetch[c].resume, f) : OnHeaders(c, f, a)
    BY <1>2 DEF RecvHead
  <2>2. PICK a \in Answers(fetch[c].resume, f) : OnHeaders(c, f, a)
    BY <2>1
  <2>3. fetch[c].resume \in Nat
    BY <1>0 DEF Transfers
  <2>4. a.start \in Nat /\ a.total \in Int
    BY <2>3, SizeAssumption DEF Answers
  <2>5. <<"start", a.start, a.total>> \in Msgs
    BY <2>4 DEF Msgs
  <2> QED BY <1>1, <2>2, <2>5 DEF OnHeaders
<1>3. ASSUME NEW c \in Calls, RecvBody(c)
      PROVE  relayQ' \in [Calls -> Seq(Msgs)]
  <2>0. fetch[c] \in Transfers /\ Remaining(c) \in Int
    BY <1>0, SizeAssumption DEF Transfers, Remaining
  <2>1. PICK k \in 1..Remaining(c) : OnBody(c, k)
    BY <1>3 DEF RecvBody
  <2>2. fetch[c].written + k \in Nat /\ fetch[c].total \in Int
    BY <2>0 DEF Transfers
  <2>3. \/ relayQ' = relayQ
        \/ relayQ' = [relayQ EXCEPT ![c] = Append(@, <<"bytes", fetch[c].written + k, fetch[c].total>>)]
    BY <2>0, <2>1 DEF OnBody, Transfers
  <2>4. <<"bytes", fetch[c].written + k, fetch[c].total>> \in Msgs
    BY <2>2 DEF Msgs
  <2> QED BY <1>1, <2>3, <2>4
<1>4. ASSUME NEW c \in Calls, EndRequest(c)
      PROVE  relayQ' \in [Calls -> Seq(Msgs)]
  <2>1. fetch[c].written \in Nat /\ fetch[c].total \in Int
    BY <1>0 DEF Transfers
  <2>2. <<"bytes", fetch[c].written, fetch[c].total>> \in Msgs
    BY <2>1 DEF Msgs
  <2> QED BY <1>1, <1>4, <2>2 DEF EndRequest
<1>5. ASSUME NEW c \in Calls, Accept(c) \/ Transfer(c), ~RecvHead(c), ~RecvBody(c), ~EndRequest(c)
      PROVE  relayQ' = relayQ
  BY <1>5 DEF Accept, Transfer, BeginRequest, RejectSink, CountRequest, StartHop, Connect, Poll, RecvAgain,
              RecvFails, RecvEof, RecvJunk, RecvRedirect, RecvStatus, RefuseHead, WriteFails, RecvLastChunk,
              RecvBlankLine, UncountRequest, Stop, Goto, Interrupt
<1>6. CASE GetStringBegin \/ GetStringEnd \/ CancelHandler \/ Crash \/ Restart \/ \E id \in Ids : Expire(id)
  BY <1>6 DEF GetStringBegin, GetStringEnd, CancelHandler, Crash, Restart, Expire
<1> QED BY <1>2, <1>3, <1>4, <1>5, <1>6 DEF HttpProcess

\* The process keeps the invariant.
LEMMA ProcessInv ==
    ASSUME DlInv, HttpProcess, UNCHANGED dlVars
    PROVE  DlInv'
<1>1. HttpInv'
  BY HttpProcessInv DEF DlInv
<1>2. /\ \A t \in Tasks : Served1(fetch[t], fetch'[t])
      /\ relayQ' \in [Tasks -> Seq(Msgs)]
  BY ProcessCalls, ProcessRelay DEF DlInv, ControlInv, DlTyped
<1>3. DlTyped' /\ CancellerFacts'
  BY <1>2 DEF DlInv, ControlInv, DlTyped, dlVars, CancellerFacts
<1>4. ASSUME NEW t \in Tasks
      PROVE  TaskOK(task'[t], fetch'[t], events'[t]) /\ (task'[t].pc = "size" => dest'[DestOf[t]] \in Inodes)
  <2>1. /\ CallOK(task[t], fetch[t]) /\ VerdictOK(task[t]) /\ EventsOK(task[t], events[t]) /\ OpenOK(task[t])
        /\ task[t].pc = "size" => dest[DestOf[t]] \in Inodes
    BY TaskFacts
  <2>2. CallOK(task[t], fetch'[t])
    BY <1>2, <2>1, PcSets DEF CallOK, Served1, HandedPcs, EarlyPcs
  <2> QED BY <2>1, <2>2 DEF TaskOK, dlVars
<1> QED BY <1>1, <1>3, <1>4 DEF DlInv, ControlInv, TasksOK

-------------------------------------------------------------------------------
(* Types and verdicts *)

\* The service starts with files of bytes, no task and an idle handler.
LEMMA InitDl == Init => DlInv
<1> SUFFICES ASSUME Init PROVE DlInv
  OBVIOUS
<1> DEFINE S == {Piece(n, t) : n \in {0} \cup Leftovers, t \in Tasks}
<1>1. content \in [Inodes -> S]
  BY DEF Init
<1>2. ASSUME NEW s \in S
      PROVE  s \in Seq(Bytes)
  <2>1. PICK n \in {0} \cup Leftovers, t \in Tasks : s = Piece(n, t)
    OBVIOUS
  <2>2. s = [i \in 1..n |-> ResourceOf[t]]
    BY <2>1 DEF Piece
  <2>3. n \in Nat /\ ResourceOf[t] \in Bytes
    BY TasksAssumption DEF Bytes
  <2>4. s \in [1..n -> Bytes]
    BY <2>2, <2>3
  <2> QED BY <2>3, <2>4
<1> HIDE DEF S
<1>3. content \in [Inodes -> Seq(Bytes)]
  BY <1>1, <1>2
<1>4. HttpInv
  BY <1>3, InitHttpInv DEF Init
<1>5. NewTask \in TaskRecs /\ NewTask.pc = "none" /\ NewTask.state = "UNKNOWN" /\ NewTask.outcome = "none"
      /\ NewTask.httpRequestId = -1
  BY DEF NewTask, TaskRecs, States, WorkerPcs, Errors
<1>6. NoFetch.pc = "none"
  BY DEF NoFetch
<1>7. << >> \in Seq(Events) /\ << >> \in Seq(Msgs)
  OBVIOUS
<1>8. TaskOK(NewTask, NoFetch, << >>)
  BY <1>5, <1>6, <1>7, PcSets DEF TaskOK, CallOK, VerdictOK, EventsOK, OpenOK, EarlyPcs, OpenPcs, RunningPcs,
                                  WorkerPcs, HandedPcs
<1>9. Idle \in CancellerRecs /\ Idle.pc = "idle"
  BY DEF Idle, CancellerRecs
<1>10. part \in [Dests -> Inodes \cup {NoInode}]
  BY TasksAssumption DEF Init
<1>11. DlTyped
  BY <1>5, <1>7, <1>9, <1>10 DEF Init, InitHttp, DlTyped
<1>12. CancellerFacts
  BY <1>9 DEF Init, CancellerFacts
<1>13. TasksOK
  BY <1>5, <1>6, <1>8 DEF Init, InitHttp, TasksOK
<1> QED BY <1>4, <1>11, <1>12, <1>13 DEF DlInv, ControlInv

\* Nothing happens.
LEMMA StutterInv ==
    ASSUME DlInv, UNCHANGED vars
    PROVE  DlInv'
<1>1. UNCHANGED <<httpVars, dlVars>>
  BY DEF vars
<1>2. HttpInv'
  BY <1>1, HttpStutter DEF DlInv
<1>3. UNCHANGED <<task, events, part, dest, mHttp, deadProxies, httpLock, registered, canceller, fetch, relayQ>>
  BY <1>1 DEF dlVars, httpVars
<1>4. CancellerFacts'
  BY <1>3 DEF CancellerFacts, DlInv, ControlInv
<1> QED BY <1>2, <1>3, <1>4, OtherStepInv DEF DlInv, ControlInv, DlTyped

\* Every step keeps the invariant.
LEMMA NextDl == DlInv /\ [Next]_vars => DlInv'
<1> SUFFICES ASSUME DlInv, [Next]_vars PROVE DlInv'
  OBVIOUS
<1>1. ASSUME NEW t \in Tasks, Worker(t) PROVE DlInv'
  BY <1>1, LocalStepInv, PathStepInv, CallStepInv DEF Worker, LocalStep
<1>2. ASSUME NEW t \in Tasks, Enqueue(t) PROVE DlInv'
  BY <1>2, PathStepInv
<1>3. ASSUME NEW t \in Tasks, Relay(t) PROVE DlInv'
  BY <1>3, RelayInv
<1>4. CASE (\E t \in Tasks : ClientCancel(t)) \/ Canceller
  BY <1>4, CancelStepInv, SetFlagInv DEF Canceller
<1>5. CASE Quiet \/ UNCHANGED vars
  BY <1>5, StutterInv DEF Quiet
<1> QED BY <1>1, <1>2, <1>3, <1>4, <1>5, ProcessInv, RegistryInv DEF Next

\* The inductive invariant of the control: where a worker stands, where its call
\* stands, what is recorded and what was told.
THEOREM ControlInvariant == Spec => []DlInv
BY InitDl, NextDl, PTL DEF Spec

\* Every variable of the two services has its type.
THEOREM DownloadTypeCorrect == Spec => []TypeOK
<1>1. DlInv => TypeOK
  BY DEF DlInv, ControlInv, DlTyped, TypeOK, HttpInv, TaskRecs, CancellerRecs, Events
<1> QED BY <1>1, ControlInvariant, PTL

\* One terminal callback, made by the last step of runTask(), and it is the
\* recorded state, whatever relay, cancel and crashes do meanwhile.
THEOREM DownloadOneVerdict == Spec => []OneVerdict
<1>1. ASSUME DlInv, NEW t \in Tasks
      PROVE  /\ Count(events[t], Terminal) = (IF task[t].pc = "done" THEN 1 ELSE 0)
             /\ \A i \in DOMAIN events[t] : events[t][i] \in Terminal => events[t][i] = task[t].state
  <2> DEFINE e == events[t]
             T == {i \in DOMAIN e : e[i] \in Terminal}
  <2>1. EventsOK(task[t], e) /\ VerdictOK(task[t]) /\ task[t] \in TaskRecs
    BY <1>1, TaskFacts
  <2>2. CASE task[t].pc # "done"
    <3>1. T = {}
      BY <2>1, <2>2 DEF EventsOK
    <3> QED BY <2>2, <3>1, FS_EmptySet DEF Count
  <2>3. CASE task[t].pc = "done"
    <3>1. PICK k \in DOMAIN e : e[k] = task[t].state /\ \A i \in DOMAIN e : e[i] \in Terminal => i = k
      BY <2>1, <2>3 DEF EventsOK
    <3>2. task[t].state \in Terminal
      BY <2>1, <2>3 DEF VerdictOK, TaskRecs
    <3>3. T = {k}
      BY <3>1, <3>2
    <3>4. Cardinality(T) = 1
      BY <3>3, FS_Singleton
    <3> QED BY <2>3, <3>1, <3>4 DEF Count
  <2> QED BY <2>2, <2>3
<1>2. DlInv => OneVerdict
  BY <1>1 DEF OneVerdict
<1> QED BY <1>2, ControlInvariant, PTL

-------------------------------------------------------------------------------
(* Cancelling *)

\* No call is doomed in the beginning.
LEMMA InitDoomedDl == Init => DoomedInv
<1>1. NoFetch.result # "OK" /\ ~NoRequest.expired
  BY DEF NoFetch, NoRequest
<1> QED BY <1>1 DEF Init, InitHttp, DoomedInv

\* Every step, as long as no entry of the request table grows stale.
LEMMA NextDoomedDl ==
    ASSUME ~Expires
    PROVE  DlInv /\ DoomedInv /\ [Next]_vars => DoomedInv'
<1> SUFFICES ASSUME DlInv, DoomedInv, [Next]_vars PROVE DoomedInv'
  OBVIOUS
<1>0. HttpInv
  BY DEF DlInv
<1>1. ASSUME NEW t \in Tasks, ReserveId(t) \/ CallFetch(t)
      PROVE  DoomedInv'
  BY <1>0, <1>1, DoomedRequest DEF ReserveId, CallFetch
<1>2. ASSUME NEW t \in Tasks, Enqueue(t) \/ (Worker(t) /\ ~ReserveId(t) /\ ~CallFetch(t)) \/ Relay(t) \/ ClientCancel(t)
      PROVE  UNCHANGED <<up, instance, mRequests, fetch, doomed>>
  BY <1>2 DEF Enqueue, Worker, Start, EnsureParentDir, Measure, OpenPart, OpenFails, WorkerLookup, ReserveIdFails,
              PublishId, CheckCanceled, DupFails, FetchReturns, StoreOnDisk, Rename, RenameFails, FinalSize, StatPart, UnlinkPart,
              Finish, Report, Local, Relay, OnResponseStart, OnBytesReceived, ClientCancel, httpVars, tableVars
<1>3. CASE Canceller \/ Register \/ Reap \/ Quiet \/ UNCHANGED vars
  BY <1>3, DoomedQueue DEF Canceller, SetFlag, ReadId, CancelLookup, ForwardCancel, Register, Reap, Quiet, vars,
                           httpVars, tableVars
<1> QED BY <1>0, <1>1, <1>2, <1>3, DoomedQueue, DoomedProcess DEF Next

\* A cancel() that the http service handled before beginRequest() kills the
\* transfer on arrival, provided that no entry outlives kStaleRequestMs.
THEOREM DownloadDeadOnArrival ==
    ASSUME ~Expires
    PROVE  Spec => []DeadOnArrival
<1>1. Init => DlInv /\ DoomedInv
  BY InitDl, InitDoomedDl
<1>2. DlInv /\ DoomedInv /\ [Next]_vars => (DlInv /\ DoomedInv)'
  BY NextDl, NextDoomedDl
<1>3. DoomedInv => DeadOnArrival
  BY DEF DoomedInv, DoomedCall, DeadOnArrival
<1> QED BY <1>1, <1>2, <1>3, PTL DEF Spec

\* Where proxies point.  An instance that is up and has a call is the one the
\* cached proxy names, so nobody polls for it and nobody takes it for dead.
ProxyOf(t) ==
    /\ task[t].http <= instance
    /\ task[t].pc = "polling" => httpLock = t
    /\ task[t].pc = "newId" /\ Reachable(task[t].http) => mHttp = instance
    /\ fetch[t].pc # "none" /\ Reachable(fetch[t].inst) => mHttp = instance
    /\ fetch[t].result = "DEAD_OBJECT" => fetch[t].pc # "none" /\ ~Reachable(fetch[t].inst)

ProxyInv ==
    /\ mHttp <= instance /\ registered <= instance
    /\ \A i \in deadProxies : i <= instance /\ ~Reachable(i)
    /\ httpLock # NoTask => mHttp = 0
    /\ \A t \in Tasks : ProxyOf(t)
    /\ canceller.http <= instance
    /\ canceller.pc = "polling" => httpLock = "cancel"
    /\ canceller.pc = "send" /\ Reachable(fetch[canceller.task].inst) => canceller.http = instance

\* The http service has been told to cancel the call of t, or the call is over.
InformedOf(t) ==
    \/ fetch[t].pc = "replied"
    \/ Flagged(t)
    \/ \E i \in DOMAIN cancelQ : cancelQ[i] = fetch[t].id

\* Whoever set the flag of a task whose transfer is under way has read its id
\* and forwarded it, or is about to.
Handshake ==
    \A t \in Tasks :
        /\ task[t].canceled /\ task[t].pc \in {"call", "fetching"} /\ Reachable(fetch[t].inst)
        => InformedOf(t) \/ (canceller.task = t /\ canceller.pc \in {"readId", "lookup", "send"})

\* The results of the transport; it reports a cancel only if it saw the flag.
LEMMA TransportResult ==
    ASSUME HttpTypeOK, NEW c \in Calls, Transport(c)
    PROVE  \/ fetch'[c].result = fetch[c].result
           \/ fetch'[c].result # "DEAD_OBJECT" /\ (fetch'[c].result = "ERROR_CANCELED" => IsCanceled(c))
<1>0. fetch \in [Calls -> Transfers] /\ fetch[c] \in Transfers
  BY DEF HttpTypeOK
<1>1. ASSUME NEW r \in Results \ {"DEAD_OBJECT"}, Stop(c, r), r = "ERROR_CANCELED" => IsCanceled(c)
      PROVE  fetch'[c].result # "DEAD_OBJECT" /\ (fetch'[c].result = "ERROR_CANCELED" => IsCanceled(c))
  <2>1. fetch'[c] = ResultOf(fetch[c], r)
    BY <1>0, <1>1 DEF Stop
  <2>2. fetch'[c].result = r
    BY <1>0, <2>1, ResultTyped
  <2> QED BY <1>1, <2>2
<1>2. ASSUME NEW pc, Goto(c, pc)
      PROVE  fetch'[c].result = fetch[c].result
  BY <1>0, <1>2 DEF Goto, Transfers
<1>3. CASE StartHop(c) \/ Connect(c)
  <2>1. \/ \E pc \in {"connect", "poll"} : Goto(c, pc)
        \/ \E r \in Results \ {"DEAD_OBJECT"} : Stop(c, r) /\ (r = "ERROR_CANCELED" => IsCanceled(c))
    BY <1>3 DEF StartHop, Connect, Results
  <2> QED BY <1>1, <1>2, <2>1
<1>4. CASE Poll(c)
  <2>1. \/ Goto(c, "recv")
        \/ \E r \in Results \ {"DEAD_OBJECT"} : Stop(c, r) /\ (r = "ERROR_CANCELED" => IsCanceled(c))
    BY <1>4 DEF Poll, Interrupt, Results
  <2> QED BY <1>1, <1>2, <2>1
<1>5. CASE RecvFails(c) \/ RecvEof(c) \/ RecvStatus(c) \/ RefuseHead(c) \/ RecvBlankLine(c)
  <2>1. \E r \in Results \ {"DEAD_OBJECT"} : Stop(c, r) /\ (r = "ERROR_CANCELED" => IsCanceled(c))
    BY <1>5 DEF RecvFails, RecvEof, RecvStatus, RefuseHead, RecvBlankLine, Interrupt, Results
  <2> QED BY <1>1, <2>1
<1>6. CASE RecvAgain(c)
  <2>1. CASE Interrupt(c, "ERROR_IO")
    <3>1. \E r \in {"OK", "ERROR_IO"} : Stop(c, r)
      BY <2>1 DEF Interrupt
    <3>2. {"OK", "ERROR_IO"} \subseteq Results \ {"DEAD_OBJECT"}
      BY DEF Results
    <3> QED BY <1>1, <3>1, <3>2
  <2>2. CASE ~Interrupt(c, "ERROR_IO")
    BY <1>0, <1>6, <2>2 DEF RecvAgain, Transfers
  <2> QED BY <2>1, <2>2
<1>7. CASE RecvJunk(c) \/ RecvRedirect(c) \/ RecvLastChunk(c)
  BY <1>0, <1>7 DEF RecvJunk, RecvRedirect, RecvLastChunk, Transfers
<1>8. CASE RecvHead(c)
  <2>1. PICK f \in Framings : \E a \in Answers(fetch[c].resume, f) : OnHeaders(c, f, a)
    BY <1>8 DEF RecvHead
  <2>2. PICK a \in Answers(fetch[c].resume, f) : OnHeaders(c, f, a)
    BY <2>1
  <2> DEFINE got == [fetch[c] EXCEPT !.framing = f, !.start = a.start, !.total = a.total, !.idle = 0]
  <2>3. fetch'[c] = ResultOf(got, "OK") \/ \E pc \in {"poll", "buffered"} : fetch'[c] = [got EXCEPT !.pc = pc]
    BY <1>0, <2>2 DEF OnHeaders
  <2> QED BY <1>0, <2>3 DEF Transfers, ResultOf
<1>9. CASE RecvBody(c)
  <2>1. PICK k \in 1..Remaining(c) : OnBody(c, k)
    BY <1>9 DEF RecvBody
  <2> DEFINE got == [fetch[c] EXCEPT !.written = @ + k, !.idle = 0]
  <2>2. fetch'[c] = ResultOf(got, "OK") \/ \E pc \in {"poll", "buffered"} : fetch'[c] = [got EXCEPT !.pc = pc]
    BY <1>0, <2>1 DEF OnBody
  <2> QED BY <1>0, <2>2 DEF Transfers, ResultOf
<1>10. CASE WriteFails(c)
  <2>1. fetch'[c] = ResultOf(fetch[c], "ERROR_WRITE")
    BY <1>0, <1>10 DEF WriteFails
  <2> QED BY <1>0, <2>1 DEF Transfers, ResultOf
<1> QED BY <1>3, <1>4, <1>5, <1>6, <1>7, <1>8, <1>9, <1>10 DEF Transport

\* The same for every step of the process: only its death answers DEAD_OBJECT.
LEMMA ProcessResult ==
    ASSUME HttpInv, HttpProcess, NEW c \in Calls
    PROVE  \/ fetch'[c].result = fetch[c].result
           \/ Crash /\ fetch'[c].result = "DEAD_OBJECT"
           \/ /\ fetch'[c].result # "DEAD_OBJECT"
              /\ fetch'[c].result = "ERROR_CANCELED" => IsCanceled(c) /\ fetch[c].pc \in ServedPcs
<1>0. fetch \in [Calls -> Transfers] /\ fetch[c] \in Transfers /\ HttpTypeOK
  BY DEF HttpInv, HttpTypeOK
<1>1. ASSUME NEW d \in Calls, d # c, Accept(d) \/ Transfer(d)
      PROVE  fetch'[c] = fetch[c]
  <2>1. CASE Transport(d)
    BY <1>0, <1>1, <2>1, TransportMoves DEF Moves
  <2> QED BY <1>0, <1>1, <2>1 DEF Accept, Transfer, Transport, BeginRequest, RejectSink, CountRequest,
                                  UncountRequest, EndRequest
<1>2. CASE Transport(c)
  <2>1. fetch[c].pc \in ServedPcs
    BY <1>0, <1>2, TransportMoves, PcSets DEF Moves
  <2> QED BY <1>0, <1>2, <2>1, TransportResult
<1>3. CASE BeginRequest(c) \/ CountRequest(c) \/ UncountRequest(c)
  BY <1>0, <1>3 DEF BeginRequest, CountRequest, UncountRequest, Transfers
<1>4. CASE RejectSink(c) \/ EndRequest(c)
  <2>1. fetch'[c] = ReplyOf(fetch[c], "ERROR_WRITE") \/ fetch'[c] = ReplyOf(fetch[c], fetch[c].result)
    BY <1>0, <1>4 DEF RejectSink, EndRequest
  <2>2. fetch[c].result \in Results /\ "ERROR_WRITE" \in Results
    BY <1>0 DEF Transfers, Results
  <2> QED BY <1>0, <2>1, <2>2, ReplyTyped
<1>5. CASE Crash
  <2>1. fetch'[c] = fetch[c] \/ fetch'[c] = ReplyOf(fetch[c], "DEAD_OBJECT")
    BY <1>5 DEF Crash
  <2> QED BY <1>0, <1>5, <2>1, ReplyTyped DEF Results
<1>6. CASE GetStringBegin \/ GetStringEnd \/ CancelHandler \/ Restart \/ \E id \in Ids : Expire(id)
  BY <1>6 DEF GetStringBegin, GetStringEnd, CancelHandler, Restart, Expire
<1> QED BY <1>1, <1>2, <1>3, <1>4, <1>5, <1>6 DEF HttpProcess, Accept, Transfer, Transport

\* The mark of a call that the running instance knows stays until the reply.
LEMMA FlagKept ==
    ASSUME ~Expires, HttpInv, \A id \in Ids : ~mRequests[id].expired, HttpProcess,
           NEW t \in Calls, fetch[t].pc # "none", Reachable(fetch[t].inst), Reachable(fetch[t].inst)', Flagged(t)
    PROVE  Flagged(t)' \/ fetch'[t].pc = "replied"
<1>0. /\ fetch \in [Calls -> Transfers] /\ mRequests \in [Ids -> Requests] /\ HttpTypeOK
      /\ fetch[t].id \in Ids /\ fetch[t].inst = instance /\ up
      /\ fetch'[t].id = fetch[t].id
  BY ProcessCalls DEF HttpInv, HttpTypeOK, TableInv, CallFacts, Reachable, Served1
<1>1. \A c \in Calls \ {t} : fetch[c].inst = instance => fetch[c].id # fetch[t].id
  BY <1>0 DEF HttpInv, TableInv, IdsUnique
<1>2. ASSUME mRequests'[fetch[t].id] = mRequests[fetch[t].id]
      PROVE  Flagged(t)'
  BY <1>0, <1>2 DEF Flagged
<1>3. ASSUME NEW c \in Calls, Transport(c) \/ RejectSink(c) \/ CountRequest(c) \/ UncountRequest(c)
      PROVE  mRequests' = mRequests
  BY <1>0, <1>3, TransportMoves DEF Moves, tableVars, RejectSink, CountRequest, UncountRequest
<1>4. ASSUME NEW c \in Calls, BeginRequest(c)
      PROVE  Flagged(t)'
  <2> DEFINE e == [(IF mRequests[fetch[c].id].present THEN mRequests[fetch[c].id] ELSE NewRequest)
                     EXCEPT !.running = TRUE]
  <2>1. mRequests' = [mRequests EXCEPT ![fetch[c].id] = e] /\ fetch[c].pc = "queued"
    BY <1>4 DEF BeginRequest
  <2>2. fetch[c].inst = instance
    BY <2>1 DEF HttpInv, TableInv, CallFacts, Reachable
  <2>3. CASE c # t
    BY <1>0, <1>1, <1>2, <2>1, <2>2, <2>3
  <2>4. CASE c = t
    <3>1. mRequests[fetch[t].id] \in Requests /\ mRequests[fetch[t].id].present /\ mRequests[fetch[t].id].canceled
      BY <1>0 DEF Flagged
    <3>2. e.present /\ e.canceled
      BY <2>4, <3>1 DEF Requests
    <3> QED BY <1>0, <2>1, <2>4, <3>2 DEF Flagged
  <2> QED BY <2>3, <2>4
<1>5. ASSUME NEW c \in Calls, EndRequest(c)
      PROVE  Flagged(t)' \/ fetch'[t].pc = "replied"
  <2>1. mRequests' = [mRequests EXCEPT ![fetch[c].id] = NoRequest] /\ fetch[c].pc = "ended"
        /\ fetch' = [fetch EXCEPT ![c] = ReplyOf(fetch[c], fetch[c].result)]
    BY <1>5 DEF EndRequest
  <2>2. fetch[c].inst = instance
    BY <2>1, PcSets DEF HttpInv, TableInv, FetchRegistered, Reachable, Served
  <2>3. CASE c # t
    BY <1>0, <1>1, <1>2, <2>1, <2>2, <2>3
  <2>4. CASE c = t
    <3>1. fetch[t].result \in Results
      BY <1>0 DEF Transfers
    <3> QED BY <1>0, <2>1, <2>4, <3>1, ReplyTyped
  <2> QED BY <2>3, <2>4
<1>6. CASE CancelHandler
  <2> DEFINE i == Head(cancelQ)
             j == fetch[t].id
  <2>1. mRequests[j] \in Requests /\ mRequests[j].present /\ mRequests[j].canceled /\ ~Stale(mRequests[j])
    BY <1>0 DEF Flagged, Stale
  <2>2. \/ mRequests' = [mRequests EXCEPT ![i] = [mRequests[i] EXCEPT !.canceled = TRUE]]
        \/ /\ ~mRequests[i].present
           /\ mRequests' = [k \in Ids |-> IF k = i THEN [NewRequest EXCEPT !.canceled = TRUE]
                                          ELSE IF Stale(mRequests[k]) THEN NoRequest ELSE mRequests[k]]
    BY <1>6 DEF CancelHandler
  <2>3. mRequests'[j] = mRequests[j] \/ mRequests'[j] = [mRequests[j] EXCEPT !.canceled = TRUE]
    BY <1>0, <2>1, <2>2
  <2>4. mRequests'[j].present /\ mRequests'[j].canceled
    BY <2>1, <2>3 DEF Requests
  <2> QED BY <1>0, <2>4 DEF Flagged
<1>7. CASE GetStringBegin \/ GetStringEnd
  BY <1>2, <1>7 DEF GetStringBegin, GetStringEnd
<1>8. ~Crash /\ ~Restart /\ ~\E id \in Ids : Expire(id)
  BY <1>0 DEF Crash, Restart, Expire, Reachable
<1> QED BY <1>2, <1>3, <1>4, <1>5, <1>6, <1>7, <1>8 DEF HttpProcess, Accept, Transfer, Transport

\* The steps of runTask() that touch only the task, field by field.
LocalShape(t) ==
    LET s == task[t]
        g == task'[t]
    IN  /\ g \in TaskRecs /\ g.canceled = s.canceled /\ g.http = s.http /\ g.ino = s.ino
        /\ \A u \in Tasks \ {t} : task'[u] = task[u]
        /\ \/ s.pc = "start" /\ g.pc = "dir" /\ g.state = "RUNNING" /\ g.outcome = s.outcome
           \/ s.pc = "dir" /\ g.pc = "measure" /\ g.state = s.state /\ g.outcome = s.outcome
           \/ s.pc = "measure" /\ g.pc = "open" /\ g.state = s.state /\ g.outcome = s.outcome
           \/ /\ s.pc \in {"dir", "open", "call", "rename"} /\ g.pc = "fail"
              /\ g.state = s.state /\ g.outcome = "FAILED"
           \/ s.pc = "publish" /\ g.pc = "check" /\ g.state = s.state /\ g.outcome = s.outcome
           \/ s.pc = "check" /\ ~s.canceled /\ g.pc = "call" /\ g.state = s.state /\ g.outcome = s.outcome
           \/ s.pc = "check" /\ s.canceled /\ g.pc = "finish" /\ g.state = s.state /\ g.outcome = "CANCELED"
           \/ s.pc = "store" /\ g.pc = "rename" /\ g.state = s.state /\ g.outcome = s.outcome
           \/ s.pc = "size" /\ g.pc = "finish" /\ g.state = s.state /\ g.outcome = "COMPLETED"
           \/ s.pc = "fail" /\ PartSize(t) = 0 /\ g.pc = "unlink" /\ g.state = s.state /\ g.outcome = s.outcome
           \/ s.pc = "fail" /\ PartSize(t) # 0 /\ g.pc = "finish" /\ g.state = s.state /\ g.outcome = s.outcome
           \/ s.pc = "finish" /\ g.pc = "report" /\ g.state = s.outcome /\ g.outcome = s.outcome
        /\ IF s.pc = "measure"
           THEN g.resume = PartSize(t) /\ g.downloaded = PartSize(t) /\ g.resumedFrom = PartSize(t)
           ELSE /\ g.resume = s.resume /\ g.resumedFrom = s.resumedFrom
                /\ g.downloaded = IF s.pc = "store" THEN s.onDisk ELSE s.downloaded
        /\ g.onDisk = s.onDisk
        /\ g.total = IF s.pc = "size" THEN Len(content[dest[DestOf[t]]]) ELSE s.total

\* They have that shape.
LEMMA LocalShapes ==
    ASSUME DlInv, NEW t \in Tasks, LocalStep(t)
    PROVE  LocalShape(t)
<1> DEFINE s == task[t]
           g == task'[t]
           N == PartSize(t)
<1>0. /\ task \in [Tasks -> TaskRecs] /\ s \in TaskRecs /\ g \in TaskRecs
  BY LocalStepInv DEF DlInv, ControlInv, DlTyped
<1>1. \A u \in Tasks \ {t} : task'[u] = task[u]
  <2>1. \E x : task' = [task EXCEPT ![t] = x]
    BY DEF LocalStep, Start, EnsureParentDir, Measure, OpenFails, PublishId, CheckCanceled,
           DupFails, StoreOnDisk, RenameFails, FinalSize, StatPart, Finish, Local
  <2> QED BY <1>0, <2>1
<1>2. ASSUME NEW x, Local(t, x) PROVE g = x
  BY <1>0, <1>2 DEF Local
<1>3. CASE Start(t)
  <2>1. s.pc = "start" /\ g = [s EXCEPT !.state = "RUNNING", !.pc = "dir"]
    BY <1>2, <1>3 DEF Start
  <2> QED BY <1>0, <1>1, <2>1 DEF LocalShape, TaskRecs
<1>4. CASE EnsureParentDir(t)
  <2>1. s.pc = "dir" /\ (g = Failed(s, "ERROR_BAD_DESTINATION") \/ g = [s EXCEPT !.pc = "measure"])
    BY <1>2, <1>4 DEF EnsureParentDir
  <2> QED BY <1>0, <1>1, <2>1 DEF LocalShape, TaskRecs, Failed
<1>5. CASE Measure(t)
  <2>1. s.pc = "measure" /\ g = [s EXCEPT !.pc = "open", !.resume = N, !.downloaded = N, !.resumedFrom = N]
    BY <1>2, <1>5 DEF Measure
  <2> HIDE DEF N
  <2>2. /\ g.pc = "open" /\ g.state = s.state /\ g.outcome = s.outcome /\ g.canceled = s.canceled
        /\ g.http = s.http /\ g.ino = s.ino /\ g.resume = N /\ g.downloaded = N /\ g.resumedFrom = N
        /\ g.total = s.total /\ g.onDisk = s.onDisk
    BY <1>0, <2>1 DEF TaskRecs
  <2> QED BY <1>0, <1>1, <2>1, <2>2 DEF LocalShape, N
<1>6. CASE OpenFails(t) \/ DupFails(t) \/ RenameFails(t)
  <2>1. s.pc \in {"open", "call", "rename"} /\ g = Failed(s, "ERROR_IO")
    BY <1>2, <1>6 DEF OpenFails, DupFails, RenameFails
  <2> QED BY <1>0, <1>1, <2>1 DEF LocalShape, TaskRecs, Failed
<1>7. CASE PublishId(t)
  <2>1. s.pc = "publish" /\ g = [s EXCEPT !.pc = "check", !.httpRequestId = fetch[t].id]
    BY <1>2, <1>7 DEF PublishId
  <2> QED BY <1>0, <1>1, <2>1 DEF LocalShape, TaskRecs
<1>8. CASE CheckCanceled(t)
  <2>1. s.pc = "check" /\ g = IF s.canceled THEN Canceled(s) ELSE [s EXCEPT !.pc = "call"]
    BY <1>2, <1>8 DEF CheckCanceled
  <2> QED BY <1>0, <1>1, <2>1 DEF LocalShape, TaskRecs, Canceled
<1>9. CASE FinalSize(t)
  <2> DEFINE n == Len(content[dest[DestOf[t]]])
  <2>1. s.pc = "size" /\ g = [s EXCEPT !.pc = "finish", !.outcome = "COMPLETED", !.total = n]
    BY <1>2, <1>9 DEF FinalSize
  <2> HIDE DEF n
  <2>2. /\ g.pc = "finish" /\ g.state = s.state /\ g.outcome = "COMPLETED" /\ g.canceled = s.canceled
        /\ g.http = s.http /\ g.ino = s.ino /\ g.resume = s.resume /\ g.downloaded = s.downloaded
        /\ g.resumedFrom = s.resumedFrom /\ g.total = n /\ g.onDisk = s.onDisk
    BY <1>0, <2>1 DEF TaskRecs
  <2> QED BY <1>0, <1>1, <2>1, <2>2 DEF LocalShape, n
<1>10. CASE StatPart(t)
  <2>1. s.pc = "fail" /\ g = [s EXCEPT !.pc = IF N = 0 THEN "unlink" ELSE "finish"]
    BY <1>2, <1>10 DEF StatPart
  <2> HIDE DEF N
  <2>2. /\ g.pc = (IF N = 0 THEN "unlink" ELSE "finish") /\ g.state = s.state /\ g.outcome = s.outcome
        /\ g.canceled = s.canceled /\ g.http = s.http /\ g.ino = s.ino /\ g.resume = s.resume
        /\ g.downloaded = s.downloaded /\ g.resumedFrom = s.resumedFrom /\ g.total = s.total /\ g.onDisk = s.onDisk
    BY <1>0, <2>1 DEF TaskRecs
  <2> QED BY <1>0, <1>1, <2>1, <2>2 DEF LocalShape, N
<1>11. CASE Finish(t)
  <2>1. s.pc = "finish" /\ g = [s EXCEPT !.state = s.outcome, !.pc = "report"]
    BY <1>2, <1>11 DEF Finish
  <2> QED BY <1>0, <1>1, <2>1 DEF LocalShape, TaskRecs
<1>12. CASE StoreOnDisk(t)
  <2>1. s.pc = "store" /\ g = [s EXCEPT !.pc = "rename", !.downloaded = s.onDisk]
    BY <1>2, <1>12 DEF StoreOnDisk
  <2> QED BY <1>0, <1>1, <2>1 DEF LocalShape, TaskRecs
<1> QED BY <1>3, <1>4, <1>5, <1>6, <1>7, <1>8, <1>9, <1>10, <1>11, <1>12 DEF LocalStep

SneakInv == ProxyInv /\ Handshake

\* A task takes no new part in the handshake or in the search for a proxy.
Calm(s, g) ==
    /\ g.http = s.http \/ g.http = 0
    /\ g.pc = "polling" => s.pc = "polling"
    /\ g.pc = "newId" => s.pc = "newId" /\ g.http = s.http
    /\ g.canceled /\ g.pc \in {"call", "fetching"} => s.canceled /\ s.pc \in {"call", "fetching"}

\* What the invariant is about stays as it is.
LEMMA CalmInv ==
    ASSUME DlInv, SneakInv, \A t \in Tasks : Calm(task[t], task'[t]),
           UNCHANGED <<up, instance, mHttp, registered, httpLock, canceller, fetch, mRequests, cancelQ>>,
           \A i \in deadProxies' : i \in deadProxies \/ (i <= instance /\ ~Reachable(i))
    PROVE  SneakInv'
<1>0. /\ instance \in Nat /\ instance >= 1
      /\ \A t \in Tasks : task[t].http \in Nat
  BY DEF DlInv, HttpInv, HttpTypeOK, TableInv, CallFacts, ControlInv, DlTyped, TaskRecs
<1>1. ASSUME NEW t \in Tasks PROVE ProxyOf(t)'
  BY <1>0 DEF SneakInv, ProxyInv, ProxyOf, Calm, Reachable
<1>2. ProxyInv'
  BY <1>0, <1>1 DEF SneakInv, ProxyInv, Reachable
<1>3. Handshake'
  BY DEF SneakInv, Handshake, InformedOf, Flagged, Reachable, Calm
<1> QED BY <1>2, <1>3 DEF SneakInv

\* Most steps of a worker, the relay and enqueue() are of this kind.
LEMMA CalmSteps ==
    ASSUME DlInv, SneakInv, NEW t \in Tasks,
           \/ LocalStep(t) \/ Relay(t) \/ FetchReturns(t)
           \/ Enqueue(t) \/ OpenPart(t) \/ Rename(t) \/ UnlinkPart(t) \/ Report(t)
    PROVE  SneakInv'
<1>0. /\ task \in [Tasks -> TaskRecs] /\ task[t] \in TaskRecs /\ fetch[t] \in Transfers
      /\ fetch[t].inst \in Nat /\ fetch[t].inst <= instance
  BY DEF DlInv, ControlInv, DlTyped, HttpInv, HttpTypeOK, TableInv, CallFacts, Transfers
<1>1. Calm(task[t], task'[t]) /\ \A u \in Tasks \ {t} : task'[u] = task[u]
  <2>1. CASE LocalStep(t)
    BY <2>1, LocalShapes DEF LocalShape, Calm
  <2>2. CASE Relay(t)
    <3>1. PICK n \in Nat, r \in Nat, m \in Int :
            task' = [task EXCEPT ![t] = [task[t] EXCEPT !.downloaded = n, !.resumedFrom = r, !.total = m]]
      BY <2>2, RelayShape
    <3> QED BY <1>0, <3>1 DEF Calm, TaskRecs
  <2>3. CASE FetchReturns(t)
    BY <1>0, <2>3 DEF FetchReturns, Failed, Canceled, Calm, TaskRecs
  <2>4. CASE Enqueue(t) \/ OpenPart(t) \/ Rename(t) \/ UnlinkPart(t) \/ Report(t)
    BY <1>0, <2>4 DEF Enqueue, OpenPart, Rename, UnlinkPart, Report, Calm, TaskRecs
  <2> QED BY <2>1, <2>2, <2>3, <2>4
<1>2. /\ \A u \in Tasks : Calm(task[u], task'[u])
      /\ UNCHANGED <<up, instance, mHttp, registered, httpLock, canceller, fetch, mRequests, cancelQ>>
  <2>1. UNCHANGED <<up, instance, mHttp, registered, httpLock, canceller, fetch, mRequests, cancelQ>>
    BY DEF LocalStep, Start, EnsureParentDir, Measure, OpenFails, PublishId, CheckCanceled,
         DupFails, StoreOnDisk, RenameFails, FinalSize, StatPart, Finish, Local, Relay, OnResponseStart, OnBytesReceived,
         FetchReturns, Enqueue, OpenPart, Rename, UnlinkPart, Report, httpVars, tableVars
  <2> QED BY <1>1, <2>1 DEF Calm
<1>3. \A i \in deadProxies' : i \in deadProxies \/ (i <= instance /\ ~Reachable(i))
  <2>1. CASE ~FetchReturns(t)
    BY <2>1 DEF LocalStep, Start, EnsureParentDir, Measure, OpenFails, PublishId, CheckCanceled,
         DupFails, StoreOnDisk, RenameFails, FinalSize, StatPart, Finish, Local, Relay, OnResponseStart, OnBytesReceived,
         Enqueue, OpenPart, Rename, UnlinkPart, Report
  <2>2. CASE FetchReturns(t)
    BY <1>0, <2>2 DEF FetchReturns, SneakInv, ProxyInv, ProxyOf
  <2> QED BY <2>1, <2>2
<1> QED BY <1>2, <1>3, CalmInv

\* The worker's search for a proxy: mHttpLock lets one thread poll at a time, and
\* it starts polling only when the proxy it drops cannot serve anybody's call.
LEMMA LookupSneak ==
    ASSUME DlInv, SneakInv, NEW t \in Tasks, WorkerLookup(t)
    PROVE  SneakInv'
<1>0. /\ task \in [Tasks -> TaskRecs] /\ task[t] \in TaskRecs /\ instance \in Nat /\ instance >= 1
      /\ mHttp \in Nat /\ registered \in Nat /\ fetch \in [Calls -> Transfers]
      /\ NoTask \notin Tasks /\ "cancel" \notin Tasks /\ NoTask # "cancel"
      /\ \A u \in Tasks : task[u].http \in Nat
  BY TasksAssumption DEF DlInv, ControlInv, DlTyped, HttpInv, HttpTypeOK, TableInv, CallFacts, TaskRecs
<1>1. /\ UNCHANGED <<up, instance, fetch, mRequests, cancelQ, deadProxies, registered, canceller>>
      /\ \A u \in Tasks \ {t} : task'[u] = task[u]
      /\ task'[t] \in TaskRecs /\ task'[t].canceled = task[t].canceled
      /\ task'[t].pc \notin {"call", "fetching"}
  <2>1. UNCHANGED <<up, instance, fetch, mRequests, cancelQ, deadProxies, registered, canceller>>
    BY DEF WorkerLookup, httpVars
  <2>2. /\ \A u \in Tasks \ {t} : task'[u] = task[u]
        /\ task'[t].canceled = task[t].canceled /\ task'[t].pc \notin {"call", "fetching"}
    <3>1. \A u \in Tasks \ {t} : task'[u] = task[u]
      BY <1>0 DEF WorkerLookup
    <3>2. \/ \E n : task'[t] = [task[t] EXCEPT !.pc = "newId", !.http = n]
          \/ task'[t] = [task[t] EXCEPT !.pc = "polling"]
          \/ task'[t] = Failed(task[t], "ERROR_HTTP_SERVICE")
      BY <1>0 DEF WorkerLookup
    <3> QED BY <1>0, <3>1, <3>2 DEF Failed, TaskRecs
  <2>3. task'[t] \in TaskRecs
    BY CallStepInv DEF DlInv, ControlInv, DlTyped
  <2> QED BY <2>1, <2>2, <2>3
<1>2. Handshake'
  BY <1>1 DEF SneakInv, Handshake, InformedOf, Flagged, Reachable
<1>3. ASSUME NEW u \in Tasks, NEW v \in Tasks, task[u].pc = "polling", task[v].pc = "polling"
      PROVE  u = v
  BY <1>3 DEF SneakInv, ProxyInv, ProxyOf
<1>4. CASE task[t].pc = "lookup" /\ ProxyCached
  <2>1. /\ UNCHANGED <<mHttp, httpLock>> /\ httpLock = NoTask
        /\ task'[t].pc = "newId" /\ task'[t].http = mHttp
    BY <1>0, <1>4 DEF WorkerLookup, ProxyCached, ProxyDropped, TaskRecs
  <2>2. ASSUME NEW u \in Tasks PROVE ProxyOf(u)'
    BY <1>0, <1>1, <2>1 DEF SneakInv, ProxyInv, ProxyOf, Reachable
  <2>3. ProxyInv'
    BY <1>1, <2>1, <2>2 DEF SneakInv, ProxyInv, Reachable
  <2> QED BY <1>2, <2>3 DEF SneakInv
<1>5. CASE task[t].pc = "lookup" /\ ProxyDropped(t)
  <2>1. /\ mHttp' = 0 /\ httpLock' = t /\ httpLock = NoTask /\ ~ProxyAlive
        /\ task'[t].pc = "polling" /\ task'[t].http = task[t].http
    BY <1>0, <1>5 DEF WorkerLookup, ProxyCached, ProxyDropped, TaskRecs
  <2>2. ~(up /\ mHttp = instance)
    BY <1>0, <2>1 DEF SneakInv, ProxyInv, ProxyAlive, Reachable
  <2>3. ASSUME NEW u \in Tasks PROVE ProxyOf(u)'
    BY <1>0, <1>1, <2>1, <2>2 DEF SneakInv, ProxyInv, ProxyOf, Reachable
  <2>4. canceller.pc = "send" /\ Reachable(fetch[canceller.task].inst) => canceller.http = instance
    BY DEF SneakInv, ProxyInv
  <2>5. ProxyInv'
    <3>1. canceller.pc # "polling"
      BY <1>0, <2>1 DEF SneakInv, ProxyInv
    <3>2. mHttp' <= instance' /\ registered' <= instance' /\ canceller'.http <= instance'
      BY <1>0, <1>1, <2>1 DEF SneakInv, ProxyInv
    <3>3. \A i \in deadProxies' : i <= instance' /\ ~Reachable(i)'
      BY <1>1 DEF SneakInv, ProxyInv, Reachable
    <3>4. canceller'.pc = "send" /\ Reachable(fetch[canceller.task].inst)' => canceller'.http = instance'
      BY <1>1, <2>4 DEF Reachable
    <3> QED BY <1>1, <2>1, <2>3, <3>1, <3>2, <3>3, <3>4 DEF ProxyInv
  <2> QED BY <1>2, <2>5 DEF SneakInv
<1>6. CASE task[t].pc = "polling" /\ ProxyFound
  <2>1. /\ mHttp' = registered /\ httpLock' = NoTask /\ httpLock = t /\ mHttp = 0
        /\ task'[t].pc = "newId" /\ task'[t].http = registered
    BY <1>0, <1>6 DEF WorkerLookup, ProxyFound, ProxyTimeout, TaskRecs, SneakInv, ProxyInv, ProxyOf
  <2>2. ASSUME NEW u \in Tasks PROVE ProxyOf(u)'
    <3>1. u # t => task[u].pc # "polling"
      BY <1>3, <1>6
    <3> QED BY <1>0, <1>1, <2>1, <3>1 DEF SneakInv, ProxyInv, ProxyOf, Reachable
  <2>3. ProxyInv'
    BY <1>0, <1>1, <2>1, <2>2 DEF SneakInv, ProxyInv, Reachable
  <2> QED BY <1>2, <2>3 DEF SneakInv
<1>7. CASE task[t].pc = "polling" /\ ProxyTimeout
  <2>1. /\ mHttp' = mHttp /\ httpLock' = NoTask /\ httpLock = t
        /\ task'[t].pc = "fail" /\ task'[t].http = task[t].http
    <3>1. task'[t] = Failed(task[t], "ERROR_HTTP_SERVICE")
      BY <1>0, <1>7 DEF WorkerLookup, ProxyFound, ProxyTimeout
    <3>2. task'[t].pc = "fail" /\ task'[t].http = task[t].http
      BY <1>0, <3>1 DEF Failed, TaskRecs
    <3> QED BY <1>7, <3>2 DEF WorkerLookup, ProxyTimeout, SneakInv, ProxyInv, ProxyOf
  <2>2. ASSUME NEW u \in Tasks PROVE ProxyOf(u)'
    <3>1. u # t => task[u].pc # "polling"
      BY <1>3, <1>7
    <3> QED BY <1>0, <1>1, <2>1, <3>1 DEF SneakInv, ProxyInv, ProxyOf, Reachable
  <2>3. ProxyInv'
    BY <1>0, <1>1, <2>1, <2>2 DEF SneakInv, ProxyInv, Reachable
  <2> QED BY <1>2, <2>3 DEF SneakInv
<1> QED BY <1>4, <1>5, <1>6, <1>7 DEF WorkerLookup

\* newRequestId() and fetchToFd(), and what they do when the process is gone.
LEMMA RequestSneak ==
    ASSUME DlInv, SneakInv, NEW t \in Tasks, ReserveId(t) \/ ReserveIdFails(t) \/ CallFetch(t)
    PROVE  SneakInv'
<1>0. /\ task \in [Tasks -> TaskRecs] /\ task[t] \in TaskRecs /\ instance \in Nat /\ instance >= 1
      /\ fetch \in [Calls -> Transfers] /\ fetch[t] \in Transfers
      /\ CallOK(task[t], fetch[t])
  BY TaskFacts DEF DlInv, ControlInv, DlTyped, HttpInv, HttpTypeOK, TableInv, CallFacts
<1>1. CASE ReserveIdFails(t)
  <2>1. /\ \A u \in Tasks : Calm(task[u], task'[u])
        /\ UNCHANGED <<up, instance, mHttp, registered, httpLock, canceller, fetch, mRequests, cancelQ>>
    BY <1>0, <1>1 DEF ReserveIdFails, Failed, Calm, TaskRecs, httpVars
  <2>2. \A i \in deadProxies' : i \in deadProxies \/ (i <= instance /\ ~Reachable(i))
    BY <1>1 DEF ReserveIdFails, SneakInv, ProxyInv, ProxyOf
  <2> QED BY <2>1, <2>2, CalmInv
<1>2. CASE ReserveId(t)
  <2>1. /\ UNCHANGED <<up, instance, mHttp, registered, httpLock, deadProxies, canceller, mRequests, cancelQ>>
        /\ task[t].pc = "newId" /\ Reachable(task[t].http) /\ fetch[t].pc = "none"
    BY <1>2 DEF ReserveId, NewRequestId
  <2>2. /\ task'[t].pc = "publish" /\ task'[t].http = task[t].http
        /\ \A u \in Tasks \ {t} : task'[u] = task[u] /\ fetch'[u] = fetch[u]
        /\ fetch'[t].result = fetch[t].result
    BY <1>0, <1>2 DEF ReserveId, NewRequestId, TaskRecs, Transfers
  <2>3. fetch[t].result # "DEAD_OBJECT" \/ ~Reachable(fetch[t].inst)
    BY DEF SneakInv, ProxyInv, ProxyOf
  <2>4. mHttp = instance
    BY <2>1 DEF SneakInv, ProxyInv, ProxyOf
  <2>5. task[t].httpRequestId = -1
    BY <1>0, <2>1 DEF CallOK, EarlyPcs
  <2>6. canceller.pc = "send" => canceller.task # t
    BY <2>5 DEF DlInv, ControlInv, CancellerFacts
  <2>7. ASSUME NEW u \in Tasks PROVE ProxyOf(u)'
    BY <1>0, <2>1, <2>2, <2>3, <2>4 DEF SneakInv, ProxyInv, ProxyOf, Reachable
  <2>8. ProxyInv'
    BY <2>1, <2>2, <2>6, <2>7 DEF SneakInv, ProxyInv, Reachable, DlInv, ControlInv, CancellerFacts
  <2>9. Handshake'
    BY <2>1, <2>2 DEF SneakInv, Handshake, InformedOf, Flagged, Reachable
  <2> QED BY <2>8, <2>9 DEF SneakInv
<1>3. CASE CallFetch(t)
  <2>1. /\ UNCHANGED <<up, instance, mHttp, registered, httpLock, deadProxies, canceller, mRequests, cancelQ>>
        /\ task[t].pc = "call" /\ fetch[t].pc = "reserved"
    BY <1>3 DEF CallFetch, FetchToFd, tableVars
  <2>2. /\ task'[t].pc = "fetching" /\ task'[t].http = task[t].http /\ task'[t].canceled = task[t].canceled
        /\ \A u \in Tasks \ {t} : task'[u] = task[u] /\ fetch'[u] = fetch[u]
    BY <1>0, <1>3 DEF CallFetch, FetchToFd, TaskRecs
  <2>3. /\ fetch'[t].inst = fetch[t].inst /\ fetch'[t].id = fetch[t].id
        /\ fetch'[t].result # fetch[t].result => ~Reachable(fetch[t].inst)
    <3>1. CASE Reachable(fetch[t].inst)
      <4>1. fetch'[t] = [fetch[t] EXCEPT !.pc = "queued", !.ino = task[t].ino, !.resume = task[t].resume]
        BY <1>0, <1>3, <3>1 DEF CallFetch, FetchToFd
      <4> QED BY <1>0, <4>1 DEF Transfers
    <3>2. CASE ~Reachable(fetch[t].inst)
      <4>1. fetch'[t] = ReplyOf(fetch[t], "DEAD_OBJECT")
        BY <1>0, <1>3, <3>2 DEF CallFetch, FetchToFd
      <4> QED BY <1>0, <3>2, <4>1, ReplyTyped DEF Results
    <3> QED BY <3>1, <3>2
  <2>4. fetch'[t].pc # "none"
    BY CallStepInv, <1>3, <2>2 DEF DlInv, ControlInv, TasksOK, TaskOK, CallOK
  <2>5. ASSUME NEW u \in Tasks PROVE ProxyOf(u)'
    BY <1>0, <2>1, <2>2, <2>3, <2>4 DEF SneakInv, ProxyInv, ProxyOf, Reachable
  <2>6. \A u \in Tasks : fetch'[u].inst = fetch[u].inst /\ fetch'[u].id = fetch[u].id
    BY <2>2, <2>3
  <2>7. ProxyInv'
    BY <2>1, <2>5, <2>6 DEF SneakInv, ProxyInv, Reachable, DlInv, ControlInv, CancellerFacts
  <2>8. ASSUME NEW u \in Tasks, InformedOf(u), u = t => task[u].pc = "call" PROVE InformedOf(u)'
    BY <2>1, <2>2, <2>6, <2>8 DEF InformedOf, Flagged
  <2>9. Handshake'
    BY <2>1, <2>2, <2>6, <2>8 DEF SneakInv, Handshake, Reachable
  <2> QED BY <2>7, <2>9 DEF SneakInv
<1> QED BY <1>1, <1>2, <1>3

\* cancel(): the client's call, the flag, the id.
LEMMA CancelSneak ==
    ASSUME DlInv, SneakInv, (\E t \in Tasks : ClientCancel(t)) \/ SetFlag \/ ReadId
    PROVE  SneakInv'
<1>0. /\ task \in [Tasks -> TaskRecs] /\ instance \in Nat /\ instance >= 1 /\ canceller \in CancellerRecs
      /\ CancellerFacts
  BY DEF DlInv, ControlInv, DlTyped, HttpInv, HttpTypeOK, TableInv, CallFacts
<1>1. Idle.pc = "idle" /\ Idle.http = 0 /\ Idle.task = NoTask
  BY DEF Idle
<1>2. UNCHANGED <<up, instance, mHttp, registered, httpLock, deadProxies, fetch, mRequests, cancelQ>>
  BY DEF ClientCancel, SetFlag, ReadId, httpVars, tableVars
<1>3. ASSUME NEW t \in Tasks, ClientCancel(t)
      PROVE  SneakInv'
  <2>1. canceller = Idle /\ task' = task
        /\ (canceller' = Idle \/ canceller' = [canceller EXCEPT !.pc = "flag", !.task = t])
    BY <1>3 DEF ClientCancel
  <2>2. canceller'.pc \in {"idle", "flag"} /\ canceller'.http = canceller.http
    BY <1>0, <1>1, <2>1 DEF CancellerRecs
  <2>3. ProxyInv'
    BY <1>2, <2>1, <2>2 DEF SneakInv, ProxyInv, ProxyOf, Reachable
  <2>4. Handshake'
    BY <1>1, <1>2, <2>1 DEF SneakInv, Handshake, InformedOf, Flagged, Reachable
  <2> QED BY <2>3, <2>4 DEF SneakInv
<1>4. CASE SetFlag
  <2> DEFINE t == canceller.task
  <2>1. canceller.pc = "flag" /\ canceller' = [canceller EXCEPT !.pc = "readId"] /\ t \in Tasks
        /\ task' = [task EXCEPT ![t] = [task[t] EXCEPT !.canceled = TRUE]]
    BY <1>0, <1>4 DEF SetFlag, CancellerFacts
  <2>2. canceller'.pc = "readId" /\ canceller'.http = canceller.http /\ canceller'.task = t
    BY <1>0, <2>1 DEF CancellerRecs
  <2>3. /\ \A u \in Tasks \ {t} : task'[u] = task[u]
        /\ task'[t].pc = task[t].pc /\ task'[t].http = task[t].http
    BY <1>0, <2>1 DEF TaskRecs
  <2>4. ASSUME NEW u \in Tasks PROVE ProxyOf(u)'
    BY <1>2, <2>3 DEF SneakInv, ProxyInv, ProxyOf, Reachable
  <2>5. ProxyInv'
    BY <1>2, <2>2, <2>4 DEF SneakInv, ProxyInv, Reachable
  <2>6. Handshake'
    BY <1>2, <2>1, <2>2, <2>3 DEF SneakInv, Handshake, InformedOf, Flagged, Reachable
  <2> QED BY <2>5, <2>6 DEF SneakInv
<1>5. CASE ReadId
  <2> DEFINE id == task[canceller.task].httpRequestId
  <2>1. canceller.pc = "readId" /\ canceller.task \in Tasks /\ task' = task
        /\ canceller' = IF id >= 0 THEN [canceller EXCEPT !.pc = "lookup", !.id = id] ELSE Idle
    BY <1>0, <1>5 DEF ReadId, CancellerFacts
  <2>2. CASE id >= 0
    <3>1. canceller'.pc = "lookup" /\ canceller'.http = canceller.http /\ canceller'.task = canceller.task
      BY <1>0, <2>1, <2>2 DEF CancellerRecs
    <3>2. ProxyInv'
      BY <1>2, <2>1, <3>1 DEF SneakInv, ProxyInv, ProxyOf, Reachable
    <3>3. Handshake'
      BY <1>2, <2>1, <3>1 DEF SneakInv, Handshake, InformedOf, Flagged, Reachable
    <3> QED BY <3>2, <3>3 DEF SneakInv
  <2>3. CASE ~(id >= 0)
    <3>1. id = -1
      <4>1. id \in Ids \cup {-1}
        BY <1>0, <2>1 DEF TaskRecs
      <4>2. \A i \in Ids : i >= 0
        BY BoundsAssumption DEF Ids
      <4> QED BY <2>3, <4>1, <4>2
    <3>2. task[canceller.task].pc \notin {"call", "fetching"}
      BY <2>1, <3>1, TaskFacts DEF CallOK
    <3>3. ProxyInv'
      BY <1>0, <1>1, <1>2, <2>1, <2>3 DEF SneakInv, ProxyInv, ProxyOf, Reachable
    <3>4. Handshake'
      BY <1>2, <2>1, <3>2 DEF SneakInv, Handshake, InformedOf, Flagged, Reachable
    <3> QED BY <3>3, <3>4 DEF SneakInv
  <2> QED BY <2>2, <2>3
<1> QED BY <1>3, <1>4, <1>5

\* cancel() looks for the proxy too: if the call it is about can be reached, the
\* proxy it finds is the one of the instance that has the call.
LEMMA CancelLookupSneak ==
    ASSUME DlInv, SneakInv, CancelLookup
    PROVE  SneakInv'
<1> DEFINE t == canceller.task
<1>0. /\ instance \in Nat /\ instance >= 1 /\ mHttp \in Nat /\ registered \in Nat
      /\ canceller \in CancellerRecs /\ canceller.http \in Nat
      /\ NoTask \notin Tasks /\ "cancel" \notin Tasks /\ NoTask # "cancel"
      /\ \A u \in Tasks : task[u].http \in Nat /\ fetch[u].inst \in Nat
  BY TasksAssumption DEF DlInv, ControlInv, DlTyped, HttpInv, HttpTypeOK, TableInv, CallFacts, CancellerRecs,
                         TaskRecs, Transfers
<1>1. /\ UNCHANGED <<up, instance, fetch, mRequests, cancelQ, deadProxies, registered, task>>
      /\ canceller.pc \in {"lookup", "polling"}
  BY DEF CancelLookup, httpVars
<1>2. /\ t \in Tasks /\ fetch[t].pc # "none"
  <2>1. t \in Tasks /\ task[t].httpRequestId # -1
    BY <1>1 DEF DlInv, ControlInv, CancellerFacts
  <2> QED BY <2>1, TaskFacts DEF CallOK
<1>3. Reachable(fetch[t].inst) => mHttp = instance
  BY <1>2 DEF SneakInv, ProxyInv, ProxyOf
<1>4. Idle.pc = "idle" /\ Idle.http = 0
  BY DEF Idle
<1>5. CASE canceller.pc = "lookup" /\ ProxyCached
  <2>1. UNCHANGED <<mHttp, httpLock>> /\ httpLock = NoTask
        /\ canceller' = [canceller EXCEPT !.pc = "send", !.http = mHttp]
    BY <1>5 DEF CancelLookup, ProxyCached, ProxyDropped
  <2>2. canceller'.pc = "send" /\ canceller'.http = mHttp /\ canceller'.task = t
    BY <1>0, <2>1 DEF CancellerRecs
  <2>3. ProxyInv'
    BY <1>1, <1>3, <2>1, <2>2 DEF SneakInv, ProxyInv, ProxyOf, Reachable
  <2>4. Handshake'
    BY <1>1, <1>5, <2>2 DEF SneakInv, Handshake, InformedOf, Flagged, Reachable
  <2> QED BY <2>3, <2>4 DEF SneakInv
<1>6. CASE canceller.pc = "lookup" /\ ProxyDropped("cancel")
  <2>1. /\ mHttp' = 0 /\ httpLock' = "cancel" /\ httpLock = NoTask /\ ~ProxyAlive
        /\ canceller' = [canceller EXCEPT !.pc = "polling"]
    BY <1>6 DEF CancelLookup, ProxyCached, ProxyDropped
  <2>2. canceller'.pc = "polling" /\ canceller'.http = canceller.http /\ canceller'.task = t
    BY <1>0, <2>1 DEF CancellerRecs
  <2>3. ~(up /\ mHttp = instance)
    BY <1>0, <2>1 DEF SneakInv, ProxyInv, ProxyAlive, Reachable
  <2>4. ASSUME NEW u \in Tasks PROVE ProxyOf(u)'
    BY <1>0, <1>1, <2>1, <2>3 DEF SneakInv, ProxyInv, ProxyOf, Reachable
  <2>5. ProxyInv'
    BY <1>0, <1>1, <2>1, <2>2, <2>4 DEF SneakInv, ProxyInv, Reachable
  <2>6. ~Reachable(fetch[t].inst)
    BY <1>3, <2>3 DEF Reachable
  <2>7. Handshake'
    BY <1>1, <2>2, <2>6 DEF SneakInv, Handshake, InformedOf, Flagged, Reachable
  <2> QED BY <2>5, <2>7 DEF SneakInv
<1>7. CASE canceller.pc = "polling"
  <2>1. httpLock = "cancel" /\ mHttp = 0
    BY <1>0, <1>7 DEF SneakInv, ProxyInv
  <2>2. httpLock' = NoTask /\ mHttp' \in {registered, mHttp}
        /\ (canceller' = [canceller EXCEPT !.pc = "send", !.http = registered] \/ canceller' = Idle)
    BY <1>7 DEF CancelLookup, ProxyFound, ProxyTimeout
  <2>3. /\ canceller'.http <= instance /\ canceller'.pc \in {"send", "idle"}
        /\ canceller'.pc = "send" => canceller'.task = t
    <3>1. registered <= instance
      BY DEF SneakInv, ProxyInv
    <3>2. CASE canceller' = Idle
      BY <1>0, <1>4, <3>2
    <3>3. CASE canceller' = [canceller EXCEPT !.pc = "send", !.http = registered]
      BY <1>0, <3>1, <3>3 DEF CancellerRecs
    <3> QED BY <2>2, <3>2, <3>3
  <2>4. ~Reachable(fetch[t].inst)
    BY <1>0, <1>3, <2>1
  <2>5. ASSUME NEW u \in Tasks PROVE ProxyOf(u)'
    <3>1. task[u].pc # "polling"
      BY <1>0, <2>1 DEF SneakInv, ProxyInv, ProxyOf
    <3>2. /\ ~(task[u].pc = "newId" /\ Reachable(task[u].http))
          /\ ~(fetch[u].pc # "none" /\ Reachable(fetch[u].inst))
      BY <1>0, <2>1 DEF SneakInv, ProxyInv, ProxyOf
    <3> QED BY <1>1, <3>1, <3>2 DEF SneakInv, ProxyInv, ProxyOf, Reachable
  <2>6. ProxyInv'
    BY <1>0, <1>1, <2>1, <2>2, <2>3, <2>4, <2>5 DEF SneakInv, ProxyInv, Reachable
  <2>7. Handshake'
    BY <1>1, <1>7, <2>4 DEF SneakInv, Handshake, InformedOf, Flagged, Reachable
  <2> QED BY <2>6, <2>7 DEF SneakInv
<1> QED BY <1>5, <1>6, <1>7 DEF CancelLookup

\* cancel() passes the id on, and the registry learns of the process.
LEMMA ForwardSneak ==
    ASSUME DlInv, SneakInv, ForwardCancel \/ Register \/ Reap
    PROVE  SneakInv'
<1>0. /\ instance \in Nat /\ instance >= 1 /\ canceller \in CancellerRecs /\ cancelQ \in Seq(Ids)
      /\ \A u \in Tasks : task[u].http \in Nat /\ fetch[u].inst \in Nat
  BY DEF DlInv, ControlInv, DlTyped, HttpInv, HttpTypeOK, TableInv, CallFacts, TaskRecs, Transfers
<1>1. CASE Register \/ Reap
  <2>1. /\ UNCHANGED <<up, instance, fetch, mRequests, cancelQ, deadProxies, task, mHttp, httpLock, canceller>>
        /\ registered' = instance \/ registered' = 0
    BY <1>1 DEF Register, Reap, httpVars
  <2>2. ProxyInv'
    BY <1>0, <2>1 DEF SneakInv, ProxyInv, ProxyOf, Reachable
  <2>3. Handshake'
    BY <2>1 DEF SneakInv, Handshake, InformedOf, Flagged, Reachable
  <2> QED BY <2>2, <2>3 DEF SneakInv
<1>2. CASE ForwardCancel
  <2> DEFINE t == canceller.task
  <2>1. /\ canceller.pc = "send" /\ SendCancel(canceller.http, canceller.id) /\ canceller' = Idle
        /\ deadProxies' = IF Reachable(canceller.http) THEN deadProxies ELSE deadProxies \cup {canceller.http}
        /\ UNCHANGED <<up, instance, fetch, mRequests, task, mHttp, httpLock, registered>>
    BY <1>2 DEF ForwardCancel, tableVars
  <2>2. /\ t \in Tasks /\ canceller.id \in Ids
        /\ canceller.id = fetch[t].id
    <3>1. t \in Tasks /\ canceller.id # -1 /\ canceller.id = task[t].httpRequestId
      BY <2>1 DEF DlInv, ControlInv, CancellerFacts
    <3> QED BY <1>0, <3>1, TaskFacts DEF CallOK, CancellerRecs
  <2>3. Idle.pc = "idle" /\ Idle.http = 0
    BY DEF Idle
  <2>4. \A i \in deadProxies' : i <= instance /\ ~Reachable(i)
    BY <2>1 DEF SneakInv, ProxyInv
  <2>5. ProxyInv'
    BY <1>0, <2>1, <2>3, <2>4 DEF SneakInv, ProxyInv, ProxyOf, Reachable
  <2>6. ASSUME NEW u \in Tasks, \E i \in DOMAIN cancelQ : cancelQ[i] = fetch[u].id
        PROVE  \E i \in DOMAIN cancelQ' : cancelQ'[i] = fetch[u].id
    <3>1. CASE cancelQ' = cancelQ
      BY <2>6, <3>1
    <3>2. CASE cancelQ' = Append(cancelQ, canceller.id)
      <4>1. PICK i \in DOMAIN cancelQ : cancelQ[i] = fetch[u].id
        BY <2>6
      <4>2. i \in DOMAIN cancelQ' /\ cancelQ'[i] = cancelQ[i]
        BY <1>0, <2>2, <3>2
      <4> QED BY <4>1, <4>2
    <3> QED BY <2>1, <3>1, <3>2 DEF SendCancel
  <2>7. ASSUME Reachable(fetch[t].inst)
        PROVE  \E i \in DOMAIN cancelQ' : cancelQ'[i] = fetch[t].id
    <3>1. Reachable(canceller.http)
      BY <2>1, <2>7 DEF SneakInv, ProxyInv, Reachable
    <3>2. cancelQ' = Append(cancelQ, canceller.id)
      BY <2>1, <3>1 DEF SendCancel
    <3>3. Len(cancelQ) + 1 \in DOMAIN cancelQ' /\ cancelQ'[Len(cancelQ) + 1] = canceller.id
      BY <1>0, <2>2, <3>2
    <3> QED BY <2>2, <3>3
  <2>8. Handshake'
    <3> SUFFICES ASSUME NEW u \in Tasks, task[u].canceled, task[u].pc \in {"call", "fetching"},
                        Reachable(fetch[u].inst)
                 PROVE  InformedOf(u)'
      BY <2>1 DEF Handshake, Reachable
    <3>1. InformedOf(u) \/ t = u
      BY DEF SneakInv, Handshake
    <3> QED BY <2>1, <2>6, <2>7, <3>1 DEF InformedOf, Flagged
  <2> QED BY <2>5, <2>8 DEF SneakInv
<1> QED BY <1>1, <1>2

\* The process: only its handler of cancel() takes a cancel from the inbox, and
\* it leaves the mark; when the process dies nothing is under way any more.
LEMMA ProcessSneak ==
    ASSUME ~Expires, DlInv, DoomedInv, SneakInv, HttpProcess, UNCHANGED dlVars
    PROVE  SneakInv'
<1>0. /\ HttpInv /\ HttpTypeOK /\ instance \in Nat /\ instance >= 1 /\ cancelQ \in Seq(Ids)
      /\ mRequests \in [Ids -> Requests]
      /\ \A u \in Tasks : /\ task[u].http \in Nat /\ fetch[u].inst \in Nat /\ fetch[u].inst <= instance
                          /\ CallOK(task[u], fetch[u])
      /\ canceller \in CancellerRecs /\ mHttp \in Nat /\ registered \in Nat /\ deadProxies \subseteq Nat
  BY TaskFacts DEF DlInv, ControlInv, DlTyped, HttpInv, HttpTypeOK, TableInv, CallFacts, TaskRecs, Transfers
<1>1. /\ \A c \in Calls : Served1(fetch[c], fetch'[c])
      /\ UNCHANGED <<task, mHttp, deadProxies, httpLock, registered, canceller>>
  BY <1>0, ProcessCalls DEF dlVars
<1>2. \A u \in Tasks : /\ fetch'[u].inst = fetch[u].inst /\ fetch'[u].id = fetch[u].id
                       /\ fetch'[u].pc = "none" <=> fetch[u].pc = "none"
                       /\ fetch[u].pc = "replied" => fetch'[u].pc = "replied"
  BY <1>1, PcSets DEF Served1, HandedPcs
<1>3. \/ up' = up /\ instance' = instance /\ (cancelQ' = cancelQ \/ CancelHandler)
      \/ Crash \/ Restart
  <2>1. ASSUME NEW c \in Calls, Transport(c)
        PROVE  UNCHANGED <<up, instance, cancelQ>>
    BY <1>0, <2>1, TransportMoves DEF Moves
  <2> QED BY <2>1 DEF HttpProcess, Accept, Transfer, Transport, BeginRequest, RejectSink, CountRequest,
                      UncountRequest, EndRequest, GetStringBegin, GetStringEnd, CancelHandler, Expire
<1>4. \A u \in Tasks : fetch'[u].result = "DEAD_OBJECT" =>
         \/ fetch[u].result = "DEAD_OBJECT"
         \/ Crash /\ fetch'[u] # fetch[u]
  BY <1>0, ProcessResult
<1>5. CASE Crash \/ Restart
  <2>1. /\ instance' \in Nat /\ instance <= instance'
        /\ \A i \in Nat : i <= instance => ~Reachable(i)'
    BY <1>0, <1>5 DEF Crash, Restart, Reachable
  <2>2. ASSUME NEW u \in Tasks PROVE ProxyOf(u)'
    <3>1. fetch'[u].result = "DEAD_OBJECT" => fetch'[u].pc # "none"
      BY <1>1, <1>2, <1>4, PcSets DEF SneakInv, ProxyInv, ProxyOf, Served1, HandedPcs
    <3>2. task[u].http <= instance /\ (task[u].pc = "polling" => httpLock = u)
      BY DEF SneakInv, ProxyInv, ProxyOf
    <3> QED BY <1>0, <1>1, <1>2, <2>1, <3>1, <3>2 DEF ProxyOf
  <2>3. ASSUME canceller.pc = "send"
        PROVE  canceller.task \in Tasks
    BY <2>3 DEF DlInv, ControlInv, CancellerFacts
  <2>4. canceller.http \in Nat
    BY <1>0 DEF CancellerRecs
  <2>5. ProxyInv'
    BY <1>0, <1>1, <1>2, <2>1, <2>2, <2>3, <2>4 DEF SneakInv, ProxyInv
  <2>6. Handshake'
    BY <1>0, <1>1, <1>2, <2>1 DEF Handshake
  <2> QED BY <2>5, <2>6 DEF SneakInv
<1>6. CASE up' = up /\ instance' = instance /\ (cancelQ' = cancelQ \/ CancelHandler)
  <2>0. \A i : Reachable(i)' <=> Reachable(i)
    BY <1>6 DEF Reachable
  <2>1. ~Crash
    BY <1>6 DEF Crash
  <2>2. ASSUME NEW u \in Tasks PROVE ProxyOf(u)'
    BY <1>1, <1>2, <1>4, <1>6, <2>0, <2>1 DEF SneakInv, ProxyInv, ProxyOf
  <2>3. ASSUME canceller.pc = "send"
        PROVE  canceller.task \in Tasks
    BY <2>3 DEF DlInv, ControlInv, CancellerFacts
  <2>4. ProxyInv'
    BY <1>1, <1>2, <1>6, <2>0, <2>2, <2>3 DEF SneakInv, ProxyInv
  <2>5. ASSUME NEW u \in Tasks, fetch[u].pc # "none", Reachable(fetch[u].inst), InformedOf(u)
        PROVE  InformedOf(u)'
    <3>1. CASE fetch[u].pc = "replied"
      BY <1>2, <3>1 DEF InformedOf
    <3>2. CASE Flagged(u)
      <4>1. Reachable(fetch[u].inst)'
        BY <1>2, <1>6, <2>5 DEF Reachable
      <4>2. Flagged(u)' \/ fetch'[u].pc = "replied"
        BY <1>0, <2>5, <3>2, <4>1, FlagKept DEF DoomedInv
      <4> QED BY <4>2 DEF InformedOf
    <3>3. CASE (\E i \in DOMAIN cancelQ : cancelQ[i] = fetch[u].id) /\ cancelQ' = cancelQ
      BY <1>2, <3>3 DEF InformedOf
    <3>4. CASE (\E i \in DOMAIN cancelQ : cancelQ[i] = fetch[u].id) /\ CancelHandler
      <4>1. PICK i \in DOMAIN cancelQ : cancelQ[i] = fetch[u].id
        BY <3>4
      <4>2. cancelQ # << >> /\ cancelQ' = Tail(cancelQ)
        BY <3>4 DEF CancelHandler
      <4>3. CASE i = 1
        <5>1. fetch[u].id \in Ids /\ Head(cancelQ) = fetch[u].id
          BY <1>0, <4>1, <4>2, <4>3
        <5> DEFINE j == fetch[u].id
        <5>2. mRequests'[j] = IF mRequests[j].present THEN [mRequests[j] EXCEPT !.canceled = TRUE]
                              ELSE [NewRequest EXCEPT !.canceled = TRUE]
          BY <1>0, <3>4, <5>1 DEF CancelHandler
        <5>3. mRequests[j] \in Requests
          BY <1>0, <5>1
        <5>4. mRequests'[j].present /\ mRequests'[j].canceled
          <6>1. CASE mRequests[j].present
            BY <5>2, <5>3, <6>1 DEF Requests
          <6>2. CASE ~mRequests[j].present
            BY <5>2, <6>2 DEF NewRequest, NoRequest
          <6> QED BY <6>1, <6>2
        <5> QED BY <1>2, <5>4 DEF InformedOf, Flagged
      <4>4. CASE i # 1
        <5>1. i - 1 \in DOMAIN cancelQ' /\ cancelQ'[i - 1] = cancelQ[i]
          BY <1>0, <4>1, <4>2, <4>4
        <5> QED BY <1>2, <4>1, <5>1 DEF InformedOf
      <4> QED BY <4>3, <4>4
    <3> QED BY <1>6, <2>5, <3>1, <3>2, <3>3, <3>4 DEF InformedOf
  <2>6. Handshake'
    <3> SUFFICES ASSUME NEW u \in Tasks, task[u].canceled, task[u].pc \in {"call", "fetching"},
                        Reachable(fetch[u].inst)
                 PROVE  InformedOf(u)' \/ (canceller.task = u /\ canceller.pc \in {"readId", "lookup", "send"})
      BY <1>1, <1>2, <2>0 DEF Handshake
    <3>1. fetch[u].pc # "none"
      BY <1>0 DEF CallOK
    <3> QED BY <2>5, <3>1 DEF SneakInv, Handshake
  <2> QED BY <2>4, <2>6 DEF SneakInv
<1> QED BY <1>3, <1>5, <1>6

\* Every step keeps the handshake.
LEMMA NextSneak ==
    ASSUME ~Expires
    PROVE  DlInv /\ DoomedInv /\ SneakInv /\ [Next]_vars => SneakInv'
<1> SUFFICES ASSUME DlInv, DoomedInv, SneakInv, [Next]_vars PROVE SneakInv'
  OBVIOUS
<1>1. ASSUME NEW t \in Tasks, Enqueue(t) \/ Worker(t) \/ Relay(t)
      PROVE  SneakInv'
  BY <1>1, CalmSteps, LookupSneak, RequestSneak DEF Worker, LocalStep
<1>2. CASE (\E t \in Tasks : ClientCancel(t)) \/ Canceller
  BY <1>2, CancelSneak, CancelLookupSneak, ForwardSneak DEF Canceller
<1>3. CASE Quiet \/ UNCHANGED vars
  <2>1. UNCHANGED <<task, up, instance, mHttp, registered, httpLock, canceller, fetch, mRequests, cancelQ, deadProxies>>
    BY <1>3 DEF Quiet, vars, httpVars, dlVars
  <2> QED BY <2>1, CalmInv DEF Calm
<1> QED BY <1>1, <1>2, <1>3, ForwardSneak, ProcessSneak DEF Next

\* "a transfer cannot sneak past a cancel that already happened": the worker
\* publishes the id before it reads the flag, cancel() sets the flag before it
\* reads the id, and the proxy that cancel() finds is the one that has the call,
\* whatever crashes and lookups come between; provided that no entry of the
\* request table outlives kStaleRequestMs.
THEOREM DownloadNoSneak ==
    ASSUME ~Expires
    PROVE  Spec => []NoSneak
<1>1. Init => DlInv /\ DoomedInv /\ SneakInv
  <2> SUFFICES ASSUME Init PROVE SneakInv
    BY InitDl, InitDoomedDl
  <2>1. NewTask.http = 0 /\ NewTask.pc = "none" /\ ~NewTask.canceled /\ NoFetch.pc = "none" /\ NoFetch.inst = 0
        /\ NoFetch.result = "none" /\ Idle.http = 0 /\ Idle.pc = "idle"
    BY DEF NewTask, NoFetch, Idle
  <2>2. ProxyInv
    BY <2>1 DEF Init, InitHttp, ProxyInv, ProxyOf
  <2>3. Handshake
    BY <2>1 DEF Init, Handshake
  <2> QED BY <2>2, <2>3 DEF SneakInv
<1>2. DlInv /\ DoomedInv /\ SneakInv /\ [Next]_vars => (DlInv /\ DoomedInv /\ SneakInv)'
  BY NextDl, NextDoomedDl, NextSneak
<1>3. SneakInv => NoSneak
  <2> SUFFICES ASSUME SneakInv, NEW t \in Tasks, task[t].canceled, canceller.task # t,
                      task[t].pc \in {"call", "fetching"}, Reachable(fetch[t].inst)
               PROVE  \/ fetch[t].pc = "replied"
                      \/ mRequests[fetch[t].id].canceled
                      \/ \E i \in DOMAIN cancelQ : cancelQ[i] = fetch[t].id
    BY DEF NoSneak
  <2> QED BY DEF SneakInv, Handshake, InformedOf, Flagged
<1> QED BY <1>1, <1>2, <1>3, PTL DEF Spec
===============================================================================
