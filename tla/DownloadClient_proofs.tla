-------------------------- MODULE DownloadClient_proofs --------------------------
(***************************************************************************)
(* Safety of the task table for any number of downloads and waiters, and   *)
(* of the command line clients that use it: what a client hears, asks and  *)
(* exits with is what the table recorded, unless the service died.         *)
(***************************************************************************)
EXTENDS DownloadClient, TLAPS

-------------------------------------------------------------------------------
(* The task table *)

\* What the worker of a task has written, by where it is in finish().
WorkerFacts ==
    \A t \in Tasks :
        /\ worker[t] \in {"none", "start", "run", "message", "state"} => ~isTerminal(state[t])
        /\ worker[t] \in {"message", "state"} => outcome[t] \in Terminal
        /\ worker[t] = "state" => message[t] = outcome[t]
        /\ worker[t] \in {"notify", "done"} => isTerminal(state[t]) /\ message[t] = state[t]

\* A waiter leaves only with the predicate true or its time up.
WaiterFacts ==
    \A w \in Waiters :
        /\ waiter[w] = "late" => w \in timed
        /\ waiter[w] = "leave" => w \in timed \/ isTerminal(state[WaitsFor[w]])
        /\ waiter[w] # "returned" => result[w] = "none"

TableInv == TypeOK /\ WorkerFacts /\ WaiterFacts /\ UntimedIsTerminal /\ ResultIsVerdict

USE TableAssumption

\* The invariant implies that a terminal state comes with its message.
LEMMA MessageSeenFromInv == TypeOK /\ WorkerFacts => MessageSeen
BY DEF TypeOK, WorkerFacts, MessageSeen, WorkerPcs

\* The initial table satisfies the invariant.
LEMMA TableInit == Init => TableInv /\ LockOwned
BY DEF Init, TableInv, TypeOK, WorkerFacts, WaiterFacts, UntimedIsTerminal, ResultIsVerdict,
       LockOwned, isTerminal, Terminal, States, WorkerPcs, WaiterPcs

\* Every step of every thread preserves the types.
LEMMA TableTyped == TypeOK /\ WorkerFacts /\ [Next]_vars => TypeOK'
<1> SUFFICES ASSUME TypeOK, WorkerFacts, [Next]_vars PROVE TypeOK'
  OBVIOUS
<1> USE DEF TypeOK, WorkerPcs, WaiterPcs, States
<1>1. ASSUME NEW t \in Tasks, Enqueue(t) PROVE TypeOK'
  BY <1>1 DEF Enqueue
<1>2. ASSUME NEW t \in Tasks, Worker(t) PROVE TypeOK'
  <2>1. CASE Start(t) BY <2>1 DEF Start
  <2>2. CASE Run(t) BY <2>2 DEF Run
  <2>3. CASE FinishMessage(t) BY <2>3 DEF FinishMessage
  <2>4. CASE FinishState(t)
    <3>1. outcome[t] \in Terminal
      BY <2>4 DEF FinishState, WorkerFacts
    <3> QED BY <2>4, <3>1 DEF FinishState
  <2>5. CASE FinishNotify(t) BY <2>5 DEF FinishNotify
  <2> QED BY <1>2, <2>1, <2>2, <2>3, <2>4, <2>5 DEF Worker
<1>3. ASSUME NEW w \in Waiters, FindTask(w) \/ Waiter(w) \/ SpuriousWakeup(w) \/ Timeout(w)
      PROVE TypeOK'
  <2>1. CASE FindTask(w) BY <2>1 DEF FindTask
  <2>2. CASE Lock(w) BY <2>2 DEF Lock
  <2>3. CASE Check(w) BY <2>3 DEF Check
  <2>4. CASE Block(w) BY <2>4 DEF Block
  <2>5. CASE Leave(w) BY <2>5 DEF Leave
  <2>6. CASE SpuriousWakeup(w) BY <2>6 DEF SpuriousWakeup
  <2>7. CASE Timeout(w) BY <2>7 DEF Timeout
  <2> QED BY <1>3, <2>1, <2>2, <2>3, <2>4, <2>5, <2>6, <2>7 DEF Waiter
<1>4. CASE UNCHANGED vars
  BY <1>4 DEF vars
<1> QED BY <1>1, <1>2, <1>3, <1>4 DEF Next, Quiet

\* finish() writes the message before the state, whatever the other threads do.
LEMMA WorkerStep == TypeOK /\ WorkerFacts /\ [Next]_vars => WorkerFacts'
<1> SUFFICES ASSUME TypeOK, WorkerFacts, [Next]_vars PROVE WorkerFacts'
  OBVIOUS
<1> USE DEF TypeOK, WorkerFacts, isTerminal
<1>1. ASSUME NEW t \in Tasks, Enqueue(t) PROVE WorkerFacts'
  BY <1>1 DEF Enqueue
<1>2. ASSUME NEW t \in Tasks, Worker(t) PROVE WorkerFacts'
  <2>1. CASE Start(t) BY <2>1 DEF Start, Terminal
  <2>2. CASE Run(t) BY <2>2 DEF Run
  <2>3. CASE FinishMessage(t) BY <2>3 DEF FinishMessage
  <2>4. CASE FinishState(t) BY <2>4 DEF FinishState
  <2>5. CASE FinishNotify(t) BY <2>5 DEF FinishNotify
  <2> QED BY <1>2, <2>1, <2>2, <2>3, <2>4, <2>5 DEF Worker
<1>3. ASSUME NEW w \in Waiters, FindTask(w) \/ Waiter(w) \/ SpuriousWakeup(w) \/ Timeout(w)
      PROVE WorkerFacts'
  BY <1>3 DEF FindTask, Waiter, Lock, Check, Block, Leave, SpuriousWakeup, Timeout
<1>4. CASE UNCHANGED vars
  BY <1>4 DEF vars
<1> QED BY <1>1, <1>2, <1>3, <1>4 DEF Next, Quiet

\* A terminal state is final: finish() runs once for a task.
LEMMA TerminalFinal ==
    TypeOK /\ WorkerFacts /\ [Next]_vars =>
        \A t \in Tasks : isTerminal(state[t]) => state'[t] = state[t]
<1> SUFFICES ASSUME TypeOK, WorkerFacts, [Next]_vars, NEW u \in Tasks, isTerminal(state[u])
             PROVE state'[u] = state[u]
  OBVIOUS
<1> USE DEF TypeOK, WorkerFacts
<1>1. ASSUME NEW t \in Tasks, Enqueue(t) PROVE state'[u] = state[u]
  BY <1>1 DEF Enqueue
<1>2. ASSUME NEW t \in Tasks, Worker(t) PROVE state'[u] = state[u]
  BY <1>2 DEF Worker, Start, Run, FinishMessage, FinishState, FinishNotify
<1>3. ASSUME NEW w \in Waiters, FindTask(w) \/ Waiter(w) \/ SpuriousWakeup(w) \/ Timeout(w)
      PROVE state'[u] = state[u]
  BY <1>3 DEF FindTask, Waiter, Lock, Check, Block, Leave, SpuriousWakeup, Timeout
<1>4. CASE UNCHANGED vars
  BY <1>4 DEF vars
<1> QED BY <1>1, <1>2, <1>3, <1>4 DEF Next, Quiet

Waiting == WaiterFacts /\ UntimedIsTerminal /\ ResultIsVerdict

\* What the waiters know survives every step; TerminalFinal keeps their results true.
LEMMA WaiterStep == TableInv /\ [Next]_vars => Waiting'
<1> SUFFICES ASSUME TableInv, [Next]_vars PROVE Waiting'
  OBVIOUS
<1>0. /\ TypeOK /\ WaiterFacts /\ UntimedIsTerminal /\ ResultIsVerdict
      /\ \A t \in Tasks : isTerminal(state[t]) => state'[t] = state[t]
  BY TerminalFinal DEF TableInv
<1> USE <1>0 DEF TypeOK, Waiting, WaiterFacts, UntimedIsTerminal, ResultIsVerdict
<1>1. ASSUME NEW t \in Tasks, Enqueue(t) PROVE Waiting'
  BY <1>1 DEF Enqueue
<1>2. ASSUME NEW t \in Tasks, Worker(t) PROVE Waiting'
  <2>1. CASE FinishNotify(t) BY <2>1 DEF FinishNotify
  <2>2. CASE Start(t) \/ Run(t) \/ FinishMessage(t) \/ FinishState(t)
    <3>1. UNCHANGED <<waiter, timed, result>>
      BY <2>2 DEF Start, Run, FinishMessage, FinishState
    <3>2. \A w \in Waiters : WaitsFor[w] \in Tasks
      OBVIOUS
    <3> QED BY <3>1, <3>2
  <2> QED BY <1>2, <2>1, <2>2 DEF Worker
<1>3. ASSUME NEW w \in Waiters, FindTask(w) \/ Waiter(w) \/ SpuriousWakeup(w) \/ Timeout(w)
      PROVE Waiting'
  <2>1. CASE FindTask(w)
    <3>1. ~isTerminal("UNKNOWN")
      BY DEF isTerminal, Terminal
    <3>2. UNCHANGED state
      BY <2>1 DEF FindTask
    <3>3. CASE id[WaitsFor[w]] = 0
      <4>1. /\ waiter' = [waiter EXCEPT ![w] = "returned"]
            /\ timed \subseteq timed'
            /\ result' = [result EXCEPT ![w] = "UNKNOWN"]
        BY <2>1, <3>3 DEF FindTask
      <4>2. WaiterFacts'
        BY <3>2, <4>1
      <4>3. UntimedIsTerminal'
        BY <3>2, <4>1
      <4>4. ResultIsVerdict'
        BY <3>1, <3>2, <4>1
      <4> QED BY <4>2, <4>3, <4>4
    <3>4. CASE id[WaitsFor[w]] # 0
      BY <2>1, <3>2, <3>4 DEF FindTask
    <3> QED BY <3>3, <3>4
  <2>2. CASE Lock(w) BY <2>2 DEF Lock
  <2>3. CASE Check(w) BY <2>3 DEF Check
  <2>4. CASE Block(w) BY <2>4 DEF Block
  <2>5. CASE Leave(w) BY <2>5 DEF Leave
  <2>6. CASE SpuriousWakeup(w) BY <2>6 DEF SpuriousWakeup
  <2>7. CASE Timeout(w) BY <2>7 DEF Timeout
  <2> QED BY <1>3, <2>1, <2>2, <2>3, <2>4, <2>5, <2>6, <2>7 DEF Waiter
<1>4. CASE UNCHANGED vars
  BY <1>4 DEF vars
<1> QED BY <1>1, <1>2, <1>3, <1>4 DEF Next, Quiet

\* One owner at a time, and only between Lock and Block or Leave.
LEMMA LockStep == TypeOK /\ LockOwned /\ [Next]_vars => LockOwned'
<1> SUFFICES ASSUME TypeOK, LockOwned, [Next]_vars PROVE LockOwned'
  OBVIOUS
<1> USE DEF TypeOK, LockOwned
<1>1. ASSUME NEW t \in Tasks, Enqueue(t) PROVE LockOwned'
  BY <1>1 DEF Enqueue
<1>2. ASSUME NEW t \in Tasks, Worker(t) PROVE LockOwned'
  BY <1>2 DEF Worker, Start, Run, FinishMessage, FinishState, FinishNotify
<1>3. ASSUME NEW w \in Waiters, FindTask(w) \/ Waiter(w) \/ SpuriousWakeup(w) \/ Timeout(w)
      PROVE LockOwned'
  <2>1. CASE FindTask(w) BY <2>1 DEF FindTask
  <2>2. CASE Lock(w) BY <2>2 DEF Lock
  <2>3. CASE Check(w) BY <2>3 DEF Check
  <2>4. CASE Block(w) BY <2>4 DEF Block
  <2>5. CASE Leave(w) BY <2>5 DEF Leave
  <2>6. CASE SpuriousWakeup(w) BY <2>6 DEF SpuriousWakeup
  <2>7. CASE Timeout(w) BY <2>7 DEF Timeout
  <2> QED BY <1>3, <2>1, <2>2, <2>3, <2>4, <2>5, <2>6, <2>7 DEF Waiter
<1>4. CASE UNCHANGED vars
  BY <1>4 DEF vars
<1> QED BY <1>1, <1>2, <1>3, <1>4 DEF Next, Quiet

\* The strengthened invariant holds of every behaviour of the table.
THEOREM TableInvariant == Spec => [](TableInv /\ LockOwned)
<1>1. TableInv /\ LockOwned /\ [Next]_vars => TableInv' /\ LockOwned'
  BY TableTyped, WorkerStep, WaiterStep, LockStep DEF TableInv, Waiting
<1> QED BY TableInit, <1>1, PTL DEF Spec

\* The variables of the task table keep their types.
THEOREM TableTypeCorrect == Spec => []TypeOK
<1>1. TableInv => TypeOK
  BY DEF TableInv
<1> QED BY TableInvariant, <1>1, PTL

\* mLock has one owner, a waiter between Lock and Block or Leave: the critical
\* sections of awaitCompletion(), enqueue() and finish() exclude each other.
THEOREM TableLockOwned == Spec => []LockOwned
BY TableInvariant, PTL

\* finish(): whoever reads a terminal state also sees its message.
THEOREM TableMessageSeen == Spec => []MessageSeen
<1>1. TableInv => MessageSeen
  BY MessageSeenFromInv DEF TableInv
<1> QED BY TableInvariant, <1>1, PTL

\* awaitCompletion() without a timeout only returns a terminal state.
THEOREM TableUntimedIsTerminal == Spec => []UntimedIsTerminal
<1>1. TableInv => UntimedIsTerminal
  BY DEF TableInv
<1> QED BY TableInvariant, <1>1, PTL

\* A terminal state that awaitCompletion() returned stays the task's state.
THEOREM TableResultIsVerdict == Spec => []ResultIsVerdict
<1>1. TableInv => ResultIsVerdict
  BY DEF TableInv
<1> QED BY TableInvariant, <1>1, PTL

-------------------------------------------------------------------------------
(* The clients use the table as it is meant to be used *)

\* A step of the clients and the service is a step of the table, or none.
LEMMA ClientTable == [ClientNext]_allVars => [Next]_vars
<1> SUFFICES ASSUME [ClientNext]_allVars PROVE [Next]_vars
  OBVIOUS
<1>1. ASSUME NEW t \in Tasks, Work(t) \/ HandleEnqueue(t) PROVE Next
  BY <1>1 DEF Work, HandleEnqueue, Next
<1>2. ASSUME NEW w \in Waiters, Await(w) PROVE Next
  BY <1>2 DEF Await, Next
<1>3. ASSUME NEW t \in Tasks, Progress(t) \/ Tell(t) \/ Main(t) \/ Refuse(t) \/ Describe(t)
                                \/ CancelAfter(t) \/ Deliver(t) \/ BinderDied(t)
      PROVE  UNCHANGED vars
  BY <1>3 DEF Progress, Tell, Main, Refuse, Describe, CancelAfter, Deliver, BinderDied, Begin, Lookup, Link,
              Accepted, EnqueueFails, AwaitDone, Join, Report
<1>4. CASE runService \/ Die \/ Unregister \/ HandleCancel \/ Over \/ UNCHANGED allVars
  BY <1>4 DEF runService, Die, Unregister, HandleCancel, Over, allVars
<1> QED BY <1>1, <1>2, <1>3, <1>4 DEF ClientNext

\* Clients, their crashes of the service, its pool and its buffers included,
\* implement the task table: everything proved of it holds here.
THEOREM ClientsUseTable == ClientSpec => Spec
<1>1. ClientInit => Init
  BY DEF ClientInit
<1> QED BY <1>1, ClientTable, PTL DEF ClientSpec, Spec

-------------------------------------------------------------------------------
(* What a client knows *)

ClientPcs == {"start", "lookup", "link", "enqueue", "served", "await", "join", "describe", "report", "exited"}
Heard == {"UNKNOWN"} \cup Terminal

ClientRecs ==
    [args : CommandLines, pc : ClientPcs, linked : {"no", "yes", "fired"}, mState : Heard,
     canceller : {"none", "asleep", "done"}, finalState : Heard,
     summary : States \cup {"none", "UNKNOWN"}, code : {-1, 0, 1, 2}]

ClientTyped ==
    /\ client \in [Tasks -> ClientRecs]
    /\ calls \in [Tasks -> Seq({"RUNNING"} \cup Terminal)]

\* A task whose worker is past finish() has an id and its verdict recorded.
Recorded(t) ==
    /\ worker[t] # "none" => id[t] # 0
    /\ worker[t] \in {"notify", "done"} => state[t] = outcome[t]

\* s is the verdict on t, or what the death of the service is taken for.
IsVerdict(t, s) ==
    \/ worker[t] = "done" /\ s = state[t]
    \/ service = "dead" /\ s = "FAILED"

\* What is on its way to the client is the verdict, what it has heard is, and it
\* repeats it to the end.
ClientOf(t) ==
    LET c == client[t] IN
    /\ \A i \in DOMAIN calls[t] : isTerminal(calls[t][i]) => worker[t] = "done" /\ calls[t][i] = state[t]
    /\ c.mState # "UNKNOWN" => IsVerdict(t, c.mState)
    /\ c.finalState # "UNKNOWN" => IsVerdict(t, c.finalState) /\ c.pc \in {"join", "describe", "report", "exited"}
    /\ c.pc \in {"join", "describe", "report"} => c.finalState # "UNKNOWN"
    /\ c.summary # "none" => c.summary = c.finalState /\ c.pc \in {"report", "exited"}
    /\ c.code # -1 => c.pc = "exited"
    /\ c.code = 0 => c.finalState = "COMPLETED"

ClientInv ==
    /\ TableInv /\ ClientTyped
    /\ \A t \in Tasks : Recorded(t) /\ ClientOf(t)

\* A worker that is done stays done, and its verdict stays.
LEMMA DoneFinal ==
    ASSUME TableInv, [Next]_vars, NEW u \in Tasks, worker[u] = "done"
    PROVE  worker'[u] = "done" /\ state'[u] = state[u]
<1> USE DEF TableInv, TypeOK
<1>0. state'[u] = state[u]
  BY TerminalFinal DEF WorkerFacts
<1>1. ASSUME NEW t \in Tasks, Enqueue(t) \/ Worker(t) PROVE worker'[u] = "done"
  BY <1>1 DEF Enqueue, Worker, Start, Run, FinishMessage, FinishState, FinishNotify
<1>2. ASSUME NEW w \in Waiters, FindTask(w) \/ Waiter(w) \/ SpuriousWakeup(w) \/ Timeout(w)
      PROVE worker'[u] = "done"
  BY <1>2 DEF FindTask, Waiter, Lock, Check, Block, Leave, SpuriousWakeup, Timeout
<1>3. CASE UNCHANGED vars
  BY <1>3 DEF vars
<1> QED BY <1>0, <1>1, <1>2, <1>3 DEF Next, Quiet

\* finish() records the verdict that the worker found.
LEMMA RecordedStep ==
    ASSUME TableInv, \A t \in Tasks : Recorded(t), [Next]_vars, NEW u \in Tasks
    PROVE  Recorded(u)'
<1> USE DEF TableInv, TypeOK, Recorded
<1>1. ASSUME NEW t \in Tasks, Enqueue(t) PROVE Recorded(u)'
  BY <1>1 DEF Enqueue
<1>2. ASSUME NEW t \in Tasks, Worker(t) PROVE Recorded(u)'
  <2>1. CASE Start(t) BY <2>1 DEF Start
  <2>2. CASE Run(t) BY <2>2 DEF Run
  <2>3. CASE FinishMessage(t) BY <2>3 DEF FinishMessage
  <2>4. CASE FinishState(t) BY <2>4 DEF FinishState
  <2>5. CASE FinishNotify(t) BY <2>5 DEF FinishNotify
  <2> QED BY <1>2, <2>1, <2>2, <2>3, <2>4, <2>5 DEF Worker
<1>3. ASSUME NEW w \in Waiters, FindTask(w) \/ Waiter(w) \/ SpuriousWakeup(w) \/ Timeout(w)
      PROVE Recorded(u)'
  BY <1>3 DEF FindTask, Waiter, Lock, Check, Block, Leave, SpuriousWakeup, Timeout
<1>4. CASE UNCHANGED vars
  BY <1>4 DEF vars
<1> QED BY <1>1, <1>2, <1>3, <1>4 DEF Next, Quiet

\* A verdict is final, and so is the death of the service.
Settled ==
    /\ service = "dead" => service' = "dead"
    /\ \A t \in Tasks : worker[t] = "done" => worker'[t] = "done" /\ state'[t] = state[t]

\* Every step leaves the verdicts as they are.
LEMMA SettledStep ==
    ASSUME TableInv, [ClientNext]_allVars
    PROVE  Settled
<1>1. service = "dead" => service' = "dead"
  BY DEF ClientNext, Progress, Tell, Main, Refuse, Describe, CancelAfter, Deliver, BinderDied, Begin, Lookup, Link,
         Accepted, EnqueueFails, AwaitDone, Join, Report, runService, Die, Unregister, HandleCancel, Over,
         Work, HandleEnqueue, Await, clientVars, allVars, svc
<1> QED BY <1>1, ClientTable, DoneFinal DEF Settled

\* What holds of a client goes on to hold of it while it stands still.
LEMMA ClientStill ==
    ASSUME Settled, NEW u \in Tasks, ClientOf(u), client'[u] = client[u], calls'[u] = calls[u]
    PROVE  ClientOf(u)'
BY DEF Settled, ClientOf, IsVerdict

Clients == ClientTyped /\ \A u \in Tasks : ClientOf(u)

\* One client moves; its callbacks stay where they are.
LEMMA ClientMoves ==
    ASSUME Clients, Settled,
           NEW t \in Tasks, NEW g \in ClientRecs, client' = [client EXCEPT ![t] = g], calls' = calls,
           g.mState # "UNKNOWN" => g.mState = client[t].mState \/ IsVerdict(t, g.mState),
           g.finalState # "UNKNOWN" =>
               /\ g.finalState = client[t].finalState \/ IsVerdict(t, g.finalState)
               /\ g.pc \in {"join", "describe", "report", "exited"},
           g.pc \in {"join", "describe", "report"} => g.finalState # "UNKNOWN",
           g.summary # "none" => g.summary = g.finalState /\ g.pc \in {"report", "exited"},
           g.code # -1 => g.pc = "exited",
           g.code \in {-1, 1, 2} \/ (g.code = 0 /\ g.finalState = "COMPLETED")
    PROVE  Clients'
<1> USE DEF Clients
<1>1. ClientTyped' /\ client'[t] = g /\ \A u \in Tasks \ {t} : client'[u] = client[u]
  BY DEF ClientTyped
<1>2. \A u \in Tasks \ {t} : ClientOf(u)'
  BY <1>1, ClientStill
<1>3. \A s : IsVerdict(t, s) => IsVerdict(t, s)'
  BY DEF Settled, IsVerdict
<1>4. ClientOf(t)
  OBVIOUS
<1>5. /\ g.mState # "UNKNOWN" => IsVerdict(t, g.mState)'
      /\ g.finalState # "UNKNOWN" => IsVerdict(t, g.finalState)'
  BY <1>3, <1>4 DEF ClientOf
<1>6. \A i \in DOMAIN calls'[t] : isTerminal(calls'[t][i]) => worker'[t] = "done" /\ calls'[t][i] = state'[t]
  BY <1>4 DEF ClientOf, Settled
<1>7. ClientOf(t)'
  BY <1>1, <1>5, <1>6 DEF ClientOf, ClientRecs
<1> QED BY <1>1, <1>2, <1>7

\* main() up to the wait: nothing was heard yet that a client would go by.
LEMMA EarlySteps ==
    ASSUME TableInv, Clients, Settled, NEW t \in Tasks,
           \/ Begin(t) \/ Lookup(t) \/ Link(t) \/ Accepted(t) \/ EnqueueFails(t)
           \/ HandleEnqueue(t) \/ Refuse(t) \/ CancelAfter(t) \/ Join(t)
    PROVE  Clients'
<1> DEFINE c == client[t]
<1>0. c \in ClientRecs /\ ClientOf(t) /\ calls' = calls
  BY DEF Clients, ClientTyped, Begin, Lookup, Link, Accepted, EnqueueFails, HandleEnqueue, Refuse, CancelAfter,
         Join, wire
<1>1. ASSUME NEW pc \in ClientPcs \ {"report"}, NEW k \in {-1, 1, 2},
             client' = [client EXCEPT ![t] = [c EXCEPT !.pc = pc, !.code = k]],
             k # -1 => pc = "exited", c.code = -1,
             c.finalState # "UNKNOWN" => pc \in {"join", "describe"},
             pc \in {"join", "describe"} => c.finalState # "UNKNOWN",
             c.summary = "none"
      PROVE  Clients'
  <2> DEFINE g == [c EXCEPT !.pc = pc, !.code = k]
  <2>1. /\ g \in ClientRecs /\ g.pc = pc /\ g.code = k /\ g.mState = c.mState
        /\ g.finalState = c.finalState /\ g.summary = c.summary
    BY <1>0, <1>1 DEF ClientRecs
  <2> HIDE DEF g
  <2> QED BY <1>0, <1>1, <2>1, ClientMoves DEF g
<1>2. ASSUME c.pc \in ClientPcs \ {"join", "describe", "report", "exited"}
      PROVE  c.finalState = "UNKNOWN" /\ c.summary = "none" /\ c.code = -1
  BY <1>0, <1>2 DEF ClientOf
<1>3. ASSUME NEW pc \in ClientPcs, Go(t, pc), c.code = -1
      PROVE  client' = [client EXCEPT ![t] = [c EXCEPT !.pc = pc, !.code = -1]]
  <2>1. [c EXCEPT !.pc = pc] = [c EXCEPT !.pc = pc, !.code = -1]
    BY <1>0, <1>3 DEF ClientRecs
  <2> QED BY <1>3, <2>1 DEF Go
<1>4. CASE Begin(t) \/ Lookup(t) \/ EnqueueFails(t) \/ HandleEnqueue(t) \/ Refuse(t)
  <2>1. c.pc \in ClientPcs \ {"join", "describe", "report", "exited"}
    BY <1>4 DEF Begin, Lookup, EnqueueFails, HandleEnqueue, Refuse, ClientPcs
  <2>2. (\E pc \in {"lookup", "link", "served"} : Go(t, pc)) \/ (\E k \in {1, 2} : Exit(t, k))
    BY <1>4 DEF Begin, Lookup, EnqueueFails, HandleEnqueue, Refuse
  <2>3. ASSUME NEW pc \in {"lookup", "link", "served"}, Go(t, pc) PROVE Clients'
    BY <1>1, <1>2, <1>3, <2>1, <2>3 DEF ClientPcs
  <2>4. ASSUME NEW k \in {1, 2}, Exit(t, k) PROVE Clients'
    BY <1>1, <1>2, <2>1, <2>4 DEF Exit, ClientPcs
  <2> QED BY <2>2, <2>3, <2>4
<1>5. CASE Join(t)
  <2>1. c.pc = "join" /\ Go(t, "describe")
    BY <1>5 DEF Join
  <2>2. c.finalState # "UNKNOWN" /\ c.summary = "none" /\ c.code = -1
    BY <1>0, <2>1 DEF ClientOf
  <2> QED BY <1>1, <1>3, <2>1, <2>2 DEF ClientPcs
<1>6. CASE Link(t)
  <2> DEFINE g == [c EXCEPT !.linked = "yes", !.pc = "enqueue"]
  <2>1. c.pc = "link" /\ client' = [client EXCEPT ![t] = g]
    BY <1>6 DEF Link
  <2>2. /\ g \in ClientRecs /\ g.pc = "enqueue" /\ g.code = c.code /\ g.mState = c.mState
        /\ g.finalState = c.finalState /\ g.summary = c.summary
    BY <1>0 DEF ClientRecs, ClientPcs
  <2>3. c.finalState = "UNKNOWN" /\ c.summary = "none" /\ c.code = -1
    BY <1>2, <2>1 DEF ClientPcs
  <2> HIDE DEF g
  <2> QED BY <1>0, <2>1, <2>2, <2>3, ClientMoves
<1>7. CASE Accepted(t)
  <2> DEFINE k == IF parseArgs(client[t].args).cancel THEN "asleep" ELSE c.canceller
             g == [c EXCEPT !.pc = "await", !.canceller = k]
  <2>1. c.pc = "served" /\ client' = [client EXCEPT ![t] = g]
    BY <1>7 DEF Accepted
  <2>2. k \in {"none", "asleep", "done"}
    BY <1>0 DEF ClientRecs
  <2> HIDE DEF k
  <2>3. /\ g \in ClientRecs /\ g.pc = "await" /\ g.code = c.code /\ g.mState = c.mState
        /\ g.finalState = c.finalState /\ g.summary = c.summary
    BY <1>0, <2>2 DEF ClientRecs, ClientPcs
  <2>4. c.finalState = "UNKNOWN" /\ c.summary = "none" /\ c.code = -1
    BY <1>2, <2>1 DEF ClientPcs
  <2> HIDE DEF g
  <2> QED BY <1>0, <2>1, <2>3, <2>4, ClientMoves
<1>8. CASE CancelAfter(t)
  <2> DEFINE g == [c EXCEPT !.canceller = "done"]
  <2>1. client' = [client EXCEPT ![t] = g]
    BY <1>8 DEF CancelAfter
  <2>2. /\ g \in ClientRecs /\ g.pc = c.pc /\ g.code = c.code /\ g.mState = c.mState
        /\ g.finalState = c.finalState /\ g.summary = c.summary
    BY <1>0 DEF ClientRecs
  <2>3. c.code \in {-1, 1, 2} \/ (c.code = 0 /\ c.finalState = "COMPLETED")
    BY <1>0 DEF ClientRecs, ClientOf
  <2> HIDE DEF g
  <2> QED BY <1>0, <2>1, <2>2, <2>3, ClientMoves DEF ClientOf
<1> QED BY <1>4, <1>5, <1>6, <1>7, <1>8

\* The death notice, the end of the wait, describe() and the exit.
LEMMA LateSteps ==
    ASSUME TableInv, \A u \in Tasks : Recorded(u), Clients, Settled, NEW t \in Tasks,
           BinderDied(t) \/ AwaitDone(t) \/ Describe(t) \/ Report(t)
    PROVE  Clients'
<1> DEFINE c == client[t]
<1>0. c \in ClientRecs /\ ClientOf(t) /\ calls' = calls
  BY DEF Clients, ClientTyped, BinderDied, AwaitDone, Describe, Report, wire
<1>1. CASE BinderDied(t)
  <2> DEFINE g == settle([c EXCEPT !.linked = "fired"], "FAILED")
  <2>1. service = "dead" /\ client' = [client EXCEPT ![t] = g]
    BY <1>1 DEF BinderDied
  <2>2. /\ g \in ClientRecs /\ g.pc = c.pc /\ g.code = c.code /\ g.mState = "FAILED"
        /\ g.finalState = c.finalState /\ g.summary = c.summary
    BY <1>0 DEF ClientRecs, settle, Heard, Terminal
  <2>3. IsVerdict(t, "FAILED")
    BY <2>1 DEF IsVerdict
  <2>4. c.code \in {-1, 1, 2} \/ (c.code = 0 /\ c.finalState = "COMPLETED")
    BY <1>0 DEF ClientRecs, ClientOf
  <2> HIDE DEF g
  <2> QED BY <1>0, <2>1, <2>2, <2>3, <2>4, ClientMoves DEF ClientOf
<1>2. CASE AwaitDone(t)
  <2> DEFINE g == [c EXCEPT !.pc = "join", !.finalState = c.mState]
  <2>1. c.pc = "await" /\ c.mState # "UNKNOWN" /\ client' = [client EXCEPT ![t] = g]
    BY <1>2 DEF AwaitDone
  <2>2. /\ g \in ClientRecs /\ g.pc = "join" /\ g.code = c.code /\ g.mState = c.mState
        /\ g.finalState = c.mState /\ g.summary = c.summary
    BY <1>0 DEF ClientRecs, ClientPcs
  <2>3. c.summary = "none" /\ c.code = -1 /\ IsVerdict(t, c.mState)
    BY <1>0, <2>1 DEF ClientOf
  <2> HIDE DEF g
  <2> QED BY <1>0, <2>1, <2>2, <2>3, ClientMoves
<1>3. CASE Describe(t)
  <2>0. c.pc = "describe" /\ c.summary = "none" /\ c.code = -1 /\ c.finalState # "UNKNOWN"
    BY <1>0, <1>3 DEF Describe, ClientOf
  <2>1. CASE service = "up" /\ client' = [client EXCEPT ![t].pc = "report", ![t].summary = getState(t)]
    <3> DEFINE m == getState(t)
               g == [c EXCEPT !.pc = "report", !.summary = m]
    <3>1. worker[t] = "done" /\ c.finalState = state[t]
      BY <1>0, <2>0, <2>1 DEF ClientOf, IsVerdict
    <3>2. m = c.finalState /\ m \in States \cup {"none", "UNKNOWN"}
      BY <3>1 DEF Recorded, getState, TableInv, TypeOK
    <3> HIDE DEF m
    <3>3. /\ g \in ClientRecs /\ g.pc = "report" /\ g.code = c.code /\ g.mState = c.mState
          /\ g.finalState = c.finalState /\ g.summary = m
      BY <1>0, <3>2 DEF ClientRecs, ClientPcs
    <3>4. client' = [client EXCEPT ![t] = g]
      BY <2>1 DEF m
    <3> HIDE DEF g
    <3> QED BY <1>0, <2>0, <3>2, <3>3, <3>4, ClientMoves
  <2>2. CASE Go(t, "report")
    <3> DEFINE g == [c EXCEPT !.pc = "report"]
    <3>1. /\ g \in ClientRecs /\ g.pc = "report" /\ g.code = c.code /\ g.mState = c.mState
          /\ g.finalState = c.finalState /\ g.summary = c.summary
      BY <1>0 DEF ClientRecs, ClientPcs
    <3>2. client' = [client EXCEPT ![t] = g]
      BY <2>2 DEF Go
    <3> HIDE DEF g
    <3> QED BY <1>0, <2>0, <3>1, <3>2, ClientMoves
  <2> QED BY <1>3, <2>1, <2>2 DEF Describe
<1>4. CASE Report(t)
  <2> DEFINE k == IF c.finalState = "COMPLETED" THEN 0 ELSE 1
             g == [c EXCEPT !.pc = "exited", !.code = k]
  <2>1. c.pc = "report" /\ client' = [client EXCEPT ![t] = g]
    BY <1>4 DEF Report, Exit
  <2>2. k \in {0, 1} /\ (k = 0 => c.finalState = "COMPLETED")
    OBVIOUS
  <2> HIDE DEF k
  <2>3. /\ g \in ClientRecs /\ g.pc = "exited" /\ g.code = k /\ g.mState = c.mState
        /\ g.finalState = c.finalState /\ g.summary = c.summary
    BY <1>0, <2>2 DEF ClientRecs, ClientPcs
  <2> HIDE DEF g
  <2> QED BY <1>0, <2>1, <2>2, <2>3, ClientMoves DEF ClientOf
<1> QED BY <1>1, <1>2, <1>3, <1>4

\* The callbacks: sent, delivered, or lost.
LEMMA CallbackSteps ==
    ASSUME TableInv, \A u \in Tasks : Recorded(u), Clients, Settled, NEW t \in Tasks,
           Progress(t) \/ Tell(t) \/ Deliver(t)
    PROVE  Clients'
<1> DEFINE c == client[t]
           q == calls[t]
           Callbacks == {"RUNNING"} \cup Terminal
<1>0. /\ c \in ClientRecs /\ ClientOf(t) /\ q \in Seq(Callbacks)
      /\ client \in [Tasks -> ClientRecs] /\ calls \in [Tasks -> Seq(Callbacks)]
      /\ UNCHANGED <<state, worker>>
  BY DEF Clients, ClientTyped, Progress, Tell, Deliver, vars
<1>1. ASSUME NEW m \in Callbacks, calls' = [calls EXCEPT ![t] = Append(q, m)], client' = client,
             isTerminal(m) => worker[t] = "done" /\ m = state[t]
      PROVE  Clients'
  <2>1. calls'[t] = Append(q, m) /\ calls' \in [Tasks -> Seq(Callbacks)] /\ \A u \in Tasks \ {t} : calls'[u] = calls[u]
    BY <1>0, <1>1
  <2>2. \A i \in DOMAIN calls'[t] : calls'[t][i] = m \/ (i \in DOMAIN q /\ calls'[t][i] = q[i])
    BY <1>0, <2>1
  <2>3. \A i \in DOMAIN calls'[t] : isTerminal(calls'[t][i]) => worker'[t] = "done" /\ calls'[t][i] = state'[t]
    BY <1>0, <1>1, <2>2 DEF ClientOf
  <2>4. ClientOf(t)'
    BY <1>0, <1>1, <2>3 DEF ClientOf, Settled, IsVerdict
  <2>5. \A u \in Tasks \ {t} : ClientOf(u)'
    BY <1>1, <2>1, ClientStill DEF Clients
  <2> QED BY <1>0, <1>1, <2>1, <2>4, <2>5 DEF Clients, ClientTyped
<1>2. CASE UNCHANGED <<client, calls>>
  <2>1. \A u \in Tasks : ClientOf(u)'
    BY <1>2, ClientStill DEF Clients
  <2> QED BY <1>0, <1>2, <2>1 DEF Clients, ClientTyped
<1>3. CASE Progress(t)
  <2>1. client' = client /\ (calls' = calls \/ calls' = [calls EXCEPT ![t] = Append(q, "RUNNING")])
    BY <1>3 DEF Progress, Send
  <2>2. ~isTerminal("RUNNING")
    BY DEF isTerminal, Terminal
  <2> QED BY <1>1, <1>2, <2>1, <2>2
<1>4. CASE Tell(t)
  <2>1. /\ client' = client /\ worker[t] = "done"
        /\ calls' = calls \/ calls' = [calls EXCEPT ![t] = Append(q, outcome[t])]
    BY <1>4 DEF Tell, Send
  <2>2. outcome[t] = state[t] /\ state[t] \in Terminal
    BY <2>1 DEF Recorded, TableInv, WorkerFacts, isTerminal
  <2>3. PICK m \in Callbacks : m = outcome[t]
    BY <2>2
  <2> QED BY <1>1, <1>2, <2>1, <2>2, <2>3
<1>5. CASE Deliver(t)
  <2> DEFINE h == Head(q)
             g == IF isTerminal(h) THEN settle(c, h) ELSE c
  <2>1. q # << >> /\ client' = [client EXCEPT ![t] = g] /\ calls' = [calls EXCEPT ![t] = Tail(q)]
    BY <1>5 DEF Deliver
  <2>2. h = q[1] /\ 1 \in DOMAIN q /\ h \in Callbacks
    BY <1>0, <2>1
  <2>3. isTerminal(h) => worker[t] = "done" /\ h = state[t] /\ h \in Heard
    BY <1>0, <2>2 DEF ClientOf, isTerminal, Heard
  <2> HIDE DEF h
  <2>4. /\ g \in ClientRecs /\ g.pc = c.pc /\ g.code = c.code
        /\ g.mState = (IF isTerminal(h) THEN h ELSE c.mState)
        /\ g.finalState = c.finalState /\ g.summary = c.summary
    BY <1>0, <2>3 DEF ClientRecs, settle
  <2> HIDE DEF g
  <2>5. /\ client'[t] = g /\ client' \in [Tasks -> ClientRecs] /\ \A u \in Tasks \ {t} : client'[u] = client[u]
    BY <1>0, <2>1, <2>4
  <2>6. /\ calls'[t] = Tail(q) /\ calls' \in [Tasks -> Seq(Callbacks)] /\ \A u \in Tasks \ {t} : calls'[u] = calls[u]
    <3>1. Tail(q) \in Seq(Callbacks)
      BY <1>0, <2>1
    <3> QED BY <1>0, <2>1, <3>1
  <2>7. \A i \in DOMAIN calls'[t] : i + 1 \in DOMAIN q /\ calls'[t][i] = q[i + 1]
    BY <1>0, <2>1, <2>6
  <2>8. \A i \in DOMAIN calls'[t] : isTerminal(calls'[t][i]) => worker'[t] = "done" /\ calls'[t][i] = state'[t]
    BY <1>0, <2>7 DEF ClientOf
  <2>9. g.mState # "UNKNOWN" => IsVerdict(t, g.mState)
    BY <1>0, <2>3, <2>4 DEF ClientOf, IsVerdict
  <2>10. ClientOf(t)'
    BY <1>0, <2>4, <2>5, <2>8, <2>9 DEF ClientOf, Settled, IsVerdict
  <2>11. \A u \in Tasks \ {t} : ClientOf(u)'
    BY <2>5, <2>6, ClientStill DEF Clients
  <2> QED BY <2>5, <2>6, <2>10, <2>11 DEF Clients, ClientTyped
<1> QED BY <1>3, <1>4, <1>5

\* The table, the process and the calls of others leave the clients alone.
LEMMA OtherSteps ==
    ASSUME Clients, Settled,
           \/ \E t \in Tasks : Work(t)
           \/ \E w \in Waiters : Await(w)
           \/ runService \/ Die \/ Unregister \/ HandleCancel \/ Over \/ UNCHANGED allVars
    PROVE  Clients'
<1>1. UNCHANGED <<client, calls>>
  BY DEF Work, Await, runService, Die, Unregister, HandleCancel, Over, allVars, clientVars, wire
<1>2. \A u \in Tasks : ClientOf(u)'
  BY <1>1, ClientStill DEF Clients
<1> QED BY <1>1, <1>2 DEF Clients, ClientTyped

\* Every step keeps the invariant.
LEMMA ClientStep == ClientInv /\ [ClientNext]_allVars => ClientInv'
<1> SUFFICES ASSUME ClientInv, [ClientNext]_allVars PROVE ClientInv'
  OBVIOUS
<1>1. TableInv /\ Clients /\ Settled /\ [Next]_vars /\ \A u \in Tasks : Recorded(u)
  BY ClientTable, SettledStep DEF ClientInv, Clients
<1>2. TableInv'
  BY <1>1, TableTyped, WorkerStep, WaiterStep DEF TableInv, Waiting
<1>3. \A u \in Tasks : Recorded(u)'
  BY <1>1, RecordedStep
<1>4. ASSUME NEW t \in Tasks, Main(t) \/ HandleEnqueue(t) \/ Refuse(t) \/ Describe(t) \/ CancelAfter(t) \/ BinderDied(t)
      PROVE  Clients'
  BY <1>1, <1>4, EarlySteps, LateSteps DEF Main
<1>5. Clients'
  BY <1>1, <1>4, CallbackSteps, OtherSteps DEF ClientNext
<1> QED BY <1>2, <1>3, <1>5 DEF ClientInv, Clients

\* A client that starts has heard nothing.
LEMMA ClientStart == ClientInit => ClientInv
<1> SUFFICES ASSUME ClientInit PROVE ClientInv
  OBVIOUS
<1>1. TableInv /\ \A t \in Tasks : Recorded(t)
  BY TableInit DEF ClientInit, Init, Recorded
<1>2. ASSUME NEW t \in Tasks
      PROVE  /\ client[t] \in ClientRecs /\ client[t].mState = "UNKNOWN" /\ client[t].finalState = "UNKNOWN"
             /\ client[t].pc = "start" /\ client[t].summary = "none" /\ client[t].code = -1
  <2>1. PICK line \in CommandLines : client[t] = NewClient(line)
    BY DEF ClientInit
  <2> QED BY <2>1 DEF NewClient, ClientRecs, ClientPcs, Heard
<1>3. ClientTyped
  BY <1>2 DEF ClientInit, ClientTyped
<1>4. ASSUME NEW t \in Tasks PROVE ClientOf(t)
  <2>1. calls[t] = << >> /\ -1 # 0
    BY DEF ClientInit
  <2> QED BY <1>2, <2>1 DEF ClientOf
<1> QED BY <1>1, <1>3, <1>4 DEF ClientInv

\* The inductive invariant of the clients: whatever a client has heard, or is
\* about to hear, is the recorded verdict, or the service died.
THEOREM ClientInvariant == ClientSpec => []ClientInv
BY ClientStart, ClientStep, PTL DEF ClientSpec

\* "What the service recorded should be the same story the callbacks told": when
\* describe() answers at all, it reports the state that ended the wait.
THEOREM ClientSameStory == ClientSpec => []SameStory
<1>1. ClientInv => SameStory
  BY DEF ClientInv, ClientOf, SameStory
<1> QED BY <1>1, ClientInvariant, PTL

\* The client exits with 0 only for a download that completed, and reports a
\* failure that was none only if the service died.
THEOREM ClientExitIsVerdict == ClientSpec => []ExitIsVerdict
<1>1. ASSUME ClientInv, NEW t \in Tasks
      PROVE  /\ client[t].code = 0 => state[t] = "COMPLETED"
             /\ client[t].code # -1 /\ client[t].finalState \notin {"UNKNOWN", state[t]} =>
                    service = "dead" /\ client[t].finalState = "FAILED"
  BY <1>1 DEF ClientInv, ClientOf, IsVerdict
<1>2. ClientInv => ExitIsVerdict
  BY <1>1 DEF ExitIsVerdict
<1> QED BY <1>2, ClientInvariant, PTL
===============================================================================
