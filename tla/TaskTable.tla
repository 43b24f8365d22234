------------------------------- MODULE TaskTable -------------------------------
(***************************************************************************)
(* The task table of DownloadService.cpp and the threads that meet on its  *)
(* mutex and condition variable: enqueue() adds a task under mLock, its    *)
(* worker ends with finish(), which writes the message under mLock but the *)
(* state and the notification outside it, and clients block in             *)
(* awaitCompletion(), for ever or with a timeout.  What a worker does      *)
(* between its first and last step is DownloadService's business.          *)
(***************************************************************************)
EXTENDS Naturals, Sequences

CONSTANTS
    Tasks,     \* enqueue() calls that pass validation
    Waiters,   \* awaitCompletion() calls
    WaitsFor,  \* the task whose id each of them passes
    Nobody     \* mLock is free

ASSUME TableAssumption ==
    /\ WaitsFor \in [Waiters -> Tasks]
    /\ Nobody \notin Waiters

VARIABLES
    mNextId, mOrder,  \* the next id, and the ids in enqueue order
    id,               \* the id of each task, 0 before enqueue()
    state, message,   \* Task::state, Task::message
    worker,           \* where each worker thread is
    outcome,          \* how its download ended
    mLock,            \* the waiter that owns the mutex between two steps
    waiter,           \* where each awaitCompletion() is
    timed,            \* the calls that were made with timeoutMs > 0
    result            \* what it returned

vars == <<mNextId, mOrder, id, state, message, worker, outcome, mLock, waiter, timed, result>>

Terminal == {"COMPLETED", "FAILED", "CANCELED"}
isTerminal(s) == s \in Terminal
States == {"PENDING", "RUNNING"} \cup Terminal

Init ==
    /\ mNextId = 1 /\ mOrder = << >>
    /\ id = [t \in Tasks |-> 0]
    /\ state = [t \in Tasks |-> "PENDING"]
    /\ message = [t \in Tasks |-> "none"]
    /\ worker = [t \in Tasks |-> "none"]
    /\ outcome = [t \in Tasks |-> "none"]
    /\ mLock = Nobody
    /\ waiter = [w \in Waiters |-> "idle"]
    /\ timed = {}
    /\ result = [w \in Waiters |-> "none"]

-------------------------------------------------------------------------------
(* enqueue(), and the two ends of runTask() *)

Enqueue(t) ==
    /\ worker[t] = "none" /\ mLock = Nobody
    /\ id' = [id EXCEPT ![t] = mNextId]
    /\ mNextId' = mNextId + 1
    /\ mOrder' = Append(mOrder, mNextId)
    /\ worker' = [worker EXCEPT ![t] = "start"]
    /\ UNCHANGED <<state, message, outcome, mLock, waiter, timed, result>>

Start(t) ==
    /\ worker[t] = "start"
    /\ state' = [state EXCEPT ![t] = "RUNNING"]
    /\ worker' = [worker EXCEPT ![t] = "run"]
    /\ UNCHANGED <<mNextId, mOrder, id, message, outcome, mLock, waiter, timed, result>>

\* The download ends, one way or another; finish() is called.
Run(t) ==
    /\ worker[t] = "run"
    /\ \E o \in Terminal : outcome' = [outcome EXCEPT ![t] = o]
    /\ worker' = [worker EXCEPT ![t] = "message"]
    /\ UNCHANGED <<mNextId, mOrder, id, state, message, mLock, waiter, timed, result>>

\* Mutant: the message is made from the state before that is stored.
FinishMessage_state(t) ==
    /\ worker[t] = "message" /\ mLock = Nobody
    /\ message' = [message EXCEPT ![t] = state[t]]
    /\ worker' = [worker EXCEPT ![t] = "state"]
    /\ UNCHANGED <<mNextId, mOrder, id, state, outcome, mLock, waiter, timed, result>>

FinishMessage(t) ==
    /\ worker[t] = "message" /\ mLock = Nobody
    /\ message' = [message EXCEPT ![t] = outcome[t]]
    /\ worker' = [worker EXCEPT ![t] = "state"]
    /\ UNCHANGED <<mNextId, mOrder, id, state, outcome, mLock, waiter, timed, result>>

\* Mutant: the state may be stored before the message.
FinishState_early(t) ==
    /\ worker[t] \in {"message", "state"}
    /\ state' = [state EXCEPT ![t] = outcome[t]]
    /\ worker' = [worker EXCEPT ![t] = IF @ = "state" THEN "notify" ELSE @]
    /\ UNCHANGED <<mNextId, mOrder, id, message, outcome, mLock, waiter, timed, result>>

\* State last, and no lock.
FinishState(t) ==
    /\ worker[t] = "state"
    /\ state' = [state EXCEPT ![t] = outcome[t]]
    /\ worker' = [worker EXCEPT ![t] = "notify"]
    /\ UNCHANGED <<mNextId, mOrder, id, message, outcome, mLock, waiter, timed, result>>

\* notify_all() reaches the threads that are blocked at that moment.
FinishNotify(t) ==
    /\ worker[t] = "notify"
    /\ waiter' = [w \in Waiters |-> IF waiter[w] = "blocked" THEN "woken" ELSE waiter[w]]
    /\ worker' = [worker EXCEPT ![t] = "done"]
    /\ UNCHANGED <<mNextId, mOrder, id, state, message, outcome, mLock, timed, result>>

Worker(t) == Start(t) \/ Run(t) \/ FinishMessage(t) \/ FinishState(t) \/ FinishNotify(t)

-------------------------------------------------------------------------------
(* awaitCompletion() *)

\* A call, with or without a timeout.  findTask(): an id that is not in the table
\* is answered at once.
FindTask(w) ==
    /\ waiter[w] = "idle" /\ mLock = Nobody
    /\ timed' \in {timed, timed \cup {w}}
    /\ IF id[WaitsFor[w]] = 0
       THEN /\ waiter' = [waiter EXCEPT ![w] = "returned"]
            /\ result' = [result EXCEPT ![w] = "UNKNOWN"]
       ELSE waiter' = [waiter EXCEPT ![w] = "woken"] /\ UNCHANGED result
    /\ UNCHANGED <<mNextId, mOrder, id, state, message, worker, outcome, mLock>>

\* The thread gets mLock, at first or after it was woken or timed out.
Lock(w) ==
    /\ waiter[w] \in {"woken", "late"} /\ mLock = Nobody
    /\ mLock' = w
    /\ waiter' = [waiter EXCEPT ![w] = IF @ = "woken" THEN "check" ELSE "leave"]
    /\ UNCHANGED <<mNextId, mOrder, id, state, message, worker, outcome, timed, result>>

\* The predicate of the wait, with mLock held.
Check(w) ==
    /\ waiter[w] = "check"
    /\ waiter' = [waiter EXCEPT ![w] =
                     IF isTerminal(state[WaitsFor[w]]) THEN "leave" ELSE "block"]
    /\ UNCHANGED <<mNextId, mOrder, id, state, message, worker, outcome, mLock, timed, result>>

\* The wait itself gives mLock up and blocks in one step.
Block(w) ==
    /\ waiter[w] = "block"
    /\ waiter' = [waiter EXCEPT ![w] = "blocked"]
    /\ mLock' = Nobody
    /\ UNCHANGED <<mNextId, mOrder, id, state, message, worker, outcome, timed, result>>

SpuriousWakeup(w) ==
    /\ waiter[w] = "blocked"
    /\ waiter' = [waiter EXCEPT ![w] = "woken"]
    /\ UNCHANGED <<mNextId, mOrder, id, state, message, worker, outcome, mLock, timed, result>>

\* Mutant: the wait starts over when its time is up.
Timeout_again(w) ==
    /\ w \in timed /\ waiter[w] = "blocked"
    /\ waiter' = [waiter EXCEPT ![w] = "woken"]
    /\ UNCHANGED <<mNextId, mOrder, id, state, message, worker, outcome, mLock, timed, result>>

\* timeoutMs pass: the wait returns whatever the predicate says.
Timeout(w) ==
    /\ w \in timed /\ waiter[w] = "blocked"
    /\ waiter' = [waiter EXCEPT ![w] = "late"]
    /\ UNCHANGED <<mNextId, mOrder, id, state, message, worker, outcome, mLock, timed, result>>

\* Mutant: every end counts as a success.
Leave_success(w) ==
    /\ waiter[w] = "leave"
    /\ result' = [result EXCEPT ![w] =
                     IF isTerminal(state[WaitsFor[w]]) THEN "COMPLETED" ELSE state[WaitsFor[w]]]
    /\ waiter' = [waiter EXCEPT ![w] = "returned"]
    /\ mLock' = Nobody
    /\ UNCHANGED <<mNextId, mOrder, id, state, message, worker, outcome, timed>>

Leave(w) ==
    /\ waiter[w] = "leave"
    /\ result' = [result EXCEPT ![w] = state[WaitsFor[w]]]
    /\ waiter' = [waiter EXCEPT ![w] = "returned"]
    /\ mLock' = Nobody
    /\ UNCHANGED <<mNextId, mOrder, id, state, message, worker, outcome, timed>>

Waiter(w) == Lock(w) \/ Check(w) \/ Block(w) \/ Leave(w)

-------------------------------------------------------------------------------

Quiet ==
    /\ \A t \in Tasks : worker[t] = "done"
    /\ \A w \in Waiters : waiter[w] = "returned" \/ waiter[w] = "blocked"
    /\ UNCHANGED vars

Next ==
    \/ \E t \in Tasks : Enqueue(t) \/ Worker(t)
    \/ \E w \in Waiters : FindTask(w) \/ Waiter(w) \/ SpuriousWakeup(w) \/ Timeout(w)
    \/ Quiet

Spec == Init /\ [][Next]_vars

\* Threads run, a thread that keeps asking for mLock gets it, and a deadline
\* passes however often the wait was interrupted; but a download may go on for
\* ever, and nothing promises a spurious wakeup.
Fairness ==
    /\ \A t \in Tasks : /\ SF_vars(FinishMessage(t))
                        /\ WF_vars(Start(t) \/ FinishState(t) \/ FinishNotify(t))
    /\ \A w \in Waiters : WF_vars(Waiter(w)) /\ SF_vars(Lock(w)) /\ SF_vars(Timeout(w))

LiveSpec == Spec /\ Fairness

-------------------------------------------------------------------------------
(* Properties *)

WorkerPcs == {"none", "start", "run", "message", "state", "notify", "done"}
WaiterPcs == {"idle", "woken", "late", "check", "block", "blocked", "leave", "returned"}

\* Every variable has its type.
TypeOK ==
    /\ mNextId \in Nat \ {0} /\ mOrder \in Seq(Nat)
    /\ id \in [Tasks -> Nat]
    /\ state \in [Tasks -> States]
    /\ message \in [Tasks -> Terminal \cup {"none"}]
    /\ worker \in [Tasks -> WorkerPcs]
    /\ outcome \in [Tasks -> Terminal \cup {"none"}]
    /\ mLock \in Waiters \cup {Nobody}
    /\ waiter \in [Waiters -> WaiterPcs] /\ timed \subseteq Waiters
    /\ result \in [Waiters -> States \cup {"none", "UNKNOWN"}]

\* "anyone who wakes up to a terminal state also sees the message": no thread can
\* read a terminal state next to a message that is missing or not its own.
MessageSeen == \A t \in Tasks : isTerminal(state[t]) => message[t] = state[t]

\* The mutex is held by the one waiter that is between Lock and Block or Leave.
LockOwned == \A w \in Waiters : waiter[w] \in {"check", "block", "leave"} <=> mLock = w

\* awaitCompletion() without a timeout returns a terminal state, unless the id
\* is unknown: no wakeup, be it spurious or meant for another task, lets it out.
UntimedIsTerminal ==
    \A w \in Waiters \ timed :
        waiter[w] = "returned" => isTerminal(result[w]) \/ result[w] = "UNKNOWN"

\* Whatever awaitCompletion() returned as terminal is what the task ended as.
ResultIsVerdict ==
    \A w \in Waiters : isTerminal(result[w]) => result[w] = state[WaitsFor[w]]

\* "Blocks until the download reaches a terminal state": once it has, and the
\* worker is through, a call that waits for it returns.
AwaitReturns ==
    \A w \in Waiters :
        (waiter[w] # "idle" /\ worker[WaitsFor[w]] = "done") ~> waiter[w] = "returned"
===============================================================================
