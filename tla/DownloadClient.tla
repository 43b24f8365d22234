----------------------------- MODULE DownloadClient -----------------------------
(***************************************************************************)
(* The command line client (client/download.cpp) in front of the download  *)
(* service: every task of TaskTable belongs to a client process that       *)
(* looks the service up, links to its death, enqueues, waits for a         *)
(* terminal callback, and asks the service for its own account at the end. *)
(* The service serves calls on a pool of threads that awaitCompletion()    *)
(* calls occupy too, its callbacks are oneway calls into a buffer of       *)
(* limited size whose refusal it ignores, and it may die at any moment.    *)
(***************************************************************************)
EXTENDS TaskTable, Integers, FiniteSets

CONSTANTS
    CommandLines, \* what a client may be started with
    MaxThreads,   \* setThreadPoolMaxThreadCount()
    AsyncSpace    \* oneway calls a process can have pending

VARIABLES
    service,      \* the process: "absent", "up" or "dead"
    registered,   \* its name is in servicemanager's table
    client,       \* the client processes, a record of their variables each
    calls,        \* oneway callbacks pending for each client, in order
    told,         \* the terminal callback: "no", "sent" or "lost"
    cancels,      \* oneway cancel() calls pending at the service
    canceled      \* Task::canceled

svc == <<service, registered>>
wire == <<calls, told, cancels, canceled>>
clientVars == <<svc, client, wire>>
allVars == <<vars, clientVars>>

\* Of a client: its command line, where main() is, the death recipient ("no",
\* "yes" or "fired"), Callback::mState, the thread behind --cancel-after, what
\* await() returned, the state describe() reported, and the exit code.
NewClient(line) ==
    [args |-> line, pc |-> "start", linked |-> "no", mState |-> "UNKNOWN", canceller |-> "none",
     finalState |-> "UNKNOWN", summary |-> "none", code |-> -1]

\* An argument is a kind of word: "quiet", "cancel" (--cancel-after with a
\* positive number), "cancel0" (atoi() gives 0 or less), "unknown" (any other
\* option), or a positional argument: "word", "dir" (it ends in '/') or "empty".
Kinds == {"quiet", "cancel", "cancel0", "unknown", "word", "dir", "empty"}

ASSUME ClientAssumption ==
    /\ CommandLines \subseteq Seq(Kinds)
    /\ MaxThreads \in Nat /\ AsyncSpace \in Nat \ {0}

\* The words before argument i; an empty one fills neither url nor destPath.
Words(line, i) == Cardinality({j \in 1 .. i - 1 : line[j] \in {"word", "dir"}})

\* parseArgs(): an unknown option or a third word is refused, the second word is
\* the destination, and the last --cancel-after counts.
parseArgs(line) ==
    LET cancel == {i \in DOMAIN line : line[i] \in {"cancel", "cancel0"}}
    IN [ok |-> \A i \in DOMAIN line :
                   /\ line[i] # "unknown"
                   /\ line[i] \in {"word", "dir", "empty"} => Words(line, i) < 2,
        namesFile |-> \A i \in DOMAIN line : line[i] = "dir" => Words(line, i) # 1,
        cancel |-> \E i \in cancel : line[i] = "cancel" /\ \A j \in cancel : j <= i]

ClientInit ==
    /\ Init
    /\ service = "absent" /\ registered = FALSE
    /\ client \in [Tasks -> {NewClient(line) : line \in CommandLines}]
    /\ calls = [t \in Tasks |-> << >>]
    /\ told = [t \in Tasks |-> "no"]
    /\ cancels = << >>
    /\ canceled = [t \in Tasks |-> FALSE]

-------------------------------------------------------------------------------
(* The service process *)

\* Mutant: main() never joins the pool.
PoolSize_unjoined == MaxThreads + 1

\* The threads the kernel may ask for, the one startThreadPool() spawns, and
\* main() itself.
PoolSize == MaxThreads + 2

\* A call needs a thread that is neither in awaitCompletion() nor in enqueue().
FreeThread ==
    Cardinality({w \in Waiters : waiter[w] \notin {"idle", "returned"}})
        + Cardinality({t \in Tasks : client[t].pc = "served"}) < PoolSize

\* Pool first, then register.
runService ==
    /\ service = "absent"
    /\ service' = "up" /\ registered' = TRUE
    /\ UNCHANGED <<vars, client, wire>>

Die ==
    /\ service = "up"
    /\ service' = "dead"
    /\ UNCHANGED <<vars, registered, client, wire>>

\* servicemanager hears of the death, some time later.
Unregister ==
    /\ service = "dead" /\ registered
    /\ registered' = FALSE
    /\ UNCHANGED <<vars, service, client, wire>>

\* A oneway call into client t is refused when its buffer is full or the
\* process is gone.
Refused(t) == client[t].pc = "exited" \/ Len(calls[t]) >= AsyncSpace
Send(t, call) == calls' = IF Refused(t) THEN calls ELSE [calls EXCEPT ![t] = Append(@, call)]

\* The relay reports while the transfer runs; the service ignores the status.
Progress(t) ==
    /\ service = "up" /\ worker[t] = "run"
    /\ Send(t, "RUNNING")
    /\ UNCHANGED <<vars, svc, client, told, cancels, canceled>>

\* A worker's step up to the end of finish().
Work(t) == service = "up" /\ Worker(t) /\ UNCHANGED clientVars

\* Mutant: the client is told before finish().
Tell_first(t) ==
    /\ service = "up" /\ worker[t] = "message" /\ told[t] = "no"
    /\ Send(t, outcome[t])
    /\ told' = [told EXCEPT ![t] = IF Refused(t) THEN "lost" ELSE "sent"]
    /\ UNCHANGED <<vars, svc, client, cancels, canceled>>

\* onCompleted(), onFailed() or onCanceled(), after finish().
Tell(t) ==
    /\ service = "up" /\ worker[t] = "done" /\ told[t] = "no"
    /\ Send(t, outcome[t])
    /\ told' = [told EXCEPT ![t] = IF Refused(t) THEN "lost" ELSE "sent"]
    /\ UNCHANGED <<vars, svc, client, cancels, canceled>>

\* awaitCompletion() of some other process, on a pool thread.
Await(w) ==
    /\ service = "up"
    /\ \/ FreeThread /\ FindTask(w)
       \/ Waiter(w) \/ SpuriousWakeup(w) \/ Timeout(w)
    /\ UNCHANGED clientVars

\* cancel(), in the order the calls came; a task that is over is left alone.
HandleCancel ==
    /\ service = "up" /\ cancels # << >> /\ FreeThread /\ mLock = Nobody
    /\ LET t == Head(cancels)
       IN canceled' = [canceled EXCEPT ![t] = @ \/ ~isTerminal(state[t])]
    /\ cancels' = Tail(cancels)
    /\ UNCHANGED <<vars, svc, client, calls, told>>

-------------------------------------------------------------------------------
(* main() of the client *)

Go(t, pc) == client' = [client EXCEPT ![t].pc = pc]
Exit(t, status) == client' = [client EXCEPT ![t].pc = "exited", ![t].code = status]

\* Arguments, the pool, and defaultServiceManager(), which waits if it has to.
Begin(t) ==
    /\ client[t].pc = "start"
    /\ IF parseArgs(client[t].args).ok THEN Go(t, "lookup") ELSE Exit(t, 2)
    /\ UNCHANGED <<vars, svc, wire>>

\* checkService(); the entry of a dead process may still be there.
Lookup(t) ==
    /\ client[t].pc = "lookup"
    /\ IF registered THEN Go(t, "link") ELSE Exit(t, 1)
    /\ UNCHANGED <<vars, svc, wire>>

\* Mutant: the result of a lookup is used without linking to its death.
Link_not(t) ==
    /\ client[t].pc = "link"
    /\ Go(t, "enqueue")
    /\ UNCHANGED <<vars, svc, wire>>

\* linkToDeath(), before enqueue().
Link(t) ==
    /\ client[t].pc = "link"
    /\ client' = [client EXCEPT ![t].linked = "yes", ![t].pc = "enqueue"]
    /\ UNCHANGED <<vars, svc, wire>>

\* The service adds the task ...
HandleEnqueue(t) ==
    /\ service = "up" /\ client[t].pc = "enqueue" /\ FreeThread
    /\ parseArgs(client[t].args).namesFile
    /\ Enqueue(t)
    /\ Go(t, "served")
    /\ UNCHANGED <<svc, wire>>

\* ... and answers, while the worker is already at it; --cancel-after starts
\* its thread.
Accepted(t) ==
    /\ service = "up" /\ client[t].pc = "served"
    /\ client' = [client EXCEPT ![t].pc = "await",
                     ![t].canceller = IF parseArgs(client[t].args).cancel THEN "asleep" ELSE @]
    /\ UNCHANGED <<vars, svc, wire>>

\* enqueue() refuses a destination that does not name a file.
Refuse(t) ==
    /\ service = "up" /\ client[t].pc = "enqueue" /\ FreeThread
    /\ ~parseArgs(client[t].args).namesFile
    /\ Exit(t, 1)
    /\ UNCHANGED <<vars, svc, wire>>

\* DEAD_OBJECT instead of an answer.
EnqueueFails(t) ==
    /\ service = "dead" /\ client[t].pc \in {"enqueue", "served"}
    /\ Exit(t, 1)
    /\ UNCHANGED <<vars, svc, wire>>

\* The thread wakes up and calls cancel(), oneway: a dead service or a full
\* buffer is not noticed.
CancelAfter(t) ==
    /\ client[t].canceller = "asleep"
    /\ client' = [client EXCEPT ![t].canceller = "done"]
    /\ cancels' = IF service = "up" THEN Append(cancels, t) ELSE cancels
    /\ UNCHANGED <<vars, svc, calls, told, canceled>>

\* settle(): the last one to call it decides.
settle(c, s) == [c EXCEPT !.mState = s]

\* A pool thread of the client takes the next callback; onStarted() and
\* onProgress() only print.
Deliver(t) ==
    /\ client[t].pc # "exited" /\ calls[t] # << >>
    /\ client' = [client EXCEPT ![t] =
                     IF isTerminal(Head(calls[t])) THEN settle(@, Head(calls[t])) ELSE @]
    /\ calls' = [calls EXCEPT ![t] = Tail(@)]
    /\ UNCHANGED <<vars, svc, told, cancels, canceled>>

\* binderDied() on another pool thread, before or after the callbacks that the
\* service had already sent; abandon() settles for failure.
BinderDied(t) ==
    /\ client[t].pc # "exited" /\ service = "dead" /\ client[t].linked = "yes"
    /\ client' = [client EXCEPT ![t] = settle([@ EXCEPT !.linked = "fired"], "FAILED")]
    /\ UNCHANGED <<vars, svc, wire>>

\* await() and the join of the canceller.
AwaitDone(t) ==
    /\ client[t].pc = "await" /\ client[t].mState # "UNKNOWN"
    /\ client' = [client EXCEPT ![t].pc = "join", ![t].finalState = client[t].mState]
    /\ UNCHANGED <<vars, svc, wire>>

Join(t) ==
    /\ client[t].pc = "join" /\ client[t].canceller # "asleep"
    /\ Go(t, "describe")
    /\ UNCHANGED <<vars, svc, wire>>

\* What getState() and describe() look up.
getState(t) == IF id[t] = 0 THEN "UNKNOWN" ELSE state[t]

\* describe() is a call like any other; a dead service has nothing to say.
Describe(t) ==
    /\ client[t].pc = "describe"
    /\ \/ /\ service = "up" /\ FreeThread /\ mLock = Nobody
          /\ client' = [client EXCEPT ![t].pc = "report", ![t].summary = getState(t)]
       \/ service = "dead" /\ Go(t, "report")
    /\ UNCHANGED <<vars, svc, wire>>

\* Mutant: anything but a failure is a success.
Report_notFailed(t) ==
    /\ client[t].pc = "report"
    /\ Exit(t, IF client[t].finalState # "FAILED" THEN 0 ELSE 1)
    /\ UNCHANGED <<vars, svc, wire>>

Report(t) ==
    /\ client[t].pc = "report"
    /\ Exit(t, IF client[t].finalState = "COMPLETED" THEN 0 ELSE 1)
    /\ UNCHANGED <<vars, svc, wire>>

Main(t) ==
    \/ Begin(t) \/ Lookup(t) \/ Link(t) \/ Accepted(t) \/ EnqueueFails(t)
    \/ AwaitDone(t) \/ Join(t) \/ Report(t)

-------------------------------------------------------------------------------

\* The clients are gone, or the service is: that nobody waits for it in vain is
\* for ClientReturns to say.
Over ==
    /\ service = "dead" \/ \A t \in Tasks : client[t].pc = "exited"
    /\ UNCHANGED allVars

ClientNext ==
    \/ runService \/ Die \/ Unregister \/ HandleCancel
    \/ \E t \in Tasks : \/ Progress(t) \/ Work(t) \/ Tell(t)
                        \/ Main(t) \/ HandleEnqueue(t) \/ Refuse(t) \/ Describe(t)
                        \/ CancelAfter(t) \/ Deliver(t) \/ BinderDied(t)
    \/ \E w \in Waiters : Await(w)
    \/ Over

ClientSpec == ClientInit /\ [][ClientNext]_allVars

\* The processes run, the kernel delivers what it accepted, a call that keeps
\* finding a free thread and a free mutex is served, and a transfer that was
\* cancelled ends (DownloadService shows that), and a deadline passes however
\* often the wait was interrupted; but a transfer nobody cancels may go on for
\* ever, and so may a call of another process that gave no deadline.
ClientFairness ==
    /\ \A t \in Tasks :
        /\ WF_allVars(Main(t)) /\ WF_allVars(CancelAfter(t))
        /\ WF_allVars(Deliver(t)) /\ WF_allVars(BinderDied(t)) /\ WF_allVars(Tell(t))
        /\ SF_allVars(HandleEnqueue(t)) /\ SF_allVars(Describe(t))
        /\ SF_allVars(Work(t) /\ worker[t] # "run")
        /\ WF_allVars(Work(t) /\ canceled[t])
    /\ SF_allVars(HandleCancel)
    /\ \A w \in Waiters : /\ SF_allVars(Await(w) /\ waiter[w] \notin {"idle", "blocked"})
                          /\ SF_allVars(Await(w) /\ waiter'[w] = "late")

ClientLiveSpec == ClientSpec /\ ClientFairness

-------------------------------------------------------------------------------
(* Properties *)

\* "What the service recorded should be the same story the callbacks told":
\* when describe() answers, it reports the very state that ended the wait.
SameStory ==
    \A t \in Tasks : client[t].summary # "none" => client[t].summary = client[t].finalState

\* The exit code is the verdict: 0 only for a download that completed, and a
\* failure is reported for one that did not fail only if the service died.
ExitIsVerdict ==
    \A t \in Tasks :
        /\ client[t].code = 0 => state[t] = "COMPLETED"
        /\ client[t].code # -1 /\ client[t].finalState \notin {"UNKNOWN", state[t]} =>
               service = "dead" /\ client[t].finalState = "FAILED"

\* "a service that dies takes the wait down with it instead of stranding us",
\* and so does a download that ends: the client leaves await(), unless the
\* kernel had no room for the terminal callback of a service that lives on.
ClientReturns ==
    \A t \in Tasks :
        (client[t].pc = "await" /\ (service = "dead" \/ told[t] = "sent"))
            ~> client[t].pc = "exited"

\* An awaitCompletion() with a timeout returns however the wakeup, the mutex and
\* the callbacks of the clients fall, as long as the service lives.
TimedReturns ==
    \A w \in Waiters : w \in timed ~> waiter[w] = "returned" \/ service = "dead"

\* --cancel-after works: a cancel() is served however many awaitCompletion()
\* calls hold threads, as long as one is left, and the client comes back.
CancelEnds ==
    \A t \in Tasks :
        client[t].canceller = "done" ~> client[t].pc = "exited" \/ told[t] = "lost"
===============================================================================
