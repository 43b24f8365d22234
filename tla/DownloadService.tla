---------------------------- MODULE DownloadService ----------------------------
(***************************************************************************)
(* The download service of src/service/download composed with the http     *)
(* service: one worker thread per task (runTask), the handler of cancel(), *)
(* the relay that turns the transport's oneway progress into the task's    *)
(* counters and the client's callbacks, the cached http proxy, the .part   *)
(* and destination files, and the registry entry of "http.service".        *)
(*                                                                         *)
(* A task makes at most one fetchToFd() call, so tasks are the Calls of    *)
(* HttpService.  A .part that was there before is the inode named by its   *)
(* destination; a task that creates its .part creates the inode named by   *)
(* the task.                                                               *)
(***************************************************************************)
EXTENDS HttpService

CONSTANTS
    Dests,      \* destination paths
    DestOf,     \* the destPath of each task
    Leftovers,  \* lengths of a .part that an earlier attempt may have left
    Exclusive,  \* whether clients avoid two downloads to one path at a time
    NoTask      \* nobody

Tasks == Calls

ASSUME TasksAssumption ==
    /\ DestOf \in [Tasks -> Dests]
    /\ Inodes = Tasks \cup Dests /\ Tasks \cap Dests = {}
    /\ Leftovers \subseteq Nat
    /\ Exclusive \in BOOLEAN
    /\ NoTask \notin Tasks \cup {"cancel"} /\ "cancel" \notin Tasks

VARIABLES
    task,        \* DownloadService::Task and the locals of its worker thread
    events,      \* the callbacks made to the task's client, in order
    part, dest,  \* the inodes the two paths of a destination name
    mHttp,       \* instance of the cached proxy, 0 for null
    deadProxies, \* instances whose proxy has seen a transaction fail
    httpLock,    \* owner of mHttpLock across the polling loop
    registered,  \* the instance servicemanager knows as "http.service", 0 for none
    canceller    \* the handler of cancel(): oneway, so one at a time

dlVars == <<task, events, part, dest, mHttp, deadProxies, httpLock, registered, canceller>>
vars == <<httpVars, dlVars>>

-------------------------------------------------------------------------------
(* State *)

Terminal == {"COMPLETED", "FAILED", "CANCELED"}
isTerminal(state) == state \in Terminal

States == {"UNKNOWN", "PENDING", "RUNNING"} \cup Terminal

Errors == {"none", "ERROR_BAD_DESTINATION", "ERROR_IO", "ERROR_HTTP_SERVICE", "ERROR_HTTP"}

NewTask == [state |-> "UNKNOWN", pc |-> "none", canceled |-> FALSE, httpRequestId |-> -1,
            downloaded |-> 0, total |-> -1, resumedFrom |-> 0,
            ino |-> NoInode, resume |-> 0, onDisk |-> 0, http |-> 0,
            outcome |-> "none", error |-> "none"]

\* Mutant: a failing stat() is reported as -1.
PartSize_missing(t) == IF part[DestOf[t]] = NoInode THEN -1 ELSE Len(content[part[DestOf[t]]])

\* stat() of the .part: its length, 0 when there is none.
PartSize(t) == IF part[DestOf[t]] = NoInode THEN 0 ELSE Len(content[part[DestOf[t]]])

ProxyAlive == mHttp # 0 /\ mHttp \notin deadProxies

Idle == [pc |-> "idle", task |-> NoTask, id |-> -1, http |-> 0]

\* What an earlier download of t's resource leaves in a .part: its first n bytes.
Piece(n, t) == [i \in 1..n |-> ResourceOf[t]]

Init ==
    /\ InitHttp
    /\ registered = 1
    /\ task = [t \in Tasks |-> NewTask]
    /\ events = [t \in Tasks |-> << >>]
    /\ \E left \in [Dests -> Leftovers \cup {-1}] :
        /\ part = [d \in Dests |-> IF left[d] >= 0 THEN d ELSE NoInode]
        /\ content \in [Inodes -> {Piece(n, t) : n \in {0} \cup Leftovers, t \in Tasks}]
        /\ \A t \in Tasks : content[t] = << >>
        /\ \A d \in Dests :
              /\ Len(content[d]) = IF left[d] >= 0 THEN left[d] ELSE 0
              /\ \A t \in Tasks : DestOf[t] = d => content[d] = Piece(Len(content[d]), t)
    /\ dest = [d \in Dests |-> NoInode]
    /\ mHttp = 0
    /\ deadProxies = {}
    /\ httpLock = NoTask
    /\ canceller = Idle

\* The callback history; a run of progress reports is one entry.
Told(t, e) ==
    events' = IF e = "progress" /\ events[t] # << >> /\ events[t][Len(events[t])] = e
              THEN events ELSE [events EXCEPT ![t] = Append(@, e)]

-------------------------------------------------------------------------------
(* enqueue(), and the worker thread: runTask() *)

Enqueue(t) ==
    /\ task[t].pc = "none"
    /\ Exclusive => \A u \in Tasks \ {t} :
          DestOf[u] = DestOf[t] => task[u].state = "UNKNOWN" \/ isTerminal(task[u].state)
    /\ task' = [task EXCEPT ![t].state = "PENDING", ![t].pc = "start"]
    /\ UNCHANGED <<httpVars, events, part, dest, mHttp, deadProxies, httpLock, registered, canceller>>

\* A step of runTask() that only touches the task.
Local(t, next) ==
    /\ task' = [task EXCEPT ![t] = next]
    /\ UNCHANGED <<httpVars, events, part, dest, mHttp, deadProxies, httpLock, registered, canceller>>

Failed(s, error) == [s EXCEPT !.pc = "fail", !.outcome = "FAILED", !.error = error]
Canceled(s) == [s EXCEPT !.pc = "finish", !.outcome = "CANCELED"]

Start(t) ==
    /\ task[t].pc = "start"
    /\ Local(t, [task[t] EXCEPT !.state = "RUNNING", !.pc = "dir"])

EnsureParentDir(t) ==
    /\ task[t].pc = "dir"
    /\ \/ "dir" \in Faults /\ Local(t, Failed(task[t], "ERROR_BAD_DESTINATION"))
       \/ Local(t, [task[t] EXCEPT !.pc = "measure"])

\* The length of the .part is where this run picks up.
Measure(t) ==
    /\ task[t].pc = "measure"
    /\ Local(t, [task[t] EXCEPT !.pc = "open", !.resume = PartSize(t),
                                !.downloaded = PartSize(t), !.resumedFrom = PartSize(t)])

OpenPart(t) ==
    /\ task[t].pc = "open"
    /\ LET d == DestOf[t]
           ino == IF part[d] = NoInode THEN t ELSE part[d] IN
        /\ part' = [part EXCEPT ![d] = ino]
        /\ task' = [task EXCEPT ![t].pc = "lookup", ![t].ino = ino]
    /\ UNCHANGED <<httpVars, events, dest, mHttp, deadProxies, httpLock, registered, canceller>>

OpenFails(t) ==
    /\ task[t].pc = "open"
    /\ "open" \in Faults
    /\ Local(t, Failed(task[t], "ERROR_IO"))

\* httpService(): the cached proxy unless it is known to be dead; otherwise poll
\* servicemanager with mHttpLock held, until the name is there or time is up.
ProxyCached ==
    /\ httpLock = NoTask /\ ProxyAlive
    /\ UNCHANGED <<mHttp, httpLock>>

ProxyDropped(who) ==
    /\ httpLock = NoTask /\ ~ProxyAlive
    /\ mHttp' = 0
    /\ httpLock' = who

ProxyFound ==
    /\ registered # 0
    /\ mHttp' = registered
    /\ httpLock' = NoTask

\* Mutant: wait until the service appears, as waitForService() does.
ProxyTimeout_never == registered = 0 /\ FALSE

ProxyTimeout ==
    /\ registered = 0
    /\ httpLock' = NoTask
    /\ UNCHANGED mHttp

WorkerLookup(t) ==
    /\ \/ /\ task[t].pc = "lookup" /\ ProxyCached
          /\ task' = [task EXCEPT ![t].pc = "newId", ![t].http = mHttp]
       \/ /\ task[t].pc = "lookup" /\ ProxyDropped(t)
          /\ task' = [task EXCEPT ![t].pc = "polling"]
       \/ /\ task[t].pc = "polling" /\ ProxyFound
          /\ task' = [task EXCEPT ![t].pc = "newId", ![t].http = registered]
       \/ /\ task[t].pc = "polling" /\ ProxyTimeout
          /\ task' = [task EXCEPT ![t] = Failed(@, "ERROR_HTTP_SERVICE")]
    /\ UNCHANGED <<httpVars, events, part, dest, deadProxies, registered, canceller>>

\* newRequestId() through the proxy: the worker waits for a thread of the http
\* service, or learns that the process is gone.
ReserveId(t) ==
    /\ task[t].pc = "newId"
    /\ Reachable(task[t].http)
    /\ NewRequestId(t)
    /\ task' = [task EXCEPT ![t].pc = "publish"]
    /\ UNCHANGED <<events, part, dest, mHttp, deadProxies, httpLock, registered, canceller>>

ReserveIdFails(t) ==
    /\ task[t].pc = "newId"
    /\ ~Reachable(task[t].http)
    /\ task' = [task EXCEPT ![t] = Failed(@, "ERROR_HTTP_SERVICE")]
    /\ deadProxies' = deadProxies \cup {task[t].http}
    /\ UNCHANGED <<httpVars, events, part, dest, mHttp, httpLock, registered, canceller>>

\* Publish the id first, then read the cancel flag.
PublishId(t) ==
    /\ task[t].pc = "publish"
    /\ Local(t, [task[t] EXCEPT !.pc = "check", !.httpRequestId = fetch[t].id])

\* Mutant: the flag is not read once the id is published.
CheckCanceled_skip(t) ==
    /\ task[t].pc = "check"
    /\ Local(t, [task[t] EXCEPT !.pc = "call"])

\* Mutant: runTask() goes on after cancelDone().
CheckCanceled_through(t) ==
    /\ task[t].pc = "check"
    /\ task' = [task EXCEPT ![t].pc = "call", ![t].state = IF task[t].canceled THEN "CANCELED" ELSE @]
    /\ IF task[t].canceled THEN Told(t, "CANCELED") ELSE UNCHANGED events
    /\ UNCHANGED <<httpVars, part, dest, mHttp, deadProxies, httpLock, registered, canceller>>

CheckCanceled(t) ==
    /\ task[t].pc = "check"
    /\ Local(t, IF task[t].canceled THEN Canceled(task[t]) ELSE [task[t] EXCEPT !.pc = "call"])

DupFails(t) ==
    /\ task[t].pc = "call"
    /\ "dup" \in Faults
    /\ Local(t, Failed(task[t], "ERROR_IO"))

CallFetch(t) ==
    /\ task[t].pc = "call"
    /\ FetchToFd(t, task[t].ino, task[t].resume)
    /\ task' = [task EXCEPT ![t].pc = "fetching"]
    /\ UNCHANGED <<events, part, dest, mHttp, deadProxies, httpLock, registered, canceller>>

\* Mutant: success is told by the service specific code, which a dead process leaves 0.
FetchReturns_dead(t) ==
    /\ task[t].pc = "fetching" /\ fetch[t].pc = "replied"
    /\ task' = [task EXCEPT ![t] =
          IF fetch[t].result \in {"OK", "DEAD_OBJECT"}
          THEN [@ EXCEPT !.pc = "store", !.onDisk = task[t].resumedFrom + fetch[t].written]
          ELSE IF @.canceled \/ fetch[t].result = "ERROR_CANCELED" THEN Canceled(@)
          ELSE Failed(@, "ERROR_HTTP")]
    /\ UNCHANGED <<httpVars, events, part, dest, mHttp, deadProxies, httpLock, registered, canceller>>

\* Mutant: the resumed prefix is not counted.
FetchReturns_written(t) ==
    /\ task[t].pc = "fetching" /\ fetch[t].pc = "replied"
    /\ task' = [task EXCEPT ![t] =
          IF fetch[t].result = "OK" THEN [@ EXCEPT !.pc = "store", !.onDisk = fetch[t].written]
          ELSE IF @.canceled \/ fetch[t].result = "ERROR_CANCELED" THEN Canceled(@)
          ELSE Failed(@, "ERROR_HTTP")]
    /\ UNCHANGED <<httpVars, events, part, dest, mHttp, deadProxies, httpLock, registered, canceller>>

\* fetchToFd() returns; after a success totalOnDisk is made from the offset as the
\* relay has it now, which may be the one asked for and not yet the server's.
FetchReturns(t) ==
    /\ task[t].pc = "fetching" /\ fetch[t].pc = "replied"
    /\ task' = [task EXCEPT ![t] =
          IF fetch[t].result = "OK"
          THEN [@ EXCEPT !.pc = "store", !.onDisk = task[t].resumedFrom + fetch[t].written]
          ELSE IF @.canceled \/ fetch[t].result = "ERROR_CANCELED" THEN Canceled(@)
          ELSE Failed(@, IF fetch[t].result = "DEAD_OBJECT" THEN "ERROR_HTTP_SERVICE"
                         ELSE "ERROR_HTTP")]
    /\ deadProxies' = IF fetch[t].result = "DEAD_OBJECT"
                      THEN deadProxies \cup {fetch[t].inst} ELSE deadProxies
    /\ UNCHANGED <<httpVars, events, part, dest, mHttp, httpLock, registered, canceller>>

\* The store of totalOnDisk: the relay may have run since the offset was loaded.
StoreOnDisk(t) ==
    /\ task[t].pc = "store"
    /\ Local(t, [task[t] EXCEPT !.pc = "rename", !.downloaded = task[t].onDisk])

Rename(t) ==
    /\ task[t].pc = "rename"
    /\ LET d == DestOf[t] IN
        /\ part[d] # NoInode
        /\ dest' = [dest EXCEPT ![d] = part[d]]
        /\ part' = [part EXCEPT ![d] = NoInode]
    /\ task' = [task EXCEPT ![t].pc = "size"]
    /\ UNCHANGED <<httpVars, events, mHttp, deadProxies, httpLock, registered, canceller>>

\* Mutant: the result of rename() is not looked at.
RenameFails_ignored(t) ==
    /\ task[t].pc = "rename"
    /\ part[DestOf[t]] = NoInode \/ "rename" \in Faults
    /\ Local(t, [task[t] EXCEPT !.pc = "finish", !.outcome = "COMPLETED"])

RenameFails(t) ==
    /\ task[t].pc = "rename"
    /\ part[DestOf[t]] = NoInode \/ "rename" \in Faults
    /\ Local(t, Failed(task[t], "ERROR_IO"))

FinalSize(t) ==
    /\ task[t].pc = "size"
    /\ Local(t, [task[t] EXCEPT !.pc = "finish", !.outcome = "COMPLETED",
                                !.total = Len(content[dest[DestOf[t]]])])

\* Mutant: every failure removes the .part.
StatPart_any(t) ==
    /\ task[t].pc = "fail"
    /\ Local(t, [task[t] EXCEPT !.pc = "unlink"])

\* fail(): an empty .part is litter, anything with bytes in it is kept.
StatPart(t) ==
    /\ task[t].pc = "fail"
    /\ Local(t, [task[t] EXCEPT !.pc = IF PartSize(t) = 0 THEN "unlink" ELSE "finish"])

UnlinkPart(t) ==
    /\ task[t].pc = "unlink"
    /\ part' = [part EXCEPT ![DestOf[t]] = NoInode]
    /\ task' = [task EXCEPT ![t].pc = "finish"]
    /\ UNCHANGED <<httpVars, events, dest, mHttp, deadProxies, httpLock, registered, canceller>>

\* finish() stores the state; the terminal callback follows.
Finish(t) ==
    /\ task[t].pc = "finish"
    /\ Local(t, [task[t] EXCEPT !.state = task[t].outcome, !.pc = "report"])

Report(t) ==
    /\ task[t].pc = "report"
    /\ Told(t, task[t].outcome)
    /\ task' = [task EXCEPT ![t].pc = "done", ![t].ino = NoInode, ![t].http = 0]
    /\ UNCHANGED <<httpVars, part, dest, mHttp, deadProxies, httpLock, registered, canceller>>

Worker(t) ==
    \/ Start(t) \/ EnsureParentDir(t) \/ Measure(t) \/ OpenPart(t) \/ OpenFails(t)
    \/ WorkerLookup(t) \/ ReserveId(t) \/ ReserveIdFails(t)
    \/ PublishId(t) \/ CheckCanceled(t) \/ DupFails(t) \/ CallFetch(t) \/ FetchReturns(t)
    \/ StoreOnDisk(t) \/ Rename(t) \/ RenameFails(t) \/ FinalSize(t)
    \/ StatPart(t) \/ UnlinkPart(t) \/ Finish(t) \/ Report(t)

-------------------------------------------------------------------------------
(* cancel(): the flag first, then the id *)

\* A client cancels a download; the handler returns at once if it is over.
ClientCancel(t) ==
    /\ canceller = Idle
    /\ cancels < MaxCancels
    /\ task[t].state # "UNKNOWN"
    /\ cancels' = cancels + 1
    /\ canceller' = IF isTerminal(task[t].state) THEN Idle
                    ELSE [canceller EXCEPT !.pc = "flag", !.task = t]
    /\ UNCHANGED <<up, instance, tableVars, fetch, content, relayQ, cancelQ, doomed, task,
                   events, part, dest, mHttp, deadProxies, httpLock, registered>>

SetFlag ==
    /\ canceller.pc = "flag"
    /\ task' = [task EXCEPT ![canceller.task].canceled = TRUE]
    /\ canceller' = [canceller EXCEPT !.pc = "readId"]
    /\ UNCHANGED <<httpVars, events, part, dest, mHttp, deadProxies, httpLock, registered>>

ReadId ==
    /\ canceller.pc = "readId"
    /\ LET id == task[canceller.task].httpRequestId IN
        canceller' = IF id >= 0 THEN [canceller EXCEPT !.pc = "lookup", !.id = id] ELSE Idle
    /\ UNCHANGED <<httpVars, task, events, part, dest, mHttp, deadProxies, httpLock, registered>>

CancelLookup ==
    /\ \/ /\ canceller.pc = "lookup" /\ ProxyCached
          /\ canceller' = [canceller EXCEPT !.pc = "send", !.http = mHttp]
       \/ /\ canceller.pc = "lookup" /\ ProxyDropped("cancel")
          /\ canceller' = [canceller EXCEPT !.pc = "polling"]
       \/ /\ canceller.pc = "polling" /\ ProxyFound
          /\ canceller' = [canceller EXCEPT !.pc = "send", !.http = registered]
       \/ /\ canceller.pc = "polling" /\ ProxyTimeout
          /\ canceller' = Idle
    /\ UNCHANGED <<httpVars, task, events, part, dest, deadProxies, registered>>

ForwardCancel ==
    /\ canceller.pc = "send"
    /\ SendCancel(canceller.http, canceller.id)
    /\ deadProxies' = IF Reachable(canceller.http) THEN deadProxies
                      ELSE deadProxies \cup {canceller.http}
    /\ canceller' = Idle
    /\ UNCHANGED <<up, instance, tableVars, fetch, content, relayQ, cancels, doomed, task,
                   events, part, dest, mHttp, httpLock, registered>>

Canceller == SetFlag \/ ReadId \/ CancelLookup \/ ForwardCancel

-------------------------------------------------------------------------------
(* ProgressRelay: oneway calls to one object, delivered one by one in order *)

\* Mutant: the offset the server chose is not recorded.
OnResponseStart_offset(t) ==
    /\ relayQ[t] # << >> /\ Head(relayQ[t])[1] = "start"
    /\ task' = [task EXCEPT ![t].total = Head(relayQ[t])[3], ![t].downloaded = Head(relayQ[t])[2]]
    /\ Told(t, "started")
    /\ relayQ' = [relayQ EXCEPT ![t] = Tail(@)]
    /\ UNCHANGED <<up, instance, tableVars, fetch, content, cancelQ, cancels, doomed,
                   part, dest, mHttp, deadProxies, httpLock, registered, canceller>>

\* Mutant: the counter keeps the prefix that was on disk before.
OnResponseStart_prefix(t) ==
    /\ relayQ[t] # << >> /\ Head(relayQ[t])[1] = "start"
    /\ task' = [task EXCEPT ![t].resumedFrom = Head(relayQ[t])[2], ![t].total = Head(relayQ[t])[3]]
    /\ Told(t, "started")
    /\ relayQ' = [relayQ EXCEPT ![t] = Tail(@)]
    /\ UNCHANGED <<up, instance, tableVars, fetch, content, cancelQ, cancels, doomed,
                   part, dest, mHttp, deadProxies, httpLock, registered, canceller>>

OnResponseStart(t) ==
    /\ relayQ[t] # << >> /\ Head(relayQ[t])[1] = "start"
    /\ LET start == Head(relayQ[t])[2]
           total == Head(relayQ[t])[3] IN
        task' = [task EXCEPT ![t].resumedFrom = start, ![t].total = total, ![t].downloaded = start]
    /\ Told(t, "started")
    /\ relayQ' = [relayQ EXCEPT ![t] = Tail(@)]
    /\ UNCHANGED <<up, instance, tableVars, fetch, content, cancelQ, cancels, doomed,
                   part, dest, mHttp, deadProxies, httpLock, registered, canceller>>

\* The client hears of it unless the last report is less than kClientIntervalMs ago.
OnBytesReceived(t) ==
    /\ relayQ[t] # << >> /\ Head(relayQ[t])[1] = "bytes"
    /\ LET received == Head(relayQ[t])[2]
           total == Head(relayQ[t])[3] IN
        task' = [task EXCEPT ![t].downloaded = task[t].resumedFrom + received,
                             ![t].total = IF total >= 0 THEN total ELSE @]
    /\ Told(t, "progress") \/ UNCHANGED events
    /\ relayQ' = [relayQ EXCEPT ![t] = Tail(@)]
    /\ UNCHANGED <<up, instance, tableVars, fetch, content, cancelQ, cancels, doomed,
                   part, dest, mHttp, deadProxies, httpLock, registered, canceller>>

Relay(t) == OnResponseStart(t) \/ OnBytesReceived(t)

-------------------------------------------------------------------------------
(* servicemanager's entry for the http service *)

\* addService() of a started instance replaces the entry of the one before.
Register ==
    /\ up /\ registered # instance
    /\ registered' = instance
    /\ UNCHANGED <<httpVars, task, events, part, dest, mHttp, deadProxies, httpLock, canceller>>

\* binderDied(): the entry of a dead instance goes.
Reap ==
    /\ registered # 0 /\ ~Reachable(registered)
    /\ registered' = 0
    /\ UNCHANGED <<httpVars, task, events, part, dest, mHttp, deadProxies, httpLock, canceller>>

-------------------------------------------------------------------------------

\* Every task is over and every message delivered.
Quiet ==
    /\ \A t \in Tasks : task[t].pc = "done" /\ relayQ[t] = << >>
    /\ canceller = Idle /\ cancelQ = << >>
    /\ UNCHANGED vars

Next ==
    \/ \E t \in Tasks : Enqueue(t) \/ Worker(t) \/ Relay(t) \/ ClientCancel(t)
    \/ Canceller
    \/ HttpProcess /\ UNCHANGED dlVars
    \/ Register \/ Reap
    \/ Quiet

Spec == Init /\ [][Next]_vars

\* Every thread that can take a step takes one: the workers, the handler of
\* cancel(), the relays, and the binder threads and supervision of the http service.
Fairness ==
    /\ \A t \in Tasks : WF_vars(Worker(t)) /\ WF_vars(Relay(t))
    /\ WF_vars(Canceller)
    /\ \A c \in Calls : /\ SF_vars(Accept(c) /\ UNCHANGED dlVars)
                        /\ WF_vars(Transfer(c) /\ UNCHANGED dlVars)
    /\ SF_vars(CancelHandler /\ UNCHANGED dlVars)

LiveSpec == Spec /\ Fairness

-------------------------------------------------------------------------------
(* Properties *)

WorkerPcs == {"none", "start", "dir", "measure", "open", "lookup", "polling", "newId", "publish",
              "check", "call", "fetching", "store", "rename", "size", "fail", "unlink", "finish",
              "report", "done"}

\* Every variable has its type.
TypeOK ==
    /\ HttpTypeOK
    /\ task \in [Tasks ->
          [state : States, pc : WorkerPcs, canceled : BOOLEAN, httpRequestId : Ids \cup {-1},
           downloaded : Nat, total : Int, resumedFrom : Nat, ino : Inodes \cup {NoInode},
           resume : Nat, onDisk : Nat, http : Nat, outcome : Terminal \cup {"none"}, error : Errors]]
    /\ events \in [Tasks -> Seq({"started", "progress"} \cup Terminal)]
    /\ part \in [Dests -> Inodes \cup {NoInode}]
    /\ dest \in [Dests -> Inodes \cup {NoInode}]
    /\ mHttp \in Nat /\ registered \in Nat
    /\ deadProxies \subseteq Nat
    /\ httpLock \in Tasks \cup {NoTask, "cancel"}
    /\ canceller \in [pc : {"idle", "flag", "readId", "lookup", "polling", "send"},
                      task : Tasks \cup {NoTask}, id : Ids \cup {-1}, http : Nat]

IsWhole(d) == \E t \in Tasks : DestOf[t] = d /\ content[dest[d]] = Whole(t)

\* "Rename last: once destPath exists, it is guaranteed to be complete."
DestComplete == \A d \in Dests : dest[d] # NoInode => IsWhole(d)

\* The server sent everything again although the worker asked for the rest.
StartedOver(t) == task[t].resumedFrom # task[t].resume

\* Once a task is completed and its last reports are in, getDownloadedBytes() is
\* the size of the file, whichever of relay and worker wrote the counter last; but
\* after a server that started over, the worker may have added the prefix it asked
\* to keep, and its store may have come last: then it is off by that prefix.
CompletedBytes ==
    \A t \in Tasks : task[t].state = "COMPLETED" /\ relayQ[t] = << >> =>
        \/ task[t].downloaded = Size
        \/ StartedOver(t) /\ task[t].downloaded = task[t].resume + Size

\* The byte count is never too high: once a task is over without its file and its
\* last reports are in, the .part holds the bytes getDownloadedBytes() claims.
\* It may hold more: bytes that were written and not reported.  The one excess is
\* that of CompletedBytes, when the transfer succeeded and only the rename failed.
BytesOnDisk ==
    \A t \in Tasks :
        task[t].pc = "done" /\ task[t].state # "COMPLETED" /\ relayQ[t] = << >> =>
            \/ task[t].downloaded <= PartSize(t)
            \/ /\ StartedOver(t) /\ fetch[t].result = "OK"
               /\ task[t].downloaded = task[t].resume + PartSize(t)

\* "Bytes on disk right now, including a resumed prefix": what
\* getDownloadedBytes() says of a task that is over is what its file holds.
CountIsOnDisk ==
    \A t \in Tasks : task[t].state = "COMPLETED" /\ relayQ[t] = << >> =>
        task[t].downloaded = Len(content[dest[DestOf[t]]])

\* The percentage of the report about to be made is within 0..100.
PercentInRange ==
    \A t \in Tasks : relayQ[t] # << >> /\ Head(relayQ[t])[1] = "bytes" =>
        LET done == task[t].resumedFrom + Head(relayQ[t])[2]
            total == IF Head(relayQ[t])[3] >= 0 THEN Head(relayQ[t])[3] ELSE task[t].total
        IN total > 0 => (done * 100) \div total \in 0..100

\* "a transfer cannot sneak past a cancel that already happened": when the
\* handler of cancel() is through with a task whose transfer is under way, the
\* http service that runs it has been told, or the transfer is over.
NoSneak ==
    \A t \in Tasks :
        /\ task[t].canceled /\ canceller.task # t
        /\ task[t].pc \in {"call", "fetching"} /\ Reachable(fetch[t].inst)
        => \/ fetch[t].pc = "replied"
           \/ mRequests[fetch[t].id].canceled
           \/ \E i \in DOMAIN cancelQ : cancelQ[i] = fetch[t].id

\* "Anything with bytes in it is kept": a .part that is not empty stays where it
\* is until it becomes the destination file.
PartKept ==
    [][\A d \in Dests :
          part[d] # NoInode /\ content[part[d]] # << >> /\ part'[d] # part[d] => dest'[d] = part[d]]_vars

Count(s, S) == Cardinality({i \in DOMAIN s : s[i] \in S})

\* The client hears at most one terminal callback, it is the one the recorded
\* state calls for, and nobody hears it before the state says so.
OneVerdict ==
    \A t \in Tasks :
        /\ Count(events[t], Terminal) = (IF task[t].pc = "done" THEN 1 ELSE 0)
        /\ \A i \in DOMAIN events[t] : events[t][i] \in Terminal => events[t][i] = task[t].state

Promise ==
    INSTANCE DownloadSpec WITH
        state <- [t \in Tasks |-> task[t].state],
        asked <- {t \in Tasks : task[t].canceled},
        published <- {t \in Tasks : task[t].pc = "size" \/ task[t].outcome = "COMPLETED"},
        file <- [d \in Dests |-> IF dest[d] = NoInode THEN "none"
                                ELSE IF IsWhole(d) THEN "whole" ELSE "broken"]

\* The service keeps the promise of DownloadSpec, step by step, and under fair
\* scheduling also that every download ends.
KeepsLivePromise == Promise!LiveSpec

\* Every accepted download ends with its terminal callback made.
EveryTaskReported == \A t \in Tasks : task[t].state = "PENDING" ~> task[t].pc = "done"
===============================================================================
