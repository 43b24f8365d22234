# Verification of the binder download stack

This directory holds TLA+ models of the programs of the repository: the http
service (`src/service/http`), the download service (`src/service/download`), the
command line client (`src/client`), the launcher (`src/service/main.cpp`) and
servicemanager as this repository builds it; the TLC configurations that check
them on small instances, and TLAPS proofs of their central invariants. `PROJECT.json` lists every
component, run, mutant, finding, hazard and theorem, and maps each definition to the lines it models.

## 1. The system

A download crosses four processes:

    client  --enqueue/cancel-->  download service  --fetchToFd/cancel-->  http service  -->  network
      ^------- oneway callbacks -------|   ^------ oneway progress (relay) -------|
                    servicemanager: the names "download.service", "http.service"

| Component | State | Operations | Correct when |
|---|---|---|---|
| HttpService (`HttpService.cpp`) | `mRequests` (id to canceled, running, created), `mNextId`, `mActiveCount`, a pool of binder threads | newRequestId, fetchToFd, cancel (oneway, with a sweep of stale entries), getString, getActiveRequestCount | ids are unique, a cancelled request stops or never starts, entries and the counter match the handlers on every path |
| HttpClient (`HttpClient.cpp`) | one connection, a read buffer | get with redirects, header reading, plain and chunked bodies | success means that the whole body reached the sink at the right offset |
| DownloadService (`DownloadService.cpp`) | tasks (state, counters, cancel flag, request id), `.part` and destination files, the cached http proxy under `mHttpLock` | enqueue, runTask (worker thread per task), cancel, httpService | one verdict per task, the destination is complete whenever it exists, resumable bytes are kept, cancel is never missed |
| ProgressRelay (same file) | the task's counters | onResponseStart, onBytesReceived (oneway) | counters and callbacks agree with the transfer |
| Task table (same file) | `mTasks`, `mOrder`, `mNextId`, `mLock`, `mFinished` | enqueue, finish, awaitCompletion, readers | waiters return, with the right state and its message |
| Client (`client/download.cpp`) | the settled state, the exit code | parseArgs, enqueue, callbacks, death recipient, await, describe | it comes back with the verdict, whoever dies |
| Launcher (`service/main.cpp`) | the pids of its children, whether servicemanager is its own | spawn, supervise, onSignal, cleanup | no orphan survives it and no stranger is signalled |
| servicemanager (vendored, with the stubs of `compat`) | `mNameToService`, `mNameToRegistrationCallback`, `mNameToClientCallback`, death links, two manifests | the twelve methods of IServiceManager, a timer, binderDied | callbacks hear of the current service and of every client, the dead are forgotten, a service in use is not unregistered |
| Generated stubs (`generated/aidl`) | none | marshalling | proxy and stub agree |
| libbinder (vendored) | proxies, thread pools, oneway queues | transact, linkToDeath, isBinderAlive | external: modelled from its use |

What is hard here: worker threads, binder threads and oneway callbacks interleave
without a common lock; the synchronous reply and the oneway progress of one
transfer arrive in either order; either service may die while the other holds
an id, a proxy or a descriptor of it; cancel races every stage of a transfer and
needs a thread of the pool that transfers occupy; a `.part` outlives the process
that wrote it; a signal handler that never returns may replace the launcher's
current step by a cleanup; a service is handed out, dropped and unregistered by
processes that do not see each other. The `hazards` of `PROJECT.json` list these at their lines.

## 2. Modules

| Module | What it is |
|---|---|
| `HttpService` | the http service: table, handlers, transport control, inbox of cancel, death and restart |
| `HttpClients` | `HttpService` closed by its clients: anyone may cancel any id, one call at a time for a file |
| `DownloadService` | the download service composed with `HttpService` (a task is a call), files, relay, proxy, registry entry |
| `DownloadSpec` | the promise of the two AIDL files: an abstract specification of four variables |
| `TaskTable` | mutex, condition variable, finish and awaitCompletion |
| `DownloadClient` | the client in front of `TaskTable`: main(), callbacks, death of the service, pool and buffer limits |
| `Launcher` | the manager, its signals and its children |
| `ServiceManagerAidl` | the generated proxy and stub of IServiceManager, IServiceCallback and IClientCallback |
| `ServiceRegistry` | servicemanager over these stubs, `vintf_stub.cpp` and `selinux_stub.cpp`, with processes that hold, pass on and drop references and die |
| `HttpWire` | `HttpClient.cpp` at the grain of its text: URLs, lines, framings, redirects, getString |
| `HttpService_proofs`, `HttpClients_proofs` | theorems about the http service; the first holds for any client, the second closes it |
| `HttpWire_proofs` | the transport's text: what is read is what it means, for every text |
| `DownloadService_proofs`, `DownloadFiles_proofs` | the download service: its control; its files, the refinement of `DownloadSpec` and its byte counts |
| `DownloadClient_proofs` | the task table and the client in front of it |
| `Launcher_proofs`, `ServiceRegistry_proofs` | the launcher; servicemanager and its generated stubs |
| `MCHttpClients`, `MCDownloadService`, `MCTaskTable`, `MCDownloadClient`, `MCServiceRegistry`, `MCHttpWire` | small instances for TLC |

Definitions named `X_something`, preceded by a comment "Mutant", are plausible
bugs of `X`: with `X` replaced by one of them, the property named for it in
`PROJECT.json` is violated. They are no part of the specifications.

### HttpService

`fetch[c]` is a fetchToFd transaction with the locals of its thread. Its `pc`
goes `none, reserved` (newRequestId), `queued` (sent), `begun` (beginRequest),
`hop`, `connect`, `poll`, `recv`, `buffered` (the transport), `end`, `ended` (uncounted), and
`replied` (endRequest, last report, reply). The transport is cut exactly where
another thread can matter: `hop` and `poll` read the cancel flag (`get`,
`Reader::fill`), `connect` opens the connection and reads nothing, `recv` reads the socket, `buffered` holds bytes of an
earlier read, so that body bytes are delivered *without* the flag being read
again, as in `pumpPlain`. Between the last chunk and the blank line after it the framing is
`trailers`: any trouble there, a cancel included, is a success, as in
`pumpChunked`. `mRequests` is a total function with a `present` bit;
`expired` stands for `created` being more than `kStaleRequestMs` ago. `cancelQ` is the binder
inbox of oneway calls; `FreeThread` is the pool limit: handlers need a thread,
fetchToFd and getString keep theirs. `Crash` answers every waiting caller with
`DEAD_OBJECT`, loses the inbox, and leaves files and sent reports; `Restart`
starts the ids over. `cancels`, `doomed` and `instance` are bookkeeping.

A file is the sequence of its bytes, each the name of the resource it came from,
or `Hole`. Network and disk are choices limited to the `Faults` of a run;
`Answers` are the responses of a server to a range request. A 206 is
assumed to start where it was asked to start.

### DownloadService

`task[t]` is `Task` and the locals of `runTask`. Each store of an atomic that
another thread reads, each system call on a path, and each call to the http service is a step
of its own: PublishId and CheckCanceled, SetFlag and ReadId are the two sides of
the cancel handshake; StatPart and UnlinkPart are the two halves of `fail`;
FetchReturns loads the resumed offset and StoreOnDisk stores the sum with what was
written; Rename and FinalSize are two steps. `part` and `dest` map each path to an inode,
so that two tasks may hold one file open while a third step renames it.
`mHttp` is the instance the cached proxy points to; `deadProxies` are those
`isBinderAlive` reports dead, which happens only once a transaction through them has failed because
nobody calls `linkToDeath`. `httpLock` is held across the polling loop. `events`
is the history of callbacks, a run of progress reports counting as one.

The two relay handlers are single steps. The binder driver delivers oneway calls to
one object one at a time, so a handler races with the worker only, and after the reply the worker makes three accesses: it
loads `resumedFrom` (line 325), stores `downloaded` (326) and stores the final size in `total` (339). onResponseStart stores
`resumedFrom`, `total`, `downloaded`, in this order. If the worker's store of `downloaded` falls inside it, the handler's overwrites
it, and the outcome is that of the worker's load and store before the handler: what was loaded is in that store only. If only the load falls
inside, it is that of a load after the handler. `total` is stored once by each, so its last
writer is the same in one of the orders of whole steps. onBytesReceived loads
`resumedFrom`, which only the relay writes by then, and stores `downloaded` and `total` once each; if the worker's
stores fall around the second of these, `total` is the size of the resource whoever was last. What must not be one
step is the worker's load and store: between them both handlers may run, and then the worker stores a sum from an
offset that is no longer true (the run dl_bytes).

### TaskTable

`finish` is three steps (message under the lock, state, notify) and
awaitCompletion is find, lock, check, block, leave; `timed` are the calls that were given a timeout. `mLock` is a variable because a waiter
keeps it from its predicate to its wait; everybody else's critical section is one step.

### DownloadClient

It EXTENDS `TaskTable`: each task belongs to one client process. `client[t]` holds
the variables of main(), of `Callback` and of the `--cancel-after` thread. An argument
is one of seven kinds of word, which is all parseArgs tells apart. Every call to the
service needs a thread that awaitCompletion() calls of other processes do not hold
(`PoolSize`: `setThreadPoolMaxThreadCount`, plus the thread of `startThreadPool`, plus the
joined main thread). Callbacks are a queue of at most `AsyncSpace` calls; one that
does not fit is lost, since `runTask` ignores its status. The death notice runs on another thread of
the client and may overtake callbacks that were sent before.

### Launcher

`at` is the step of the manager and the child it is about; the grain is that of the
stores a signal can fall between (`fork()`, the pid, `gOwnServiceManager`, `waitpid`,
`pid = -1`). `OnSignal` replaces the step by the start of `cleanup()`, since the handler
ends in `_exit`; its own signal stays blocked, the other one may interrupt it in turn.
SIGINT is Ctrl+C and reaches every process of the group, SIGTERM only the
manager. `cut` remembers the interrupted steps, `stray` that a reaped pid was signalled.
A forked child that has not yet called exec still has the manager's handler.

### ServiceManagerAidl and ServiceRegistry

A proxy is what it writes and reads, a stub what it reads and writes; the two are
taken from the two halves of the generated file. `onTransact` and `Transact` play a call
through both, with `Answer`, the method behind each code, as the handler. `ServiceRegistry`
has one action per method that changes a table; servicemanager has one thread, so a call, a
timer tick or a death notice is one step. Each process has a service binder and two callback binders.
`holds` are the references the driver counts, `linked` the death links, which go with the proxy,
and `clearing` the proxies whose obituary was delivered, on which linkToDeath() fails. `owed`
is bookkeeping, independent of `guaranteeClient`: a name and the method (getService, addService, registerForNotifications)
that gave its binder to another live process while `hasClients` was clear, until a callback tells of a client. A debt
belongs to the entry and goes with it.

### HttpWire

Text is a sequence of `Tokens`, one per delimiter the code searches for and one per word between.
`Fill` puts any number of received tokens into the empty buffer, `Eof` closes or stays silent anywhere,
`ReadLine` and `Pump` consume as `readLine`, `pumpPlain` and `pumpChunked` do. `Meaning` is the
reference: what the tokens received as a whole mean, without a buffer.

### DownloadSpec and the refinement

`DownloadSpec` says: a task goes from pending to running to one terminal state; a
destination names nothing or a whole file; COMPLETED needs the file, FAILED and
CANCELED exclude it, CANCELED needs a request. `DownloadService` implements it
under the mapping `Promise`: `state` and `asked` come from the task, `published` from
the worker being past its rename, `file` from the content of the inode at `dest`.
A torn file maps to "broken", which no abstract step allows.

## 3. Runs

Passing runs:

| Run | Question | Bounds |
|---|---|---|
| http_table | does the request table match the handlers, and does a cancelled transfer stop? | 2 calls for one file, 2 cancels, 1 getString, 1 restart, expiry, 3 threads, chunked bodies, faults of sink, connection, redirect and disk, a server that stalls or never stops sending lines |
| dl_single | files, counters, callbacks, the transfer, that it ends, the promise, entries that outlive a handler | 1 task, size 2, leftovers none, 0, 1, 2 and 3, every fault, 1 cancel, 1 crash |
| dl_pair | the cancel handshake, ids and the published file around a death of the http service | 2 tasks, 2 paths, 1 cancel, 1 crash, 2 threads |
| client | awaitCompletion; exit code, stories and waits of a client | 1 client with 3 command lines, 1 foreign waiter that may have a timeout, 2 threads, spurious wakeups, 2 pending callbacks, death of the service at any step |
| launcher | what the launcher leaves behind | both signals, 1 crash, 1 change of a foreign servicemanager |
| registry | callbacks, references, deaths, marshalling | 2 processes (one of any uid), a legal and an illegal name, one VINTF binder |
| wire | bodies and URLs under every cut of the stream | 7 URLs, 17 responses (two with a chunk header or a trailer of the limit and one over it), buffer of 5, lines of 13, 2 headers, 2 redirects, bodies of 2 |

Runs that show a disagreement of the code with its documentation (the findings of
`PROJECT.json` quote both):

| Run | What TLC shows |
|---|---|
| dl_shared_dest | two downloads to one path publish an incomplete file |
| dl_bytes | after a server that ignored the range, a completed task keeps a byte count of its file plus the discarded prefix |
| tasks_lost_wakeup | awaitCompletion without a timeout sleeps through the end of its task |
| registry_apex | updatableViaApex() looks only at the first entry of a manifest |
| registry_handout | a client given its binder by registerForNotifications() that drops it before the next tick is never made known |

Why the bounds suffice: every property relates at most two calls or tasks, and
each race needs two actors and one disturbance (a cancel, a crash, a sweep; two
cancels for the sweep, which needs an id other than the one it removes). Size 2
with leftovers of 1, 2 and 3 gives a proper prefix, a proper suffix, nothing left to ask for, and stale bytes
beyond the end; size 1 is enough where the property is about who runs and not about what is
in a file. `MaxRedirects` 0 and `MaxIdle` 0 or 1 reach both sides of their guards. `MaxId`
is the number of calls, so ids never run out within an instance. The `Quiet` actions stutter where everything
is done, so TLC's deadlock check is on in every run but wire, where get() returns and nothing is left to do.
One client is enough for its properties, which relate it to the service and to whoever holds the other thread;
with two threads one awaitCompletion() leaves exactly one. In launcher both signals and one crash give
every nesting of the two handlers; the proofs lift the bounds on crashes and changes. In registry the second process is at once
client, other server and passer-on. In wire every line end, chunk header and body falls on and around
the end of a buffer of 5.

Three assumptions are constants. `Exclusive`: clients do not download twice to one path at a
time; dl_shared_dest drops it. `Framings` without `"eof"` in dl_single: a body
that ends with the connection cannot be told from one that was cut, so with `"eof"`
and `"truncate"` neither `OkMeansWhole` nor `DestComplete` holds, and `pumpPlain` says as much ("EOF *is* the
framing here"). `Expires` false in dl_single: see `DeadOnArrival` below.

Behaviours that a reader of the code should know, which the properties are stated
to allow. In the two services:

- `OneVerdict` does not say that the terminal callback is the last one. The worker makes
  it when the reply arrives, and queued progress reports may still follow it.
- `BytesOnDisk` says that the byte count of a failed or canceled task is not too
  high. It may be too low: bytes written since the last report are not in it.
- `CompletedBytes` and `BytesOnDisk` except the sum from a stale offset (dl_bytes), and say by how much it is off.
- `RunningOwned` is about running entries. A cancel that arrives after the end of its transfer
  leaves an entry that is not running, until a later cancel sweeps it.
- With transfers on every thread of the http service's pool a cancel() is not served until one ends
  (`HttpService.cpp:262`); http_table has a thread to spare.
- After a restart of the http service its ids start over, and a cancel that was on its way with
  an old id (`DownloadService.cpp:408`) ends another download as CANCELED.
- The cached proxy of a dead http service looks alive until a transaction fails, so the first download
  after a restart fails (`DownloadService.cpp:191`).
- A `.part` of full length asks for an empty range; the 416 fails the download, now and on every
  retry (`DownloadService.cpp:253`).

In the client (`ExitIsVerdict`, `ClientReturns`):

- A death notice that is handled after onCompleted and before await() wakes turns a success into exit code 1.
- A terminal callback that the full buffer refuses leaves await() waiting while the service lives.

In the launcher (`NoOrphans`, `NoStrayKill`, `RegisteredFirst`):

- A SIGTERM between fork() and the stores of the pid or of `gOwnServiceManager` leaves that child behind.
- A signal between waitpid() and `pid = -1` signals a pid that was reaped.
- A name registered by another instance counts as ready, and `defaultServiceManager()` waits for ever
  if servicemanager died after it was probed.

In servicemanager (`NotifiedOfCurrent`, `UnregisteredUnused`, `ClientsAcknowledged`):

- Client callbacks of a name survive its overwriting and unregistering; overwriting resets `hasClients`.
- The hand-out inside registerForNotifications() neither sets `guaranteeClient` nor asks `allowIsolated`;
  `ClientsAcknowledged` and `UnregisteredUnused` are therefore about the other two methods, and registry_handout shows what is missing.
- One tick may tell a server of a client and, at once, that it is gone.

In the transport (`MeaningKept`, `StaysOnHost`):

- A body without length that is cut is a success, as is a junk Content-Length, which counts as 0;
  1xx responses are taken for the final one.
- A Location whose path contains `://` is taken for absolute, and the directory of a relative one is
  that before the last slash of the query.

## 4. Fairness

Weak fairness of a worker, a relay, a handler of cancel, and of the thread that
serves a call: operating system threads run when they can. Strong fairness of `Accept` and
`CancelHandler`: the kernel queues transactions first come first served, so one
that finds a free thread again and again is taken. In `TaskTable`, strong
fairness of getting `mLock` and of the deadline. Nothing is assumed of the
network beyond the idle timeout, of the http service coming back (`Restart`, `Register`
and `Reap` are unfair), of clients, of getString() coming to an end, or of spurious wakeups. A server that sends
lines for ever (`Trickles`) is excluded where the property is that every call ends, since
the code has no limit for it; it is included where the property is about cancel.

In `DownloadClient` a transfer nobody cancels may go on for ever, and so may foreign waits without a timeout; strong fairness
is for calls that compete for threads and `mLock`, and for the deadline of a timed wait. In `Launcher` the manager, delivery of signals, and the
death and exec of children are fair, but nobody has to crash or to send a signal. In `ServiceRegistry` the timer
and death notices are fair (the looper serves both descriptors), calls and processes are not.

## 5. Proofs

All proofs hold for every value of the constants that satisfies the named ASSUMEs
(finite sets of calls and of processes, natural bounds, at least one thread, distinct names; a null
that is none of the values a call may return; texts made of `Tokens`, among them those toString() writes). What a theorem
needs beyond that is a hypothesis of its own, each of them a condition without which the code does not do what is claimed:

| Hypothesis | What it says | What happens without it |
|---|---|---|
| `~Expires` | no cancelled id waits for its fetchToFd longer than `kStaleRequestMs` | the sweep forgets the cancel, and the transfer starts |
| `OneAtATime` | clients do not download to one path twice at a time (`Exclusive`), or never share a path (`OwnPaths`) | dl_shared_dest |
| `OwnPaths` | no two tasks have one path | a later download to the path takes over the `.part` that an earlier one counted |
| `OneResource` | a path is asked for one resource | a `.part` of one resource is resumed with bytes of the other |
| `Framed` | bodies are framed, or connections are not cut | a cut body without length is a success |
| `IdsLast` | the http service does not restart, or there is one task | a cancel on its way with an old id ends another download, which nobody cancelled |

*Http service.* `HttpInvariant`: `Spec => []HttpInv`, where `HttpInv` joins
`HttpTypeOK`, `TableInv` and `ActiveCountExact`. The properties are not
inductive by themselves: that a handler's entry is running needs the ids of
reachable calls to be distinct and below `mNextId`, so that `EndRequest` of one
call cannot erase the entry of another, and that calls inside a handler belong
to the running instance. `TableInv` states this; each transport step is first shown
to be a *move* (it changes one call, within the counted program counters, and
leaves the table alone), so that the table part is proved once for all of them. The
counter is a matter of cardinalities of `Counted`. From it follow
`HttpTypeCorrect`, `HttpIdsUnique`, `HttpFetchRegistered`, `HttpRunningOwned`
and `HttpActiveCountExact`. `HttpDeadOnArrival` needs `DoomedInv` in addition:
the entry of a doomed call keeps its flag until the call is over. It assumes
`~Expires`, and has to: a cancelled id that nobody claims for `kStaleRequestMs` is
swept by the next cancel of an unknown id, and a fetchToFd that reaches the service after that starts.

*Download service, control.* `ControlInvariant`: `Spec => []DlInv`, where `DlInv` is `HttpInv`, reproved with the
workers as callers, and `ControlInv`: for each step of `runTask` where the task's call stands, which instance and id it was
given, what the outcome, the error and the state are, and which callbacks were made; and what the handler of cancel() has read
so far. `OneVerdict` counts callbacks in a history, so the proof needs that the first terminal callback is made by the
last step of the worker and that a progress report, which may come later, is none. From it follow `DownloadTypeCorrect` and
`DownloadOneVerdict`. `DownloadNoSneak` is about the handshake of PublishId and CheckCanceled with SetFlag and ReadId. Its
invariant `SneakInv` says of a task whose flag is set and whose transfer was let through: the http service has been told (a mark in the
table, a cancel in the inbox, or the call is over), or the handler that set the flag is on its way to read the id and send it. `ProxyInv` adds that while a call can still be
reached, the cached proxy, and the one the handler is about to send through, are of the instance that runs it. `DownloadDeadOnArrival` carries `DoomedInv` over to these callers.

*Download service, files.* `DownloadPartKept` is an action property. It needs `PathInv`: of the tasks on one path one is at work,
and the inode a worker has open is the one its `.part` names until the rename. `FilesInvariant`: `Spec => []FileInv`, which adds `ContentInv`: a
`.part` is a prefix of its resource, as long as the worker measured it when it asked for the range; the sink of a
transfer is where the bytes it has delivered end; and a reply of success finds the file complete. That the sink's offset, the file's
length and the bytes still to come add up is shown per transport step (`SinkOK`), including a server that answers 200 to a range
request and makes the file start over. `DownloadOkMeansWhole` and `DownloadDestComplete` are its parts.

*The promise.* `DownloadKeepsPromise`: `Spec => Promise!Spec`, the safety half of `KeepsLivePromise`. Initial states map to initial
states; a worker's store of the state, its rename and SetFlag are the abstract steps, everything else
stutters. That only who was asked ends as CANCELED is not local: the flag that ends the transfer lives in another process, under a number. `AskInv` says that
every mark in the request table and every cancel in the inbox was asked for by a task with that id, and `IdsUnique`, with
`IdsLast`, that the task is the right one.

*Download service, byte counts.* `DownloadCompletedBytes`, `DownloadPercentInRange` and `DownloadBytesOnDisk`
concern counters that two threads store into while messages are queued. `CountsInv` follows each message: an offset comes first,
offset and count together stay within the size, and the last count of a success is
what is missing to the size, so that it does not matter whether the relay or the worker stores last. The sum the worker holds
between its load and its store is made from the offset it asked for or from the one the server used (`Sums`). `ResumeInv` says that the
recorded offset is the first until the relay is told, and the second is that one or 0, so that the two sums differ only after
a server that started over: the exception in both properties. `DiskInv` bounds every stored and every queued count by what is in the file, but for that sum (`Excess`), which a task without
its file can only have if the transfer succeeded and the rename failed.

*Task table.* `TableInvariant`: the message is written exactly from the
worker's step after FinishMessage on, a waiter that is leaving untimed has seen a
terminal state, and `mLock` belongs to the waiter between Lock and Block or Leave. From it
follow `TableTypeCorrect`, `TableLockOwned`, `TableMessageSeen`,
`TableUntimedIsTerminal` and `TableResultIsVerdict`.

*Client.* `ClientsUseTable`: `ClientSpec => Spec`, clients, pool and buffers only restrict when the table's steps are taken, so the
theorems about the table hold of the composition. `ClientInvariant`: a callback in a client's queue, or one it has taken, is
the recorded verdict of its task; what settled it is that, a death, or nothing; and each step of main() knows what the earlier ones
found. With it `ClientSameStory` and `ClientExitIsVerdict` hold for any number of clients and pending callbacks, whatever is lost
and whenever the service dies.

*Launcher.* `LauncherInvariant`: `Spec => []LauncherInv`. That nothing is left behind when the manager is
gone says nothing about the steps before, so `LauncherInv` follows a child through its life: `Known`, a living child
is one cleanup() will find, unless the manager is between fork() and the stores or a handler cut it there;
`Behind`, a child that cleanup() is past is dead, doomed or was cut off in that window; `PidFacts`, a stored pid is a
child's until it is reaped and for one step after; `SignalFacts`, whoever has been interrupted is in cleanup(),
and after a Ctrl+C every living child is doomed; `NameFacts`, a name that is found was claimed. The exceptions in
`NoOrphans` and `NoStrayKill` are thereby the only ones, however many crashes and foreign servicemanagers there are.

*Servicemanager.* `RegistryInvariant`: types and `NotifiedOfCurrent` are inductive together.
`RegistryUnregisteredUnused` is an action property: it needs `OwedInv` (a service that getService() or addService() handed out and that was not told
since has `guaranteeClient` set and `hasClients` clear, so the next tick tells it and tryUnregisterService() refuses
until then), and that a count of one reference means that no process has another (`IsFiniteSet(Procs)`).
`NoneAssumption` says that "no entry" is not an entry. `RegistryRpcFaithful`: each of the fourteen proxies has exactly one stub of its
code and the two fit (`StubsFit`); a stub reading what its proxy wrote stops at a null and at nothing else (`ReadWritten`), and every method's
answer is one its proxy can return (`AnswerShape`, which needs the types of the table).

*Transport text.* `WireInvariant`: `Spec => []WireInv`. `MeaningKept` speaks of the end of an exchange only, and compares with
`Chunks`, which reads the text as a whole, where the code reads it in pieces. `WireInv` therefore says of every moment: the buffer and the
unfinished line are the pieces of the stream between three positions (`ReaderOK`); no blank line has been passed in the head (`HeadOK`);
and for *every* `m` up to the end of the stream, what the first `m` tokens mean is the body so far followed by what the rest
means to a reader in this part of a chunk (`ChunksSoFar`, with `Rest`), or the body is a piece of the stream and `left` is what its length still
wants (`PlainFrom`). Receiving changes nothing in this, consuming a line or a slice unfolds `Rest` once, and at the end, with
`m` what has been received, it is `MeaningKept`. That a recursive function such as `ChunksFrom` satisfies its equation cannot be had from the
library's induction theorems here; it is proved from the principle that a set of numbers that is not empty has a least element (`NatLeast`):
approximations exist up to every place, because there is no first place up to which none does. `WireMeaningKept` holds
for every stream, buffer size and limit.

`RoundTrip` and `StaysOnHost` are searches in a text put together from parts: where toString() puts the delimiters, parseUrl()
finds them again, since what parseUrl() lets into a host, a port or a target (`UrlOK`) has no other. They are not true of every host: one with a
bracket at its front and no colon (`[[x]` gives `[x`), or with a colon and a `]` (`a]:b:80` gives `a]:b`), is printed in a way that reads differently.
`Printable` says that a host is none of these, and is exact: `WireRoundTrip` and `WireStaysOnHost` prove that the two properties hold
*if and only if* the host is printable, for every URL, every location and every chain of redirects. No valid host name or IPv6 literal has a bracket, so
these are URLs that could not be resolved in the first place; the run has none of them.

*Model-checked only.* Liveness under fairness, which is out of the prover's reach: `CancelStops`, `EveryTaskReported`, the live half of
`KeepsLivePromise`, `TimedReturns`, `ClientReturns`, `CancelEnds`, `TakenDown`, `SignalEnds`, `ClientsAcknowledged`, `DeadForgotten`. The five violations
are counterexamples, which TLC finds and a proof has nothing to add to.

## 6. Not modelled, and the plan

Not modelled: resolving, connecting and TLS; whitespace and letter case in headers and URLs; parseContentRange
(a 206 is assumed to start where it was asked to); printing, rates and the spelling of paths in the client;
the dispatch on `argv[1]` and execServiceManager() of the launcher; servicemanager's own entry, its dump
priorities, and the lazy start, which needs an init process; the SELinux stubs whose answer nobody uses.
`IPackageManagerNative.cpp`, the largest generated file, belongs to libbinder's permission cache, which
nothing here calls. `tools/binderfs_ctl.cpp` and the scripts set the machine up once and are pure I/O. The
vendored libraries are modelled from their use only.

The download service dies in `DownloadClient`, which has no files, and lives for ever in `DownloadService`,
which has them: the hazard of a restarted download that measures a `.part` the http service still
writes is open.

Order of work:

1. Done: `HttpService`, `HttpClients`, `TaskTable`, `DownloadService`,
   `DownloadSpec`, `DownloadClient`, `Launcher`, `ServiceManagerAidl`, `ServiceRegistry`, `HttpWire`;
   their runs.
2. Done: the proofs of every safety property of the passing runs, and of the safety half of the refinement.
3. Death and restart of the download service with its files, on an instance small enough for TLC.
