------------------------------ MODULE HttpService ------------------------------
(***************************************************************************)
(* The http service of src/service/http: the request table of              *)
(* HttpService.cpp (ids, the cancel flags, the active counter), the binder *)
(* threads that run fetchToFd() on the transport of HttpClient.cpp, the    *)
(* oneway inbox of cancel(), and the death and restart of the process.     *)
(*                                                                         *)
(* A call c is one fetchToFd() transaction of one client.  The transport   *)
(* is kept to the places where it reads the cancel flag, touches the sink  *)
(* or returns; what the network does is a nondeterministic choice, limited *)
(* to the kinds of trouble listed in Faults.  A file is the sequence of    *)
(* its bytes: byte i holds the name of the resource whose i-th byte it is, *)
(* or Hole where the file was never written.                               *)
(***************************************************************************)
EXTENDS Integers, Sequences, FiniteSets

CONSTANTS
    Calls,         \* fetchToFd() calls
    Inodes,        \* files a sink descriptor can refer to
    ResourceOf,    \* the resource each call's URL names
    Hole,          \* a byte of a file that was skipped over
    NoInode,       \* no file
    Size,          \* length of every resource
    Framings,      \* body framings the server uses: "length", "chunked", "eof"
    Ranges,        \* what the server does with a Range header: "honoured", "ignored"
    Faults,        \* troubles the environment may cause
    Trickles,      \* whether a server may feed header lines for ever
    Expires,       \* whether kStaleRequestMs may pass for an unclaimed id
    PoolSize,      \* binder threads of the process
    MaxId,         \* bound: ids one instance hands out
    MaxRedirects,  \* Request::maxRedirects
    MaxIdle,       \* empty reads before idleTimeoutMs has passed
    MaxStrings,    \* bound: getString() calls at a time
    MaxCancels,    \* bound: cancel() calls
    MaxCrashes     \* bound: deaths of the process

Ids == 1..MaxId

FaultKinds == {"sink", "url", "connect", "io", "stall", "truncate", "status",
               "redirect", "write", "dir", "open", "dup", "rename"}

ASSUME CallsAssumption == IsFiniteSet(Calls)
ASSUME SizeAssumption == Size \in Nat
ASSUME BoundsAssumption ==
    /\ {MaxId, MaxRedirects, MaxIdle, MaxStrings, MaxCancels, MaxCrashes} \subseteq Nat
    /\ PoolSize \in Nat \ {0}
ASSUME ChoiceAssumption ==
    /\ Framings \subseteq {"length", "chunked", "eof"}
    /\ Ranges \subseteq {"honoured", "ignored"}
    /\ Faults \subseteq FaultKinds
    /\ Trickles \in BOOLEAN /\ Expires \in BOOLEAN
ASSUME NamesAssumption == NoInode \notin Inodes

VARIABLES
    up,            \* the process is alive
    instance,      \* how many times it was started
    mNextId,       \* HttpService::mNextId
    mRequests,     \* HttpService::mRequests, a total function on Ids
    mActiveCount,  \* HttpService::mActiveCount
    strings,       \* binder threads inside getString()
    fetch,         \* the fetchToFd() calls, the locals of their threads
    content,       \* the bytes of every file
    relayQ,        \* undelivered oneway calls to a call's progress callback
    cancelQ,       \* undelivered oneway cancel() calls
    cancels,       \* cancel() calls made so far
    doomed         \* history: calls cancelled before the service began them

tableVars == <<mNextId, mRequests, mActiveCount, strings>>
httpVars == <<up, instance, mNextId, mRequests, mActiveCount, strings, fetch,
              content, relayQ, cancelQ, cancels, doomed>>

-------------------------------------------------------------------------------
(* State *)

\* HttpService::Request; expired stands for created being kStaleRequestMs ago.
NoRequest == [present |-> FALSE, canceled |-> FALSE, running |-> FALSE, expired |-> FALSE]
NewRequest == [NoRequest EXCEPT !.present = TRUE]
Requests == [present : BOOLEAN, canceled : BOOLEAN, running : BOOLEAN, expired : BOOLEAN]

\* IHttpService's codes; DEAD_OBJECT is binder's own answer for a dead process.
Results == {"OK", "ERROR_BAD_URL", "ERROR_CONNECT", "ERROR_IO", "ERROR_HTTP_STATUS",
            "ERROR_CANCELED", "ERROR_WRITE", "ERROR_TOO_LARGE", "DEAD_OBJECT", "none"}

\* Where a call stands.  "begun" to "ended" are inside the handler; in "hop" and
\* "poll" the transport is about to read the cancel flag, in "connect" about to
\* open the connection, in "recv" to read the socket, and in "buffered" it has
\* body bytes left from the last read.
CountedPcs == {"hop", "connect", "poll", "recv", "buffered", "end"}
ServedPcs == CountedPcs \cup {"begun", "ended"}
FetchPcs == ServedPcs \cup {"none", "reserved", "queued", "replied"}

NoFetch == [pc |-> "none", id |-> 0, inst |-> 0, ino |-> NoInode, resume |-> 0,
            start |-> 0, total |-> -1, written |-> 0, framing |-> "none",
            hop |-> 0, idle |-> 0, result |-> "none"]

\* The process can take a transaction sent through a proxy of instance i.
Reachable(i) == up /\ i = instance

Served == {c \in Calls : fetch[c].pc \in ServedPcs}
Counted == {c \in Calls : fetch[c].pc \in CountedPcs}

\* setThreadPoolMaxThreadCount: a handler needs a thread that no transfer parks.
FreeThread == up /\ Cardinality(Served) + strings < PoolSize

IsCanceled(c) == mRequests[fetch[c].id].canceled

Remaining(c) == Size - fetch[c].start - fetch[c].written

\* A file after n bytes of resource b are written at offset off.
Written(s, off, n, b) ==
    [i \in 1..(IF off + n > Len(s) THEN off + n ELSE Len(s)) |->
        IF off < i /\ i <= off + n THEN b
        ELSE IF i <= Len(s) THEN s[i] ELSE Hole]

\* What a byte of a file can be.
Bytes == {ResourceOf[c] : c \in Calls} \cup {Hole}

\* The complete resource of call c.
Whole(c) == [i \in 1..Size |-> ResourceOf[c]]

InitHttp ==
    /\ up = TRUE
    /\ instance = 1
    /\ mNextId = 1
    /\ mRequests = [i \in Ids |-> NoRequest]
    /\ mActiveCount = 0
    /\ strings = 0
    /\ fetch = [c \in Calls |-> NoFetch]
    /\ relayQ = [c \in Calls |-> << >>]
    /\ cancelQ = << >>
    /\ cancels = 0
    /\ doomed = {}

\* The transport returns to fetchToFd() with a result.
ResultOf(f, result) ==
    [f EXCEPT !.pc = "end", !.result = result, !.framing = "none", !.hop = 0, !.idle = 0]

\* The reply; the locals of the handler are gone.
ReplyOf(f, result) ==
    [NoFetch EXCEPT !.pc = "replied", !.id = f.id, !.inst = f.inst,
                    !.written = f.written, !.result = result]

-------------------------------------------------------------------------------
(* The calls of a client *)

\* Mutant: the counter is read but not advanced.
NewRequestId_stuck(c) ==
    /\ FreeThread /\ fetch[c].pc = "none" /\ mNextId \in Ids
    /\ fetch' = [fetch EXCEPT ![c].pc = "reserved", ![c].id = mNextId, ![c].inst = instance]
    /\ UNCHANGED <<up, instance, tableVars, content, relayQ, cancelQ, cancels, doomed>>

NewRequestId(c) ==
    /\ FreeThread
    /\ fetch[c].pc = "none"
    /\ mNextId \in Ids
    /\ fetch' = [fetch EXCEPT ![c].pc = "reserved", ![c].id = mNextId, ![c].inst = instance]
    /\ mNextId' = mNextId + 1
    /\ UNCHANGED <<up, instance, mRequests, mActiveCount, strings, content, relayQ,
                   cancelQ, cancels, doomed>>

\* The transaction is queued for the process, or fails because it died.
FetchToFd(c, ino, resume) ==
    /\ fetch[c].pc = "reserved"
    /\ fetch' = IF Reachable(fetch[c].inst)
                THEN [fetch EXCEPT ![c].pc = "queued", ![c].ino = ino, ![c].resume = resume]
                ELSE [fetch EXCEPT ![c] = ReplyOf(@, "DEAD_OBJECT")]
    /\ UNCHANGED <<up, instance, tableVars, content, relayQ, cancelQ, cancels, doomed>>

\* cancel() is oneway: the message is queued, or lost with the process.
SendCancel(i, id) ==
    cancelQ' = IF Reachable(i) THEN Append(cancelQ, id) ELSE cancelQ

-------------------------------------------------------------------------------
(* fetchToFd() *)

Stop(c, result) ==
    /\ fetch' = [fetch EXCEPT ![c] = ResultOf(@, result)]
    /\ UNCHANGED <<up, instance, tableVars, content, relayQ, cancelQ, cancels, doomed>>

Goto(c, pc) ==
    /\ fetch' = [fetch EXCEPT ![c].pc = pc]
    /\ UNCHANGED <<up, instance, tableVars, content, relayQ, cancelQ, cancels, doomed>>

\* Reader reports trouble; past the last chunk, in the trailers, it no longer matters.
Interrupt(c, result) == Stop(c, IF fetch[c].framing = "trailers" THEN "OK" ELSE result)

\* fd < 0: the call is answered before the request table is touched.
RejectSink(c) ==
    /\ fetch[c].pc = "queued" /\ FreeThread
    /\ "sink" \in Faults
    /\ fetch' = [fetch EXCEPT ![c] = ReplyOf(@, "ERROR_WRITE")]
    /\ UNCHANGED <<up, instance, tableVars, content, relayQ, cancelQ, cancels, doomed>>

\* Mutant: a fresh entry replaces the one an early cancel() left.
BeginRequest_fresh(c) ==
    /\ fetch[c].pc = "queued" /\ FreeThread
    /\ mRequests' = [mRequests EXCEPT ![fetch[c].id] = [NewRequest EXCEPT !.running = TRUE]]
    /\ fetch' = [fetch EXCEPT ![c].pc = "begun"]
    /\ UNCHANGED <<up, instance, mNextId, mActiveCount, strings, content, relayQ,
                   cancelQ, cancels, doomed>>

BeginRequest(c) ==
    /\ fetch[c].pc = "queued" /\ FreeThread
    /\ mRequests' = [mRequests EXCEPT ![fetch[c].id] =
                        [(IF @.present THEN @ ELSE NewRequest) EXCEPT !.running = TRUE]]
    /\ fetch' = [fetch EXCEPT ![c].pc = "begun"]
    /\ UNCHANGED <<up, instance, mNextId, mActiveCount, strings, content, relayQ,
                   cancelQ, cancels, doomed>>

CountRequest(c) ==
    /\ fetch[c].pc = "begun"
    /\ mActiveCount' = mActiveCount + 1
    /\ fetch' = [fetch EXCEPT ![c].pc = "hop"]
    /\ UNCHANGED <<up, instance, mNextId, mRequests, strings, content, relayQ,
                   cancelQ, cancels, doomed>>

\* One turn of get()'s redirect loop, up to its reading of the cancel flag.
StartHop(c) ==
    /\ fetch[c].pc = "hop"
    /\ \/ fetch[c].hop > MaxRedirects /\ Stop(c, "ERROR_TOO_LARGE")
       \/ /\ fetch[c].hop <= MaxRedirects
          /\ \/ "url" \in Faults /\ Stop(c, "ERROR_BAD_URL")
             \/ IsCanceled(c) /\ Stop(c, "ERROR_CANCELED")
             \/ ~IsCanceled(c) /\ Goto(c, "connect")

\* The connection is opened and the request sent.  Nothing here reads the flag;
\* a build without TLS takes an https URL for a bad one.
Connect(c) ==
    /\ fetch[c].pc = "connect"
    /\ \/ "connect" \in Faults /\ Stop(c, "ERROR_CONNECT")
       \/ "url" \in Faults /\ Stop(c, "ERROR_BAD_URL")
       \/ "io" \in Faults /\ Stop(c, "ERROR_IO")
       \/ Goto(c, "poll")

\* Mutant: the flag is not read between two reads of the socket.
Poll_blind(c) == fetch[c].pc = "poll" /\ Goto(c, "recv")

\* Reader::fill() reads the cancel flag before every read of the socket.
Poll(c) ==
    /\ fetch[c].pc = "poll"
    /\ \/ IsCanceled(c) /\ Interrupt(c, "ERROR_CANCELED")
       \/ ~IsCanceled(c) /\ Goto(c, "recv")

\* Mutant: the idle time is not added up.
RecvAgain_forever(c) == fetch[c].pc = "recv" /\ "stall" \in Faults /\ Goto(c, "poll")

\* Nothing arrived within the socket timeout.
RecvAgain(c) ==
    /\ fetch[c].pc = "recv"
    /\ "stall" \in Faults
    /\ \/ fetch[c].idle >= MaxIdle /\ Interrupt(c, "ERROR_IO")
       \/ /\ fetch[c].idle < MaxIdle
          /\ fetch' = [fetch EXCEPT ![c].pc = "poll", ![c].idle = @ + 1]
          /\ UNCHANGED <<up, instance, tableVars, content, relayQ, cancelQ, cancels, doomed>>

\* The connection broke, what arrived is not HTTP, or it has too many headers.
RecvFails(c) ==
    /\ fetch[c].pc = "recv"
    /\ "io" \in Faults
    /\ \/ Interrupt(c, "ERROR_IO")
       \/ fetch[c].framing = "none" /\ Stop(c, "ERROR_TOO_LARGE")

\* The peer closed.  EOF is the end of a body that has no other framing.
RecvEof(c) ==
    /\ fetch[c].pc = "recv"
    /\ \/ fetch[c].framing # "eof" /\ "truncate" \in Faults /\ Interrupt(c, "ERROR_IO")
       \/ /\ fetch[c].framing = "eof"
          /\ Remaining(c) = 0 \/ "truncate" \in Faults
          /\ Stop(c, "OK")

\* Lines without a colon among the headers, or trailers: neither has a limit.
RecvJunk(c) ==
    /\ fetch[c].pc = "recv" /\ fetch[c].framing \in {"none", "trailers"}
    /\ Trickles
    /\ fetch' = [fetch EXCEPT ![c].pc = "poll", ![c].idle = 0]
    /\ UNCHANGED <<up, instance, tableVars, content, relayQ, cancelQ, cancels, doomed>>

RecvRedirect(c) ==
    /\ fetch[c].pc = "recv" /\ fetch[c].framing = "none"
    /\ "redirect" \in Faults
    /\ fetch' = [fetch EXCEPT ![c].pc = "hop", ![c].hop = @ + 1, ![c].idle = 0]
    /\ UNCHANGED <<up, instance, tableVars, content, relayQ, cancelQ, cancels, doomed>>

\* A status >= 400, be it a 416 for a range that starts at or after the end.
RecvStatus(c) ==
    /\ fetch[c].pc = "recv" /\ fetch[c].framing = "none"
    /\ \/ "status" \in Faults
       \/ "honoured" \in Ranges /\ fetch[c].resume > 0 /\ fetch[c].resume >= Size
    /\ Stop(c, "ERROR_HTTP_STATUS")

\* The answers of a server to a request for the bytes from resume on: where the
\* body starts and, as Content-Range or Content-Length tell it, the total.
Answers(resume, framing) ==
    (IF resume = 0 \/ "ignored" \in Ranges
     THEN {[start |-> 0, total |-> IF framing = "length" THEN Size ELSE -1]} ELSE {})
    \cup
    (IF 0 < resume /\ resume < Size /\ "honoured" \in Ranges
     THEN {[start |-> resume, total |-> Size], [start |-> resume, total |-> -1]} ELSE {})

\* Mutant: the old content stays when the server sends everything again.
OnHeaders_keep(c, f, a) ==
    LET got == [fetch[c] EXCEPT !.framing = f, !.start = a.start, !.total = a.total, !.idle = 0] IN
    /\ IF f = "length" /\ a.start = Size
       THEN fetch' = [fetch EXCEPT ![c] = ResultOf(got, "OK")]
       ELSE \E pc \in {"poll", "buffered"} : fetch' = [fetch EXCEPT ![c] = [got EXCEPT !.pc = pc]]
    /\ relayQ' = [relayQ EXCEPT ![c] = Append(@, <<"start", a.start, a.total>>)]
    /\ UNCHANGED <<up, instance, tableVars, content, cancelQ, cancels, doomed>>

\* onHeaders: the sink is positioned, a stale prefix dropped, the listener told.
OnHeaders(c, f, a) ==
    LET got == [fetch[c] EXCEPT !.framing = f, !.start = a.start, !.total = a.total, !.idle = 0] IN
    /\ IF f = "length" /\ a.start = Size
       THEN fetch' = [fetch EXCEPT ![c] = ResultOf(got, "OK")]
       ELSE \E pc \in {"poll", "buffered"} : fetch' = [fetch EXCEPT ![c] = [got EXCEPT !.pc = pc]]
    /\ content' = IF a.start = 0 /\ fetch[c].resume > 0
                  THEN [content EXCEPT ![fetch[c].ino] = << >>] ELSE content
    /\ relayQ' = [relayQ EXCEPT ![c] = Append(@, <<"start", a.start, a.total>>)]
    /\ UNCHANGED <<up, instance, tableVars, cancelQ, cancels, doomed>>

\* The headers are complete, and the status is one with a body.
RecvHead(c) ==
    /\ fetch[c].pc = "recv" /\ fetch[c].framing = "none"
    /\ \E f \in Framings : \E a \in Answers(fetch[c].resume, f) : OnHeaders(c, f, a)

\* lseek() or ftruncate() fails in onHeaders.
RefuseHead(c) ==
    /\ fetch[c].pc = "recv" /\ fetch[c].framing = "none"
    /\ "write" \in Faults
    /\ Stop(c, "ERROR_WRITE")

\* onBody: k bytes go to the sink; a report goes out if one is due.
OnBody(c, k) ==
    LET got == [fetch[c] EXCEPT !.written = @ + k, !.idle = 0]
        left == Remaining(c) - k IN
    /\ IF left = 0 /\ fetch[c].framing = "length"
       THEN fetch' = [fetch EXCEPT ![c] = ResultOf(got, "OK")]
       ELSE \E pc \in {"poll", "buffered"} :
               /\ pc = "buffered" => left > 0 \/ fetch[c].framing = "chunked"
               /\ fetch' = [fetch EXCEPT ![c] = [got EXCEPT !.pc = pc]]
    /\ content' = [content EXCEPT ![fetch[c].ino] =
                      Written(@, fetch[c].start + fetch[c].written, k, ResourceOf[c])]
    /\ \/ relayQ' = [relayQ EXCEPT ![c] = Append(@, <<"bytes", got.written, got.total>>)]
       \/ relayQ' = relayQ
    /\ UNCHANGED <<up, instance, tableVars, cancelQ, cancels, doomed>>

RecvBody(c) ==
    /\ fetch[c].pc \in {"recv", "buffered"} /\ fetch[c].framing # "none"
    /\ \E k \in 1..Remaining(c) : OnBody(c, k)

\* writeFully() fails, with k bytes of the buffer already in the file.
WriteFails(c) ==
    /\ fetch[c].pc \in {"recv", "buffered"} /\ fetch[c].framing # "none"
    /\ "write" \in Faults
    /\ \E k \in 0..(Remaining(c) - 1) :
        /\ fetch' = [fetch EXCEPT ![c] = ResultOf(@, "ERROR_WRITE")]
        /\ content' = IF k = 0 THEN content
                      ELSE [content EXCEPT ![fetch[c].ino] =
                              Written(@, fetch[c].start + fetch[c].written, k, ResourceOf[c])]
        /\ UNCHANGED <<up, instance, tableVars, relayQ, cancelQ, cancels, doomed>>

\* The zero-size chunk; trailers and a blank line follow.
RecvLastChunk(c) ==
    /\ fetch[c].pc \in {"recv", "buffered"} /\ fetch[c].framing = "chunked"
    /\ Remaining(c) = 0
    /\ \E pc \in {"poll", "buffered"} :
          fetch' = [fetch EXCEPT ![c].pc = pc, ![c].framing = "trailers", ![c].idle = 0]
    /\ UNCHANGED <<up, instance, tableVars, content, relayQ, cancelQ, cancels, doomed>>

RecvBlankLine(c) ==
    /\ fetch[c].pc \in {"recv", "buffered"} /\ fetch[c].framing = "trailers"
    /\ Stop(c, "OK")

\* Mutant: only a success is counted out.
UncountRequest_ok(c) ==
    /\ fetch[c].pc = "end"
    /\ mActiveCount' = IF fetch[c].result = "OK" THEN mActiveCount - 1 ELSE mActiveCount
    /\ fetch' = [fetch EXCEPT ![c].pc = "ended"]
    /\ UNCHANGED <<up, instance, mNextId, mRequests, strings, content, relayQ,
                   cancelQ, cancels, doomed>>

UncountRequest(c) ==
    /\ fetch[c].pc = "end"
    /\ mActiveCount' = mActiveCount - 1
    /\ fetch' = [fetch EXCEPT ![c].pc = "ended"]
    /\ UNCHANGED <<up, instance, mNextId, mRequests, strings, content, relayQ,
                   cancelQ, cancels, doomed>>

\* Mutant: the entry is left in the table.
EndRequest_leak(c) ==
    /\ fetch[c].pc = "ended"
    /\ fetch' = [fetch EXCEPT ![c] = ReplyOf(@, @.result)]
    /\ UNCHANGED <<up, instance, tableVars, content, relayQ, cancelQ, cancels, doomed>>

\* endRequest(), the last progress report of a success, and the reply.
EndRequest(c) ==
    /\ fetch[c].pc = "ended"
    /\ mRequests' = [mRequests EXCEPT ![fetch[c].id] = NoRequest]
    /\ fetch' = [fetch EXCEPT ![c] = ReplyOf(@, @.result)]
    /\ relayQ' = IF fetch[c].result = "OK"
                 THEN [relayQ EXCEPT ![c] =
                         Append(@, <<"bytes", fetch[c].written, fetch[c].total>>)]
                 ELSE relayQ
    /\ UNCHANGED <<up, instance, mNextId, mActiveCount, strings, content, cancelQ,
                   cancels, doomed>>

-------------------------------------------------------------------------------
(* getString(), cancel(), time, and the life of the process *)

\* getString() passes no cancel function: it parks its thread until it is done.
GetStringBegin ==
    /\ FreeThread /\ strings < MaxStrings
    /\ strings' = strings + 1
    /\ mActiveCount' = mActiveCount + 1
    /\ UNCHANGED <<up, instance, mNextId, mRequests, fetch, content, relayQ, cancelQ,
                   cancels, doomed>>

GetStringEnd ==
    /\ strings > 0
    /\ strings' = strings - 1
    /\ mActiveCount' = mActiveCount - 1
    /\ UNCHANGED <<up, instance, mNextId, mRequests, fetch, content, relayQ, cancelQ,
                   cancels, doomed>>

\* Mutant: the sweep does not ask whether a transfer is running.
Stale_any(r) == r.expired

\* Dropped when the table is searched for an id that is not there.
Stale(r) == ~r.running /\ r.expired

CancelHandler ==
    /\ cancelQ # << >> /\ FreeThread
    /\ LET id == Head(cancelQ) IN
        /\ mRequests' =
            IF mRequests[id].present THEN [mRequests EXCEPT ![id].canceled = TRUE]
            ELSE [i \in Ids |-> IF i = id THEN [NewRequest EXCEPT !.canceled = TRUE]
                                ELSE IF Stale(mRequests[i]) THEN NoRequest ELSE mRequests[i]]
        /\ doomed' = doomed \cup {c \in Calls : /\ fetch[c].id = id /\ fetch[c].inst = instance
                                                /\ fetch[c].pc \in {"reserved", "queued"}}
    /\ cancelQ' = Tail(cancelQ)
    /\ UNCHANGED <<up, instance, mNextId, mActiveCount, strings, fetch, content, relayQ,
                   cancels>>

\* kStaleRequestMs pass for an id nobody has claimed.
Expire(id) ==
    /\ Expires
    /\ mRequests[id].present /\ ~mRequests[id].running /\ ~mRequests[id].expired
    /\ mRequests' = [mRequests EXCEPT ![id].expired = TRUE]
    /\ UNCHANGED <<up, instance, mNextId, mActiveCount, strings, fetch, content, relayQ,
                   cancelQ, cancels, doomed>>

\* The process dies: its callers get DEAD_OBJECT, its inbox is gone; what it
\* already sent to a progress callback is still delivered.
Crash ==
    /\ up /\ instance <= MaxCrashes
    /\ up' = FALSE
    /\ mRequests' = [i \in Ids |-> NoRequest]
    /\ mActiveCount' = 0
    /\ strings' = 0
    /\ fetch' = [c \in Calls |->
                    IF fetch[c].pc \in ServedPcs \cup {"queued"}
                    THEN ReplyOf(fetch[c], "DEAD_OBJECT")
                    ELSE fetch[c]]
    /\ cancelQ' = << >>
    /\ UNCHANGED <<instance, mNextId, content, relayQ, cancels, doomed>>

\* Mutant: the ids of a new process start at 0.
Restart_zero ==
    /\ ~up
    /\ up' = TRUE
    /\ instance' = instance + 1
    /\ mNextId' = 0
    /\ UNCHANGED <<mRequests, mActiveCount, strings, fetch, content, relayQ, cancelQ,
                   cancels, doomed>>

\* A new process: the ids start over.
Restart ==
    /\ ~up
    /\ up' = TRUE
    /\ instance' = instance + 1
    /\ mNextId' = 1
    /\ UNCHANGED <<mRequests, mActiveCount, strings, fetch, content, relayQ, cancelQ,
                   cancels, doomed>>

-------------------------------------------------------------------------------
(* The steps of the binder thread that serves call c, and of the process *)

Transfer(c) ==
    \/ CountRequest(c) \/ StartHop(c) \/ Connect(c) \/ Poll(c)
    \/ RecvAgain(c) \/ RecvFails(c) \/ RecvEof(c) \/ RecvJunk(c)
    \/ RecvRedirect(c) \/ RecvStatus(c) \/ RecvHead(c) \/ RefuseHead(c)
    \/ RecvBody(c) \/ WriteFails(c) \/ RecvLastChunk(c) \/ RecvBlankLine(c)
    \/ UncountRequest(c) \/ EndRequest(c)

Accept(c) == BeginRequest(c) \/ RejectSink(c)

HttpProcess ==
    \/ \E c \in Calls : Accept(c) \/ Transfer(c)
    \/ GetStringBegin \/ GetStringEnd
    \/ CancelHandler
    \/ \E id \in Ids : Expire(id)
    \/ Crash \/ Restart

-------------------------------------------------------------------------------
(* Properties *)

Transfers ==
    [pc : FetchPcs, id : Ids \cup {0}, inst : Nat, ino : Inodes \cup {NoInode},
     resume : Nat, start : Nat, total : Int, written : Nat,
     framing : {"length", "chunked", "eof", "trailers", "none"}, hop : Nat, idle : Nat, result : Results]

\* Every variable has its type.
HttpTypeOK ==
    /\ up \in BOOLEAN
    /\ instance \in Nat
    /\ mNextId \in 1..(MaxId + 1)
    /\ mRequests \in [Ids -> Requests]
    /\ mActiveCount \in Int
    /\ strings \in Nat
    /\ fetch \in [Calls -> Transfers]
    /\ content \in [Inodes -> Seq(Bytes)]
    /\ DOMAIN relayQ = Calls
    /\ cancelQ \in Seq(Ids)
    /\ cancels \in Nat
    /\ doomed \subseteq Calls

\* Two calls whose ids the running instance handed out never share an id, and
\* every id in use was handed out: mRequests has one entry per request.
IdsUnique ==
    \A c \in Calls :
        fetch[c].inst = instance =>
            /\ fetch[c].id \in 1..(mNextId - 1)
            /\ \A d \in Calls \ {c} : fetch[d].inst = instance => fetch[d].id # fetch[c].id

\* While a handler serves a call its entry is in the table and marked running,
\* so that cancel() finds it and no sweep of cancel() drops it.
FetchRegistered ==
    \A c \in Served :
        /\ Reachable(fetch[c].inst)
        /\ mRequests[fetch[c].id].present /\ mRequests[fetch[c].id].running

\* An entry marked running belongs to a handler: a running entry never leaks.
RunningOwned ==
    \A id \in Ids : mRequests[id].running => \E c \in Served : fetch[c].id = id

\* getActiveRequestCount() is the number of transfers and getString()s under way.
ActiveCountExact ==
    mActiveCount = Cardinality(Counted) + strings

\* A call whose cancel() was handled before beginRequest() is dead on arrival:
\* it never opens a connection, let alone writes to the sink.
DeadOnArrival ==
    \A c \in doomed : fetch[c].pc \notin {"connect", "poll", "recv", "buffered"} /\ fetch[c].result # "OK"

\* When fetchToFd() is about to report success, the file is the whole resource,
\* whatever was cancelled, refused, resumed or cut short on the way.
OkMeansWhole ==
    \A c \in Calls :
        fetch[c].pc \in {"end", "ended"} /\ fetch[c].result = "OK" => content[fetch[c].ino] = Whole(c)
===============================================================================
