-------------------------- MODULE DownloadFiles_proofs --------------------------
(***************************************************************************)
(* The files of the download service, for any number of tasks, paths,      *)
(* cancels and deaths of the http service: who may write which file, what  *)
(* a .part holds while a transfer writes to it, what is at a destination   *)
(* path, and with it the promise of DownloadSpec; then its byte counts, in *)
(* any order in which the relay's messages and the reply to fetchToFd()    *)
(* arrive.                                                                 *)
(***************************************************************************)
EXTENDS DownloadService_proofs

USE DEF Tasks

-------------------------------------------------------------------------------
(* The steps of a worker, field by field *)

\* The worker's steps on the two paths, its last step, and enqueue().
PathShape(t) ==
    LET s == task[t]
        g == task'[t]
        d == DestOf[t]
    IN  /\ g \in TaskRecs /\ g.canceled = s.canceled /\ g.outcome = s.outcome
        /\ g.downloaded = s.downloaded /\ g.resumedFrom = s.resumedFrom /\ g.total = s.total
        /\ g.resume = s.resume /\ g.onDisk = s.onDisk
        /\ \A u \in Tasks \ {t} : task'[u] = task[u]
        /\ \/ /\ s.pc = "none" /\ g.pc = "start" /\ g.state = "PENDING" /\ g.ino = s.ino
              /\ part' = part /\ dest' = dest
              /\ Exclusive => \A u \in Tasks \ {t} :
                    DestOf[u] = d => task[u].state = "UNKNOWN" \/ isTerminal(task[u].state)
           \/ /\ s.pc = "open" /\ g.pc = "lookup" /\ g.state = s.state
              /\ g.ino = (IF part[d] = NoInode THEN t ELSE part[d])
              /\ part' = [part EXCEPT ![d] = g.ino] /\ dest' = dest
           \/ /\ s.pc = "rename" /\ g.pc = "size" /\ g.state = s.state /\ g.ino = s.ino
              /\ part[d] # NoInode
              /\ part' = [part EXCEPT ![d] = NoInode] /\ dest' = [dest EXCEPT ![d] = part[d]]
           \/ /\ s.pc = "unlink" /\ g.pc = "finish" /\ g.state = s.state /\ g.ino = s.ino
              /\ part' = [part EXCEPT ![d] = NoInode] /\ dest' = dest
           \/ /\ s.pc = "report" /\ g.pc = "done" /\ g.state = s.state
              /\ part' = part /\ dest' = dest

\* They have that shape.
LEMMA PathShapes ==
    ASSUME DlInv, NEW t \in Tasks,
           Enqueue(t) \/ OpenPart(t) \/ Rename(t) \/ UnlinkPart(t) \/ Report(t)
    PROVE  PathShape(t) /\ UNCHANGED <<fetch, content, relayQ, mRequests, cancelQ>>
<1> DEFINE s == task[t]
           d == DestOf[t]
<1>0. task \in [Tasks -> TaskRecs] /\ s \in TaskRecs /\ task'[t] \in TaskRecs
  BY PathStepInv DEF DlInv, ControlInv, DlTyped
<1>1. UNCHANGED <<fetch, content, relayQ, mRequests, cancelQ>>
  BY DEF Enqueue, OpenPart, Rename, UnlinkPart, Report, httpVars
<1>2. \A u \in Tasks \ {t} : task'[u] = task[u]
  BY <1>0 DEF Enqueue, OpenPart, Rename, UnlinkPart, Report
<1>3. CASE Enqueue(t)
  <2>1. /\ s.pc = "none" /\ task'[t] = [s EXCEPT !.state = "PENDING", !.pc = "start"]
        /\ UNCHANGED <<part, dest>>
        /\ Exclusive => \A u \in Tasks \ {t} :
              DestOf[u] = d => task[u].state = "UNKNOWN" \/ isTerminal(task[u].state)
    BY <1>0, <1>3 DEF Enqueue
  <2>2. /\ task'[t].pc = "start" /\ task'[t].state = "PENDING" /\ task'[t].ino = s.ino
        /\ task'[t].canceled = s.canceled /\ task'[t].outcome = s.outcome /\ task'[t].total = s.total
        /\ task'[t].downloaded = s.downloaded /\ task'[t].resumedFrom = s.resumedFrom
        /\ task'[t].resume = s.resume /\ task'[t].onDisk = s.onDisk
    BY <1>0, <2>1 DEF TaskRecs
  <2> QED BY <1>0, <1>1, <1>2, <2>1, <2>2 DEF PathShape
<1>4. CASE OpenPart(t)
  <2> DEFINE ino == IF part[d] = NoInode THEN t ELSE part[d]
  <2>1. /\ s.pc = "open" /\ task'[t] = [s EXCEPT !.pc = "lookup", !.ino = ino]
        /\ part' = [part EXCEPT ![d] = ino] /\ dest' = dest
    BY <1>0, <1>4 DEF OpenPart
  <2> HIDE DEF ino
  <2>2. /\ task'[t].pc = "lookup" /\ task'[t].state = s.state /\ task'[t].ino = ino
        /\ task'[t].canceled = s.canceled /\ task'[t].outcome = s.outcome /\ task'[t].total = s.total
        /\ task'[t].downloaded = s.downloaded /\ task'[t].resumedFrom = s.resumedFrom
        /\ task'[t].resume = s.resume /\ task'[t].onDisk = s.onDisk
    BY <1>0, <2>1 DEF TaskRecs
  <2> QED BY <1>0, <1>1, <1>2, <2>1, <2>2 DEF PathShape, ino
<1>5. CASE Rename(t) \/ UnlinkPart(t)
  <2>1. \/ /\ s.pc = "rename" /\ task'[t] = [s EXCEPT !.pc = "size"] /\ part[d] # NoInode
           /\ part' = [part EXCEPT ![d] = NoInode] /\ dest' = [dest EXCEPT ![d] = part[d]]
        \/ /\ s.pc = "unlink" /\ task'[t] = [s EXCEPT !.pc = "finish"]
           /\ part' = [part EXCEPT ![d] = NoInode] /\ dest' = dest
    BY <1>0, <1>5 DEF Rename, UnlinkPart
  <2>2. /\ task'[t].pc = (IF s.pc = "rename" THEN "size" ELSE "finish")
        /\ task'[t].state = s.state /\ task'[t].ino = s.ino
        /\ task'[t].canceled = s.canceled /\ task'[t].outcome = s.outcome /\ task'[t].total = s.total
        /\ task'[t].downloaded = s.downloaded /\ task'[t].resumedFrom = s.resumedFrom
        /\ task'[t].resume = s.resume /\ task'[t].onDisk = s.onDisk
    BY <1>0, <2>1 DEF TaskRecs
  <2> QED BY <1>0, <1>1, <1>2, <2>1, <2>2 DEF PathShape
<1>6. CASE Report(t)
  <2>1. /\ s.pc = "report" /\ UNCHANGED <<part, dest>>
        /\ task'[t] = [s EXCEPT !.pc = "done", !.ino = NoInode, !.http = 0]
    BY <1>0, <1>6 DEF Report
  <2>2. /\ task'[t].pc = "done" /\ task'[t].state = s.state
        /\ task'[t].canceled = s.canceled /\ task'[t].outcome = s.outcome /\ task'[t].total = s.total
        /\ task'[t].downloaded = s.downloaded /\ task'[t].resumedFrom = s.resumedFrom
        /\ task'[t].resume = s.resume /\ task'[t].onDisk = s.onDisk
    BY <1>0, <2>1 DEF TaskRecs
  <2> QED BY <1>0, <1>1, <1>2, <2>1, <2>2 DEF PathShape
<1> QED BY <1>3, <1>4, <1>5, <1>6

\* The worker's calls to the http service.
CallShape(t) ==
    LET s == task[t]
        g == task'[t]
        f == fetch[t]
    IN  /\ g \in TaskRecs /\ g.canceled = s.canceled /\ g.state = s.state /\ g.ino = s.ino
        /\ g.resume = s.resume /\ g.resumedFrom = s.resumedFrom /\ g.total = s.total /\ g.downloaded = s.downloaded
        /\ g.pc # "store" => g.onDisk = s.onDisk
        /\ \A u \in Tasks \ {t} : task'[u] = task[u] /\ fetch'[u] = fetch[u]
        /\ \/ /\ s.pc \in {"lookup", "polling"} /\ g.pc \in {"polling", "newId"} /\ g.outcome = s.outcome
              /\ fetch'[t] = f
           \/ /\ s.pc \in {"polling", "newId"} /\ g.pc = "fail" /\ g.outcome = "FAILED"
              /\ fetch'[t] = f
           \/ /\ s.pc = "newId" /\ g.pc = "publish" /\ g.outcome = s.outcome
              /\ f.pc = "none" /\ fetch'[t] = [f EXCEPT !.pc = "reserved", !.id = fetch'[t].id, !.inst = fetch'[t].inst]
           \/ /\ s.pc = "call" /\ g.pc = "fetching" /\ g.outcome = s.outcome
              /\ f.pc = "reserved"
              /\ \/ fetch'[t] = [f EXCEPT !.pc = "queued", !.ino = s.ino, !.resume = s.resume]
                 \/ fetch'[t] = ReplyOf(f, "DEAD_OBJECT")
           \/ /\ s.pc = "fetching" /\ f.pc = "replied" /\ fetch'[t] = f
              /\ \/ /\ f.result = "OK" /\ g.pc = "store" /\ g.outcome = s.outcome
                    /\ g.onDisk = s.resumedFrom + f.written
                 \/ /\ f.result # "OK" /\ (s.canceled \/ f.result = "ERROR_CANCELED")
                    /\ g.pc = "finish" /\ g.outcome = "CANCELED"
                 \/ /\ f.result # "OK" /\ g.pc = "fail" /\ g.outcome = "FAILED"

\* They have that shape.
LEMMA CallShapes ==
    ASSUME DlInv, NEW t \in Tasks,
           WorkerLookup(t) \/ ReserveId(t) \/ ReserveIdFails(t) \/ CallFetch(t) \/ FetchReturns(t)
    PROVE  CallShape(t) /\ UNCHANGED <<content, relayQ, part, dest, mRequests, cancelQ>>
<1> DEFINE s == task[t]
           g == task'[t]
           f == fetch[t]
           Same == /\ g.canceled = s.canceled /\ g.state = s.state /\ g.ino = s.ino
                   /\ g.resume = s.resume /\ g.resumedFrom = s.resumedFrom /\ g.total = s.total
                   /\ g.downloaded = s.downloaded
<1>0. /\ task \in [Tasks -> TaskRecs] /\ s \in TaskRecs /\ g \in TaskRecs
      /\ fetch \in [Calls -> Transfers] /\ f \in Transfers
  BY CallStepInv DEF DlInv, ControlInv, DlTyped, HttpInv, HttpTypeOK
<1>1. UNCHANGED <<content, relayQ, part, dest, mRequests, cancelQ>>
  BY DEF WorkerLookup, ReserveId, ReserveIdFails, CallFetch, FetchReturns, NewRequestId, FetchToFd, httpVars, tableVars
<1>2. \A u \in Tasks \ {t} : task'[u] = task[u] /\ fetch'[u] = fetch[u]
  <2>1. \A u \in Tasks \ {t} : task'[u] = task[u]
    BY <1>0 DEF WorkerLookup, ReserveId, ReserveIdFails, CallFetch, FetchReturns
  <2>2. \A u \in Tasks \ {t} : fetch'[u] = fetch[u]
    <3>1. CASE WorkerLookup(t) \/ ReserveIdFails(t) \/ FetchReturns(t)
      BY <3>1 DEF WorkerLookup, ReserveIdFails, FetchReturns, httpVars
    <3>2. CASE ReserveId(t)
      BY <1>0, <3>2 DEF ReserveId, NewRequestId
    <3>3. CASE CallFetch(t)
      BY <1>0, <3>3 DEF CallFetch, FetchToFd
    <3> QED BY <3>1, <3>2, <3>3
  <2> QED BY <2>1, <2>2
<1>3. CASE WorkerLookup(t)
  <2>1. fetch' = fetch
    BY <1>3 DEF WorkerLookup, httpVars
  <2>2. \/ s.pc \in {"lookup", "polling"} /\ \E n : g = [s EXCEPT !.pc = "newId", !.http = n]
        \/ s.pc = "lookup" /\ g = [s EXCEPT !.pc = "polling"]
        \/ s.pc = "polling" /\ g = Failed(s, "ERROR_HTTP_SERVICE")
    BY <1>0, <1>3 DEF WorkerLookup
  <2>3. /\ Same /\ g.onDisk = s.onDisk
        /\ \/ s.pc \in {"lookup", "polling"} /\ g.pc \in {"polling", "newId"} /\ g.outcome = s.outcome
           \/ s.pc = "polling" /\ g.pc = "fail" /\ g.outcome = "FAILED"
    <3>1. CASE s.pc \in {"lookup", "polling"} /\ \E n : g = [s EXCEPT !.pc = "newId", !.http = n]
      BY <1>0, <3>1 DEF TaskRecs
    <3>2. CASE s.pc = "lookup" /\ g = [s EXCEPT !.pc = "polling"]
      BY <1>0, <3>2 DEF TaskRecs
    <3>3. CASE s.pc = "polling" /\ g = Failed(s, "ERROR_HTTP_SERVICE")
      BY <1>0, <3>3 DEF TaskRecs, Failed
    <3> QED BY <2>2, <3>1, <3>2, <3>3
  <2> QED BY <1>0, <1>1, <1>2, <2>1, <2>3 DEF CallShape
<1>4. CASE ReserveIdFails(t)
  <2>1. fetch' = fetch /\ s.pc = "newId" /\ g = Failed(s, "ERROR_HTTP_SERVICE")
    BY <1>0, <1>4 DEF ReserveIdFails, httpVars
  <2>2. Same /\ g.onDisk = s.onDisk /\ g.pc = "fail" /\ g.outcome = "FAILED"
    BY <1>0, <2>1 DEF TaskRecs, Failed
  <2> QED BY <1>0, <1>1, <1>2, <2>1, <2>2 DEF CallShape
<1>5. CASE ReserveId(t)
  <2>1. /\ s.pc = "newId" /\ g = [s EXCEPT !.pc = "publish"] /\ f.pc = "none"
        /\ fetch'[t] = [f EXCEPT !.pc = "reserved", !.id = mNextId, !.inst = instance]
    <3>1. /\ fetch' = [fetch EXCEPT ![t] = [fetch[t] EXCEPT !.pc = "reserved", !.id = mNextId, !.inst = instance]]
          /\ f.pc = "none"
      BY <1>5 DEF ReserveId, NewRequestId
    <3>2. s.pc = "newId" /\ task' = [task EXCEPT ![t] = [task[t] EXCEPT !.pc = "publish"]]
      BY <1>5 DEF ReserveId
    <3> QED BY <1>0, <3>1, <3>2
  <2>2. Same /\ g.onDisk = s.onDisk /\ g.pc = "publish" /\ g.outcome = s.outcome
    BY <1>0, <2>1 DEF TaskRecs
  <2>3. fetch'[t].id = mNextId /\ fetch'[t].inst = instance
    BY <1>0, <2>1 DEF Transfers
  <2>4. fetch'[t] = [f EXCEPT !.pc = "reserved", !.id = fetch'[t].id, !.inst = fetch'[t].inst]
    BY <2>1, <2>3
  <2> QED BY <1>0, <1>1, <1>2, <2>1, <2>2, <2>4 DEF CallShape
<1>6. CASE CallFetch(t)
  <2>1. /\ s.pc = "call" /\ g = [s EXCEPT !.pc = "fetching"] /\ f.pc = "reserved"
        /\ \/ fetch'[t] = [f EXCEPT !.pc = "queued", !.ino = s.ino, !.resume = s.resume]
           \/ fetch'[t] = ReplyOf(f, "DEAD_OBJECT")
    <3>1. /\ f.pc = "reserved"
          /\ \/ fetch' = [fetch EXCEPT ![t] = [fetch[t] EXCEPT !.pc = "queued", !.ino = task[t].ino,
                                                              !.resume = task[t].resume]]
             \/ fetch' = [fetch EXCEPT ![t] = ReplyOf(fetch[t], "DEAD_OBJECT")]
      BY <1>6 DEF CallFetch, FetchToFd
    <3>2. s.pc = "call" /\ task' = [task EXCEPT ![t] = [task[t] EXCEPT !.pc = "fetching"]]
      BY <1>6 DEF CallFetch
    <3> QED BY <1>0, <3>1, <3>2
  <2>2. Same /\ g.onDisk = s.onDisk /\ g.pc = "fetching" /\ g.outcome = s.outcome
    BY <1>0, <2>1 DEF TaskRecs
  <2> QED BY <1>0, <1>1, <1>2, <2>1, <2>2 DEF CallShape
<1>7. CASE FetchReturns(t)
  <2>1. s.pc = "fetching" /\ f.pc = "replied" /\ fetch' = fetch
    BY <1>7 DEF FetchReturns, httpVars
  <2>2. CASE f.result = "OK"
    <3> DEFINE n == s.resumedFrom + f.written
    <3>1. g = [s EXCEPT !.pc = "store", !.onDisk = n]
      BY <1>0, <1>7, <2>2 DEF FetchReturns
    <3> HIDE DEF n
    <3>2. Same /\ g.onDisk = n /\ g.pc = "store" /\ g.outcome = s.outcome
      BY <1>0, <3>1 DEF TaskRecs
    <3> QED BY <1>0, <1>1, <1>2, <2>1, <2>2, <3>2 DEF CallShape, n
  <2>3. CASE f.result # "OK"
    <3>1. \/ (s.canceled \/ f.result = "ERROR_CANCELED") /\ g = Canceled(s)
          \/ \E error : g = Failed(s, error)
      BY <1>0, <1>7, <2>3 DEF FetchReturns
    <3>2. /\ Same /\ g.onDisk = s.onDisk
          /\ \/ /\ s.canceled \/ f.result = "ERROR_CANCELED"
                /\ g.pc = "finish" /\ g.outcome = "CANCELED"
             \/ g.pc = "fail" /\ g.outcome = "FAILED"
      BY <1>0, <3>1 DEF TaskRecs, Failed, Canceled
    <3> QED BY <1>0, <1>1, <1>2, <2>1, <2>3, <3>2 DEF CallShape
  <2> QED BY <2>2, <2>3
<1> QED BY <1>3, <1>4, <1>5, <1>6, <1>7

-------------------------------------------------------------------------------
(* The steps of the transport, by kind *)

\* The transport goes on; nothing is written and nothing is told.
Strolls(c) ==
    LET f == fetch[c]
        g == fetch'[c]
    IN  /\ UNCHANGED <<content, relayQ>>
        /\ g.written = f.written /\ g.start = f.start /\ g.total = f.total /\ g.result = f.result
        /\ g.ino = f.ino /\ g.resume = f.resume
        /\ \/ /\ g.framing = f.framing
              /\ \/ f.pc = "hop" /\ g.pc = "connect"
                 \/ f.pc \in {"connect", "recv"} /\ g.pc = "poll"
                 \/ f.pc = "poll" /\ g.pc = "recv"
                 \/ f.pc = "recv" /\ f.framing = "none" /\ g.pc = "hop"
           \/ /\ f.framing = "chunked" /\ Remaining(c) = 0 /\ g.framing = "trailers"
              /\ f.pc \in {"recv", "buffered"} /\ g.pc \in {"poll", "buffered"}

\* It returns; a success only at the end of the body, as the framing tells it.
Stops(c) ==
    /\ UNCHANGED <<content, relayQ>>
    /\ \E r \in Results \ {"DEAD_OBJECT", "none"} :
        /\ fetch'[c] = ResultOf(fetch[c], r)
        /\ r = "OK" => \/ fetch[c].framing = "trailers"
                       \/ fetch[c].framing = "eof" /\ (Remaining(c) = 0 \/ "truncate" \in Faults)

\* Otherwise it has the headers or a piece of the body.
LEMMA TransportKinds ==
    ASSUME HttpTypeOK, NEW c \in Calls, Transport(c)
    PROVE  Strolls(c) \/ Stops(c) \/ RecvHead(c) \/ RecvBody(c) \/ WriteFails(c)
<1> DEFINE f == fetch[c]
           g == fetch'[c]
<1>0. fetch \in [Calls -> Transfers] /\ f \in Transfers
  BY DEF HttpTypeOK
<1>1. ASSUME NEW r \in Results \ {"DEAD_OBJECT", "none"}, Stop(c, r),
             r = "OK" => \/ fetch[c].framing = "trailers"
                         \/ fetch[c].framing = "eof" /\ (Remaining(c) = 0 \/ "truncate" \in Faults)
      PROVE  Stops(c)
  BY <1>0, <1>1 DEF Stop, Stops
<1>2. ASSUME NEW r \in Results \ {"DEAD_OBJECT", "none", "OK"}, Stop(c, r) \/ Interrupt(c, r)
      PROVE  Stops(c)
  <2>1. "OK" \in Results
    BY DEF Results
  <2> QED BY <1>1, <1>2, <2>1 DEF Interrupt
<1>3. ASSUME NEW pc, Goto(c, pc)
      PROVE  /\ UNCHANGED <<content, relayQ>>
             /\ g.written = f.written /\ g.start = f.start /\ g.total = f.total /\ g.result = f.result
             /\ g.ino = f.ino /\ g.resume = f.resume /\ g.framing = f.framing /\ g.pc = pc
  <2>1. g = [f EXCEPT !.pc = pc]
    BY <1>0, <1>3 DEF Goto
  <2> QED BY <1>0, <1>3, <2>1 DEF Goto, Transfers
<1>4. {"ERROR_BAD_URL", "ERROR_CONNECT", "ERROR_IO", "ERROR_HTTP_STATUS", "ERROR_CANCELED", "ERROR_WRITE",
       "ERROR_TOO_LARGE"} \subseteq Results \ {"DEAD_OBJECT", "none", "OK"} /\ "OK" \in Results
  BY DEF Results
<1>5. CASE StartHop(c)
  <2>1. f.pc = "hop" /\ (Goto(c, "connect") \/ \E r \in Results \ {"DEAD_OBJECT", "none", "OK"} : Stop(c, r))
    BY <1>4, <1>5 DEF StartHop
  <2> QED BY <1>2, <1>3, <2>1 DEF Strolls
<1>6. CASE Connect(c)
  <2>1. f.pc = "connect" /\ (Goto(c, "poll") \/ \E r \in Results \ {"DEAD_OBJECT", "none", "OK"} : Stop(c, r))
    BY <1>4, <1>6 DEF Connect
  <2> QED BY <1>2, <1>3, <2>1 DEF Strolls
<1>7. CASE Poll(c)
  <2>1. f.pc = "poll" /\ (Goto(c, "recv") \/ Interrupt(c, "ERROR_CANCELED"))
    BY <1>7 DEF Poll
  <2> QED BY <1>2, <1>3, <1>4, <2>1 DEF Strolls
<1>8. CASE RecvAgain(c)
  <2>1. CASE Interrupt(c, "ERROR_IO")
    BY <1>2, <1>4, <2>1
  <2>2. CASE ~Interrupt(c, "ERROR_IO")
    <3>1. g = [f EXCEPT !.pc = "poll", !.idle = f.idle + 1] /\ f.pc = "recv" /\ UNCHANGED <<content, relayQ>>
      BY <1>0, <1>8, <2>2 DEF RecvAgain
    <3> QED BY <1>0, <3>1 DEF Strolls, Transfers
  <2> QED BY <2>1, <2>2
<1>9. CASE RecvFails(c) \/ RecvStatus(c) \/ RefuseHead(c)
  <2>1. \E r \in Results \ {"DEAD_OBJECT", "none", "OK"} : Stop(c, r) \/ Interrupt(c, r)
    BY <1>4, <1>9 DEF RecvFails, RecvStatus, RefuseHead
  <2> QED BY <1>2, <2>1
<1>10. CASE RecvEof(c)
  BY <1>1, <1>2, <1>4, <1>10 DEF RecvEof
<1>11. CASE RecvBlankLine(c)
  BY <1>1, <1>4, <1>11 DEF RecvBlankLine
<1>12. CASE RecvJunk(c)
  <2>1. g = [f EXCEPT !.pc = "poll", !.idle = 0] /\ f.pc = "recv" /\ UNCHANGED <<content, relayQ>>
    BY <1>0, <1>12 DEF RecvJunk
  <2> QED BY <1>0, <2>1 DEF Strolls, Transfers
<1>13. CASE RecvRedirect(c)
  <2>1. /\ g = [f EXCEPT !.pc = "hop", !.hop = f.hop + 1, !.idle = 0] /\ f.pc = "recv" /\ f.framing = "none"
        /\ UNCHANGED <<content, relayQ>>
    BY <1>0, <1>13 DEF RecvRedirect
  <2> QED BY <1>0, <2>1 DEF Strolls, Transfers
<1>14. CASE RecvLastChunk(c)
  <2>1. PICK pc \in {"poll", "buffered"} : g = [f EXCEPT !.pc = pc, !.framing = "trailers", !.idle = 0]
    BY <1>0, <1>14 DEF RecvLastChunk
  <2>2. f.pc \in {"recv", "buffered"} /\ f.framing = "chunked" /\ Remaining(c) = 0 /\ UNCHANGED <<content, relayQ>>
    BY <1>14 DEF RecvLastChunk
  <2> QED BY <1>0, <2>1, <2>2 DEF Strolls, Transfers
<1> QED BY <1>5, <1>6, <1>7, <1>8, <1>9, <1>10, <1>11, <1>12, <1>13, <1>14 DEF Transport

\* The headers are in: where the body starts, and what becomes of the sink.
HeadShape(c, fr, a) ==
    LET f == fetch[c]
        g == fetch'[c]
    IN  /\ f.pc = "recv" /\ f.framing = "none"
        /\ g.start = a.start /\ g.total = a.total /\ g.written = f.written
        /\ g.ino = f.ino /\ g.resume = f.resume
        /\ \/ fr = "length" /\ a.start = Size /\ g.pc = "end" /\ g.framing = "none" /\ g.result = "OK"
           \/ /\ ~(fr = "length" /\ a.start = Size)
              /\ g.pc \in {"poll", "buffered"} /\ g.framing = fr /\ g.result = f.result
        /\ content' = IF a.start = 0 /\ f.resume > 0 THEN [content EXCEPT ![f.ino] = << >>] ELSE content
        /\ relayQ' = [relayQ EXCEPT ![c] = Append(relayQ[c], <<"start", a.start, a.total>>)]

\* What a server can answer.
LEMMA AnswersAre ==
    ASSUME NEW resume \in Nat, NEW fr, NEW a \in Answers(resume, fr)
    PROVE  /\ a.start \in Nat /\ a.start <= Size /\ a.total \in {-1, Size} /\ a.total \in Int
           /\ a.start = 0 \/ (a.start = resume /\ resume > 0)
BY SizeAssumption DEF Answers

\* RecvHead has that shape.
LEMMA HeadShapes ==
    ASSUME HttpTypeOK, NEW c \in Calls, RecvHead(c)
    PROVE  \E fr \in Framings : \E a \in Answers(fetch[c].resume, fr) : HeadShape(c, fr, a)
<1>0. fetch \in [Calls -> Transfers] /\ fetch[c] \in Transfers /\ fetch[c].resume \in Nat
  BY DEF HttpTypeOK, Transfers
<1>1. PICK fr \in Framings : \E a \in Answers(fetch[c].resume, fr) : OnHeaders(c, fr, a)
  BY DEF RecvHead
<1>2. PICK a \in Answers(fetch[c].resume, fr) : OnHeaders(c, fr, a)
  BY <1>1
<1> DEFINE g == fetch'[c]
           m == a.start
           n == a.total
           got == [fetch[c] EXCEPT !.framing = fr, !.start = m, !.total = n, !.idle = 0]
<1>3. /\ m \in Nat /\ n \in Int /\ fr \in {"length", "chunked", "eof", "trailers", "none"}
  BY <1>0, AnswersAre, ChoiceAssumption
<1>4. /\ fetch[c].pc = "recv" /\ fetch[c].framing = "none"
      /\ content' = IF m = 0 /\ fetch[c].resume > 0 THEN [content EXCEPT ![fetch[c].ino] = << >>] ELSE content
      /\ relayQ' = [relayQ EXCEPT ![c] = Append(relayQ[c], <<"start", m, n>>)]
  BY <1>2 DEF RecvHead, OnHeaders
<1>5. \/ fr = "length" /\ m = Size /\ g = ResultOf(got, "OK")
      \/ ~(fr = "length" /\ m = Size) /\ \E pc \in {"poll", "buffered"} : g = [got EXCEPT !.pc = pc]
  BY <1>0, <1>2 DEF OnHeaders
<1> HIDE DEF m, n
<1>6. /\ got \in Transfers /\ got.framing = fr /\ got.start = m /\ got.total = n /\ got.written = fetch[c].written
      /\ got.ino = fetch[c].ino /\ got.resume = fetch[c].resume /\ got.result = fetch[c].result
  BY <1>0, <1>3 DEF Transfers
<1> HIDE DEF got
<1>7. /\ g.start = m /\ g.total = n /\ g.written = fetch[c].written
      /\ g.ino = fetch[c].ino /\ g.resume = fetch[c].resume
      /\ \/ fr = "length" /\ m = Size /\ g.pc = "end" /\ g.framing = "none" /\ g.result = "OK"
         \/ /\ ~(fr = "length" /\ m = Size)
            /\ g.pc \in {"poll", "buffered"} /\ g.framing = fr /\ g.result = fetch[c].result
  <2>1. CASE fr = "length" /\ m = Size /\ g = ResultOf(got, "OK")
    BY <1>6, <2>1 DEF ResultOf, Transfers
  <2>2. CASE ~(fr = "length" /\ m = Size) /\ \E pc \in {"poll", "buffered"} : g = [got EXCEPT !.pc = pc]
    BY <1>6, <2>2 DEF Transfers
  <2> QED BY <1>5, <2>1, <2>2
<1>8. HeadShape(c, fr, a)
  BY <1>4, <1>7 DEF HeadShape, m, n
<1> QED BY <1>8

\* A piece of the body: k bytes are written behind the ones before.
BodyShape(c, k) ==
    LET f == fetch[c]
        g == fetch'[c]
        w == f.written + k
    IN  /\ f.pc \in {"recv", "buffered"} /\ f.framing # "none"
        /\ k \in 1..Remaining(c)
        /\ g.start = f.start /\ g.total = f.total /\ g.written = w /\ g.ino = f.ino /\ g.resume = f.resume
        /\ \/ /\ f.framing = "length" /\ Remaining(c) = k
              /\ g.pc = "end" /\ g.framing = "none" /\ g.result = "OK"
           \/ g.pc \in {"poll", "buffered"} /\ g.framing = f.framing /\ g.result = f.result
        /\ content' = [content EXCEPT ![f.ino] = Written(content[f.ino], f.start + f.written, k, ResourceOf[c])]
        /\ \/ relayQ' = [relayQ EXCEPT ![c] = Append(relayQ[c], <<"bytes", w, f.total>>)]
           \/ relayQ' = relayQ

\* RecvBody has that shape.
LEMMA BodyShapes ==
    ASSUME HttpTypeOK, NEW c \in Calls, RecvBody(c)
    PROVE  \E k \in 1..Remaining(c) : BodyShape(c, k)
<1>0. fetch \in [Calls -> Transfers] /\ fetch[c] \in Transfers /\ Remaining(c) \in Int /\ fetch[c].written \in Nat
  BY SizeAssumption DEF HttpTypeOK, Transfers, Remaining
<1>1. PICK k \in 1..Remaining(c) : OnBody(c, k)
  BY DEF RecvBody
<1> DEFINE g == fetch'[c]
           w == fetch[c].written + k
           got == [fetch[c] EXCEPT !.written = w, !.idle = 0]
<1>2. w \in Nat /\ k \in Nat
  BY <1>0
<1>3. /\ fetch[c].pc \in {"recv", "buffered"} /\ fetch[c].framing # "none"
      /\ content' = [content EXCEPT ![fetch[c].ino] =
                        Written(content[fetch[c].ino], fetch[c].start + fetch[c].written, k, ResourceOf[c])]
  BY <1>1 DEF RecvBody, OnBody
<1>4. \/ Remaining(c) - k = 0 /\ fetch[c].framing = "length" /\ g = ResultOf(got, "OK")
      \/ \E pc \in {"poll", "buffered"} : g = [got EXCEPT !.pc = pc]
  BY <1>0, <1>1 DEF OnBody
<1>5. \/ relayQ' = [relayQ EXCEPT ![c] = Append(relayQ[c], <<"bytes", w, fetch[c].total>>)]
      \/ relayQ' = relayQ
  BY <1>0, <1>1 DEF OnBody, Transfers
<1> HIDE DEF w
<1>6. /\ got \in Transfers /\ got.written = w /\ got.framing = fetch[c].framing /\ got.start = fetch[c].start
      /\ got.total = fetch[c].total /\ got.ino = fetch[c].ino /\ got.resume = fetch[c].resume
      /\ got.result = fetch[c].result
  BY <1>0, <1>2 DEF Transfers
<1> HIDE DEF got
<1>7. /\ g.start = fetch[c].start /\ g.total = fetch[c].total /\ g.written = w
      /\ g.ino = fetch[c].ino /\ g.resume = fetch[c].resume
      /\ \/ /\ fetch[c].framing = "length" /\ Remaining(c) = k
            /\ g.pc = "end" /\ g.framing = "none" /\ g.result = "OK"
         \/ g.pc \in {"poll", "buffered"} /\ g.framing = fetch[c].framing /\ g.result = fetch[c].result
  <2>1. CASE Remaining(c) - k = 0 /\ fetch[c].framing = "length" /\ g = ResultOf(got, "OK")
    <3>1. Remaining(c) = k
      BY <1>0, <1>2, <2>1
    <3> QED BY <1>6, <2>1, <3>1 DEF ResultOf, Transfers
  <2>2. CASE \E pc \in {"poll", "buffered"} : g = [got EXCEPT !.pc = pc]
    BY <1>6, <2>2 DEF Transfers
  <2> QED BY <1>4, <2>1, <2>2
<1>8. BodyShape(c, k)
  BY <1>3, <1>5, <1>7 DEF BodyShape, w
<1> QED BY <1>8

\* A write fails with k bytes in the file.
WriteFailShape(c, k) ==
    LET f == fetch[c]
    IN  /\ f.pc \in {"recv", "buffered"} /\ f.framing # "none" /\ k \in 0..(Remaining(c) - 1)
        /\ fetch'[c] = ResultOf(f, "ERROR_WRITE")
        /\ content' = IF k = 0 THEN content
                      ELSE [content EXCEPT ![f.ino] = Written(content[f.ino], f.start + f.written, k, ResourceOf[c])]
        /\ relayQ' = relayQ

\* WriteFails has that shape.
LEMMA WriteFailShapes ==
    ASSUME HttpTypeOK, NEW c \in Calls, WriteFails(c)
    PROVE  \E k \in 0..(Remaining(c) - 1) : WriteFailShape(c, k)
BY DEF WriteFails, WriteFailShape, HttpTypeOK

\* The transport keeps its sink, and writes to no other file.
LEMMA TransportSink ==
    ASSUME HttpTypeOK, NEW c \in Calls, Transport(c)
    PROVE  /\ fetch'[c].ino = fetch[c].ino /\ fetch'[c].resume = fetch[c].resume
           /\ \A i \in Inodes : i # fetch[c].ino => content'[i] = content[i]
           /\ \A d \in Calls : d # c => relayQ'[d] = relayQ[d]
<1>0. fetch[c] \in Transfers /\ content \in [Inodes -> Seq(Bytes)] /\ DOMAIN relayQ = Calls
  BY DEF HttpTypeOK
<1>1. CASE Strolls(c)
  BY <1>1 DEF Strolls
<1>2. CASE Stops(c)
  BY <1>0, <1>2 DEF Stops, ResultOf, Transfers
<1>3. CASE RecvHead(c)
  <2>1. PICK fr \in Framings : \E a \in Answers(fetch[c].resume, fr) : HeadShape(c, fr, a)
    BY <1>3, HeadShapes
  <2> QED BY <1>0, <2>1 DEF HeadShape
<1>4. CASE RecvBody(c)
  <2>1. PICK k \in 1..Remaining(c) : BodyShape(c, k)
    BY <1>4, BodyShapes
  <2> QED BY <1>0, <2>1 DEF BodyShape
<1>5. CASE WriteFails(c)
  <2>1. PICK k \in 0..(Remaining(c) - 1) : WriteFailShape(c, k)
    BY <1>5, WriteFailShapes
  <2>2. /\ \A i \in Inodes : i # fetch[c].ino => content'[i] = content[i]
        /\ relayQ' = relayQ /\ fetch'[c] = ResultOf(fetch[c], "ERROR_WRITE")
    BY <1>0, <2>1 DEF WriteFailShape
  <2>3. ResultOf(fetch[c], "ERROR_WRITE").ino = fetch[c].ino /\ ResultOf(fetch[c], "ERROR_WRITE").resume = fetch[c].resume
    BY <1>0 DEF ResultOf, Transfers
  <2> QED BY <2>2, <2>3
<1> QED BY <1>1, <1>2, <1>3, <1>4, <1>5, TransportKinds

\* Outside the transport the process leaves the files alone.
LEMMA ProcessKinds ==
    ASSUME HttpInv, HttpProcess
    PROVE  \/ \E c \in Calls : Transport(c)
           \/ (\E c \in Calls : EndRequest(c)) /\ content' = content
           \/ UNCHANGED <<content, relayQ>>
<1>1. ASSUME NEW c \in Calls, BeginRequest(c) \/ RejectSink(c) \/ CountRequest(c) \/ UncountRequest(c)
      PROVE  UNCHANGED <<content, relayQ>>
  BY <1>1 DEF BeginRequest, RejectSink, CountRequest, UncountRequest
<1>2. ASSUME NEW c \in Calls, EndRequest(c)
      PROVE  content' = content
  BY <1>2 DEF EndRequest
<1>3. CASE GetStringBegin \/ GetStringEnd \/ CancelHandler \/ Crash \/ Restart \/ \E id \in Ids : Expire(id)
  BY <1>3 DEF GetStringBegin, GetStringEnd, CancelHandler, Crash, Restart, Expire
<1> QED BY <1>1, <1>2, <1>3 DEF HttpProcess, Accept, Transfer, Transport

\* What the steps outside the transport do to a call.
CallMoves(f, g) ==
    \/ g = f
    \/ f.pc = "queued" /\ g = [f EXCEPT !.pc = "begun"]
    \/ f.pc = "begun" /\ g = [f EXCEPT !.pc = "hop"]
    \/ f.pc = "end" /\ g = [f EXCEPT !.pc = "ended"]
    \/ f.pc \in HandedPcs /\ g = ReplyOf(f, "DEAD_OBJECT")
    \/ f.pc = "queued" /\ g = ReplyOf(f, "ERROR_WRITE")
    \/ f.pc = "ended" /\ g = ReplyOf(f, f.result)

\* A step of the process that is not one of the transport.
LEMMA ProcessMoves ==
    ASSUME HttpInv, HttpProcess, \A c \in Calls : ~Transport(c), NEW d \in Calls
    PROVE  CallMoves(fetch[d], fetch'[d])
<1>0. fetch \in [Calls -> Transfers]
  BY DEF HttpInv, HttpTypeOK
<1>1. ASSUME NEW c \in Calls, BeginRequest(c) \/ CountRequest(c) \/ UncountRequest(c)
      PROVE  CallMoves(fetch[d], fetch'[d])
  BY <1>0, <1>1 DEF BeginRequest, CountRequest, UncountRequest, CallMoves
<1>2. ASSUME NEW c \in Calls, RejectSink(c) \/ EndRequest(c)
      PROVE  CallMoves(fetch[d], fetch'[d])
  BY <1>0, <1>2 DEF RejectSink, EndRequest, CallMoves
<1>3. CASE Crash
  BY <1>3 DEF Crash, CallMoves, HandedPcs
<1>4. CASE GetStringBegin \/ GetStringEnd \/ CancelHandler \/ Restart \/ \E id \in Ids : Expire(id)
  BY <1>4 DEF GetStringBegin, GetStringEnd, CancelHandler, Restart, Expire, CallMoves
<1> QED BY <1>1, <1>2, <1>3, <1>4 DEF HttpProcess, Accept, Transfer, Transport

\* The fields of such a call.
LEMMA MovedCall ==
    ASSUME NEW f \in Transfers, NEW g, CallMoves(f, g)
    PROVE  \/ g = f
           \/ /\ g.ino = f.ino /\ g.resume = f.resume /\ g.framing = f.framing /\ g.start = f.start
              /\ g.total = f.total /\ g.written = f.written /\ g.result = f.result
              /\ <<f.pc, g.pc>> \in {<<"queued", "begun">>, <<"begun", "hop">>, <<"end", "ended">>}
           \/ /\ f.pc \in HandedPcs /\ g.pc = "replied" /\ g.framing = "none" /\ g.written = f.written
              /\ g.start = 0 /\ g.total = -1
              /\ \/ g.result \in {"DEAD_OBJECT", "ERROR_WRITE"}
                 \/ f.pc = "ended" /\ g.result = f.result
<1>1. ASSUME NEW r \in Results, g = ReplyOf(f, r)
      PROVE  /\ g.pc = "replied" /\ g.framing = "none" /\ g.written = f.written /\ g.result = r
             /\ g.start = 0 /\ g.total = -1
  BY <1>1 DEF ReplyOf, NoFetch, Transfers
<1>2. {"DEAD_OBJECT", "ERROR_WRITE"} \subseteq Results /\ f.result \in Results
  BY DEF Results, Transfers
<1>3. "queued" \in HandedPcs /\ "ended" \in HandedPcs
  BY DEF HandedPcs, ServedPcs
<1>4. CASE f.pc = "queued" /\ g = [f EXCEPT !.pc = "begun"]
  BY <1>4 DEF Transfers
<1>5. CASE f.pc = "begun" /\ g = [f EXCEPT !.pc = "hop"]
  BY <1>5 DEF Transfers
<1>6. CASE f.pc = "end" /\ g = [f EXCEPT !.pc = "ended"]
  BY <1>6 DEF Transfers
<1> QED BY <1>1, <1>2, <1>3, <1>4, <1>5, <1>6 DEF CallMoves

-------------------------------------------------------------------------------
(* Who may write which file *)

\* A file of a path: the one that was there before, or one a task of that path made.
Belongs(i, d) == i = d \/ (i \in Tasks /\ DestOf[i] = d)

Active(t) == task[t].state \in {"PENDING", "RUNNING"}

UnopenedPcs == {"none", "start", "dir", "measure", "open"}
HeldPcs == OpenPcs \cup {"store", "rename"}

\* The .part and the finished file are two files, and both are of their path.
PathOf(d) ==
    /\ part[d] # NoInode => Belongs(part[d], d) /\ part[d] # dest[d]
    /\ dest[d] # NoInode => Belongs(dest[d], d)

\* A worker that has the .part open has the one its path names, and so has its
\* transfer; a worker that is about to remove the .part removes an empty one.
HoldOf(t) ==
    /\ task[t].pc \in UnopenedPcs => \A d \in Dests : part[d] # t /\ dest[d] # t
    /\ task[t].pc \in HeldPcs => part[DestOf[t]] = task[t].ino /\ task[t].ino \in Inodes
    /\ task[t].pc = "unlink" => PartSize(t) = 0
    /\ fetch[t].pc \in HandedPcs => fetch[t].ino = task[t].ino

\* No two downloads to one path at a time: the clients see to it, or they never
\* share a path.
OwnPaths == \A t, u \in Tasks : t # u => DestOf[t] # DestOf[u]
OneAtATime == Exclusive \/ OwnPaths

OneWriter ==
    \A t, u \in Tasks : t # u /\ DestOf[t] = DestOf[u] => ~(Active(t) /\ Active(u))

PathInv ==
    /\ OneWriter
    /\ \A d \in Dests : PathOf(d)
    /\ \A t \in Tasks : HoldOf(t)

\* No file is of two paths.
LEMMA BelongsOnce ==
    ASSUME NEW i, NEW d \in Dests, NEW e \in Dests, Belongs(i, d), Belongs(i, e)
    PROVE  d = e /\ i # NoInode /\ i \in Inodes
BY TasksAssumption, NamesAssumption DEF Belongs

\* A worker past "start" and before its verdict is recorded is active.
LEMMA HeldActive ==
    ASSUME DlInv, NEW t \in Tasks
    PROVE  /\ task[t].pc \in HeldPcs \cup {"unlink", "dir", "measure", "open"} => Active(t)
           /\ fetch[t].pc \in HandedPcs => task[t].pc = "fetching"
           /\ task[t].pc \in HeldPcs \cup {"unlink"} => task[t].pc \notin UnopenedPcs
<1>1. CallOK(task[t], fetch[t]) /\ VerdictOK(task[t])
  BY TaskFacts
<1>2. HeldPcs \cup {"unlink", "dir", "measure", "open"} \subseteq RunningPcs
  BY DEF HeldPcs, OpenPcs, RunningPcs, WorkerPcs
<1> QED BY <1>1, <1>2 DEF CallOK, VerdictOK, Active, HeldPcs, OpenPcs, UnopenedPcs

\* The tasks move and the files stay.
LEMMA PathFrame ==
    ASSUME DlInv, PathInv, UNCHANGED <<part, dest, content>>,
           \A t \in Tasks :
              /\ task'[t].state \in {"PENDING", "RUNNING"} => Active(t)
              /\ task'[t].pc \in UnopenedPcs => task[t].pc \in UnopenedPcs
              /\ task'[t].pc \in HeldPcs => task[t].pc \in HeldPcs /\ task'[t].ino = task[t].ino
              /\ task'[t].pc = "unlink" => task[t].pc = "unlink" \/ PartSize(t) = 0
              /\ fetch'[t].pc \in HandedPcs => fetch'[t].ino = task'[t].ino
    PROVE  PathInv'
<1>1. OneWriter'
  BY DEF PathInv, OneWriter, Active
<1>2. ASSUME NEW d \in Dests PROVE PathOf(d)'
  BY DEF PathInv, PathOf
<1>3. ASSUME NEW t \in Tasks PROVE HoldOf(t)'
  <2>1. PartSize(t)' = PartSize(t)
    BY DEF PartSize
  <2> QED BY <2>1 DEF PathInv, HoldOf
<1> QED BY <1>1, <1>2, <1>3 DEF PathInv

\* The steps of a worker that leave the paths alone, and enqueue().
LEMMA WorkerPath ==
    ASSUME OneAtATime, DlInv, PathInv, NEW t \in Tasks,
           \/ LocalStep(t) \/ Enqueue(t) \/ Report(t)
           \/ WorkerLookup(t) \/ ReserveId(t) \/ ReserveIdFails(t) \/ CallFetch(t) \/ FetchReturns(t)
    PROVE  PathInv'
<1>0. /\ fetch[t] \in Transfers /\ CallOK(task[t], fetch[t]) /\ VerdictOK(task[t]) /\ task[t] \in TaskRecs
  BY TaskFacts
<1>1. \A u \in Tasks : HoldOf(u)
  BY DEF PathInv
<1>2. CASE LocalStep(t)
  <2>1. LocalShape(t) /\ UNCHANGED <<part, dest, content, fetch>>
    BY <1>2, LocalShapes DEF LocalStep, Start, EnsureParentDir, Measure, OpenFails, PublishId, CheckCanceled,
         DupFails, StoreOnDisk, RenameFails, FinalSize, StatPart, Finish, Local, httpVars
  <2>2. /\ task'[t].state \in {"PENDING", "RUNNING"} => Active(t)
        /\ task'[t].pc \in UnopenedPcs => task[t].pc \in UnopenedPcs
        /\ task'[t].pc \in HeldPcs => task[t].pc \in HeldPcs
        /\ task'[t].pc = "unlink" => PartSize(t) = 0
        /\ task'[t].ino = task[t].ino
    BY <1>0, <2>1 DEF LocalShape, UnopenedPcs, HeldPcs, OpenPcs, Active, VerdictOK, RunningPcs, Terminal, TaskRecs
  <2> QED BY <1>1, <2>1, <2>2, PathFrame DEF LocalShape, HoldOf, Active
<1>3. CASE WorkerLookup(t) \/ ReserveId(t) \/ ReserveIdFails(t) \/ CallFetch(t) \/ FetchReturns(t)
  <2>1. CallShape(t) /\ UNCHANGED <<part, dest, content>>
    BY <1>3, CallShapes
  <2>2. /\ task'[t].state \in {"PENDING", "RUNNING"} => Active(t)
        /\ task'[t].pc \notin UnopenedPcs
        /\ task'[t].pc \in HeldPcs => task[t].pc \in HeldPcs
        /\ task'[t].pc # "unlink"
        /\ task'[t].ino = task[t].ino
    BY <2>1 DEF CallShape, UnopenedPcs, HeldPcs, OpenPcs, Active
  <2>3. fetch'[t].pc \in HandedPcs => fetch'[t].ino = task[t].ino
    <3>1. CASE fetch'[t] = fetch[t]
      BY <1>1, <3>1 DEF HoldOf
    <3>2. CASE fetch'[t].pc = "reserved"
      BY <3>2, PcSets DEF HandedPcs
    <3>3. CASE fetch'[t] = [fetch[t] EXCEPT !.pc = "queued", !.ino = task[t].ino, !.resume = task[t].resume]
      BY <1>0, <3>3 DEF Transfers
    <3>4. CASE fetch'[t] = ReplyOf(fetch[t], "DEAD_OBJECT")
      BY <1>0, <3>4, ReplyTyped, PcSets DEF Results, HandedPcs
    <3>5. fetch'[t] = [fetch[t] EXCEPT !.pc = "reserved", !.id = fetch'[t].id, !.inst = fetch'[t].inst] =>
            fetch'[t].pc = "reserved"
      BY <1>0 DEF Transfers
    <3> QED BY <2>1, <3>1, <3>2, <3>3, <3>4, <3>5 DEF CallShape
  <2> QED BY <1>1, <2>1, <2>2, <2>3, PathFrame DEF CallShape, HoldOf, Active
<1>4. CASE Report(t)
  <2>1. PathShape(t) /\ UNCHANGED <<fetch, content>> /\ task[t].pc = "report"
    BY <1>4, PathShapes DEF Report
  <2>2. task'[t].pc = "done" /\ task'[t].state = task[t].state /\ UNCHANGED <<part, dest>>
    BY <2>1 DEF PathShape
  <2>3. fetch[t].pc \notin HandedPcs
    BY <1>0, <2>1 DEF CallOK
  <2> QED BY <1>1, <2>1, <2>2, <2>3, PathFrame DEF PathShape, UnopenedPcs, HeldPcs, OpenPcs, HoldOf, Active
<1>5. CASE Enqueue(t)
  <2>1. PathShape(t) /\ UNCHANGED <<fetch, content>> /\ task[t].pc = "none"
    BY <1>5, PathShapes DEF Enqueue
  <2>2. /\ task'[t].pc = "start" /\ task'[t].ino = task[t].ino /\ UNCHANGED <<part, dest>>
        /\ \A u \in Tasks \ {t} : DestOf[u] = DestOf[t] => ~Active(u)
    BY <2>1 DEF PathShape, isTerminal, Terminal, Active, OneAtATime, OwnPaths
  <2>3. \A u \in Tasks \ {t} : task'[u] = task[u]
    BY <2>1 DEF PathShape
  <2>4. OneWriter'
    BY <2>2, <2>3 DEF OneWriter, PathInv, Active
  <2>5. ASSUME NEW d \in Dests PROVE PathOf(d)'
    BY <2>2 DEF PathOf, PathInv
  <2>6. ASSUME NEW u \in Tasks PROVE HoldOf(u)'
    <3>1. PartSize(u)' = PartSize(u)
      BY <2>1, <2>2 DEF PartSize
    <3> QED BY <1>1, <2>1, <2>2, <2>3, <3>1 DEF HoldOf, UnopenedPcs, HeldPcs, OpenPcs
  <2> QED BY <2>4, <2>5, <2>6 DEF PathInv
<1> QED BY <1>2, <1>3, <1>4, <1>5

\* open(), rename() and unlink() of the .part.
LEMMA DiskPath ==
    ASSUME DlInv, PathInv, NEW t \in Tasks, OpenPart(t) \/ Rename(t) \/ UnlinkPart(t)
    PROVE  PathInv'
<1> DEFINE d == DestOf[t]
<1>0. /\ d \in Dests /\ part \in [Dests -> Inodes \cup {NoInode}] /\ dest \in [Dests -> Inodes \cup {NoInode}]
      /\ PathShape(t) /\ UNCHANGED <<fetch, content>> /\ task[t].pc \in {"open", "rename", "unlink"}
      /\ DestOf \in [Tasks -> Dests] /\ \A u \in Tasks \ {t} : task'[u] = task[u]
      /\ t \in Inodes /\ NoInode \notin Inodes
  BY TaskFacts, PathShapes, TasksAssumption, NamesAssumption
     DEF DlInv, ControlInv, DlTyped, OpenPart, Rename, UnlinkPart, PathShape
<1>1. (\A u \in Tasks : HoldOf(u)) /\ (\A e \in Dests : PathOf(e)) /\ OneWriter
  BY DEF PathInv
<1>2. Active(t) /\ \A u \in Tasks \ {t} : DestOf[u] = d => ~Active(u)
  BY <1>0, <1>1, HeldActive DEF OneWriter, HeldPcs
<1>3. task'[t].state = task[t].state
  BY <1>0 DEF PathShape
<1>4. OneWriter'
  BY <1>0, <1>1, <1>3 DEF OneWriter, Active
<1>5. \A e \in Dests \ {d} : part'[e] = part[e] /\ dest'[e] = dest[e]
  BY <1>0 DEF PathShape
<1>6. ASSUME NEW u \in Tasks \ {t}
      PROVE  HoldOf(u)'
  <2>1. CASE DestOf[u] # d
    <3>1. PartSize(u)' = PartSize(u)
      BY <1>0, <1>5, <2>1 DEF PartSize
    <3>2. task[u].pc \in UnopenedPcs => \A e \in Dests : part'[e] # u /\ dest'[e] # u
      BY <1>0, <1>1, <1>5, TasksAssumption DEF HoldOf, PathShape
    <3> QED BY <1>0, <1>1, <1>5, <2>1, <3>1, <3>2 DEF HoldOf
  <2>2. CASE DestOf[u] = d
    <3>1. task[u].pc \notin HeldPcs \cup {"unlink"} /\ fetch[u].pc \notin HandedPcs
      BY <1>2, <2>2, HeldActive DEF HeldPcs, OpenPcs
    <3>2. task[u].pc \in UnopenedPcs => \A e \in Dests : part'[e] # u /\ dest'[e] # u
      BY <1>0, <1>1, <1>5, TasksAssumption DEF HoldOf, PathShape
    <3> QED BY <1>0, <3>1, <3>2 DEF HoldOf
  <2> QED BY <2>1, <2>2
<1>7. fetch'[t].pc \notin HandedPcs
  BY <1>0, HeldActive
<1>8. CASE task[t].pc = "open"
  <2>1. /\ task'[t].pc = "lookup" /\ dest' = dest /\ task'[t].ino = part'[d]
        /\ part'[d] = (IF part[d] = NoInode THEN t ELSE part[d])
    BY <1>0, <1>8 DEF PathShape
  <2>2. ASSUME NEW e \in Dests PROVE PathOf(e)'
    BY <1>0, <1>1, <1>5, <1>8, <2>1 DEF PathOf, HoldOf, Belongs, UnopenedPcs
  <2>3. HoldOf(t)'
    BY <1>0, <1>7, <2>1 DEF HoldOf, UnopenedPcs
  <2> QED BY <1>4, <1>6, <2>2, <2>3 DEF PathInv
<1>9. CASE task[t].pc = "rename"
  <2>1. /\ task'[t].pc = "size" /\ part'[d] = NoInode /\ dest'[d] = part[d] /\ part[d] # NoInode
    BY <1>0, <1>9 DEF PathShape
  <2>2. ASSUME NEW e \in Dests PROVE PathOf(e)'
    BY <1>0, <1>1, <1>5, <2>1 DEF PathOf
  <2>3. HoldOf(t)'
    BY <1>7, <2>1 DEF HoldOf, UnopenedPcs, HeldPcs, OpenPcs
  <2> QED BY <1>4, <1>6, <2>2, <2>3 DEF PathInv
<1>10. CASE task[t].pc = "unlink"
  <2>1. /\ task'[t].pc = "finish" /\ part'[d] = NoInode /\ dest' = dest
    BY <1>0, <1>10 DEF PathShape
  <2>2. ASSUME NEW e \in Dests PROVE PathOf(e)'
    BY <1>0, <1>1, <1>5, <2>1 DEF PathOf
  <2>3. HoldOf(t)'
    BY <1>7, <2>1 DEF HoldOf, UnopenedPcs, HeldPcs, OpenPcs
  <2> QED BY <1>4, <1>6, <2>2, <2>3 DEF PathInv
<1> QED BY <1>0, <1>8, <1>9, <1>10

\* The relay, cancel(), the registry, and nothing at all.
LEMMA OtherPath ==
    ASSUME DlInv, PathInv,
           \/ \E t \in Tasks : Relay(t) \/ ClientCancel(t)
           \/ Canceller \/ Register \/ Reap \/ Quiet \/ UNCHANGED vars
    PROVE  /\ UNCHANGED <<part, dest, content, fetch>>
           /\ \A u \in Tasks : /\ task'[u].state = task[u].state /\ task'[u].pc = task[u].pc
                               /\ task'[u].ino = task[u].ino /\ task'[u].resume = task[u].resume
                               /\ task'[u].outcome = task[u].outcome
           /\ PathInv'
<1>0. task \in [Tasks -> TaskRecs]
  BY DEF DlInv, ControlInv, DlTyped
<1>1. UNCHANGED <<part, dest, content, fetch>>
  BY DEF Relay, OnResponseStart, OnBytesReceived, ClientCancel, Canceller, SetFlag, ReadId, CancelLookup,
         ForwardCancel, Register, Reap, Quiet, vars, httpVars, dlVars
<1>2. ASSUME NEW u \in Tasks
      PROVE  /\ task'[u].state = task[u].state /\ task'[u].pc = task[u].pc
             /\ task'[u].ino = task[u].ino /\ task'[u].resume = task[u].resume
             /\ task'[u].outcome = task[u].outcome
  <2>1. CASE \E t \in Tasks : Relay(t)
    <3>1. PICK t \in Tasks : Relay(t)
      BY <2>1
    <3>2. PICK n \in Nat, r \in Nat, m \in Int :
            task' = [task EXCEPT ![t] = [task[t] EXCEPT !.downloaded = n, !.resumedFrom = r, !.total = m]]
      BY <3>1, RelayShape
    <3> QED BY <1>0, <3>2 DEF TaskRecs
  <2>2. CASE SetFlag
    <3>1. task' = [task EXCEPT ![canceller.task] = [task[canceller.task] EXCEPT !.canceled = TRUE]]
      BY <2>2 DEF SetFlag
    <3> QED BY <1>0, <3>1 DEF TaskRecs
  <2>3. CASE ~SetFlag /\ ~\E t \in Tasks : Relay(t)
    BY <2>3 DEF ClientCancel, Canceller, ReadId, CancelLookup, ForwardCancel, Register, Reap, Quiet, vars, dlVars
  <2> QED BY <2>1, <2>2, <2>3
<1>3. PathInv'
  BY <1>1, <1>2, PathFrame DEF PathInv, HoldOf, Active
<1> QED BY <1>1, <1>2, <1>3

\* A write goes to the .part of one active task, and to no file that matters to
\* another.
LEMMA WriteTouches ==
    ASSUME DlInv, PathInv, NEW c \in Tasks, fetch[c].pc \in HandedPcs
    PROVE  /\ task[c].pc = "fetching" /\ fetch[c].ino = task[c].ino /\ fetch[c].ino \in Inodes
           /\ part[DestOf[c]] = fetch[c].ino
           /\ \A d \in Dests : dest[d] # fetch[c].ino /\ (d # DestOf[c] => part[d] # fetch[c].ino)
           /\ \A u \in Tasks : task[u].pc \in UnopenedPcs => u # fetch[c].ino
           /\ \A u \in Tasks : u # c /\ DestOf[u] = DestOf[c] => ~Active(u)
<1>1. task[c].pc = "fetching" /\ Active(c)
  BY HeldActive DEF HeldPcs, OpenPcs
<1>2. fetch[c].ino = task[c].ino /\ fetch[c].ino \in Inodes /\ part[DestOf[c]] = fetch[c].ino
  BY <1>1 DEF PathInv, HoldOf, HeldPcs, OpenPcs
<1>3. DestOf[c] \in Dests /\ NoInode \notin Inodes
  BY TasksAssumption, NamesAssumption
<1>4. \A d \in Dests : dest[d] # fetch[c].ino /\ (d # DestOf[c] => part[d] # fetch[c].ino)
  BY <1>2, <1>3, BelongsOnce DEF PathInv, PathOf
<1>5. \A u \in Tasks : task[u].pc \in UnopenedPcs => u # fetch[c].ino
  BY <1>2, <1>3 DEF PathInv, HoldOf
<1>6. \A u \in Tasks : u # c /\ DestOf[u] = DestOf[c] => ~Active(u)
  BY <1>1 DEF PathInv, OneWriter
<1> QED BY <1>1, <1>2, <1>4, <1>5, <1>6

\* The http process.
LEMMA ProcessPath ==
    ASSUME DlInv, PathInv, HttpProcess, UNCHANGED dlVars
    PROVE  PathInv'
<1>0. /\ HttpInv /\ HttpTypeOK /\ UNCHANGED <<task, part, dest>> /\ fetch \in [Calls -> Transfers]
      /\ part \in [Dests -> Inodes \cup {NoInode}] /\ NoInode \notin Inodes
  BY NamesAssumption DEF DlInv, ControlInv, DlTyped, HttpInv, HttpTypeOK, dlVars
<1>1. ASSUME NEW t \in Tasks, fetch'[t].pc \in HandedPcs
      PROVE  fetch'[t].ino = task[t].ino
  <2>1. fetch[t].pc \in HandedPcs
    BY <1>0, <1>1, ProcessCalls DEF Served1
  <2>2. fetch[t].ino = task[t].ino
    BY <2>1 DEF PathInv, HoldOf
  <2>3. fetch'[t].ino = fetch[t].ino
    <3>1. CASE Transport(t)
      BY <1>0, <3>1, TransportSink
    <3>2. ASSUME NEW c \in Calls \ {t}, Transport(c)
          PROVE  fetch'[t] = fetch[t]
      BY <1>0, <3>2, TransportMoves DEF Moves
    <3>3. CASE \A c \in Calls : ~Transport(c)
      <4>1. CallMoves(fetch[t], fetch'[t])
        BY <1>0, <3>3, ProcessMoves
      <4>2. fetch'[t].pc # "replied"
        BY <1>1, PcSets DEF HandedPcs
      <4>3. fetch[t] \in Transfers
        BY <1>0
      <4> QED BY <4>1, <4>2, <4>3, MovedCall
    <3> QED BY <3>1, <3>2, <3>3
  <2> QED BY <2>2, <2>3
<1>2. CASE content' = content
  BY <1>0, <1>1, <1>2, PathFrame DEF Active, PathInv, HoldOf
<1>3. ASSUME NEW c \in Calls, Transport(c)
      PROVE  PathInv'
  <2>1. fetch[c].pc \in HandedPcs
    BY <1>0, <1>3, TransportMoves, PcSets DEF Moves, HandedPcs
  <2>2. \A i \in Inodes : i # fetch[c].ino => content'[i] = content[i]
    BY <1>0, <1>3, TransportSink
  <2>3. ASSUME NEW t \in Tasks, task[t].pc = "unlink"
        PROVE  PartSize(t)' = PartSize(t)
    <3>1. Active(t) /\ DestOf[t] \in Dests
      BY <2>3, HeldActive, TasksAssumption
    <3>2. t # c /\ DestOf[t] # DestOf[c]
      BY <2>1, <2>3, <3>1, WriteTouches
    <3>3. part[DestOf[t]] # fetch[c].ino
      BY <2>1, <3>1, <3>2, WriteTouches
    <3> QED BY <1>0, <2>2, <3>1, <3>3 DEF PartSize
  <2>4. ASSUME NEW t \in Tasks PROVE HoldOf(t)'
    BY <1>0, <1>1, <2>3 DEF PathInv, HoldOf
  <2>5. OneWriter' /\ \A d \in Dests : PathOf(d)'
    BY <1>0 DEF PathInv, OneWriter, PathOf, Active
  <2> QED BY <2>4, <2>5 DEF PathInv
<1> QED BY <1>0, <1>2, <1>3, ProcessKinds

\* In the beginning nobody has a file and nothing is finished.
LEMMA InitPath == Init => PathInv
<1> SUFFICES ASSUME Init PROVE PathInv
  OBVIOUS
<1>1. NewTask.state = "UNKNOWN" /\ NewTask.pc = "none" /\ NoFetch.pc = "none"
  BY DEF NewTask, NoFetch
<1>2. \A t \in Tasks : task[t] = NewTask /\ fetch[t] = NoFetch
  BY DEF Init, InitHttp
<1>3. \A d \in Dests : part[d] \in {d, NoInode} /\ dest[d] = NoInode
  BY DEF Init
<1>4. OneWriter
  BY <1>1, <1>2 DEF OneWriter, Active
<1>5. ASSUME NEW d \in Dests PROVE PathOf(d)
  BY <1>3, TasksAssumption, NamesAssumption DEF PathOf, Belongs
<1>6. ASSUME NEW t \in Tasks PROVE HoldOf(t)
  <2>1. "none" \notin HandedPcs
    BY PcSets DEF HandedPcs
  <2> QED BY <1>1, <1>2, <1>3, <2>1, TasksAssumption, NamesAssumption DEF HoldOf, HeldPcs, OpenPcs
<1> QED BY <1>4, <1>5, <1>6 DEF PathInv

\* Every step keeps it, if clients do not download to one path twice at a time.
LEMMA NextPath ==
    ASSUME OneAtATime
    PROVE  DlInv /\ PathInv /\ [Next]_vars => PathInv'
<1> SUFFICES ASSUME DlInv, PathInv, [Next]_vars PROVE PathInv'
  OBVIOUS
<1>1. ASSUME NEW t \in Tasks, Enqueue(t) \/ Worker(t)
      PROVE  PathInv'
  BY <1>1, WorkerPath, DiskPath DEF Worker, LocalStep
<1> QED BY <1>1, OtherPath, ProcessPath DEF Next

\* "Anything with bytes in it is kept": no step takes a .part that is not empty
\* from its path, but for the rename that makes it the destination file.
THEOREM DownloadPartKept ==
    ASSUME OneAtATime
    PROVE  Spec => PartKept
<1> DEFINE Step == \A d \in Dests : part[d] # NoInode /\ content[part[d]] # << >> /\ part'[d] # part[d]
                                       => dest'[d] = part[d]
<1>1. Init => DlInv /\ PathInv
  BY InitDl, InitPath
<1>2. DlInv /\ PathInv /\ [Next]_vars => (DlInv /\ PathInv)'
  BY NextDl, NextPath
<1>3. DlInv /\ PathInv /\ [Next]_vars => Step
  <2> SUFFICES ASSUME DlInv, PathInv, [Next]_vars PROVE Step
    OBVIOUS
  <2>0. part \in [Dests -> Inodes \cup {NoInode}] /\ content \in [Inodes -> Seq(Bytes)]
    BY DEF DlInv, ControlInv, DlTyped, HttpInv, HttpTypeOK
  <2>1. ASSUME NEW t \in Tasks, OpenPart(t) \/ Rename(t)
        PROVE  Step
    BY <2>0, <2>1, TasksAssumption DEF OpenPart, Rename, DlInv, ControlInv, DlTyped
  <2>2. ASSUME NEW t \in Tasks, UnlinkPart(t)
        PROVE  Step
    <3>1. PartSize(t) = 0 /\ part' = [part EXCEPT ![DestOf[t]] = NoInode]
      BY <2>2 DEF UnlinkPart, PathInv, HoldOf
    <3>2. part[DestOf[t]] = NoInode \/ content[part[DestOf[t]]] = << >>
      <4>1. CASE part[DestOf[t]] # NoInode
        <5>1. content[part[DestOf[t]]] \in Seq(Bytes) /\ Len(content[part[DestOf[t]]]) = 0
          BY <2>0, <3>1, <4>1, TasksAssumption DEF PartSize
        <5> QED BY <5>1
      <4> QED BY <4>1
    <3> QED BY <2>0, <3>1, <3>2
  <2>3. ASSUME NEW t \in Tasks, Enqueue(t) \/ (Worker(t) /\ ~OpenPart(t) /\ ~Rename(t) /\ ~UnlinkPart(t))
        PROVE  part' = part
    BY <2>3 DEF Enqueue, Worker, Start, EnsureParentDir, Measure, OpenFails, WorkerLookup, ReserveId,
                ReserveIdFails, PublishId, CheckCanceled, DupFails, CallFetch, FetchReturns, StoreOnDisk, RenameFails,
                FinalSize, StatPart, Finish, Report, Local
  <2>4. CASE HttpProcess /\ UNCHANGED dlVars
    BY <2>4 DEF dlVars
  <2> QED BY <2>1, <2>2, <2>3, <2>4, OtherPath DEF Next
<1> QED BY <1>1, <1>2, <1>3, PTL DEF Spec, PartKept

-------------------------------------------------------------------------------
(* What the files hold *)

\* A file without a hole and without a byte of another resource.
Pure(s, b) == \A i \in DOMAIN s : s[i] = b

\* The bytes behind n others of the same resource.
LEMMA WrittenPure ==
    ASSUME NEW s \in Seq(Bytes), NEW n \in Nat, NEW b \in Bytes, Pure(s, b)
    PROVE  /\ Len(Written(s, Len(s), n, b)) = Len(s) + n
           /\ Pure(Written(s, Len(s), n, b), b)
<1> DEFINE w == Written(s, Len(s), n, b)
<1>1. Len(s) \in Nat /\ DOMAIN s = 1..Len(s)
  OBVIOUS
<1>2. w \in Seq(Bytes)
  BY <1>1, WrittenTyped
<1>3. (IF Len(s) + n > Len(s) THEN Len(s) + n ELSE Len(s)) = Len(s) + n
  BY <1>1
<1>4. w = [i \in 1..(Len(s) + n) |-> IF Len(s) < i /\ i <= Len(s) + n THEN b
                                     ELSE IF i <= Len(s) THEN s[i] ELSE Hole]
  BY <1>3 DEF Written
<1>5. DOMAIN w = 1..(Len(s) + n) /\ \A i \in 1..(Len(s) + n) : w[i] = b
  BY <1>1, <1>4 DEF Pure
<1> HIDE DEF w
<1>6. Len(w) = Len(s) + n
  BY <1>1, <1>2, <1>5
<1> QED BY <1>5, <1>6 DEF Pure, w

\* A pure file of the right length is the resource.
LEMMA PureWhole ==
    ASSUME NEW s \in Seq(Bytes), NEW c \in Calls, Pure(s, ResourceOf[c]), Len(s) = Size
    PROVE  s = Whole(c)
<1>1. DOMAIN s = 1..Size /\ s = [i \in DOMAIN s |-> s[i]]
  OBVIOUS
<1>2. \A i \in 1..Size : s[i] = ResourceOf[c]
  BY <1>1 DEF Pure
<1> QED BY <1>1, <1>2 DEF Whole

\* Before a body with a framing of its own begins.
HeadPcs == {"queued", "begun", "hop", "connect", "poll", "recv"}

\* What a transfer knows of its sink: how much of it is there before the headers
\* are in, and how much since; and that it is complete when the result is OK.
SinkOK(f, s) ==
    /\ f.pc \in {"none", "reserved"} => f.framing = "none" /\ f.written = 0 /\ f.start = 0
    /\ f.pc \in {"queued", "begun", "hop", "connect"} => f.framing = "none"
    /\ f.pc = "buffered" => f.framing # "none"
    /\ f.pc \in HeadPcs /\ f.framing = "none" => f.written = 0 /\ f.start = 0 /\ Len(s) = f.resume
    /\ f.framing # "none" =>
          /\ f.pc \in {"poll", "recv", "buffered"} /\ f.framing \in Framings \cup {"trailers"}
          /\ Len(s) = f.start + f.written /\ f.start + f.written <= Size
    /\ f.framing = "trailers" => f.start + f.written = Size
    /\ f.result = "OK" => f.pc \in {"end", "ended", "replied"}
    /\ f.result = "OK" /\ f.pc \in {"end", "ended"} => Len(s) = Size /\ f.start + f.written = Size

\* A path is asked for one resource, and no body that ends with the connection
\* is cut short: what the code cannot tell from a complete one.
OneResource == \A t, u \in Tasks : DestOf[t] = DestOf[u] => ResourceOf[t] = ResourceOf[u]
Framed == "eof" \notin Framings \/ "truncate" \notin Faults

\* A .part is a prefix of its resource, as long as the worker measured it, and
\* complete when the worker is about to rename it.
ContentOf(t) ==
    /\ task[t].pc \in UnopenedPcs => content[t] = << >>
    /\ task[t].pc = "open" => task[t].resume = PartSize(t)
    /\ task[t].pc \in OpenPcs \ {"fetching"} => task[t].resume = Len(content[task[t].ino])
    /\ part[DestOf[t]] # NoInode => Pure(content[part[DestOf[t]]], ResourceOf[t])
    /\ \/ task[t].pc \in {"store", "rename"}
       \/ task[t].pc = "fetching" /\ fetch[t].pc = "replied" /\ fetch[t].result = "OK"
       => Len(content[task[t].ino]) = Size
    /\ SinkOK(fetch[t], content[fetch[t].ino])

ContentInv == DestComplete /\ \A t \in Tasks : ContentOf(t)

\* Of a call that the process does not have in its hands nothing is said of a sink.
LEMMA SinkFree ==
    ASSUME NEW f \in Transfers, NEW s, NEW z, SinkOK(f, s), f.pc \notin HandedPcs
    PROVE  SinkOK(f, z)
BY PcSets DEF SinkOK, HandedPcs, HeadPcs

\* The transport appends to a pure file, or empties it, and stops with OK only
\* when the file is complete.
LEMMA TransportContent ==
    ASSUME Framed, HttpTypeOK, NEW c \in Calls, Transport(c), fetch[c].ino \in Inodes,
           SinkOK(fetch[c], content[fetch[c].ino]), Pure(content[fetch[c].ino], ResourceOf[c])
    PROVE  /\ SinkOK(fetch'[c], content'[fetch[c].ino])
           /\ Pure(content'[fetch[c].ino], ResourceOf[c])
<1> DEFINE f == fetch[c]
           g == fetch'[c]
           s == content[fetch[c].ino]
           z == content'[fetch[c].ino]
<1>0. /\ f \in Transfers /\ s \in Seq(Bytes) /\ content \in [Inodes -> Seq(Bytes)] /\ Len(s) \in Nat
      /\ f.start \in Nat /\ f.written \in Nat /\ f.resume \in Nat /\ Size \in Nat /\ ResourceOf[c] \in Bytes
      /\ Remaining(c) = Size - f.start - f.written
  <2>1. f \in Transfers /\ s \in Seq(Bytes) /\ content \in [Inodes -> Seq(Bytes)]
    BY DEF HttpTypeOK
  <2>2. f.start \in Nat /\ f.written \in Nat /\ f.resume \in Nat /\ Size \in Nat /\ ResourceOf[c] \in Bytes
    BY <2>1, SizeAssumption DEF Transfers, Bytes
  <2>3. Len(s) \in Nat
    BY <2>1
  <2> QED BY <2>1, <2>2, <2>3 DEF Remaining
<1>1. CASE Strolls(c)
  <2>1. z = s
    BY <1>1 DEF Strolls
  <2>2. SinkOK(g, s)
    <3>1. /\ g.written = f.written /\ g.start = f.start /\ g.result = f.result /\ g.resume = f.resume
          /\ f.result # "OK"
      BY <1>1 DEF Strolls, SinkOK
    <3>2. CASE g.framing = f.framing /\ f.pc \in {"hop", "connect"} /\ g.pc \in {"connect", "poll"}
      BY <3>1, <3>2 DEF SinkOK, HeadPcs
    <3>3. CASE g.framing = f.framing /\ f.pc \in {"poll", "recv"} /\ g.pc \in {"poll", "recv"}
      BY <3>1, <3>3 DEF SinkOK, HeadPcs
    <3>4. CASE g.framing = f.framing /\ f.pc = "recv" /\ f.framing = "none" /\ g.pc = "hop"
      BY <3>1, <3>4 DEF SinkOK, HeadPcs
    <3>5. CASE /\ f.framing = "chunked" /\ Remaining(c) = 0 /\ g.framing = "trailers"
               /\ g.pc \in {"poll", "buffered"}
      <4>0. Size - f.start - f.written = 0
        BY <1>0, <3>5
      <4>1. f.start + f.written = Size
        <5>1. ASSUME NEW m \in Nat, NEW n \in Nat, NEW k \in Nat, k - m - n = 0 PROVE m + n = k
          BY <5>1
        <5> QED BY <1>0, <4>0, <5>1
      <4>2. f.framing # "none"
        BY <3>5
      <4> QED BY <3>1, <3>5, <4>1, <4>2 DEF SinkOK, HeadPcs
    <3> QED BY <1>1, <3>2, <3>3, <3>4, <3>5 DEF Strolls
  <2> QED BY <2>1, <2>2
<1>2. CASE Stops(c)
  <2>1. PICK r \in Results \ {"DEAD_OBJECT", "none"} :
          /\ g = ResultOf(f, r)
          /\ r = "OK" => \/ f.framing = "trailers"
                         \/ f.framing = "eof" /\ (Remaining(c) = 0 \/ "truncate" \in Faults)
    BY <1>2 DEF Stops
  <2>2. z = s
    BY <1>2 DEF Stops
  <2>3. g.pc = "end" /\ g.result = r /\ g.framing = "none" /\ g.start = f.start /\ g.written = f.written
    BY <1>0, <2>1 DEF ResultOf, Transfers
  <2>4. r = "OK" => Len(s) = Size /\ f.start + f.written = Size
    <3>1. CASE f.framing = "trailers"
      BY <1>0, <3>1 DEF SinkOK
    <3>2. CASE f.framing = "eof" /\ (Remaining(c) = 0 \/ "truncate" \in Faults)
      <4>1. "eof" \in Framings
        BY <3>2 DEF SinkOK
      <4>2. Remaining(c) = 0
        BY <3>2, <4>1 DEF Framed
      <4> QED BY <1>0, <3>2, <4>2 DEF SinkOK
    <3> QED BY <2>1, <3>1, <3>2
  <2> QED BY <2>2, <2>3, <2>4 DEF SinkOK, HeadPcs
<1>3. CASE RecvHead(c)
  <2>1. PICK fr \in Framings : \E a \in Answers(f.resume, fr) : HeadShape(c, fr, a)
    BY <1>3, HeadShapes
  <2>2. PICK a \in Answers(f.resume, fr) : HeadShape(c, fr, a)
    BY <2>1
  <2>3. /\ a.start \in Nat /\ a.start <= Size
        /\ a.start = 0 \/ (a.start = f.resume /\ f.resume > 0)
    BY <1>0, AnswersAre
  <2>4. f.written = 0 /\ Len(s) = f.resume /\ f.result # "OK"
    BY <2>2 DEF HeadShape, SinkOK, HeadPcs
  <2>5. Len(z) = a.start /\ Pure(z, ResourceOf[c])
    <3>1. CASE a.start = 0 /\ f.resume > 0
      <4>1. z = << >>
        BY <1>0, <2>2, <3>1 DEF HeadShape
      <4> QED BY <3>1, <4>1 DEF Pure
    <3>2. CASE ~(a.start = 0 /\ f.resume > 0)
      <4>1. z = s
        BY <2>2, <3>2 DEF HeadShape
      <4> QED BY <1>0, <2>3, <2>4, <3>2, <4>1
    <3> QED BY <3>1, <3>2
  <2>6. /\ g.start = a.start /\ g.written = 0
        /\ \/ g.pc = "end" /\ g.framing = "none" /\ g.result = "OK" /\ a.start = Size
           \/ g.pc \in {"poll", "buffered"} /\ g.framing = fr /\ g.result # "OK"
    BY <2>2, <2>4 DEF HeadShape
  <2>7. fr \notin {"none", "trailers"}
    BY ChoiceAssumption
  <2>8. SinkOK(g, z)
    <3>1. a.start + 0 = a.start
      BY <2>3
    <3> QED BY <2>3, <2>5, <2>6, <2>7, <3>1 DEF SinkOK, HeadPcs
  <2> QED BY <2>5, <2>8
<1>4. CASE RecvBody(c)
  <2>1. PICK k \in 1..Remaining(c) : BodyShape(c, k)
    BY <1>4, BodyShapes
  <2>2. /\ k \in Nat /\ f.framing # "none" /\ f.framing \in Framings \cup {"trailers"}
        /\ Len(s) = f.start + f.written /\ f.start + f.written + k <= Size /\ f.framing # "trailers"
        /\ f.result # "OK"
    <3>1. f.framing # "none" /\ f.pc \in {"recv", "buffered"}
      BY <2>1 DEF BodyShape
    <3>2. k \in Nat /\ 1 <= k /\ k <= Size - f.start - f.written
      BY <1>0, <2>1
    <3>3. f.start + f.written + k <= Size /\ f.start + f.written # Size
      BY <1>0, <3>2
    <3> QED BY <3>1, <3>2, <3>3 DEF SinkOK
  <2>3. z = Written(s, Len(s), k, ResourceOf[c])
    BY <1>0, <2>1, <2>2 DEF BodyShape
  <2>4. Len(z) = f.start + f.written + k /\ Pure(z, ResourceOf[c])
    BY <1>0, <2>2, <2>3, WrittenPure
  <2>5. /\ g.start = f.start /\ g.written = f.written + k
        /\ \/ g.pc = "end" /\ g.framing = "none" /\ g.result = "OK" /\ Remaining(c) = k
           \/ g.pc \in {"poll", "buffered"} /\ g.framing = f.framing /\ g.result # "OK"
    BY <2>1, <2>2 DEF BodyShape
  <2>6. f.start + (f.written + k) = f.start + f.written + k /\ (Remaining(c) = k => f.start + f.written + k = Size)
    BY <1>0, <2>2
  <2>7. SinkOK(g, z)
    BY <2>2, <2>4, <2>5, <2>6 DEF SinkOK, HeadPcs
  <2> QED BY <2>4, <2>7
<1>5. CASE WriteFails(c)
  <2>1. PICK k \in 0..(Remaining(c) - 1) : WriteFailShape(c, k)
    BY <1>5, WriteFailShapes
  <2>2. g.pc = "end" /\ g.result = "ERROR_WRITE" /\ g.framing = "none"
    <3>1. g = ResultOf(f, "ERROR_WRITE")
      BY <2>1 DEF WriteFailShape
    <3> QED BY <1>0, <3>1 DEF ResultOf, Transfers
  <2>3. SinkOK(g, z)
    BY <2>2 DEF SinkOK, HeadPcs
  <2>4. Pure(z, ResourceOf[c])
    <3>1. CASE k = 0
      BY <2>1, <3>1 DEF WriteFailShape
    <3>2. CASE k # 0
      <4>1. k \in Nat /\ Len(s) = f.start + f.written
        BY <1>0, <2>1 DEF WriteFailShape, SinkOK
      <4>2. z = Written(s, Len(s), k, ResourceOf[c])
        BY <1>0, <2>1, <3>2, <4>1 DEF WriteFailShape
      <4> QED BY <1>0, <4>1, <4>2, WrittenPure
    <3> QED BY <3>1, <3>2
  <2> QED BY <2>3, <2>4
<1> QED BY <1>1, <1>2, <1>3, <1>4, <1>5, TransportKinds

\* Only the calls and tasks of others move: what was said of t still holds.
LEMMA ContentSame ==
    ASSUME NEW t \in Tasks, ContentOf(t), UNCHANGED <<part, content>>, fetch'[t] = fetch[t],
           task'[t].pc = task[t].pc, task'[t].ino = task[t].ino, task'[t].resume = task[t].resume
    PROVE  ContentOf(t)'
<1>1. PartSize(t)' = PartSize(t)
  BY DEF PartSize
<1> QED BY <1>1 DEF ContentOf

\* Finished files stay as they are.
LEMMA DestSame ==
    ASSUME DestComplete, UNCHANGED <<dest, content>>
    PROVE  DestComplete'
BY DEF DestComplete, IsWhole

\* The steps of a worker that leave the paths alone, and enqueue().
LEMMA WorkerContent ==
    ASSUME DlInv, PathInv, ContentInv, NEW t \in Tasks,
           \/ LocalStep(t) \/ Enqueue(t) \/ Report(t)
           \/ WorkerLookup(t) \/ ReserveId(t) \/ ReserveIdFails(t) \/ CallFetch(t) \/ FetchReturns(t)
    PROVE  ContentInv'
<1>0. fetch[t] \in Transfers /\ ContentOf(t) /\ HoldOf(t) /\ CallOK(task[t], fetch[t])
  BY TaskFacts DEF ContentInv, PathInv
<1>1. ASSUME UNCHANGED <<part, dest, content>>, ContentOf(t)',
             \A u \in Tasks \ {t} : task'[u] = task[u] /\ fetch'[u] = fetch[u]
      PROVE  ContentInv'
  <2>1. \A u \in Tasks \ {t} : ContentOf(u)'
    BY <1>1, ContentSame DEF ContentInv
  <2> QED BY <1>1, <2>1, DestSame DEF ContentInv
<1>2. CASE LocalStep(t)
  <2>1. LocalShape(t) /\ UNCHANGED <<part, dest, content, fetch>>
    BY <1>2, LocalShapes DEF LocalStep, Start, EnsureParentDir, Measure, OpenFails, PublishId, CheckCanceled,
         DupFails, StoreOnDisk, RenameFails, FinalSize, StatPart, Finish, Local, httpVars
  <2>2. PartSize(t)' = PartSize(t)
    BY <2>1 DEF PartSize
  <2>3. /\ task'[t].ino = task[t].ino
        /\ task'[t].pc \in UnopenedPcs => task[t].pc \in UnopenedPcs
        /\ task'[t].pc = "open" => task'[t].resume = PartSize(t)
        /\ task'[t].pc \in OpenPcs => task[t].pc \in OpenPcs \ {"fetching"} /\ task'[t].resume = task[t].resume
        /\ task'[t].pc # "fetching" /\ task'[t].pc # "store" /\ (task'[t].pc = "rename" => task[t].pc = "store")
    BY <2>1 DEF LocalShape, UnopenedPcs, OpenPcs
  <2>4. ContentOf(t)'
    BY <1>0, <2>1, <2>2, <2>3 DEF ContentOf
  <2> QED BY <1>1, <2>1, <2>4 DEF LocalShape
<1>3. CASE WorkerLookup(t) \/ ReserveId(t) \/ ReserveIdFails(t) \/ CallFetch(t) \/ FetchReturns(t)
  <2>1. CallShape(t) /\ UNCHANGED <<part, dest, content>>
    BY <1>3, CallShapes
  <2>2. PartSize(t)' = PartSize(t) /\ task'[t].ino = task[t].ino /\ task'[t].resume = task[t].resume
    BY <2>1 DEF PartSize, CallShape
  <2>3. CASE fetch'[t] = fetch[t]
    <3>1. /\ task'[t].pc \notin UnopenedPcs
          /\ task'[t].pc \in OpenPcs => task[t].pc \in OpenPcs \ {"fetching"}
          /\ task'[t].pc # "rename"
          /\ task'[t].pc = "store" => task[t].pc = "fetching" /\ fetch[t].pc = "replied" /\ fetch[t].result = "OK"
      BY <1>0, <2>1, <2>3 DEF CallShape, OpenPcs, UnopenedPcs, CallOK
    <3>2. task'[t].pc # "fetching"
      <4>1. task'[t].pc # "fetching" \/ fetch[t].pc = "reserved"
        BY <2>1 DEF CallShape
      <4>2. fetch[t].pc = "reserved" =>
               /\ ReplyOf(fetch[t], "DEAD_OBJECT").pc = "replied"
               /\ [fetch[t] EXCEPT !.pc = "queued", !.ino = task[t].ino, !.resume = task[t].resume].pc = "queued"
        BY <1>0, ReplyTyped DEF Results, Transfers
      <4> QED BY <2>1, <2>3, <4>1, <4>2 DEF CallShape
    <3>3. ContentOf(t)'
      BY <1>0, <2>1, <2>2, <2>3, <3>1, <3>2 DEF ContentOf, UnopenedPcs
    <3> QED BY <1>1, <2>1, <3>3 DEF CallShape
  <2>4. CASE /\ task[t].pc = "newId" /\ task'[t].pc = "publish" /\ fetch[t].pc = "none"
             /\ fetch'[t] = [fetch[t] EXCEPT !.pc = "reserved", !.id = fetch'[t].id, !.inst = fetch'[t].inst]
    <3>1. /\ fetch'[t].pc = "reserved" /\ fetch'[t].framing = fetch[t].framing /\ fetch'[t].written = fetch[t].written
          /\ fetch'[t].start = fetch[t].start /\ fetch'[t].result = fetch[t].result
      BY <1>0, <2>4 DEF Transfers
    <3>2. ASSUME NEW z PROVE SinkOK(fetch'[t], z)
      BY <1>0, <2>4, <3>1 DEF ContentOf, SinkOK, HeadPcs
    <3>3. ContentOf(t)'
      BY <1>0, <2>1, <2>2, <2>4, <3>2 DEF ContentOf, UnopenedPcs, OpenPcs
    <3> QED BY <1>1, <2>1, <3>3 DEF CallShape
  <2>5. CASE /\ task[t].pc = "call" /\ task'[t].pc = "fetching" /\ fetch[t].pc = "reserved"
             /\ fetch'[t] = [fetch[t] EXCEPT !.pc = "queued", !.ino = task[t].ino, !.resume = task[t].resume]
    <3>1. /\ fetch'[t].pc = "queued" /\ fetch'[t].framing = fetch[t].framing /\ fetch'[t].written = fetch[t].written
          /\ fetch'[t].start = fetch[t].start /\ fetch'[t].result = fetch[t].result
          /\ fetch'[t].ino = task[t].ino /\ fetch'[t].resume = task[t].resume
      <4>1. task[t].ino \in Inodes \cup {NoInode} /\ task[t].resume \in Nat
        BY TaskFacts DEF TaskRecs
      <4> QED BY <1>0, <2>5, <4>1 DEF Transfers
    <3>2. Len(content[task[t].ino]) = task[t].resume
      BY <1>0, <2>5 DEF ContentOf, OpenPcs
    <3>3. SinkOK(fetch'[t], content[task[t].ino])
      BY <1>0, <2>5, <3>1, <3>2 DEF ContentOf, SinkOK, HeadPcs
    <3>4. ContentOf(t)'
      BY <1>0, <2>1, <2>2, <2>5, <3>1, <3>3 DEF ContentOf, UnopenedPcs, OpenPcs
    <3> QED BY <1>1, <2>1, <3>4 DEF CallShape
  <2>6. CASE /\ task[t].pc = "call" /\ task'[t].pc = "fetching" /\ fetch[t].pc = "reserved"
             /\ fetch'[t] = ReplyOf(fetch[t], "DEAD_OBJECT")
    <3>1. /\ fetch'[t].pc = "replied" /\ fetch'[t].framing = "none" /\ fetch'[t].result = "DEAD_OBJECT"
      BY <1>0, <2>6 DEF ReplyOf, NoFetch
    <3>2. ASSUME NEW z PROVE SinkOK(fetch'[t], z)
      BY <3>1 DEF SinkOK, HeadPcs
    <3>3. ContentOf(t)'
      BY <1>0, <2>1, <2>2, <2>6, <3>1, <3>2 DEF ContentOf, UnopenedPcs, OpenPcs
    <3> QED BY <1>1, <2>1, <3>3 DEF CallShape
  <2> QED BY <2>1, <2>3, <2>4, <2>5, <2>6 DEF CallShape
<1>4. CASE Report(t) \/ Enqueue(t)
  <2>1. PathShape(t) /\ UNCHANGED <<fetch, content, part, dest>> /\ task[t].pc \in {"report", "none"}
    BY <1>4, PathShapes DEF Report, Enqueue
  <2>2. task'[t].pc \in {"done", "start"} /\ (task'[t].pc = "start" => task[t].pc = "none")
    BY <2>1 DEF PathShape
  <2>3. ContentOf(t)'
    BY <1>0, <2>1, <2>2 DEF ContentOf, UnopenedPcs, OpenPcs
  <2> QED BY <1>1, <2>1, <2>3 DEF PathShape
<1> QED BY <1>2, <1>3, <1>4

\* open(), rename() and unlink() of the .part.
LEMMA DiskContent ==
    ASSUME DlInv, PathInv, ContentInv, NEW t \in Tasks, OpenPart(t) \/ Rename(t) \/ UnlinkPart(t)
    PROVE  ContentInv'
<1> DEFINE d == DestOf[t]
<1>0. /\ d \in Dests /\ part \in [Dests -> Inodes \cup {NoInode}] /\ dest \in [Dests -> Inodes \cup {NoInode}]
      /\ content \in [Inodes -> Seq(Bytes)]
      /\ PathShape(t) /\ UNCHANGED <<fetch, content>> /\ task[t].pc \in {"open", "rename", "unlink"}
      /\ DestOf \in [Tasks -> Dests] /\ \A u \in Tasks \ {t} : task'[u] = task[u]
      /\ t \in Inodes /\ NoInode \notin Inodes
  BY TaskFacts, PathShapes, TasksAssumption, NamesAssumption
     DEF DlInv, ControlInv, DlTyped, OpenPart, Rename, UnlinkPart, PathShape, HttpInv, HttpTypeOK
<1>1. /\ HoldOf(t) /\ ContentOf(t) /\ DestComplete
      /\ \A u \in Tasks : ContentOf(u)
  BY DEF PathInv, ContentInv
<1>2. Active(t) /\ \A u \in Tasks \ {t} : DestOf[u] = d => ~Active(u)
  BY <1>0, HeldActive DEF OneWriter, HeldPcs, PathInv
<1>3. \A e \in Dests \ {d} : part'[e] = part[e] /\ dest'[e] = dest[e]
  BY <1>0 DEF PathShape
<1>4. part'[d] # NoInode => part'[d] = part[d] \/ (part'[d] = t /\ content[t] = << >>)
  BY <1>0, <1>1 DEF PathShape, ContentOf, UnopenedPcs
<1>5. ASSUME NEW u \in Tasks, part'[DestOf[u]] # NoInode
      PROVE  Pure(content[part'[DestOf[u]]], ResourceOf[u])
  BY <1>0, <1>1, <1>3, <1>4, <1>5 DEF ContentOf, Pure
<1>6. ASSUME NEW u \in Tasks \ {t}
      PROVE  ContentOf(u)'
  <2>1. task[u].pc = "open" => PartSize(u)' = PartSize(u)
    <3>1. task[u].pc = "open" => DestOf[u] # d
      BY <1>2, HeldActive
    <3> QED BY <1>0, <1>3, <3>1 DEF PartSize
  <2> QED BY <1>0, <1>1, <1>5, <2>1 DEF ContentOf
<1>7. CASE task[t].pc = "open"
  <2>1. /\ task'[t].pc = "lookup" /\ dest' = dest /\ task'[t].ino = part'[d] /\ task'[t].resume = task[t].resume
        /\ part'[d] = (IF part[d] = NoInode THEN t ELSE part[d])
    BY <1>0, <1>7 DEF PathShape
  <2>2. task[t].resume = Len(content[part'[d]])
    BY <1>0, <1>1, <1>7, <2>1 DEF ContentOf, PartSize, UnopenedPcs
  <2>3. ContentOf(t)'
    BY <1>0, <1>1, <1>5, <2>1, <2>2 DEF ContentOf, UnopenedPcs
  <2>4. DestComplete'
    BY <1>0, <1>1, <2>1, DestSame
  <2> QED BY <1>6, <2>3, <2>4 DEF ContentInv
<1>8. CASE task[t].pc = "rename"
  <2>1. /\ task'[t].pc = "size" /\ part'[d] = NoInode /\ dest'[d] = part[d] /\ part[d] # NoInode
    BY <1>0, <1>8 DEF PathShape
  <2>2. ContentOf(t)'
    BY <1>0, <1>1, <2>1 DEF ContentOf, UnopenedPcs, OpenPcs
  <2>3. part[d] = task[t].ino
    BY <1>1, <1>8 DEF HoldOf, HeldPcs
  <2>4. content[part[d]] = Whole(t)
    BY <1>0, <1>1, <1>8, <2>1, <2>3, PureWhole DEF ContentOf
  <2>5. DestComplete'
    <3> SUFFICES ASSUME NEW e \in Dests, dest'[e] # NoInode
                 PROVE  \E u \in Tasks : DestOf[u] = e /\ content[dest'[e]] = Whole(u)
      BY <1>0 DEF DestComplete, IsWhole, Whole
    <3>1. CASE e = d
      BY <2>1, <2>4, <3>1
    <3>2. CASE e # d
      BY <1>1, <1>3, <3>2 DEF DestComplete, IsWhole
    <3> QED BY <3>1, <3>2
  <2> QED BY <1>6, <2>2, <2>5 DEF ContentInv
<1>9. CASE task[t].pc = "unlink"
  <2>1. /\ task'[t].pc = "finish" /\ part'[d] = NoInode /\ dest' = dest
    BY <1>0, <1>9 DEF PathShape
  <2>2. ContentOf(t)'
    BY <1>0, <1>1, <2>1 DEF ContentOf, UnopenedPcs, OpenPcs
  <2>3. DestComplete'
    BY <1>0, <1>1, <2>1, DestSame
  <2> QED BY <1>6, <2>2, <2>3 DEF ContentInv
<1> QED BY <1>0, <1>7, <1>8, <1>9

\* The relay, cancel(), the registry, and nothing at all.
LEMMA OtherContent ==
    ASSUME DlInv, PathInv, ContentInv,
           \/ \E t \in Tasks : Relay(t) \/ ClientCancel(t)
           \/ Canceller \/ Register \/ Reap \/ Quiet \/ UNCHANGED vars
    PROVE  ContentInv'
<1>1. /\ UNCHANGED <<part, dest, content, fetch>>
      /\ \A u \in Tasks : /\ task'[u].pc = task[u].pc /\ task'[u].ino = task[u].ino
                          /\ task'[u].resume = task[u].resume
  BY OtherPath
<1> QED BY <1>1, ContentSame, DestSame DEF ContentInv

\* The http process.
LEMMA ProcessContent ==
    ASSUME OneResource, Framed, DlInv, PathInv, ContentInv, HttpProcess, UNCHANGED dlVars
    PROVE  ContentInv'
<1>0. /\ HttpInv /\ HttpTypeOK /\ UNCHANGED <<task, part, dest>> /\ fetch \in [Calls -> Transfers]
      /\ part \in [Dests -> Inodes \cup {NoInode}] /\ dest \in [Dests -> Inodes \cup {NoInode}]
      /\ NoInode \notin Inodes /\ DestOf \in [Tasks -> Dests] /\ \A t \in Tasks : t \in Inodes
      /\ \A t \in Tasks : ContentOf(t) /\ HoldOf(t)
  BY NamesAssumption, TasksAssumption
     DEF DlInv, ControlInv, DlTyped, HttpInv, HttpTypeOK, dlVars, ContentInv, PathInv
<1>1. ASSUME NEW c \in Calls, Transport(c)
      PROVE  ContentInv'
  <2> DEFINE i == fetch[c].ino
  <2>1. fetch[c].pc \in HandedPcs
    BY <1>0, <1>1, TransportMoves, PcSets DEF Moves, HandedPcs
  <2>2. /\ \A j \in Inodes : j # i => content'[j] = content[j]
        /\ fetch'[c].ino = i /\ \A d \in Calls \ {c} : fetch'[d] = fetch[d]
    BY <1>0, <1>1, TransportSink, TransportMoves DEF Moves
  <2>3. /\ task[c].pc = "fetching" /\ i = task[c].ino /\ i \in Inodes /\ part[DestOf[c]] = i
        /\ \A d \in Dests : dest[d] # i /\ (d # DestOf[c] => part[d] # i)
        /\ \A u \in Tasks : task[u].pc \in UnopenedPcs => u # i
        /\ \A u \in Tasks : u # c /\ DestOf[u] = DestOf[c] => ~Active(u)
    BY <2>1, WriteTouches
  <2>4. SinkOK(fetch'[c], content'[i]) /\ Pure(content'[i], ResourceOf[c])
    <3>1. Pure(content[i], ResourceOf[c]) /\ SinkOK(fetch[c], content[i])
      BY <1>0, <2>3 DEF ContentOf
    <3> QED BY <1>0, <1>1, <2>3, <3>1, TransportContent
  <2>5. ASSUME NEW u \in Tasks, part[DestOf[u]] # NoInode
        PROVE  Pure(content'[part[DestOf[u]]], ResourceOf[u])
    <3>1. CASE DestOf[u] = DestOf[c]
      BY <2>3, <2>4, <3>1 DEF OneResource
    <3>2. CASE DestOf[u] # DestOf[c]
      BY <1>0, <2>2, <2>3, <2>5, <3>2 DEF ContentOf
    <3> QED BY <3>1, <3>2
  <2>6. ContentOf(c)'
    <3>1. fetch'[c].pc # "replied"
      BY <1>0, <1>1, TransportMoves, PcSets DEF Moves
    <3> QED BY <1>0, <2>2, <2>3, <2>4, <2>5, <3>1 DEF ContentOf, UnopenedPcs
  <2>7. ASSUME NEW u \in Tasks \ {c}
        PROVE  ContentOf(u)'
    <3>1. fetch'[u] = fetch[u] /\ task'[u] = task[u] /\ part' = part
      BY <1>0, <2>2
    <3>2. Active(u) => DestOf[u] # DestOf[c] /\ part[DestOf[u]] # i
      BY <1>0, <2>3
    <3>3. task[u].pc = "open" => PartSize(u)' = PartSize(u)
      BY <1>0, <2>2, <3>2, HeldActive DEF PartSize
    <3>4. task[u].pc \in HeldPcs => content'[task[u].ino] = content[task[u].ino]
      BY <1>0, <2>2, <3>2, HeldActive DEF HoldOf
    <3>5. task[u].pc \in UnopenedPcs => content'[u] = content[u]
      BY <1>0, <2>2, <2>3
    <3>6. SinkOK(fetch[u], content'[fetch[u].ino])
      <4>1. CASE fetch[u].pc \in HandedPcs
        <5>1. task[u].pc \in HeldPcs /\ fetch[u].ino = task[u].ino
          BY <1>0, <4>1, HeldActive DEF HoldOf, HeldPcs, OpenPcs
        <5> QED BY <1>0, <3>4, <5>1 DEF ContentOf
      <4>2. CASE fetch[u].pc \notin HandedPcs
        BY <1>0, <4>2, SinkFree DEF ContentOf
      <4> QED BY <4>1, <4>2
    <3>7. OpenPcs \ {"fetching"} \subseteq HeldPcs /\ {"store", "rename", "fetching"} \subseteq HeldPcs
      BY DEF HeldPcs, OpenPcs
    <3> QED BY <1>0, <2>5, <3>1, <3>3, <3>4, <3>5, <3>6, <3>7 DEF ContentOf
  <2>8. DestComplete'
    <3>1. \A d \in Dests : dest[d] # NoInode => content'[dest[d]] = content[dest[d]]
      BY <1>0, <2>2, <2>3
    <3> QED BY <1>0, <3>1 DEF ContentInv, DestComplete, IsWhole, Whole
  <2> QED BY <2>6, <2>7, <2>8 DEF ContentInv
<1>2. CASE (\A c \in Calls : ~Transport(c)) /\ content' = content
  <2>1. ASSUME NEW u \in Tasks PROVE ContentOf(u)'
    <3>0. fetch[u] \in Transfers /\ CallMoves(fetch[u], fetch'[u])
      BY <1>0, <1>2, ProcessMoves
    <3>1. PartSize(u)' = PartSize(u)
      BY <1>0, <1>2 DEF PartSize
    <3>2. CASE fetch'[u] = fetch[u]
      BY <1>0, <1>2, <3>2, ContentSame
    <3>3. CASE /\ fetch'[u].ino = fetch[u].ino /\ fetch'[u].resume = fetch[u].resume
               /\ fetch'[u].framing = fetch[u].framing /\ fetch'[u].start = fetch[u].start
               /\ fetch'[u].written = fetch[u].written /\ fetch'[u].result = fetch[u].result
               /\ <<fetch[u].pc, fetch'[u].pc>> \in {<<"queued", "begun">>, <<"begun", "hop">>, <<"end", "ended">>}
      <4>1. SinkOK(fetch'[u], content[fetch[u].ino])
        BY <1>0, <3>3 DEF ContentOf, SinkOK, HeadPcs
      <4>2. fetch'[u].pc # "replied"
        BY <3>3
      <4> QED BY <1>0, <1>2, <3>1, <3>3, <4>1, <4>2 DEF ContentOf
    <3>4. CASE /\ fetch[u].pc \in HandedPcs /\ fetch'[u].pc = "replied" /\ fetch'[u].framing = "none"
               /\ \/ fetch'[u].result \in {"DEAD_OBJECT", "ERROR_WRITE"}
                  \/ fetch[u].pc = "ended" /\ fetch'[u].result = fetch[u].result
      <4>1. ASSUME NEW z PROVE SinkOK(fetch'[u], z)
        BY <3>4 DEF SinkOK, HeadPcs
      <4>2. task[u].pc = "fetching" /\ fetch[u].ino = task[u].ino
        BY <1>0, <3>4, HeldActive DEF HoldOf
      <4>3. fetch'[u].result = "OK" => Len(content[task[u].ino]) = Size
        BY <1>0, <3>4, <4>2 DEF ContentOf, SinkOK
      <4> QED BY <1>0, <1>2, <3>1, <4>1, <4>2, <4>3 DEF ContentOf
    <3> QED BY <3>0, <3>2, <3>3, <3>4, MovedCall
  <2> QED BY <1>0, <1>2, <2>1, DestSame DEF ContentInv
<1> QED BY <1>0, <1>1, <1>2, ProcessKinds

\* In the beginning a .part is a piece of what its path is asked for.
LEMMA InitContent == Init => ContentInv
<1> SUFFICES ASSUME Init PROVE ContentInv
  OBVIOUS
<1>1. NewTask.pc = "none" /\ NoFetch.pc = "none" /\ NoFetch.framing = "none" /\ NoFetch.written = 0
      /\ NoFetch.start = 0 /\ NoFetch.result = "none"
  BY DEF NewTask, NoFetch
<1>2. \A t \in Tasks : task[t] = NewTask /\ fetch[t] = NoFetch /\ content[t] = << >>
  BY DEF Init, InitHttp
<1>3. \A d \in Dests : part[d] \in {d, NoInode} /\ dest[d] = NoInode
  BY DEF Init
<1>4. ASSUME NEW t \in Tasks, part[DestOf[t]] # NoInode
      PROVE  Pure(content[part[DestOf[t]]], ResourceOf[t])
  <2>1. DestOf[t] \in Dests /\ part[DestOf[t]] = DestOf[t]
    BY <1>3, <1>4, TasksAssumption
  <2>2. content[DestOf[t]] = Piece(Len(content[DestOf[t]]), t)
    BY <2>1 DEF Init
  <2> DEFINE n == Len(content[DestOf[t]])
  <2> HIDE DEF n
  <2>3. content[DestOf[t]] = [i \in 1..n |-> ResourceOf[t]]
    BY <2>2 DEF n, Piece
  <2> QED BY <2>1, <2>3 DEF Pure
<1>5. ASSUME NEW t \in Tasks PROVE ContentOf(t)
  <2>1. SinkOK(fetch[t], content[fetch[t].ino])
    BY <1>1, <1>2 DEF SinkOK, HeadPcs
  <2> QED BY <1>1, <1>2, <1>4, <2>1 DEF ContentOf, OpenPcs
<1>6. DestComplete
  BY <1>3 DEF DestComplete
<1> QED BY <1>5, <1>6 DEF ContentInv

FileInv == DlInv /\ PathInv /\ ContentInv

\* Every step keeps the files right.
LEMMA NextFiles ==
    ASSUME OneAtATime, OneResource, Framed
    PROVE  FileInv /\ [Next]_vars => FileInv'
<1> SUFFICES ASSUME DlInv, PathInv, ContentInv, [Next]_vars PROVE FileInv'
  BY DEF FileInv
<1>1. ASSUME NEW t \in Tasks, Enqueue(t) \/ Worker(t)
      PROVE  ContentInv'
  BY <1>1, WorkerContent, DiskContent DEF Worker, LocalStep
<1>2. ContentInv'
  BY <1>1, OtherContent, ProcessContent DEF Next
<1> QED BY <1>2, NextDl, NextPath DEF FileInv

\* The inductive invariant of the files, if clients do not download to a path
\* twice at a time, a path stands for one resource, and a body that only the end
\* of the connection delimits is not cut short.
THEOREM FilesInvariant ==
    ASSUME OneAtATime, OneResource, Framed
    PROVE  Spec => []FileInv
<1>1. Init => FileInv
  BY InitDl, InitPath, InitContent DEF FileInv
<1> QED BY <1>1, NextFiles, PTL DEF Spec

\* "Rename last: once destPath exists, it is guaranteed to be complete": through
\* resumes, restarted servers, crashes, cancels and failed writes.
THEOREM DownloadDestComplete ==
    ASSUME OneAtATime, OneResource, Framed
    PROVE  Spec => []DestComplete
<1>1. FileInv => DestComplete
  BY DEF FileInv, ContentInv
<1> QED BY <1>1, FilesInvariant, PTL

\* fetchToFd() reports success only for a file that is the whole resource, byte
\* for byte.
THEOREM DownloadOkMeansWhole ==
    ASSUME OneAtATime, OneResource, Framed
    PROVE  Spec => []OkMeansWhole
<1>1. ASSUME FileInv, NEW c \in Calls, fetch[c].pc \in {"end", "ended"}, fetch[c].result = "OK"
      PROVE  content[fetch[c].ino] = Whole(c)
  <2>1. fetch[c].pc \in HandedPcs
    BY <1>1, PcSets DEF HandedPcs
  <2>2. part[DestOf[c]] = fetch[c].ino /\ fetch[c].ino \in Inodes
    BY <1>1, <2>1, WriteTouches DEF FileInv
  <2>3. content[fetch[c].ino] \in Seq(Bytes) /\ NoInode \notin Inodes
    BY <1>1, <2>2, NamesAssumption DEF FileInv, DlInv, HttpInv, HttpTypeOK
  <2>4. Pure(content[fetch[c].ino], ResourceOf[c]) /\ Len(content[fetch[c].ino]) = Size
    BY <1>1, <2>2, <2>3 DEF FileInv, ContentInv, ContentOf, SinkOK
  <2> QED BY <2>3, <2>4, PureWhole
<1>2. FileInv => OkMeansWhole
  BY <1>1 DEF OkMeansWhole
<1> QED BY <1>2, FilesInvariant, PTL

-------------------------------------------------------------------------------
(* Who asked for a cancel *)

\* Ids are not used twice: the http service never restarts, or there is only one
\* download whose cancel its ids could carry.
IdsLast == MaxCrashes = 0 \/ \A t, u \in Tasks : t = u

\* Somebody cancelled a download that has this id.
AskedFor(id) == \E u \in Tasks : task[u].canceled /\ fetch[u].id = id /\ fetch[u].pc # "none"

\* How often the process may have been started.
AgeOK == instance <= MaxCrashes + 1 /\ (~up => instance <= MaxCrashes)

\* A mark in the request table, and a cancel() on its way, were asked for.
MarksOK ==
    /\ \A id \in Ids : mRequests[id].canceled => AskedFor(id)
    /\ \A i \in DOMAIN cancelQ : AskedFor(cancelQ[i])

\* A download that is told it was cancelled was.
CanceledOf(t) ==
    fetch[t].result = "ERROR_CANCELED" \/ task[t].outcome = "CANCELED" => task[t].canceled

AskInv == AgeOK /\ MarksOK /\ \A t \in Tasks : CanceledOf(t)

\* The mark of a call under way is its own: no other call has its id.
LEMMA OwnMark ==
    ASSUME IdsLast, DlInv, AskInv, NEW c \in Tasks, fetch[c].pc \in ServedPcs, IsCanceled(c)
    PROVE  task[c].canceled
<1>0. /\ fetch[c].id \in Ids /\ fetch[c].pc # "none" /\ instance \in Nat
      /\ \A u \in Tasks : fetch[u].inst \in Nat /\ fetch[u].inst <= instance
      /\ \A u \in Tasks : fetch[u].pc = "none" <=> fetch[u].inst = 0
  BY PcSets DEF DlInv, HttpInv, HttpTypeOK, TableInv, CallFacts, Transfers
<1>1. PICK u \in Tasks : task[u].canceled /\ fetch[u].id = fetch[c].id /\ fetch[u].pc # "none"
  BY <1>0 DEF AskInv, MarksOK, IsCanceled, AskedFor
<1>2. CASE \A t, v \in Tasks : t = v
  BY <1>1, <1>2
<1>3. CASE MaxCrashes = 0
  <2>1. instance <= 1
    BY <1>0, <1>3 DEF AskInv, AgeOK
  <2>2. fetch[u].inst = instance /\ fetch[c].inst = instance
    BY <1>0, <1>1, <2>1
  <2>3. u = c
    BY <1>1, <2>2 DEF DlInv, HttpInv, TableInv, IdsUnique
  <2> QED BY <1>1, <2>3
<1> QED BY <1>2, <1>3 DEF IdsLast

\* Nothing is taken back of what a cancel left.
LEMMA AskedKept ==
    ASSUME \A u \in Tasks : task[u].canceled => task'[u].canceled,
           \A u \in Tasks : fetch[u].pc # "none" => fetch'[u].pc # "none" /\ fetch'[u].id = fetch[u].id,
           NEW id, AskedFor(id)
    PROVE  AskedFor(id)'
BY DEF AskedFor

\* Marks and messages stay where they are.
LEMMA MarksSame ==
    ASSUME MarksOK, UNCHANGED <<mRequests, cancelQ>>,
           \A u \in Tasks : task[u].canceled => task'[u].canceled,
           \A u \in Tasks : fetch[u].pc # "none" => fetch'[u].pc # "none" /\ fetch'[u].id = fetch[u].id
    PROVE  MarksOK'
<1>1. \A id : AskedFor(id) => AskedFor(id)'
  BY AskedKept
<1> QED BY <1>1 DEF MarksOK

\* The worker: its verdict is CANCELED if it saw the flag or the http service did.
LEMMA WorkerAsk ==
    ASSUME DlInv, AskInv, NEW t \in Tasks, Enqueue(t) \/ Worker(t)
    PROVE  AskInv'
<1>0. /\ task \in [Tasks -> TaskRecs] /\ fetch \in [Calls -> Transfers] /\ fetch[t] \in Transfers
      /\ CallOK(task[t], fetch[t]) /\ VerdictOK(task[t])
  BY TaskFacts DEF DlInv, ControlInv, DlTyped, HttpInv, HttpTypeOK
<1>1. ASSUME UNCHANGED <<up, instance, mRequests, cancelQ>>,
             \A u \in Tasks \ {t} : task'[u] = task[u] /\ fetch'[u] = fetch[u],
             task'[t].canceled = task[t].canceled, CanceledOf(t)',
             fetch[t].pc # "none" => fetch'[t].pc # "none" /\ fetch'[t].id = fetch[t].id
      PROVE  AskInv'
  <2>1. MarksOK'
    BY <1>1, MarksSame DEF AskInv
  <2>2. AgeOK' /\ \A u \in Tasks : CanceledOf(u)'
    BY <1>1 DEF AskInv, AgeOK, CanceledOf
  <2> QED BY <2>1, <2>2 DEF AskInv
<1>2. UNCHANGED <<up, instance, mRequests, cancelQ>>
  BY DEF Enqueue, Worker, Start, EnsureParentDir, Measure, OpenFails, PublishId, CheckCanceled,
         DupFails, StoreOnDisk, RenameFails, FinalSize, StatPart, Finish, Local, OpenPart, Rename, UnlinkPart, Report,
         WorkerLookup, ReserveId, ReserveIdFails, CallFetch, FetchReturns, NewRequestId, FetchToFd,
         httpVars, tableVars
<1>3. CASE LocalStep(t)
  <2>1. fetch' = fetch
    BY <1>3 DEF LocalStep, Start, EnsureParentDir, Measure, OpenFails, PublishId, CheckCanceled,
         DupFails, StoreOnDisk, RenameFails, FinalSize, StatPart, Finish, Local, httpVars
  <2>2. LocalShape(t)
    BY <1>3, LocalShapes
  <2>3. CanceledOf(t)'
    BY <2>1, <2>2 DEF LocalShape, AskInv, CanceledOf
  <2> QED BY <1>1, <1>2, <2>1, <2>2, <2>3 DEF LocalShape
<1>4. CASE Enqueue(t) \/ OpenPart(t) \/ Rename(t) \/ UnlinkPart(t) \/ Report(t)
  <2>1. PathShape(t) /\ fetch' = fetch
    BY <1>4, PathShapes
  <2>2. CanceledOf(t)'
    BY <2>1 DEF PathShape, AskInv, CanceledOf
  <2> QED BY <1>1, <1>2, <2>1, <2>2 DEF PathShape
<1>5. CASE WorkerLookup(t) \/ ReserveId(t) \/ ReserveIdFails(t) \/ CallFetch(t) \/ FetchReturns(t)
  <2>1. CallShape(t)
    BY <1>5, CallShapes
  <2>2. \/ fetch'[t] = fetch[t]
        \/ fetch[t].pc = "none" /\ fetch'[t].result = fetch[t].result
        \/ fetch'[t].pc # "none" /\ fetch'[t].id = fetch[t].id /\ fetch'[t].result \in {fetch[t].result, "DEAD_OBJECT"}
    <3>1. ASSUME fetch'[t] = ReplyOf(fetch[t], "DEAD_OBJECT")
          PROVE  fetch'[t].pc = "replied" /\ fetch'[t].id = fetch[t].id /\ fetch'[t].result = "DEAD_OBJECT"
      BY <1>0, <3>1, ReplyTyped DEF Results
    <3> QED BY <1>0, <2>1, <3>1 DEF CallShape, Transfers
  <2>3. CanceledOf(t)'
    BY <2>1, <2>2 DEF CallShape, AskInv, CanceledOf
  <2> QED BY <1>1, <1>2, <2>1, <2>2, <2>3 DEF CallShape
<1> QED BY <1>3, <1>4, <1>5 DEF Worker, LocalStep

\* cancel() and its handler, the relay and the registry.
LEMMA OtherAsk ==
    ASSUME DlInv, AskInv,
           \/ \E t \in Tasks : Relay(t) \/ ClientCancel(t)
           \/ Canceller \/ Register \/ Reap \/ Quiet \/ UNCHANGED vars
    PROVE  AskInv'
<1>0. task \in [Tasks -> TaskRecs]
  BY DEF DlInv, ControlInv, DlTyped
<1>1. UNCHANGED <<up, instance, mRequests, fetch>>
  BY DEF Relay, OnResponseStart, OnBytesReceived, ClientCancel, Canceller, SetFlag, ReadId, CancelLookup,
         ForwardCancel, Register, Reap, Quiet, vars, httpVars, dlVars, tableVars
<1>2. \A u \in Tasks : /\ task[u].canceled => task'[u].canceled
                       /\ task'[u].outcome = task[u].outcome
  <2>1. CASE SetFlag
    <3>1. task' = [task EXCEPT ![canceller.task] = [task[canceller.task] EXCEPT !.canceled = TRUE]]
      BY <2>1 DEF SetFlag
    <3> QED BY <1>0, <3>1 DEF TaskRecs
  <2>2. ASSUME NEW t \in Tasks, Relay(t)
        PROVE  \A u \in Tasks : /\ task[u].canceled => task'[u].canceled
                                /\ task'[u].outcome = task[u].outcome
    <3>1. PICK n \in Nat, r \in Nat, m \in Int :
            task' = [task EXCEPT ![t] = [task[t] EXCEPT !.downloaded = n, !.resumedFrom = r, !.total = m]]
      BY <2>2, RelayShape
    <3> QED BY <1>0, <3>1 DEF TaskRecs
  <2>3. CASE ~SetFlag /\ \A t \in Tasks : ~Relay(t)
    BY <2>3 DEF ClientCancel, Canceller, ReadId, CancelLookup, ForwardCancel, Register, Reap, Quiet, vars, dlVars
  <2> QED BY <2>1, <2>2, <2>3
<1>3. MarksOK'
  <2>1. CASE cancelQ' = cancelQ
    BY <1>1, <1>2, <2>1, MarksSame DEF AskInv
  <2>2. CASE cancelQ' # cancelQ
    <3>1. ForwardCancel
      BY <2>2 DEF Relay, OnResponseStart, OnBytesReceived, ClientCancel, Canceller, SetFlag, ReadId, CancelLookup,
         Register, Reap, Quiet, vars, httpVars, dlVars, tableVars
    <3>2. canceller.pc = "send" /\ cancelQ' = Append(cancelQ, canceller.id) /\ task' = task
      BY <2>2, <3>1 DEF ForwardCancel, SendCancel
    <3> DEFINE u == canceller.task
    <3>3. u \in Tasks /\ task[u].canceled /\ canceller.id = task[u].httpRequestId /\ canceller.id # -1
      BY <3>2 DEF DlInv, ControlInv, CancellerFacts
    <3>4. fetch[u].id = canceller.id /\ fetch[u].pc # "none"
      BY <3>3, TaskFacts DEF CallOK
    <3>5. AskedFor(canceller.id)
      BY <3>3, <3>4 DEF AskedFor
    <3>6. canceller.id \in Ids /\ cancelQ \in Seq(Ids)
      BY <3>3 DEF DlInv, ControlInv, DlTyped, CancellerRecs, HttpInv, HttpTypeOK
    <3>7. \A id : AskedFor(id)' <=> AskedFor(id)
      BY <1>1, <3>2 DEF AskedFor
    <3>8. ASSUME NEW i \in DOMAIN cancelQ' PROVE AskedFor(cancelQ'[i])
      <4>1. (i \in DOMAIN cancelQ /\ cancelQ'[i] = cancelQ[i]) \/ cancelQ'[i] = canceller.id
        BY <3>2, <3>6, <3>8
      <4> QED BY <3>5, <4>1 DEF AskInv, MarksOK
    <3> QED BY <1>1, <3>7, <3>8 DEF AskInv, MarksOK
  <2> QED BY <2>1, <2>2
<1> QED BY <1>1, <1>2, <1>3 DEF AskInv, AgeOK, CanceledOf

\* The process answers ERROR_CANCELED only to a call that is marked, and marks
\* only what a message names.
LEMMA ProcessAsk ==
    ASSUME IdsLast, DlInv, AskInv, HttpProcess, UNCHANGED dlVars
    PROVE  AskInv'
<1>0. /\ HttpInv /\ fetch \in [Calls -> Transfers] /\ mRequests \in [Ids -> Requests] /\ cancelQ \in Seq(Ids)
      /\ task' = task /\ instance \in Nat /\ MaxCrashes \in Nat
  BY BoundsAssumption DEF DlInv, HttpInv, HttpTypeOK, dlVars
<1>1. \A u \in Tasks : /\ fetch'[u].id = fetch[u].id
                       /\ fetch[u].pc # "none" => fetch'[u].pc # "none"
  BY <1>0, ProcessCalls, PcSets DEF Served1
<1>2. \A id : AskedFor(id) => AskedFor(id)'
  BY <1>0, <1>1, AskedKept
<1>3. AgeOK'
  <2>1. CASE Crash
    BY <1>0, <2>1 DEF Crash, AskInv, AgeOK
  <2>2. CASE Restart
    BY <1>0, <2>2 DEF Restart, AskInv, AgeOK
  <2>3. ASSUME NEW c \in Calls, Transport(c) PROVE UNCHANGED <<up, instance>>
    BY <1>0, <2>3, TransportMoves DEF Moves, HttpInv
  <2>4. CASE ~Crash /\ ~Restart
    <3>1. UNCHANGED <<up, instance>>
      BY <2>3, <2>4 DEF HttpProcess, Accept, Transfer, Transport, BeginRequest, RejectSink, CountRequest,
                   UncountRequest, EndRequest, GetStringBegin, GetStringEnd, CancelHandler, Expire
    <3> QED BY <3>1 DEF AskInv, AgeOK
  <2> QED BY <2>1, <2>2, <2>4
<1>4. ASSUME NEW t \in Tasks PROVE CanceledOf(t)'
  <2>1. CanceledOf(t)
    BY DEF AskInv
  <2>2. fetch'[t].result = "ERROR_CANCELED" =>
          fetch[t].result = "ERROR_CANCELED" \/ (IsCanceled(t) /\ fetch[t].pc \in ServedPcs)
    BY <1>0, ProcessResult
  <2> QED BY <1>0, <2>1, <2>2, OwnMark DEF CanceledOf
<1>5. /\ \A id \in Ids : mRequests'[id].canceled =>
             mRequests[id].canceled \/ \E i \in DOMAIN cancelQ : cancelQ[i] = id
      /\ \A i \in DOMAIN cancelQ' : \E j \in DOMAIN cancelQ : cancelQ'[i] = cancelQ[j]
  <2> DEFINE Marks == \A id \in Ids : mRequests'[id].canceled =>
                         mRequests[id].canceled \/ \E i \in DOMAIN cancelQ : cancelQ[i] = id
  <2>0. /\ ~NoRequest.canceled /\ ~NewRequest.canceled /\ NoRequest \in Requests /\ NewRequest \in Requests
    BY DEF NoRequest, NewRequest, Requests
  <2>1. ASSUME NEW c \in Calls, Transport(c) PROVE UNCHANGED <<mRequests, cancelQ>>
    BY <1>0, <2>1, TransportMoves DEF Moves, HttpInv, tableVars
  <2>2. CASE UNCHANGED <<mRequests, cancelQ>>
    BY <2>2
  <2>3. ASSUME NEW c \in Calls, BeginRequest(c) PROVE Marks /\ cancelQ' = cancelQ
    <3> DEFINE old == IF mRequests[fetch[c].id].present THEN mRequests[fetch[c].id] ELSE NewRequest
               e == [old EXCEPT !.running = TRUE]
    <3>1. /\ mRequests' = [mRequests EXCEPT ![fetch[c].id] = e] /\ cancelQ' = cancelQ /\ fetch[c].pc = "queued"
      BY <2>3 DEF BeginRequest
    <3>2. fetch[c].id \in Ids
      BY <3>1 DEF DlInv, HttpInv, TableInv, CallFacts
    <3>3. old \in Requests /\ (old.canceled => mRequests[fetch[c].id].canceled)
      BY <1>0, <2>0, <3>2
    <3>4. e.canceled = old.canceled
      BY <3>3 DEF Requests
    <3> QED BY <1>0, <3>1, <3>2, <3>3, <3>4
  <2>4. ASSUME NEW c \in Calls, EndRequest(c) PROVE Marks /\ cancelQ' = cancelQ
    BY <1>0, <2>0, <2>4 DEF EndRequest
  <2>5. CASE CancelHandler
    <3> DEFINE h == Head(cancelQ)
    <3>1. /\ cancelQ # << >> /\ cancelQ' = Tail(cancelQ)
          /\ \/ mRequests' = [mRequests EXCEPT ![h] = [mRequests[h] EXCEPT !.canceled = TRUE]]
             \/ mRequests' = [k \in Ids |-> IF k = h THEN [NewRequest EXCEPT !.canceled = TRUE]
                                            ELSE IF Stale(mRequests[k]) THEN NoRequest ELSE mRequests[k]]
      BY <2>5 DEF CancelHandler
    <3>2. h = cancelQ[1] /\ 1 \in DOMAIN cancelQ
      BY <1>0, <3>1
    <3>3. Marks
      BY <1>0, <2>0, <3>1, <3>2
    <3>4. ASSUME NEW i \in DOMAIN cancelQ' PROVE i + 1 \in DOMAIN cancelQ /\ cancelQ'[i] = cancelQ[i + 1]
      BY <1>0, <3>1, <3>4
    <3> QED BY <3>3, <3>4
  <2>6. ASSUME NEW id \in Ids, Expire(id) PROVE Marks /\ cancelQ' = cancelQ
    BY <1>0, <2>6 DEF Expire, Requests
  <2>7. CASE Crash
    <3>1. /\ \A id \in Ids : mRequests'[id] = NoRequest
          /\ DOMAIN cancelQ' = {}
      BY <2>7 DEF Crash
    <3> QED BY <2>0, <3>1
  <2>8. ASSUME NEW c \in Calls, RejectSink(c) \/ CountRequest(c) \/ UncountRequest(c)
        PROVE  UNCHANGED <<mRequests, cancelQ>>
    BY <2>8 DEF RejectSink, CountRequest, UncountRequest, tableVars
  <2>9. CASE GetStringBegin \/ GetStringEnd \/ Restart
    BY <2>9 DEF GetStringBegin, GetStringEnd, Restart
  <2> QED BY <2>1, <2>2, <2>3, <2>4, <2>5, <2>6, <2>7, <2>8, <2>9 DEF HttpProcess, Accept, Transfer, Transport
<1>6. MarksOK'
  BY <1>2, <1>5 DEF AskInv, MarksOK
<1> QED BY <1>3, <1>4, <1>6 DEF AskInv

\* Nobody has asked for anything in the beginning.
LEMMA InitAsk == Init => AskInv
<1> SUFFICES ASSUME Init PROVE AskInv
  OBVIOUS
<1>1. NoFetch.result = "none" /\ NewTask.outcome = "none" /\ ~NoRequest.canceled
  BY DEF NoFetch, NewTask, NoRequest
<1>2. AgeOK /\ MarksOK /\ \A t \in Tasks : CanceledOf(t)
  BY <1>1, BoundsAssumption DEF Init, InitHttp, AgeOK, MarksOK, CanceledOf
<1> QED BY <1>2 DEF AskInv

\* Every step keeps it.
LEMMA NextAsk ==
    ASSUME IdsLast, DlInv, AskInv, [Next]_vars
    PROVE  AskInv'
BY WorkerAsk, OtherAsk, ProcessAsk DEF Next

-------------------------------------------------------------------------------
(* The promise *)

\* What the promise sees of the state.
Stated == [t \in Tasks |-> task[t].state]
Asked == {t \in Tasks : task[t].canceled}
Published == {t \in Tasks : task[t].pc = "size" \/ task[t].outcome = "COMPLETED"}
Filed == [d \in Dests |-> IF dest[d] = NoInode THEN "none" ELSE IF IsWhole(d) THEN "whole" ELSE "broken"]

\* A path names nothing or a whole file.
LEMMA FiledIs ==
    ASSUME DestComplete
    PROVE  Filed = [d \in Dests |-> IF dest[d] = NoInode THEN "none" ELSE "whole"]
BY DEF DestComplete, Filed

\* A step that changes none of what the promise sees.
LEMMA PromiseStutter ==
    ASSUME DlInv, DestComplete, DestComplete', dest' = dest,
           \A u \in Tasks : /\ task'[u].state = task[u].state /\ task'[u].canceled = task[u].canceled
                            /\ task'[u].pc = "size" \/ task'[u].outcome = "COMPLETED" <=>
                               task[u].pc = "size" \/ task[u].outcome = "COMPLETED"
    PROVE  UNCHANGED Promise!vars
<1>1. Stated' = Stated /\ Asked' = Asked /\ Published' = Published
  BY DEF Stated, Asked, Published
<1>2. Filed' = [d \in Dests |-> IF dest'[d] = NoInode THEN "none" ELSE "whole"]
  BY DEF DestComplete, Filed
<1>3. Filed' = Filed
  BY <1>2, FiledIs
<1> QED BY <1>1, <1>3 DEF Promise!vars, Stated, Asked, Published, Filed

\* A step that changes the recorded state of one task and nothing else.
LEMMA PromiseBecome ==
    ASSUME DlInv, DestComplete, DestComplete', dest' = dest, NEW t \in Tasks, NEW to,
           task'[t].state = to,
           \A u \in Tasks \ {t} : task'[u] = task[u],
           task'[t].canceled = task[t].canceled,
           task'[t].pc = "size" \/ task'[t].outcome = "COMPLETED" <=>
               task[t].pc = "size" \/ task[t].outcome = "COMPLETED"
    PROVE  Promise!Become(t, task[t].state, to)
<1>1. Stated[t] = task[t].state /\ Stated' = [Stated EXCEPT ![t] = to]
  BY DEF Stated
<1>2. Asked' = Asked /\ Published' = Published
  BY DEF Asked, Published
<1>3. Filed' = [d \in Dests |-> IF dest'[d] = NoInode THEN "none" ELSE "whole"]
  BY DEF DestComplete, Filed
<1>4. Filed' = Filed
  BY <1>3, FiledIs
<1> QED BY <1>1, <1>2, <1>4 DEF Promise!Become, Stated, Asked, Published, Filed

\* The worker keeps the promise.
LEMMA WorkerPromise ==
    ASSUME DlInv, AskInv, DestComplete, DestComplete', NEW t \in Tasks, Enqueue(t) \/ Worker(t)
    PROVE  [Promise!Next]_Promise!vars
<1> DEFINE s == task[t]
           g == task'[t]
<1>0. s \in TaskRecs /\ VerdictOK(s) /\ DestOf[t] \in Dests /\ CanceledOf(t)
  BY TaskFacts DEF AskInv
<1>1. CASE LocalStep(t)
  <2>1. LocalShape(t)
    BY <1>1, LocalShapes
  <2>2. dest' = dest
    BY <1>1 DEF LocalStep, Start, EnsureParentDir, Measure, OpenFails, PublishId, CheckCanceled,
         DupFails, StoreOnDisk, RenameFails, FinalSize, StatPart, Finish, Local
  <2>3. CASE s.pc = "start"
    <3>1. s.state = "PENDING" /\ g.state = "RUNNING" /\ g.pc = "dir" /\ g.outcome = s.outcome
      BY <1>0, <2>1, <2>3 DEF LocalShape, VerdictOK
    <3>2. Promise!Become(t, "PENDING", "RUNNING")
      BY <2>1, <2>2, <2>3, <3>1, PromiseBecome DEF LocalShape
    <3> QED BY <3>2 DEF Promise!Next, Promise!Start
  <2>4. CASE s.pc = "finish"
    <3>1. /\ s.state = "RUNNING" /\ g.state = s.outcome /\ g.pc = "report" /\ g.outcome = s.outcome
          /\ s.outcome \in {"COMPLETED", "FAILED", "CANCELED"}
      BY <1>0, <2>1, <2>4 DEF LocalShape, VerdictOK, RunningPcs, WorkerPcs, TaskRecs, Terminal
    <3>2. PICK o \in {"COMPLETED", "FAILED", "CANCELED"} : o = s.outcome
      BY <3>1
    <3>3. Promise!Become(t, "RUNNING", o)
      BY <2>1, <2>2, <2>4, <3>1, <3>2, PromiseBecome DEF LocalShape
    <3>4. /\ t \in Published <=> o = "COMPLETED"
          /\ o = "CANCELED" => t \in Asked
      BY <1>0, <2>4, <3>2 DEF Published, CanceledOf, Asked
    <3>5. Promise!End(t)
      BY <3>3, <3>4 DEF Promise!End, Promise!Complete, Promise!Fail, Promise!Cancel, Published, Asked
    <3> QED BY <3>5 DEF Promise!Next
  <2>5. CASE s.pc \notin {"start", "finish"}
    <3>1. /\ g.state = s.state /\ g.canceled = s.canceled
          /\ g.pc = "size" \/ g.outcome = "COMPLETED" <=> s.pc = "size" \/ s.outcome = "COMPLETED"
      BY <1>0, <2>1, <2>5 DEF LocalShape, VerdictOK
    <3>2. UNCHANGED Promise!vars
      BY <2>1, <2>2, <3>1, PromiseStutter DEF LocalShape
    <3> QED BY <3>2
  <2> QED BY <2>3, <2>4, <2>5
<1>2. CASE Enqueue(t) \/ OpenPart(t) \/ Rename(t) \/ UnlinkPart(t) \/ Report(t)
  <2>1. PathShape(t)
    BY <1>2, PathShapes
  <2>2. CASE s.pc = "none"
    <3>1. /\ s.state = "UNKNOWN" /\ g.state = "PENDING" /\ g.pc = "start" /\ g.outcome = s.outcome
          /\ dest' = dest
      BY <1>0, <2>1, <2>2 DEF PathShape, VerdictOK
    <3>2. Promise!Become(t, "UNKNOWN", "PENDING")
      BY <2>1, <2>2, <3>1, PromiseBecome DEF PathShape
    <3> QED BY <3>2 DEF Promise!Next, Promise!Enqueue
  <2>3. CASE s.pc = "rename"
    <3> DEFINE d == DestOf[t]
    <3>1. /\ g.state = s.state /\ g.canceled = s.canceled /\ g.pc = "size" /\ g.outcome = s.outcome
          /\ \A u \in Tasks \ {t} : task'[u] = task[u]
          /\ part[d] # NoInode /\ dest' = [dest EXCEPT ![d] = part[d]]
      BY <2>1, <2>3 DEF PathShape
    <3>2. s.state = "RUNNING" /\ s.outcome = "none"
      BY <1>0, <2>3 DEF VerdictOK, RunningPcs, WorkerPcs
    <3>3. Stated' = Stated /\ Asked' = Asked /\ Stated[t] = "RUNNING" /\ t \notin Published
      BY <2>3, <3>1, <3>2 DEF Stated, Asked, Published
    <3>4. Published' = Published \cup {t}
      BY <3>1 DEF Published
    <3>5. Filed' = [e \in Dests |-> IF dest'[e] = NoInode THEN "none" ELSE "whole"]
      BY DEF DestComplete, Filed
    <3>6. dest \in [Dests -> Inodes \cup {NoInode}]
      BY DEF DlInv, ControlInv, DlTyped
    <3>7. Filed' = [Filed EXCEPT ![d] = "whole"]
      BY <1>0, <3>1, <3>5, <3>6, FiledIs
    <3>8. Promise!Publish(t)
      BY <3>3, <3>4, <3>7 DEF Promise!Publish, Stated, Asked, Published, Filed
    <3> QED BY <3>8 DEF Promise!Next
  <2>4. CASE s.pc \notin {"none", "rename"}
    <3>1. /\ g.state = s.state /\ g.canceled = s.canceled /\ dest' = dest
          /\ g.pc = "size" \/ g.outcome = "COMPLETED" <=> s.pc = "size" \/ s.outcome = "COMPLETED"
      BY <2>1, <2>4 DEF PathShape
    <3>2. UNCHANGED Promise!vars
      BY <2>1, <3>1, PromiseStutter DEF PathShape
    <3> QED BY <3>2
  <2> QED BY <2>2, <2>3, <2>4
<1>3. CASE WorkerLookup(t) \/ ReserveId(t) \/ ReserveIdFails(t) \/ CallFetch(t) \/ FetchReturns(t)
  <2>1. CallShape(t) /\ dest' = dest
    BY <1>3, CallShapes
  <2>2. /\ g.state = s.state /\ g.canceled = s.canceled
        /\ g.pc = "size" \/ g.outcome = "COMPLETED" <=> s.pc = "size" \/ s.outcome = "COMPLETED"
    BY <1>0, <2>1 DEF CallShape, VerdictOK
  <2>3. UNCHANGED Promise!vars
    BY <2>1, <2>2, PromiseStutter DEF CallShape
  <2> QED BY <2>3
<1> QED BY <1>1, <1>2, <1>3 DEF Worker, LocalStep

\* So do cancel(), the relay, the registry and the http process.
LEMMA OtherPromise ==
    ASSUME DlInv, DestComplete, DestComplete',
           \/ \E t \in Tasks : Relay(t) \/ ClientCancel(t)
           \/ Canceller \/ (HttpProcess /\ UNCHANGED dlVars) \/ Register \/ Reap \/ Quiet \/ UNCHANGED vars
    PROVE  [Promise!Next]_Promise!vars
<1>0. task \in [Tasks -> TaskRecs]
  BY DEF DlInv, ControlInv, DlTyped
<1>1. dest' = dest
  BY DEF Relay, OnResponseStart, OnBytesReceived, ClientCancel, Canceller, SetFlag, ReadId, CancelLookup,
         ForwardCancel, Register, Reap, Quiet, vars, dlVars
<1>2. CASE SetFlag
  <2>0. canceller.pc = "flag"
    BY <1>2 DEF SetFlag
  <2>1. PICK u \in Tasks : u = canceller.task
    BY <2>0 DEF DlInv, ControlInv, CancellerFacts
  <2>2. /\ task' = [task EXCEPT ![u] = [task[u] EXCEPT !.canceled = TRUE]] /\ task[u].state # "UNKNOWN"
    BY <1>2, <2>0, <2>1 DEF SetFlag, DlInv, ControlInv, CancellerFacts
  <2>3. /\ \A v \in Tasks : /\ task'[v].state = task[v].state /\ task'[v].pc = task[v].pc
                            /\ task'[v].outcome = task[v].outcome
        /\ \A v \in Tasks \ {u} : task'[v].canceled = task[v].canceled
        /\ task'[u].canceled
    BY <1>0, <2>2 DEF TaskRecs
  <2>4. Stated' = Stated /\ Published' = Published /\ Stated[u] # "UNKNOWN"
    BY <2>2, <2>3 DEF Stated, Published
  <2>5. Asked' = Asked \cup {u}
    BY <2>2, <2>3 DEF Asked
  <2>6. Filed' = [d \in Dests |-> IF dest'[d] = NoInode THEN "none" ELSE "whole"]
    BY DEF DestComplete, Filed
  <2>7. Filed' = Filed
    BY <1>1, <2>6, FiledIs
  <2>8. Promise!Ask(u)
    BY <2>4, <2>5, <2>7 DEF Promise!Ask, Stated, Asked, Published, Filed
  <2> QED BY <2>8 DEF Promise!Next
<1>3. CASE ~SetFlag
  <2>1. ASSUME NEW t \in Tasks, Relay(t)
        PROVE  \A u \in Tasks : /\ task'[u].state = task[u].state /\ task'[u].canceled = task[u].canceled
                                /\ task'[u].pc = task[u].pc /\ task'[u].outcome = task[u].outcome
    <3>1. PICK n \in Nat, r \in Nat, m \in Int :
            task' = [task EXCEPT ![t] = [task[t] EXCEPT !.downloaded = n, !.resumedFrom = r, !.total = m]]
      BY <2>1, RelayShape
    <3> QED BY <1>0, <3>1 DEF TaskRecs
  <2>2. CASE \A t \in Tasks : ~Relay(t)
    <3>1. task' = task
      BY <1>3, <2>2 DEF ClientCancel, Canceller, ReadId, CancelLookup, ForwardCancel, Register, Reap, Quiet,
                        vars, dlVars
    <3>2. UNCHANGED Promise!vars
      BY <1>1, <3>1, PromiseStutter
    <3> QED BY <3>2
  <2>3. ASSUME NEW t \in Tasks, Relay(t) PROVE UNCHANGED Promise!vars
    BY <1>1, <2>1, <2>3, PromiseStutter
  <2> QED BY <2>2, <2>3
<1> QED BY <1>2, <1>3

\* The initial states map to the initial state of the promise.
LEMMA InitPromise == Init => Promise!Init
<1> SUFFICES ASSUME Init PROVE Promise!Init
  OBVIOUS
<1>1. NewTask.state = "UNKNOWN" /\ ~NewTask.canceled /\ NewTask.pc = "none" /\ NewTask.outcome = "none"
  BY DEF NewTask
<1>2. /\ Stated = [t \in Tasks |-> "UNKNOWN"] /\ Asked = {} /\ Published = {}
      /\ Filed = [d \in Dests |-> "none"]
  BY <1>1 DEF Init, Stated, Asked, Published, Filed
<1> QED BY <1>2 DEF Promise!Init, Stated, Asked, Published, Filed

\* The service implements the promise of DownloadSpec, step by step: a task goes
\* from pending to running to one terminal state, COMPLETED comes after a whole
\* file is at its path, FAILED and CANCELED only without, and CANCELED only if
\* somebody asked for it.
THEOREM DownloadKeepsPromise ==
    ASSUME OneAtATime, OneResource, Framed, IdsLast
    PROVE  Spec => Promise!Spec
<1>1. Init => FileInv /\ AskInv
  BY InitDl, InitPath, InitContent, InitAsk DEF FileInv
<1>2. FileInv /\ AskInv /\ [Next]_vars => FileInv' /\ AskInv'
  BY NextFiles, NextAsk DEF FileInv
<1>3. FileInv /\ AskInv /\ FileInv' /\ [Next]_vars => [Promise!Next]_Promise!vars
  <2> SUFFICES ASSUME DlInv, AskInv, DestComplete, DestComplete', [Next]_vars
               PROVE  [Promise!Next]_Promise!vars
    BY DEF FileInv, ContentInv
  <2> QED BY WorkerPromise, OtherPromise DEF Next
<1> QED BY <1>1, <1>2, <1>3, InitPromise, PTL DEF Spec, Promise!Spec

-------------------------------------------------------------------------------
(* The relay's messages *)

\* Where the bytes that a transfer counts begin: at the offset of the onResponseStart()
\* that is still on its way, or at the one the task has recorded.
Offset(s, q) == IF q # << >> /\ q[1][1] = "start" THEN q[1][2] ELSE s.resumedFrom

\* The total is unknown or the size; an offset comes first; no count goes past the end.
MsgOK(o, i, m) ==
    /\ m[3] \in {-1, Size}
    /\ m[1] = "start" => i = 1 /\ m[2] <= Size
    /\ m[1] = "bytes" => o + m[2] <= Size

\* The transfer's own counters.
GaugeOK(f) ==
    /\ f.total \in {-1, Size}
    /\ f.pc \in {"none", "reserved"} => f.framing = "none" /\ f.written = 0
    /\ f.pc \in {"queued", "begun", "hop", "connect"} => f.framing = "none"
    /\ f.pc = "buffered" => f.framing # "none"
    /\ f.pc \in HeadPcs /\ f.framing = "none" => f.written = 0
    /\ f.framing # "none" =>
          /\ f.pc \in {"poll", "recv", "buffered"} /\ f.framing \in Framings \cup {"trailers"}
          /\ f.start + f.written <= Size
    /\ f.framing = "trailers" => f.start + f.written = Size
    /\ f.result = "OK" => f.pc \in {"end", "ended", "replied"}

\* What is on its way agrees with the transfer: nothing before the headers; all
\* counts are from the offset o; the last one of a success is the final count.
QueueOK(o, f, q) ==
    /\ f.pc \in {"none", "reserved"} \cup HeadPcs /\ f.framing = "none" => q = << >>
    /\ f.framing # "none" => o = f.start
    /\ f.result = "OK" => o + f.written <= Size /\ (Framed => o + f.written = Size)
    /\ f.result = "OK" /\ f.pc = "replied" /\ q # << >> =>
          q[Len(q)][1] = "bytes" /\ q[Len(q)][2] = f.written
    /\ \A i \in DOMAIN q : MsgOK(o, i, q[i])

\* The two sums a worker can make of what was written: from the offset of the
\* server, or from the one it asked for.
Sums(s, f, q) == {Offset(s, q) + f.written, s.resume + f.written}

\* From the success on the worker's sum is one of the two, and so is the count as
\* soon as it is stored and no message can change it any more.
DonePcs == {"store", "rename", "size"}
DoneOK(s, f, q) ==
    s.pc \in DonePcs \/ s.outcome = "COMPLETED" =>
        /\ f.pc = "replied" /\ f.result = "OK" /\ s.onDisk \in Sums(s, f, q)
        /\ s.pc # "store" /\ q = << >> => s.downloaded \in Sums(s, f, q)

CountOK(s, f, q) == GaugeOK(f) /\ QueueOK(Offset(s, q), f, q) /\ DoneOK(s, f, q)

CountsInv == \A t \in Tasks : CountOK(task[t], fetch[t], relayQ[t])

\* The server has not answered, or the relay has not been told.
Untold(f, q) ==
    \/ f.pc \in {"none", "reserved"} \cup HeadPcs /\ f.framing = "none"
    \/ q # << >> /\ q[1][1] = "start"

\* Until then the recorded offset is the one asked for; the server's is that one
\* or 0.
ResumeOK(s, f, q) ==
    /\ f.pc \in HandedPcs => f.resume = s.resume
    /\ Offset(s, q) \in {s.resume, 0}
    /\ Untold(f, q) => s.resumedFrom = s.resume

ResumeInv == \A t \in Tasks : ResumeOK(task[t], fetch[t], relayQ[t])

\* A queue with a message more.
LEMMA Appended ==
    ASSUME NEW q \in Seq(Msgs), NEW m \in Msgs
    PROVE  /\ Append(q, m) \in Seq(Msgs) /\ Append(q, m) # << >> /\ Len(Append(q, m)) = Len(q) + 1
           /\ Append(q, m)[Len(q) + 1] = m /\ Len(q) \in Nat /\ DOMAIN q = 1..Len(q)
           /\ DOMAIN Append(q, m) = 1..(Len(q) + 1)
           /\ \A i \in 1..Len(q) : Append(q, m)[i] = q[i]
           /\ q = << >> => Len(q) = 0 /\ Append(q, m)[1] = m
           /\ q # << >> => Append(q, m)[1] = q[1] /\ Len(q) > 0
OBVIOUS

\* A queue with its first message gone.
LEMMA Popped ==
    ASSUME NEW q \in Seq(Msgs), q # << >>
    PROVE  /\ Tail(q) \in Seq(Msgs) /\ Head(q) = q[1] /\ Head(q) \in Msgs /\ Len(q) \in Nat /\ Len(q) > 0
           /\ Len(Tail(q)) = Len(q) - 1 /\ DOMAIN q = 1..Len(q)
           /\ DOMAIN Tail(q) = 1..(Len(q) - 1)
           /\ \A i \in 1..(Len(q) - 1) : Tail(q)[i] = q[i + 1]
           /\ Tail(q) = << >> <=> Len(q) = 1
<1>1. /\ Tail(q) \in Seq(Msgs) /\ Head(q) = q[1] /\ Len(q) \in Nat /\ Len(q) > 0
      /\ Len(Tail(q)) = Len(q) - 1 /\ DOMAIN q = 1..Len(q)
  OBVIOUS
<1>2. Head(q) \in Msgs
  BY <1>1
<1>3. \A i \in 1..(Len(q) - 1) : Tail(q)[i] = q[i + 1]
  BY <1>1
<1>4. DOMAIN Tail(q) = 1..(Len(q) - 1)
  BY <1>1
<1>5. Tail(q) = << >> <=> Len(Tail(q)) = 0
  BY <1>1
<1> QED BY <1>1, <1>2, <1>3, <1>4, <1>5

\* A count that is sent leaves the offset where it is.
LEMMA OffsetCount ==
    ASSUME NEW s \in TaskRecs, NEW q \in Seq(Msgs), NEW m \in Msgs, m[1] = "bytes"
    PROVE  Offset(s, Append(q, m)) = Offset(s, q)
BY Appended DEF Offset

\* The offset is a number.
LEMMA OffsetNat ==
    ASSUME NEW s \in TaskRecs, NEW q \in Seq(Msgs)
    PROVE  Offset(s, q) \in Nat
<1>1. s.resumedFrom \in Nat
  BY DEF TaskRecs
<1>2. q # << >> => q[1] \in Msgs
  BY Popped
<1> QED BY <1>1, <1>2 DEF Offset, Msgs

\* A count that the transfer sends.
LEMMA CountSent ==
    ASSUME NEW o \in Nat, NEW f \in Transfers, NEW q \in Seq(Msgs), NEW w \in Nat, NEW n \in {-1, Size},
           \A i \in DOMAIN q : MsgOK(o, i, q[i]), o + w <= Size
    PROVE  LET m == <<"bytes", w, n>>
           IN  m \in Msgs /\ \A i \in DOMAIN Append(q, m) : MsgOK(o, i, Append(q, m)[i])
<1> DEFINE m == <<"bytes", w, n>>
<1>1. m \in Msgs /\ m[1] = "bytes" /\ m[2] = w /\ m[3] = n
  BY SizeAssumption DEF Msgs
<1>2. MsgOK(o, Len(q) + 1, m)
  BY <1>1 DEF MsgOK
<1> HIDE DEF m
<1>3. ASSUME NEW i \in DOMAIN Append(q, m)
      PROVE  MsgOK(o, i, Append(q, m)[i])
  <2>1. i \in 1..(Len(q) + 1) /\ Len(q) \in Nat
    BY <1>1, Appended
  <2>2. CASE i \in 1..Len(q)
    BY <1>1, <2>2, Appended
  <2>3. CASE i = Len(q) + 1
    BY <1>1, <1>2, <2>3, Appended
  <2> QED BY <2>1, <2>2, <2>3
<1> QED BY <1>1, <1>3 DEF m

-------------------------------------------------------------------------------
(* The steps *)

\* The transport counts what it writes, from the offset it told of.
LEMMA TransportCount ==
    ASSUME HttpTypeOK, NEW c \in Calls, Transport(c), NEW s \in TaskRecs, relayQ \in [Calls -> Seq(Msgs)],
           GaugeOK(fetch[c]), QueueOK(Offset(s, relayQ[c]), fetch[c], relayQ[c])
    PROVE  GaugeOK(fetch'[c]) /\ QueueOK(Offset(s, relayQ'[c]), fetch'[c], relayQ'[c])
<1> DEFINE f == fetch[c]
           g == fetch'[c]
           q == relayQ[c]
           o == Offset(s, q)
<1>0. /\ f \in Transfers /\ q \in Seq(Msgs) /\ o \in Nat
      /\ f.start \in Nat /\ f.written \in Nat /\ f.resume \in Nat /\ Size \in Nat
      /\ Remaining(c) = Size - f.start - f.written
  <2>1. f \in Transfers /\ q \in Seq(Msgs) /\ o \in Nat
    BY OffsetNat DEF HttpTypeOK
  <2> QED BY <2>1, SizeAssumption DEF Transfers, Remaining
<1>a. GaugeOK(f) /\ QueueOK(o, f, q)
  OBVIOUS
<1> HIDE DEF o
<1>1. CASE Strolls(c)
  <2>1. relayQ'[c] = q
    BY <1>1 DEF Strolls
  <2>2. /\ g.written = f.written /\ g.start = f.start /\ g.result = f.result /\ g.total = f.total
        /\ f.result # "OK"
    BY <1>a, <1>1 DEF Strolls, GaugeOK
  <2>3. CASE g.framing = f.framing /\ f.pc \in {"hop", "connect"} /\ g.pc \in {"connect", "poll"}
    BY <1>a, <2>1, <2>2, <2>3 DEF GaugeOK, QueueOK, HeadPcs, o
  <2>4. CASE g.framing = f.framing /\ f.pc \in {"poll", "recv"} /\ g.pc \in {"poll", "recv"}
    BY <1>a, <2>1, <2>2, <2>4 DEF GaugeOK, QueueOK, HeadPcs, o
  <2>5. CASE g.framing = f.framing /\ f.pc = "recv" /\ f.framing = "none" /\ g.pc = "hop"
    BY <1>a, <2>1, <2>2, <2>5 DEF GaugeOK, QueueOK, HeadPcs, o
  <2>6. CASE /\ f.framing = "chunked" /\ Remaining(c) = 0 /\ g.framing = "trailers"
             /\ g.pc \in {"poll", "buffered"}
    <3>0. Size - f.start - f.written = 0
      BY <1>0, <2>6
    <3>1. f.start + f.written = Size
      <4>1. ASSUME NEW m \in Nat, NEW n \in Nat, NEW k \in Nat, k - m - n = 0 PROVE m + n = k
        BY <4>1
      <4> QED BY <1>0, <3>0, <4>1
    <3>2. GaugeOK(g)
      BY <1>0, <1>a, <2>2, <2>6, <3>1 DEF GaugeOK, HeadPcs
    <3>3. QueueOK(o, g, q)
      BY <1>a, <2>2, <2>6 DEF QueueOK, HeadPcs
    <3> QED BY <2>1, <3>2, <3>3 DEF o
  <2> QED BY <1>1, <2>3, <2>4, <2>5, <2>6 DEF Strolls
<1>2. CASE Stops(c)
  <2>1. PICK r \in Results \ {"DEAD_OBJECT", "none"} :
          /\ g = ResultOf(f, r)
          /\ r = "OK" => \/ f.framing = "trailers"
                         \/ f.framing = "eof" /\ (Remaining(c) = 0 \/ "truncate" \in Faults)
    BY <1>2 DEF Stops
  <2>2. relayQ'[c] = q
    BY <1>2 DEF Stops
  <2>3. /\ g.pc = "end" /\ g.result = r /\ g.framing = "none" /\ g.start = f.start /\ g.written = f.written
        /\ g.total = f.total
    BY <1>0, <2>1 DEF ResultOf, Transfers
  <2>4. r = "OK" => o + f.written <= Size /\ (Framed => o + f.written = Size)
    <3>1. CASE f.framing = "trailers"
      <4>1. o = f.start /\ f.start + f.written = Size
        BY <1>a, <3>1 DEF GaugeOK, QueueOK
      <4> QED BY <1>0, <4>1
    <3>2. CASE f.framing = "eof" /\ (Remaining(c) = 0 \/ "truncate" \in Faults)
      <4>1. "eof" \in Framings /\ o = f.start /\ f.start + f.written <= Size
        BY <1>a, <3>2 DEF GaugeOK, QueueOK
      <4>2. Framed => Remaining(c) = 0
        BY <3>2, <4>1 DEF Framed
      <4>3. Remaining(c) = 0 => f.start + f.written = Size
        <5>1. ASSUME NEW m \in Nat, NEW n \in Nat, NEW k \in Nat PROVE k - m - n = 0 => m + n = k
          OBVIOUS
        <5> QED BY <1>0, <5>1
      <4> QED BY <4>1, <4>2, <4>3
    <3> QED BY <2>1, <3>1, <3>2
  <2>5. GaugeOK(g)
    BY <1>a, <2>3 DEF GaugeOK, HeadPcs
  <2>6. QueueOK(o, g, q)
    BY <1>a, <2>3, <2>4 DEF QueueOK, HeadPcs
  <2> QED BY <2>2, <2>5, <2>6 DEF o
<1>3. CASE RecvHead(c)
  <2>1. PICK fr \in Framings : \E a \in Answers(f.resume, fr) : HeadShape(c, fr, a)
    BY <1>3, HeadShapes
  <2>2. PICK a \in Answers(f.resume, fr) : HeadShape(c, fr, a)
    BY <2>1
  <2> DEFINE m == <<"start", a.start, a.total>>
             z == relayQ'[c]
  <2>3. a.start \in Nat /\ a.start <= Size /\ a.total \in {-1, Size} /\ a.total \in Int
    BY <1>0, AnswersAre
  <2>4. f.written = 0 /\ q = << >> /\ f.result # "OK"
    BY <1>a, <2>2 DEF HeadShape, GaugeOK, QueueOK, HeadPcs
  <2>5. z = Append(q, m)
    BY <2>2 DEF HeadShape
  <2>6. m \in Msgs /\ m[1] = "start" /\ m[2] = a.start /\ m[3] = a.total
    BY <2>3 DEF Msgs
  <2>7. z # << >> /\ z[1] = m /\ DOMAIN z = {1}
    <3> HIDE DEF m
    <3>1. Len(q) = 0 /\ Append(q, m) # << >> /\ Append(q, m)[1] = m /\ DOMAIN Append(q, m) = 1..(Len(q) + 1)
      BY <1>0, <2>4, <2>6, Appended
    <3> QED BY <2>5, <3>1
  <2>8. Offset(s, z) = a.start
    BY <2>6, <2>7 DEF Offset
  <2>9. \A i \in DOMAIN z : MsgOK(a.start, i, z[i])
    BY <2>3, <2>6, <2>7 DEF MsgOK
  <2>10. /\ g.start = a.start /\ g.written = 0 /\ g.total = a.total
         /\ \/ g.pc = "end" /\ g.framing = "none" /\ g.result = "OK" /\ a.start = Size
            \/ g.pc \in {"poll", "buffered"} /\ g.framing = fr /\ g.result # "OK"
    BY <2>2, <2>4 DEF HeadShape
  <2>11. fr \notin {"none", "trailers"}
    BY ChoiceAssumption
  <2>12. a.start + 0 = a.start
    BY <2>3
  <2>13. GaugeOK(g)
    BY <2>3, <2>10, <2>11, <2>12 DEF GaugeOK, HeadPcs
  <2> HIDE DEF z
  <2>14. QueueOK(a.start, g, z)
    BY <2>3, <2>9, <2>10, <2>11, <2>12 DEF QueueOK, HeadPcs
  <2> QED BY <2>8, <2>13, <2>14 DEF z
<1>4. CASE RecvBody(c)
  <2>1. PICK k \in 1..Remaining(c) : BodyShape(c, k)
    BY <1>4, BodyShapes
  <2> DEFINE w == f.written + k
             m == <<"bytes", w, f.total>>
             z == relayQ'[c]
  <2>2. k \in Nat /\ w \in Nat /\ f.start + w <= Size /\ (Remaining(c) = k => f.start + w = Size)
    <3>1. ASSUME NEW i \in Nat, NEW j \in Nat, NEW n \in Nat, NEW x \in 1..(n - i - j)
          PROVE  x \in Nat /\ j + x \in Nat /\ i + (j + x) <= n /\ (n - i - j = x => i + (j + x) = n)
      OBVIOUS
    <3>2. k \in 1..(Size - f.start - f.written)
      BY <1>0
    <3>3. /\ k \in Nat /\ f.written + k \in Nat /\ f.start + (f.written + k) <= Size
          /\ Size - f.start - f.written = k => f.start + (f.written + k) = Size
      <4> HIDE DEF f
      <4> QED BY <1>0, <3>1, <3>2
    <3> QED BY <1>0, <3>3
  <2>3. /\ f.pc \in {"recv", "buffered"} /\ f.framing # "none" /\ g.written = w /\ g.start = f.start /\ g.total = f.total
        /\ \/ /\ f.framing = "length" /\ Remaining(c) = k
              /\ g.pc = "end" /\ g.framing = "none" /\ g.result = "OK"
           \/ g.pc \in {"poll", "buffered"} /\ g.framing = f.framing /\ g.result = f.result
        /\ z = Append(q, m) \/ z = q
    BY <2>1 DEF BodyShape
  <2> HIDE DEF w
  <2>4. o = f.start /\ f.total \in {-1, Size} /\ f.result # "OK" /\ \A i \in DOMAIN q : MsgOK(o, i, q[i])
    BY <1>a, <2>3 DEF GaugeOK, QueueOK
  <2>5. m \in Msgs /\ m[1] = "bytes" /\ \A i \in DOMAIN Append(q, m) : MsgOK(o, i, Append(q, m)[i])
    BY <1>0, <2>2, <2>4, CountSent
  <2> HIDE DEF m
  <2>6. Offset(s, z) = o
    BY <1>0, <2>3, <2>5, OffsetCount DEF o
  <2> HIDE DEF z
  <2>7. \A i \in DOMAIN z : MsgOK(o, i, z[i])
    BY <2>3, <2>4, <2>5
  <2>8. f.framing = "trailers" => Remaining(c) = 0
    <3>1. f.framing = "trailers" => f.start + f.written = Size
      BY <1>a DEF GaugeOK
    <3>2. ASSUME NEW i \in Nat, NEW j \in Nat, NEW n \in Nat, i + j = n PROVE n - i - j = 0
      BY <3>2
    <3> QED BY <1>0, <3>1, <3>2
  <2>9. f.framing # "trailers"
    BY <1>0, <2>8
  <2>10. GaugeOK(g)
    BY <1>a, <2>2, <2>3, <2>4, <2>9 DEF GaugeOK, HeadPcs
  <2>11. QueueOK(o, g, z)
    BY <2>2, <2>3, <2>4, <2>7 DEF QueueOK, HeadPcs
  <2> QED BY <2>6, <2>10, <2>11 DEF z
<1>5. CASE WriteFails(c)
  <2>1. PICK k \in 0..(Remaining(c) - 1) : WriteFailShape(c, k)
    BY <1>5, WriteFailShapes
  <2>2. relayQ'[c] = q /\ g = ResultOf(f, "ERROR_WRITE")
    BY <2>1 DEF WriteFailShape
  <2>3. /\ g.pc = "end" /\ g.result = "ERROR_WRITE" /\ g.framing = "none" /\ g.start = f.start
        /\ g.written = f.written /\ g.total = f.total
    BY <1>0, <2>2 DEF ResultOf, Transfers
  <2>4. GaugeOK(g) /\ QueueOK(o, g, q)
    BY <1>a, <2>3 DEF GaugeOK, QueueOK, HeadPcs
  <2> QED BY <2>2, <2>4 DEF o
<1> QED BY <1>1, <1>2, <1>3, <1>4, <1>5, TransportKinds

\* Nobody but endRequest() answers OK.
LEMMA NoOtherOK ==
    ASSUME HttpInv, HttpProcess, \A c \in Calls : ~Transport(c) /\ ~EndRequest(c), NEW d \in Calls
    PROVE  \/ CallMoves(fetch[d], fetch'[d]) /\ fetch'[d].pc # "replied"
           \/ fetch'[d] = fetch[d]
           \/ fetch[d].pc \in HandedPcs /\ \E r \in {"DEAD_OBJECT", "ERROR_WRITE"} : fetch'[d] = ReplyOf(fetch[d], r)
<1>0. fetch \in [Calls -> Transfers] /\ "queued" \in HandedPcs
  BY DEF HttpInv, HttpTypeOK, HandedPcs
<1>1. ASSUME NEW c \in Calls, BeginRequest(c) \/ CountRequest(c) \/ UncountRequest(c)
      PROVE  fetch'[d] = fetch[d] \/ fetch'[d].pc # "replied"
  <2>1. PICK pc \in {"begun", "hop", "ended"} : fetch' = [fetch EXCEPT ![c] = [fetch[c] EXCEPT !.pc = pc]]
    BY <1>1 DEF BeginRequest, CountRequest, UncountRequest
  <2>2. fetch[c] \in Transfers
    BY <1>0
  <2>3. [fetch[c] EXCEPT !.pc = pc].pc = pc
    BY <2>2 DEF Transfers
  <2> QED BY <1>0, <2>1, <2>3
<1>2. ASSUME NEW c \in Calls, RejectSink(c)
      PROVE  \/ fetch'[d] = fetch[d]
             \/ fetch[d].pc \in HandedPcs /\ fetch'[d] = ReplyOf(fetch[d], "ERROR_WRITE")
  BY <1>0, <1>2 DEF RejectSink
<1>3. CASE Crash
  BY <1>3 DEF Crash, HandedPcs
<1>4. CASE GetStringBegin \/ GetStringEnd \/ CancelHandler \/ Restart \/ \E id \in Ids : Expire(id)
  BY <1>4 DEF GetStringBegin, GetStringEnd, CancelHandler, Restart, Expire
<1>5. CallMoves(fetch[d], fetch'[d])
  BY ProcessMoves
<1> QED BY <1>1, <1>2, <1>3, <1>4, <1>5 DEF HttpProcess, Accept, Transfer, Transport

\* The process keeps the counts.
LEMMA ProcessCount ==
    ASSUME DlInv, CountsInv, HttpProcess, UNCHANGED dlVars
    PROVE  CountsInv'
<1>0. /\ HttpInv /\ HttpTypeOK /\ UNCHANGED task /\ fetch \in [Calls -> Transfers]
      /\ relayQ \in [Calls -> Seq(Msgs)] /\ task \in [Tasks -> TaskRecs]
  BY DEF DlInv, ControlInv, DlTyped, HttpInv, HttpTypeOK, dlVars
<1> SUFFICES ASSUME NEW t \in Tasks PROVE CountOK(task[t], fetch'[t], relayQ'[t])
  BY <1>0 DEF CountsInv
<1> DEFINE s == task[t]
           f == fetch[t]
           g == fetch'[t]
           q == relayQ[t]
           o == Offset(s, q)
<1>1. /\ s \in TaskRecs /\ f \in Transfers /\ q \in Seq(Msgs) /\ o \in Nat
      /\ GaugeOK(f) /\ QueueOK(o, f, q) /\ DoneOK(s, f, q) /\ CallOK(s, f) /\ VerdictOK(s)
  BY <1>0, TaskFacts, OffsetNat DEF CountsInv, CountOK
<1> HIDE DEF o
<1>2. CASE fetch'[t] = f /\ relayQ'[t] = q
  BY <1>2 DEF CountsInv, CountOK
<1>3. ASSUME f.pc \in HandedPcs
      PROVE  \A z, x : DoneOK(s, z, x)
  BY <1>1, <1>3 DEF CallOK, VerdictOK, DoneOK, DonePcs
<1>4. ASSUME NEW c \in Calls, Transport(c)
      PROVE  CountOK(s, fetch'[t], relayQ'[t])
  <2>1. CASE c # t
    BY <1>0, <1>2, <1>4, <2>1, TransportMoves, TransportSink DEF Moves
  <2>2. CASE c = t
    <3>1. f.pc \in HandedPcs
      BY <1>0, <1>4, <2>2, TransportMoves, PcSets DEF Moves, HandedPcs
    <3>2. GaugeOK(g) /\ QueueOK(Offset(s, relayQ'[t]), g, relayQ'[t])
      BY <1>0, <1>1, <1>4, <2>2, TransportCount DEF o
    <3> QED BY <1>3, <3>1, <3>2 DEF CountOK
  <2> QED BY <2>1, <2>2
<1>5. ASSUME NEW c \in Calls, EndRequest(c)
      PROVE  CountOK(s, fetch'[t], relayQ'[t])
  <2>1. CASE c # t
    BY <1>0, <1>2, <1>5, <2>1 DEF EndRequest
  <2>2. CASE c = t
    <3> DEFINE m == <<"bytes", f.written, f.total>>
    <3>1. /\ f.pc = "ended" /\ g = ReplyOf(f, f.result)
          /\ relayQ'[t] = IF f.result = "OK" THEN Append(q, m) ELSE q
      BY <1>0, <1>5, <2>2 DEF EndRequest
    <3>2. /\ g.pc = "replied" /\ g.framing = "none" /\ g.written = f.written /\ g.result = f.result
          /\ g.total = -1
      BY <1>1, <3>1 DEF ReplyOf, NoFetch, Transfers
    <3>3. f.pc \in HandedPcs
      BY <3>1 DEF HandedPcs, ServedPcs
    <3>4. GaugeOK(g)
      BY <3>2 DEF GaugeOK, HeadPcs
    <3>5. CASE f.result # "OK"
      <4>1. QueueOK(o, g, q)
        BY <1>1, <3>2, <3>5 DEF QueueOK, HeadPcs
      <4> QED BY <1>3, <3>1, <3>3, <3>4, <3>5, <4>1 DEF CountOK, o
    <3>6. CASE f.result = "OK"
      <4>1. f.written \in Nat /\ f.total \in {-1, Size} /\ m[2] = f.written /\ m[1] = "bytes"
        BY <1>1 DEF Transfers, GaugeOK
      <4>2. o + f.written <= Size /\ (Framed => o + f.written = Size) /\ \A i \in DOMAIN q : MsgOK(o, i, q[i])
        BY <1>1, <3>6 DEF QueueOK
      <4>3. m \in Msgs /\ \A i \in DOMAIN Append(q, m) : MsgOK(o, i, Append(q, m)[i])
        BY <1>1, <4>1, <4>2, CountSent
      <4> HIDE DEF m
      <4>4. Offset(s, Append(q, m)) = o
        BY <1>1, <4>1, <4>3, OffsetCount DEF o
      <4>5. Append(q, m)[Len(Append(q, m))] = m
        BY <1>1, <4>3, Appended
      <4>6. QueueOK(o, g, Append(q, m))
        BY <3>2, <4>1, <4>2, <4>3, <4>5 DEF QueueOK, HeadPcs
      <4> QED BY <1>3, <3>1, <3>3, <3>4, <3>6, <4>4, <4>6 DEF CountOK
    <3> QED BY <3>5, <3>6
  <2> QED BY <2>1, <2>2
<1>6. CASE \A c \in Calls : ~Transport(c) /\ ~EndRequest(c)
  <2>1. relayQ'[t] = q
    BY <1>0, <1>6, ProcessKinds
  <2>2. CASE CallMoves(f, g) /\ g.pc # "replied" /\ g # f
    <3>1. /\ g.framing = f.framing /\ g.start = f.start /\ g.total = f.total
          /\ g.written = f.written /\ g.result = f.result
          /\ <<f.pc, g.pc>> \in {<<"queued", "begun">>, <<"begun", "hop">>, <<"end", "ended">>}
      BY <1>1, <2>2, MovedCall
    <3>2. f.pc \in HandedPcs
      <4>1. f.pc \in {"queued", "begun", "end"}
        BY <3>1
      <4> QED BY <4>1, PcSets DEF HandedPcs
    <3>3. GaugeOK(g)
      BY <1>1, <3>1 DEF GaugeOK, HeadPcs
    <3>4. QueueOK(o, g, q)
      BY <1>1, <3>1 DEF QueueOK, HeadPcs
    <3> QED BY <1>3, <2>1, <3>2, <3>3, <3>4 DEF CountOK, o
  <2>3. ASSUME f.pc \in HandedPcs, NEW r \in {"DEAD_OBJECT", "ERROR_WRITE"}, g = ReplyOf(f, r)
        PROVE  CountOK(s, g, q)
    <3>1. g.pc = "replied" /\ g.framing = "none" /\ g.result = r /\ g.total = -1
      BY <2>3 DEF ReplyOf, NoFetch
    <3>2. GaugeOK(g)
      BY <3>1 DEF GaugeOK, HeadPcs
    <3>3. QueueOK(o, g, q)
      BY <1>1, <3>1 DEF QueueOK, HeadPcs
    <3> QED BY <1>3, <2>3, <3>2, <3>3 DEF CountOK, o
  <2> QED BY <1>0, <1>2, <1>6, <2>1, <2>2, <2>3, NoOtherOK
<1> QED BY <1>4, <1>5, <1>6

\* What the relay's two handlers store.
RelayStores(t) ==
    LET s == task[t]
        g == task'[t]
        q == relayQ[t]
        m == relayQ[t][1]
    IN  /\ q # << >> /\ g \in TaskRecs /\ g.pc = s.pc /\ g.outcome = s.outcome
        /\ g.resume = s.resume /\ g.onDisk = s.onDisk
        /\ relayQ'[t] = Tail(q)
        /\ \/ m[1] = "start" /\ g.resumedFrom = m[2] /\ g.downloaded = m[2] /\ g.total = m[3]
           \/ /\ m[1] = "bytes" /\ g.resumedFrom = s.resumedFrom /\ g.downloaded = s.resumedFrom + m[2]
              /\ g.total = (IF m[3] >= 0 THEN m[3] ELSE s.total)

\* They store that, and no other task hears of it.
LEMMA RelayStored ==
    ASSUME DlInv, NEW t \in Tasks, Relay(t)
    PROVE  /\ RelayStores(t) /\ UNCHANGED <<fetch, content, part, dest>>
           /\ \A u \in Tasks \ {t} : task'[u] = task[u] /\ relayQ'[u] = relayQ[u]
<1> DEFINE s == task[t]
           g == task'[t]
           q == relayQ[t]
<1>0. /\ relayQ \in [Tasks -> Seq(Msgs)] /\ task \in [Tasks -> TaskRecs] /\ s \in TaskRecs /\ q \in Seq(Msgs)
      /\ g \in TaskRecs
  BY RelayInv DEF DlInv, ControlInv, DlTyped
<1>1. q # << >> /\ relayQ' = [relayQ EXCEPT ![t] = Tail(q)] /\ UNCHANGED <<fetch, content, part, dest>>
  BY DEF Relay, OnResponseStart, OnBytesReceived
<1>2. \A u \in Tasks \ {t} : task'[u] = task[u] /\ relayQ'[u] = relayQ[u]
  BY <1>0, <1>1, RelayShape
<1> DEFINE m == q[1]
           a == m[2]
           b == m[3]
<1>3. Head(q) = m
  BY <1>0, <1>1, Popped
<1>4. CASE OnResponseStart(t)
  <2>1. m[1] = "start" /\ g = [s EXCEPT !.resumedFrom = a, !.total = b, !.downloaded = a]
    BY <1>0, <1>3, <1>4 DEF OnResponseStart
  <2> HIDE DEF a, b
  <2>2. /\ g.resumedFrom = a /\ g.total = b /\ g.downloaded = a
        /\ g.pc = s.pc /\ g.outcome = s.outcome /\ g.resume = s.resume /\ g.onDisk = s.onDisk
    BY <1>0, <2>1 DEF TaskRecs
  <2> QED BY <1>0, <1>1, <1>2, <2>1, <2>2 DEF a, b, RelayStores
<1>5. CASE OnBytesReceived(t)
  <2> DEFINE x == s.resumedFrom + a
             y == IF b >= 0 THEN b ELSE s.total
  <2>1. m[1] = "bytes" /\ g = [s EXCEPT !.downloaded = x, !.total = y]
    BY <1>0, <1>3, <1>5 DEF OnBytesReceived
  <2> HIDE DEF x, y
  <2>2. /\ g.resumedFrom = s.resumedFrom /\ g.total = y /\ g.downloaded = x
        /\ g.pc = s.pc /\ g.outcome = s.outcome /\ g.resume = s.resume /\ g.onDisk = s.onDisk
    BY <1>0, <2>1 DEF TaskRecs
  <2> QED BY <1>0, <1>1, <1>2, <2>1, <2>2 DEF a, b, x, y, RelayStores
<1> QED BY <1>4, <1>5 DEF Relay

\* What is left in the queue is counted from the same offset.
LEMMA RelayOffset ==
    ASSUME NEW s \in TaskRecs, NEW g \in TaskRecs, NEW q \in Seq(Msgs), q # << >>,
           \A i \in DOMAIN q : q[i][1] = "start" => i = 1,
           \/ q[1][1] = "start" /\ g.resumedFrom = q[1][2]
           \/ q[1][1] = "bytes" /\ g.resumedFrom = s.resumedFrom
    PROVE  Offset(g, Tail(q)) = Offset(s, q)
<1> DEFINE z == Tail(q)
<1>1. /\ Len(q) \in Nat /\ z \in Seq(Msgs) /\ Len(z) = Len(q) - 1 /\ DOMAIN q = 1..Len(q)
      /\ \A i \in 1..(Len(q) - 1) : z[i] = q[i + 1]
      /\ z = << >> <=> Len(q) = 1
  BY Popped
<1> HIDE DEF z
<1>2. z # << >> => z[1][1] # "start"
  <2>1. z # << >> => Len(q) > 1
    BY <1>1, Popped
  <2>2. z # << >> => 1 \in 1..(Len(q) - 1) /\ z[1] = q[2] /\ 2 \in DOMAIN q
    BY <1>1, <2>1
  <2> QED BY <2>2
<1> QED BY <1>2 DEF Offset, z

\* The relay's two handlers keep the counts.
LEMMA RelayCount ==
    ASSUME DlInv, CountsInv, NEW t \in Tasks, Relay(t)
    PROVE  CountsInv'
<1> DEFINE s == task[t]
           g == task'[t]
           f == fetch[t]
           q == relayQ[t]
           m == q[1]
           o == Offset(s, q)
           z == Tail(q)
<1>0. /\ s \in TaskRecs /\ q \in Seq(Msgs) /\ f \in Transfers /\ o \in Nat
  BY TaskFacts, OffsetNat DEF DlInv, ControlInv, DlTyped
<1>1. RelayStores(t) /\ fetch' = fetch /\ \A u \in Tasks \ {t} : task'[u] = task[u] /\ relayQ'[u] = relayQ[u]
  BY RelayStored
<1>2. /\ z \in Seq(Msgs) /\ m \in Msgs /\ Len(q) \in Nat /\ Len(q) > 0 /\ Len(z) = Len(q) - 1
      /\ DOMAIN q = 1..Len(q) /\ DOMAIN z = 1..(Len(q) - 1) /\ (\A i \in 1..(Len(q) - 1) : z[i] = q[i + 1])
      /\ (z = << >> <=> Len(q) = 1)
  BY <1>0, <1>1, Popped DEF RelayStores
<1>3. GaugeOK(f) /\ QueueOK(o, f, q) /\ DoneOK(s, f, q)
  BY DEF CountsInv, CountOK
<1>4. \A i \in DOMAIN q : q[i][1] = "start" => i = 1
  BY <1>3 DEF QueueOK, MsgOK
<1>5. Offset(g, z) = o
  BY <1>0, <1>1, <1>4, RelayOffset DEF RelayStores
<1> HIDE DEF z
<1>6. QueueOK(o, f, z)
  <2>1. ASSUME NEW i \in DOMAIN z PROVE MsgOK(o, i, z[i])
    <3>1. i \in 1..(Len(q) - 1) /\ i + 1 \in DOMAIN q /\ i + 1 # 1 /\ z[i] = q[i + 1]
      BY <1>2, <2>1
    <3>2. MsgOK(o, i + 1, z[i])
      BY <1>3, <3>1 DEF QueueOK
    <3> QED BY <3>1, <3>2 DEF MsgOK
  <2>2. z # << >> => z[Len(z)] = q[Len(q)]
    <3>1. z # << >> => Len(z) \in 1..(Len(q) - 1) /\ Len(z) + 1 = Len(q)
      BY <1>2
    <3> QED BY <1>2, <3>1
  <2>3. q # << >>
    BY <1>1 DEF RelayStores
  <2> QED BY <1>3, <2>1, <2>2, <2>3 DEF QueueOK
<1>7. DoneOK(g, f, z)
  <2> SUFFICES ASSUME g.pc \in DonePcs \/ g.outcome = "COMPLETED"
               PROVE  /\ f.pc = "replied" /\ f.result = "OK" /\ g.onDisk \in Sums(g, f, z)
                      /\ z = << >> => g.downloaded \in Sums(g, f, z)
    BY DEF DoneOK
  <2>1. f.pc = "replied" /\ f.result = "OK" /\ s.onDisk \in Sums(s, f, q)
    BY <1>1, <1>3 DEF DoneOK, RelayStores
  <2>2. Sums(g, f, z) = Sums(s, f, q) /\ o + f.written \in Sums(g, f, z)
    BY <1>1, <1>5 DEF Sums, RelayStores
  <2>3. ASSUME z = << >> PROVE g.downloaded = o + f.written
    <3>1. q[Len(q)] = m /\ q # << >>
      BY <1>1, <1>2, <2>3 DEF RelayStores
    <3>2. m[1] = "bytes" /\ m[2] = f.written
      BY <1>3, <2>1, <3>1 DEF QueueOK
    <3>3. o = s.resumedFrom
      BY <3>2 DEF Offset
    <3> QED BY <1>1, <3>2, <3>3 DEF RelayStores
  <2> QED BY <1>1, <2>1, <2>2, <2>3 DEF RelayStores
<1>8. CountOK(g, f, z)
  BY <1>3, <1>5, <1>6, <1>7 DEF CountOK
<1> QED BY <1>1, <1>8 DEF CountsInv, RelayStores, z

\* A step of a task that keeps its offset and its call.
LEMMA CountKept ==
    ASSUME NEW s \in TaskRecs, NEW g \in TaskRecs, NEW f, NEW q, CountOK(s, f, q),
           g.resumedFrom = s.resumedFrom, g.resume = s.resume, g.onDisk = s.onDisk,
           g.pc = "store" \/ g.downloaded = (IF s.pc = "store" THEN s.onDisk ELSE s.downloaded),
           g.pc \in DonePcs \/ g.outcome = "COMPLETED" => s.pc \in DonePcs \/ s.outcome = "COMPLETED"
    PROVE  CountOK(g, f, q)
<1>1. Offset(g, q) = Offset(s, q) /\ Sums(g, f, q) = Sums(s, f, q)
  BY DEF Offset, Sums
<1>2. DoneOK(g, f, q)
  BY <1>1 DEF CountOK, DoneOK
<1> QED BY <1>1, <1>2 DEF CountOK

\* Before the call is made there is nothing in the queue, and the offset is free.
LEMMA CountEarly ==
    ASSUME NEW s \in TaskRecs, NEW f \in Transfers, NEW g, CountOK(s, f, << >>), f.pc = "none",
           g.pc \notin DonePcs, g.outcome # "COMPLETED"
    PROVE  CountOK(g, f, << >>)
<1>1. f.framing = "none" /\ f.result # "OK" /\ GaugeOK(f)
  BY DEF CountOK, GaugeOK
<1>2. QueueOK(Offset(g, << >>), f, << >>)
  BY <1>1 DEF QueueOK
<1> QED BY <1>1, <1>2 DEF CountOK, DoneOK

\* The worker keeps the counts.
LEMMA WorkerCount ==
    ASSUME DlInv, CountsInv, ResumeInv, NEW t \in Tasks, Enqueue(t) \/ Worker(t)
    PROVE  CountsInv'
<1> DEFINE s == task[t]
           g == task'[t]
           f == fetch[t]
           q == relayQ[t]
<1>0. /\ s \in TaskRecs /\ f \in Transfers /\ CallOK(s, f) /\ VerdictOK(s) /\ CountOK(s, f, q)
  BY TaskFacts DEF CountsInv
<1>1. CASE Enqueue(t) \/ OpenPart(t) \/ Rename(t) \/ UnlinkPart(t) \/ Report(t)
  <2>1. PathShape(t) /\ UNCHANGED <<fetch, relayQ>>
    BY <1>1, PathShapes
  <2>2. /\ g.pc \in DonePcs \/ g.outcome = "COMPLETED" => s.pc \in DonePcs \/ s.outcome = "COMPLETED"
        /\ g \in TaskRecs /\ g.resumedFrom = s.resumedFrom /\ g.resume = s.resume /\ g.onDisk = s.onDisk
        /\ g.downloaded = s.downloaded /\ s.pc # "store"
    BY <2>1 DEF PathShape, DonePcs
  <2>3. CountOK(g, f, q)
    BY <1>0, <2>2, CountKept
  <2> QED BY <2>1, <2>3 DEF CountsInv, PathShape
<1>2. CASE WorkerLookup(t) \/ ReserveId(t) \/ ReserveIdFails(t) \/ CallFetch(t) \/ FetchReturns(t)
  <2>1. CallShape(t) /\ UNCHANGED relayQ
    BY <1>2, CallShapes
  <2>2. /\ g \in TaskRecs /\ g.resumedFrom = s.resumedFrom /\ g.resume = s.resume /\ g.downloaded = s.downloaded
        /\ s.pc # "store"
    BY <2>1 DEF CallShape
  <2>3. ASSUME fetch'[t] = f, g.pc # "store"
        PROVE  CountOK(g, fetch'[t], q)
    <3>1. g.pc \notin DonePcs /\ (g.outcome = "COMPLETED" => s.outcome = "COMPLETED") /\ g.onDisk = s.onDisk
      BY <2>1, <2>3 DEF CallShape, DonePcs
    <3> QED BY <1>0, <2>2, <2>3, <3>1, CountKept
  <2>4. ASSUME fetch'[t] = f, g.pc = "store"
        PROVE  CountOK(g, fetch'[t], q)
    <3>1. f.pc = "replied" /\ f.result = "OK" /\ g.onDisk = s.resumedFrom + f.written
      BY <2>1, <2>4 DEF CallShape
    <3>2. Offset(g, q) = Offset(s, q)
      BY <2>2 DEF Offset
    <3>3. s.resumedFrom = s.resume \/ s.resumedFrom = Offset(s, q)
      BY DEF ResumeInv, ResumeOK, Untold, Offset
    <3>4. DoneOK(g, f, q)
      BY <2>2, <2>4, <3>1, <3>2, <3>3 DEF DoneOK, Sums
    <3> QED BY <1>0, <2>4, <3>2, <3>4 DEF CountOK
  <2>5. ASSUME s.pc = "newId", g.pc = "publish"
        PROVE  CountOK(g, fetch'[t], q)
    <3>1. /\ f.pc = "none" /\ fetch'[t] = [f EXCEPT !.pc = "reserved", !.id = fetch'[t].id, !.inst = fetch'[t].inst]
          /\ g.outcome = s.outcome /\ s.outcome = "none"
      BY <1>0, <2>1, <2>5 DEF CallShape, VerdictOK
    <3> DEFINE h == fetch'[t]
               i == h.id
               j == h.inst
    <3> HIDE DEF h, i, j
    <3>2. h = [f EXCEPT !.pc = "reserved", !.id = i, !.inst = j]
      BY <3>1 DEF h, i, j
    <3>3. /\ h.pc = "reserved" /\ h.framing = f.framing /\ h.written = f.written /\ h.total = f.total
          /\ h.start = f.start /\ h.result = f.result
      BY <1>0, <3>2 DEF Transfers
    <3>4. f.framing = "none" /\ f.result # "OK" /\ q = << >> /\ f.written = 0 /\ f.total \in {-1, Size}
      BY <1>0, <3>1 DEF CountOK, GaugeOK, QueueOK
    <3>5. GaugeOK(h)
      BY <3>3, <3>4 DEF GaugeOK, HeadPcs
    <3>6. QueueOK(Offset(g, q), h, q)
      BY <3>3, <3>4 DEF QueueOK, HeadPcs
    <3>7. DoneOK(g, h, q)
      BY <2>5, <3>1 DEF DoneOK, DonePcs
    <3> QED BY <3>5, <3>6, <3>7 DEF CountOK, h
  <2>6. ASSUME s.pc = "call", g.pc = "fetching"
        PROVE  CountOK(g, fetch'[t], q)
    <3> DEFINE h == fetch'[t]
               i == s.ino
               j == s.resume
    <3>1. /\ f.pc = "reserved" /\ g.outcome = s.outcome /\ s.outcome = "none"
          /\ h = [f EXCEPT !.pc = "queued", !.ino = i, !.resume = j] \/ h = ReplyOf(f, "DEAD_OBJECT")
      BY <1>0, <2>1, <2>6 DEF CallShape, VerdictOK
    <3> HIDE DEF h, i, j
    <3>2. f.framing = "none" /\ f.result # "OK" /\ q = << >> /\ f.written = 0 /\ f.total \in {-1, Size}
      BY <1>0, <3>1 DEF CountOK, GaugeOK, QueueOK
    <3>3. \/ /\ h.pc = "queued" /\ h.framing = f.framing /\ h.written = f.written /\ h.total = f.total
             /\ h.start = f.start /\ h.result = f.result
          \/ /\ h.pc = "replied" /\ h.framing = "none" /\ h.total = -1 /\ h.result = "DEAD_OBJECT"
      <4>1. CASE h = [f EXCEPT !.pc = "queued", !.ino = i, !.resume = j]
        BY <1>0, <4>1 DEF Transfers
      <4>2. CASE h = ReplyOf(f, "DEAD_OBJECT")
        BY <4>2 DEF ReplyOf, NoFetch
      <4> QED BY <3>1, <4>1, <4>2
    <3>4. GaugeOK(h)
      BY <3>2, <3>3 DEF GaugeOK, HeadPcs
    <3>5. QueueOK(Offset(g, q), h, q)
      BY <3>2, <3>3 DEF QueueOK, HeadPcs
    <3>6. DoneOK(g, h, q)
      BY <2>6, <3>1 DEF DoneOK, DonePcs
    <3> QED BY <3>4, <3>5, <3>6 DEF CountOK, h
  <2>7. CountOK(g, fetch'[t], q)
    BY <2>1, <2>3, <2>4, <2>5, <2>6 DEF CallShape
  <2> QED BY <2>1, <2>7 DEF CountsInv, CallShape
<1>3. CASE LocalStep(t)
  <2>1. LocalShape(t) /\ UNCHANGED <<relayQ, fetch>>
    BY <1>3, LocalShapes DEF LocalStep, Start, EnsureParentDir, Measure, OpenFails, PublishId, CheckCanceled,
         DupFails, StoreOnDisk, RenameFails, FinalSize, StatPart, Finish, Local, httpVars
  <2>2. ASSUME s.pc # "measure"
        PROVE  CountOK(g, f, q)
    <3>1. /\ g \in TaskRecs /\ g.resumedFrom = s.resumedFrom /\ g.resume = s.resume /\ g.onDisk = s.onDisk
          /\ g.downloaded = (IF s.pc = "store" THEN s.onDisk ELSE s.downloaded)
          /\ g.pc \in DonePcs \/ g.outcome = "COMPLETED" => s.pc \in DonePcs \/ s.outcome = "COMPLETED"
      BY <2>1, <2>2 DEF LocalShape, DonePcs
    <3> QED BY <1>0, <3>1, CountKept
  <2>3. ASSUME s.pc = "measure"
        PROVE  CountOK(g, f, q)
    <3>1. f.pc = "none" /\ s.outcome = "none" /\ g.outcome = s.outcome /\ g.pc = "open"
      BY <1>0, <2>1, <2>3 DEF CallOK, VerdictOK, LocalShape, EarlyPcs
    <3>2. q = << >>
      BY <1>0, <3>1 DEF CountOK, GaugeOK, QueueOK
    <3> QED BY <1>0, <3>1, <3>2, CountEarly DEF DonePcs
  <2>4. CountOK(g, f, q)
    BY <2>2, <2>3
  <2> QED BY <2>1, <2>4 DEF CountsInv, LocalShape
<1> QED BY <1>1, <1>2, <1>3 DEF Worker, LocalStep

\* cancel(), the registry, and nothing at all: no count moves.
LEMMA OtherCount ==
    ASSUME DlInv, CountsInv,
           \/ \E t \in Tasks : ClientCancel(t)
           \/ Canceller \/ Register \/ Reap \/ Quiet \/ UNCHANGED vars
    PROVE  /\ CountsInv' /\ UNCHANGED <<relayQ, fetch, content, part, dest>>
           /\ \A u \in Tasks : /\ task'[u].pc = task[u].pc /\ task'[u].outcome = task[u].outcome
                               /\ task'[u].downloaded = task[u].downloaded
                               /\ task'[u].resumedFrom = task[u].resumedFrom
                               /\ task'[u].total = task[u].total
                               /\ task'[u].resume = task[u].resume /\ task'[u].onDisk = task[u].onDisk
<1>0. task \in [Tasks -> TaskRecs]
  BY DEF DlInv, ControlInv, DlTyped
<1>1. UNCHANGED <<relayQ, fetch, content, part, dest>>
  BY DEF ClientCancel, Canceller, SetFlag, ReadId, CancelLookup,
         ForwardCancel, Register, Reap, Quiet, vars, httpVars, dlVars
<1>2. ASSUME NEW u \in Tasks
      PROVE  /\ task'[u].pc = task[u].pc /\ task'[u].outcome = task[u].outcome
             /\ task'[u].downloaded = task[u].downloaded /\ task'[u].resumedFrom = task[u].resumedFrom
             /\ task'[u].total = task[u].total
             /\ task'[u].resume = task[u].resume /\ task'[u].onDisk = task[u].onDisk
  <2>1. CASE SetFlag
    <3>1. task' = [task EXCEPT ![canceller.task] = [task[canceller.task] EXCEPT !.canceled = TRUE]]
      BY <2>1 DEF SetFlag
    <3> QED BY <1>0, <3>1 DEF TaskRecs
  <2>2. CASE ~SetFlag
    BY <2>2 DEF ClientCancel, Canceller, ReadId, CancelLookup, ForwardCancel, Register, Reap, Quiet, vars, dlVars
  <2> QED BY <2>1, <2>2
<1>3. ASSUME NEW u \in Tasks
      PROVE  CountOK(task'[u], fetch[u], relayQ[u])
  <2>1. CountOK(task[u], fetch[u], relayQ[u])
    BY DEF CountsInv
  <2>2. Offset(task'[u], relayQ[u]) = Offset(task[u], relayQ[u])
    BY <1>2 DEF Offset
  <2>3. DoneOK(task'[u], fetch[u], relayQ[u])
    BY <1>2, <2>1, <2>2 DEF CountOK, DoneOK, Sums
  <2> QED BY <2>1, <2>2, <2>3 DEF CountOK
<1> QED BY <1>1, <1>2, <1>3 DEF CountsInv

\* Nothing is counted in the beginning.
LEMMA InitCount == Init => CountsInv
<1> SUFFICES ASSUME Init, NEW t \in Tasks PROVE CountOK(task[t], fetch[t], relayQ[t])
  BY DEF CountsInv
<1>1. task[t] = NewTask /\ fetch[t] = NoFetch /\ relayQ[t] = << >>
  BY DEF Init, InitHttp
<1>2. /\ NoFetch.pc = "none" /\ NoFetch.framing = "none" /\ NoFetch.written = 0 /\ NoFetch.total = -1
      /\ NoFetch.result = "none" /\ NewTask.pc = "none" /\ NewTask.outcome = "none"
  BY DEF NoFetch, NewTask
<1>3. GaugeOK(NoFetch)
  BY <1>2 DEF GaugeOK, HeadPcs
<1>4. \A o : QueueOK(o, NoFetch, << >>)
  BY <1>2 DEF QueueOK
<1> QED BY <1>1, <1>2, <1>3, <1>4 DEF CountOK, DoneOK, DonePcs

\* Every step keeps the counts.
LEMMA NextCount == DlInv /\ CountsInv /\ ResumeInv /\ [Next]_vars => CountsInv'
BY WorkerCount, RelayCount, OtherCount, ProcessCount DEF Next

-------------------------------------------------------------------------------
(* The offset asked for and the server's *)

\* A step of a task that keeps its two offsets and its call.
LEMMA ResumeKept ==
    ASSUME NEW s, NEW g, NEW f, NEW q, ResumeOK(s, f, q), g.resumedFrom = s.resumedFrom, g.resume = s.resume
    PROVE  ResumeOK(g, f, q)
BY DEF ResumeOK, Offset

\* The transport: the server's answer is where the offset asked for is given up.
LEMMA TransportResume ==
    ASSUME HttpTypeOK, NEW c \in Calls, Transport(c), NEW s \in TaskRecs, relayQ \in [Calls -> Seq(Msgs)],
           GaugeOK(fetch[c]), ResumeOK(s, fetch[c], relayQ[c]), fetch[c].pc \in HandedPcs
    PROVE  ResumeOK(s, fetch'[c], relayQ'[c])
<1> DEFINE f == fetch[c]
           g == fetch'[c]
           q == relayQ[c]
<1>0. f \in Transfers /\ q \in Seq(Msgs) /\ f.resume = s.resume /\ f.resume \in Nat
  BY DEF HttpTypeOK, Transfers, ResumeOK
<1>1. g.resume = s.resume
  BY <1>0, TransportSink
<1>2. CASE Strolls(c)
  <2>1. relayQ'[c] = q /\ (g.framing = "none" => f.framing = "none")
    BY <1>2 DEF Strolls
  <2>2. Untold(g, q) => Untold(f, q)
    BY <1>2, <2>1 DEF Strolls, Untold, HeadPcs, GaugeOK
  <2> QED BY <1>1, <2>1, <2>2 DEF ResumeOK
<1>3. CASE Stops(c) \/ WriteFails(c)
  <2>1. relayQ'[c] = q /\ \E r : g = ResultOf(f, r)
    <3>1. CASE Stops(c)
      BY <3>1 DEF Stops
    <3>2. CASE WriteFails(c)
      BY <3>2, WriteFailShapes DEF WriteFailShape
    <3> QED BY <1>3, <3>1, <3>2
  <2>2. g.pc = "end"
    BY <1>0, <2>1 DEF ResultOf, Transfers
  <2>3. Untold(g, q) => Untold(f, q)
    BY <2>2 DEF Untold, HeadPcs
  <2> QED BY <1>1, <2>1, <2>3 DEF ResumeOK
<1>4. CASE RecvHead(c)
  <2>1. PICK fr \in Framings : \E a \in Answers(f.resume, fr) : HeadShape(c, fr, a)
    BY <1>4, HeadShapes
  <2>2. PICK a \in Answers(f.resume, fr) : HeadShape(c, fr, a)
    BY <2>1
  <2>3. a.start \in {s.resume, 0} /\ a.start \in Nat /\ a.total \in Int
    BY <1>0, AnswersAre
  <2>4. Untold(f, q)
    BY <2>2 DEF HeadShape, Untold, HeadPcs
  <2>5. s.resumedFrom = s.resume
    BY <2>4 DEF ResumeOK
  <2> DEFINE m == <<"start", a.start, a.total>>
  <2>6. m \in Msgs /\ m[1] = "start" /\ m[2] = a.start
    BY <2>3 DEF Msgs
  <2>7. relayQ'[c] = Append(q, m)
    BY <2>2 DEF HeadShape
  <2> HIDE DEF m
  <2>8. Offset(s, relayQ'[c]) \in {s.resume, 0}
    <3>1. CASE q = << >>
      <4>1. relayQ'[c] # << >> /\ relayQ'[c][1] = m
        BY <1>0, <2>6, <2>7, <3>1, Appended
      <4> QED BY <2>3, <2>6, <4>1 DEF Offset
    <3>2. CASE q # << >>
      <4>1. relayQ'[c] # << >> /\ relayQ'[c][1] = q[1]
        BY <1>0, <2>6, <2>7, <3>2, Appended
      <4> QED BY <3>2, <4>1 DEF Offset, ResumeOK
    <3> QED BY <3>1, <3>2
  <2> QED BY <1>1, <2>5, <2>8 DEF ResumeOK
<1>5. CASE RecvBody(c)
  <2>1. PICK k \in 1..Remaining(c) : BodyShape(c, k)
    BY <1>5, BodyShapes
  <2> DEFINE w == f.written + k
             m == <<"bytes", w, f.total>>
  <2>2. /\ f.framing # "none" /\ (g.pc = "end" \/ g.framing = f.framing)
        /\ relayQ'[c] = Append(q, m) \/ relayQ'[c] = q
    BY <2>1 DEF BodyShape
  <2>3. w \in Nat /\ f.total \in Int
    <3>1. f.written \in Nat /\ f.total \in Int /\ Remaining(c) \in Int
      BY <1>0, SizeAssumption DEF Transfers, Remaining
    <3> QED BY <3>1
  <2> HIDE DEF w
  <2>4. m \in Msgs /\ m[1] = "bytes"
    BY <2>3 DEF Msgs
  <2> HIDE DEF m
  <2>5. Offset(s, relayQ'[c]) = Offset(s, q)
    BY <1>0, <2>2, <2>4, OffsetCount
  <2>6. Untold(g, relayQ'[c]) => Untold(f, q)
    BY <1>0, <2>2, <2>4, Appended DEF Untold, HeadPcs
  <2> QED BY <1>1, <2>5, <2>6 DEF ResumeOK
<1> QED BY <1>2, <1>3, <1>4, <1>5, TransportKinds

\* The process keeps the offsets apart.
LEMMA ProcessResume ==
    ASSUME DlInv, CountsInv, ResumeInv, HttpProcess, UNCHANGED dlVars
    PROVE  ResumeInv'
<1>0. /\ HttpInv /\ HttpTypeOK /\ UNCHANGED task /\ fetch \in [Calls -> Transfers]
      /\ relayQ \in [Calls -> Seq(Msgs)] /\ task \in [Tasks -> TaskRecs]
  BY DEF DlInv, ControlInv, DlTyped, HttpInv, HttpTypeOK, dlVars
<1> SUFFICES ASSUME NEW t \in Tasks PROVE ResumeOK(task[t], fetch'[t], relayQ'[t])
  BY <1>0 DEF ResumeInv
<1> DEFINE s == task[t]
           f == fetch[t]
           g == fetch'[t]
           q == relayQ[t]
<1>1. /\ s \in TaskRecs /\ f \in Transfers /\ q \in Seq(Msgs) /\ GaugeOK(f) /\ ResumeOK(s, f, q)
  BY <1>0 DEF CountsInv, CountOK, ResumeInv
<1>2. ASSUME NEW c \in Calls, Transport(c)
      PROVE  ResumeOK(s, g, relayQ'[t])
  <2>1. CASE c # t
    BY <1>0, <1>1, <1>2, <2>1, TransportMoves, TransportSink DEF Moves
  <2>2. CASE c = t
    <3>1. f.pc \in HandedPcs
      BY <1>0, <1>2, <2>2, TransportMoves, PcSets DEF Moves, HandedPcs
    <3> QED BY <1>0, <1>1, <1>2, <2>2, <3>1, TransportResume
  <2> QED BY <2>1, <2>2
<1>3. CASE \A c \in Calls : ~Transport(c)
  <2>1. CallMoves(f, g)
    BY <1>0, <1>3, ProcessMoves
  <2>2. ASSUME NEW z, Untold(g, z) => Untold(f, q), Offset(s, z) = Offset(s, q)
        PROVE  ResumeOK(s, g, z)
    <3>1. g.pc \in HandedPcs => f.pc \in HandedPcs /\ g.resume = f.resume
      <4>1. "queued" \in HandedPcs /\ "begun" \in HandedPcs /\ "end" \in HandedPcs /\ "replied" \notin HandedPcs
        BY PcSets DEF HandedPcs, ServedPcs
      <4> QED BY <1>1, <2>1, <4>1, MovedCall
    <3> QED BY <1>1, <2>2, <3>1 DEF ResumeOK
  <2>3. g.pc \in {"none", "reserved"} \cup HeadPcs /\ g.framing = "none" =>
           f.pc \in {"none", "reserved"} \cup HeadPcs /\ f.framing = "none"
    BY <1>1, <2>1, MovedCall DEF HeadPcs
  <2>4. CASE relayQ'[t] = q
    BY <2>2, <2>3, <2>4 DEF Untold
  <2>5. CASE relayQ'[t] # q
    <3> DEFINE m == <<"bytes", f.written, f.total>>
    <3>1. PICK c \in Calls : EndRequest(c)
      BY <1>0, <1>3, <2>5, ProcessKinds
    <3>2. relayQ'[t] = Append(q, m)
      BY <1>0, <2>5, <3>1 DEF EndRequest
    <3>3. m \in Msgs /\ m[1] = "bytes"
      BY <1>1 DEF Msgs, Transfers
    <3> HIDE DEF m
    <3>4. Offset(s, relayQ'[t]) = Offset(s, q)
      BY <1>1, <3>2, <3>3, OffsetCount
    <3>5. Untold(g, relayQ'[t]) => Untold(f, q)
      BY <1>1, <2>3, <3>2, <3>3, Appended DEF Untold
    <3> QED BY <2>2, <3>4, <3>5
  <2> QED BY <2>4, <2>5
<1> QED BY <1>2, <1>3

\* The relay records the server's offset in the place of the one asked for.
LEMMA RelayResume ==
    ASSUME DlInv, CountsInv, ResumeInv, NEW t \in Tasks, Relay(t)
    PROVE  ResumeInv'
<1> DEFINE s == task[t]
           g == task'[t]
           f == fetch[t]
           q == relayQ[t]
           z == Tail(q)
<1>0. s \in TaskRecs /\ q \in Seq(Msgs) /\ f \in Transfers
  BY TaskFacts DEF DlInv, ControlInv, DlTyped
<1>1. RelayStores(t) /\ fetch' = fetch /\ \A u \in Tasks \ {t} : task'[u] = task[u] /\ relayQ'[u] = relayQ[u]
  BY RelayStored
<1>2. q # << >> /\ g \in TaskRecs /\ g.resume = s.resume /\ relayQ'[t] = z
  BY <1>1 DEF RelayStores
<1>3. QueueOK(Offset(s, q), f, q) /\ ResumeOK(s, f, q)
  BY DEF CountsInv, CountOK, ResumeInv
<1>4. \A i \in DOMAIN q : q[i][1] = "start" => i = 1
  BY <1>3 DEF QueueOK, MsgOK
<1>5. Offset(g, z) = Offset(s, q)
  BY <1>0, <1>1, <1>2, <1>4, RelayOffset DEF RelayStores
<1>6. ~Untold(f, z)
  <2>1. ~(f.pc \in {"none", "reserved"} \cup HeadPcs /\ f.framing = "none")
    BY <1>2, <1>3 DEF QueueOK
  <2>2. z # << >> => z[1][1] # "start"
    <3>1. z # << >> => Len(q) \in Nat /\ Len(q) > 1 /\ DOMAIN q = 1..Len(q) /\ z[1] = q[2]
      BY <1>0, <1>2, Popped
    <3>2. z # << >> => 2 \in DOMAIN q
      BY <3>1
    <3> QED BY <1>4, <3>1, <3>2
  <2> QED BY <2>1, <2>2 DEF Untold
<1>7. ResumeOK(g, f, z)
  BY <1>2, <1>3, <1>5, <1>6 DEF ResumeOK
<1> QED BY <1>1, <1>2, <1>7 DEF ResumeInv

\* The worker measures the offset it will ask for, and asks for it.
LEMMA WorkerResume ==
    ASSUME DlInv, CountsInv, ResumeInv, NEW t \in Tasks, Enqueue(t) \/ Worker(t)
    PROVE  ResumeInv'
<1> DEFINE s == task[t]
           g == task'[t]
           f == fetch[t]
           q == relayQ[t]
<1>0. s \in TaskRecs /\ f \in Transfers /\ CallOK(s, f) /\ CountOK(s, f, q) /\ ResumeOK(s, f, q)
  BY TaskFacts DEF CountsInv, ResumeInv
<1>1. CASE Enqueue(t) \/ OpenPart(t) \/ Rename(t) \/ UnlinkPart(t) \/ Report(t)
  <2>1. PathShape(t) /\ UNCHANGED <<fetch, relayQ>>
    BY <1>1, PathShapes
  <2>2. ResumeOK(g, f, q)
    BY <1>0, <2>1, ResumeKept DEF PathShape
  <2> QED BY <2>1, <2>2 DEF ResumeInv, PathShape
<1>2. CASE WorkerLookup(t) \/ ReserveId(t) \/ ReserveIdFails(t) \/ CallFetch(t) \/ FetchReturns(t)
  <2>1. CallShape(t) /\ UNCHANGED relayQ
    BY <1>2, CallShapes
  <2>2. ResumeOK(g, f, q) /\ g.resume = s.resume
    BY <1>0, <2>1, ResumeKept DEF CallShape
  <2> DEFINE h == fetch'[t]
             i == s.ino
             j == s.resume
  <2>3. f.pc \in {"none", "reserved"} => Untold(f, q)
    BY <1>0 DEF CountOK, GaugeOK, Untold
  <2>4. \/ h = f
        \/ f.pc \in {"none", "reserved"} /\ h.pc \notin HandedPcs
        \/ f.pc \in {"none", "reserved"} /\ h.resume = j
    <3>1. \/ h = f
          \/ f.pc = "none" /\ h = [f EXCEPT !.pc = "reserved", !.id = h.id, !.inst = h.inst]
          \/ /\ f.pc = "reserved"
             /\ h = [f EXCEPT !.pc = "queued", !.ino = i, !.resume = j] \/ h = ReplyOf(f, "DEAD_OBJECT")
      BY <2>1 DEF CallShape
    <3> HIDE DEF h, i, j
    <3>2. CASE h = [f EXCEPT !.pc = "reserved", !.id = h.id, !.inst = h.inst]
      <4>1. h.pc = "reserved"
        BY <1>0, <3>2 DEF Transfers
      <4> QED BY <3>1, <4>1, PcSets DEF HandedPcs
    <3>3. h = [f EXCEPT !.pc = "queued", !.ino = i, !.resume = j] => h.resume = j
      BY <1>0 DEF Transfers
    <3>4. h = ReplyOf(f, "DEAD_OBJECT") => h.pc = "replied" /\ h.pc \notin HandedPcs
      <4>1. h = ReplyOf(f, "DEAD_OBJECT") => h.pc = "replied"
        BY DEF ReplyOf, NoFetch
      <4> QED BY <4>1, PcSets DEF HandedPcs
    <3> QED BY <3>1, <3>2, <3>3, <3>4
  <2> HIDE DEF h
  <2>5. ResumeOK(g, h, q)
    BY <2>1, <2>2, <2>3, <2>4 DEF ResumeOK, CallShape
  <2> QED BY <2>1, <2>5 DEF ResumeInv, CallShape, h
<1>3. CASE LocalStep(t)
  <2>1. LocalShape(t) /\ UNCHANGED <<relayQ, fetch>>
    BY <1>3, LocalShapes DEF LocalStep, Start, EnsureParentDir, Measure, OpenFails, PublishId, CheckCanceled,
         DupFails, StoreOnDisk, RenameFails, FinalSize, StatPart, Finish, Local, httpVars
  <2>2. CASE s.pc # "measure"
    <3>1. ResumeOK(g, f, q)
      BY <1>0, <2>1, <2>2, ResumeKept DEF LocalShape
    <3> QED BY <2>1, <3>1 DEF ResumeInv, LocalShape
  <2>3. CASE s.pc = "measure"
    <3>1. f.pc = "none" /\ g.resume = g.resumedFrom
      BY <1>0, <2>1, <2>3 DEF CallOK, LocalShape, EarlyPcs
    <3>2. q = << >> /\ f.pc \notin HandedPcs
      BY <1>0, <3>1, PcSets DEF CountOK, GaugeOK, QueueOK, HandedPcs
    <3>3. ResumeOK(g, f, q)
      BY <3>1, <3>2 DEF ResumeOK, Offset
    <3> QED BY <2>1, <3>3 DEF ResumeInv, LocalShape
  <2> QED BY <2>2, <2>3
<1> QED BY <1>1, <1>2, <1>3 DEF Worker, LocalStep

\* Every step keeps the counts and the offsets.
LEMMA NextOffsets == DlInv /\ CountsInv /\ ResumeInv /\ [Next]_vars => (CountsInv /\ ResumeInv)'
<1>1. ASSUME DlInv, CountsInv, ResumeInv,
             \/ \E t \in Tasks : ClientCancel(t)
             \/ Canceller \/ Register \/ Reap \/ Quiet \/ UNCHANGED vars
      PROVE  ResumeInv'
  BY <1>1, OtherCount, ResumeKept DEF ResumeInv
<1>2. DlInv /\ CountsInv /\ ResumeInv /\ [Next]_vars => ResumeInv'
  BY <1>1, WorkerResume, RelayResume, ProcessResume DEF Next
<1> QED BY <1>2, NextCount

\* In the beginning nothing is asked for.
LEMMA InitOffsets == Init => CountsInv /\ ResumeInv
<1> SUFFICES ASSUME Init, NEW t \in Tasks PROVE ResumeOK(task[t], fetch[t], relayQ[t])
  BY InitCount DEF ResumeInv
<1>1. task[t] = NewTask /\ fetch[t] = NoFetch /\ relayQ[t] = << >>
  BY DEF Init, InitHttp
<1>2. NoFetch.pc = "none" /\ NewTask.resumedFrom = 0 /\ NewTask.resume = 0
  BY DEF NoFetch, NewTask
<1>3. NoFetch.pc \notin HandedPcs
  BY <1>2, PcSets DEF HandedPcs
<1> QED BY <1>1, <1>2, <1>3 DEF ResumeOK, Offset

\* With the transfer over and complete, a sum is the size; or it is too high by
\* the offset asked for, when the server started over.
LEMMA SumIs ==
    ASSUME NEW s \in TaskRecs, NEW f \in Transfers, NEW q \in Seq(Msgs), NEW n \in Sums(s, f, q),
           Offset(s, q) \in {s.resume, 0}, Offset(s, q) + f.written = Size
    PROVE  n = Size \/ (Offset(s, q) # s.resume /\ n = s.resume + Size)
<1>1. s.resume \in Nat
  BY DEF TaskRecs
<1>2. f.written \in Nat
  BY DEF Transfers
<1>3. Offset(s, q) \in Nat
  BY OffsetNat
<1> QED BY <1>1, <1>2, <1>3 DEF Sums

\* Once a task is COMPLETED and no message of its relay is left, the byte count
\* is the size of the resource, whichever of the relay and the worker stored it
\* last, or, when the server sent everything again, that size and the prefix the
\* worker had asked to keep; for any number of downloads, to whatever paths,
\* unless a body that only the end of the connection delimits is cut short.
THEOREM DownloadCompletedBytes ==
    ASSUME Framed
    PROVE  Spec => []CompletedBytes
<1> DEFINE I == DlInv /\ CountsInv /\ ResumeInv
<1>1. Init => I
  BY InitDl, InitOffsets
<1>2. I /\ [Next]_vars => I'
  BY NextDl, NextOffsets
<1>3. I => CompletedBytes
  <2> SUFFICES ASSUME DlInv, CountsInv, ResumeInv,
                      NEW t \in Tasks, task[t].state = "COMPLETED", relayQ[t] = << >>
               PROVE  \/ task[t].downloaded = Size
                      \/ StartedOver(t) /\ task[t].downloaded = task[t].resume + Size
    BY DEF CompletedBytes
  <2> DEFINE s == task[t]
             f == fetch[t]
             q == relayQ[t]
  <2>1. VerdictOK(s) /\ s \in TaskRecs /\ f \in Transfers /\ q \in Seq(Msgs)
    BY TaskFacts DEF DlInv, ControlInv, DlTyped
  <2>2. s.outcome = "COMPLETED" /\ s.pc # "store"
    BY <2>1 DEF VerdictOK, RunningPcs, TaskRecs, WorkerPcs
  <2>3. s.downloaded \in Sums(s, f, q) /\ Offset(s, q) + f.written = Size
    BY <2>2 DEF CountsInv, CountOK, DoneOK, QueueOK
  <2>4. Offset(s, q) \in {s.resume, 0} /\ Offset(s, q) = s.resumedFrom
    BY DEF ResumeInv, ResumeOK, Offset
  <2> QED BY <2>1, <2>3, <2>4, SumIs DEF StartedOver
<1> QED BY <1>1, <1>2, <1>3, PTL DEF Spec

-------------------------------------------------------------------------------
(* The percentage *)

\* The total a client is told of is the size, as soon as there is one.
TotalInv == \A t \in Tasks : task[t].total \in {-1, Size}

\* A part of a whole is at most a hundred per cent of it.
LEMMA PercentOf ==
    ASSUME NEW a \in Nat, NEW b \in Nat, b > 0, a <= b
    PROVE  (a * 100) \div b \in 0..100
<1>1. PICK q \in Int : q = (a * 100) \div b
  OBVIOUS
<1>2. b * q <= a * 100 /\ a * 100 < b * q + b
  BY <1>1
<1>3. q >= 0
  <2>1. ASSUME q <= -1 PROVE FALSE
    <3>1. b * q <= -b
      BY <2>1
    <3> QED BY <1>2, <3>1
  <2> QED BY <2>1
<1>4. q <= 100
  <2>1. ASSUME q >= 101 PROVE FALSE
    <3>1. b * q >= b * 101
      BY <2>1
    <3> QED BY <1>2, <3>1
  <2> QED BY <2>1
<1> QED BY <1>1, <1>3, <1>4

\* A finished file has the size of the resource.
LEMMA WholeSize ==
    ASSUME DlInv, DestComplete, NEW d \in Dests, dest[d] \in Inodes
    PROVE  Len(content[dest[d]]) = Size
<1>1. PICK t \in Tasks : content[dest[d]] = Whole(t)
  BY NamesAssumption DEF DestComplete, IsWhole
<1> DEFINE w == [i \in 1..Size |-> ResourceOf[t]]
<1>2. w \in [1..Size -> {ResourceOf[t]}]
  OBVIOUS
<1> HIDE DEF w
<1>3. Len(w) = Size
  BY <1>2, SizeAssumption
<1> QED BY <1>1, <1>3 DEF Whole, w

\* Every step keeps the totals right.
LEMMA NextTotal ==
    ASSUME DlInv, CountsInv, DestComplete, TotalInv, [Next]_vars
    PROVE  TotalInv'
<1>1. ASSUME NEW t \in Tasks, Enqueue(t) \/ OpenPart(t) \/ Rename(t) \/ UnlinkPart(t) \/ Report(t)
      PROVE  TotalInv'
  BY <1>1, PathShapes DEF PathShape, TotalInv
<1>2. ASSUME NEW t \in Tasks,
             WorkerLookup(t) \/ ReserveId(t) \/ ReserveIdFails(t) \/ CallFetch(t) \/ FetchReturns(t)
      PROVE  TotalInv'
  BY <1>2, CallShapes DEF CallShape, TotalInv
<1>3. ASSUME NEW t \in Tasks, LocalStep(t)
      PROVE  TotalInv'
  <2>1. LocalShape(t)
    BY <1>3, LocalShapes
  <2>2. task[t].pc = "size" => Len(content[dest[DestOf[t]]]) = Size
    BY TaskFacts, WholeSize
  <2> QED BY <2>1, <2>2 DEF LocalShape, TotalInv
<1>4. ASSUME NEW t \in Tasks, Relay(t)
      PROVE  TotalInv'
  <2>1. RelayStores(t) /\ \A u \in Tasks \ {t} : task'[u] = task[u]
    BY <1>4, RelayStored
  <2>2. relayQ[t] \in Seq(Msgs) /\ relayQ[t] # << >>
    BY <2>1 DEF RelayStores, DlInv, ControlInv, DlTyped
  <2>3. 1 \in DOMAIN relayQ[t]
    BY <2>2, Popped
  <2>4. relayQ[t][1][3] \in {-1, Size}
    BY <2>3 DEF CountsInv, CountOK, QueueOK, MsgOK
  <2> QED BY <2>1, <2>4 DEF RelayStores, TotalInv
<1>5. CASE HttpProcess /\ UNCHANGED dlVars
  BY <1>5 DEF dlVars, TotalInv
<1>6. ASSUME NEW t \in Tasks, Enqueue(t) \/ Worker(t) \/ Relay(t)
      PROVE  TotalInv'
  BY <1>1, <1>2, <1>3, <1>4, <1>6 DEF Worker, LocalStep
<1> QED BY <1>5, <1>6, OtherCount DEF Next, TotalInv

\* The percentage that onBytesReceived() computes is within 0..100, whatever the
\* server says of lengths and ranges and however late the message is.
THEOREM DownloadPercentInRange ==
    ASSUME OneAtATime, OneResource, Framed
    PROVE  Spec => []PercentInRange
<1> DEFINE I == FileInv /\ CountsInv /\ ResumeInv /\ TotalInv
<1>1. Init => I
  <2>1. Init => TotalInv
    BY DEF Init, NewTask, TotalInv
  <2> QED BY <2>1, InitDl, InitPath, InitContent, InitOffsets DEF FileInv
<1>2. I /\ [Next]_vars => I'
  <2>1. FileInv => DlInv /\ DestComplete
    BY DEF FileInv, ContentInv
  <2> QED BY <2>1, NextFiles, NextOffsets, NextTotal
<1>3. I => PercentInRange
  <2> SUFFICES ASSUME DlInv, CountsInv, TotalInv, NEW t \in Tasks,
                      relayQ[t] # << >>, Head(relayQ[t])[1] = "bytes"
               PROVE  LET done == task[t].resumedFrom + Head(relayQ[t])[2]
                          total == IF Head(relayQ[t])[3] >= 0 THEN Head(relayQ[t])[3] ELSE task[t].total
                      IN  total > 0 => (done * 100) \div total \in 0..100
    BY DEF PercentInRange, FileInv
  <2> DEFINE q == relayQ[t]
             done == task[t].resumedFrom + Head(q)[2]
             total == IF Head(q)[3] >= 0 THEN Head(q)[3] ELSE task[t].total
  <2>1. q \in Seq(Msgs) /\ task[t] \in TaskRecs
    BY DEF DlInv, ControlInv, DlTyped
  <2>2. Head(q) = q[1] /\ Head(q) \in Msgs /\ 1 \in DOMAIN q
    BY <2>1, Popped
  <2>3. MsgOK(Offset(task[t], q), 1, q[1]) /\ Offset(task[t], q) = task[t].resumedFrom
    BY <2>2 DEF CountsInv, CountOK, QueueOK, Offset
  <2>4. Head(q)[2] \in Nat /\ Head(q)[3] \in {-1, Size} /\ task[t].resumedFrom \in Nat /\ done <= Size
    BY <2>1, <2>2, <2>3 DEF MsgOK, Msgs, TaskRecs
  <2>5. done \in Nat /\ total \in {-1, Size} /\ Size \in Nat
    BY <2>4, SizeAssumption DEF TotalInv
  <2>6. total > 0 => total \in Nat /\ done <= total
    BY <2>4, <2>5
  <2> HIDE DEF done, total
  <2>7. total > 0 => (done * 100) \div total \in 0..100
    BY <2>5, <2>6, PercentOf
  <2> QED BY <2>7 DEF done, total
<1> QED BY <1>1, <1>2, <1>3, PTL DEF Spec

-------------------------------------------------------------------------------
(* The counts and the .part *)

\* The count that a message stands for.
Reached(o, m) == IF m[1] = "start" THEN m[2] ELSE o + m[2]

\* The one count that is too high: the worker's sum from the offset asked for,
\* stored after the relay's messages, when the server started over.
Excess(s, f, p) == s.resumedFrom # s.resume /\ f.pc = "replied" /\ f.result = "OK" /\ s.downloaded = s.resume + p

\* Until the .part becomes the destination file it has at least the bytes that
\* the task counts, but for that excess, and those that any message on its way
\* stands for.  The count of a task whose new offset is still on its way is of no
\* account.
DiskOK(s, f, q, p) ==
    /\ s.pc \in {"none", "start", "dir", "measure"} => s.downloaded = 0
    /\ s.pc # "size" /\ s.outcome # "COMPLETED" =>
          /\ q = << >> \/ q[1][1] # "start" => s.downloaded <= p \/ Excess(s, f, p)
          /\ \A i \in DOMAIN q : Reached(Offset(s, q), q[i]) <= p

DiskInv == \A t \in Tasks : DiskOK(task[t], fetch[t], relayQ[t], PartSize(t))

\* The .part may grow before the reply.
LEMMA DiskGrows ==
    ASSUME NEW s \in TaskRecs, NEW f, NEW g, NEW q \in Seq(Msgs), NEW p \in Nat, NEW n \in Nat, p <= n,
           DiskOK(s, f, q, p), f.pc # "replied"
    PROVE  DiskOK(s, g, q, n)
<1>1. s.downloaded \in Nat /\ Offset(s, q) \in Nat
  BY OffsetNat DEF TaskRecs
<1>2. ASSUME NEW i \in DOMAIN q PROVE Reached(Offset(s, q), q[i]) \in Nat
  <2>1. q[i] \in Msgs
    OBVIOUS
  <2>2. q[i][2] \in Nat
    BY <2>1 DEF Msgs
  <2> QED BY <1>1, <2>2 DEF Reached
<1> QED BY <1>1, <1>2 DEF DiskOK, Excess

\* A count that the .part bears out is sent.
LEMMA DiskSent ==
    ASSUME NEW s \in TaskRecs, NEW f, NEW q \in Seq(Msgs), NEW p, NEW m \in Msgs, DiskOK(s, f, q, p),
           m[1] = "bytes", Offset(s, q) + m[2] <= p
    PROVE  DiskOK(s, f, Append(q, m), p)
<1> DEFINE z == Append(q, m)
           o == Offset(s, q)
<1>1. Offset(s, z) = o
  BY OffsetCount
<1>2. /\ z # << >> /\ Len(q) \in Nat /\ DOMAIN q = 1..Len(q) /\ DOMAIN z = 1..(Len(q) + 1)
      /\ z[Len(q) + 1] = m /\ (\A i \in 1..Len(q) : z[i] = q[i])
      /\ (q = << >> => z[1] = m) /\ (q # << >> => z[1] = q[1])
  BY Appended
<1>3. Reached(o, m) <= p
  BY DEF Reached
<1> HIDE DEF z, o
<1> SUFFICES ASSUME s.pc # "size", s.outcome # "COMPLETED"
             PROVE  /\ z[1][1] # "start" => s.downloaded <= p \/ Excess(s, f, p)
                    /\ \A i \in DOMAIN z : Reached(o, z[i]) <= p
  BY <1>1, <1>2 DEF DiskOK, z
<1>4. /\ q = << >> \/ q[1][1] # "start" => s.downloaded <= p \/ Excess(s, f, p)
      /\ \A i \in DOMAIN q : Reached(o, q[i]) <= p
  BY DEF DiskOK, o
<1>5. z[1][1] # "start" => s.downloaded <= p \/ Excess(s, f, p)
  BY <1>2, <1>4
<1>6. ASSUME NEW i \in DOMAIN z PROVE Reached(o, z[i]) <= p
  BY <1>2, <1>3, <1>4
<1> QED BY <1>5, <1>6

\* The .part of a task and what its transfer writes to.
LEMMA PartSink ==
    ASSUME FileInv, NEW t \in Tasks, fetch[t].pc \in HandedPcs
    PROVE  /\ PartSize(t) = Len(content[fetch[t].ino]) /\ fetch[t].ino \in Inodes
           /\ content[fetch[t].ino] \in Seq(Bytes) /\ part[DestOf[t]] = fetch[t].ino
           /\ SinkOK(fetch[t], content[fetch[t].ino]) /\ Pure(content[fetch[t].ino], ResourceOf[t])
<1>1. fetch[t].ino \in Inodes /\ part[DestOf[t]] = fetch[t].ino /\ NoInode \notin Inodes
  BY WriteTouches, NamesAssumption DEF FileInv
<1>2. content[fetch[t].ino] \in Seq(Bytes)
  BY <1>1 DEF FileInv, DlInv, HttpInv, HttpTypeOK
<1>3. PartSize(t) = Len(content[fetch[t].ino])
  BY <1>1 DEF PartSize
<1> QED BY <1>1, <1>2, <1>3 DEF FileInv, ContentInv, ContentOf

\* The transport tells of no byte that is not in the file.
LEMMA TransportDisk ==
    ASSUME Framed, FileInv, CountsInv, DiskInv, NEW t \in Tasks, Transport(t), UNCHANGED dlVars
    PROVE  DiskOK(task[t], fetch'[t], relayQ'[t], PartSize(t)')
<1> DEFINE s == task[t]
           f == fetch[t]
           g == fetch'[t]
           q == relayQ[t]
           x == content[fetch[t].ino]
           y == content'[fetch[t].ino]
<1>0. /\ DlInv /\ HttpTypeOK /\ s \in TaskRecs /\ f \in Transfers /\ q \in Seq(Msgs) /\ part' = part
      /\ relayQ \in [Tasks -> Seq(Msgs)] /\ content' \in [Inodes -> Seq(Bytes)]
  <2>1. DlInv /\ DlInv'
    BY ProcessInv DEF FileInv, HttpProcess, Transfer, Transport
  <2> QED BY <2>1, TaskFacts DEF DlInv, ControlInv, DlTyped, HttpInv, HttpTypeOK, dlVars
<1>1. f.pc \in HandedPcs
  BY <1>0, TransportMoves, PcSets DEF Moves, HandedPcs
<1>2. /\ PartSize(t) = Len(x) /\ f.ino \in Inodes /\ x \in Seq(Bytes) /\ part[DestOf[t]] = f.ino
      /\ SinkOK(f, x) /\ Pure(x, ResourceOf[t]) /\ NoInode \notin Inodes
  BY <1>1, PartSink, NamesAssumption
<1>3. PartSize(t)' = Len(y) /\ y \in Seq(Bytes) /\ Len(y) \in Nat /\ Len(x) \in Nat
  BY <1>0, <1>2 DEF PartSize
<1>4. SinkOK(g, y)
  BY <1>0, <1>2, TransportContent
<1>5. DiskOK(s, f, q, Len(x)) /\ GaugeOK(f) /\ QueueOK(Offset(s, q), f, q)
  BY <1>2 DEF DiskInv, CountsInv, CountOK
<1>6. s.pc = "fetching" /\ s.outcome = "none" /\ f.pc # "replied"
  <2>1. s.pc = "fetching" /\ s.outcome = "none"
    BY <1>0, <1>1, TaskFacts DEF CallOK, VerdictOK
  <2>2. f.pc # "replied"
    BY DEF Transport, StartHop, Connect, Poll, RecvAgain, RecvFails, RecvStatus, RefuseHead, RecvEof, RecvBlankLine,
           RecvJunk, RecvRedirect, RecvLastChunk, RecvHead, RecvBody, WriteFails, Interrupt, Stop
  <2> QED BY <2>1, <2>2
<1>7. CASE Strolls(t) \/ Stops(t)
  <2>1. relayQ'[t] = q /\ y = x
    BY <1>7 DEF Strolls, Stops
  <2> QED BY <1>0, <1>3, <1>5, <1>6, <2>1, DiskGrows
<1>8. CASE RecvHead(t)
  <2>1. PICK fr \in Framings : \E a \in Answers(f.resume, fr) : HeadShape(t, fr, a)
    BY <1>0, <1>8, HeadShapes
  <2>2. PICK a \in Answers(f.resume, fr) : HeadShape(t, fr, a)
    BY <2>1
  <2> DEFINE m == <<"start", a.start, a.total>>
             z == relayQ'[t]
  <2>3. f.resume \in Nat
    BY <1>0 DEF Transfers
  <2>4. a.start \in Nat /\ a.total \in Int /\ fr \notin {"none", "trailers"}
    BY <2>3, AnswersAre, ChoiceAssumption
  <2>5. f.written = 0 /\ q = << >> /\ f.result # "OK"
    BY <1>5, <2>2 DEF HeadShape, GaugeOK, QueueOK, HeadPcs
  <2>6. z = Append(q, m)
    BY <1>0, <2>2 DEF HeadShape
  <2>7. m \in Msgs /\ m[1] = "start" /\ m[2] = a.start
    BY <2>4 DEF Msgs
  <2>8. z # << >> /\ z[1] = m /\ DOMAIN z = {1}
    <3> HIDE DEF m
    <3>1. Len(q) = 0 /\ Append(q, m) # << >> /\ Append(q, m)[1] = m /\ DOMAIN Append(q, m) = 1..(Len(q) + 1)
      BY <1>0, <2>5, <2>7, Appended
    <3> QED BY <2>6, <3>1
  <2>9. Len(y) = a.start
    <3>1. /\ g.start = a.start /\ g.written = 0
          /\ \/ g.pc = "end" /\ g.framing = "none" /\ g.result = "OK" /\ a.start = Size
             \/ g.framing = fr /\ g.result # "OK"
      BY <2>2, <2>5 DEF HeadShape
    <3>2. a.start + 0 = a.start
      BY <2>4
    <3> QED BY <1>4, <2>4, <3>1, <3>2 DEF SinkOK
  <2> QED BY <1>3, <1>6, <2>4, <2>7, <2>8, <2>9 DEF DiskOK, Reached
<1>9. CASE RecvBody(t)
  <2>1. PICK k \in 1..Remaining(t) : BodyShape(t, k)
    BY <1>0, <1>9, BodyShapes
  <2> DEFINE w == f.written + k
             m == <<"bytes", w, f.total>>
  <2>2. /\ f.framing # "none" /\ g.start = f.start /\ g.written = w
        /\ (g.pc = "end" /\ g.result = "OK") \/ g.framing = f.framing
        /\ relayQ'[t] = Append(q, m) \/ relayQ'[t] = q
    BY <1>0, <2>1 DEF BodyShape
  <2>3. f.start \in Nat /\ f.written \in Nat /\ f.total \in Int /\ k \in Nat /\ Remaining(t) \in Int
    BY <1>0, SizeAssumption DEF Transfers, Remaining
  <2>4. Len(x) = f.start + f.written
    BY <1>2, <2>2 DEF SinkOK
  <2> DEFINE o == Offset(s, q)
  <2>5. o = f.start
    BY <1>5, <2>2 DEF QueueOK
  <2>6. Len(y) = f.start + w
    <3> HIDE DEF w
    <3> QED BY <1>4, <2>2 DEF SinkOK
  <2>7. Len(x) <= Len(y)
    BY <2>3, <2>4, <2>6
  <2>8. DiskOK(s, g, q, Len(y))
    BY <1>0, <1>3, <1>5, <1>6, <2>7, DiskGrows
  <2>9. m \in Msgs /\ m[1] = "bytes" /\ m[2] = w
    BY <2>3 DEF Msgs
  <2> HIDE DEF m
  <2>10. DiskOK(s, g, Append(q, m), Len(y))
    BY <1>0, <1>3, <2>3, <2>5, <2>6, <2>8, <2>9, DiskSent
  <2> QED BY <1>3, <2>2, <2>8, <2>10
<1>10. CASE WriteFails(t)
  <2>1. PICK k \in 0..(Remaining(t) - 1) : WriteFailShape(t, k)
    BY <1>0, <1>10, WriteFailShapes
  <2>2. relayQ'[t] = q
    BY <2>1 DEF WriteFailShape
  <2>3. Len(x) <= Len(y)
    <3>1. Len(x) = f.start + f.written
      BY <1>2, <2>1 DEF WriteFailShape, SinkOK
    <3>2. k \in Nat /\ ResourceOf[t] \in Bytes
      BY <1>0, SizeAssumption DEF Transfers, Remaining, Bytes
    <3> DEFINE v == Written(x, Len(x), k, ResourceOf[t])
    <3>3. y = x \/ y = v
      BY <1>0, <1>2, <2>1, <3>1 DEF WriteFailShape, HttpTypeOK
    <3>4. Len(v) = Len(x) + k
      BY <1>2, <3>2, WrittenPure
    <3> HIDE DEF x, y, v
    <3> QED BY <1>3, <3>2, <3>3, <3>4
  <2>4. DiskOK(s, g, q, Len(y))
    BY <1>0, <1>3, <1>5, <1>6, <2>3, DiskGrows
  <2> QED BY <1>3, <2>2, <2>4
<1> QED BY <1>0, <1>7, <1>8, <1>9, <1>10, TransportKinds

\* The process tells of no byte that is not in the file.
LEMMA ProcessDisk ==
    ASSUME OwnPaths, Framed, FileInv, CountsInv, DiskInv, HttpProcess, UNCHANGED dlVars
    PROVE  DiskInv'
<1>0. /\ DlInv /\ PathInv /\ HttpInv /\ HttpTypeOK /\ UNCHANGED <<task, part>> /\ fetch \in [Calls -> Transfers]
      /\ relayQ \in [Calls -> Seq(Msgs)] /\ task \in [Tasks -> TaskRecs]
      /\ part \in [Dests -> Inodes \cup {NoInode}] /\ NoInode \notin Inodes
  BY NamesAssumption DEF FileInv, DlInv, ControlInv, DlTyped, HttpInv, HttpTypeOK, dlVars
<1> SUFFICES ASSUME NEW t \in Tasks PROVE DiskOK(task[t], fetch'[t], relayQ'[t], PartSize(t)')
  BY <1>0 DEF DiskInv
<1>1. DiskOK(task[t], fetch[t], relayQ[t], PartSize(t))
  BY DEF DiskInv
<1>a. fetch[t].pc # "replied" => \A g : DiskOK(task[t], g, relayQ[t], PartSize(t))
  <2>1. PartSize(t) \in Nat
    BY <1>0, TaskFacts
  <2> QED BY <1>0, <1>1, <2>1, DiskGrows
<1>2. content' = content => PartSize(t)' = PartSize(t)
  BY <1>0 DEF PartSize
<1>3. ASSUME NEW c \in Calls, Transport(c)
      PROVE  DiskOK(task[t], fetch'[t], relayQ'[t], PartSize(t)')
  <2>1. CASE c = t
    BY <1>3, <2>1, TransportDisk
  <2>2. CASE c # t
    <3>1. fetch[c].pc \in HandedPcs
      BY <1>0, <1>3, TransportMoves, PcSets DEF Moves, HandedPcs
    <3>2. DestOf[t] \in Dests /\ DestOf[t] # DestOf[c]
      BY <2>2, TasksAssumption DEF OwnPaths
    <3>3. part[DestOf[t]] # fetch[c].ino
      BY <1>0, <3>1, <3>2, WriteTouches
    <3>4. /\ relayQ'[t] = relayQ[t]
          /\ \A i \in Inodes : i # fetch[c].ino => content'[i] = content[i]
      BY <1>0, <1>3, <2>2, TransportSink
    <3>5. PartSize(t)' = PartSize(t)
      BY <1>0, <3>2, <3>3, <3>4 DEF PartSize
    <3>6. fetch'[t] = fetch[t]
      BY <1>0, <1>3, <2>2, TransportMoves DEF Moves
    <3> QED BY <1>1, <3>4, <3>5, <3>6
  <2> QED BY <2>1, <2>2
<1>4. ASSUME NEW c \in Calls, EndRequest(c)
      PROVE  DiskOK(task[t], fetch'[t], relayQ'[t], PartSize(t)')
  <2>0. content' = content
    BY <1>4 DEF EndRequest
  <2>1. CASE relayQ'[t] = relayQ[t]
    <3>1. fetch'[t] = fetch[t] \/ fetch[t].pc = "ended"
      BY <1>0, <1>4 DEF EndRequest
    <3> QED BY <1>1, <1>2, <1>a, <2>0, <2>1, <3>1
  <2>2. CASE relayQ'[t] # relayQ[t]
    <3> DEFINE f == fetch[t]
               q == relayQ[t]
               m == <<"bytes", f.written, f.total>>
    <3>1. f.pc = "ended" /\ f.result = "OK" /\ relayQ'[t] = Append(q, m)
      BY <1>0, <1>4, <2>2 DEF EndRequest
    <3>2. f.pc \in HandedPcs /\ f.written \in Nat /\ f.total \in Int
      BY <1>0, <3>1, PcSets DEF Transfers, HandedPcs
    <3>3. m \in Msgs /\ m[1] = "bytes" /\ m[2] = f.written
      BY <3>2 DEF Msgs
    <3>4. PartSize(t) = Size
      BY <3>1, <3>2, PartSink DEF SinkOK
    <3>5. Offset(task[t], q) + f.written <= Size
      BY <3>1 DEF CountsInv, CountOK, QueueOK
    <3> HIDE DEF m
    <3>6. DiskOK(task[t], fetch'[t], Append(q, m), PartSize(t))
      <4>1. DiskOK(task[t], fetch'[t], q, PartSize(t))
        BY <1>a, <3>1
      <4> QED BY <1>0, <3>3, <3>4, <3>5, <4>1, DiskSent
    <3> QED BY <1>2, <2>0, <3>1, <3>6
  <2> QED BY <2>1, <2>2
<1>5. CASE UNCHANGED <<content, relayQ>> /\ \A c \in Calls : ~Transport(c)
  <2>1. CallMoves(fetch[t], fetch'[t])
    BY <1>0, <1>5, ProcessMoves
  <2>2. fetch'[t] = fetch[t] \/ fetch[t].pc # "replied"
    <3>1. "replied" \notin HandedPcs
      BY PcSets DEF HandedPcs
    <3> QED BY <2>1, <3>1 DEF CallMoves
  <2> QED BY <1>1, <1>2, <1>5, <1>a, <2>2
<1> QED BY <1>0, <1>3, <1>4, <1>5, ProcessKinds

\* The relay stores a count that the .part bears out.
LEMMA RelayDisk ==
    ASSUME DlInv, CountsInv, DiskInv, NEW t \in Tasks, Relay(t)
    PROVE  DiskInv'
<1> DEFINE s == task[t]
           g == task'[t]
           f == fetch[t]
           q == relayQ[t]
           z == Tail(q)
           o == Offset(s, q)
           p == PartSize(t)
<1>0. /\ s \in TaskRecs /\ q \in Seq(Msgs) /\ f \in Transfers /\ CallOK(s, f)
  BY TaskFacts DEF DlInv, ControlInv, DlTyped
<1>1. /\ RelayStores(t) /\ UNCHANGED <<content, part, fetch>>
      /\ \A u \in Tasks \ {t} : task'[u] = task[u] /\ relayQ'[u] = relayQ[u]
  BY RelayStored
<1>2. \A u \in Tasks : PartSize(u)' = PartSize(u)
  BY <1>1 DEF PartSize
<1>3. q # << >> /\ g \in TaskRecs /\ relayQ'[t] = z /\ g.pc = s.pc /\ g.outcome = s.outcome
  BY <1>1 DEF RelayStores
<1>4. /\ Len(q) \in Nat /\ Len(q) > 0 /\ DOMAIN q = 1..Len(q) /\ DOMAIN z = 1..(Len(q) - 1)
      /\ \A i \in 1..(Len(q) - 1) : z[i] = q[i + 1]
  BY <1>0, <1>3, Popped
<1>5. GaugeOK(f) /\ QueueOK(o, f, q) /\ DiskOK(s, f, q, p)
  BY DEF CountsInv, CountOK, DiskInv
<1>6. \A i \in DOMAIN q : q[i][1] = "start" => i = 1
  BY <1>5 DEF QueueOK, MsgOK
<1>7. Offset(g, z) = o
  BY <1>0, <1>1, <1>3, <1>6, RelayOffset DEF RelayStores
<1>8. s.pc \notin {"none", "start", "dir", "measure"}
  <2>1. f.pc # "none"
    BY <1>3, <1>5 DEF GaugeOK, QueueOK
  <2> QED BY <1>0, <2>1 DEF CallOK, EarlyPcs
<1>9. g.downloaded = Reached(o, q[1])
  BY <1>1 DEF RelayStores, Reached, Offset
<1> HIDE DEF z, o, p
<1>10. DiskOK(g, f, z, p)
  <2> SUFFICES ASSUME g.pc # "size", g.outcome # "COMPLETED"
               PROVE  /\ g.downloaded <= p
                      /\ \A i \in DOMAIN z : Reached(o, z[i]) <= p
    BY <1>3, <1>7, <1>8 DEF DiskOK
  <2>1. \A i \in DOMAIN q : Reached(o, q[i]) <= p
    BY <1>3, <1>5 DEF DiskOK, o
  <2>2. 1 \in DOMAIN q
    BY <1>4
  <2>3. ASSUME NEW i \in DOMAIN z PROVE Reached(o, z[i]) <= p
    <3>1. i \in 1..(Len(q) - 1) /\ i + 1 \in DOMAIN q /\ z[i] = q[i + 1]
      BY <1>4
    <3> QED BY <2>1, <3>1
  <2> QED BY <1>9, <2>1, <2>2, <2>3
<1> QED BY <1>1, <1>2, <1>3, <1>10 DEF DiskInv, p

\* A step of a task that keeps its counters.
LEMMA DiskKept ==
    ASSUME NEW s \in TaskRecs, NEW g \in TaskRecs, NEW f, NEW q, NEW p, DiskOK(s, f, q, p),
           g.resumedFrom = s.resumedFrom, g.resume = s.resume, g.downloaded = s.downloaded,
           g.pc \in {"none", "start", "dir", "measure"} => s.pc \in {"none", "start", "dir", "measure"},
           g.pc # "size" /\ g.outcome # "COMPLETED" => s.pc # "size" /\ s.outcome # "COMPLETED"
    PROVE  DiskOK(g, f, q, p)
<1>1. Offset(g, q) = Offset(s, q)
  BY DEF Offset
<1> QED BY <1>1 DEF DiskOK, Excess

\* The worker counts no byte that is not in the file.
LEMMA WorkerDisk ==
    ASSUME OwnPaths, FileInv, CountsInv, ResumeInv, DiskInv, Framed, NEW t \in Tasks, Enqueue(t) \/ Worker(t)
    PROVE  DiskInv'
<1> DEFINE s == task[t]
           g == task'[t]
           f == fetch[t]
           q == relayQ[t]
           d == DestOf[t]
<1>0. /\ DlInv /\ s \in TaskRecs /\ f \in Transfers /\ CallOK(s, f) /\ VerdictOK(s)
      /\ CountOK(s, f, q) /\ ResumeOK(s, f, q) /\ DiskOK(s, f, q, PartSize(t)) /\ ContentOf(t) /\ HoldOf(t)
      /\ d \in Dests /\ DestOf \in [Tasks -> Dests]
  BY TaskFacts, TasksAssumption DEF CountsInv, ResumeInv, DiskInv, FileInv, ContentInv, PathInv
<1>1. ASSUME \A u \in Tasks \ {t} : task'[u] = task[u] /\ fetch'[u] = fetch[u], relayQ' = relayQ, content' = content,
             \A e \in Dests \ {d} : part'[e] = part[e],
             DiskOK(g, fetch'[t], q, PartSize(t)')
      PROVE  DiskInv'
  <2>1. ASSUME NEW u \in Tasks \ {t} PROVE PartSize(u)' = PartSize(u)
    <3>1. DestOf[u] \in Dests \ {d}
      BY <1>0 DEF OwnPaths
    <3> QED BY <1>1, <3>1 DEF PartSize
  <2> QED BY <1>1, <2>1 DEF DiskInv
<1>2. part' = part /\ content' = content => PartSize(t)' = PartSize(t)
  BY DEF PartSize
<1>3. CASE Enqueue(t) \/ OpenPart(t) \/ Rename(t) \/ UnlinkPart(t) \/ Report(t)
  <2>1. PathShape(t) /\ UNCHANGED <<fetch, content, relayQ>> /\ part \in [Dests -> Inodes \cup {NoInode}]
    BY <1>0, <1>3, PathShapes DEF DlInv, ControlInv, DlTyped
  <2>2. (\A e \in Dests \ {d} : part'[e] = part[e]) /\ (\A u \in Tasks \ {t} : task'[u] = task[u])
    BY <1>0, <2>1 DEF PathShape
  <2>3. /\ g \in TaskRecs /\ g.resumedFrom = s.resumedFrom /\ g.downloaded = s.downloaded
        /\ g.outcome = s.outcome /\ g.resume = s.resume
        /\ g.pc \in {"none", "start", "dir", "measure"} => s.pc = "none"
        /\ g.pc # "size" /\ g.outcome # "COMPLETED" => s.pc # "size" /\ s.outcome # "COMPLETED"
    BY <2>1 DEF PathShape
  <2>4. DiskOK(g, f, q, PartSize(t))
    BY <1>0, <2>3, DiskKept
  <2>5. g.pc # "size" => PartSize(t)' = PartSize(t)
    <3>1. CASE s.pc = "open"
      <4>1. /\ g.ino = (IF part[d] = NoInode THEN t ELSE part[d])
            /\ part' = [part EXCEPT ![d] = g.ino]
        BY <2>1, <3>1 DEF PathShape
      <4>2. content[t] = << >> /\ t # NoInode
        BY <1>0, <3>1, TasksAssumption, NamesAssumption DEF ContentOf, UnopenedPcs
      <4>3. Len(content[t]) = 0
        BY <4>2
      <4> QED BY <1>0, <2>1, <4>1, <4>2, <4>3 DEF PartSize
    <3>2. CASE s.pc = "unlink"
      <4>1. part' = [part EXCEPT ![d] = NoInode] /\ PartSize(t) = 0
        BY <1>0, <2>1, <3>2 DEF PathShape, HoldOf
      <4> QED BY <1>0, <2>1, <4>1 DEF PartSize
    <3>3. CASE s.pc \in {"none", "report"}
      BY <1>2, <2>1, <3>3 DEF PathShape
    <3> QED BY <2>1, <3>1, <3>2, <3>3 DEF PathShape
  <2>6. DiskOK(g, f, q, PartSize(t)')
    <3>1. g.pc = "size" => DiskOK(g, f, q, PartSize(t)')
      BY DEF DiskOK
    <3> QED BY <2>4, <2>5, <3>1
  <2> QED BY <1>1, <2>1, <2>2, <2>6
<1>4. CASE WorkerLookup(t) \/ ReserveId(t) \/ ReserveIdFails(t) \/ CallFetch(t) \/ FetchReturns(t)
  <2>1. CallShape(t) /\ UNCHANGED <<content, relayQ, part>>
    BY <1>0, <1>4, CallShapes
  <2>2. /\ g \in TaskRecs /\ g.resumedFrom = s.resumedFrom /\ g.resume = s.resume /\ g.downloaded = s.downloaded
        /\ s.pc # "size" /\ g.pc \notin {"none", "start", "dir", "measure", "size"}
        /\ s.outcome = "none"
    BY <1>0, <2>1 DEF CallShape, VerdictOK
  <2>3. DiskOK(g, f, q, PartSize(t))
    BY <1>0, <2>2, DiskKept
  <2>4. fetch'[t] = f \/ f.pc # "replied"
    BY <2>1 DEF CallShape
  <2>5. DiskOK(g, fetch'[t], q, PartSize(t))
    <3>1. q \in Seq(Msgs) /\ PartSize(t) \in Nat
      BY <1>0, TaskFacts DEF DlInv, ControlInv, DlTyped
    <3> QED BY <2>2, <2>3, <2>4, <3>1, DiskGrows
  <2> QED BY <1>1, <1>2, <2>1, <2>5 DEF CallShape
<1>5. CASE LocalStep(t)
  <2>1. LocalShape(t) /\ UNCHANGED <<content, relayQ, part, fetch>>
    BY <1>0, <1>5, LocalShapes DEF LocalStep, Start, EnsureParentDir, Measure, OpenFails, PublishId, CheckCanceled,
         DupFails, StoreOnDisk, RenameFails, FinalSize, StatPart, Finish, Local, httpVars
  <2>2. ASSUME s.pc \notin {"measure", "store"}
        PROVE  DiskOK(g, f, q, PartSize(t))
    <3>1. /\ g \in TaskRecs /\ g.resumedFrom = s.resumedFrom /\ g.downloaded = s.downloaded /\ g.resume = s.resume
          /\ g.pc \in {"none", "start", "dir", "measure"} => s.pc \in {"none", "start", "dir", "measure"}
          /\ g.pc # "size" /\ g.outcome # "COMPLETED" => s.pc # "size" /\ s.outcome # "COMPLETED"
      BY <1>0, <2>1, <2>2 DEF LocalShape, VerdictOK
    <3> QED BY <1>0, <3>1, DiskKept
  <2>3. ASSUME s.pc = "measure"
        PROVE  DiskOK(g, f, q, PartSize(t))
    <3>1. f.pc = "none" /\ g.pc = "open" /\ g.downloaded = PartSize(t) /\ PartSize(t) \in Nat
      BY <1>0, <2>1, <2>3, TaskFacts DEF CallOK, LocalShape, EarlyPcs
    <3>2. q = << >>
      BY <1>0, <3>1 DEF CountOK, GaugeOK, QueueOK
    <3> QED BY <3>1, <3>2 DEF DiskOK
  <2>4. ASSUME s.pc = "store"
        PROVE  DiskOK(g, f, q, PartSize(t))
    <3>1. /\ g.pc = "rename" /\ g.outcome = s.outcome /\ g.resumedFrom = s.resumedFrom /\ g.resume = s.resume
          /\ g.downloaded = s.onDisk
      BY <2>1, <2>4 DEF LocalShape
    <3>2. f.pc = "replied" /\ f.result = "OK" /\ s.onDisk \in Sums(s, f, q)
      BY <1>0, <2>4 DEF CountOK, DoneOK, DonePcs
    <3>3. PartSize(t) = Size
      <4>1. part[d] = s.ino /\ s.ino \in Inodes /\ NoInode \notin Inodes
        BY <1>0, <2>4, NamesAssumption DEF HoldOf, HeldPcs, OpenPcs
      <4>2. Len(content[s.ino]) = Size
        BY <1>0, <2>4 DEF ContentOf
      <4> QED BY <4>1, <4>2 DEF PartSize
    <3>4. q \in Seq(Msgs) /\ Offset(s, q) + f.written = Size /\ Offset(s, q) \in {s.resume, 0}
      BY <1>0, <3>2 DEF CountOK, QueueOK, ResumeOK, DlInv, ControlInv, DlTyped
    <3>5. s.onDisk = Size \/ (Offset(s, q) # s.resume /\ s.onDisk = s.resume + Size)
      BY <1>0, <3>2, <3>4, SumIs
    <3>6. Offset(g, q) = Offset(s, q) /\ (q = << >> \/ q[1][1] # "start" => Offset(s, q) = s.resumedFrom)
      BY <3>1 DEF Offset
    <3>7. Size <= Size
      BY SizeAssumption
    <3>8. \A i \in DOMAIN q : Reached(Offset(g, q), q[i]) <= PartSize(t)
      <4>1. s.outcome # "COMPLETED"
        BY <1>0, <2>4 DEF VerdictOK
      <4> QED BY <1>0, <2>4, <3>6, <4>1 DEF DiskOK
    <3> QED BY <3>1, <3>2, <3>3, <3>5, <3>6, <3>7, <3>8 DEF DiskOK, Excess
  <2>5. DiskOK(g, f, q, PartSize(t)')
    BY <1>2, <2>1, <2>2, <2>3, <2>4
  <2> QED BY <1>1, <2>1, <2>5 DEF LocalShape
<1> QED BY <1>3, <1>4, <1>5 DEF Worker, LocalStep

\* Every step keeps the counts within the file.
LEMMA NextDisk ==
    ASSUME OwnPaths, Framed, FileInv, CountsInv, ResumeInv, DiskInv, [Next]_vars
    PROVE  DiskInv'
<1>0. DlInv
  BY DEF FileInv
<1>1. ASSUME \/ \E t \in Tasks : ClientCancel(t)
             \/ Canceller \/ Register \/ Reap \/ Quiet \/ UNCHANGED vars
      PROVE  DiskInv'
  <2>1. /\ UNCHANGED <<relayQ, content, part, fetch>>
        /\ \A u \in Tasks : /\ task'[u].pc = task[u].pc /\ task'[u].outcome = task[u].outcome
                            /\ task'[u].downloaded = task[u].downloaded
                            /\ task'[u].resumedFrom = task[u].resumedFrom /\ task'[u].resume = task[u].resume
    BY <1>0, <1>1, OtherCount
  <2>2. ASSUME NEW u \in Tasks PROVE DiskOK(task'[u], fetch[u], relayQ[u], PartSize(u)')
    <3>1. PartSize(u)' = PartSize(u)
      BY <2>1 DEF PartSize
    <3>2. Offset(task'[u], relayQ[u]) = Offset(task[u], relayQ[u])
      BY <2>1 DEF Offset
    <3> QED BY <2>1, <3>1, <3>2 DEF DiskInv, DiskOK, Excess
  <2> QED BY <2>1, <2>2 DEF DiskInv
<1> QED BY <1>0, <1>1, WorkerDisk, RelayDisk, ProcessDisk DEF Next

\* The byte count of a download that ended without its file is never more than
\* its .part holds, once the last message is in; but if the server sent everything
\* again and the rename failed, it may be the .part and the prefix the worker had
\* asked to keep.  (If two clients use a path one after the other, the second may
\* take the .part away: so each has its own.)
THEOREM DownloadBytesOnDisk ==
    ASSUME OwnPaths, Framed
    PROVE  Spec => []BytesOnDisk
<1> DEFINE I == FileInv /\ CountsInv /\ ResumeInv /\ DiskInv
<1>0. OneAtATime /\ OneResource
  BY DEF OneAtATime, OwnPaths, OneResource
<1>1. Init => I
  <2>1. Init => DiskInv
    <3> SUFFICES ASSUME Init, NEW t \in Tasks PROVE DiskOK(task[t], fetch[t], relayQ[t], PartSize(t))
      BY DEF DiskInv
    <3>1. task[t].downloaded = 0 /\ relayQ[t] = << >>
      BY DEF Init, InitHttp, NewTask
    <3>2. PartSize(t) \in Nat
      BY InitDl, TaskFacts
    <3> QED BY <3>1, <3>2 DEF DiskOK
  <2> QED BY <2>1, InitDl, InitPath, InitContent, InitOffsets DEF FileInv
<1>2. I /\ [Next]_vars => I'
  <2>1. FileInv => DlInv
    BY DEF FileInv
  <2> QED BY <1>0, <2>1, NextFiles, NextOffsets, NextDisk
<1>3. I => BytesOnDisk
  <2> SUFFICES ASSUME DlInv, DiskInv, NEW t \in Tasks,
                      task[t].pc = "done", task[t].state # "COMPLETED", relayQ[t] = << >>
               PROVE  \/ task[t].downloaded <= PartSize(t)
                      \/ /\ StartedOver(t) /\ fetch[t].result = "OK"
                         /\ task[t].downloaded = task[t].resume + PartSize(t)
    BY DEF BytesOnDisk, FileInv
  <2>1. task[t].outcome # "COMPLETED"
    BY TaskFacts DEF VerdictOK
  <2> QED BY <2>1 DEF DiskInv, DiskOK, Excess, StartedOver
<1> QED BY <1>1, <1>2, <1>3, PTL DEF Spec
===============================================================================
