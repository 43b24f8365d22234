--------------------------- MODULE HttpService_proofs ---------------------------
(***************************************************************************)
(* The request table of the http service, for any number of calls, ids,    *)
(* crashes and cancels: one lemma for each kind of step, to be used by the *)
(* specifications that close the service with its clients.                 *)
(***************************************************************************)
EXTENDS HttpService, FiniteSetTheorems, TLAPS

\* Ids belong to the instance that handed them out, and only the instance that
\* is running has calls in its hands.
CallFacts ==
    /\ instance >= 1
    /\ \A c \in Calls :
        /\ fetch[c].inst <= instance
        /\ fetch[c].pc = "none" <=> fetch[c].inst = 0
        /\ fetch[c].pc # "none" => fetch[c].id \in Ids
        /\ fetch[c].pc = "queued" => Reachable(fetch[c].inst)

TableInv == CallFacts /\ IdsUnique /\ FetchRegistered /\ RunningOwned

HttpInv == HttpTypeOK /\ TableInv /\ ActiveCountExact

\* A step of the transport: the call of one thread moves between the program
\* points at which it is counted, and the table is not touched.
Moves(c) ==
    /\ fetch[c].pc \in CountedPcs /\ fetch'[c].pc \in CountedPcs
    /\ fetch'[c].id = fetch[c].id /\ fetch'[c].inst = fetch[c].inst
    /\ \A d \in Calls \ {c} : fetch'[d] = fetch[d]
    /\ fetch' \in [Calls -> Transfers]
    /\ content' \in [Inodes -> Seq(Bytes)] /\ DOMAIN relayQ' = Calls
    /\ UNCHANGED <<up, instance, tableVars, cancelQ, cancels, doomed>>

-------------------------------------------------------------------------------
(* The records of fetch *)

\* The program points of a call, by kind.
LEMMA PcSets ==
    /\ CountedPcs \subseteq ServedPcs /\ ServedPcs \subseteq FetchPcs
    /\ {"none", "reserved", "queued", "replied"} \subseteq FetchPcs
    /\ {"hop", "connect", "poll", "recv", "buffered", "end"} = CountedPcs
    /\ ServedPcs = CountedPcs \cup {"begun", "ended"}
    /\ ServedPcs \cap {"none", "reserved", "queued", "replied"} = {}
BY DEF CountedPcs, ServedPcs, FetchPcs

\* A call may be anywhere.
LEMMA PcTyped ==
    ASSUME NEW f \in Transfers, NEW pc \in FetchPcs
    PROVE  /\ [f EXCEPT !.pc = pc] \in Transfers
           /\ [f EXCEPT !.pc = pc].pc = pc /\ [f EXCEPT !.pc = pc].id = f.id
           /\ [f EXCEPT !.pc = pc].inst = f.inst /\ [f EXCEPT !.pc = pc].result = f.result
BY DEF Transfers

\* The transport returns.
LEMMA ResultTyped ==
    ASSUME NEW f \in Transfers, NEW r \in Results
    PROVE  /\ ResultOf(f, r) \in Transfers
           /\ ResultOf(f, r).pc = "end" /\ ResultOf(f, r).result = r
           /\ ResultOf(f, r).id = f.id /\ ResultOf(f, r).inst = f.inst
BY PcSets DEF ResultOf, Transfers

\* The reply is sent.
LEMMA ReplyTyped ==
    ASSUME NEW f \in Transfers, NEW r \in Results
    PROVE  /\ ReplyOf(f, r) \in Transfers
           /\ ReplyOf(f, r).pc = "replied" /\ ReplyOf(f, r).result = r
           /\ ReplyOf(f, r).id = f.id /\ ReplyOf(f, r).inst = f.inst
<1>1. NoFetch \in Transfers
  BY PcSets DEF NoFetch, Transfers, Results
<1>2. f.id \in Ids \cup {0} /\ f.inst \in Nat /\ f.written \in Nat
  BY DEF Transfers
<1> QED BY <1>1, <1>2, PcSets DEF ReplyOf, Transfers

-------------------------------------------------------------------------------
(* The transport *)

\* Writing to a file leaves a file.
LEMMA WrittenTyped ==
    ASSUME NEW s \in Seq(Bytes), NEW off \in Nat, NEW n \in Nat, NEW b \in Bytes
    PROVE  Written(s, off, n, b) \in Seq(Bytes)
<1> DEFINE m == IF off + n > Len(s) THEN off + n ELSE Len(s)
<1>1. m \in Nat /\ Hole \in Bytes
  BY DEF Bytes
<1>2. \A i \in 1..m : (IF off < i /\ i <= off + n THEN b
                       ELSE IF i <= Len(s) THEN s[i] ELSE Hole) \in Bytes
  BY <1>1
<1>3. Written(s, off, n, b) = [i \in 1..m |-> IF off < i /\ i <= off + n THEN b
                                             ELSE IF i <= Len(s) THEN s[i] ELSE Hole]
  BY DEF Written
<1> HIDE DEF m
<1>4. Written(s, off, n, b) \in [1..m -> Bytes]
  BY <1>2, <1>3
<1> QED BY <1>1, <1>4

\* The files after onBody has written k bytes for call c.
LEMMA ContentTyped ==
    ASSUME HttpTypeOK, NEW c \in Calls, NEW k \in Nat,
           content' = [content EXCEPT ![fetch[c].ino] =
                         Written(@, fetch[c].start + fetch[c].written, k, ResourceOf[c])]
    PROVE  content' \in [Inodes -> Seq(Bytes)]
<1>1. fetch[c].start + fetch[c].written \in Nat
  BY DEF HttpTypeOK, Transfers
<1>2. ResourceOf[c] \in Bytes
  BY DEF Bytes
<1>3. content \in [Inodes -> Seq(Bytes)]
  BY DEF HttpTypeOK
<1>4. CASE fetch[c].ino \in Inodes
  <2>1. Written(content[fetch[c].ino], fetch[c].start + fetch[c].written, k, ResourceOf[c]) \in Seq(Bytes)
    BY <1>1, <1>2, <1>3, <1>4, WrittenTyped
  <2> QED BY <1>3, <2>1
<1>5. CASE fetch[c].ino \notin Inodes
  BY <1>3, <1>5
<1> QED BY <1>4, <1>5

\* Replacing one record of fetch is a move.
LEMMA ReplaceMoves ==
    ASSUME HttpTypeOK, NEW c \in Calls, fetch[c].pc \in CountedPcs,
           NEW g \in Transfers, g.pc \in CountedPcs, g.id = fetch[c].id, g.inst = fetch[c].inst,
           fetch' = [fetch EXCEPT ![c] = g],
           content' \in [Inodes -> Seq(Bytes)], DOMAIN relayQ' = Calls,
           UNCHANGED <<up, instance, tableVars, cancelQ, cancels, doomed>>
    PROVE  Moves(c)
BY DEF HttpTypeOK, Moves

\* The transport stops with a result.
LEMMA StopMoves ==
    ASSUME HttpTypeOK, NEW c \in Calls, fetch[c].pc \in CountedPcs, NEW r \in Results, Stop(c, r)
    PROVE  Moves(c) /\ fetch'[c].pc = "end" /\ fetch'[c].result = r
<1>1. fetch[c] \in Transfers
  BY DEF HttpTypeOK
<1>2. /\ fetch' = [fetch EXCEPT ![c] = ResultOf(fetch[c], r)]
      /\ content' \in [Inodes -> Seq(Bytes)] /\ DOMAIN relayQ' = Calls
      /\ UNCHANGED <<up, instance, tableVars, cancelQ, cancels, doomed>>
  BY DEF Stop, HttpTypeOK
<1> DEFINE g == ResultOf(fetch[c], r)
<1>3. /\ g \in Transfers /\ g.pc = "end" /\ g.result = r
      /\ g.id = fetch[c].id /\ g.inst = fetch[c].inst
  BY <1>1, ResultTyped
<1>4. g.pc \in CountedPcs
  BY <1>3, PcSets
<1>5. fetch' = [fetch EXCEPT ![c] = g]
  BY <1>2
<1> HIDE DEF g
<1>6. Moves(c)
  BY <1>2, <1>3, <1>4, <1>5, ReplaceMoves
<1>7. fetch'[c] = g
  BY <1>5 DEF HttpTypeOK
<1> QED BY <1>3, <1>6, <1>7

\* The transport goes on to its next program point.
LEMMA GotoMoves ==
    ASSUME HttpTypeOK, NEW c \in Calls, fetch[c].pc \in CountedPcs, NEW pc \in CountedPcs, Goto(c, pc)
    PROVE  Moves(c) /\ fetch'[c].pc = pc
<1>1. fetch[c] \in Transfers /\ pc \in FetchPcs
  BY PcSets DEF HttpTypeOK
<1>2. /\ fetch' = [fetch EXCEPT ![c] = [fetch[c] EXCEPT !.pc = pc]]
      /\ content' \in [Inodes -> Seq(Bytes)] /\ DOMAIN relayQ' = Calls
      /\ UNCHANGED <<up, instance, tableVars, cancelQ, cancels, doomed>>
  BY DEF Goto, HttpTypeOK
<1> DEFINE g == [fetch[c] EXCEPT !.pc = pc]
<1>3. g \in Transfers /\ g.pc = pc /\ g.id = fetch[c].id /\ g.inst = fetch[c].inst
  BY <1>1, PcTyped
<1>4. fetch' = [fetch EXCEPT ![c] = g]
  BY <1>2
<1> HIDE DEF g
<1>5. Moves(c)
  BY <1>2, <1>3, <1>4, ReplaceMoves
<1>6. fetch'[c] = g
  BY <1>4 DEF HttpTypeOK
<1> QED BY <1>3, <1>5, <1>6

Transport(c) ==
    \/ StartHop(c) \/ Connect(c) \/ Poll(c) \/ RecvAgain(c) \/ RecvFails(c) \/ RecvEof(c) \/ RecvJunk(c)
    \/ RecvRedirect(c) \/ RecvStatus(c) \/ RecvHead(c) \/ RefuseHead(c)
    \/ RecvBody(c) \/ WriteFails(c) \/ RecvLastChunk(c) \/ RecvBlankLine(c)

\* Every step of get() and its callbacks is such a move.
LEMMA TransportMoves ==
    ASSUME HttpTypeOK, NEW c \in Calls, Transport(c)
    PROVE  Moves(c)
<1>0. fetch[c] \in Transfers /\ fetch[c].pc \in CountedPcs
  <2>1. fetch[c] \in Transfers
    BY DEF HttpTypeOK
  <2>2. fetch[c].pc \in {"hop", "connect", "poll", "recv", "buffered"}
    BY DEF Transport, StartHop, Connect, Poll, RecvAgain, RecvFails, RecvEof, RecvJunk, RecvRedirect,
           RecvStatus, RecvHead, RefuseHead, RecvBody, WriteFails, RecvLastChunk, RecvBlankLine
  <2> QED BY <2>1, <2>2, PcSets
<1>1. CASE StartHop(c) \/ Connect(c)
  <2>1. (\E r \in Results : Stop(c, r)) \/ (\E pc \in {"connect", "poll"} : Goto(c, pc))
    BY <1>1 DEF StartHop, Connect, Results
  <2> QED BY <1>0, <2>1, StopMoves, GotoMoves, PcSets
<1>2. CASE Poll(c)
  <2>1. (\E r \in Results : Stop(c, r)) \/ Goto(c, "recv")
    BY <1>2 DEF Poll, Interrupt, Results
  <2> QED BY <1>0, <2>1, StopMoves, GotoMoves, PcSets
<1>3. CASE RecvFails(c) \/ RecvEof(c) \/ RecvStatus(c) \/ RefuseHead(c) \/ RecvBlankLine(c)
  <2>1. \E r \in Results : Stop(c, r)
    BY <1>3 DEF RecvFails, RecvEof, RecvStatus, RefuseHead, RecvBlankLine, Interrupt, Results
  <2> QED BY <1>0, <2>1, StopMoves
<1>4. CASE RecvAgain(c)
  <2>1. CASE Interrupt(c, "ERROR_IO")
    BY <1>0, <2>1, StopMoves DEF Interrupt, Results
  <2>2. CASE ~Interrupt(c, "ERROR_IO")
    <3> DEFINE g == [fetch[c] EXCEPT !.pc = "poll", !.idle = @ + 1]
    <3>0. fetch[c].idle + 1 \in Nat /\ "poll" \in FetchPcs /\ "poll" \in CountedPcs
      BY <1>0, PcSets DEF Transfers
    <3>1. g \in Transfers /\ g.pc \in CountedPcs /\ g.id = fetch[c].id /\ g.inst = fetch[c].inst
      BY <1>0, <3>0 DEF Transfers
    <3>2. /\ fetch' = [fetch EXCEPT ![c] = g]
          /\ content' \in [Inodes -> Seq(Bytes)] /\ DOMAIN relayQ' = Calls
          /\ UNCHANGED <<up, instance, tableVars, cancelQ, cancels, doomed>>
      BY <1>4, <2>2 DEF RecvAgain, HttpTypeOK
    <3> QED BY <1>0, <3>1, <3>2, ReplaceMoves
  <2> QED BY <2>1, <2>2
<1>5. CASE RecvJunk(c)
  <2> DEFINE g == [fetch[c] EXCEPT !.pc = "poll", !.idle = 0]
  <2>1. g \in Transfers /\ g.pc \in CountedPcs /\ g.id = fetch[c].id /\ g.inst = fetch[c].inst
    BY <1>0, PcSets DEF Transfers
  <2>2. /\ fetch' = [fetch EXCEPT ![c] = g]
        /\ content' \in [Inodes -> Seq(Bytes)] /\ DOMAIN relayQ' = Calls
        /\ UNCHANGED <<up, instance, tableVars, cancelQ, cancels, doomed>>
    BY <1>5 DEF RecvJunk, HttpTypeOK
  <2> QED BY <1>0, <2>1, <2>2, ReplaceMoves
<1>6. CASE RecvRedirect(c)
  <2> DEFINE g == [fetch[c] EXCEPT !.pc = "hop", !.hop = @ + 1, !.idle = 0]
  <2>0. fetch[c].hop + 1 \in Nat /\ "hop" \in FetchPcs /\ "hop" \in CountedPcs
    BY <1>0, PcSets DEF Transfers
  <2>1. g \in Transfers /\ g.pc \in CountedPcs /\ g.id = fetch[c].id /\ g.inst = fetch[c].inst
    BY <1>0, <2>0 DEF Transfers
  <2>2. /\ fetch' = [fetch EXCEPT ![c] = g]
        /\ content' \in [Inodes -> Seq(Bytes)] /\ DOMAIN relayQ' = Calls
        /\ UNCHANGED <<up, instance, tableVars, cancelQ, cancels, doomed>>
    BY <1>6 DEF RecvRedirect, HttpTypeOK
  <2> QED BY <1>0, <2>1, <2>2, ReplaceMoves
<1>7. ASSUME NEW f \in Framings, NEW a \in Answers(fetch[c].resume, f), OnHeaders(c, f, a)
      PROVE  Moves(c)
  <2> DEFINE got == [fetch[c] EXCEPT !.framing = f, !.start = a.start, !.total = a.total, !.idle = 0]
  <2>1. a.start \in Nat /\ a.total \in Int /\ f \in {"length", "chunked", "eof", "trailers", "none"}
    <3>1. fetch[c].resume \in Nat
      BY <1>0 DEF Transfers
    <3> QED BY <3>1, SizeAssumption, ChoiceAssumption DEF Answers
  <2>2. got \in Transfers /\ got.id = fetch[c].id /\ got.inst = fetch[c].inst
    BY <1>0, <2>1 DEF Transfers
  <2>3. content' \in [Inodes -> Seq(Bytes)] /\ DOMAIN relayQ' = Calls
    <3>1. << >> \in Seq(Bytes) /\ content \in [Inodes -> Seq(Bytes)]
      BY DEF HttpTypeOK
    <3>2. content' = content \/ content' = [content EXCEPT ![fetch[c].ino] = << >>]
      BY <1>7 DEF OnHeaders
    <3>3. content' \in [Inodes -> Seq(Bytes)]
      BY <3>1, <3>2
    <3> QED BY <1>7, <3>3 DEF OnHeaders, HttpTypeOK
  <2>4. \/ fetch' = [fetch EXCEPT ![c] = ResultOf(got, "OK")]
        \/ \E pc \in {"poll", "buffered"} : fetch' = [fetch EXCEPT ![c] = [got EXCEPT !.pc = pc]]
    BY <1>7 DEF OnHeaders
  <2>5. UNCHANGED <<up, instance, tableVars, cancelQ, cancels, doomed>>
    BY <1>7 DEF OnHeaders
  <2> HIDE DEF got
  <2>6. "OK" \in Results
    BY DEF Results
  <2>7. CASE fetch' = [fetch EXCEPT ![c] = ResultOf(got, "OK")]
    <3> DEFINE g == ResultOf(got, "OK")
    <3>1. g \in Transfers /\ g.pc = "end" /\ g.id = fetch[c].id /\ g.inst = fetch[c].inst
      BY <2>2, <2>6, ResultTyped
    <3>2. g.pc \in CountedPcs
      BY <3>1, PcSets
    <3>3. fetch' = [fetch EXCEPT ![c] = g]
      BY <2>7
    <3> HIDE DEF g
    <3> QED BY <1>0, <2>3, <2>5, <3>1, <3>2, <3>3, ReplaceMoves
  <2>8. ASSUME NEW pc \in {"poll", "buffered"}, fetch' = [fetch EXCEPT ![c] = [got EXCEPT !.pc = pc]]
        PROVE  Moves(c)
    <3> DEFINE g == [got EXCEPT !.pc = pc]
    <3>1. pc \in CountedPcs /\ pc \in FetchPcs
      BY PcSets
    <3>2. g \in Transfers /\ g.pc = pc /\ g.id = fetch[c].id /\ g.inst = fetch[c].inst
      BY <2>2, <3>1, PcTyped
    <3>3. fetch' = [fetch EXCEPT ![c] = g]
      BY <2>8
    <3> HIDE DEF g
    <3> QED BY <1>0, <2>3, <2>5, <3>1, <3>2, <3>3, ReplaceMoves
  <2> QED BY <2>4, <2>7, <2>8
<1>8. ASSUME NEW k \in 1..Remaining(c), OnBody(c, k)
      PROVE  Moves(c)
  <2> DEFINE got == [fetch[c] EXCEPT !.written = @ + k, !.idle = 0]
  <2>1. k \in Nat
    <3>1. Remaining(c) \in Int
      BY <1>0, SizeAssumption DEF Remaining, Transfers
    <3> QED BY <3>1
  <2>2. got \in Transfers /\ got.id = fetch[c].id /\ got.inst = fetch[c].inst
    <3>1. fetch[c].written + k \in Nat
      BY <1>0, <2>1 DEF Transfers
    <3> QED BY <1>0, <3>1 DEF Transfers
  <2>3. content' \in [Inodes -> Seq(Bytes)] /\ DOMAIN relayQ' = Calls
    BY <1>8, <2>1, ContentTyped DEF OnBody, HttpTypeOK
  <2>4. \/ fetch' = [fetch EXCEPT ![c] = ResultOf(got, "OK")]
        \/ \E pc \in {"poll", "buffered"} : fetch' = [fetch EXCEPT ![c] = [got EXCEPT !.pc = pc]]
    BY <1>8 DEF OnBody
  <2>5. UNCHANGED <<up, instance, tableVars, cancelQ, cancels, doomed>>
    BY <1>8 DEF OnBody
  <2> HIDE DEF got
  <2>6. "OK" \in Results
    BY DEF Results
  <2>7. CASE fetch' = [fetch EXCEPT ![c] = ResultOf(got, "OK")]
    <3> DEFINE g == ResultOf(got, "OK")
    <3>1. g \in Transfers /\ g.pc = "end" /\ g.id = fetch[c].id /\ g.inst = fetch[c].inst
      BY <2>2, <2>6, ResultTyped
    <3>2. g.pc \in CountedPcs
      BY <3>1, PcSets
    <3>3. fetch' = [fetch EXCEPT ![c] = g]
      BY <2>7
    <3> HIDE DEF g
    <3> QED BY <1>0, <2>3, <2>5, <3>1, <3>2, <3>3, ReplaceMoves
  <2>8. ASSUME NEW pc \in {"poll", "buffered"}, fetch' = [fetch EXCEPT ![c] = [got EXCEPT !.pc = pc]]
        PROVE  Moves(c)
    <3> DEFINE g == [got EXCEPT !.pc = pc]
    <3>1. pc \in CountedPcs /\ pc \in FetchPcs
      BY PcSets
    <3>2. g \in Transfers /\ g.pc = pc /\ g.id = fetch[c].id /\ g.inst = fetch[c].inst
      BY <2>2, <3>1, PcTyped
    <3>3. fetch' = [fetch EXCEPT ![c] = g]
      BY <2>8
    <3> HIDE DEF g
    <3> QED BY <1>0, <2>3, <2>5, <3>1, <3>2, <3>3, ReplaceMoves
  <2> QED BY <2>4, <2>7, <2>8
<1>9. CASE WriteFails(c)
  <2>0. Remaining(c) \in Int
    BY <1>0, SizeAssumption DEF Remaining, Transfers
  <2>1. /\ fetch' = [fetch EXCEPT ![c] = ResultOf(fetch[c], "ERROR_WRITE")]
        /\ content' \in [Inodes -> Seq(Bytes)] /\ DOMAIN relayQ' = Calls
        /\ UNCHANGED <<up, instance, tableVars, cancelQ, cancels, doomed>>
    <3>1. /\ fetch' = [fetch EXCEPT ![c] = ResultOf(fetch[c], "ERROR_WRITE")]
          /\ UNCHANGED <<up, instance, tableVars, relayQ, cancelQ, cancels, doomed>>
      BY <1>9 DEF WriteFails
    <3>2. PICK k \in 0..(Remaining(c) - 1) :
             \/ content' = content
             \/ content' = [content EXCEPT ![fetch[c].ino] =
                              Written(@, fetch[c].start + fetch[c].written, k, ResourceOf[c])]
      BY <1>9 DEF WriteFails
    <3>3. k \in Nat
      BY <2>0
    <3>4. content' \in [Inodes -> Seq(Bytes)]
      BY <3>2, <3>3, ContentTyped DEF HttpTypeOK
    <3> QED BY <3>1, <3>4 DEF HttpTypeOK
  <2>2. "ERROR_WRITE" \in Results
    BY DEF Results
  <2> DEFINE g == ResultOf(fetch[c], "ERROR_WRITE")
  <2>3. g \in Transfers /\ g.pc = "end" /\ g.id = fetch[c].id /\ g.inst = fetch[c].inst
    BY <1>0, <2>2, ResultTyped
  <2>4. g.pc \in CountedPcs
    BY <2>3, PcSets
  <2> HIDE DEF g
  <2> QED BY <1>0, <2>1, <2>3, <2>4, ReplaceMoves DEF g
<1>10. CASE RecvLastChunk(c)
  <2>1. PICK pc \in {"poll", "buffered"} :
          fetch' = [fetch EXCEPT ![c] = [fetch[c] EXCEPT !.pc = pc, !.framing = "trailers", !.idle = 0]]
    BY <1>10 DEF RecvLastChunk
  <2> DEFINE g == [fetch[c] EXCEPT !.pc = pc, !.framing = "trailers", !.idle = 0]
  <2>2. g \in Transfers /\ g.pc \in CountedPcs /\ g.id = fetch[c].id /\ g.inst = fetch[c].inst
    BY <1>0, PcSets DEF Transfers
  <2>3. /\ content' \in [Inodes -> Seq(Bytes)] /\ DOMAIN relayQ' = Calls
        /\ UNCHANGED <<up, instance, tableVars, cancelQ, cancels, doomed>>
    BY <1>10 DEF RecvLastChunk, HttpTypeOK
  <2> QED BY <1>0, <2>1, <2>2, <2>3, ReplaceMoves
<1> QED BY <1>1, <1>2, <1>3, <1>4, <1>5, <1>6, <1>7, <1>8, <1>9, <1>10 DEF Transport, RecvHead, RecvBody

-------------------------------------------------------------------------------
(* The table: every kind of step preserves the invariant *)

\* The counted calls are finitely many.
LEMMA CountedFinite == IsFiniteSet(Counted) /\ Cardinality(Counted) \in Nat
<1>1. Counted \in SUBSET Calls
  BY DEF Counted
<1>2. IsFiniteSet(Counted)
  BY <1>1, CallsAssumption, FS_Subset
<1> QED BY <1>2, FS_CardinalityType

\* The transport.
LEMMA MovesInv ==
    ASSUME HttpInv, NEW c \in Calls, Moves(c)
    PROVE  HttpInv'
<1> USE DEF HttpInv, TableInv
<1>1. HttpTypeOK'
  BY DEF HttpTypeOK, Moves, tableVars
<1>2. Served' = Served /\ Counted' = Counted
  BY PcSets DEF Moves, Served, Counted
<1>3. CallFacts'
  BY PcSets DEF Moves, tableVars, CallFacts, Reachable
<1>4. IdsUnique'
  BY DEF Moves, tableVars, IdsUnique
<1>5. FetchRegistered'
  BY <1>2 DEF Moves, tableVars, FetchRegistered, Reachable, Served
<1>6. RunningOwned'
  BY <1>2 DEF Moves, tableVars, RunningOwned, Served
<1>7. ActiveCountExact'
  BY <1>2 DEF Moves, tableVars, ActiveCountExact
<1> QED BY <1>1, <1>3, <1>4, <1>5, <1>6, <1>7

\* newRequestId() hands out an id that no call of this instance has.
LEMMA NewRequestIdInv ==
    ASSUME HttpInv, NEW c \in Calls, NewRequestId(c)
    PROVE  HttpInv'
<1> USE DEF HttpInv, TableInv
<1>0. /\ fetch[c] \in Transfers /\ fetch[c].pc = "none" /\ up /\ mNextId \in Ids
      /\ mNextId' = mNextId + 1
      /\ UNCHANGED <<up, instance, mRequests, mActiveCount, strings, content, relayQ,
                     cancelQ, cancels, doomed>>
  BY DEF NewRequestId, HttpTypeOK, FreeThread
<1> DEFINE g == [fetch[c] EXCEPT !.pc = "reserved", !.id = mNextId, !.inst = instance]
<1>1. g \in Transfers /\ g.pc = "reserved" /\ g.id = mNextId /\ g.inst = instance
  BY <1>0, PcSets DEF HttpTypeOK, Transfers
<1>2. fetch' = [fetch EXCEPT ![c] = g]
  BY DEF NewRequestId
<1> HIDE DEF g
<1>3. /\ fetch'[c] = g /\ \A d \in Calls \ {c} : fetch'[d] = fetch[d]
      /\ fetch' \in [Calls -> Transfers]
  BY <1>1, <1>2 DEF HttpTypeOK
<1>4. HttpTypeOK'
  BY <1>0, <1>3, BoundsAssumption DEF HttpTypeOK, Ids
<1>5. Served' = Served /\ Counted' = Counted /\ c \notin Served
  BY <1>0, <1>1, <1>3, PcSets DEF Served, Counted
<1>6. CallFacts'
  BY <1>0, <1>1, <1>3 DEF CallFacts, Reachable, HttpTypeOK
<1>7. IdsUnique'
  <2>1. mNextId \in Nat /\ mNextId >= 1
    BY <1>0, BoundsAssumption DEF Ids
  <2>2. mNextId \in 1..(mNextId' - 1) /\ 1..(mNextId - 1) \subseteq 1..(mNextId' - 1)
    BY <1>0, <2>1
  <2>3. mNextId \notin 1..(mNextId - 1)
    BY <2>1
  <2>4. \A d \in Calls \ {c} : fetch[d].inst = instance => fetch[d].id \in 1..(mNextId - 1)
    BY DEF IdsUnique
  <2> QED BY <1>0, <1>1, <1>3, <2>2, <2>3, <2>4 DEF IdsUnique
<1>8. FetchRegistered'
  BY <1>0, <1>3, <1>5 DEF FetchRegistered, Reachable, Served
<1>9. RunningOwned'
  BY <1>0, <1>3, <1>5 DEF RunningOwned, Served
<1>10. ActiveCountExact'
  BY <1>0, <1>5 DEF ActiveCountExact
<1> QED BY <1>4, <1>6, <1>7, <1>8, <1>9, <1>10

\* fetchToFd() is queued, or fails because its instance is gone.
LEMMA FetchToFdInv ==
    ASSUME HttpInv, NEW c \in Calls, NEW ino \in Inodes, NEW r \in Nat, FetchToFd(c, ino, r)
    PROVE  HttpInv'
<1> USE DEF HttpInv, TableInv
<1>0. /\ fetch[c] \in Transfers /\ fetch[c].pc = "reserved"
      /\ UNCHANGED <<up, instance, tableVars, content, relayQ, cancelQ, cancels, doomed>>
  BY DEF FetchToFd, HttpTypeOK
<1> DEFINE g == IF Reachable(fetch[c].inst)
                THEN [fetch[c] EXCEPT !.pc = "queued", !.ino = ino, !.resume = r]
                ELSE ReplyOf(fetch[c], "DEAD_OBJECT")
<1>1. /\ g \in Transfers /\ g.id = fetch[c].id /\ g.inst = fetch[c].inst
      /\ \/ g.pc = "queued" /\ Reachable(fetch[c].inst)
         \/ g.pc = "replied"
  <2>1. CASE Reachable(fetch[c].inst)
    BY <1>0, <2>1, PcSets DEF Transfers
  <2>2. CASE ~Reachable(fetch[c].inst)
    BY <1>0, <2>2, ReplyTyped DEF Results
  <2> QED BY <2>1, <2>2
<1>2. fetch' = [fetch EXCEPT ![c] = g]
  BY DEF FetchToFd
<1> HIDE DEF g
<1>3. /\ fetch'[c] = g /\ \A d \in Calls \ {c} : fetch'[d] = fetch[d]
      /\ fetch' \in [Calls -> Transfers]
  BY <1>1, <1>2 DEF HttpTypeOK
<1>4. HttpTypeOK'
  BY <1>0, <1>3 DEF HttpTypeOK, tableVars
<1>5. Served' = Served /\ Counted' = Counted /\ c \notin Served
  BY <1>0, <1>1, <1>3, PcSets DEF Served, Counted
<1>6. CallFacts'
  BY <1>0, <1>1, <1>3 DEF CallFacts, Reachable
<1>7. IdsUnique'
  BY <1>0, <1>1, <1>3 DEF IdsUnique, tableVars
<1>8. FetchRegistered'
  BY <1>0, <1>3, <1>5 DEF FetchRegistered, Reachable, Served, tableVars
<1>9. RunningOwned'
  BY <1>0, <1>3, <1>5 DEF RunningOwned, Served, tableVars
<1>10. ActiveCountExact'
  BY <1>0, <1>5 DEF ActiveCountExact, tableVars
<1> QED BY <1>4, <1>6, <1>7, <1>8, <1>9, <1>10

\* A call without a usable descriptor never enters the table.
LEMMA RejectSinkInv ==
    ASSUME HttpInv, NEW c \in Calls, RejectSink(c)
    PROVE  HttpInv'
<1> USE DEF HttpInv, TableInv
<1>0. /\ fetch[c] \in Transfers /\ fetch[c].pc = "queued"
      /\ fetch' = [fetch EXCEPT ![c] = ReplyOf(fetch[c], "ERROR_WRITE")]
      /\ UNCHANGED <<up, instance, tableVars, content, relayQ, cancelQ, cancels, doomed>>
  BY DEF RejectSink, HttpTypeOK
<1> DEFINE g == ReplyOf(fetch[c], "ERROR_WRITE")
<1>1. g \in Transfers /\ g.id = fetch[c].id /\ g.inst = fetch[c].inst /\ g.pc = "replied"
  BY <1>0, ReplyTyped DEF Results
<1>2. fetch' = [fetch EXCEPT ![c] = g]
  BY <1>0
<1> HIDE DEF g
<1>3. /\ fetch'[c] = g /\ \A d \in Calls \ {c} : fetch'[d] = fetch[d]
      /\ fetch' \in [Calls -> Transfers]
  BY <1>1, <1>2 DEF HttpTypeOK
<1>4. HttpTypeOK'
  BY <1>0, <1>3 DEF HttpTypeOK, tableVars
<1>5. Served' = Served /\ Counted' = Counted /\ c \notin Served
  BY <1>0, <1>1, <1>3, PcSets DEF Served, Counted
<1>6. CallFacts'
  BY <1>0, <1>1, <1>3 DEF CallFacts, Reachable
<1>7. IdsUnique'
  BY <1>0, <1>1, <1>3 DEF IdsUnique, tableVars
<1>8. FetchRegistered'
  BY <1>0, <1>3, <1>5 DEF FetchRegistered, Reachable, Served, tableVars
<1>9. RunningOwned'
  BY <1>0, <1>3, <1>5 DEF RunningOwned, Served, tableVars
<1>10. ActiveCountExact'
  BY <1>0, <1>5 DEF ActiveCountExact, tableVars
<1> QED BY <1>4, <1>6, <1>7, <1>8, <1>9, <1>10

\* beginRequest() registers the call, keeping the flag of an early cancel().
LEMMA BeginRequestInv ==
    ASSUME HttpInv, NEW c \in Calls, BeginRequest(c)
    PROVE  HttpInv'
<1> USE DEF HttpInv, TableInv
<1> DEFINE i == fetch[c].id
           e == [(IF mRequests[i].present THEN mRequests[i] ELSE NewRequest) EXCEPT !.running = TRUE]
           g == [fetch[c] EXCEPT !.pc = "begun"]
<1>0. /\ fetch[c] \in Transfers /\ fetch[c].pc = "queued"
      /\ i \in Ids /\ mRequests[i] \in Requests /\ Reachable(fetch[c].inst)
      /\ UNCHANGED <<up, instance, mNextId, mActiveCount, strings, content, relayQ,
                     cancelQ, cancels, doomed>>
  BY DEF BeginRequest, HttpTypeOK, CallFacts
<1>1. e \in Requests /\ e.present /\ e.running
  <2>1. NewRequest \in Requests /\ NewRequest.present
    BY DEF NewRequest, NoRequest, Requests
  <2> QED BY <1>0, <2>1 DEF Requests
<1>2. g \in Transfers /\ g.pc = "begun" /\ g.id = i /\ g.inst = fetch[c].inst
  BY <1>0, PcTyped, PcSets
<1>3. mRequests' = [mRequests EXCEPT ![i] = e] /\ fetch' = [fetch EXCEPT ![c] = g]
  BY DEF BeginRequest
<1> HIDE DEF e, g
<1>4. /\ fetch'[c] = g /\ \A d \in Calls \ {c} : fetch'[d] = fetch[d]
      /\ fetch' \in [Calls -> Transfers]
      /\ mRequests'[i] = e /\ \A j \in Ids \ {i} : mRequests'[j] = mRequests[j]
      /\ mRequests' \in [Ids -> Requests]
  BY <1>0, <1>1, <1>2, <1>3 DEF HttpTypeOK
<1>5. HttpTypeOK'
  BY <1>0, <1>4 DEF HttpTypeOK
<1>6. Served' = Served \cup {c} /\ Counted' = Counted
  BY <1>0, <1>2, <1>4, PcSets DEF Served, Counted
<1>7. CallFacts'
  BY <1>0, <1>2, <1>4 DEF CallFacts, Reachable
<1>8. IdsUnique'
  BY <1>0, <1>2, <1>4 DEF IdsUnique
<1>9. FetchRegistered'
  <2> SUFFICES ASSUME NEW d \in Served'
               PROVE  /\ Reachable(fetch[d].inst)'
                      /\ mRequests'[fetch'[d].id].present /\ mRequests'[fetch'[d].id].running
    BY DEF FetchRegistered
  <2>1. CASE d = c
    BY <1>0, <1>1, <1>2, <1>4, <2>1 DEF Reachable
  <2>2. CASE d # c
    <3>1. d \in Served /\ d \in Calls /\ fetch'[d] = fetch[d]
      BY <1>4, <1>6, <2>2 DEF Served
    <3>2. /\ Reachable(fetch[d].inst)
          /\ mRequests[fetch[d].id].present /\ mRequests[fetch[d].id].running
      BY <3>1 DEF FetchRegistered
    <3>3. fetch[d].id \in Ids /\ fetch[d].id # i
      BY <1>0, <2>2, <3>1, <3>2, PcSets DEF IdsUnique, CallFacts, Served, Reachable
    <3> QED BY <1>0, <1>4, <3>1, <3>2, <3>3 DEF Reachable
  <2> QED BY <2>1, <2>2
<1>10. RunningOwned'
  BY <1>2, <1>4, <1>6 DEF RunningOwned, Served
<1>11. ActiveCountExact'
  BY <1>0, <1>6 DEF ActiveCountExact
<1> QED BY <1>5, <1>7, <1>8, <1>9, <1>10, <1>11

\* The two updates of mActiveCount around a transfer.
LEMMA CountInv ==
    ASSUME HttpInv, NEW c \in Calls, CountRequest(c) \/ UncountRequest(c)
    PROVE  HttpInv'
<1> USE DEF HttpInv, TableInv
<1> DEFINE pc == IF fetch[c].pc = "begun" THEN "hop" ELSE "ended"
           g == [fetch[c] EXCEPT !.pc = pc]
<1>0. /\ fetch[c] \in Transfers /\ fetch[c].pc \in {"begun", "end"}
      /\ mActiveCount' = IF fetch[c].pc = "begun" THEN mActiveCount + 1 ELSE mActiveCount - 1
      /\ UNCHANGED <<up, instance, mNextId, mRequests, strings, content, relayQ,
                     cancelQ, cancels, doomed>>
  BY DEF CountRequest, UncountRequest, HttpTypeOK
<1>1. pc \in FetchPcs /\ g \in Transfers /\ g.pc = pc /\ g.id = fetch[c].id /\ g.inst = fetch[c].inst
  BY <1>0, PcTyped, PcSets
<1>2. fetch' = [fetch EXCEPT ![c] = g]
  BY DEF CountRequest, UncountRequest
<1> HIDE DEF g
<1>3. /\ fetch'[c] = g /\ \A d \in Calls \ {c} : fetch'[d] = fetch[d]
      /\ fetch' \in [Calls -> Transfers]
  BY <1>1, <1>2 DEF HttpTypeOK
<1>4. HttpTypeOK'
  BY <1>0, <1>3 DEF HttpTypeOK
<1>5. Served' = Served
  BY <1>0, <1>1, <1>3, PcSets DEF Served
<1>6. CallFacts'
  BY <1>0, <1>1, <1>3, PcSets DEF CallFacts, Reachable
<1>7. IdsUnique'
  BY <1>0, <1>1, <1>3 DEF IdsUnique
<1>8. FetchRegistered'
  BY <1>0, <1>1, <1>3, <1>5 DEF FetchRegistered, Reachable, Served
<1>9. RunningOwned'
  BY <1>0, <1>1, <1>3, <1>5 DEF RunningOwned, Served
<1>10. ActiveCountExact'
  <2>1. CASE fetch[c].pc = "begun"
    <3>1. c \notin Counted /\ Counted' = Counted \cup {c}
      BY <1>1, <1>3, <2>1, PcSets DEF Counted
    <3>2. Cardinality(Counted') = Cardinality(Counted) + 1
      BY <3>1, CountedFinite, FS_AddElement
    <3> QED BY <1>0, <2>1, <3>2, CountedFinite DEF ActiveCountExact, HttpTypeOK
  <2>2. CASE fetch[c].pc = "end"
    <3>1. c \in Counted /\ Counted' = Counted \ {c}
      BY <1>1, <1>3, <2>2, PcSets DEF Counted
    <3>2. Cardinality(Counted') = Cardinality(Counted) - 1
      BY <3>1, CountedFinite, FS_RemoveElement
    <3> QED BY <1>0, <2>2, <3>2, CountedFinite DEF ActiveCountExact, HttpTypeOK
  <2> QED BY <1>0, <2>1, <2>2
<1> QED BY <1>4, <1>6, <1>7, <1>8, <1>9, <1>10

\* endRequest() takes out the entry of this call and of no other.
LEMMA EndRequestInv ==
    ASSUME HttpInv, NEW c \in Calls, EndRequest(c)
    PROVE  HttpInv'
<1> USE DEF HttpInv, TableInv
<1> DEFINE i == fetch[c].id
           g == ReplyOf(fetch[c], fetch[c].result)
<1>0. /\ fetch[c] \in Transfers /\ fetch[c].pc = "ended" /\ c \in Served
      /\ i \in Ids /\ Reachable(fetch[c].inst) /\ fetch[c].result \in Results
      /\ UNCHANGED <<up, instance, mNextId, mActiveCount, strings, content, cancelQ,
                     cancels, doomed>>
      /\ DOMAIN relayQ' = Calls
  BY PcSets DEF EndRequest, HttpTypeOK, CallFacts, Transfers, Served, FetchRegistered
<1>1. NoRequest \in Requests /\ ~NoRequest.running
  BY DEF NoRequest, Requests
<1>2. g \in Transfers /\ g.pc = "replied" /\ g.id = i /\ g.inst = fetch[c].inst
  BY <1>0, ReplyTyped
<1>3. mRequests' = [mRequests EXCEPT ![i] = NoRequest] /\ fetch' = [fetch EXCEPT ![c] = g]
  BY DEF EndRequest
<1> HIDE DEF g
<1>4. /\ fetch'[c] = g /\ \A d \in Calls \ {c} : fetch'[d] = fetch[d]
      /\ fetch' \in [Calls -> Transfers]
      /\ mRequests'[i] = NoRequest /\ \A j \in Ids \ {i} : mRequests'[j] = mRequests[j]
      /\ mRequests' \in [Ids -> Requests]
  BY <1>0, <1>1, <1>2, <1>3 DEF HttpTypeOK
<1>5. HttpTypeOK'
  BY <1>0, <1>4 DEF HttpTypeOK
<1>6. Served' = Served \ {c} /\ Counted' = Counted
  BY <1>0, <1>2, <1>4, PcSets DEF Served, Counted
<1>7. CallFacts'
  BY <1>0, <1>2, <1>4 DEF CallFacts, Reachable
<1>8. IdsUnique'
  BY <1>0, <1>2, <1>4 DEF IdsUnique
<1>9. \A d \in Served \ {c} : fetch[d].id \in Ids \ {i}
  BY <1>0, PcSets DEF IdsUnique, CallFacts, Served, Reachable, FetchRegistered
<1>10. FetchRegistered'
  BY <1>0, <1>4, <1>6, <1>9 DEF FetchRegistered, Reachable, Served
<1>11. RunningOwned'
  BY <1>1, <1>4, <1>6 DEF RunningOwned, Served
<1>12. ActiveCountExact'
  BY <1>0, <1>6 DEF ActiveCountExact
<1> QED BY <1>5, <1>7, <1>8, <1>10, <1>11, <1>12

\* getString() touches the counter only.
LEMMA GetStringInv ==
    ASSUME HttpInv, GetStringBegin \/ GetStringEnd
    PROVE  HttpInv'
<1> USE DEF HttpInv, TableInv
<1>0. /\ strings' \in Nat /\ mActiveCount' - strings' = mActiveCount - strings /\ mActiveCount' \in Int
      /\ UNCHANGED <<up, instance, mNextId, mRequests, fetch, content, relayQ, cancelQ,
                     cancels, doomed>>
  BY DEF GetStringBegin, GetStringEnd, HttpTypeOK
<1>1. HttpTypeOK'
  BY <1>0 DEF HttpTypeOK
<1>2. Served' = Served /\ Counted' = Counted
  BY <1>0 DEF Served, Counted
<1>3. CallFacts' /\ IdsUnique' /\ FetchRegistered' /\ RunningOwned'
  BY <1>0, <1>2 DEF CallFacts, IdsUnique, FetchRegistered, RunningOwned, Reachable
<1>4. ActiveCountExact'
  BY <1>0, <1>2, CountedFinite DEF ActiveCountExact, HttpTypeOK
<1> QED BY <1>1, <1>3, <1>4

\* cancel() sets a flag, or leaves a note for a call that is still to come, and
\* then drops only entries that no handler uses.
LEMMA CancelHandlerInv ==
    ASSUME HttpInv, CancelHandler
    PROVE  HttpInv'
<1> USE DEF HttpInv, TableInv
<1> DEFINE i == Head(cancelQ)
<1>0. /\ i \in Ids /\ cancelQ' \in Seq(Ids) /\ doomed' \subseteq Calls
      /\ UNCHANGED <<up, instance, mNextId, mActiveCount, strings, fetch, content, relayQ, cancels>>
  BY DEF CancelHandler, HttpTypeOK
<1>1. /\ NoRequest \in Requests /\ ~NoRequest.running
      /\ NewRequest \in Requests /\ ~NewRequest.running /\ NewRequest.present
      /\ [NewRequest EXCEPT !.canceled = TRUE] \in Requests
      /\ ~[NewRequest EXCEPT !.canceled = TRUE].running
  BY DEF NoRequest, NewRequest, Requests
<1>2. \A r \in Requests :
        /\ [r EXCEPT !.canceled = TRUE] \in Requests
        /\ [r EXCEPT !.canceled = TRUE].running = r.running
        /\ [r EXCEPT !.canceled = TRUE].present = r.present
  BY DEF Requests
<1>3. mRequests \in [Ids -> Requests]
  BY DEF HttpTypeOK
<1>4. /\ mRequests' \in [Ids -> Requests]
      /\ \A j \in Ids : mRequests'[j].running => mRequests[j].running
      /\ \A j \in Ids : mRequests[j].present /\ mRequests[j].running =>
                            mRequests'[j].present /\ mRequests'[j].running
  <2>1. CASE mRequests[i].present
    <3>1. mRequests' = [mRequests EXCEPT ![i] = [mRequests[i] EXCEPT !.canceled = TRUE]]
      BY <2>1 DEF CancelHandler
    <3> QED BY <1>0, <1>2, <1>3, <3>1
  <2>2. CASE ~mRequests[i].present
    <3>1. mRequests' = [j \in Ids |-> IF j = i THEN [NewRequest EXCEPT !.canceled = TRUE]
                                      ELSE IF Stale(mRequests[j]) THEN NoRequest ELSE mRequests[j]]
      BY <2>2 DEF CancelHandler
    <3>2. mRequests' \in [Ids -> Requests]
      BY <1>1, <1>3, <3>1
    <3>3. ASSUME NEW j \in Ids, mRequests'[j].running
          PROVE  mRequests[j].running
      BY <1>1, <3>1, <3>3
    <3>4. ASSUME NEW j \in Ids, mRequests[j].present, mRequests[j].running
          PROVE  mRequests'[j] = mRequests[j]
      BY <2>2, <3>1, <3>4 DEF Stale
    <3> QED BY <3>2, <3>3, <3>4
  <2> QED BY <2>1, <2>2
<1> HIDE DEF i
<1>5. HttpTypeOK'
  BY <1>0, <1>4 DEF HttpTypeOK
<1>6. Served' = Served /\ Counted' = Counted
  BY <1>0 DEF Served, Counted
<1>7. CallFacts' /\ IdsUnique' /\ ActiveCountExact'
  BY <1>0, <1>6 DEF CallFacts, IdsUnique, ActiveCountExact, Reachable
<1>8. \A c \in Served : c \in Calls /\ fetch[c].id \in Ids
  BY PcSets DEF Served, CallFacts
<1>9. FetchRegistered'
  BY <1>0, <1>4, <1>6, <1>8 DEF FetchRegistered, Reachable
<1>10. RunningOwned'
  BY <1>0, <1>4, <1>6 DEF RunningOwned
<1> QED BY <1>5, <1>7, <1>9, <1>10

\* The passing of kStaleRequestMs.
LEMMA ExpireInv ==
    ASSUME HttpInv, NEW id \in Ids, Expire(id)
    PROVE  HttpInv'
<1> USE DEF HttpInv, TableInv
<1>0. /\ mRequests \in [Ids -> Requests]
      /\ mRequests' = [mRequests EXCEPT ![id] = [mRequests[id] EXCEPT !.expired = TRUE]]
      /\ UNCHANGED <<up, instance, mNextId, mActiveCount, strings, fetch, content, relayQ,
                     cancelQ, cancels, doomed>>
  BY DEF Expire, HttpTypeOK
<1>1. \A r \in Requests :
        /\ [r EXCEPT !.expired = TRUE] \in Requests
        /\ [r EXCEPT !.expired = TRUE].running = r.running
        /\ [r EXCEPT !.expired = TRUE].present = r.present
  BY DEF Requests
<1>2. /\ mRequests' \in [Ids -> Requests]
      /\ \A j \in Ids : /\ mRequests'[j].running = mRequests[j].running
                        /\ mRequests'[j].present = mRequests[j].present
  BY <1>0, <1>1
<1>3. HttpTypeOK'
  BY <1>0, <1>2 DEF HttpTypeOK
<1>4. Served' = Served /\ Counted' = Counted
  BY <1>0 DEF Served, Counted
<1>5. CallFacts' /\ IdsUnique' /\ ActiveCountExact'
  BY <1>0, <1>4 DEF CallFacts, IdsUnique, ActiveCountExact, Reachable
<1>6. \A c \in Served : c \in Calls /\ fetch[c].id \in Ids
  BY PcSets DEF Served, CallFacts
<1>7. FetchRegistered' /\ RunningOwned'
  BY <1>0, <1>2, <1>4, <1>6 DEF FetchRegistered, RunningOwned, Reachable
<1> QED BY <1>3, <1>5, <1>7

\* The death of the process: no call is left in its hands.
LEMMA CrashInv ==
    ASSUME HttpInv, Crash
    PROVE  HttpInv'
<1> USE DEF HttpInv, TableInv
<1>0. /\ up' = FALSE /\ mActiveCount' = 0 /\ strings' = 0 /\ cancelQ' = << >>
      /\ mRequests' = [i \in Ids |-> NoRequest]
      /\ UNCHANGED <<instance, mNextId, content, relayQ, cancels, doomed>>
      /\ fetch' = [c \in Calls |-> IF fetch[c].pc \in ServedPcs \cup {"queued"}
                                   THEN ReplyOf(fetch[c], "DEAD_OBJECT") ELSE fetch[c]]
  BY DEF Crash
<1>1. NoRequest \in Requests /\ ~NoRequest.running
  BY DEF NoRequest, Requests
<1>2. ASSUME NEW c \in Calls
      PROVE  /\ fetch'[c] \in Transfers
             /\ fetch'[c].id = fetch[c].id /\ fetch'[c].inst = fetch[c].inst
             /\ fetch'[c].pc \notin ServedPcs \cup {"queued"}
             /\ fetch'[c].pc = "none" <=> fetch[c].pc = "none"
  <2>1. fetch[c] \in Transfers
    BY DEF HttpTypeOK
  <2>2. CASE fetch[c].pc \in ServedPcs \cup {"queued"}
    <3>1. fetch'[c] = ReplyOf(fetch[c], "DEAD_OBJECT")
      BY <1>0, <2>2
    <3>2. /\ fetch'[c] \in Transfers /\ fetch'[c].pc = "replied"
          /\ fetch'[c].id = fetch[c].id /\ fetch'[c].inst = fetch[c].inst
      BY <2>1, <3>1, ReplyTyped DEF Results
    <3> QED BY <2>2, <3>2, PcSets
  <2>3. CASE fetch[c].pc \notin ServedPcs \cup {"queued"}
    BY <1>0, <2>1, <2>3
  <2> QED BY <2>2, <2>3
<1>3. fetch' \in [Calls -> Transfers]
  BY <1>0, <1>2
<1>4. HttpTypeOK'
  <2>1. mRequests' \in [Ids -> Requests] /\ cancelQ' \in Seq(Ids)
    BY <1>0, <1>1
  <2>2. mActiveCount' \in Int /\ strings' \in Nat
    BY <1>0
  <2>3. up' \in BOOLEAN
    BY <1>0
  <2>4. content' \in [Inodes -> Seq(Bytes)]
    BY <1>0 DEF HttpTypeOK
  <2> QED BY <1>0, <1>3, <2>1, <2>2, <2>3, <2>4 DEF HttpTypeOK
<1>5. Served' = {} /\ Counted' = {}
  BY <1>2, PcSets DEF Served, Counted
<1>6. CallFacts' /\ IdsUnique'
  BY <1>0, <1>2 DEF CallFacts, IdsUnique
<1>7. FetchRegistered' /\ RunningOwned'
  BY <1>0, <1>1, <1>5 DEF FetchRegistered, RunningOwned
<1>8. ActiveCountExact'
  BY <1>0, <1>5, FS_EmptySet DEF ActiveCountExact
<1> QED BY <1>4, <1>6, <1>7, <1>8

\* A new instance: the ids start over, and no call has one of them yet.
LEMMA RestartInv ==
    ASSUME HttpInv, Restart
    PROVE  HttpInv'
<1> USE DEF HttpInv, TableInv
<1>0. /\ ~up /\ up' = TRUE /\ instance' = instance + 1 /\ mNextId' = 1 /\ instance \in Nat
      /\ UNCHANGED <<mRequests, mActiveCount, strings, fetch, content, relayQ, cancelQ,
                     cancels, doomed>>
  BY DEF Restart, HttpTypeOK
<1>1. HttpTypeOK'
  BY <1>0, BoundsAssumption DEF HttpTypeOK
<1>2. Served = {} /\ Served' = {} /\ Counted' = Counted
  BY <1>0 DEF Served, Counted, FetchRegistered, Reachable
<1>3. \A c \in Calls : fetch[c].inst \in Nat /\ fetch[c].inst <= instance
  BY DEF HttpTypeOK, Transfers, CallFacts
<1>4. CallFacts'
  BY <1>0, <1>3 DEF CallFacts, Reachable
<1>5. IdsUnique'
  BY <1>0, <1>3 DEF IdsUnique
<1>6. FetchRegistered' /\ RunningOwned'
  BY <1>0, <1>2 DEF FetchRegistered, RunningOwned
<1>7. ActiveCountExact'
  BY <1>0, <1>2 DEF ActiveCountExact
<1> QED BY <1>1, <1>4, <1>5, <1>6, <1>7

\* The state in which the service starts.
LEMMA InitHttpInv ==
    ASSUME InitHttp, content \in [Inodes -> Seq(Bytes)]
    PROVE  HttpInv
<1> USE DEF InitHttp
<1>1. NoFetch \in Transfers /\ NoFetch.pc = "none" /\ NoFetch.inst = 0 /\ NoFetch.id = 0
  BY PcSets DEF NoFetch, Transfers, Results
<1>2. NoRequest \in Requests /\ ~NoRequest.running
  BY DEF NoRequest, Requests
<1>3. HttpTypeOK
  BY <1>1, <1>2, BoundsAssumption DEF HttpTypeOK
<1>4. Served = {} /\ Counted = {}
  BY <1>1, PcSets DEF Served, Counted
<1>5. CallFacts /\ IdsUnique
  BY <1>1 DEF CallFacts, IdsUnique
<1>6. FetchRegistered /\ RunningOwned
  BY <1>2, <1>4 DEF FetchRegistered, RunningOwned
<1>7. ActiveCountExact
  BY <1>4, FS_EmptySet DEF ActiveCountExact
<1> QED BY <1>3, <1>5, <1>6, <1>7 DEF HttpInv, TableInv

\* Steps that only move messages and the clients' bookkeeping.
LEMMA QueueInv ==
    ASSUME HttpInv, DOMAIN relayQ' = Calls, cancelQ' \in Seq(Ids), cancels' \in Nat,
           UNCHANGED <<up, instance, tableVars, fetch, content, doomed>>
    PROVE  HttpInv'
<1> USE DEF HttpInv, TableInv
<1>1. HttpTypeOK'
  BY DEF HttpTypeOK, tableVars
<1>2. Served' = Served /\ Counted' = Counted
  BY DEF Served, Counted
<1>3. CallFacts' /\ IdsUnique' /\ FetchRegistered' /\ RunningOwned' /\ ActiveCountExact'
  BY <1>2 DEF CallFacts, IdsUnique, FetchRegistered, RunningOwned, ActiveCountExact, Reachable,
              tableVars
<1> QED BY <1>1, <1>3

\* Every step of the process.
LEMMA HttpProcessInv ==
    ASSUME HttpInv, HttpProcess
    PROVE  HttpInv'
<1>1. ASSUME NEW c \in Calls, Accept(c) \/ Transfer(c)
      PROVE  HttpInv'
  <2>1. HttpTypeOK
    BY DEF HttpInv
  <2>2. CASE Transport(c)
    BY <2>1, <2>2, TransportMoves, MovesInv
  <2> QED BY <1>1, <2>2, RejectSinkInv, BeginRequestInv, CountInv, EndRequestInv
          DEF Accept, Transfer, Transport
<1> QED BY <1>1, GetStringInv, CancelHandlerInv, ExpireInv, CrashInv, RestartInv DEF HttpProcess

-------------------------------------------------------------------------------
(* A call that is cancelled before it begins, when no entry grows stale *)

\* cancel() has left its mark for call c.
Flagged(c) == mRequests[fetch[c].id].present /\ mRequests[fetch[c].id].canceled

\* The mark of a doomed call is there until the call is over, and the transport
\* reads it before it opens a connection.
DoomedCall(c) ==
    /\ fetch[c].pc \notin {"none", "connect", "poll", "recv", "buffered"} /\ fetch[c].result # "OK"
    /\ fetch[c].pc \in {"reserved", "queued"} /\ Reachable(fetch[c].inst) => Flagged(c)
    /\ fetch[c].pc \in ServedPcs => Flagged(c)

DoomedInv ==
    /\ \A id \in Ids : ~mRequests[id].expired
    /\ \A c \in Calls : fetch[c].pc \in {"none", "reserved", "queued"} => fetch[c].result # "OK"
    /\ \A c \in doomed : DoomedCall(c)

\* The transport of a doomed call can only stop.
LEMMA DoomedTransport ==
    ASSUME HttpInv, DoomedInv, NEW c \in Calls, Transport(c)
    PROVE  DoomedInv'
<1>0. HttpTypeOK /\ Moves(c)
  BY TransportMoves DEF HttpInv
<1>1. ASSUME c \in doomed
      PROVE  fetch'[c].pc = "end" /\ fetch'[c].result # "OK"
  <2>1. fetch[c].pc \notin {"connect", "poll", "recv", "buffered"}
    BY <1>1 DEF DoomedInv, DoomedCall
  <2>2. StartHop(c)
    BY <2>1 DEF Transport, Connect, Poll, RecvAgain, RecvFails, RecvEof, RecvJunk, RecvRedirect,
                RecvStatus, RecvHead, RefuseHead, RecvBody, WriteFails, RecvLastChunk, RecvBlankLine
  <2>3. fetch[c].pc = "hop" /\ fetch[c].pc \in CountedPcs /\ fetch[c].pc \in ServedPcs
    BY <2>2, PcSets DEF StartHop
  <2>4. IsCanceled(c)
    BY <1>1, <2>3 DEF DoomedInv, DoomedCall, Flagged, IsCanceled
  <2>5. \E r \in Results \ {"OK"} : Stop(c, r)
    BY <2>2, <2>4 DEF StartHop, Results
  <2> QED BY <1>0, <2>3, <2>5, StopMoves
<1>2. /\ fetch'[c].pc \in ServedPcs /\ fetch'[c].id = fetch[c].id
      /\ fetch'[c].pc \notin {"none", "reserved", "queued"}
      /\ fetch[c].pc \in ServedPcs
      /\ \A d \in Calls \ {c} : fetch'[d] = fetch[d]
      /\ doomed' = doomed /\ mRequests' = mRequests /\ up' = up /\ instance' = instance
      /\ doomed \subseteq Calls
  BY <1>0, PcSets DEF Moves, tableVars, HttpTypeOK
<1>3. ASSUME NEW d \in doomed PROVE DoomedCall(d)'
  BY <1>1, <1>2 DEF DoomedInv, DoomedCall, Flagged, Reachable
<1> QED BY <1>2, <1>3 DEF DoomedInv

\* The clients' two calls; one that has no id yet cannot be doomed.
LEMMA DoomedRequest ==
    ASSUME HttpInv, DoomedInv, NEW c \in Calls, NEW ino, NEW r,
           NewRequestId(c) \/ FetchToFd(c, ino, r)
    PROVE  DoomedInv'
<1>0. /\ fetch \in [Calls -> Transfers] /\ fetch[c] \in Transfers /\ doomed \subseteq Calls
      /\ doomed' = doomed /\ mRequests' = mRequests /\ up' = up /\ instance' = instance
      /\ fetch[c].pc \in {"none", "reserved"} /\ fetch[c].result # "OK"
  BY DEF NewRequestId, FetchToFd, tableVars, HttpInv, HttpTypeOK, DoomedInv
<1>1. \A d \in Calls \ {c} : fetch'[d] = fetch[d]
  BY <1>0 DEF NewRequestId, FetchToFd
<1>2. CASE NewRequestId(c)
  <2>1. c \notin doomed
    BY <1>2 DEF NewRequestId, DoomedInv, DoomedCall
  <2>2. fetch'[c] = [fetch[c] EXCEPT !.pc = "reserved", !.id = mNextId, !.inst = instance]
    BY <1>0, <1>2 DEF NewRequestId
  <2>3. fetch'[c].result # "OK"
    BY <1>0, <2>2 DEF Transfers
  <2> QED BY <1>0, <1>1, <2>1, <2>3 DEF DoomedInv, DoomedCall, Flagged, Reachable
<1>3. CASE FetchToFd(c, ino, r) /\ Reachable(fetch[c].inst)
  <2>1. fetch'[c] = [fetch[c] EXCEPT !.pc = "queued", !.ino = ino, !.resume = r]
    BY <1>0, <1>3 DEF FetchToFd
  <2>2. /\ fetch'[c].result # "OK" /\ fetch'[c].pc = "queued"
        /\ fetch'[c].id = fetch[c].id /\ fetch'[c].inst = fetch[c].inst
    BY <1>0, <2>1 DEF Transfers
  <2>3. fetch[c].pc = "reserved" /\ "queued" \notin ServedPcs
    BY <1>3, PcSets DEF FetchToFd
  <2>4. ASSUME NEW d \in doomed PROVE DoomedCall(d)'
    BY <1>0, <1>1, <1>3, <2>2, <2>3 DEF DoomedInv, DoomedCall, Flagged, Reachable
  <2> QED BY <1>0, <1>1, <2>2, <2>4 DEF DoomedInv
<1>4. CASE FetchToFd(c, ino, r) /\ ~Reachable(fetch[c].inst)
  <2>1. fetch'[c] = ReplyOf(fetch[c], "DEAD_OBJECT")
    BY <1>0, <1>4 DEF FetchToFd
  <2>2. "DEAD_OBJECT" \in Results
    BY DEF Results
  <2>3. fetch'[c].result = "DEAD_OBJECT" /\ fetch'[c].pc = "replied"
    BY <1>0, <2>1, <2>2, ReplyTyped
  <2>4. ASSUME NEW d \in doomed PROVE DoomedCall(d)'
    BY <1>0, <1>1, <2>3, PcSets DEF DoomedInv, DoomedCall, Flagged, Reachable
  <2> QED BY <1>0, <1>1, <2>3, <2>4 DEF DoomedInv
<1> QED BY <1>2, <1>3, <1>4

\* A handler answers a call without touching the marks of the others.
LEMMA DoomedHandler ==
    ASSUME HttpInv, DoomedInv, NEW c \in Calls,
           RejectSink(c) \/ CountRequest(c) \/ UncountRequest(c)
    PROVE  DoomedInv'
<1>0. /\ fetch \in [Calls -> Transfers] /\ fetch[c] \in Transfers /\ doomed \subseteq Calls
      /\ doomed' = doomed /\ mRequests' = mRequests /\ up' = up /\ instance' = instance
      /\ \A d \in Calls \ {c} : fetch'[d] = fetch[d]
  BY DEF RejectSink, CountRequest, UncountRequest, tableVars, HttpInv, HttpTypeOK
<1>1. CASE RejectSink(c)
  <2>1. fetch'[c] = ReplyOf(fetch[c], "ERROR_WRITE")
    BY <1>0, <1>1 DEF RejectSink
  <2>2. fetch'[c].result = "ERROR_WRITE" /\ fetch'[c].pc = "replied"
    BY <1>0, <2>1, ReplyTyped DEF Results
  <2>3. ASSUME NEW d \in doomed PROVE DoomedCall(d)'
    BY <1>0, <2>2, PcSets DEF DoomedInv, DoomedCall, Flagged, Reachable
  <2> QED BY <1>0, <2>2, <2>3 DEF DoomedInv
<1>2. CASE CountRequest(c) \/ UncountRequest(c)
  <2> DEFINE pc == IF fetch[c].pc = "begun" THEN "hop" ELSE "ended"
  <2>1. fetch[c].pc \in {"begun", "end"} /\ fetch'[c] = [fetch[c] EXCEPT !.pc = pc]
    BY <1>0, <1>2 DEF CountRequest, UncountRequest
  <2>2. fetch[c].pc \in ServedPcs /\ pc \in FetchPcs
    BY <2>1, PcSets
  <2>3. /\ fetch'[c].pc = pc /\ fetch'[c].id = fetch[c].id /\ fetch'[c].result = fetch[c].result
    BY <1>0, <2>1, <2>2, PcTyped
  <2>4. ASSUME NEW d \in doomed PROVE DoomedCall(d)'
    BY <1>0, <2>2, <2>3 DEF DoomedInv, DoomedCall, Flagged, Reachable
  <2> QED BY <1>0, <2>3, <2>4 DEF DoomedInv
<1> QED BY <1>1, <1>2

\* beginRequest() keeps the mark it finds.
LEMMA DoomedBegin ==
    ASSUME HttpInv, DoomedInv, NEW c \in Calls, BeginRequest(c)
    PROVE  DoomedInv'
<1> DEFINE i == fetch[c].id
           e == [(IF mRequests[i].present THEN mRequests[i] ELSE NewRequest) EXCEPT !.running = TRUE]
<1>0. /\ fetch \in [Calls -> Transfers] /\ fetch[c] \in Transfers /\ doomed \subseteq Calls
      /\ doomed' = doomed /\ up' = up /\ instance' = instance
      /\ fetch[c].pc = "queued" /\ Reachable(fetch[c].inst) /\ i \in Ids
      /\ mRequests \in [Ids -> Requests] /\ mRequests[i] \in Requests
      /\ \A d \in Calls \ {c} : fetch'[d] = fetch[d]
      /\ fetch'[c] = [fetch[c] EXCEPT !.pc = "begun"]
      /\ mRequests' = [mRequests EXCEPT ![i] = e]
  BY DEF BeginRequest, HttpInv, HttpTypeOK, TableInv, CallFacts
<1>1. /\ fetch'[c].pc = "begun" /\ fetch'[c].id = i /\ fetch'[c].result = fetch[c].result
  BY <1>0, PcTyped, PcSets
<1>2. /\ e.present /\ ~e.expired
      /\ mRequests[i].present /\ mRequests[i].canceled => e.canceled
  <2>1. NewRequest \in Requests /\ NewRequest.present /\ ~NewRequest.expired
    BY DEF NewRequest, NoRequest, Requests
  <2>2. ~mRequests[i].expired
    BY <1>0 DEF DoomedInv
  <2> QED BY <1>0, <2>1, <2>2 DEF Requests
<1> HIDE DEF e
<1>3. mRequests'[i] = e /\ \A j \in Ids \ {i} : mRequests'[j] = mRequests[j]
  BY <1>0
<1>4. \A d \in Calls \ {c} : Reachable(fetch[d].inst) /\ fetch[d].pc # "none" => fetch[d].id \in Ids \ {i}
  BY <1>0 DEF HttpInv, TableInv, CallFacts, IdsUnique, Reachable
<1>5. \A d \in Calls : fetch[d].pc \in ServedPcs => Reachable(fetch[d].inst) /\ fetch[d].pc # "none"
  BY PcSets DEF HttpInv, TableInv, FetchRegistered, Served
<1>6. ASSUME NEW d \in doomed PROVE DoomedCall(d)'
  <2>1. CASE d = c
    BY <1>0, <1>1, <1>2, <1>3, <2>1 DEF DoomedInv, DoomedCall, Flagged
  <2>2. CASE d # c
    <3>1. DoomedCall(d) /\ fetch'[d] = fetch[d] /\ d \in Calls
      BY <1>0, <2>2 DEF DoomedInv
    <3>2. fetch[d].pc # "none" /\ (Reachable(fetch[d].inst) => Flagged(d)' = Flagged(d))
      BY <1>3, <1>4, <2>2, <3>1 DEF Flagged, DoomedCall
    <3> QED BY <1>0, <1>5, <3>1, <3>2 DEF DoomedCall, Reachable
  <2> QED BY <2>1, <2>2
<1>7. \A j \in Ids : ~mRequests'[j].expired
  BY <1>2, <1>3 DEF DoomedInv
<1> QED BY <1>0, <1>1, <1>6, <1>7 DEF DoomedInv

\* endRequest() takes out no mark but that of the call it ends.
LEMMA DoomedEnd ==
    ASSUME HttpInv, DoomedInv, NEW c \in Calls, EndRequest(c)
    PROVE  DoomedInv'
<1> DEFINE i == fetch[c].id
<1>0. /\ fetch \in [Calls -> Transfers] /\ fetch[c] \in Transfers /\ doomed \subseteq Calls
      /\ doomed' = doomed /\ up' = up /\ instance' = instance
      /\ fetch[c].pc = "ended" /\ c \in Served /\ Reachable(fetch[c].inst) /\ i \in Ids
      /\ mRequests \in [Ids -> Requests]
      /\ \A d \in Calls \ {c} : fetch'[d] = fetch[d]
      /\ fetch'[c] = ReplyOf(fetch[c], fetch[c].result)
      /\ mRequests' = [mRequests EXCEPT ![i] = NoRequest]
  BY PcSets DEF EndRequest, HttpInv, HttpTypeOK, TableInv, CallFacts, FetchRegistered, Served
<1>1. fetch'[c].pc = "replied" /\ fetch'[c].result = fetch[c].result
  <2>1. fetch[c].result \in Results
    BY <1>0 DEF Transfers
  <2> QED BY <1>0, <2>1, ReplyTyped
<1>2. ~NoRequest.expired
  BY DEF NoRequest
<1>3. mRequests'[i] = NoRequest /\ \A j \in Ids \ {i} : mRequests'[j] = mRequests[j]
  BY <1>0
<1>4. \A d \in Calls \ {c} : Reachable(fetch[d].inst) /\ fetch[d].pc # "none" => fetch[d].id \in Ids \ {i}
  BY <1>0 DEF HttpInv, TableInv, CallFacts, IdsUnique, Reachable
<1>5. \A d \in Calls : fetch[d].pc \in ServedPcs => Reachable(fetch[d].inst) /\ fetch[d].pc # "none"
  BY PcSets DEF HttpInv, TableInv, FetchRegistered, Served
<1>6. ASSUME NEW d \in doomed PROVE DoomedCall(d)'
  <2>1. CASE d = c
    BY <1>0, <1>1, <2>1, PcSets DEF DoomedInv, DoomedCall
  <2>2. CASE d # c
    <3>1. DoomedCall(d) /\ fetch'[d] = fetch[d] /\ d \in Calls
      BY <1>0, <2>2 DEF DoomedInv
    <3>2. fetch[d].pc # "none" /\ (Reachable(fetch[d].inst) => Flagged(d)' = Flagged(d))
      BY <1>3, <1>4, <2>2, <3>1 DEF Flagged, DoomedCall
    <3> QED BY <1>0, <1>5, <3>1, <3>2 DEF DoomedCall, Reachable
  <2> QED BY <2>1, <2>2
<1>7. \A j \in Ids : ~mRequests'[j].expired
  BY <1>2, <1>3 DEF DoomedInv
<1> QED BY <1>0, <1>1, <1>6, <1>7 DEF DoomedInv

\* cancel() marks the call it dooms, and with no stale entry it drops no mark.
LEMMA DoomedCancel ==
    ASSUME HttpInv, DoomedInv, CancelHandler
    PROVE  DoomedInv'
<1> DEFINE i == Head(cancelQ)
           D == {c \in Calls : /\ fetch[c].id = i /\ fetch[c].inst = instance
                               /\ fetch[c].pc \in {"reserved", "queued"}}
<1>0. /\ i \in Ids /\ mRequests \in [Ids -> Requests] /\ doomed' = doomed \cup D
      /\ UNCHANGED <<up, instance, fetch>>
      /\ \A c \in Calls : fetch[c].pc # "none" => fetch[c].id \in Ids
      /\ doomed \subseteq Calls
  BY DEF CancelHandler, HttpInv, HttpTypeOK, TableInv, CallFacts
<1>1. \A r \in Requests : /\ [r EXCEPT !.canceled = TRUE].canceled
                          /\ [r EXCEPT !.canceled = TRUE].present = r.present
                          /\ [r EXCEPT !.canceled = TRUE].expired = r.expired
  BY DEF Requests
<1>2. /\ NewRequest \in Requests /\ NewRequest.present /\ ~NewRequest.expired
  BY DEF NewRequest, NoRequest, Requests
<1>3. /\ mRequests'[i].present /\ mRequests'[i].canceled /\ ~mRequests'[i].expired
      /\ \A j \in Ids \ {i} : mRequests'[j] = mRequests[j]
  <2>1. CASE mRequests[i].present
    <3>1. mRequests' = [mRequests EXCEPT ![i] = [mRequests[i] EXCEPT !.canceled = TRUE]]
      BY <2>1 DEF CancelHandler
    <3>2. mRequests[i] \in Requests /\ ~mRequests[i].expired
      BY <1>0 DEF DoomedInv
    <3> QED BY <1>0, <1>1, <2>1, <3>1, <3>2
  <2>2. CASE ~mRequests[i].present
    <3>1. mRequests' = [j \in Ids |-> IF j = i THEN [NewRequest EXCEPT !.canceled = TRUE]
                                      ELSE IF Stale(mRequests[j]) THEN NoRequest ELSE mRequests[j]]
      BY <2>2 DEF CancelHandler
    <3>2. \A j \in Ids : ~Stale(mRequests[j])
      BY DEF Stale, DoomedInv
    <3> QED BY <1>0, <1>1, <1>2, <3>1, <3>2
  <2> QED BY <2>1, <2>2
<1>4. ASSUME NEW c \in Calls, fetch[c].pc # "none", Flagged(c) PROVE Flagged(c)'
  BY <1>0, <1>3, <1>4 DEF Flagged
<1>5. ASSUME NEW c \in D PROVE DoomedCall(c)'
  <2>1. /\ c \in Calls /\ fetch[c].id = i /\ fetch[c].pc \in {"reserved", "queued"}
        /\ fetch[c].result # "OK"
    BY DEF DoomedInv
  <2>2. Flagged(c)' /\ fetch'[c] = fetch[c]
    BY <1>0, <1>3, <2>1 DEF Flagged
  <2> QED BY <2>1, <2>2 DEF DoomedCall
<1>6. ASSUME NEW c \in doomed PROVE DoomedCall(c)'
  <2>1. c \in Calls /\ DoomedCall(c) /\ fetch'[c] = fetch[c]
    BY <1>0 DEF DoomedInv
  <2>2. fetch[c].pc # "none"
    BY <2>1 DEF DoomedCall
  <2> QED BY <1>0, <1>4, <2>1, <2>2 DEF DoomedCall, Reachable
<1>7. \A j \in Ids : ~mRequests'[j].expired
  BY <1>3 DEF DoomedInv
<1> HIDE DEF i, D
<1> QED BY <1>0, <1>5, <1>6, <1>7 DEF DoomedInv

\* A crash ends every call of the instance, and a new instance has none.
LEMMA DoomedCrash ==
    ASSUME HttpInv, DoomedInv, Crash \/ Restart
    PROVE  DoomedInv'
<1>0. fetch \in [Calls -> Transfers] /\ doomed \subseteq Calls /\ instance \in Nat
  BY DEF HttpInv, HttpTypeOK
<1>1. CASE Crash
  <2>0. ~NoRequest.expired
    BY DEF NoRequest
  <2>1. ASSUME NEW c \in Calls
        PROVE  \/ fetch'[c].pc = "replied" /\ fetch'[c].result = "DEAD_OBJECT"
               \/ fetch'[c] = fetch[c] /\ fetch[c].pc \notin ServedPcs
    <3>1. fetch'[c] = IF fetch[c].pc \in ServedPcs \cup {"queued"}
                      THEN ReplyOf(fetch[c], "DEAD_OBJECT") ELSE fetch[c]
      BY <1>1 DEF Crash
    <3>2. /\ ReplyOf(fetch[c], "DEAD_OBJECT").pc = "replied"
          /\ ReplyOf(fetch[c], "DEAD_OBJECT").result = "DEAD_OBJECT"
      BY <1>0, ReplyTyped DEF Results
    <3> QED BY <3>1, <3>2
  <2>2. /\ up' = FALSE /\ doomed' = doomed
        /\ mRequests' = [i \in Ids |-> NoRequest]
    BY <1>1 DEF Crash
  <2>3. ASSUME NEW c \in doomed PROVE DoomedCall(c)'
    BY <1>0, <2>1, <2>2, PcSets DEF DoomedInv, DoomedCall, Reachable
  <2> QED BY <2>0, <2>1, <2>2, <2>3 DEF DoomedInv
<1>2. CASE Restart
  <2>1. /\ instance' = instance + 1
        /\ UNCHANGED <<mRequests, fetch, doomed>>
    BY <1>2 DEF Restart
  <2>2. \A c \in Calls : fetch[c].inst \in Nat /\ fetch[c].inst <= instance
    BY <1>0 DEF Transfers, HttpInv, TableInv, CallFacts
  <2>3. ASSUME NEW c \in doomed PROVE DoomedCall(c)'
    <3>1. ~Reachable(fetch[c].inst)'
      BY <1>0, <2>1, <2>2 DEF Reachable
    <3> QED BY <2>1, <3>1 DEF DoomedInv, DoomedCall, Flagged
  <2> QED BY <2>1, <2>3 DEF DoomedInv
<1> QED BY <1>1, <1>2

\* Steps that touch neither the table nor a call.
LEMMA DoomedQueue ==
    ASSUME DoomedInv, UNCHANGED <<up, instance, mRequests, fetch, doomed>>
    PROVE  DoomedInv'
BY DEF DoomedInv, DoomedCall, Flagged, Reachable

\* Every step of a process in which no entry grows stale.
LEMMA DoomedProcess ==
    ASSUME ~Expires, HttpInv, DoomedInv, HttpProcess
    PROVE  DoomedInv'
<1>1. ASSUME NEW c \in Calls, Accept(c) \/ Transfer(c)
      PROVE  DoomedInv'
  <2>1. CASE Transport(c)
    BY <2>1, DoomedTransport
  <2> QED BY <1>1, <2>1, DoomedHandler, DoomedBegin, DoomedEnd DEF Accept, Transfer, Transport
<1>2. CASE GetStringBegin \/ GetStringEnd
  <2>1. UNCHANGED <<up, instance, mRequests, fetch, doomed>>
    BY <1>2 DEF GetStringBegin, GetStringEnd
  <2> QED BY <2>1, DoomedQueue
<1>3. ~\E id \in Ids : Expire(id)
  BY DEF Expire
<1> QED BY <1>1, <1>2, <1>3, DoomedCancel, DoomedCrash DEF HttpProcess
===============================================================================
