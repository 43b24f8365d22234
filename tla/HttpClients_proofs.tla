--------------------------- MODULE HttpClients_proofs ---------------------------
(***************************************************************************)
(* What holds of the http service for every number of calls, ids, threads, *)
(* cancels and crashes, whatever its clients and the network do.           *)
(***************************************************************************)
EXTENDS HttpClients, HttpService_proofs

\* A client finds files of bytes.
LEMMA InitInv == Init => HttpInv
<1> SUFFICES ASSUME Init PROVE HttpInv
  OBVIOUS
<1>1. ASSUME NEW s \in Leftovers
      PROVE  s \in Seq(Bytes)
  <2>1. PICK c \in Calls : s \in {[i \in 1..n |-> ResourceOf[c]] : n \in 0..(Size + 1)}
    BY DEF Leftovers
  <2>2. PICK n \in 0..(Size + 1) : s = [i \in 1..n |-> ResourceOf[c]]
    BY <2>1
  <2>3. n \in Nat /\ ResourceOf[c] \in Bytes
    BY SizeAssumption DEF Bytes
  <2>4. s \in [1..n -> Bytes]
    BY <2>2, <2>3
  <2> QED BY <2>3, <2>4
<1>2. content \in [Inodes -> Seq(Bytes)]
  BY <1>1 DEF Init
<1> QED BY <1>2, InitHttpInv DEF Init

\* A client's fetchToFd() resumes from a natural number of bytes.
LEMMA ClientFetchInv ==
    ASSUME HttpInv, NEW c \in Calls, ClientFetch(c)
    PROVE  HttpInv'
<1>1. PICK ino \in Inodes : FetchToFd(c, ino, Len(content[ino]))
  BY DEF ClientFetch
<1>2. Len(content[ino]) \in Nat
  BY DEF HttpInv, HttpTypeOK
<1> QED BY <1>1, <1>2, FetchToFdInv

\* Every step of the closed system.
LEMMA NextInv == HttpInv /\ [Next]_httpVars => HttpInv'
<1> SUFFICES ASSUME HttpInv, [Next]_httpVars PROVE HttpInv'
  OBVIOUS
<1>0. /\ DOMAIN relayQ = Calls /\ cancelQ \in Seq(Ids) /\ cancels \in Nat
  BY DEF HttpInv, HttpTypeOK
<1>1. ASSUME NEW id \in Ids, ClientCancel(id)
      PROVE  HttpInv'
  <2>1. cancelQ' \in Seq(Ids) /\ cancels' \in Nat /\ DOMAIN relayQ' = Calls
    BY <1>0, <1>1 DEF ClientCancel, SendCancel
  <2>2. UNCHANGED <<up, instance, tableVars, fetch, content, doomed>>
    BY <1>1 DEF ClientCancel
  <2> QED BY <2>1, <2>2, QueueInv
<1>2. ASSUME NEW c \in Calls, ClientProgress(c)
      PROVE  HttpInv'
  <2>1. cancelQ' \in Seq(Ids) /\ cancels' \in Nat /\ DOMAIN relayQ' = Calls
    BY <1>0, <1>2 DEF ClientProgress
  <2>2. UNCHANGED <<up, instance, tableVars, fetch, content, doomed>>
    BY <1>2 DEF ClientProgress
  <2> QED BY <2>1, <2>2, QueueInv
<1>3. CASE Quiet \/ UNCHANGED httpVars
  <2>1. cancelQ' \in Seq(Ids) /\ cancels' \in Nat /\ DOMAIN relayQ' = Calls
    BY <1>0, <1>3 DEF Quiet, httpVars
  <2>2. UNCHANGED <<up, instance, tableVars, fetch, content, doomed>>
    BY <1>3 DEF Quiet, httpVars, tableVars
  <2> QED BY <2>1, <2>2, QueueInv
<1> QED BY <1>1, <1>2, <1>3, NewRequestIdInv, ClientFetchInv, HttpProcessInv DEF Next

\* The inductive invariant: types, the ownership of ids and of table entries,
\* and the counter.
THEOREM HttpInvariant == Spec => []HttpInv
BY InitInv, NextInv, PTL DEF Spec

\* Every variable of the service has its type.
THEOREM HttpTypeCorrect == Spec => []HttpTypeOK
<1>1. HttpInv => HttpTypeOK
  BY DEF HttpInv
<1> QED BY <1>1, HttpInvariant, PTL

\* newRequestId() never gives two calls of one instance the same id, so no entry
\* of mRequests serves two transfers.
THEOREM HttpIdsUnique == Spec => []IdsUnique
<1>1. HttpInv => IdsUnique
  BY DEF HttpInv, TableInv
<1> QED BY <1>1, HttpInvariant, PTL

\* The entry of a transfer stays in the table for as long as fetchToFd() runs:
\* cancel() finds it, whatever the sweep of stale entries drops.
THEOREM HttpFetchRegistered == Spec => []FetchRegistered
<1>1. HttpInv => FetchRegistered
  BY DEF HttpInv, TableInv
<1> QED BY <1>1, HttpInvariant, PTL

\* No entry stays marked running once its handler is gone.
THEOREM HttpRunningOwned == Spec => []RunningOwned
<1>1. HttpInv => RunningOwned
  BY DEF HttpInv, TableInv
<1> QED BY <1>1, HttpInvariant, PTL

\* getActiveRequestCount() counts what is under way.
THEOREM HttpActiveCountExact == Spec => []ActiveCountExact
<1>1. HttpInv => ActiveCountExact
  BY DEF HttpInv
<1> QED BY <1>1, HttpInvariant, PTL

-------------------------------------------------------------------------------
(* Cancelling before the transfer begins *)

\* No call is doomed in the beginning.
LEMMA InitDoomed == Init => DoomedInv
<1>1. NoFetch.result # "OK" /\ ~NoRequest.expired
  BY DEF NoFetch, NoRequest
<1> QED BY <1>1 DEF Init, InitHttp, DoomedInv

\* Every step of the closed system, as long as no entry grows stale.
LEMMA NextDoomed ==
    ASSUME ~Expires
    PROVE  HttpInv /\ DoomedInv /\ [Next]_httpVars => DoomedInv'
<1> SUFFICES ASSUME HttpInv, DoomedInv, [Next]_httpVars PROVE DoomedInv'
  OBVIOUS
<1>1. CASE \E c \in Calls : NewRequestId(c) \/ ClientFetch(c)
  BY <1>1, DoomedRequest DEF ClientFetch
<1>2. CASE \/ \E c \in Calls : ClientProgress(c)
           \/ \E id \in Ids : ClientCancel(id)
           \/ Quiet \/ UNCHANGED httpVars
  <2>1. UNCHANGED <<up, instance, mRequests, fetch, doomed>>
    BY <1>2 DEF ClientProgress, ClientCancel, Quiet, httpVars, tableVars
  <2> QED BY <2>1, DoomedQueue
<1> QED BY <1>1, <1>2, DoomedProcess DEF Next

\* A cancel() handled before beginRequest() kills the transfer on arrival: it
\* never sends a request and never succeeds, provided that no entry of mRequests
\* outlives kStaleRequestMs.
THEOREM HttpDeadOnArrival ==
    ASSUME ~Expires
    PROVE  Spec => []DeadOnArrival
<1>1. Init => HttpInv /\ DoomedInv
  BY InitInv, InitDoomed
<1>2. HttpInv /\ DoomedInv /\ [Next]_httpVars => (HttpInv /\ DoomedInv)'
  BY NextInv, NextDoomed
<1>3. DoomedInv => DeadOnArrival
  BY DEF DoomedInv, DoomedCall, DeadOnArrival
<1> QED BY <1>1, <1>2, <1>3, PTL DEF Spec
===============================================================================
