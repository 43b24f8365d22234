------------------------------ MODULE HttpClients ------------------------------
(***************************************************************************)
(* The http service on its own, closed by the clients its interface allows *)
(* for: each call fetches into a file, resuming from what the file holds,  *)
(* with one call at a time for a file; and anybody may cancel any id.      *)
(***************************************************************************)
EXTENDS HttpService

\* What an earlier call may have left in a file: the first bytes of a resource,
\* or a version of it that was longer.
Leftovers == UNION {{[i \in 1..n |-> ResourceOf[c]] : n \in 0..(Size + 1)} : c \in Calls}

Init ==
    /\ InitHttp
    /\ content \in [Inodes -> Leftovers]

FileInUse(ino) ==
    \E c \in Calls : fetch[c].ino = ino

ClientFetch(c) ==
    \E ino \in Inodes :
        /\ ~FileInUse(ino)
        /\ \A i \in 1..Len(content[ino]) : content[ino][i] = ResourceOf[c]
        /\ FetchToFd(c, ino, Len(content[ino]))

ClientCancel(id) ==
    /\ cancels < MaxCancels
    /\ SendCancel(instance, id)
    /\ cancels' = cancels + 1
    /\ UNCHANGED <<up, instance, tableVars, fetch, content, relayQ, doomed>>

\* The client's progress callback takes the next report.
ClientProgress(c) ==
    /\ relayQ[c] # << >>
    /\ relayQ' = [relayQ EXCEPT ![c] = Tail(@)]
    /\ UNCHANGED <<up, instance, tableVars, fetch, content, cancelQ, cancels, doomed>>

\* Every call was made and answered, or the ids of its instance ran out.
Quiet ==
    /\ up /\ cancelQ = << >> /\ strings = 0
    /\ \A c \in Calls : fetch[c].pc \in {"none", "replied"} /\ relayQ[c] = << >>
    /\ UNCHANGED httpVars

Next ==
    \/ \E c \in Calls : NewRequestId(c) \/ ClientFetch(c) \/ ClientProgress(c)
    \/ \E id \in Ids : ClientCancel(id)
    \/ HttpProcess
    \/ Quiet

Spec == Init /\ [][Next]_httpVars

\* The kernel queues transactions first come first served, so a thread that is
\* free again and again takes each of them; a thread that serves a call runs.
Fairness ==
    /\ \A c \in Calls : SF_httpVars(Accept(c)) /\ WF_httpVars(Transfer(c))
    /\ SF_httpVars(CancelHandler)

LiveSpec == Spec /\ Fairness

-------------------------------------------------------------------------------
(* Properties *)

\* A transfer that was cancelled, the call to cancel() on its way included, ends
\* even if the server would feed it for ever.
CancelStops ==
    \A c \in Calls :
        (/\ fetch[c].pc \in ServedPcs
         /\ IsCanceled(c) \/ \E i \in DOMAIN cancelQ : cancelQ[i] = fetch[c].id)
            ~> fetch[c].pc = "replied"
===============================================================================
