----------------------------- MODULE DownloadSpec ------------------------------
(***************************************************************************)
(* What the download service promises, as IDownloadService.aidl and        *)
(* IDownloadCallback.aidl word it: a task goes from pending to running to  *)
(* exactly one terminal state; a destination path only ever names a        *)
(* complete file; COMPLETED comes after the file is at its path, FAILED    *)
(* and CANCELED only without it, and CANCELED only if somebody asked.      *)
(***************************************************************************)
CONSTANTS Tasks, Dests, DestOf

VARIABLES
    state,      \* STATE_* of every task
    asked,      \* tasks that cancel() was called for
    published,  \* tasks whose file is at its final path
    file        \* what each destination path names: "none" or "whole"

vars == <<state, asked, published, file>>

Init ==
    /\ state = [t \in Tasks |-> "UNKNOWN"]
    /\ asked = {}
    /\ published = {}
    /\ file = [d \in Dests |-> "none"]

Become(t, from, to) ==
    /\ state[t] = from
    /\ state' = [state EXCEPT ![t] = to]
    /\ UNCHANGED <<asked, published, file>>

Enqueue(t) == Become(t, "UNKNOWN", "PENDING")
Start(t) == Become(t, "PENDING", "RUNNING")
Complete(t) == t \in published /\ Become(t, "RUNNING", "COMPLETED")
Fail(t) == t \notin published /\ Become(t, "RUNNING", "FAILED")
Cancel(t) == t \notin published /\ t \in asked /\ Become(t, "RUNNING", "CANCELED")

Ask(t) ==
    /\ state[t] # "UNKNOWN"
    /\ asked' = asked \cup {t}
    /\ UNCHANGED <<state, published, file>>

Publish(t) ==
    /\ state[t] = "RUNNING" /\ t \notin published
    /\ published' = published \cup {t}
    /\ file' = [file EXCEPT ![DestOf[t]] = "whole"]
    /\ UNCHANGED <<state, asked>>

End(t) == Complete(t) \/ Fail(t) \/ Cancel(t)

Next == \E t \in Tasks : Enqueue(t) \/ Start(t) \/ Ask(t) \/ Publish(t) \/ End(t)

Spec == Init /\ [][Next]_vars

\* An accepted download runs, and a running one ends.
LiveSpec == Spec /\ \A t \in Tasks : WF_vars(Start(t)) /\ WF_vars(End(t))
===============================================================================
