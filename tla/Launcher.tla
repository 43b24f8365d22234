-------------------------------- MODULE Launcher --------------------------------
(***************************************************************************)
(* The launcher (service/main.cpp): runManager() brings up servicemanager, *)
(* unless one is running, then the http and the download service, and      *)
(* takes everything down when a child exits or a signal arrives.  The      *)
(* signal handler runs between any two steps and never returns, so it      *)
(* replaces whatever the manager was doing; the handler of the other       *)
(* signal can replace it in turn.  Ctrl+C reaches the whole process group, *)
(* SIGTERM only the manager.                                               *)
(***************************************************************************)
EXTENDS Naturals, FiniteSets

CONSTANTS
    Signals,       \* which of SIGINT and SIGTERM somebody sends, once each
    MaxCrashes,    \* children that exit on their own
    MaxForeign     \* changes of a servicemanager that is not ours

ASSUME LauncherAssumption ==
    Signals \subseteq {"INT", "TERM"} /\ MaxCrashes \in Nat /\ MaxForeign \in Nat

Children == {"sm", "http", "dl"}
Services == {"http", "dl"}

VARIABLES
    at,        \* where the manager is: a step and the child it is about
    pid,       \* gServiceManager, gHttp, gDownload: their pid is stored
    own,       \* gOwnServiceManager
    proc,      \* the child processes
    doomed,    \* those with a fatal signal pending
    slot,      \* who is context manager: "none", "ours" or "foreign"
    entry,     \* whose binder is registered under each service's name
    claimed,   \* the names that were registered at some time
    pending, blocked,   \* signals of the manager
    cut,       \* the steps that a handler interrupted
    stray,     \* somebody signalled a pid that had been reaped
    crashes, changes    \* faults so far

manager == <<at, pid, own>>
world == <<slot, entry, claimed, changes>>
signals == <<pending, blocked, cut>>
vars == <<manager, proc, doomed, world, signals, stray, crashes>>

Alive(c) == proc[c] \in {"forked", "running"}
Is(step, c) == at = <<step, c>>
Goto(step, c) == at' = <<step, c>>

\* Signals are caught and nothing is started yet; another launcher may have left
\* its servicemanager and services.
Init ==
    /\ at = <<"ensure", "sm">>
    /\ pid = [c \in Children |-> FALSE] /\ own = FALSE
    /\ proc = [c \in Children |-> "none"] /\ doomed = {}
    /\ slot \in {"none", "foreign"}
    /\ entry \in [Services -> IF slot = "foreign" THEN {"none", "other"} ELSE {"none"}]
    /\ claimed = {s \in Services : entry[s] = "other"}
    /\ pending = {} /\ blocked = {} /\ cut = {} /\ stray = FALSE
    /\ crashes = 0 /\ changes = 0

-------------------------------------------------------------------------------
(* runManager(): ensureServiceManager() and startService() *)

Started(c) == IF c = "sm" THEN Goto("fork", "http")
              ELSE IF c = "http" THEN Goto("fork", "dl") ELSE Goto("wait", "any")

\* Where cleanup() begins.
CleanUp == Goto("kill", "dl")

\* getContextObject() finds one, or there is none and perhaps no binary either.
EnsureServiceManager ==
    /\ Is("ensure", "sm")
    /\ \/ slot # "none" /\ Started("sm")
       \/ slot = "none" /\ (Goto("fork", "sm") \/ CleanUp)
    /\ UNCHANGED <<pid, own, proc, doomed, world, signals, stray, crashes>>

\* The child exists before the manager has stored its pid.  The kernel restarts
\* a fork() that finds a signal pending, so the child never misses a Ctrl+C.
Fork(c) ==
    /\ Is("fork", c) /\ pending = {}
    /\ proc' = [proc EXCEPT ![c] = "forked"]
    /\ Goto("store", c)
    /\ UNCHANGED <<pid, own, doomed, world, signals, stray, crashes>>

\* Mutant: -1 is taken for a pid.
ForkFails_stored(c) ==
    /\ Is("fork", c)
    /\ pid' = [pid EXCEPT ![c] = TRUE]
    /\ CleanUp
    /\ UNCHANGED <<own, proc, doomed, world, signals, stray, crashes>>

ForkFails(c) ==
    /\ Is("fork", c)
    /\ CleanUp
    /\ UNCHANGED <<pid, own, proc, doomed, world, signals, stray, crashes>>

\* gOwnServiceManager follows later still.
Store(c) ==
    /\ Is("store", c)
    /\ pid' = [pid EXCEPT ![c] = TRUE]
    /\ Goto(IF c = "sm" THEN "own" ELSE IF c = "http" THEN "connect" ELSE "poll", c)
    /\ UNCHANGED <<own, proc, doomed, world, signals, stray, crashes>>

Own ==
    /\ Is("own", "sm")
    /\ own' = TRUE
    /\ Goto("poll", "sm")
    /\ UNCHANGED <<pid, proc, doomed, world, signals, stray, crashes>>

\* defaultServiceManager() waits for ever; only its first call looks for one.
Connect ==
    /\ Is("connect", "http") /\ slot # "none"
    /\ Goto("poll", "http")
    /\ UNCHANGED <<pid, own, proc, doomed, world, signals, stray, crashes>>

\* stillAlive() reaps a child that is gone.
Poll(c) ==
    /\ Is("poll", c)
    /\ IF proc[c] = "zombie"
       THEN proc' = [proc EXCEPT ![c] = "gone"] /\ Goto("forget", c)
       ELSE Goto("probe", c) /\ UNCHANGED proc
    /\ UNCHANGED <<pid, own, doomed, world, signals, stray, crashes>>

Forget(c) ==
    /\ Is("forget", c)
    /\ pid' = [pid EXCEPT ![c] = FALSE]
    /\ CleanUp
    /\ UNCHANGED <<own, proc, doomed, world, signals, stray, crashes>>

Found(c) == IF c = "sm" THEN slot # "none" ELSE slot # "none" /\ entry[c] # "none"

\* Mutant: the child's being alive is enough.
Probe_alive(c) ==
    /\ Is("probe", c)
    /\ Started(c)
    /\ UNCHANGED <<pid, own, proc, doomed, world, signals, stray, crashes>>

\* The name is there, or another round, or the last round is over.
Probe(c) ==
    /\ Is("probe", c)
    /\ IF Found(c) THEN Started(c) ELSE Goto("poll", c) \/ CleanUp
    /\ UNCHANGED <<pid, own, proc, doomed, world, signals, stray, crashes>>

-------------------------------------------------------------------------------
(* runManager(): the wait loop, and cleanup() *)

\* Mutant: the loop waits for the http service.
Wait_http ==
    /\ Is("wait", "any") /\ proc["http"] = "zombie"
    /\ proc' = [proc EXCEPT !["http"] = "gone"]
    /\ Goto("forget", "http")
    /\ UNCHANGED <<pid, own, doomed, world, signals, stray, crashes>>

\* wait() reaps any child; with none left it fails and the loop ends.
Wait ==
    /\ Is("wait", "any")
    /\ \/ \E c \in Children : /\ proc[c] = "zombie"
                              /\ proc' = [proc EXCEPT ![c] = "gone"]
                              /\ Goto("forget", c)
       \/ /\ \A c \in Children : proc[c] \in {"none", "gone"}
          /\ CleanUp /\ UNCHANGED proc
    /\ UNCHANGED <<pid, own, doomed, world, signals, stray, crashes>>

After(c) == IF c = "dl" THEN Goto("kill", "http")
            ELSE IF c = "http" THEN Goto("kill", "sm") ELSE Goto("exited", "any")

\* Mutant: a servicemanager is left running whoever started it.
Ours_never(c) == pid[c] /\ c # "sm"

\* A pid that is not stored, or a servicemanager that is not ours, is passed over.
Ours(c) == pid[c] /\ (c = "sm" => own)

\* terminate(): the signal, ...
Kill(c) ==
    /\ Is("kill", c)
    /\ IF Ours(c)
       THEN /\ Goto("reap", c)
            /\ doomed' = IF Alive(c) THEN doomed \cup {c} ELSE doomed
            /\ stray' = (stray \/ proc[c] = "gone")
       ELSE After(c) /\ UNCHANGED <<doomed, stray>>
    /\ UNCHANGED <<pid, own, proc, world, signals, crashes>>

\* ... waitpid(), which fails at once when there is no such child, ...
Reap(c) ==
    /\ Is("reap", c) /\ ~Alive(c)
    /\ proc' = [proc EXCEPT ![c] = "gone"]
    /\ Goto("clear", c)
    /\ UNCHANGED <<pid, own, doomed, world, signals, stray, crashes>>

\* Mutant: the pid is kept.
Clear_not(c) ==
    /\ Is("clear", c)
    /\ After(c)
    /\ UNCHANGED <<pid, own, proc, doomed, world, signals, stray, crashes>>

\* ... and pid = -1.
Clear(c) ==
    /\ Is("clear", c)
    /\ pid' = [pid EXCEPT ![c] = FALSE]
    /\ After(c)
    /\ UNCHANGED <<own, proc, doomed, world, signals, stray, crashes>>

Manager ==
    \/ EnsureServiceManager \/ Own \/ Connect \/ Wait
    \/ \E c \in Children : \/ Fork(c) \/ ForkFails(c) \/ Store(c) \/ Poll(c) \/ Forget(c)
                           \/ Probe(c) \/ Kill(c) \/ Reap(c) \/ Clear(c)

-------------------------------------------------------------------------------
(* Signals and children *)

Exited == Is("exited", "any")

\* Ctrl+C goes to every process of the group, kill(1) to the manager.
Send(sig) ==
    /\ sig \in Signals \ (pending \cup blocked) /\ ~Exited
    /\ pending' = pending \cup {sig}
    /\ doomed' = IF sig = "INT" THEN doomed \cup {c \in Children : Alive(c)} ELSE doomed
    /\ UNCHANGED <<manager, proc, world, blocked, cut, stray, crashes>>

\* Mutant: the handler returns to the wait.
OnSignal_returns(sig) ==
    /\ sig \in pending /\ ~Exited
    /\ pending' = pending \ {sig}
    /\ blocked' = blocked \cup {sig}
    /\ cut' = cut \cup {at}
    /\ IF Is("wait", "any") THEN UNCHANGED at ELSE CleanUp
    /\ UNCHANGED <<pid, own, proc, doomed, world, stray, crashes>>

\* onSignal() takes the place of the interrupted step; its own signal stays
\* blocked until _exit().
OnSignal(sig) ==
    /\ sig \in pending /\ ~Exited
    /\ pending' = pending \ {sig}
    /\ blocked' = blocked \cup {sig}
    /\ cut' = cut \cup {at}
    /\ CleanUp
    /\ UNCHANGED <<pid, own, proc, doomed, world, stray, crashes>>

\* Of the entries the context manager holds, those of c and those it loses
\* when it goes itself.
Die(c) ==
    /\ proc' = [proc EXCEPT ![c] = "zombie"]
    /\ slot' = IF c = "sm" /\ slot = "ours" THEN "none" ELSE slot
    /\ entry' = [s \in Services |-> IF c = "sm" /\ slot = "ours" THEN "none" ELSE entry[s]]

\* A child dies of its signal.  Before exec it still has the manager's handler
\* and variables: it signals the children that were started before it.
Killed(c) ==
    /\ c \in doomed /\ Alive(c)
    /\ Die(c)
    /\ doomed' = IF proc[c] = "running" THEN doomed \ {c}
                 ELSE (doomed \ {c}) \cup
                      {s \in Children \ {c} : Alive(s) /\ (s = "sm" => own)}
    /\ UNCHANGED <<manager, claimed, changes, signals, stray, crashes>>

\* A child that fails to exec or exits for reasons of its own.
Crash(c) ==
    /\ Alive(c) /\ crashes < MaxCrashes
    /\ Die(c)
    /\ doomed' = doomed \ {c}
    /\ crashes' = crashes + 1
    /\ UNCHANGED <<manager, claimed, changes, signals, stray>>

Exec(c) ==
    /\ proc[c] = "forked"
    /\ proc' = [proc EXCEPT ![c] = "running"]
    /\ UNCHANGED <<manager, doomed, world, signals, stray, crashes>>

\* servicemanager becomes context manager, or exits when the slot is taken.
Serve ==
    /\ proc["sm"] = "running"
    /\ \/ slot = "none" /\ slot' = "ours" /\ UNCHANGED <<proc, doomed, entry>>
       \/ slot = "foreign" /\ Die("sm") /\ doomed' = doomed \ {"sm"}
    /\ UNCHANGED <<manager, claimed, changes, signals, stray, crashes>>

\* addService() replaces the entry of another instance.
Register(c) ==
    /\ c \in Services /\ proc[c] = "running" /\ slot # "none" /\ entry[c] # "ours"
    /\ entry' = [entry EXCEPT ![c] = "ours"]
    /\ claimed' = claimed \cup {c}
    /\ UNCHANGED <<manager, proc, doomed, slot, changes, signals, stray, crashes>>

\* The death of a service reaches servicemanager some time later.
Unregister(c) ==
    /\ c \in Services /\ ~Alive(c) /\ entry[c] = "ours"
    /\ entry' = [entry EXCEPT ![c] = "none"]
    /\ UNCHANGED <<manager, proc, doomed, slot, claimed, changes, signals, stray, crashes>>

\* Somebody else's servicemanager comes or goes.
Foreign ==
    /\ slot # "ours" /\ changes < MaxForeign /\ ~Exited
    /\ slot' = IF slot = "none" THEN "foreign" ELSE "none"
    /\ entry' = [s \in Services |-> "none"]
    /\ changes' = changes + 1
    /\ UNCHANGED <<manager, claimed, proc, doomed, signals, stray, crashes>>

-------------------------------------------------------------------------------

\* A manager that waits may wait for ever.
Over == (Exited \/ Is("wait", "any")) /\ UNCHANGED vars

Next ==
    \/ Manager \/ Serve \/ Foreign \/ Over
    \/ \E sig \in Signals : Send(sig) \/ OnSignal(sig)
    \/ \E c \in Children : Killed(c) \/ Crash(c) \/ Exec(c) \/ Register(c) \/ Unregister(c)

Spec == Init /\ [][Next]_vars

\* Processes run and signals are delivered; nobody has to send one, and no child
\* has to crash.
LiveSpec ==
    /\ Spec
    /\ WF_vars(Manager)
    /\ \A sig \in Signals : WF_vars(OnSignal(sig))
    /\ \A c \in Children : WF_vars(Killed(c)) /\ WF_vars(Exec(c))

-------------------------------------------------------------------------------
(* Properties *)

Steps == {"ensure", "fork", "store", "own", "connect", "poll", "forget", "probe", "wait",
          "kill", "reap", "clear", "exited"}

\* Every variable has its type, and a stored pid is that of a process: -1 is
\* never one to signal.
TypeOK ==
    /\ at \in Steps \X (Children \cup {"any"})
    /\ pid \in [Children -> BOOLEAN] /\ own \in BOOLEAN
    /\ \A c \in Children : pid[c] => proc[c] # "none"
    /\ proc \in [Children -> {"none", "forked", "running", "zombie", "gone"}]
    /\ doomed \subseteq Children
    /\ slot \in {"none", "ours", "foreign"} /\ entry \in [Services -> {"none", "other", "ours"}]
    /\ claimed \subseteq Services
    /\ pending \subseteq Signals /\ blocked \subseteq Signals
    /\ cut \subseteq Steps \X (Children \cup {"any"})
    /\ stray \in BOOLEAN /\ crashes \in 0 .. MaxCrashes /\ changes \in 0 .. MaxForeign

\* "Ctrl+C must not leave a servicemanager behind [...] nor two orphaned
\* services": when the manager is gone, every child it started is dead or about
\* to die, whatever the handlers interrupted, except for a SIGTERM that fell
\* between fork() and the stores that tell cleanup() of the child.
NoOrphans ==
    Exited => \A c \in Children :
        Alive(c) => \/ c \in doomed
                    \/ "TERM" \in blocked /\ cut \cap {<<"store", c>>, <<"own", c>>} # {}

\* terminate() signals no pid that was reaped before (and may by now belong to
\* a stranger), unless a handler fell between the reaping and "pid = -1".
NoStrayKill ==
    stray => \E c \in Children : cut \cap {<<"forget", c>>, <<"clear", c>>} # {}

\* "Starts one service role and waits until it is actually registered", and
\* "Not interchangeable": the download service is started only once the http
\* service's name was registered, and the manager settles down only once both
\* were.  (By whom is another matter: the name may be another instance's.)
RegisteredFirst ==
    /\ proc["dl"] # "none" => "http" \in claimed
    /\ Is("wait", "any") => Services \subseteq claimed

\* "Any child exiting means something broke: take the rest down": once the
\* manager waits, a child's exit ends them all.
TakenDown ==
    (Is("wait", "any") /\ \E c \in Children : proc[c] = "zombie")
        ~> (Exited /\ \A c \in Children : ~Alive(c))

\* A signal ends the manager, even in the middle of starting or of cleaning up.
SignalEnds == \A sig \in Signals : sig \in pending ~> Exited
===============================================================================
