---------------------------- MODULE Launcher_proofs ----------------------------
(***************************************************************************)
(* The safety properties of Launcher, for any number of crashes and of     *)
(* foreign servicemanagers, and whichever signals are sent.                *)
(***************************************************************************)
EXTENDS Launcher, TLAPS

Cleaning == {"kill", "reap", "clear", "exited"}

\* A child exists that cleanup() would not find, or a pid is stored that is no
\* longer a child's; and a handler has interrupted such a step.
Unknown(c) == Is("store", c) \/ Is("own", c)
Stale(c) == Is("forget", c) \/ Is("clear", c)
CutUnknown(c) == <<"store", c>> \in cut \/ <<"own", c>> \in cut
CutStale(c) == <<"forget", c>> \in cut \/ <<"clear", c>> \in cut

\* A handler is always in cleanup(), and after a Ctrl+C every child is doomed.
SignalFacts ==
    /\ blocked # {} => at[1] \in Cleaning
    /\ blocked = {} => cut = {}
    /\ "INT" \in pending \cup blocked => \A c \in Children : Alive(c) => c \in doomed

\* cleanup() knows of every living child, outside the window.
Known == \A c \in Children : Alive(c) => Ours(c) \/ Unknown(c) \/ CutUnknown(c)

\* The places cleanup() reaches after it has dealt with a child.
Beyond(c) ==
    \/ Exited
    \/ c \in Services /\ (Is("kill", "sm") \/ Is("reap", "sm") \/ Is("clear", "sm"))
    \/ c = "dl" /\ (Is("kill", "http") \/ Is("reap", "http") \/ Is("clear", "http"))

\* What cleanup() has left behind it is dead, doomed or was never known.
Behind ==
    \A c \in Children :
        /\ Beyond(c) /\ Alive(c) => c \in doomed \/ CutUnknown(c)
        /\ Stale(c) => ~Alive(c)

\* A stored pid is a child's until it is reaped, and then for one step more; a
\* reaped one is signalled only if a handler came in that step.
PidFacts ==
    /\ \A c \in Children :
           /\ Is("store", c) => proc[c] \notin {"none", "gone"}
           /\ Is("own", c) \/ Is("reap", c) => pid[c]
           /\ pid[c] /\ proc[c] = "gone" => Stale(c) \/ CutStale(c)
    /\ stray => \E c \in Children : CutStale(c)

\* A name that was found was claimed before.
NameFacts ==
    /\ \A s \in Services : entry[s] # "none" => s \in claimed
    /\ Is("fork", "dl") \/ Is("store", "dl") \/ Is("poll", "dl") \/ Is("probe", "dl") =>
           "http" \in claimed
    /\ RegisteredFirst

\* The inductive invariant.
LauncherInv ==
    TypeOK /\ SignalFacts /\ Known /\ Behind /\ PidFacts /\ NameFacts

\* Nothing is started and nothing was interrupted.
LEMMA InitInv == Init => LauncherInv
<1> SUFFICES ASSUME Init PROVE LauncherInv
  OBVIOUS
<1>1. TypeOK
  <2>1. /\ entry \in [Services -> {"none", "other", "ours"}]
        /\ slot \in {"none", "ours", "foreign"} /\ claimed \subseteq Services
    <3>1. CASE slot = "foreign"
      BY <3>1 DEF Init
    <3>2. CASE slot = "none"
      BY <3>2 DEF Init
    <3> QED
      BY <3>1, <3>2 DEF Init
  <2>2. own \in BOOLEAN /\ stray \in BOOLEAN
    BY DEF Init
  <2>3. crashes \in 0 .. MaxCrashes /\ changes \in 0 .. MaxForeign
    BY LauncherAssumption DEF Init
  <2> QED
    BY <2>1, <2>2, <2>3 DEF Init, TypeOK, Steps, Children
<1>2. SignalFacts
  BY DEF Init, SignalFacts
<1>3. Known
  BY DEF Init, Known, Alive
<1>4. Behind
  BY DEF Init, Behind, Alive
<1>5. PidFacts
  BY DEF Init, PidFacts, Is
<1>6. NameFacts
  BY DEF Init, NameFacts, RegisteredFirst, Is, Children
<1> QED
  BY <1>1, <1>2, <1>3, <1>4, <1>5, <1>6 DEF LauncherInv

\* ensureServiceManager() starts nothing yet.
LEMMA EnsureServiceManagerInv ==
  ASSUME LauncherInv, EnsureServiceManager
  PROVE  LauncherInv'
<1>1. TypeOK'
  BY DEF LauncherInv, EnsureServiceManager, CleanUp, Started, Goto, TypeOK, Steps,
         Children, world, signals
<1>2. SignalFacts'
  BY DEF LauncherInv, EnsureServiceManager, SignalFacts, Cleaning, Alive, Is, signals
<1>3. Known'
  BY DEF LauncherInv, EnsureServiceManager, Known, Ours, Unknown, CutUnknown, Alive, Is,
         signals
<1>4. Behind'
  BY DEF EnsureServiceManager, CleanUp, Started, Goto, Behind, Beyond, Stale, Exited,
         Children, Is
<1>5. PidFacts'
  BY DEF LauncherInv, EnsureServiceManager, CleanUp, Started, Goto, PidFacts, Stale,
         CutStale, Children, Is, signals
<1>6. NameFacts'
  BY DEF LauncherInv, EnsureServiceManager, CleanUp, Started, Goto, NameFacts,
         RegisteredFirst, Is, world
<1> QED
  BY <1>1, <1>2, <1>3, <1>4, <1>5, <1>6 DEF LauncherInv

\* gOwnServiceManager closes the window of servicemanager.
LEMMA OwnInv ==
  ASSUME LauncherInv, Own
  PROVE  LauncherInv'
<1>1. TypeOK'
  BY DEF LauncherInv, Own, Goto, TypeOK, Steps, Children, world, signals
<1>2. SignalFacts'
  BY DEF LauncherInv, Own, SignalFacts, Cleaning, Alive, Is, signals
<1>3. Known'
  BY DEF LauncherInv, Own, Known, PidFacts, Ours, Unknown, CutUnknown, Alive, Is,
         signals
<1>4. Behind'
  BY DEF Own, Goto, Behind, Beyond, Stale, Exited, Is
<1>5. PidFacts'
  BY DEF LauncherInv, Own, Goto, PidFacts, Stale, CutStale, Is, signals
<1>6. NameFacts'
  BY DEF LauncherInv, Own, Goto, NameFacts, RegisteredFirst, Is, world
<1> QED
  BY <1>1, <1>2, <1>3, <1>4, <1>5, <1>6 DEF LauncherInv

\* defaultServiceManager() changes no child.
LEMMA ConnectInv ==
  ASSUME LauncherInv, Connect
  PROVE  LauncherInv'
<1>1. TypeOK'
  BY DEF LauncherInv, Connect, Goto, TypeOK, Steps, Children, world, signals
<1>2. SignalFacts'
  BY DEF LauncherInv, Connect, SignalFacts, Cleaning, Alive, Is, signals
<1>3. Known'
  BY DEF LauncherInv, Connect, Known, Ours, Unknown, CutUnknown, Alive, Is, signals
<1>4. Behind'
  BY DEF Connect, Goto, Behind, Beyond, Stale, Exited, Is
<1>5. PidFacts'
  BY DEF LauncherInv, Connect, Goto, PidFacts, Stale, CutStale, Is, signals
<1>6. NameFacts'
  BY DEF LauncherInv, Connect, Goto, NameFacts, RegisteredFirst, Is, world
<1> QED
  BY <1>1, <1>2, <1>3, <1>4, <1>5, <1>6 DEF LauncherInv

\* A child that wait() reaped is stale until Forget.
LEMMA WaitInv ==
  ASSUME LauncherInv, Wait
  PROVE  LauncherInv'
<1>1. TypeOK'
  BY DEF LauncherInv, Wait, Goto, CleanUp, TypeOK, Steps, Children, world, signals
<1>2. SignalFacts'
  BY DEF LauncherInv, Wait, SignalFacts, TypeOK, Cleaning, Alive, Is, signals
<1>3. Known'
  BY DEF LauncherInv, Wait, Known, TypeOK, Ours, Unknown, CutUnknown, Alive, Is, signals
<1>4. Behind'
  BY DEF LauncherInv, Wait, Goto, Behind, TypeOK, Beyond, Stale, Alive, Exited,
         Children, Is
<1>5. PidFacts'
  BY DEF LauncherInv, Wait, Goto, CleanUp, PidFacts, TypeOK, Stale, CutStale, Is,
         signals
<1>6. NameFacts'
  BY DEF LauncherInv, Wait, NameFacts, RegisteredFirst, Services, world
<1> QED
  BY <1>1, <1>2, <1>3, <1>4, <1>5, <1>6 DEF LauncherInv

\* fork() opens the window; no signal is pending then.
LEMMA ForkInv ==
  ASSUME LauncherInv, NEW c \in Children, Fork(c)
  PROVE  LauncherInv'
<1>1. TypeOK'
  BY DEF LauncherInv, Fork, Goto, TypeOK, Steps, world, signals
<1>2. SignalFacts'
  BY DEF LauncherInv, Fork, SignalFacts, Cleaning, Is, signals
<1>3. Known'
  BY DEF LauncherInv, Fork, Goto, Known, Ours, Unknown, CutUnknown, Alive, Is, signals
<1>4. Behind'
  BY DEF Fork, Goto, Behind, Beyond, Stale, Exited, Is
<1>5. PidFacts'
  BY DEF LauncherInv, Fork, Goto, PidFacts, TypeOK, Stale, CutStale, Is, signals
<1>6. NameFacts'
  BY DEF LauncherInv, Fork, Goto, NameFacts, RegisteredFirst, Is, world
<1> QED
  BY <1>1, <1>2, <1>3, <1>4, <1>5, <1>6 DEF LauncherInv

\* A failed fork() leaves no child.
LEMMA ForkFailsInv ==
  ASSUME LauncherInv, NEW c \in Children, ForkFails(c)
  PROVE  LauncherInv'
<1>1. TypeOK'
  BY DEF LauncherInv, ForkFails, CleanUp, Goto, TypeOK, Steps, Children, world, signals
<1>2. SignalFacts'
  BY DEF LauncherInv, ForkFails, CleanUp, Goto, SignalFacts, Cleaning, Alive, signals
<1>3. Known'
  BY DEF LauncherInv, ForkFails, Known, Ours, Unknown, CutUnknown, Alive, Is, signals
<1>4. Behind'
  BY DEF ForkFails, CleanUp, Goto, Behind, Beyond, Stale, Exited, Is
<1>5. PidFacts'
  BY DEF LauncherInv, ForkFails, CleanUp, Goto, PidFacts, Stale, CutStale, Is, signals
<1>6. NameFacts'
  BY DEF LauncherInv, ForkFails, CleanUp, Goto, NameFacts, RegisteredFirst, Is, world
<1> QED
  BY <1>1, <1>2, <1>3, <1>4, <1>5, <1>6 DEF LauncherInv

\* The pid is a living or dead child's, never -1.
LEMMA StoreInv ==
  ASSUME LauncherInv, NEW c \in Children, Store(c)
  PROVE  LauncherInv'
<1>1. TypeOK'
  BY DEF LauncherInv, Store, Goto, TypeOK, PidFacts, Steps, world, signals
<1>2. SignalFacts'
  BY DEF LauncherInv, Store, SignalFacts, Cleaning, Alive, Is, signals
<1>3. Known'
  BY DEF LauncherInv, Store, Goto, Known, TypeOK, Ours, Unknown, CutUnknown, Alive, Is,
         signals
<1>4. Behind'
  BY DEF Store, Goto, Behind, Beyond, Stale, Exited, Is
<1>5. PidFacts'
  BY DEF LauncherInv, Store, Goto, PidFacts, TypeOK, Stale, CutStale, Is, signals
<1>6. NameFacts'
  BY DEF LauncherInv, Store, Goto, NameFacts, RegisteredFirst, Is, world
<1> QED
  BY <1>1, <1>2, <1>3, <1>4, <1>5, <1>6 DEF LauncherInv

\* A child that stillAlive() reaped is stale until Forget.
LEMMA PollInv ==
  ASSUME LauncherInv, NEW c \in Children, Poll(c)
  PROVE  LauncherInv'
<1>1. TypeOK'
  BY DEF LauncherInv, Poll, Goto, TypeOK, Steps, world, signals
<1>2. SignalFacts'
  BY DEF LauncherInv, Poll, SignalFacts, TypeOK, Cleaning, Alive, Is, signals
<1>3. Known'
  BY DEF LauncherInv, Poll, Known, TypeOK, Ours, Unknown, CutUnknown, Alive, Is, signals
<1>4. Behind'
  BY DEF LauncherInv, Poll, Goto, Behind, TypeOK, Beyond, Stale, Alive, Exited,
         Children, Is
<1>5. PidFacts'
  BY DEF LauncherInv, Poll, Goto, PidFacts, TypeOK, Stale, CutStale, Children, Is,
         signals
<1>6. NameFacts'
  BY DEF LauncherInv, Poll, Goto, NameFacts, TypeOK, RegisteredFirst, Children, Is,
         world
<1> QED
  BY <1>1, <1>2, <1>3, <1>4, <1>5, <1>6 DEF LauncherInv

\* What is forgotten was reaped.
LEMMA ForgetInv ==
  ASSUME LauncherInv, NEW c \in Children, Forget(c)
  PROVE  LauncherInv'
<1>1. TypeOK'
  BY DEF LauncherInv, Forget, Goto, CleanUp, TypeOK, Steps, Children, world, signals
<1>2. SignalFacts'
  BY DEF LauncherInv, Forget, Goto, CleanUp, SignalFacts, Cleaning, Alive, signals
<1>3. Known'
  BY DEF LauncherInv, Forget, Known, Ours, Unknown, CutUnknown, Behind, Stale, Alive,
         Is, signals
<1>4. Behind'
  BY DEF Forget, Goto, CleanUp, Behind, Beyond, Stale, Exited, Is
<1>5. PidFacts'
  BY DEF LauncherInv, Forget, Goto, CleanUp, PidFacts, TypeOK, Stale, CutStale, Is,
         signals
<1>6. NameFacts'
  BY DEF LauncherInv, Forget, Goto, CleanUp, NameFacts, RegisteredFirst, Is, world
<1> QED
  BY <1>1, <1>2, <1>3, <1>4, <1>5, <1>6 DEF LauncherInv

\* A name that was found was claimed.
LEMMA ProbeInv ==
  ASSUME LauncherInv, NEW c \in Children, Probe(c)
  PROVE  LauncherInv'
<1>1. TypeOK'
  BY DEF LauncherInv, Probe, Goto, Started, CleanUp, TypeOK, Steps, Children, world,
         signals
<1>2. SignalFacts'
  BY DEF LauncherInv, Probe, SignalFacts, Cleaning, Alive, Is, signals
<1>3. Known'
  BY DEF LauncherInv, Probe, Known, Ours, Unknown, CutUnknown, Alive, Is, signals
<1>4. Behind'
  BY DEF Probe, Goto, Started, CleanUp, Behind, Beyond, Stale, Exited, Children, Is
<1>5. PidFacts'
  BY DEF LauncherInv, Probe, Goto, Started, CleanUp, PidFacts, Stale, CutStale,
         Children, Is, signals
<1>6. NameFacts'
  BY DEF LauncherInv, Probe, Goto, Found, Started, CleanUp, NameFacts, RegisteredFirst,
         Children, Services, Is, world
<1> QED
  BY <1>1, <1>2, <1>3, <1>4, <1>5, <1>6 DEF LauncherInv

\* terminate() dooms a child it knows of, or passes over one that is not known.
LEMMA KillInv ==
  ASSUME LauncherInv, NEW c \in Children, Kill(c)
  PROVE  LauncherInv'
<1>1. TypeOK'
  <2>1. stray' \in BOOLEAN
    <3>1. CASE Ours(c)
      BY <3>1, Zenon DEF Kill
    <3>2. CASE ~Ours(c)
      BY <3>2, Zenon DEF Kill, LauncherInv, TypeOK
    <3> QED
      BY <3>1, <3>2
  <2>2. at' \in Steps \X (Children \cup {"any"})
    BY DEF Kill, Goto, After, Steps, Children
  <2>3. doomed' \subseteq Children
    BY DEF LauncherInv, TypeOK, Kill
  <2> QED
    BY <2>1, <2>2, <2>3 DEF LauncherInv, TypeOK, Kill, world, signals
<1>2. SignalFacts'
  BY DEF LauncherInv, Kill, Goto, After, SignalFacts, Cleaning, Alive, signals
<1>3. Known'
  BY DEF LauncherInv, Kill, Ours, Known, Unknown, CutUnknown, Alive, Is, signals
<1>4. Behind'
  BY DEF LauncherInv, Kill, Goto, After, Behind, Known, Beyond, Unknown, Stale,
         CutUnknown, Alive, Exited, Children, Services, Is, signals
<1>5. PidFacts'
  BY DEF LauncherInv, Kill, Goto, After, Ours, PidFacts, TypeOK, Stale, CutStale,
         Children, Is, signals
<1>6. NameFacts'
  BY DEF LauncherInv, Kill, Goto, After, NameFacts, RegisteredFirst, Is, world
<1> QED
  BY <1>1, <1>2, <1>3, <1>4, <1>5, <1>6 DEF LauncherInv

\* waitpid() returns when the child is dead.
LEMMA ReapInv ==
  ASSUME LauncherInv, NEW c \in Children, Reap(c)
  PROVE  LauncherInv'
<1>1. TypeOK'
  BY DEF LauncherInv, Reap, Goto, TypeOK, Steps, world, signals
<1>2. SignalFacts'
  BY DEF LauncherInv, Reap, Goto, SignalFacts, Cleaning, Alive, signals
<1>3. Known'
  BY DEF LauncherInv, Reap, Known, Ours, Unknown, CutUnknown, Alive, Is, signals
<1>4. Behind'
  BY DEF LauncherInv, Reap, Goto, Behind, TypeOK, Beyond, Stale, CutUnknown, Alive,
         Exited, Is, signals
<1>5. PidFacts'
  BY DEF LauncherInv, Reap, Goto, PidFacts, Stale, CutStale, Is, signals
<1>6. NameFacts'
  BY DEF LauncherInv, Reap, Goto, NameFacts, TypeOK, PidFacts, RegisteredFirst, Is,
         world
<1> QED
  BY <1>1, <1>2, <1>3, <1>4, <1>5, <1>6 DEF LauncherInv

\* What is cleared was reaped.
LEMMA ClearInv ==
  ASSUME LauncherInv, NEW c \in Children, Clear(c)
  PROVE  LauncherInv'
<1>1. TypeOK'
  BY DEF LauncherInv, Clear, Goto, After, TypeOK, Steps, Children, world, signals
<1>2. SignalFacts'
  BY DEF LauncherInv, Clear, Goto, After, SignalFacts, Cleaning, Alive, signals
<1>3. Known'
  BY DEF LauncherInv, Clear, Known, Ours, Unknown, CutUnknown, Behind, Stale, Alive, Is,
         signals
<1>4. Behind'
  BY DEF LauncherInv, Clear, Goto, After, Behind, Beyond, Stale, CutUnknown, Alive,
         Exited, Children, Services, Is, signals
<1>5. PidFacts'
  BY DEF LauncherInv, Clear, Goto, After, PidFacts, TypeOK, Stale, CutStale, Children,
         Is, signals
<1>6. NameFacts'
  BY DEF LauncherInv, Clear, Goto, After, NameFacts, RegisteredFirst, Is, world
<1> QED
  BY <1>1, <1>2, <1>3, <1>4, <1>5, <1>6 DEF LauncherInv

\* Ctrl+C dooms every living child.
LEMMA SendInv ==
  ASSUME LauncherInv, NEW sig \in Signals, Send(sig)
  PROVE  LauncherInv'
<1>1. TypeOK'
  BY DEF LauncherInv, Send, TypeOK, manager, world
<1>2. SignalFacts'
  BY DEF LauncherInv, Send, SignalFacts, Alive, manager
<1>3. Known'
  BY DEF LauncherInv, Send, Known, Ours, Unknown, CutUnknown, Alive, Is, manager
<1>4. Behind'
  BY DEF LauncherInv, Send, Behind, Beyond, Stale, CutUnknown, Alive, Exited, Is,
         manager
<1>5. PidFacts'
  BY DEF LauncherInv, Send, PidFacts, Stale, CutStale, Is, manager
<1>6. NameFacts'
  BY DEF LauncherInv, Send, NameFacts, RegisteredFirst, Is, manager, world
<1> QED
  BY <1>1, <1>2, <1>3, <1>4, <1>5, <1>6 DEF LauncherInv

\* A handler starts cleanup() over and remembers what it interrupted.
LEMMA OnSignalInv ==
  ASSUME LauncherInv, NEW sig \in Signals, OnSignal(sig)
  PROVE  LauncherInv'
<1>1. TypeOK'
  BY DEF LauncherInv, OnSignal, Goto, CleanUp, TypeOK, Steps, Children, world
<1>2. SignalFacts'
  BY DEF LauncherInv, OnSignal, Goto, CleanUp, SignalFacts, Cleaning, Alive
<1>3. Known'
  BY DEF LauncherInv, OnSignal, Known, Ours, Unknown, CutUnknown, Alive, Is
<1>4. Behind'
  BY DEF OnSignal, Goto, CleanUp, Behind, Beyond, Stale, Exited, Is
<1>5. PidFacts'
  BY DEF LauncherInv, OnSignal, Goto, CleanUp, PidFacts, Stale, CutStale, Is
<1>6. NameFacts'
  BY DEF LauncherInv, OnSignal, Goto, CleanUp, NameFacts, RegisteredFirst, Is, world
<1> QED
  BY <1>1, <1>2, <1>3, <1>4, <1>5, <1>6 DEF LauncherInv

\* A child dies of its signal.
LEMMA KilledInv ==
  ASSUME LauncherInv, NEW c \in Children, Killed(c)
  PROVE  LauncherInv'
<1>1. TypeOK'
  BY DEF LauncherInv, Killed, Die, TypeOK, manager, signals
<1>2. SignalFacts'
  BY DEF LauncherInv, Killed, Die, SignalFacts, TypeOK, Alive, manager, signals
<1>3. Known'
  BY DEF LauncherInv, Killed, Die, Known, Ours, Unknown, CutUnknown, Alive, Is, manager,
         signals
<1>4. Behind'
  BY DEF LauncherInv, Killed, Die, Behind, TypeOK, Beyond, Stale, CutUnknown, Alive,
         Exited, Is, manager, signals
<1>5. PidFacts'
  BY DEF LauncherInv, Killed, Die, PidFacts, Stale, CutStale, Is, manager, signals
<1>6. NameFacts'
  BY DEF LauncherInv, Killed, Die, NameFacts, RegisteredFirst, Alive, Is, manager
<1> QED
  BY <1>1, <1>2, <1>3, <1>4, <1>5, <1>6 DEF LauncherInv

\* A child that dies needs no signal.
LEMMA CrashInv ==
  ASSUME LauncherInv, NEW c \in Children, Crash(c)
  PROVE  LauncherInv'
<1>1. TypeOK'
  BY LauncherAssumption DEF LauncherInv, Crash, Die, TypeOK, manager, signals
<1>2. SignalFacts'
  BY DEF LauncherInv, Crash, Die, SignalFacts, TypeOK, Alive, manager, signals
<1>3. Known'
  BY DEF LauncherInv, Crash, Die, Known, Ours, Unknown, CutUnknown, Alive, Is, manager,
         signals
<1>4. Behind'
  BY DEF LauncherInv, Crash, Die, Behind, TypeOK, Beyond, Stale, CutUnknown, Alive,
         Exited, Is, manager, signals
<1>5. PidFacts'
  BY DEF LauncherInv, Crash, Die, PidFacts, Stale, CutStale, Is, manager, signals
<1>6. NameFacts'
  BY DEF LauncherInv, Crash, Die, NameFacts, RegisteredFirst, Alive, Is, manager
<1> QED
  BY <1>1, <1>2, <1>3, <1>4, <1>5, <1>6 DEF LauncherInv

\* exec leaves a child as doomed as it was.
LEMMA ExecInv ==
  ASSUME LauncherInv, NEW c \in Children, Exec(c)
  PROVE  LauncherInv'
<1>1. TypeOK'
  BY DEF LauncherInv, Exec, TypeOK, manager, world, signals
<1>2. SignalFacts'
  BY DEF LauncherInv, Exec, SignalFacts, Alive, manager, signals
<1>3. Known'
  BY DEF LauncherInv, Exec, Known, Ours, Unknown, CutUnknown, Alive, Is, manager,
         signals
<1>4. Behind'
  BY DEF LauncherInv, Exec, Behind, TypeOK, Beyond, Stale, CutUnknown, Alive, Exited,
         Is, manager, signals
<1>5. PidFacts'
  BY DEF LauncherInv, Exec, PidFacts, Stale, CutStale, Is, manager, signals
<1>6. NameFacts'
  BY DEF LauncherInv, Exec, NameFacts, RegisteredFirst, Is, manager, world
<1> QED
  BY <1>1, <1>2, <1>3, <1>4, <1>5, <1>6 DEF LauncherInv

\* servicemanager takes the slot or exits.
LEMMA ServeInv ==
  ASSUME LauncherInv, Serve
  PROVE  LauncherInv'
<1>1. TypeOK'
  <2>1. CASE slot = "none" /\ slot' = "ours" /\ UNCHANGED <<proc, doomed, entry>>
    BY <2>1 DEF LauncherInv, TypeOK, Serve, manager, signals
  <2>2. CASE slot = "foreign" /\ Die("sm") /\ doomed' = doomed \ {"sm"}
    <3>1. slot' = "foreign" /\ entry' = [s \in Services |-> entry[s]]
      BY <2>2 DEF Die
    <3>2. entry' \in [Services -> {"none", "other", "ours"}]
      BY <3>1 DEF LauncherInv, TypeOK
    <3>3. /\ proc' \in [Children -> {"none", "forked", "running", "zombie", "gone"}]
          /\ \A c \in Children : pid[c] => proc'[c] # "none"
      BY <2>2 DEF LauncherInv, TypeOK, Die, Children
    <3> QED
      BY <2>2, <3>1, <3>2, <3>3 DEF LauncherInv, TypeOK, Serve, manager, signals
  <2> QED
    BY <2>1, <2>2 DEF Serve
<1>2. SignalFacts'
  BY DEF LauncherInv, Serve, Die, SignalFacts, TypeOK, Alive, manager, signals
<1>3. Known'
  BY DEF LauncherInv, Serve, Die, Known, TypeOK, Ours, Unknown, CutUnknown, Alive, Is,
         manager, signals
<1>4. Behind'
  BY DEF LauncherInv, Serve, Die, Behind, TypeOK, Beyond, Stale, CutUnknown, Alive,
         Exited, Children, Is, manager, signals
<1>5. PidFacts'
  BY DEF LauncherInv, Serve, Die, PidFacts, TypeOK, Stale, CutStale, Children, Is,
         manager, signals
<1>6. NameFacts'
  BY DEF LauncherInv, Serve, Die, NameFacts, TypeOK, RegisteredFirst, Children, Is,
         manager
<1> QED
  BY <1>1, <1>2, <1>3, <1>4, <1>5, <1>6 DEF LauncherInv

\* A registered name is claimed.
LEMMA RegisterInv ==
  ASSUME LauncherInv, NEW c \in Children, Register(c)
  PROVE  LauncherInv'
<1>1. TypeOK'
  BY DEF LauncherInv, Register, TypeOK, manager, signals
<1>2. SignalFacts'
  BY DEF LauncherInv, Register, SignalFacts, Alive, manager, signals
<1>3. Known'
  BY DEF LauncherInv, Register, Known, Ours, Unknown, CutUnknown, Alive, Is, manager,
         signals
<1>4. Behind'
  BY DEF LauncherInv, Register, Behind, Beyond, Stale, CutUnknown, Alive, Exited, Is,
         manager, signals
<1>5. PidFacts'
  BY DEF LauncherInv, Register, PidFacts, Stale, CutStale, Is, manager, signals
<1>6. NameFacts'
  BY DEF LauncherInv, Register, NameFacts, RegisteredFirst, Is, manager
<1> QED
  BY <1>1, <1>2, <1>3, <1>4, <1>5, <1>6 DEF LauncherInv

\* A name stays claimed.
LEMMA UnregisterInv ==
  ASSUME LauncherInv, NEW c \in Children, Unregister(c)
  PROVE  LauncherInv'
<1>1. TypeOK'
  BY DEF LauncherInv, Unregister, TypeOK, manager, signals
<1>2. SignalFacts'
  BY DEF LauncherInv, Unregister, SignalFacts, Alive, manager, signals
<1>3. Known'
  BY DEF LauncherInv, Unregister, Known, Ours, Unknown, CutUnknown, Alive, Is, manager,
         signals
<1>4. Behind'
  BY DEF LauncherInv, Unregister, Behind, Beyond, Stale, CutUnknown, Alive, Exited, Is,
         manager, signals
<1>5. PidFacts'
  BY DEF LauncherInv, Unregister, PidFacts, Stale, CutStale, Is, manager, signals
<1>6. NameFacts'
  BY DEF LauncherInv, Unregister, NameFacts, RegisteredFirst, Is, manager
<1> QED
  BY <1>1, <1>2, <1>3, <1>4, <1>5, <1>6 DEF LauncherInv

\* A stranger's servicemanager touches no child.
LEMMA ForeignInv ==
  ASSUME LauncherInv, Foreign
  PROVE  LauncherInv'
<1>1. TypeOK'
  BY LauncherAssumption DEF LauncherInv, Foreign, TypeOK, manager, signals
<1>2. SignalFacts'
  BY DEF LauncherInv, Foreign, SignalFacts, Alive, manager, signals
<1>3. Known'
  BY DEF LauncherInv, Foreign, Known, Ours, Unknown, CutUnknown, Alive, Is, manager,
         signals
<1>4. Behind'
  BY DEF LauncherInv, Foreign, Behind, Beyond, Stale, CutUnknown, Alive, Exited, Is,
         manager, signals
<1>5. PidFacts'
  BY DEF LauncherInv, Foreign, PidFacts, Stale, CutStale, Is, manager, signals
<1>6. NameFacts'
  BY DEF LauncherInv, Foreign, NameFacts, RegisteredFirst, Is, manager
<1> QED
  BY <1>1, <1>2, <1>3, <1>4, <1>5, <1>6 DEF LauncherInv

\* LauncherInv is inductive: every step of the manager, of a child, of the kernel
\* and of a stranger keeps it.
THEOREM LauncherInvariant == Spec => []LauncherInv
<1>1. Init => LauncherInv
  BY InitInv
<1>2. ASSUME LauncherInv, [Next]_vars PROVE LauncherInv'
  <2>1. CASE Manager
    BY <1>2, <2>1, EnsureServiceManagerInv, OwnInv, ConnectInv, WaitInv, ForkInv,
       ForkFailsInv, StoreInv, PollInv, ForgetInv, ProbeInv, KillInv, ReapInv, ClearInv
       DEF Manager
  <2>2. CASE \E sig \in Signals : Send(sig) \/ OnSignal(sig)
    BY <1>2, <2>2, SendInv, OnSignalInv
  <2>3. CASE \E c \in Children : Killed(c) \/ Crash(c) \/ Exec(c) \/ Register(c) \/ Unregister(c)
    BY <1>2, <2>3, KilledInv, CrashInv, ExecInv, RegisterInv, UnregisterInv
  <2>4. CASE Serve \/ Foreign
    BY <1>2, <2>4, ServeInv, ForeignInv
  <2>5. CASE UNCHANGED vars
    BY <1>2, <2>5 DEF LauncherInv, TypeOK, SignalFacts, Known, Behind, PidFacts, NameFacts,
       RegisteredFirst, Unknown, Stale, CutUnknown, CutStale, Beyond, Alive, Ours, Exited, Is,
       vars, manager, world, signals
  <2> QED
    BY <1>2, <2>1, <2>2, <2>3, <2>4, <2>5 DEF Next, Over
<1> QED
  BY <1>1, <1>2, PTL DEF Spec

\* Types, and that -1 is never stored as a pid, in every reachable state.
THEOREM LauncherTypeCorrect == Spec => []TypeOK
<1>1. LauncherInv => TypeOK
  BY DEF LauncherInv
<1> QED
  BY <1>1, LauncherInvariant, PTL

\* cleanup(): when the manager is gone, every child is dead or about to die,
\* except one whose window between fork() and the stores a SIGTERM fell into.
THEOREM LauncherNoOrphans == Spec => []NoOrphans
<1>1. LauncherInv => NoOrphans
  <2> SUFFICES ASSUME LauncherInv, Exited, NEW c \in Children, Alive(c), c \notin doomed
               PROVE  "TERM" \in blocked /\ cut \cap {<<"store", c>>, <<"own", c>>} # {}
    BY DEF NoOrphans
  <2>1. CutUnknown(c)
    BY DEF LauncherInv, Behind, Beyond
  <2>2. blocked # {} /\ "INT" \notin blocked
    BY <2>1 DEF LauncherInv, SignalFacts, CutUnknown
  <2>3. "TERM" \in blocked
    <3>1. blocked \subseteq {"INT", "TERM"}
      BY LauncherAssumption DEF LauncherInv, TypeOK
    <3> QED
      BY <2>2, <3>1, Zenon
  <2> QED
    BY <2>1, <2>3 DEF CutUnknown
<1> QED
  BY <1>1, LauncherInvariant, PTL

\* terminate(): a reaped pid is signalled only if a handler fell between waitpid()
\* and the reset of the variable.
THEOREM LauncherNoStrayKill == Spec => []NoStrayKill
<1>1. LauncherInv => NoStrayKill
  <2> SUFFICES ASSUME LauncherInv, stray
               PROVE  \E c \in Children : cut \cap {<<"forget", c>>, <<"clear", c>>} # {}
    BY DEF NoStrayKill
  <2>1. PICK c \in Children : CutStale(c)
    BY DEF LauncherInv, PidFacts
  <2> QED
    BY <2>1 DEF CutStale
<1> QED
  BY <1>1, LauncherInvariant, PTL

\* startService(): the download service is forked, and the manager settles down,
\* only after the names were registered.
THEOREM LauncherRegisteredFirst == Spec => []RegisteredFirst
<1>1. LauncherInv => RegisteredFirst
  BY DEF LauncherInv, NameFacts
<1> QED
  BY <1>1, LauncherInvariant, PTL
===============================================================================
