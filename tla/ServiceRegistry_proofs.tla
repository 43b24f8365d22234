------------------------- MODULE ServiceRegistry_proofs -------------------------
(***************************************************************************)
(* ServiceRegistry for any processes, names and manifests: a callback in   *)
(* place was last sent the current binder, a service that is in use is     *)
(* not unregistered, and the generated stubs carry every call.             *)
(***************************************************************************)
EXTENDS ServiceRegistry, FiniteSetTheorems, TLAPS

\* Inductive as it stands.
RegistryInv == RegistryTypeOK /\ NotifiedOfCurrent

USE DEF None

\* The empty tables.
LEMMA InitInv == Init => RegistryInv
  BY DEF Init, RegistryInv, RegistryTypeOK, NotifiedOfCurrent

\* A proxy keeps a link only to binders of the tables.
LEMMA RelinkType ==
  ASSUME RegistryTypeOK, NEW new \in SUBSET (Procs \X Roles), Relink(new)
  PROVE  linked' \subseteq Procs \X Roles
  BY DEF RegistryTypeOK, Relink

\* References are pairs of processes.
LEMMA ReceiveType ==
  ASSUME RegistryTypeOK, NEW ps \in SUBSET Procs, NEW o \in Procs, Receive(ps, o)
  PROVE  holds' \subseteq Procs \X Procs
  BY DEF RegistryTypeOK, Receive

\* Setting guaranteeClient leaves every binder where it is.
LEMMA GuaranteeKeeps ==
  ASSUME RegistryTypeOK, NEW name \in Names, svc[name] # None, Guarantee(name)
  PROVE  /\ svc' \in [Names -> Entry \cup {None}]
         /\ \A n \in Names : svc'[n] # None => svc[n] # None /\ svc'[n].binder = svc[n].binder
<1>1. svc[name] \in Entry
  BY DEF RegistryTypeOK
<1>2. [svc[name] EXCEPT !.guaranteeClient = TRUE] \in Entry
  BY <1>1 DEF Entry
<1>3. svc' = [svc EXCEPT ![name] = [svc[name] EXCEPT !.guaranteeClient = TRUE]]
  BY DEF Guarantee
<1>4. svc'[name].binder = svc[name].binder
  BY <1>1, <1>3 DEF RegistryTypeOK, Entry
<1> QED
  BY <1>2, <1>3, <1>4 DEF RegistryTypeOK

\* What a hand-out may add is the hand-out.
LEMMA OwedForIs ==
  ASSUME NEW s, NEW name \in Names, NEW method \in HandOuts, NEW ps
  PROVE  /\ OwedFor(s, name, method, ps) \subseteq {<<name, method>>}
         /\ OwedFor(s, name, method, ps) \subseteq Names \X HandOuts
         /\ s.hasClients \/ ps = {} => OwedFor(s, name, method, ps) = {}
BY DEF OwedFor

\* getService() and checkService().
LEMMA GetServiceInv ==
  ASSUME RegistryInv, NEW c \in Procs, NEW name \in Names, getService(c, name),
         UNCHANGED <<uid, dead>>
  PROVE  RegistryInv'
<1>1. svc[name] # None
  BY DEF getService, Found
<1>2. svc[name] \in Entry /\ svc[name].binder \in Procs
  BY <1>1 DEF RegistryInv, RegistryTypeOK, Entry
<1>3. holds' \subseteq Procs \X Procs
  BY <1>2, ReceiveType DEF getService, RegistryInv
<1>4. owed' \subseteq Names \X HandOuts
  BY OwedForIs DEF getService, HandOuts, RegistryInv, RegistryTypeOK
<1> QED
  BY <1>1, <1>3, <1>4, GuaranteeKeeps
     DEF getService, RegistryInv, RegistryTypeOK, NotifiedOfCurrent

\* addService() tells every callback of the name.
LEMMA AddServiceInv ==
  ASSUME RegistryInv, NEW c \in Procs, NEW name \in Names, NEW b \in Procs,
         NEW allowIsolated \in BOOLEAN, addService(c, name, b, allowIsolated),
         UNCHANGED <<uid, dead>>
  PROVE  RegistryInv'
<1>1. (regs[name] # {}) \in BOOLEAN
  OBVIOUS
<1>2. NewService(c, b, allowIsolated, regs[name] # {}) \in Entry
  BY <1>1 DEF NewService, Entry
<1>3. NewService(c, b, allowIsolated, regs[name] # {}).binder = b
  BY DEF NewService
<1>4. svc' \in [Names -> Entry \cup {None}]
  BY <1>2 DEF addService, RegistryInv, RegistryTypeOK
<1>5. holds' \subseteq Procs \X Procs
  BY ReceiveType DEF addService, RegistryInv, RegistryTypeOK
<1>6. linked' \subseteq Procs \X Roles
  BY RelinkType DEF addService, RegistryInv, Roles
<1>7. news' \in [Procs -> [Names -> Procs \cup {None}]]
  BY DEF addService, RegistryInv, RegistryTypeOK
<1>8. owed' \subseteq Names \X HandOuts
  BY OwedForIs DEF addService, OwedBut, HandOuts, RegistryInv, RegistryTypeOK
<1>9. NotifiedOfCurrent'
  <2> SUFFICES ASSUME NEW n \in Names, NEW p \in regs[n] \ dead, svc'[n] # None
               PROVE  news'[p][n] = svc'[n].binder
    BY DEF NotifiedOfCurrent, addService
  <2>1. p \in Procs
    BY DEF RegistryInv, RegistryTypeOK
  <2>2. CASE n = name
    <3>1. svc'[n].binder = b
      BY <2>2, <1>3 DEF addService, RegistryInv, RegistryTypeOK
    <3>2. news'[p][n] = b
      BY <2>1, <2>2 DEF addService, RegistryInv, RegistryTypeOK
    <3> QED
      BY <3>1, <3>2
  <2>3. CASE n # name
    <3>1. svc'[n] = svc[n]
      BY <2>3 DEF addService, RegistryInv, RegistryTypeOK
    <3>2. news'[p][n] = news[p][n]
      BY <2>1, <2>3 DEF addService, RegistryInv, RegistryTypeOK
    <3> QED
      BY <3>1, <3>2 DEF RegistryInv, NotifiedOfCurrent
  <2> QED
    BY <2>2, <2>3
<1> QED
  BY <1>4, <1>5, <1>6, <1>7, <1>8, <1>9 DEF addService, RegistryInv, RegistryTypeOK

\* registerForNotifications() tells the new callback of a service that is there.
LEMMA RegisterInv ==
  ASSUME RegistryInv, NEW c \in Procs, NEW name \in Names, registerForNotifications(c, name),
         UNCHANGED <<uid, dead>>
  PROVE  RegistryInv'
<1>1. linked' \subseteq Procs \X Roles
  BY RelinkType DEF registerForNotifications, RegistryInv, Roles
<1>2. regs' \in [Names -> SUBSET Procs]
  BY DEF registerForNotifications, RegistryInv, RegistryTypeOK
<1>3. CASE svc[name] = None
  BY <1>1, <1>2, <1>3
     DEF registerForNotifications, TellPresent, RegistryInv, RegistryTypeOK, NotifiedOfCurrent
<1>4. CASE svc[name] # None
  <2>1. svc[name].binder \in Procs
    BY <1>4 DEF RegistryInv, RegistryTypeOK, Entry
  <2>2. holds' \subseteq Procs \X Procs
    BY <1>4, <2>1, ReceiveType DEF registerForNotifications, TellPresent, RegistryInv
  <2>3. news' = [news EXCEPT ![c][name] = svc[name].binder]
    BY <1>4 DEF registerForNotifications, TellPresent
  <2>4. news' \in [Procs -> [Names -> Procs \cup {None}]]
    BY <2>1, <2>3 DEF RegistryInv, RegistryTypeOK
  <2>5. NotifiedOfCurrent'
    <3> SUFFICES ASSUME NEW n \in Names, NEW p \in regs'[n] \ dead, svc[n] # None
                 PROVE  news'[p][n] = svc[n].binder
      BY DEF NotifiedOfCurrent, registerForNotifications
    <3>1. p \in Procs
      BY <1>2
    <3>2. CASE p = c /\ n = name
      BY <2>3, <3>1, <3>2 DEF RegistryInv, RegistryTypeOK
    <3>3. CASE ~ (p = c /\ n = name)
      <4>1. p \in regs[n]
        BY <3>3 DEF registerForNotifications, RegistryInv, RegistryTypeOK
      <4>2. news'[p][n] = news[p][n]
        BY <2>3, <3>1, <3>3 DEF RegistryInv, RegistryTypeOK
      <4> QED
        BY <4>1, <4>2 DEF RegistryInv, NotifiedOfCurrent
    <3> QED
      BY <3>2, <3>3
  <2>6. owed' \subseteq Names \X HandOuts
    BY <1>4, OwedForIs DEF registerForNotifications, TellPresent, HandOuts, RegistryInv, RegistryTypeOK
  <2> QED
    BY <1>1, <1>2, <2>2, <2>4, <2>5, <2>6 DEF registerForNotifications, RegistryInv, RegistryTypeOK
<1> QED
  BY <1>3, <1>4

\* unregisterForNotifications().
LEMMA UnregisterInv ==
  ASSUME RegistryInv, NEW c \in Procs, NEW name \in Names, unregisterForNotifications(c, name),
         UNCHANGED <<uid, dead>>
  PROVE  RegistryInv'
<1>1. linked' \subseteq Procs \X Roles
  BY RelinkType DEF unregisterForNotifications, RegistryInv
<1> QED
  BY <1>1 DEF unregisterForNotifications, RegistryInv, RegistryTypeOK, NotifiedOfCurrent

\* registerClientCallback().
LEMMA ClientCallbackInv ==
  ASSUME RegistryInv, NEW c \in Procs, NEW name \in Names, NEW b \in Procs,
         registerClientCallback(c, name, b), UNCHANGED <<uid, dead>>
  PROVE  RegistryInv'
<1>1. linked' \subseteq Procs \X Roles
  BY RelinkType DEF registerClientCallback, RegistryInv, Roles
<1> QED
  BY <1>1 DEF registerClientCallback, RegistryInv, RegistryTypeOK, NotifiedOfCurrent

\* tryUnregisterService(), whichever way it goes.
LEMMA TryUnregisterInv ==
  ASSUME RegistryInv, NEW c \in Procs, NEW name \in Names, NEW b \in Procs,
         tryUnregisterService(c, name, b), UNCHANGED <<uid, dead>>
  PROVE  RegistryInv'
<1>1. linked' \subseteq Procs \X Roles
  BY RelinkType DEF tryUnregisterService, RegistryInv
<1>2. CASE /\ svc' = [svc EXCEPT ![name] = None]
           /\ owed' = OwedBut(name)
  BY <1>1, <1>2 DEF tryUnregisterService, OwedBut, RegistryInv, RegistryTypeOK, NotifiedOfCurrent
<1>3. CASE /\ TryUnregisterStatus(c, name, b) = "clients"
           /\ Guarantee(name) /\ UNCHANGED owed
  <2>1. svc[name] # None
    BY <1>3 DEF TryUnregisterStatus
  <2> QED
    BY <1>1, <1>3, <2>1, GuaranteeKeeps
       DEF tryUnregisterService, RegistryInv, RegistryTypeOK, NotifiedOfCurrent
<1> QED
  BY <1>2, <1>3 DEF tryUnregisterService

\* handleClientCallbacks() changes no binder.
LEMMA TickInv ==
  ASSUME RegistryInv, Tick
  PROVE  RegistryInv'
<1>1. \A n \in Names : HasClients(n) \in BOOLEAN
  BY DEF HasClients
<1>2. ASSUME NEW n \in Names
      PROVE  /\ svc'[n] \in Entry \cup {None}
             /\ svc'[n] # None => svc[n] # None /\ svc'[n].binder = svc[n].binder
  <2>1. CASE Served(n)
    <3>1. svc[n] # None /\ svc[n] \in Entry
      BY <2>1 DEF Served, RegistryInv, RegistryTypeOK
    <3>2. svc'[n] = [svc[n] EXCEPT !.guaranteeClient = FALSE, !.hasClients = HasClients(n)]
      BY <2>1 DEF Tick
    <3> QED
      BY <1>1, <3>1, <3>2 DEF Entry
  <2>2. CASE ~ Served(n)
    BY <2>2 DEF Tick, RegistryInv, RegistryTypeOK
  <2> QED
    BY <2>1, <2>2
<1>3. svc' \in [Names -> Entry \cup {None}]
  BY <1>2 DEF Tick
<1>4. holds' \subseteq Procs \X Procs
  <2> DEFINE Sent(n) == {<<p, svc[n].binder>> : p \in ccbs[n] \ (dead \cup {svc[n].binder})}
  <2>1. ASSUME NEW n \in Names, Told(n) PROVE Sent(n) \subseteq Procs \X Procs
    <3>1. svc[n].binder \in Procs
      BY <2>1 DEF Told, Served, RegistryInv, RegistryTypeOK, Entry
    <3> QED
      BY <3>1 DEF RegistryInv, RegistryTypeOK
  <2>2. holds' = holds \cup UNION {Sent(n) : n \in {m \in Names : Told(m)}}
    BY DEF Tick
  <2> HIDE DEF Sent
  <2> QED
    BY <2>1, <2>2 DEF RegistryInv, RegistryTypeOK
<1> QED
  BY <1>2, <1>3, <1>4 DEF Tick, RegistryInv, RegistryTypeOK, NotifiedOfCurrent

\* binderDied() only takes away.
LEMMA BinderDiedInv ==
  ASSUME RegistryInv, NEW b \in Procs \X Roles, binderDied(b)
  PROVE  RegistryInv'
<1>1. RegistryTypeOK'
  BY DEF binderDied, RemoveRegistrationCallback, RemoveClientCallback, RegistryInv,
         RegistryTypeOK
<1>2. NotifiedOfCurrent'
  BY DEF binderDied, RemoveRegistrationCallback, RegistryInv, RegistryTypeOK,
         NotifiedOfCurrent
<1> QED
  BY <1>1, <1>2 DEF RegistryInv

\* RegistryInv is inductive: no call, tick, death or exchange of references
\* breaks it.
THEOREM RegistryInvariant == Spec => []RegistryInv
<1>1. Init => RegistryInv
  BY InitInv
<1>2. ASSUME RegistryInv, [Next]_vars PROVE RegistryInv'
  <2>1. CASE Call
    BY <1>2, <2>1, GetServiceInv, AddServiceInv, RegisterInv, UnregisterInv,
       ClientCallbackInv, TryUnregisterInv DEF Call
  <2>2. CASE Tick
    BY <1>2, <2>2, TickInv
  <2>3. ASSUME NEW b \in Procs \X Roles, binderDied(b) \/ Cleared(b) PROVE RegistryInv'
    BY <1>2, <2>3, BinderDiedInv DEF Cleared, RegistryInv, RegistryTypeOK, NotifiedOfCurrent
  <2>4. ASSUME NEW p \in Procs, Die(p) PROVE RegistryInv'
    BY <1>2, <2>4 DEF Die, RegistryInv, RegistryTypeOK, NotifiedOfCurrent
  <2>5. ASSUME NEW h \in holds, Drop(h) PROVE RegistryInv'
    BY <1>2, <2>5 DEF Drop, RegistryInv, RegistryTypeOK, NotifiedOfCurrent
  <2>6. ASSUME NEW p \in Procs, NEW q \in Procs, NEW o \in Procs, PassOn(p, q, o)
        PROVE  RegistryInv'
    BY <1>2, <2>6 DEF PassOn, RegistryInv, RegistryTypeOK, NotifiedOfCurrent
  <2>7. CASE UNCHANGED vars
    BY <1>2, <2>7 DEF vars, RegistryInv, RegistryTypeOK, NotifiedOfCurrent
  <2> QED
    BY <1>2, <2>1, <2>2, <2>3, <2>4, <2>5, <2>6, <2>7 DEF Next
<1> QED
  BY <1>1, <1>2, PTL DEF Spec

\* The types of the three maps, of the links and of the references.
THEOREM RegistryTypeCorrect == Spec => []RegistryTypeOK
<1>1. RegistryInv => RegistryTypeOK
  BY DEF RegistryInv
<1> QED
  BY <1>1, RegistryInvariant, PTL

\* addService() and registerForNotifications() together: whichever came first, a
\* callback in place was last sent the binder the name now has.
THEOREM RegistryNotifiedOfCurrent == Spec => []NotifiedOfCurrent
<1>1. RegistryInv => NotifiedOfCurrent
  BY DEF RegistryInv
<1> QED
  BY <1>1, RegistryInvariant, PTL

-------------------------------------------------------------------------------
(* What keeps a service registered *)

\* A service that getService() or addService() handed out and that was not yet
\* told of it is guaranteed a client.
OwedInv ==
    \A n \in Names, m \in Guaranteed :
        <<n, m>> \in owed /\ svc[n] # None => svc[n].guaranteeClient = TRUE /\ svc[n].hasClients = FALSE

\* A guarantee goes with a hand-out, if there is one.
LEMMA OweKeeps ==
  ASSUME RegistryInv, OwedInv, NEW name \in Names, svc[name] # None, Guarantee(name),
         \/ owed' = owed
         \/ \E m \in HandOuts, ps \in SUBSET Procs : owed' = owed \cup OwedFor(svc[name], name, m, ps)
  PROVE  OwedInv'
<1>1. svc[name] \in Entry
  BY DEF RegistryInv, RegistryTypeOK
<1>2. \A n \in Names : n # name => svc'[n] = svc[n]
  BY DEF Guarantee, RegistryInv, RegistryTypeOK
<1>3. svc'[name].guaranteeClient = TRUE /\ svc'[name].hasClients = svc[name].hasClients
  BY <1>1 DEF Guarantee, RegistryInv, RegistryTypeOK, Entry
<1> SUFFICES ASSUME NEW n \in Names, NEW k \in Guaranteed, <<n, k>> \in owed', svc'[n] # None
             PROVE  svc'[n].guaranteeClient = TRUE /\ svc'[n].hasClients = FALSE
  BY DEF OwedInv
<1>4. CASE <<n, k>> \in owed
  BY <1>2, <1>3, <1>4 DEF OwedInv
<1>5. CASE <<n, k>> \notin owed
  <2>1. PICK m \in HandOuts, ps \in SUBSET Procs : owed' = owed \cup OwedFor(svc[name], name, m, ps)
    BY <1>5
  <2>2. <<n, k>> \in OwedFor(svc[name], name, m, ps)
    BY <1>5, <2>1
  <2>3. n = name /\ ~ svc[name].hasClients
    BY <2>2, OwedForIs
  <2>4. svc[name].hasClients = FALSE
    BY <1>1, <2>3 DEF Entry
  <2> QED
    BY <1>3, <2>3, <2>4
<1> QED
  BY <1>4, <1>5

\* A hand-out takes nothing from the table.
LEMMA GuaranteeStays ==
  ASSUME RegistryInv, NEW name \in Names, svc[name] # None, Guarantee(name),
         NEW n \in Names, svc[n] # None
  PROVE  svc'[n] # None
<1>1. svc[name] \in Entry
  BY DEF RegistryInv, RegistryTypeOK
<1>2. [svc[name] EXCEPT !.guaranteeClient = TRUE] \in Entry
  BY <1>1 DEF Entry
<1> QED
  BY <1>2, NoneAssumption DEF Guarantee, RegistryInv, RegistryTypeOK

\* Every call keeps OwedInv.
LEMMA CallOwed ==
  ASSUME RegistryInv, OwedInv, NEW c \in Procs, NEW name \in Names, NEW b \in Procs,
         \/ getService(c, name)
         \/ \E allowIsolated \in BOOLEAN : addService(c, name, b, allowIsolated)
         \/ registerForNotifications(c, name)
         \/ unregisterForNotifications(c, name)
         \/ registerClientCallback(c, name, b)
         \/ tryUnregisterService(c, name, b)
  PROVE  OwedInv'
<1>0. "getService" \in HandOuts /\ "addService" \in HandOuts
      /\ "registerForNotifications" \in HandOuts \ Guaranteed
  BY DEF HandOuts, Guaranteed
<1>1. CASE getService(c, name)
  BY <1>0, <1>1, OweKeeps DEF getService, Found
<1>2. ASSUME NEW allowIsolated \in BOOLEAN, addService(c, name, b, allowIsolated) PROVE OwedInv'
  <2>1. \A n \in Names : n # name => svc'[n] = svc[n]
    BY <1>2 DEF addService, RegistryInv, RegistryTypeOK
  <2>2. /\ svc'[name].guaranteeClient = (regs[name] # {})
        /\ svc'[name].hasClients = FALSE
    BY <1>2 DEF addService, NewService, RegistryInv, RegistryTypeOK
  <2>3. /\ owed' = OwedBut(name) \cup OwedFor(svc'[name], name, "addService", regs[name])
    BY <1>2 DEF addService
  <2> SUFFICES ASSUME NEW n \in Names, NEW m \in Guaranteed, <<n, m>> \in owed', svc'[n] # None
               PROVE  svc'[n].guaranteeClient = TRUE /\ svc'[n].hasClients = FALSE
    BY DEF OwedInv
  <2>4. CASE <<n, m>> \in OwedBut(name)
    <3>1. n # name /\ <<n, m>> \in owed
      BY <2>4 DEF OwedBut
    <3> QED
      BY <2>1, <3>1 DEF OwedInv
  <2>5. CASE <<n, m>> \in OwedFor(svc'[name], name, "addService", regs[name])
    <3>1. n = name /\ regs[name] # {}
      BY <1>0, <2>5, OwedForIs
    <3> QED
      BY <2>2, <3>1
  <2> QED
    BY <2>3, <2>4, <2>5
<1>3. CASE registerForNotifications(c, name)
  <2>1. svc' = svc
    BY <1>3 DEF registerForNotifications
  <2>2. owed' \subseteq owed \cup {<<name, "registerForNotifications">>}
    BY <1>0, <1>3, OwedForIs DEF registerForNotifications, TellPresent
  <2>3. ASSUME NEW n \in Names, NEW m \in Guaranteed, <<n, m>> \in owed'
        PROVE  <<n, m>> \in owed
    BY <1>0, <2>2, <2>3
  <2> QED
    BY <2>1, <2>3 DEF OwedInv
<1>4. CASE unregisterForNotifications(c, name) \/ registerClientCallback(c, name, b)
  BY <1>4 DEF unregisterForNotifications, registerClientCallback, OwedInv
<1>5. CASE tryUnregisterService(c, name, b)
  <2>1. CASE /\ svc' = [svc EXCEPT ![name] = None]
             /\ owed' = OwedBut(name)
    BY <2>1 DEF OwedInv, OwedBut, RegistryInv, RegistryTypeOK
  <2>2. CASE /\ TryUnregisterStatus(c, name, b) = "clients"
             /\ Guarantee(name) /\ UNCHANGED owed
    BY <2>2, OweKeeps DEF TryUnregisterStatus
  <2> QED
    BY <1>5, <2>1, <2>2 DEF tryUnregisterService
<1> QED
  BY <1>1, <1>2, <1>3, <1>4, <1>5

\* Of a service that is owed a notification, a tick tells its callbacks.
LEMMA TickOwed ==
  ASSUME RegistryInv, OwedInv, Tick
  PROVE  OwedInv'
<1> SUFFICES ASSUME NEW n \in Names, NEW m \in Guaranteed, <<n, m>> \in owed, ~ ToldTrue(n), svc'[n] # None
             PROVE  svc'[n].guaranteeClient = TRUE /\ svc'[n].hasClients = FALSE
  BY DEF Tick, OwedInv
<1>2. CASE Served(n)
  <2>1. svc[n].guaranteeClient = TRUE /\ svc[n].hasClients = FALSE
    BY <1>2 DEF Served, OwedInv
  <2> QED
    BY <1>2, <2>1 DEF ToldTrue, TellGuaranteed
<1>3. CASE ~ Served(n)
  BY <1>3 DEF Tick, OwedInv
<1> QED
  BY <1>2, <1>3

\* Every step keeps OwedInv.
LEMMA OwedNext ==
  ASSUME RegistryInv, OwedInv, [Next]_vars
  PROVE  OwedInv'
<1>1. CASE Call
  BY <1>1, CallOwed DEF Call
<1>2. CASE Tick
  BY <1>2, TickOwed
<1>3. ASSUME NEW b \in Procs \X Roles, binderDied(b) PROVE OwedInv'
  BY <1>3 DEF binderDied, OwedInv, RegistryInv, RegistryTypeOK
<1>4. CASE UNCHANGED <<svc, owed>>
  BY <1>4 DEF OwedInv
<1> QED
  BY <1>1, <1>2, <1>3, <1>4 DEF Next, Cleared, Die, Drop, PassOn, vars

\* When tryUnregisterService() says "ok", nobody else has a reference.
LEMMA OkUnused ==
  ASSUME RegistryInv, NEW c \in Procs, NEW name \in Names, NEW b \in Procs,
         TryUnregisterStatus(c, name, b) = "ok"
  PROVE  /\ svc[name].guaranteeClient # TRUE
         /\ \A p \in Procs : <<p, svc[name].binder>> \notin holds
<1> DEFINE Users == {p \in Procs : <<p, svc[name].binder>> \in holds}
<1>1. ~ AboutToBeUsed(name) /\ ~ InUse(name)
  BY DEF TryUnregisterStatus
<1>2. IsFiniteSet(Users) /\ Cardinality(Users) \in Nat
  BY FS_Subset, FS_CardinalityType, NamesAssumption
<1>3. Cardinality(Users) = 0
  BY <1>1, <1>2 DEF InUse, ClientsNow, StrongRefs
<1>4. Users = {}
  BY <1>2, <1>3, FS_EmptySet
<1> QED
  BY <1>1, <1>4 DEF AboutToBeUsed

\* tryUnregisterService(): a live service leaves the table only when no other
\* process has a reference to it and no hand-out of getService() or addService()
\* is left that its server was not told of.
THEOREM RegistryUnregisteredUnused == Spec => UnregisteredUnused
<1> DEFINE Unused ==
      \A n \in Names :
          (svc[n] # None /\ svc'[n] = None /\ svc[n].binder \notin dead)
              => /\ \A p \in Procs : <<p, svc[n].binder>> \notin holds
                 /\ \A m \in Guaranteed : <<n, m>> \notin owed
<1>1. Init => OwedInv
  BY DEF Init, OwedInv
<1>2. RegistryInv /\ OwedInv /\ [Next]_vars => OwedInv'
  BY OwedNext
<1>3. ASSUME RegistryInv, OwedInv, [Next]_vars PROVE [Unused]_vars
  <2> SUFFICES ASSUME NEW n \in Names, svc[n] # None, svc'[n] = None, svc[n].binder \notin dead
               PROVE  (\A p \in Procs : <<p, svc[n].binder>> \notin holds) /\ (\A m \in Guaranteed : <<n, m>> \notin owed)
    OBVIOUS
  <2>1. ASSUME NEW c \in Procs, NEW b \in Procs, TryUnregisterStatus(c, n, b) = "ok"
        PROVE  (\A p \in Procs : <<p, svc[n].binder>> \notin holds) /\ (\A m \in Guaranteed : <<n, m>> \notin owed)
    BY <1>3, <2>1, OkUnused DEF OwedInv
  <2>2. CASE Call
    <3>1. PICK c \in Procs, name \in Names, b \in Procs :
             \/ getService(c, name)
             \/ \E allowIsolated \in BOOLEAN : addService(c, name, b, allowIsolated)
             \/ registerForNotifications(c, name)
             \/ unregisterForNotifications(c, name)
             \/ registerClientCallback(c, name, b)
             \/ tryUnregisterService(c, name, b)
      BY <2>2 DEF Call
    <3>2. CASE tryUnregisterService(c, name, b)
      <4>1. CASE TryUnregisterStatus(c, name, b) = "ok" /\ svc' = [svc EXCEPT ![name] = None]
        <5>1. n = name
          BY <1>3, <4>1 DEF RegistryInv, RegistryTypeOK
        <5> QED
          BY <2>1, <4>1, <5>1
      <4>2. CASE TryUnregisterStatus(c, name, b) = "clients" /\ Guarantee(name)
        <5>1. svc[name] # None
          BY <4>2 DEF TryUnregisterStatus
        <5> QED
          BY <1>3, <4>2, <5>1, GuaranteeStays
      <4> QED
        BY <3>2, <4>1, <4>2 DEF tryUnregisterService
    <3>3. CASE getService(c, name)
      BY <1>3, <3>3, GuaranteeStays DEF getService, Found
    <3>4. ASSUME NEW allowIsolated \in BOOLEAN, addService(c, name, b, allowIsolated) PROVE FALSE
      <4>1. NewService(c, b, allowIsolated, regs[name] # {}) \in Entry
        BY DEF NewService, Entry
      <4> QED
        BY <1>3, <3>4, <4>1, NoneAssumption DEF addService, RegistryInv, RegistryTypeOK
    <3> QED
      BY <3>1, <3>2, <3>3, <3>4 DEF registerForNotifications, unregisterForNotifications,
                                    registerClientCallback
  <2>3. CASE Tick
    <3>1. svc[n] \in Entry
      BY <1>3 DEF RegistryInv, RegistryTypeOK
    <3>2. svc'[n] \in Entry
      <4>1. CASE Served(n)
        <5>1. svc'[n] = [svc[n] EXCEPT !.guaranteeClient = FALSE, !.hasClients = HasClients(n)]
          BY <2>3, <4>1 DEF Tick
        <5>2. HasClients(n) \in BOOLEAN
          BY DEF HasClients
        <5> QED
          BY <3>1, <5>1, <5>2 DEF Entry
      <4>2. CASE ~ Served(n)
        BY <2>3, <3>1, <4>2 DEF Tick
      <4> QED
        BY <4>1, <4>2
    <3> QED
      BY <3>2, NoneAssumption
  <2>4. ASSUME NEW b \in Procs \X Roles, binderDied(b) PROVE FALSE
    <3>1. <<svc[n].binder, "service">> = b
      BY <2>4 DEF binderDied
    <3> QED
      BY <2>4, <3>1 DEF binderDied
  <2> QED
    BY <1>3, <2>2, <2>3, <2>4 DEF Next, Cleared, Die, Drop, PassOn, vars
<1> QED
  BY <1>1, <1>2, <1>3, RegistryInvariant, PTL DEF Spec, UnregisteredUnused

-------------------------------------------------------------------------------
(* The generated stubs *)

\* What arguments are made of: no reader of them takes a null.
ArgKinds == {"utf8", "binder", "bool", "int32"}

\* The halves of one method fit: the stub reads what the proxy writes, and the
\* proxy what the stub does.
Fits(proxy, stub) ==
    /\ {s \in Stubs : s.code = proxy.code} = {stub}
    /\ stub.token = proxy.token
    /\ stub.reads = proxy.writes
    /\ OnWire(stub.writes) = OnWire(proxy.reads)
    /\ proxy.reads \in {"void", "oneway"} => stub.writes = proxy.reads
    /\ proxy.reads \notin {"void", "oneway"} => stub.writes \notin {"void", "oneway"}

\* A nonempty set of positions in a short parcel has a first one.
LEMMA FirstPosition ==
  ASSUME NEW bad \in SUBSET (1 .. 4), bad # {}
  PROVE  Min(bad) \in bad
<1>1. \E i \in bad : \A j \in bad : i <= j
  <2>1. CASE 1 \in bad
    BY <2>1
  <2>2. CASE 1 \notin bad /\ 2 \in bad
    BY <2>2
  <2>3. CASE 1 \notin bad /\ 2 \notin bad /\ 3 \in bad
    BY <2>3
  <2>4. CASE 1 \notin bad /\ 2 \notin bad /\ 3 \notin bad
    <3>1. \A j \in 1 .. 4 : j \in {1, 2, 3, 4}
      OBVIOUS
    <3>2. \A j \in bad : j = 4
      BY <2>4, <3>1
    <3>3. 4 \in bad
      BY <3>2
    <3> QED
      BY <3>2, <3>3
  <2> QED
    BY <2>1, <2>2, <2>3, <2>4
<1> QED
  BY <1>1 DEF Min

\* A stub that reads what was written stops at a null and at nothing else.
LEMMA ReadWritten ==
  ASSUME NEW n \in 0 .. 4, NEW kinds \in [1 .. n -> ArgKinds], NEW a, DOMAIN a = 1 .. n
  PROVE  ReadAll(kinds, [i \in 1 .. n |-> [kind |-> kinds[i], value |-> a[i]]])
           = IF Null \in {a[i] : i \in DOMAIN a} THEN "UNEXPECTED_NULL" ELSE "OK"
<1> DEFINE parcel == [i \in 1 .. n |-> [kind |-> kinds[i], value |-> a[i]]]
           bad == {i \in DOMAIN kinds : Read(kinds[i], parcel, i) # "OK"}
<1>1. Len(parcel) = n
  OBVIOUS
<1>2. ASSUME NEW i \in 1 .. n
      PROVE  Read(kinds[i], parcel, i) = IF a[i] = Null THEN "UNEXPECTED_NULL" ELSE "OK"
  <2>1. kinds[i] \in ArgKinds /\ parcel[i] = [kind |-> kinds[i], value |-> a[i]]
    OBVIOUS
  <2> HIDE DEF parcel
  <2> QED
    BY <1>1, <2>1 DEF Read, OnWire, Nullable, ArgKinds
<1> SUFFICES ReadAll(kinds, parcel)
               = IF Null \in {a[i] : i \in DOMAIN a} THEN "UNEXPECTED_NULL" ELSE "OK"
  OBVIOUS
<1> HIDE DEF parcel
<1>3. bad = {i \in 1 .. n : a[i] = Null}
  BY <1>2
<1>4. CASE bad = {}
  BY <1>3, <1>4 DEF ReadAll
<1>5. CASE bad # {}
  <2>1. Min(bad) \in bad
    BY <1>3, <1>5, FirstPosition
  <2>2. Read(kinds[Min(bad)], parcel, Min(bad)) = "UNEXPECTED_NULL"
    BY <1>2, <1>3, <2>1
  <2> QED
    BY <1>3, <1>5, <2>1, <2>2 DEF ReadAll
<1> QED
  BY <1>4, <1>5

\* The codes of the stubs, each once.
LEMMA StubsFit ==
  ASSUME NEW proxy \in Proxies
  PROVE  \E stub \in Stubs : Fits(proxy, stub)
<1> USE DEF Fits, Stubs, Stub, Proxy, SM, OnWire, BnGetService, BnCheckService, BnAddService,
            BnListServices, BnRegisterForNotifications, BnUnregisterForNotifications,
            BnIsDeclared, BnGetDeclaredInstances, BnUpdatableViaApex, BnRegisterClientCallback,
            BnTryUnregisterService, BnGetServiceDebugInfo, BnOnRegistration, BnOnClients
<1>1. CASE proxy = BpGetService
  <2>1. Fits(proxy, BnGetService)
    BY <1>1 DEF BpGetService
  <2> QED
    BY <2>1
<1>2. CASE proxy = BpCheckService
  <2>1. Fits(proxy, BnCheckService)
    BY <1>2 DEF BpCheckService
  <2> QED
    BY <2>1
<1>3. CASE proxy = BpAddService
  <2>1. Fits(proxy, BnAddService)
    BY <1>3 DEF BpAddService
  <2> QED
    BY <2>1
<1>4. CASE proxy = BpListServices
  <2>1. Fits(proxy, BnListServices)
    BY <1>4 DEF BpListServices
  <2> QED
    BY <2>1
<1>5. CASE proxy = BpRegisterForNotifications
  <2>1. Fits(proxy, BnRegisterForNotifications)
    BY <1>5 DEF BpRegisterForNotifications
  <2> QED
    BY <2>1
<1>6. CASE proxy = BpUnregisterForNotifications
  <2>1. Fits(proxy, BnUnregisterForNotifications)
    BY <1>6 DEF BpUnregisterForNotifications
  <2> QED
    BY <2>1
<1>7. CASE proxy = BpIsDeclared
  <2>1. Fits(proxy, BnIsDeclared)
    BY <1>7 DEF BpIsDeclared
  <2> QED
    BY <2>1
<1>8. CASE proxy = BpGetDeclaredInstances
  <2>1. Fits(proxy, BnGetDeclaredInstances)
    BY <1>8 DEF BpGetDeclaredInstances
  <2> QED
    BY <2>1
<1>9. CASE proxy = BpUpdatableViaApex
  <2>1. Fits(proxy, BnUpdatableViaApex)
    BY <1>9 DEF BpUpdatableViaApex
  <2> QED
    BY <2>1
<1>10. CASE proxy = BpRegisterClientCallback
  <2>1. Fits(proxy, BnRegisterClientCallback)
    BY <1>10 DEF BpRegisterClientCallback
  <2> QED
    BY <2>1
<1>11. CASE proxy = BpTryUnregisterService
  <2>1. Fits(proxy, BnTryUnregisterService)
    BY <1>11 DEF BpTryUnregisterService
  <2> QED
    BY <2>1
<1>12. CASE proxy = BpGetServiceDebugInfo
  <2>1. Fits(proxy, BnGetServiceDebugInfo)
    BY <1>12 DEF BpGetServiceDebugInfo
  <2> QED
    BY <2>1
<1>13. CASE proxy = BpOnRegistration
  <2>1. Fits(proxy, BnOnRegistration)
    BY <1>13 DEF BpOnRegistration
  <2> QED
    BY <2>1
<1>14. CASE proxy = BpOnClients
  <2>1. Fits(proxy, BnOnClients)
    BY <1>14 DEF BpOnClients
  <2> QED
    BY <2>1
<1> QED
  BY <1>1, <1>2, <1>3, <1>4, <1>5, <1>6, <1>7, <1>8, <1>9, <1>10, <1>11, <1>12, <1>13, <1>14 DEF Proxies

\* What a method may answer through a proxy: nothing with an error or where the
\* proxy expects nothing, and no null where the proxy takes none.
Returnable(proxy, status, value) ==
    /\ status # "ok" \/ proxy.reads \in {"void", "oneway"} => value = Null
    /\ status = "ok" /\ proxy.reads \notin {"void", "oneway"} \cup Nullable => value # Null

\* The fate of a call whose method answers with a status and a value.
Carried(proxy, a, status, value) ==
    LET oneway == proxy.reads = "oneway"
        null == Null \in {a[i] : i \in DOMAIN a}
        answer == Answered(status, value)
    IN /\ ~ oneway => Transact(proxy, a, answer) =
             IF null THEN Status("EX_NULL_POINTER") ELSE answer
       /\ oneway => Transact(proxy, a, answer) = Status("ok")
       /\ oneway /\ ~ null =>
             onTransact(proxy.token, proxy.code, Marshalled(proxy, a), answer) = Reply(status, << >>)

\* A call through halves that fit: the stub refuses a null, and otherwise the
\* caller is given what the method answered.
LEMMA CallCarried ==
  ASSUME NEW proxy, NEW stub \in Stubs, Fits(proxy, stub),
         NEW n \in 0 .. 4, proxy.writes \in [1 .. n -> ArgKinds],
         NEW a, DOMAIN a = 1 .. n,
         NEW status, NEW value, Returnable(proxy, status, value)
  PROVE  Carried(proxy, a, status, value)
<1> DEFINE null == Null \in {a[i] : i \in DOMAIN a}
           answer == Answered(status, value)
           item == [kind |-> OnWire(proxy.reads), value |-> value]
           reply == onTransact(proxy.token, proxy.code, Marshalled(proxy, a), answer)
<1>1. ReadAll(stub.reads, Marshalled(proxy, a)) = IF null THEN "UNEXPECTED_NULL" ELSE "OK"
  <2>1. Marshalled(proxy, a) = [i \in 1 .. n |-> [kind |-> proxy.writes[i], value |-> a[i]]]
    BY DEF Marshalled
  <2>2. stub.reads = proxy.writes
    BY DEF Fits
  <2> HIDE DEF null
  <2>3. ReadAll(proxy.writes, [i \in 1 .. n |-> [kind |-> proxy.writes[i], value |-> a[i]]])
          = IF null THEN "UNEXPECTED_NULL" ELSE "OK"
    BY ReadWritten DEF null
  <2> QED
    BY <2>1, <2>2, <2>3
<1>2. (CHOOSE s \in {s \in Stubs : s.code = proxy.code} : TRUE) = stub
  BY DEF Fits
<1>3. answer.status = status /\ answer.value = value
  BY DEF Answered
<1> HIDE DEF null, answer
<1>4. CASE null
  <2>1. reply = Reply("EX_NULL_POINTER", << >>)
    BY <1>1, <1>2, <1>4 DEF onTransact, Fits
  <2> QED
    BY <1>4, <2>1 DEF Carried, Transact, Reply, Status, Answered, null, answer
<1>5. CASE ~ null
  <2>1. reply = Reply(status, IF status # "ok" \/ proxy.reads \in {"void", "oneway"}
                              THEN << >> ELSE <<item>>)
    BY <1>1, <1>2, <1>3, <1>5 DEF onTransact, Fits
  <2>2. CASE proxy.reads = "oneway"
    BY <1>5, <2>1, <2>2 DEF Carried, Transact, Status, Answered, null, answer
  <2>3. CASE proxy.reads # "oneway" /\ (status # "ok" \/ proxy.reads = "void")
    <3>1. value = Null
      BY <2>3 DEF Returnable
    <3> QED
      BY <1>5, <2>1, <2>3, <3>1 DEF Carried, Transact, Reply, Answered, null, answer
  <2>4. CASE status = "ok" /\ proxy.reads \notin {"void", "oneway"}
    <3>1. Read(proxy.reads, <<item>>, 1) = "OK"
      BY <2>4 DEF Read, Returnable
    <3>2. reply = Reply("ok", <<item>>)
      BY <2>1, <2>4
    <3> QED
      BY <1>5, <2>4, <3>1, <3>2 DEF Carried, Transact, Reply, Answered, null, answer
  <2> QED
    BY <2>2, <2>3, <2>4
<1> QED
  BY <1>4, <1>5

\* The kinds of a proxy's arguments, and as many arguments.
LEMMA ArgShape ==
  ASSUME NEW proxy \in Proxies, NEW a \in ArgTuples(proxy)
  PROVE  \E n \in 0 .. 4 : proxy.writes \in [1 .. n -> ArgKinds] /\ DOMAIN a = 1 .. n
<1> USE DEF ArgTuples, ArgKinds
<1>1. CASE proxy.writes = << >>
  BY <1>1
<1>2. ASSUME NEW k \in ArgKinds, proxy.writes = <<k>>
      PROVE  proxy.writes \in [1 .. 1 -> ArgKinds] /\ DOMAIN a = 1 .. 1
  BY <1>2
<1>3. ASSUME NEW k \in ArgKinds, NEW l \in ArgKinds, proxy.writes = <<k, l>>
      PROVE  proxy.writes \in [1 .. 2 -> ArgKinds] /\ DOMAIN a = 1 .. 2
  BY <1>3
<1>4. ASSUME proxy.writes = <<"utf8", "binder", "binder">>
      PROVE  proxy.writes \in [1 .. 3 -> ArgKinds] /\ DOMAIN a = 1 .. 3
  BY <1>4
<1>5. ASSUME proxy.writes = <<"utf8", "binder", "bool", "int32">>
      PROVE  proxy.writes \in [1 .. 4 -> ArgKinds] /\ DOMAIN a = 1 .. 4
  BY <1>5
<1>6. \/ proxy.writes = << >>
      \/ \E k \in ArgKinds : proxy.writes = <<k>>
      \/ \E k, l \in ArgKinds : proxy.writes = <<k, l>>
      \/ proxy.writes = <<"utf8", "binder", "binder">>
      \/ proxy.writes = <<"utf8", "binder", "bool", "int32">>
  BY DEF Proxies, Proxy, BpGetService, BpCheckService, BpAddService, BpListServices,
         BpRegisterForNotifications, BpUnregisterForNotifications, BpIsDeclared,
         BpGetDeclaredInstances, BpUpdatableViaApex, BpRegisterClientCallback,
         BpTryUnregisterService, BpGetServiceDebugInfo, BpOnRegistration, BpOnClients
<1> QED
  BY <1>1, <1>2, <1>3, <1>4, <1>5, <1>6

\* Every method gives an answer that its proxy can return.
LEMMA AnswerShape ==
  ASSUME RegistryTypeOK, NEW c \in Procs, NEW proxy \in Proxies, NEW a \in ArgTuples(proxy)
  PROVE  \E status, value : /\ Answer(c, proxy.code, a) = Answered(status, value)
                            /\ Returnable(proxy, status, value)
                            /\ proxy.reads = "oneway" => status = "ok"
<1> USE DEF Proxy, Answer, Status, Returnable, Nullable
<1>1. CASE proxy \in {BpGetService, BpCheckService}
  <2>1. proxy.code \in {"getService", "checkService"} /\ proxy.reads = "binder?"
    BY <1>1 DEF BpGetService, BpCheckService
  <2>2. Answer(c, proxy.code, a) = Answered("ok", Found(c, a[1]))
    BY <2>1
  <2>3. Returnable(proxy, "ok", Found(c, a[1]))
    BY <2>1
  <2> QED
    BY <2>1, <2>2, <2>3
<1>2. CASE proxy \in {BpAddService, BpRegisterForNotifications, BpUnregisterForNotifications}
  BY <1>2 DEF BpAddService, BpRegisterForNotifications, BpUnregisterForNotifications
<1>3. CASE proxy \in {BpRegisterClientCallback, BpTryUnregisterService}
  BY <1>3 DEF BpRegisterClientCallback, BpTryUnregisterService
<1>4. CASE proxy = BpListServices
  <2>1. {n \in Names : svc[n] # None} # Null
    BY NullAssumption
  <2> QED
    BY <1>4, <2>1 DEF BpListServices
<1>5. CASE proxy = BpIsDeclared
  <2>1. isVintfDeclared(a[1]) # Null
    BY NullAssumption DEF isVintfDeclared
  <2> QED
    BY <1>5, <2>1 DEF BpIsDeclared
<1>6. CASE proxy = BpGetDeclaredInstances
  <2>1. PICK n \in Names : AidlName[n] # Null /\ a[1] = AidlName[n]
    BY <1>6 DEF BpGetDeclaredInstances, ArgTuples, ArgSets
  <2>2. getVintfInstances(a[1].package, a[1].iface) # Null
    BY <2>1, NullAssumption
  <2> QED
    BY <1>6, <2>2 DEF BpGetDeclaredInstances
<1>7. CASE proxy = BpUpdatableViaApex
  BY <1>7 DEF BpUpdatableViaApex
<1>8. CASE proxy = BpGetServiceDebugInfo
  <2> DEFINE infos == {[name |-> n, debugPid |-> svc[n].debugPid] :
                         n \in {m \in Names : svc[m] # None}}
  <2>1. \A n \in Names : svc[n] # None => svc[n].debugPid \in Procs
    BY DEF RegistryTypeOK, Entry
  <2>2. infos \in SUBSET [name : Names, debugPid : Procs]
    BY <2>1
  <2>3. infos # Null
    BY <2>2, NullAssumption
  <2> QED
    BY <1>8, <2>3 DEF BpGetServiceDebugInfo
<1>9. CASE proxy \in {BpOnRegistration, BpOnClients}
  BY <1>9 DEF BpOnRegistration, BpOnClients
<1> QED
  BY <1>1, <1>2, <1>3, <1>4, <1>5, <1>6, <1>7, <1>8, <1>9 DEF Proxies

\* RpcFaithful: every call through the generated proxy and stub comes back with
\* the method's answer, a callback reaches the other side, and a null binder is
\* answered by the stub, for any processes, names and manifests.
THEOREM RegistryRpcFaithful == Spec => []RpcFaithful
<1>1. ASSUME RegistryTypeOK PROVE RpcFaithful
  <2> SUFFICES ASSUME NEW c \in Procs, NEW proxy \in Proxies, NEW a \in ArgTuples(proxy)
               PROVE  LET answer == Answer(c, proxy.code, a)
                          oneway == proxy.reads = "oneway"
                          null == Null \in {a[i] : i \in DOMAIN a}
                      IN /\ Transact(proxy, a, answer) =
                               IF null /\ ~ oneway THEN Status("EX_NULL_POINTER") ELSE answer
                         /\ oneway /\ ~ null =>
                               onTransact(proxy.token, proxy.code, Marshalled(proxy, a), answer)
                                   = Reply("ok", << >>)
    BY DEF RpcFaithful
  <2>1. PICK stub \in Stubs : Fits(proxy, stub)
    BY StubsFit
  <2>2. PICK n \in 0 .. 4 : proxy.writes \in [1 .. n -> ArgKinds] /\ DOMAIN a = 1 .. n
    BY ArgShape
  <2>3. PICK status, value : /\ Answer(c, proxy.code, a) = Answered(status, value)
                             /\ Returnable(proxy, status, value)
                             /\ proxy.reads = "oneway" => status = "ok"
    BY <1>1, AnswerShape
  <2>4. proxy.reads = "oneway" => Answered(status, value) = Status("ok")
    BY <2>3 DEF Status, Returnable
  <2>5. Carried(proxy, a, status, value)
    BY <2>1, <2>2, <2>3, CallCarried
  <2> QED
    BY <2>3, <2>4, <2>5 DEF Carried
<1>2. RegistryInv => RpcFaithful
  BY <1>1 DEF RegistryInv
<1> QED
  BY <1>2, RegistryInvariant, PTL
===============================================================================
