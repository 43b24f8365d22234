---------------------------- MODULE ServiceRegistry ----------------------------
(***************************************************************************)
(* servicemanager as this repository builds it: the name table, the        *)
(* registration callbacks and the client callbacks of ServiceManager.cpp,  *)
(* the manifest lookups over compat/vintf_stub.cpp and the access checks   *)
(* over compat/selinux_stub.cpp.                                           *)
(*                                                                         *)
(* servicemanager has one thread, so a call, a timer tick or a death       *)
(* notice is one step.  Around it, processes come by references, drop      *)
(* them, hand a binder on and die in any order.                            *)
(***************************************************************************)
EXTENDS ServiceManagerAidl, Integers, Functions

CONSTANTS
    Procs,          \* processes; each has one service binder and two callbacks
    Uids,           \* possible uids: [Procs -> {"system", "app", "isolated"}]
    Names,          \* service names
    LegalNames,     \* those isValidServiceName() accepts
    AidlName,       \* the package, interface and instance of a name, or Null
    VintfStable,    \* processes whose service binder needs a VINTF declaration
    DeviceLines,    \* the lines of the two manifest files
    FrameworkLines

ASSUME NamesAssumption ==
    LegalNames \subseteq Names /\ VintfStable \subseteq Procs /\ IsFiniteSet(Procs)

None == Null
Roles == {"service", "notify", "clients"}

\* The methods that hand a service binder to a client, and those of them that
\* set guaranteeClient as they do.
HandOuts == {"getService", "addService", "registerForNotifications"}
Guaranteed == {"getService", "addService"}

VARIABLES
    uid,        \* the uid of each process
    svc,        \* mNameToService
    regs,       \* mNameToRegistrationCallback: whose callbacks
    ccbs,       \* mNameToClientCallback: whose callbacks
    linked,     \* binders servicemanager has a death notification on
    clearing,   \* dead binders whose notice is delivered but not cleared
    dead,       \* processes that are gone
    holds,      \* <<p, o>>: p has a reference to o's service binder
    news,       \* news[p][n]: the binder last sent to p's onRegistration()
    owed        \* <<n, m>>: method m handed out n's present entry, and its
                \* server has not been told of a client since

vars == <<uid, svc, regs, ccbs, linked, clearing, dead, holds, news, owed>>

Entry == [binder : Procs, allowIsolated : BOOLEAN, debugPid : Procs,
          hasClients : BOOLEAN, guaranteeClient : BOOLEAN]

ASSUME NoneAssumption == None \notin Entry

\* The type of every variable: the three maps hold only processes, and an
\* entry carries what struct Service carries, but for its dump priority.
RegistryTypeOK ==
    /\ uid \in Uids
    /\ svc \in [Names -> Entry \cup {None}]
    /\ regs \in [Names -> SUBSET Procs] /\ ccbs \in [Names -> SUBSET Procs]
    /\ linked \subseteq Procs \X Roles /\ clearing \subseteq Procs \X Roles
    /\ dead \subseteq Procs /\ holds \subseteq Procs \X Procs
    /\ news \in [Procs -> [Names -> Procs \cup {None}]]
    /\ owed \subseteq Names \X HandOuts

Init ==
    /\ uid \in Uids
    /\ svc = [n \in Names |-> None]
    /\ regs = [n \in Names |-> {}] /\ ccbs = [n \in Names |-> {}]
    /\ linked = {} /\ clearing = {} /\ dead = {} /\ holds = {}
    /\ news = [p \in Procs |-> [n \in Names |-> None]]
    /\ owed = {}

-------------------------------------------------------------------------------
(* compat/selinux_stub.cpp: every check is answered "allow" *)

selabel_lookup == 0
selinux_check_access == 0
Allowed == selabel_lookup = 0 /\ selinux_check_access = 0

-------------------------------------------------------------------------------
(* compat/vintf_stub.cpp: a line is Null when blank or a comment *)

parseLine(line) == line.slash /\ line.dot
loadFrom(lines) ==
    LET entries == SelectSeq(lines, LAMBDA l : l # Null /\ parseLine(l))
    IN [i \in DOMAIN entries |->
           [package |-> entries[i].package, iface |-> entries[i].iface,
            instance |-> entries[i].instance, apex |-> entries[i].apex]]

Manifests == <<loadFrom(DeviceLines), loadFrom(FrameworkLines)>>

Is(entry, aname) == /\ entry.package = aname.package /\ entry.iface = aname.iface
                    /\ entry.instance = aname.instance
hasAidlInstance(manifest, aname) == \E i \in DOMAIN manifest : Is(manifest[i], aname)
getAidlInstances(manifest, package, iface) ==
    LET hits == SelectSeq(manifest, LAMBDA e : e.package = package /\ e.iface = iface)
    IN [i \in DOMAIN hits |-> hits[i].instance]

\* The entries forEachInstance() shows to func: up to and with the first of
\* those for which func returns true.
forEachInstance(manifest, stops) == IF stops = {} THEN DOMAIN manifest ELSE 1 .. Min(stops)

isVintfDeclared(name) ==
    AidlName[name] # Null /\ \E k \in 1 .. 2 : hasAidlInstance(Manifests[k], AidlName[name])

\* The visitor returns true for an entry that is not the one sought; the last
\* manifest that shows it to the visitor decides.
getVintfUpdatableApex(name) ==
    LET aname == AidlName[name]
        others(k) == {i \in DOMAIN Manifests[k] : ~ Is(Manifests[k][i], aname)}
        shown(k) == forEachInstance(Manifests[k], others(k)) \ others(k)
        hits == {k \in 1 .. 2 : shown(k) # {}}
    IN IF aname = Null \/ hits = {} THEN Null
       ELSE Manifests[Max(hits)][Max(shown(Max(hits)))].apex

getVintfInstances(package, iface) ==
    getAidlInstances(Manifests[1], package, iface)
        \o getAidlInstances(Manifests[2], package, iface)

-------------------------------------------------------------------------------
(* What each call answers.  A binder argument names the process it is of. *)

Answered(status, value) == [status |-> status, value |-> value]
Status(status) == Answered(status, Null)

\* tryGetService(): an isolated process is not given what was added without
\* allowIsolated.
Found(c, name) ==
    IF svc[name] = None \/ ~ Allowed \/ (~ svc[name].allowIsolated /\ uid[c] = "isolated")
    THEN Null ELSE svc[name].binder

meetsDeclarationRequirements(b, name) == b \in VintfStable => isVintfDeclared(name)

\* Mutant: the result of linkToDeath() is not looked at.
CanLink_ignored(b) == TRUE

\* linkToDeath() fails on a proxy whose death notice has been delivered.
CanLink(b) == b \notin clearing

AddStatus(c, name, b) ==
    IF uid[c] # "system" \/ ~ Allowed THEN "EX_SECURITY"
    ELSE IF name \notin LegalNames THEN "EX_ILLEGAL_ARGUMENT"
    ELSE IF ~ meetsDeclarationRequirements(b, name) THEN "EX_ILLEGAL_ARGUMENT"
    ELSE IF ~ CanLink(<<b, "service">>) THEN "EX_ILLEGAL_STATE" ELSE "ok"

RegisterStatus(c, name) ==
    IF ~ Allowed THEN "EX_SECURITY"
    ELSE IF name \notin LegalNames THEN "EX_ILLEGAL_ARGUMENT"
    ELSE IF ~ CanLink(<<c, "notify">>) THEN "EX_ILLEGAL_STATE" ELSE "ok"

UnregisterStatus(c, name) ==
    IF ~ Allowed THEN "EX_SECURITY" ELSE IF c \notin regs[name] THEN "EX_ILLEGAL_STATE" ELSE "ok"

ClientCallbackStatus(c, name, b) ==
    IF ~ Allowed THEN "EX_SECURITY"
    ELSE IF svc[name] = None THEN "EX_ILLEGAL_ARGUMENT"
    ELSE IF svc[name].debugPid # c THEN "EX_UNSUPPORTED_OPERATION"
    ELSE IF svc[name].binder # b THEN "EX_ILLEGAL_ARGUMENT"
    ELSE IF ~ CanLink(<<c, "clients">>) THEN "EX_ILLEGAL_STATE" ELSE "ok"

\* The strong references the driver counts: servicemanager's own, and one per
\* other process that has one.
StrongRefs(name) == 1 + Cardinality({p \in Procs : <<p, svc[name].binder>> \in holds})

\* What handleServiceClientCallback() returns inside tryUnregisterService();
\* the driver holds one more reference for the time of the transaction.
ClientsNow(name) == IF ccbs[name] = {} THEN -1 ELSE StrongRefs(name) + 1

\* Mutant: a service about to be used may go.
AboutToBeUsed_never(name) == FALSE

\* No count, or more than servicemanager's and the driver's reference.
InUse(name) == ClientsNow(name) < 0 \/ ClientsNow(name) > 2
AboutToBeUsed(name) == svc[name].guaranteeClient

\* "clients" is the EX_ILLEGAL_STATE that also sets guaranteeClient.
TryUnregisterStatus(c, name, b) ==
    IF ~ Allowed THEN "EX_SECURITY"
    ELSE IF svc[name] = None THEN "EX_ILLEGAL_STATE"
    ELSE IF svc[name].debugPid # c THEN "EX_UNSUPPORTED_OPERATION"
    ELSE IF svc[name].binder # b \/ AboutToBeUsed(name) THEN "EX_ILLEGAL_STATE"
    ELSE IF InUse(name) THEN "clients" ELSE "ok"

\* The answer of the method behind each transaction code.
Answer(c, code, a) ==
    CASE code \in {"getService", "checkService"} -> Answered("ok", Found(c, a[1]))
      [] code = "addService" -> Status(AddStatus(c, a[1], a[2]))
      [] code = "listServices" ->
            IF Allowed THEN Answered("ok", {n \in Names : svc[n] # None}) ELSE Status("EX_SECURITY")
      [] code = "registerForNotifications" -> Status(RegisterStatus(c, a[1]))
      [] code = "unregisterForNotifications" -> Status(UnregisterStatus(c, a[1]))
      [] code = "isDeclared" ->
            IF Allowed THEN Answered("ok", isVintfDeclared(a[1])) ELSE Status("EX_SECURITY")
      [] code = "getDeclaredInstances" ->
            LET all == getVintfInstances(a[1].package, a[1].iface)
            IN IF Allowed \/ all = << >> THEN Answered("ok", all) ELSE Status("EX_SECURITY")
      [] code = "updatableViaApex" ->
            IF Allowed THEN Answered("ok", getVintfUpdatableApex(a[1])) ELSE Status("EX_SECURITY")
      [] code = "registerClientCallback" -> Status(ClientCallbackStatus(c, a[1], a[2]))
      [] code = "tryUnregisterService" ->
            LET status == TryUnregisterStatus(c, a[1], a[2])
            IN Status(IF status = "clients" THEN "EX_ILLEGAL_STATE" ELSE status)
      [] code = "getServiceDebugInfo" ->
            IF Allowed
            THEN Answered("ok", {[name |-> n, debugPid |-> svc[n].debugPid] :
                                    n \in {m \in Names : svc[m] # None}})
            ELSE Status("EX_SECURITY")
      [] code \in {"onRegistration", "onClients"} -> Status("ok")

\* No list or flag a call returns is mistaken for a null.
ASSUME NullAssumption ==
    /\ Null \notin BOOLEAN /\ \A names \in SUBSET Names : names # Null
    /\ \A infos \in SUBSET [name : Names, debugPid : Procs] : infos # Null
    /\ \A n \in Names : AidlName[n] # Null =>
          getVintfInstances(AidlName[n].package, AidlName[n].iface) # Null

-------------------------------------------------------------------------------
(* The calls that change a table.  A call that is refused changes nothing. *)

\* The binders in the tables; the others lose their proxy and its link with it.
Tabled(s, r, k) ==
    {<<s[n].binder, "service">> : n \in {m \in Names : s[m] # None}}
        \cup ((UNION {r[n] : n \in Names}) \X {"notify"})
        \cup ((UNION {k[n] : n \in Names}) \X {"clients"})
Relink(new) == linked' = (linked \cup (new \ clearing)) \cap Tabled(svc', regs', ccbs')

\* A live process that is sent a binder other than its own gets a reference.
Receive(ps, o) == holds' = holds \cup {<<p, o>> : p \in ps \ (dead \cup {o})}

\* p can name o's service binder in a call.
Has(p, o) == p = o \/ <<p, o>> \in holds

NewService(c, b, allowIsolated, guarantee) ==
    [binder |-> b, allowIsolated |-> allowIsolated, debugPid |-> c,
     hasClients |-> FALSE, guaranteeClient |-> guarantee]

\* Entry s of a name is handed to processes ps.  A server that knows of clients is
\* not owed a notification for one more, nor for itself or for the dead.
OwedFor(s, name, method, ps) ==
    IF s.hasClients \/ ps \subseteq dead \cup {s.binder} THEN {} ELSE {<<name, method>>}

\* What is left when the entry of a name goes or is overwritten.
OwedBut(name) == {o \in owed : o[1] # name}

Guarantee(name) == svc' = [svc EXCEPT ![name].guaranteeClient = TRUE]

getService(c, name) ==
    /\ Found(c, name) # Null
    /\ Guarantee(name)
    /\ owed' = owed \cup OwedFor(svc[name], name, "getService", {c})
    /\ Receive({c}, svc[name].binder)
    /\ UNCHANGED <<regs, ccbs, linked, clearing, news>>

addService(c, name, b, allowIsolated) ==
    /\ AddStatus(c, name, b) = "ok" /\ Has(c, b)
    /\ svc' = [svc EXCEPT ![name] = NewService(c, b, allowIsolated, regs[name] # {})]
    /\ news' = [p \in Procs |-> IF p \in regs[name] THEN [news[p] EXCEPT ![name] = b] ELSE news[p]]
    /\ Receive(regs[name], b)
    /\ owed' = OwedBut(name) \cup OwedFor(svc'[name], name, "addService", regs[name])
    /\ UNCHANGED <<regs, ccbs, clearing>>
    /\ Relink({<<b, "service">>})

\* Mutant: a callback is told only of later registrations.
TellPresent_not(c, name) == UNCHANGED <<news, holds, owed>>

\* The binder is handed out and guaranteeClient left as it is.
TellPresent(c, name) ==
    IF svc[name] = None THEN UNCHANGED <<news, holds, owed>>
    ELSE /\ news' = [news EXCEPT ![c][name] = svc[name].binder]
         /\ Receive({c}, svc[name].binder)
         /\ owed' = owed \cup OwedFor(svc[name], name, "registerForNotifications", {c})

registerForNotifications(c, name) ==
    /\ RegisterStatus(c, name) = "ok"
    /\ regs' = [regs EXCEPT ![name] = @ \cup {c}]
    /\ TellPresent(c, name)
    /\ UNCHANGED <<svc, ccbs, clearing>>
    /\ Relink({<<c, "notify">>})

unregisterForNotifications(c, name) ==
    /\ UnregisterStatus(c, name) = "ok"
    /\ regs' = [regs EXCEPT ![name] = @ \ {c}]
    /\ UNCHANGED <<svc, ccbs, clearing, holds, news, owed>>
    /\ Relink({})

registerClientCallback(c, name, b) ==
    /\ Has(c, b) /\ ClientCallbackStatus(c, name, b) = "ok"
    /\ ccbs' = [ccbs EXCEPT ![name] = @ \cup {c}]
    /\ UNCHANGED <<svc, regs, clearing, holds, news, owed>>
    /\ Relink({<<c, "clients">>})

\* The client callbacks of the name are left in place.
tryUnregisterService(c, name, b) ==
    /\ Has(c, b)
    /\ \/ /\ TryUnregisterStatus(c, name, b) = "ok"
          /\ svc' = [svc EXCEPT ![name] = None]
          /\ owed' = OwedBut(name)
       \/ /\ TryUnregisterStatus(c, name, b) = "clients"
          /\ Guarantee(name) /\ UNCHANGED owed
    /\ UNCHANGED <<regs, ccbs, clearing, holds, news>>
    /\ Relink({})

Call ==
    /\ \E c \in Procs \ dead, name \in Names, b \in Procs :
          \/ getService(c, name)
          \/ \E allowIsolated \in BOOLEAN : addService(c, name, b, allowIsolated)
          \/ registerForNotifications(c, name)
          \/ unregisterForNotifications(c, name)
          \/ registerClientCallback(c, name, b)
          \/ tryUnregisterService(c, name, b)
    /\ UNCHANGED <<uid, dead>>

-------------------------------------------------------------------------------
(* The timer, deaths and the other processes *)

\* Mutant: only services with clients on record are looked at.
Served_known(name) == svc[name] # None /\ ccbs[name] # {} /\ svc[name].hasClients

Served(name) == svc[name] # None /\ ccbs[name] # {}
HasClients(name) == StrongRefs(name) > 1

\* A client came and went between two ticks: the server is told of it.
TellGuaranteed(name) ==
    svc[name].guaranteeClient /\ ~ svc[name].hasClients /\ ~ HasClients(name)

\* handleServiceClientCallback() on the interval: after the guarantee, a
\* difference between the record and the references is sent.
Told(name) == Served(name) /\ (TellGuaranteed(name) \/ HasClients(name) # svc[name].hasClients)
ToldTrue(name) == Served(name) /\ (TellGuaranteed(name) \/ (HasClients(name) /\ ~ svc[name].hasClients))

\* handleClientCallbacks(), every five seconds.  The tests above are those that
\* keep the CHECKs of sendClientCallbackNotifications() from failing.
Tick ==
    /\ svc' = [n \in Names |->
                  IF Served(n)
                  THEN [svc[n] EXCEPT !.guaranteeClient = FALSE, !.hasClients = HasClients(n)]
                  ELSE svc[n]]
    /\ holds' = holds \cup UNION {{<<p, svc[n].binder>> : p \in ccbs[n] \ (dead \cup {svc[n].binder})} :
                                     n \in {m \in Names : Told(m)}}
    /\ owed' = {o \in owed : ~ ToldTrue(o[1])}
    /\ UNCHANGED <<uid, regs, ccbs, linked, clearing, dead, news>>

RemoveClientCallback(b) == ccbs' = [n \in Names |-> {p \in ccbs[n] : <<p, "clients">> # b}]
RemoveRegistrationCallback(b) == regs' = [n \in Names |-> {p \in regs[n] : <<p, "notify">> # b}]

binderDied(b) ==
    /\ b \in linked /\ b[1] \in dead
    /\ svc' = [n \in Names |->
                  IF svc[n] # None /\ <<svc[n].binder, "service">> = b THEN None ELSE svc[n]]
    /\ owed' = {o \in owed : svc'[o[1]] # None}
    /\ RemoveRegistrationCallback(b)
    /\ RemoveClientCallback(b)
    /\ linked' = linked \ {b}
    /\ clearing' = clearing \cup {b}
    /\ UNCHANGED <<uid, dead, holds, news>>

\* The driver confirms that the notification is cleared; the proxy goes.
Cleared(b) ==
    /\ b \in clearing
    /\ clearing' = clearing \ {b}
    /\ UNCHANGED <<uid, svc, regs, ccbs, linked, dead, holds, news, owed>>

Die(p) ==
    /\ p \notin dead
    /\ dead' = dead \cup {p}
    /\ holds' = {h \in holds : h[1] # p}
    /\ UNCHANGED <<uid, svc, regs, ccbs, linked, clearing, news, owed>>

\* A process gives up its reference, or gives another process one.
Drop(h) ==
    /\ holds' = holds \ {h}
    /\ UNCHANGED <<uid, svc, regs, ccbs, linked, clearing, dead, news, owed>>
PassOn(p, q, o) ==
    /\ {p, q} \cap dead = {} /\ Has(p, o) /\ ~ Has(q, o)
    /\ holds' = holds \cup {<<q, o>>}
    /\ UNCHANGED <<uid, svc, regs, ccbs, linked, clearing, dead, news, owed>>

Next ==
    \/ Call
    \/ Tick
    \/ \E b \in Procs \X Roles : binderDied(b) \/ Cleared(b)
    \/ \E p \in Procs : Die(p)
    \/ \E h \in holds : Drop(h)
    \/ \E p, q, o \in Procs : PassOn(p, q, o)

Spec == Init /\ [][Next]_vars

\* The looper serves the timer and the driver; processes owe nothing.
Fairness ==
    /\ WF_vars(Tick)
    /\ \A b \in Procs \X Roles : WF_vars(binderDied(b))
LiveSpec == Spec /\ Fairness

-------------------------------------------------------------------------------
(* Properties *)

\* Whoever has a registration callback in place was last sent the binder the
\* name now has, whether the service came first or the callback did, and
\* whoever overwrote the entry since.
NotifiedOfCurrent ==
    \A n \in Names : \A p \in regs[n] \ dead : svc[n] # None => news[p][n] = svc[n].binder

\* Every call through the generated proxy and stub comes back with the answer
\* of the method, and a callback reaches the other side; a null binder never
\* does, the stub answers for it.
ArgSets(kind, role) ==
    CASE kind = "utf8" -> IF role = "getDeclaredInstances"
                          THEN {AidlName[n] : n \in {m \in Names : AidlName[m] # Null}} ELSE Names
      [] kind = "binder" -> Procs \cup {Null}
      [] kind = "bool" -> BOOLEAN
      [] kind = "int32" -> {1}
ArgTuples(proxy) ==
    LET w == proxy.writes
        A(i) == ArgSets(w[i], proxy.code)
    IN CASE Len(w) = 0 -> {<< >>}
         [] Len(w) = 1 -> {<<x>> : x \in A(1)}
         [] Len(w) = 2 -> A(1) \X A(2)
         [] Len(w) = 3 -> A(1) \X A(2) \X A(3)
         [] Len(w) = 4 -> A(1) \X A(2) \X A(3) \X A(4)
RpcFaithful ==
    \A c \in Procs, proxy \in Proxies : \A a \in ArgTuples(proxy) :
        LET answer == Answer(c, proxy.code, a)
            oneway == proxy.reads = "oneway"
            null == Null \in {a[i] : i \in DOMAIN a}
        IN /\ Transact(proxy, a, answer) =
                 IF null /\ ~ oneway THEN Status("EX_NULL_POINTER") ELSE answer
           /\ oneway /\ ~ null =>
                 onTransact(proxy.token, proxy.code, Marshalled(proxy, a), answer) = Reply("ok", << >>)

\* tryUnregisterService() lets a live service go only when no other process has
\* a reference to it and getService() and addService() have handed it to nobody
\* that its server was not told of.  (A client that registerForNotifications()
\* gave it to and that dropped it is no obstacle.)
UnregisteredUnused ==
    [][\A n \in Names :
          (svc[n] # None /\ svc'[n] = None /\ svc[n].binder \notin dead)
              => /\ \A p \in Procs : <<p, svc[n].binder>> \notin holds
                 /\ \A m \in Guaranteed : <<n, m>> \notin owed]_vars

\* Some hand-out of a name that one of the methods made is not yet known to the
\* server's callbacks.
Unknown(n, methods) == ccbs[n] # {} /\ \E m \in methods : <<n, m>> \in owed

\* A client that getService() handed a service to, or addService() as a new one,
\* is made known to the server's callbacks, even when it dropped the service at
\* once.
ClientsAcknowledged ==
    \A n \in Names : Unknown(n, Guaranteed) ~> ~ Unknown(n, Guaranteed)

\* "Setting this guarantee each time we hand out a binder ensures that the
\* client-checking loop knows about the event even if the client immediately
\* drops the service": so it does whichever method hands it out.
HandOutsAcknowledged ==
    \A n \in Names : Unknown(n, HandOuts) ~> ~ Unknown(n, HandOuts)

\* A process that died leaves every table, also when one of its binders was
\* registered again by another process after the death was noticed.
DeadForgotten ==
    \A b \in Procs \X Roles : b[1] \in dead ~> b \notin Tabled(svc, regs, ccbs)

\* updatableViaApex() gives the apex of an entry the manifests declare.
ApexOfDeclared ==
    \A c \in Procs, n \in Names :
        LET entries == UNION {Range(Manifests[k]) : k \in 1 .. 2}
            named == {e \in entries : AidlName[n] # Null /\ Is(e, AidlName[n])}
        IN named # {} => Answer(c, "updatableViaApex", <<n>>).value \in {e.apex : e \in named}
===============================================================================
