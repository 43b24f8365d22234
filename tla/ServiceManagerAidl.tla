--------------------------- MODULE ServiceManagerAidl ---------------------------
(***************************************************************************)
(* The generated proxy and stub of IServiceManager and of the two oneway   *)
(* callbacks servicemanager makes: what each method writes into its parcel *)
(* and reads back from the reply (Bp...), what the stub reads, in which    *)
(* order, and writes into the reply (Bn...), and what becomes of a value   *)
(* that is missing, of another kind, or null.  Each pair is taken from its *)
(* own half of the generated file; that the halves fit is to be checked.   *)
(***************************************************************************)
EXTENDS Naturals, Sequences, FiniteSets, FiniteSetsExt

CONSTANT Null   \* a null binder or an absent string

Proxy(token, code, writes, reads) ==
    [token |-> token, code |-> code, writes |-> writes, reads |-> reads]
Stub(token, code, reads, writes) ==
    [token |-> token, code |-> code, reads |-> reads, writes |-> writes]
SM == "android.os.IServiceManager"

-------------------------------------------------------------------------------
(* The proxy: arguments written, result read ("void" for none) *)

BpGetService == Proxy(SM, "getService", <<"utf8">>, "binder?")
BpCheckService == Proxy(SM, "checkService", <<"utf8">>, "binder?")
BpAddService == Proxy(SM, "addService", <<"utf8", "binder", "bool", "int32">>, "void")
BpListServices == Proxy(SM, "listServices", <<"int32">>, "utf8[]")
BpRegisterForNotifications ==
    Proxy(SM, "registerForNotifications", <<"utf8", "binder">>, "void")
BpUnregisterForNotifications ==
    Proxy(SM, "unregisterForNotifications", <<"utf8", "binder">>, "void")
BpIsDeclared == Proxy(SM, "isDeclared", <<"utf8">>, "bool")
BpGetDeclaredInstances == Proxy(SM, "getDeclaredInstances", <<"utf8">>, "utf8[]")
BpUpdatableViaApex == Proxy(SM, "updatableViaApex", <<"utf8">>, "utf8?")
BpRegisterClientCallback ==
    Proxy(SM, "registerClientCallback", <<"utf8", "binder", "binder">>, "void")
BpTryUnregisterService == Proxy(SM, "tryUnregisterService", <<"utf8", "binder">>, "void")
BpGetServiceDebugInfo == Proxy(SM, "getServiceDebugInfo", << >>, "parcelable[]")
BpOnRegistration ==
    Proxy("android.os.IServiceCallback", "onRegistration", <<"utf8", "binder">>, "oneway")
BpOnClients == Proxy("android.os.IClientCallback", "onClients", <<"binder", "bool">>, "oneway")

Proxies == {BpGetService, BpCheckService, BpAddService, BpListServices,
            BpRegisterForNotifications, BpUnregisterForNotifications, BpIsDeclared,
            BpGetDeclaredInstances, BpUpdatableViaApex, BpRegisterClientCallback,
            BpTryUnregisterService, BpGetServiceDebugInfo, BpOnRegistration, BpOnClients}

-------------------------------------------------------------------------------
(* The stub: arguments read, result written *)

BnGetService == Stub(SM, "getService", <<"utf8">>, "binder")
BnCheckService == Stub(SM, "checkService", <<"utf8">>, "binder")

\* Mutant: the last two arguments are read in the wrong order.
BnAddService_swapped == Stub(SM, "addService", <<"utf8", "binder", "int32", "bool">>, "void")

BnAddService == Stub(SM, "addService", <<"utf8", "binder", "bool", "int32">>, "void")
BnListServices == Stub(SM, "listServices", <<"int32">>, "utf8[]")
BnRegisterForNotifications == Stub(SM, "registerForNotifications", <<"utf8", "binder">>, "void")
BnUnregisterForNotifications ==
    Stub(SM, "unregisterForNotifications", <<"utf8", "binder">>, "void")
BnIsDeclared == Stub(SM, "isDeclared", <<"utf8">>, "bool")
BnGetDeclaredInstances == Stub(SM, "getDeclaredInstances", <<"utf8">>, "utf8[]")
BnUpdatableViaApex == Stub(SM, "updatableViaApex", <<"utf8">>, "utf8?")
BnRegisterClientCallback ==
    Stub(SM, "registerClientCallback", <<"utf8", "binder", "binder">>, "void")
BnTryUnregisterService == Stub(SM, "tryUnregisterService", <<"utf8", "binder">>, "void")
BnGetServiceDebugInfo == Stub(SM, "getServiceDebugInfo", << >>, "parcelable[]")
BnOnRegistration ==
    Stub("android.os.IServiceCallback", "onRegistration", <<"utf8", "binder">>, "oneway")
BnOnClients == Stub("android.os.IClientCallback", "onClients", <<"binder", "bool">>, "oneway")

Stubs == {BnGetService, BnCheckService, BnAddService, BnListServices,
          BnRegisterForNotifications, BnUnregisterForNotifications, BnIsDeclared,
          BnGetDeclaredInstances, BnUpdatableViaApex, BnRegisterClientCallback,
          BnTryUnregisterService, BnGetServiceDebugInfo, BnOnRegistration, BnOnClients}

-------------------------------------------------------------------------------
(* Parcels and transactions *)

\* Nullable readers read what the others write.
OnWire(kind) == IF kind = "binder?" THEN "binder" ELSE IF kind = "utf8?" THEN "utf8" ELSE kind
Nullable == {"binder?", "utf8?"}

\* A status other than OK ends the reading.
Read(kind, parcel, i) ==
    IF i > Len(parcel) \/ parcel[i].kind # OnWire(kind) THEN "BAD_VALUE"
    ELSE IF parcel[i].value = Null /\ kind \notin Nullable THEN "UNEXPECTED_NULL" ELSE "OK"

ReadAll(kinds, parcel) ==
    LET bad == {i \in DOMAIN kinds : Read(kinds[i], parcel, i) # "OK"}
    IN IF bad = {} THEN "OK" ELSE Read(kinds[Min(bad)], parcel, Min(bad))

Reply(status, items) == [transport |-> "OK", status |-> status, items |-> items]
Failed(transport) == [transport |-> transport, status |-> "none", items |-> << >>]

\* onTransact(): the answer of the method behind the stub to the values in the
\* parcel, or why it was not called; a null that may not be becomes an exception
\* for the caller.
onTransact(token, code, parcel, answer) ==
    LET known == {s \in Stubs : s.code = code}
        stub == CHOOSE s \in known : TRUE
        read == ReadAll(stub.reads, parcel)
    IN IF known = {} THEN Failed("UNKNOWN_TRANSACTION")
       ELSE IF stub.token # token THEN Failed("BAD_TYPE")
       ELSE IF read = "UNEXPECTED_NULL" THEN Reply("EX_NULL_POINTER", << >>)
       ELSE IF read # "OK" THEN Failed(read)
       ELSE Reply(answer.status,
                  IF answer.status # "ok" \/ stub.writes \in {"void", "oneway"} THEN << >>
                  ELSE <<[kind |-> OnWire(stub.writes), value |-> answer.value]>>)

\* The parcel a proxy sends.
Marshalled(proxy, args) ==
    [i \in DOMAIN proxy.writes |-> [kind |-> proxy.writes[i], value |-> args[i]]]

\* A call through a proxy: a transport error takes the place of the status, and
\* the result is read only from a reply that says ok.  Of a oneway call nothing
\* comes back, not even that the stub would not have it.
Transact(proxy, args, answer) ==
    LET reply == onTransact(proxy.token, proxy.code, Marshalled(proxy, args), answer)
        read == Read(proxy.reads, reply.items, 1)
    IN IF proxy.reads = "oneway" THEN [status |-> "ok", value |-> Null]
       ELSE IF reply.transport # "OK" THEN [status |-> reply.transport, value |-> Null]
       ELSE IF reply.status # "ok" \/ proxy.reads = "void"
            THEN [status |-> reply.status, value |-> Null]
       ELSE IF read # "OK" THEN [status |-> read, value |-> Null]
       ELSE [status |-> "ok", value |-> reply.items[1].value]
===============================================================================
