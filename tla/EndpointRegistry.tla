-------------------------- MODULE EndpointRegistry --------------------------
(***************************************************************************)
(* endpoint.Module: providers register the interfaces they implement,      *)
(* callers resolve an interface to a binding of their own connection, and  *)
(* every call and subscription routes through the binding, which is        *)
(* checked against the catalog of that moment.  A resolution of an         *)
(* interface nobody has registered starts its provider and waits for the   *)
(* registration.                                                           *)
(*                                                                         *)
(* Each connection's requests are handled one after the other by its own   *)
(* goroutine; a handler reads the catalog, the packages and the grants     *)
(* without the module's lock and may be overtaken before it takes it.  The *)
(* package registry and the catalog change in two steps, in that order.    *)
(***************************************************************************)
EXTENDS CatalogBuilder

CONSTANTS
    Conn,          \* connections
    Plain,         \* components of packages that provide nothing
    Peer,          \* bound: connection |-> the components it may be of
    Catalogs,      \* contents of the package registry, as sets of sources
    Private,       \* <<package, interface>>: exported to its own package only
    Register,      \* permission a component registers under
    OnDemand,      \* components that run only once they are started
    Selector,      \* selectors of a resolution, None: empty
    Majors,        \* sets of majors a resolution accepts
    Toggled,       \* <<package, permission>> that consents come and go for
    Closed,        \* the end of a connection
    MaxHandle      \* bound: registrations, and bindings, of one connection

ASSUME EndpointAssumption ==
    /\ MaxHandle \in Nat /\ None \notin Conn /\ Closed # None
    /\ \A sources \in Catalogs :
           IsFiniteSet(sources) /\ \A s \in sources : s.pkg # None

VARIABLES
    packages,      \* pkgregistry.Registry's sources
    disabled,      \* components disabled in it
    built,         \* sources the current catalog is made of
    snapshot,      \* catalog.Registry's current one
    granted,       \* <<package, permission>>
    started,       \* on-demand components that have been started
    conn,          \* connection |-> its component, None, or Closed
    live,          \* registrations in byInterface
    generations,   \* <<package, component, interface>> |-> registrations so far
    handles,       \* connection |-> connState's counters
    bindings,      \* connection |-> its bindings
    pending,       \* pendingStarts: component |-> connections that wait
    request        \* connection |-> the handler in progress, or NoRequest

catalog == <<packages, disabled, built, snapshot, granted, started>>
routes == <<live, generations, handles, bindings>>
vars == <<catalog, conn, routes, pending, request>>

KeysOf(sources) == UNION {{<<s.pkg, e.component, e.id>> : e \in s.exports} : s \in sources}
Key == UNION {KeysOf(sources) : sources \in Catalogs}
ComponentsOf(sources) == {<<k[1], k[2]>> : k \in KeysOf(sources)}
Component == Plain \cup UNION {ComponentsOf(sources) : sources \in Catalogs}
ASSUME ComponentAssumption == {None, Closed} \cap Component = {}

NoRequest == [op |-> "none"]
Idle(c) == conn[c] \in Component /\ request[c] = NoRequest

TypeOK ==
    /\ packages \in Catalogs /\ built \in Catalogs /\ disabled \subseteq Component
    /\ snapshot.revision \in 1..MaxRevision /\ started \subseteq OnDemand
    /\ conn \in [Conn -> Component \cup {None, Closed}]
    /\ DOMAIN generations = Key
    /\ \A c \in Conn :
        /\ handles[c].registration \in 0..MaxHandle /\ handles[c].binding \in 0..MaxHandle
        /\ {b.id : b \in bindings[c]} = 1..Cardinality(bindings[c])
        /\ request[c] # NoRequest => conn[c] \in Component
    /\ pending \in [Component -> SUBSET Conn]
    /\ \A r, t \in live : r.conn = t.conn /\ r.id = t.id => r = t

Init ==
    /\ packages \in Catalogs /\ built = packages /\ disabled = {}
    /\ LET first == Build(Nothing, Bootstrap).snapshot
           boot == Build(first, Bootstrap \cup packages)
       IN  boot.fault = None /\ snapshot = boot.snapshot
    /\ granted = Toggled /\ started = {}
    /\ conn = [c \in Conn |-> None] /\ live = {}
    /\ generations = [k \in Key |-> 0]
    /\ handles = [c \in Conn |-> [registration |-> 0, binding |-> 0]]
    /\ bindings = [c \in Conn |-> {}]
    /\ pending = [k \in Component |-> {}] /\ request = [c \in Conn |-> NoRequest]

----------------------------------------------------------------------------
(***************************************************************************)
(* The catalog, the packages and the consents around the module.           *)
(***************************************************************************)
\* publishCatalogLast: the package registry first...
ReplaceEntries(sources) ==
    /\ packages = built /\ sources # built /\ snapshot.revision < MaxRevision
    /\ Build(snapshot, Bootstrap \cup sources).fault = None
    /\ packages' = sources
    /\ UNCHANGED <<disabled, built, snapshot, granted, started, conn, routes, pending, request>>

\* ...and then the catalog.
PublishCatalog ==
    /\ packages # built
    /\ built' = packages
    /\ snapshot' = Build(snapshot, Bootstrap \cup packages).snapshot
    /\ UNCHANGED <<packages, disabled, granted, started, conn, routes, pending, request>>

SetConsent(g) ==
    /\ granted' = (granted \ {g}) \cup ({g} \ granted)
    /\ UNCHANGED <<packages, disabled, built, snapshot, started, conn, routes, pending, request>>

SetEnabled(k) ==
    /\ k \in ComponentsOf(packages)
    /\ disabled' = (disabled \ {k}) \cup ({k} \ disabled)
    /\ UNCHANGED <<packages, built, snapshot, granted, started, conn, routes, pending, request>>

\* A permission that a grant may be asked for is in Toggled; what is not in
\* it is held by every package.
Allowed(snap, pkg, permissions) ==
    \A p \in permissions :
        /\ p \in {q.id : q \in snap.permissions}
        /\ <<pkg, p>> \in Toggled => <<pkg, p>> \in granted

\* The handshake of a component's process.
Open(c, k) ==
    /\ conn[c] = None /\ k \in Peer[c] \cap (ComponentsOf(packages) \cup Plain)
    /\ k \notin disabled
    /\ k \in OnDemand => k \in started
    /\ conn' = [conn EXCEPT ![c] = k]
    /\ UNCHANGED <<catalog, routes, pending, request>>

\* The end of a connection, once its last handler has returned.
ConnClosed(c) ==
    /\ Idle(c)
    /\ conn' = [conn EXCEPT ![c] = Closed]
    /\ live' = {r \in live : r.conn # c}
    /\ bindings' = [bindings EXCEPT ![c] = {}]
    /\ UNCHANGED <<catalog, generations, handles, pending, request>>

----------------------------------------------------------------------------
(***************************************************************************)
(* Resources of an interface, as <<handle, generation>>.                   *)
(***************************************************************************)
NoResource == <<None, 0>>

\* registrationResource
Claimed(snap, def, handle) ==
    IF handle = None
    THEN IF def.types = {} THEN {NoResource} ELSE {}
    ELSE {<<handle, r.generation>> : r \in {r \in ByHandle(snap, handle) : r.type \in def.types}}

\* resolveInterfaceResource
Chosen(snap, def, sel) ==
    LET of(found) == {<<r.role, r.generation>> : r \in {r \in found : r.type \in def.types}}
    IN  CASE sel # None -> of(Select(snap, sel))
          [] sel = None /\ def.default # None ->
                 of(ResourceIn(snap, def.default.type, def.default.role))
          [] OTHER -> IF def.types = {} THEN {NoResource} ELSE {}

\* Mutant: whoever has it registered, under whatever contract.
InSnapshot_Name(snap, r) ==
    {d \in InterfaceIn(snap, r.iface, r.major) :
        r \in live /\ ProviderIn(snap, r.pkg, r.iface, r.major) # {}}

\* registrationInSnapshot: the definition, when the registration is live and
\* still of the generations it was made under.
InSnapshot(snap, r) ==
    {d \in InterfaceIn(snap, r.iface, r.major) :
        /\ r \in live /\ d.generation = r.definition
        /\ \E p \in ProviderIn(snap, r.pkg, r.iface, r.major) :
               /\ p.component = r.component /\ p.generation = r.provider
               /\ p.definition = r.definition}

----------------------------------------------------------------------------
(***************************************************************************)
(* Registration.                                                           *)
(***************************************************************************)
\* RegisterEndpoint up to its lock: what the catalog and the packages say of
\* this component.  A refusal changes nothing.
CheckRegistration(c, id, major, handle) ==
    /\ Idle(c) /\ handles[c].registration < MaxHandle
    /\ conn[c] \notin disabled /\ <<conn[c][1], conn[c][2], id>> \in KeysOf(packages)
    /\ Allowed(snapshot, conn[c][1], {Register})
    /\ \E p \in ProviderIn(snapshot, conn[c][1], id, major),
          d \in InterfaceIn(snapshot, id, major) :
          /\ p.component = conn[c][2]
          /\ \E claim \in Claimed(snapshot, d, handle) :
                request' = [request EXCEPT ![c] =
                    [op |-> "register", iface |-> id, major |-> major, resource |-> claim,
                     definition |-> p.definition, provider |-> p.generation]]
    /\ UNCHANGED <<catalog, conn, routes, pending>>

\* What its lock covers: the registration, and whoever waits for the
\* component, for this interface or another.
CommitRegistration(c) ==
    /\ request[c].op = "register"
    /\ LET q == request[c]
           key == <<conn[c][1], conn[c][2], q.iface>>
       IN  /\ generations' = [generations EXCEPT ![key] = @ + 1]
           /\ handles' = [handles EXCEPT ![c].registration = @ + 1]
           /\ live' = live \cup
                {[conn |-> c, id |-> handles[c].registration + 1, pkg |-> key[1],
                  component |-> key[2], iface |-> q.iface, major |-> q.major,
                  resource |-> q.resource, generation |-> generations[key] + 1,
                  definition |-> q.definition, provider |-> q.provider]}
           /\ request' = [d \in Conn |->
                IF d = c THEN NoRequest
                ELSE IF d \in pending[conn[c]] THEN [request[d] EXCEPT !.woken = TRUE]
                ELSE request[d]]
    /\ pending' = [pending EXCEPT ![conn[c]] = {}]
    /\ UNCHANGED <<catalog, conn, bindings>>

\* RegisterBuiltin, before the socket is opened.
RegisterBuiltin(id, major) ==
    /\ \A c \in Conn : conn[c] = None
    /\ \A r \in live : r.iface # id \/ r.major # major
    /\ \E p \in ProviderIn(snapshot, Kernel, id, major) :
          live' = live \cup
            {[conn |-> None, id |-> Cardinality(live) + 1, pkg |-> Kernel,
              component |-> p.component, iface |-> id, major |-> major,
              resource |-> NoResource, generation |-> 1,
              definition |-> p.definition, provider |-> p.generation]}
    /\ UNCHANGED <<catalog, conn, generations, handles, bindings, pending, request>>

UnregisterEndpoint(c, r) ==
    /\ Idle(c) /\ r \in live /\ r.conn = c
    /\ live' = live \ {r}
    /\ UNCHANGED <<catalog, conn, generations, handles, bindings, pending, request>>

----------------------------------------------------------------------------
(***************************************************************************)
(* Resolution.                                                             *)
(***************************************************************************)
Visible(c, id) ==
    {r \in live : r.iface = id /\ (r.pkg = conn[c][1] \/ <<r.pkg, id>> \notin Private)}
Candidates(c, q) ==
    {r \in Visible(c, q.iface) : r.major \in q.majors
        /\ \E d \in InSnapshot(q.snap, r) : r.resource \in Chosen(q.snap, d, q.sel)}
Definition(q, r) == CHOOSE d \in InSnapshot(q.snap, r) : TRUE

Resolving(c, step) == request[c].op = step
Answer(c) == request' = [request EXCEPT ![c] = NoRequest]
Goto(c, step) == request' = [request EXCEPT ![c].op = step]

\* ResolveEndpoint takes its snapshot, once.
ResolveEndpoint(c, id, majors, sel) ==
    /\ Idle(c) /\ handles[c].binding < MaxHandle
    /\ request' = [request EXCEPT ![c] =
          [op |-> "look", iface |-> id, majors |-> majors, sel |-> sel, snap |-> snapshot,
           attempted |-> FALSE, component |-> None, woken |-> FALSE]]
    /\ UNCHANGED <<catalog, conn, routes, pending>>

\* What a binding was made for, which the code does not keep.
Meant(snap, r) ==
    [interface |-> {Meaning(d) : d \in InterfaceIn(snap, r.iface, r.major)},
     provider |-> {Meaning(p) : p \in ProviderIn(snap, r.pkg, r.iface, r.major)},
     resource |-> IF r.resource = NoResource THEN {}
                  ELSE {Meaning(d) : d \in ByHandle(snap, r.resource[1])}]

Bind(c, r) ==
    /\ handles' = [handles EXCEPT ![c].binding = @ + 1]
    /\ bindings' = [bindings EXCEPT ![c] = @ \cup
          {[id |-> handles[c].binding + 1, pkg |-> conn[c][1], target |-> r,
            definition |-> r.definition, provider |-> r.provider, resource |-> r.resource,
            meant |-> Meant(request[c].snap, r)]}]
    /\ UNCHANGED <<live, generations>>

\* One candidate that the caller may use is bound.  With none at all in
\* sight, and no start attempted yet, the provider is looked for in the
\* catalog.  Everything else is refused.
Look(c) ==
    /\ Resolving(c, "look")
    /\ LET q == request[c]
           candidates == Candidates(c, q)
       IN  \/ \E r \in candidates :
                /\ candidates = {r}
                /\ Allowed(q.snap, conn[c][1], Definition(q, r).requires)
                /\ Bind(c, r) /\ Answer(c)
           \/ /\ Visible(c, q.iface) = {} /\ ~q.attempted
              /\ Goto(c, "authorize") /\ UNCHANGED routes
           \/ /\ Visible(c, q.iface) # {} \/ q.attempted
              /\ \A r \in candidates :
                    \/ candidates # {r}
                    \/ ~Allowed(q.snap, conn[c][1], Definition(q, r).requires)
              /\ Answer(c) /\ UNCHANGED routes
    /\ UNCHANGED <<catalog, conn, pending>>

\* authorizeOnDemandStart: the enabled components that export the interface
\* to the caller and provide it, with the caller's permission and resource,
\* in the catalog.
Startable(c, q) ==
    {<<p.pkg, p.component>> : p \in
        {p \in ProvidersIn(q.snap, q.iface, q.majors) :
            /\ <<p.pkg, p.component>> \notin disabled
            /\ <<p.pkg, p.component, q.iface>> \in KeysOf(packages)
            /\ p.pkg = conn[c][1] \/ <<p.pkg, q.iface>> \notin Private
            /\ \E d \in InterfaceIn(q.snap, p.id, p.major) :
                  /\ Allowed(q.snap, conn[c][1], d.requires)
                  /\ Chosen(q.snap, d, q.sel) # {}}}

\* With exactly one, tryOnDemandStart queues before it starts.
Await(c) ==
    /\ Resolving(c, "authorize")
    /\ LET startable == Startable(c, request[c])
       IN  IF Cardinality(startable) = 1
           THEN LET k == CHOOSE k \in startable : TRUE
                IN  /\ pending' = [pending EXCEPT ![k] = @ \cup {c}]
                    /\ request' = [request EXCEPT ![c].op = "start", ![c].component = k,
                                                  ![c].attempted = TRUE]
           ELSE Answer(c) /\ UNCHANGED pending
    /\ UNCHANGED <<catalog, conn, routes>>

RemoveWaiter(c) ==
    pending' = [pending EXCEPT ![request[c].component] = @ \ {c}]

\* The component starts, or it is already running, or the start fails.
EnsureStarted(c) ==
    /\ Resolving(c, "start")
    /\ \/ /\ started' = started \cup ({request[c].component} \cap OnDemand)
          /\ Goto(c, "wait") /\ UNCHANGED pending
       \/ RemoveWaiter(c) /\ Answer(c) /\ UNCHANGED started
    /\ UNCHANGED <<packages, disabled, built, snapshot, granted, conn, routes>>

\* Its channel is closed: look again, in the snapshot of the beginning.
Wake(c) ==
    /\ Resolving(c, "wait") /\ request[c].woken
    /\ Goto(c, "look")
    /\ UNCHANGED <<catalog, conn, routes, pending>>

\* Mutant: a wait has no end of its own.
Timeout_Never(c) == Resolving(c, "wait") /\ FALSE /\ UNCHANGED vars

\* The timer may win even against a closed channel.
Timeout(c) ==
    /\ Resolving(c, "wait")
    /\ RemoveWaiter(c) /\ Answer(c)
    /\ UNCHANGED <<catalog, conn, routes>>

----------------------------------------------------------------------------
(***************************************************************************)
(* Routing.                                                                *)
(***************************************************************************)
\* The part of the check that methods and events share.
Bound(b) ==
    \E d \in InSnapshot(snapshot, b.target) :
        /\ d.generation = b.definition /\ b.provider = b.target.provider
        /\ Allowed(snapshot, b.pkg, d.requires)

ResourceHolds(b) ==
    \E d \in InSnapshot(snapshot, b.target) :
        IF b.resource = NoResource THEN d.types = {}
        ELSE b.resource \in Claimed(snapshot, d, b.resource[1])

\* Mutant: the resource is not looked at again.
Route_Bound(b) == Bound(b)

\* Route finds the provider.
Route(b) ==
    /\ Bound(b) /\ ResourceHolds(b)
    /\ \E d \in InSnapshot(snapshot, b.target) : Allowed(snapshot, b.pkg, d.calls)

\* RouteEvent finds it for a subscription: it does not look at the resource.
RouteEvent(b) == Bound(b)

----------------------------------------------------------------------------
Provide(c) ==
    \/ \E k \in Key, major \in 1..2 :
          \E handle \in {r.role : r \in snapshot.resources} \cup {None} :
              CheckRegistration(c, k[3], major, handle)
    \/ CommitRegistration(c)
    \/ \E r \in live : UnregisterEndpoint(c, r)
Resolve(c) ==
    \/ Look(c) \/ Await(c) \/ EnsureStarted(c) \/ Wake(c) \/ Timeout(c)
Ask(c) ==
    \E id \in {k[3] : k \in Key} \cup {i.id : i \in snapshot.interfaces},
       majors \in Majors, sel \in Selector :
        ResolveEndpoint(c, id, majors, sel)
Environment ==
    \/ \E sources \in Catalogs : ReplaceEntries(sources)
    \/ PublishCatalog
    \/ \E g \in Toggled : SetConsent(g)
    \/ \E k \in Component : SetEnabled(k)
Builtins == \E i \in snapshot.interfaces : RegisterBuiltin(i.id, i.major)

Next ==
    \/ Environment \/ Builtins
    \/ \E c \in Conn : Provide(c) \/ Ask(c) \/ Resolve(c) \/ ConnClosed(c)
    \/ \E c \in Conn, k \in Component : Open(c, k)

\* A handler is a goroutine and its timer runs: it goes on.
Fairness == \A c \in Conn : WF_vars(Resolve(c))
Spec == Init /\ [][Next]_vars /\ Fairness

----------------------------------------------------------------------------
\* A route leads where the binding was made for: as long as a binding routes,
\* its connection's package still has what the interface asks, the provider's
\* connection is open, and the contract, its owner, the provider's identity
\* and the resource with its manager are those of the moment it was resolved.
\* The code compares generations; this compares what they stand for.
RouteKeepsContract ==
    \A c \in Conn : \A b \in bindings[c] :
        /\ Route(b) =>
            /\ Meant(snapshot, b.target) = b.meant
            /\ b.target.conn = None \/ conn[b.target.conn] \in Component
            /\ \A d \in InterfaceIn(snapshot, b.target.iface, b.target.major) :
                  Allowed(snapshot, b.pkg, d.requires \cup d.calls)
        /\ RouteEvent(b) =>
            /\ Meant(snapshot, b.target).interface = b.meant.interface
            /\ Meant(snapshot, b.target).provider = b.meant.provider

\* A binding that has lost its provider, its contract or its resource is lost
\* for good, whatever is registered, installed or published later; only a
\* consent can give a refused one its way back.
Lost(b) == InSnapshot(snapshot, b.target) = {} \/ ~ResourceHolds(b)
LostStaysLost ==
    [][\A c \in Conn : \A b \in bindings[c] \cap bindings'[c] : Lost(b) => Lost(b)']_vars

\* Every resolution is answered, whatever becomes of the component it starts.
\* What waits and what is registered belongs to somebody: a waiter is in the
\* queue of its component exactly until it is woken or gives up, and no
\* registration outlives its connection.
QueueIsExact ==
    /\ \A r \in live : r.conn # None => conn[r.conn] \in Component
    /\ \A k \in Component, c \in Conn :
          c \in pending[k] <=>
              /\ request[c].op \in {"start", "wait"}
              /\ request[c].component = k /\ ~request[c].woken
ResolveEnds ==
    /\ []QueueIsExact
    /\ \A c \in Conn :
          request[c].op \notin {"none", "register"} ~> request[c] = NoRequest
=============================================================================
