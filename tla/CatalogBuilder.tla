--------------------------- MODULE CatalogBuilder ---------------------------
(***************************************************************************)
(* catalog.Builder: from the sources of the installed packages, the        *)
(* immutable catalog of interfaces, provider memberships, permissions and  *)
(* resources, each with the generation of its meaning.  A source is added  *)
(* whole, in the order of its authority, or the build fails and names it.  *)
(* An identifier is a model value; what the code reads off its prefixes is *)
(* the function Namespace.  Contents the catalog compares but does not     *)
(* look into (schema, methods, events, labels' values) are one value.      *)
(***************************************************************************)
EXTENDS Naturals, FiniteSets, Functions

CONSTANTS
    Kernel,        \* package id of the kernel's own source
    Order,         \* position of a package id, type or role in the order of ids
    Namespace,     \* identifier |-> the packages whose prefix it has, and Standard
    Standard,      \* the reserved prefixes "nervus." and "perm."
    Unnamed,       \* a failure that no source is blamed for
    None,
    Bootstrap,     \* the kernel's own sources
    MaxRevision    \* bound: catalogs of one boot

ASSUME BuilderAssumption ==
    /\ MaxRevision \in Nat /\ Unnamed # None /\ Kernel # None
    /\ IsFiniteSet(Bootstrap) /\ \A s \in Bootstrap : s.pkg = Kernel /\ s.class = "kernel"

Class == {"kernel", "platform", "oem", "image", "app"}
Risk == {"normal", "privacy", "physical", "critical"}

\* sourceRank
Rank == [kernel |-> 0, platform |-> 1, oem |-> 2, image |-> 3, app |-> 4]
PlatformRelease(s) == s.class \in {"kernel", "platform"}
OEMService(s) == PlatformRelease(s) \/ s.class = "oem"

Owner(s) == [pkg |-> s.pkg, class |-> s.class, signer |-> s.signer]

----------------------------------------------------------------------------
(***************************************************************************)
(* May a source say this?                                                  *)
(***************************************************************************)
\* authorizeRisk
MayDeclare(s, risk, resource) ==
    \/ s.class = "kernel"
    \/ CASE risk = "critical" -> PlatformRelease(s)
         [] risk = "physical" -> OEMService(s)
         [] risk = "privacy" -> resource => OEMService(s)
         [] OTHER -> TRUE

\* The reserved prefix is the platform's; any other name must have the prefix
\* of the package.  Package ids hold dots: an id may have that of several.
MayName(s, id) ==
    IF Standard \in Namespace[id] THEN PlatformRelease(s) ELSE s.pkg \in Namespace[id]

\* indexExports: one component for an interface; what is exported is
\* declared, and the other way round except for the kernel's, of which some
\* are only contracts for others to implement.
ExportsMatch(s) ==
    LET declared == {i.id : i \in s.interfaces}
        exported == {e.id : e \in s.exports}
    IN  /\ \A e, f \in s.exports : e.id = f.id => e = f
        /\ exported \subseteq declared
        /\ s.class # "kernel" => exported = declared

Contract(i) == [id |-> i.id, major |-> i.major, schema |-> i.schema,
                requires |-> i.requires, calls |-> i.calls, types |-> i.types,
                default |-> i.default, risk |-> i.risk]
Defining(defs, i) == {d \in defs : d.id = i.id /\ d.major = i.major}

PermissionsFit(next, s) ==
    /\ \A p, q \in s.permissions : p.id = q.id => p = q
    /\ \A p \in s.permissions :
           /\ MayName(s, p.id) /\ MayDeclare(s, p.risk, FALSE)
           /\ p.grant = "normal" => p.risk = "normal"
           /\ \A q \in next.permissions : q.id # p.id

\* The first source to define an interface owns it; another may implement
\* it under the same contract, and a standard one only with OEM authority.
InterfacesFit(next, s) ==
    /\ \A i, j \in s.interfaces : i.id = j.id /\ i.major = j.major => i = j
    /\ \A i \in s.interfaces :
           /\ MayDeclare(s, i.risk, FALSE)
           /\ IF Defining(next.interfaces, i) = {}
              THEN MayName(s, i.id)
              ELSE /\ \A d \in Defining(next.interfaces, i) : Contract(d) = Contract(i)
                   /\ Standard \in Namespace[i.id] => OEMService(s)

\* authorizeResource: a standard type only from the platform, or from an OEM
\* once an interface has made it known.
MayManage(s, known, r) ==
    /\ MayDeclare(s, r.risk, TRUE)
    /\ r.label # None => MayName(s, r.label)
    /\ IF Standard \in Namespace[r.type]
       THEN PlatformRelease(s) \/ (OEMService(s) /\ r.type \in known)
       ELSE s.pkg \in Namespace[r.type]

Manager(s) == IF s.class = "kernel" THEN None ELSE Owner(s)
SameResource(d, r) == d.type = r.type /\ d.role = r.role

\* One contract and one manager for a resource.
ResourcesFit(next, s) ==
    LET known == UNION {i.types : i \in next.interfaces \cup s.interfaces}
    IN  /\ \A r, t \in s.resources : SameResource(r, t) => r = t
        /\ \A r \in s.resources :
               /\ MayManage(s, known, r)
               /\ \A d \in {d \in next.resources : SameResource(d, r)} :
                      /\ d.risk = r.risk /\ d.label = r.label
                      /\ d.manager = None \/ Manager(s) = None

Fits(next, s) ==
    /\ ExportsMatch(s) /\ PermissionsFit(next, s)
    /\ InterfacesFit(next, s) /\ ResourcesFit(next, s)

----------------------------------------------------------------------------
(***************************************************************************)
(* What a source adds.                                                     *)
(***************************************************************************)
Empty == [interfaces |-> {}, providers |-> {}, permissions |-> {}, resources |-> {}]

\* A definition with one more field.
With(def, field, value) ==
    [f \in DOMAIN def \cup {field} |-> IF f = field THEN value ELSE def[f]]

Exporter(s, i) == (CHOOSE e \in s.exports : e.id = i.id).component

Add(next, s) ==
    [interfaces |-> next.interfaces \cup
         {With(Contract(i), "owner", Owner(s)) :
             i \in {j \in s.interfaces : Defining(next.interfaces, j) = {}}},
     providers |-> next.providers \cup
         {[pkg |-> s.pkg, id |-> i.id, major |-> i.major,
           component |-> Exporter(s, i), owner |-> Owner(s)] :
             i \in {j \in s.interfaces : \E e \in s.exports : e.id = j.id}},
     permissions |-> next.permissions \cup
         {[id |-> p.id, grant |-> p.grant, risk |-> p.risk, owner |-> Owner(s)] :
             p \in s.permissions},
     resources |->
         {d \in next.resources : \A r \in s.resources : ~SameResource(d, r)}
         \cup {[d EXCEPT !.manager = IF @ = None THEN Manager(s) ELSE @] :
                  d \in {d \in next.resources : \E r \in s.resources : SameResource(d, r)}}
         \cup {[type |-> r.type, role |-> r.role, label |-> r.label, risk |-> r.risk,
                 owner |-> Owner(s), manager |-> Manager(s)] :
                  r \in {r \in s.resources :
                            \A d \in next.resources : ~SameResource(d, r)}}]

\* Mutant: by package id alone.
Before_ById(s, t) == Order[s.pkg] < Order[t.pkg]

Before(s, t) ==
    \/ Rank[s.class] < Rank[t.class]
    \/ Rank[s.class] = Rank[t.class] /\ Order[s.pkg] < Order[t.pkg]

Ordered(sources) ==
    [n \in 1..Cardinality(sources) |->
        CHOOSE s \in sources : Cardinality({t \in sources : Before(t, s)}) = n - 1]

\* One source of a package; nothing is looked at after the first that does
\* not fit.
Start == [fault |-> None, next |-> Empty, seen |-> {}]
Step(before, s) ==
    IF before.fault # None THEN before
    ELSE IF s.pkg \notin before.seen /\ Fits(before.next, s)
         THEN [fault |-> None, next |-> Add(before.next, s),
               seen |-> before.seen \cup {s.pkg}]
         ELSE [before EXCEPT !.fault = s.pkg]

Merge(sources) ==
    LET order == Ordered(sources)
        upto[n \in 0..Cardinality(sources)] ==
            IF n = 0 THEN Start ELSE Step(upto[n - 1], order[n])
    IN  upto[Cardinality(sources)]

----------------------------------------------------------------------------
(***************************************************************************)
(* The checks of the whole, and the generations.                           *)
(***************************************************************************)
\* validateGlobalPermissionReferences
PermissionsDefined(next) ==
    UNION {i.requires \cup i.calls : i \in next.interfaces}
        \subseteq {p.id : p \in next.permissions}

\* buildResourceHandleIndex: a resource's handle is its role.
HandlesUnique(next) == \A d, e \in next.resources : d.role = e.role => d = e

Meaning(def) == Restrict(def, DOMAIN def \ {"generation", "definition"})

\* Mutant: every definition takes the generation of its catalog.
Generation_Revision(previous, defs, def) == previous.revision + 1

\* A definition that means what it meant in the catalog before keeps its
\* generation; any other takes the new revision.
Generation(previous, defs, def) ==
    IF \E old \in defs : Meaning(old) = def
    THEN (CHOOSE old \in defs : Meaning(old) = def).generation
    ELSE previous.revision + 1

Stamped(previous, defs, def) == With(def, "generation", Generation(previous, defs, def))

\* A membership also changes its generation when its interface's changes.
StampedProvider(previous, interfaces, p) ==
    LET definition == (CHOOSE d \in Defining(interfaces, p) : TRUE).generation
        kept == {old \in previous.providers :
                    Meaning(old) = p /\ old.definition = definition}
    IN  With(With(p, "definition", definition),
             "generation", Generation(previous, kept, p))

Assign(previous, next) ==
    LET interfaces == {Stamped(previous, previous.interfaces, i) : i \in next.interfaces}
    IN  [revision |-> previous.revision + 1,
         interfaces |-> interfaces,
         providers |-> {StampedProvider(previous, interfaces, p) : p \in next.providers},
         permissions |->
             {Stamped(previous, previous.permissions, p) : p \in next.permissions},
         resources |-> {Stamped(previous, previous.resources, r) : r \in next.resources}]

Nothing == [revision |-> 0, interfaces |-> {}, providers |-> {}, permissions |-> {},
            resources |-> {}]
Failed(fault) == [fault |-> fault, snapshot |-> Nothing]

\* Builder.Build.  A malformed source is found before the order is made.
Build(previous, sources) ==
    IF \E s \in sources : ~s.intact
    THEN Failed((CHOOSE s \in sources : ~s.intact).pkg)
    ELSE LET merged == Merge(sources)
         IN  IF merged.fault # None THEN Failed(merged.fault)
             ELSE IF PermissionsDefined(merged.next) /\ HandlesUnique(merged.next)
                  THEN [fault |-> None, snapshot |-> Assign(previous, merged.next)]
                  ELSE Failed(Unnamed)

----------------------------------------------------------------------------
(***************************************************************************)
(* What a reader of a snapshot finds.                                      *)
(***************************************************************************)
InterfaceIn(snap, id, major) ==
    {d \in snap.interfaces : d.id = id /\ d.major = major}
ProviderIn(snap, pkg, id, major) ==
    {p \in snap.providers : p.pkg = pkg /\ p.id = id /\ p.major = major}
ProvidersIn(snap, id, majors) ==
    {p \in snap.providers : p.id = id /\ p.major \in majors}
ResourceIn(snap, type, role) ==
    {r \in snap.resources : r.type = type /\ r.role = role}
ByHandle(snap, handle) == {r \in snap.resources : r.role = handle}

\* FilterResources: a field the selector leaves None matches anything.
Filter(snap, sel) ==
    {r \in snap.resources :
        /\ sel.type \in {None, r.type} /\ sel.role \in {None, r.role}
        /\ sel.label \in {None, r.label}}

\* SelectResources: only the preferred policy takes one of several, the first
\* by type and role.
Select(snap, sel) ==
    LET matched == Filter(snap, sel)
        Earlier(r, t) == \/ Order[r.type] < Order[t.type]
                         \/ Order[r.type] = Order[t.type] /\ Order[r.role] < Order[t.role]
    IN  IF sel.preferred THEN {r \in matched : \A t \in matched \ {r} : Earlier(r, t)}
        ELSE IF Cardinality(matched) = 1 THEN matched ELSE {}
=============================================================================
