-------------------------- MODULE CatalogRegistry --------------------------
(***************************************************************************)
(* catalog.Registry over the life of a machine.  A boot builds the kernel's *)
(* own catalog, then one with the packages found on the disk, leaving out   *)
(* those the builder blames (pkgregistry's prepareEntriesQuarantining).     *)
(* While it is up, callers prepare a candidate with one package installed,  *)
(* replaced or removed, all or nothing, and publish it by a compare and     *)
(* swap of the current snapshot.                                            *)
(***************************************************************************)
EXTENDS CatalogBuilder

CONSTANTS
    Image,         \* the contents a system image may have, as sets of sources
    App,           \* sources that may be installed while the machine runs
    Caller         \* users of the registry

ASSUME CatalogAssumption ==
    /\ \A i \in Image : \A s \in i : s.class \in {"platform", "oem", "image"}
    /\ \A s \in App : s.class = "app"
    /\ \A i \in Image : IsFiniteSet(i)
    /\ \A s \in App \cup UNION Image : s.pkg # None

\* Ids are told apart by their order, the kernel has one source and manages
\* resources of reserved types (DefaultBootstrap), and an image holds a package
\* once.  It may ship one that is installed as an app as well.
ASSUME SourceAssumption ==
    /\ \A s \in Bootstrap \cup App \cup UNION Image :
           Order[s.pkg] \in Nat /\ Owner(s) # None
    /\ \A s, t \in Bootstrap \cup App \cup UNION Image :
           Order[s.pkg] = Order[t.pkg] => s.pkg = t.pkg
    /\ \A s, t \in Bootstrap : s = t
    /\ \A s \in Bootstrap : \A r \in s.resources : Standard \in Namespace[r.type]
    /\ \A i \in Image : \A s, t \in i : s.pkg = t.pkg => s = t
    /\ \A s \in App \cup UNION Image : s.pkg # Unnamed

VARIABLES
    phase,      \* "down", "up", or "failed": Start returned an error
    disk,       \* the sources of the packages on the disk
    active,     \* those the package registry holds, of the current catalog
    current,    \* Registry.current
    candidate,  \* caller |-> what it has prepared
    seen        \* every definition this boot has published, for the properties

catalogVars == <<phase, disk, active, current, candidate, seen>>

Source == App \cup UNION Image
Definitions(snap) ==
    snap.interfaces \cup snap.providers \cup snap.permissions \cup snap.resources

\* An image and the ledgers of the apps each hold a package once.
Installed(s) == s.class = "app"
SameEntry(s, t) == s.pkg = t.pkg /\ (Installed(s) <=> Installed(t))

CatalogTypeOK ==
    /\ phase \in {"down", "up", "failed"}
    /\ disk \subseteq Source /\ active \subseteq disk
    /\ \A s, t \in disk : SameEntry(s, t) => s = t
    /\ current.revision \in 0..MaxRevision
    /\ DOMAIN candidate = Caller
    /\ phase # "up" => active = {} /\ current = Nothing /\ seen = {}

CatalogInit ==
    /\ phase = "down" /\ disk \in Image /\ active = {} /\ current = Nothing
    /\ candidate = [c \in Caller |-> None] /\ seen = {}

----------------------------------------------------------------------------
\* NewRegistry: the first catalog is the kernel's alone.
First == Build(Nothing, Bootstrap).snapshot

\* dropEntry: the first entry of the package, and a scan lists the system
\* image's before the installed ones.
FirstOf(S, pkg) ==
    LET shipped == {s \in S : s.pkg = pkg /\ ~Installed(s)}
    IN  IF shipped # {} THEN shipped ELSE {s \in S : s.pkg = pkg}

\* prepareEntriesQuarantining: leave out an entry of the package that is blamed
\* and build again; a failure that blames no package on the disk is final.
Quarantine(previous, sources) ==
    LET rest[S \in SUBSET sources] ==
            LET built == Build(previous, Bootstrap \cup S)
                victims == FirstOf(S, built.fault)
            IN  IF built.fault # None /\ victims # {}
                THEN rest[S \ victims]
                ELSE [built |-> built, kept |-> S]
    IN  rest[sources]

Boot ==
    /\ phase = "down"
    /\ LET result == Quarantine(First, disk)
       IN  IF result.built.fault = None
           THEN /\ phase' = "up" /\ active' = result.kept
                /\ current' = result.built.snapshot
                /\ seen' = Definitions(First) \cup Definitions(result.built.snapshot)
           ELSE /\ phase' = "failed" /\ UNCHANGED <<active, current, seen>>
    /\ UNCHANGED <<disk, candidate>>

\* What is installed replaces the package; None removes it.
Changed(sources, pkg, s) ==
    {t \in sources : t.pkg # pkg} \cup (IF s = None THEN {} ELSE {s})

Candidate(pkg, s) ==
    LET built == Build(current, Bootstrap \cup Changed(active, pkg, s))
    IN  [pkg |-> pkg, source |-> s, base |-> current, active |-> active,
         fault |-> built.fault, snapshot |-> built.snapshot]

\* Registry.Prepare: a failed build leaves nothing.  A package that is up from
\* the system image is neither replaced nor removed (ErrSystemPackageImmutable).
Prepare(c, pkg, s) ==
    /\ phase = "up" /\ candidate[c] = None /\ current.revision < MaxRevision
    /\ \A t \in active : t.pkg = pkg => Installed(t)
    /\ s = None => \E t \in active : t.pkg = pkg
    /\ s # None => s.pkg = pkg /\ s \notin active
    /\ LET new == Candidate(pkg, s)
       IN  /\ new.fault = None
           /\ candidate' = [candidate EXCEPT ![c] = new]
    /\ UNCHANGED <<phase, disk, active, current, seen>>

\* Mutant: the base is not compared.
Fresh_Always(c) == TRUE

Fresh(c) == candidate[c].base = current

\* Registry.Publish: nothing happens when another catalog has been published
\* since the candidate was prepared.
Publish(c) ==
    /\ candidate[c] # None
    /\ candidate' = [candidate EXCEPT ![c] = None]
    /\ LET new == candidate[c]
       IN  IF Fresh(c)
           THEN /\ current' = new.snapshot
                /\ active' = Changed(new.active, new.pkg, new.source)
                /\ disk' = {t \in disk : ~Installed(t)}
                            \cup Changed({t \in disk : Installed(t)}, new.pkg, new.source)
                /\ seen' = seen \cup Definitions(new.snapshot)
           ELSE UNCHANGED <<current, active, disk, seen>>
    /\ UNCHANGED phase

\* The machine restarts, perhaps with another system image.
Restart(image) ==
    /\ phase # "down"
    /\ phase' = "down" /\ disk' = {s \in disk : Installed(s)} \cup image
    /\ active' = {} /\ current' = Nothing /\ seen' = {}
    /\ candidate' = [c \in Caller |-> None]

Change == \E c \in Caller, s \in App : Prepare(c, s.pkg, s) \/ Prepare(c, s.pkg, None)
CatalogNext ==
    \/ Boot \/ Change
    \/ \E c \in Caller : Publish(c)
    \/ \E image \in Image : Restart(image)

CatalogSpec == CatalogInit /\ [][CatalogNext]_catalogVars

----------------------------------------------------------------------------
\* A generation identifies one meaning for as long as the machine is up: of
\* all the definitions ever published under a name, no two with the same
\* generation differ.  This is what makes a route's comparison of generations
\* a comparison of contracts, removal and return included
\* (assignDefinitionGenerations; Registry.Publish's compare and swap).
Name(def) == Restrict(def, DOMAIN def \cap {"pkg", "id", "major", "type", "role"})
GenerationIdentifies ==
    \A d, e \in seen :
        Name(d) = Name(e) /\ d.generation = e.generation => d = e

\* Two packages on the disk have one id: the image ships an installed app.
\* The blame for either falls on the image's, whatever is wrong with the app.
Shared(s) == \E t \in disk : t.pkg = s.pkg /\ t # s

\* A boot leaves out no package that would have fitted: with any one of the
\* quarantined put back, the catalog is refused (dropEntry, one per round).
\* It may, of a package that shares its id or comes after one that does.
VictimIsGuilty ==
    phase = "down" =>
        LET result == Quarantine(First, disk)
        IN  result.built.fault = None =>
                \A s \in disk \ result.kept :
                    (\A t \in disk : Shared(t) => Before(s, t)) =>
                        Build(First, Bootstrap \cup result.kept \cup {s}).fault # None

\* No package is left out of a boot because of one of less authority: what is
\* kept of a rank and above does not depend on what is found below it, as long
\* as no package of them shares its id.
AuthorityIsSheltered ==
    phase = "down" =>
        LET result == Quarantine(First, disk)
        IN  result.built.fault = None =>
                \A rank \in 0..4 :
                    LET Above(S) == {s \in S : Rank[s.class] <= rank}
                        alone == Quarantine(First, Above(disk))
                    IN  (\A s \in Above(disk) : ~Shared(s)) /\ alone.built.fault = None
                            => alone.kept = Above(result.kept)

QuarantineIsJust == VictimIsGuilty /\ AuthorityIsSheltered

\* Installing, replacing or removing a package ends only what touches it:
\* every other membership and resource, of which neither the provider nor the
\* owner of the interface is that package, keeps its generation and with it
\* the routes that hold it.  The owner of an interface may be that package from
\* now on: one that comes first and may name it takes it over from another.
Touches(def, pkg, before, after) ==
    \/ def.owner.pkg = pkg
    \/ "definition" \in DOMAIN def
       /\ \E d \in InterfaceIn(before, def.id, def.major)
                     \cup InterfaceIn(after, def.id, def.major) : d.owner.pkg = pkg
ChangeIsLocal ==
    [][\A c \in Caller :
          candidate[c] # None /\ candidate'[c] = None /\ current' # current /\ phase' = "up" =>
              \A d \in current.providers \cup current.resources :
                  Touches(d, candidate[c].pkg, current, current')
                  \/ d \in current'.providers \cup current'.resources]_catalogVars
=============================================================================
