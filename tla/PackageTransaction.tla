------------------------- MODULE PackageTransaction -------------------------
(***************************************************************************)
(* Packages between the disk and memory: pkgregistry.Module's Install,     *)
(* Uninstall, SetComponentEnabled and Start, and permission.Registry's     *)
(* SetRuntimeState with the projection of a consent to the ACL of the      *)
(* user's documents.                                                       *)
(*                                                                         *)
(* The disk holds a ledger and the code directories of each package, its   *)
(* private data directory, the recorded consents, the ACL and the          *)
(* allocator of UIDs.  Memory holds four projections that readers take     *)
(* without a lock: identity, registry, permission and catalog.  One mutex  *)
(* serialises the transactions; a decision about a consent does not take   *)
(* it.  Any step of a transaction may fail and the machine may lose power  *)
(* between two of them.                                                    *)
(***************************************************************************)
EXTENDS Naturals, FiniteSets

CONSTANTS
    Package,      \* package ids
    System,       \* those in the system image, exempt from consent
    Version,      \* releases of a package, and of the system image
    Code,         \* version code of a release: what an upgrade compares
    Dir,          \* version string of a release: the name of its directory
    Image,        \* releases of the system image an update may install
    Clash,        \* <<image, package, release>>: catalog.Build rejects the package
    Component,    \* component ids of every package
    Disableable,  \* components of a system package that may be disabled
    Thread,       \* connections that set consents
    MaxUid,       \* bound: UIDs handed out
    MaxFaults,    \* bound: failed steps and power losses
    None

Installer == "installer"     \* the transaction, when it sets a consent itself
Uid == 1..MaxUid

ASSUME PackageAssumption ==
    /\ System \subseteq Package /\ Disableable \subseteq Component
    /\ Image \subseteq Version /\ Version \subseteq Nat \ {0} /\ Image # {}
    /\ \A v \in Version : Code[v] \in Nat \ {0}
    /\ \A v, w \in Version : Dir[v] = Dir[w] /\ Code[v] = Code[w] => v = w
    /\ MaxUid \in Nat /\ MaxFaults \in Nat /\ Installer \notin Thread

VARIABLES
    ledger,    \* registryState on disk, None: no file
    nextUid,   \* _allocator.json
    code,      \* releases whose tree is in a code directory
    data,      \* owner of the private data directory, 0: none
    grant,     \* _grants.json
    acl,       \* UIDs with an entry on the user's documents
    image,     \* the system image on disk
    phase,     \* of the kernel
    ident,     \* identity.Registry: package |-> UID, 0: unknown
    reg,       \* pkgregistry.Registry: package |-> Entry
    perm,      \* permission.Registry: packages with the install grant
    cat,       \* catalog: provider's release, 0: not routable
    running,   \* service: component instances, by package
    tx,        \* the transaction that holds Module.mu
    setter,    \* calls of SetRuntimeState in progress
    faults

disk == <<ledger, nextUid, code, data, grant, acl, image>>
memory == <<ident, reg, perm, cat, running>>
vars == <<disk, memory, phase, tx, setter, faults>>

Ledger == [version : Version, code : Nat, uid : Uid,
           disabled : SUBSET Component, removal : BOOLEAN]
Entry == [version : Version, uid : Uid, disabled : SUBSET Component]
Transaction ==
    [op : {"install", "remove", "disable", "enable", "boot"}, pkg : Package,
     version : Version \cup {0}, component : Component \cup {None},
     at : {"uid", "bare", "code", "user", "data", "ledger", "ident", "reg",
           "perm", "cat", "consent", "reload", "undo", "stop", "clear", "acl",
           "rmcode", "rmdata", "rmledger"},
     prev : Ledger \cup {None}, uid : 0..MaxUid, placed : BOOLEAN,
     made : BOOLEAN]
Call == [at : {"decide", "find", "write"}, pkg : Package, allowed : BOOLEAN,
         uid : 0..MaxUid, copy : SUBSET Uid]

ASSUME NoneAssumption ==
    None \notin Ledger /\ None \notin Entry /\ None \notin Transaction /\ None \notin Call

TypeOK ==
    /\ ledger \in [Package -> Ledger \cup {None}] /\ nextUid \in 1..(MaxUid + 1)
    /\ code \in [Package -> SUBSET Version] /\ data \in [Package -> 0..MaxUid]
    /\ grant \in [Package -> {"none", "granted", "denied"}] /\ acl \subseteq Uid
    /\ image \in Image /\ phase \in {"down", "scanned", "published", "up"}
    /\ ident \in [Package -> 0..MaxUid] /\ reg \in [Package -> Entry \cup {None}]
    /\ perm \subseteq Package /\ cat \in [Package -> Version \cup {0}]
    /\ running \in [Package -> SUBSET Component]
    /\ tx \in Transaction \cup {None}
    /\ setter \in [Thread \cup {Installer} -> Call \cup {None}]
    /\ faults \in 0..MaxFaults

Init ==
    /\ ledger = [p \in Package |-> None] /\ nextUid = 1
    /\ code = [p \in Package |-> {}] /\ data = [p \in Package |-> 0]
    /\ grant = [p \in Package |-> "none"] /\ acl = {} /\ image \in Image
    /\ phase = "down"
    /\ ident = [p \in Package |-> 0] /\ reg = [p \in Package |-> None]
    /\ perm = {} /\ cat = [p \in Package |-> 0]
    /\ running = [p \in Package |-> {}]
    /\ tx = None /\ setter = [t \in Thread \cup {Installer} |-> None]
    /\ faults = 0

----------------------------------------------------------------------------
(***************************************************************************)
(* What the transactions share.                                            *)
(***************************************************************************)
At(op, step) == tx # None /\ tx.op = op /\ tx.at = step
Held(op, p, v, c, step) ==
    [op |-> op, pkg |-> p, version |-> v, component |-> c, at |-> step,
     prev |-> ledger[p], uid |-> 0, placed |-> FALSE, made |-> FALSE]
Goto(step) == tx' = [tx EXCEPT !.at = step]
Fault == faults < MaxFaults /\ faults' = faults + 1
NoFault == UNCHANGED faults
Had == tx.prev # None
Replacing == Had /\ Dir[tx.prev.version] = Dir[tx.version]

\* The tree in the directory that a release names: of that release, or of
\* another with the same version string.
Tree(p, v) == {w \in code[p] : Dir[w] = Dir[v]}

\* stableUID: a ledger's UID is kept; else the allocator's next one is taken,
\* and written before the ledger that uses it.
Allocate(next) ==
    /\ nextUid \in Uid
    /\ nextUid' = nextUid + 1
    /\ tx' = [tx EXCEPT !.at = next, !.uid = nextUid]

\* The ledger stableUID leaves: no version code, no lineage.
Bare(version, uid) ==
    [version |-> version, code |-> 0, uid |-> uid, disabled |-> {},
     removal |-> FALSE]

\* Both halves of stableUID, for a package that has no ledger.
TakeUid ==
    /\ tx # None /\ tx.at = "uid" /\ ledger[tx.pkg] = None
    /\ Allocate("bare")
    /\ UNCHANGED <<ledger, code, data, grant, acl, image, memory, phase, setter, faults>>

WriteBare ==
    /\ tx # None /\ tx.at = "bare"
    /\ ledger' = [ledger EXCEPT ![tx.pkg] = Bare(tx.version, tx.uid)]
    /\ tx' = IF tx.op = "boot" THEN None ELSE [tx EXCEPT !.at = "code"]
    /\ UNCHANGED <<nextUid, code, data, grant, acl, image, memory, phase, setter, faults>>

----------------------------------------------------------------------------
(***************************************************************************)
(* Install.  The signature, digest and ABI checks precede every change;    *)
(* their verdict, and an upgrade's lineage, are a choice of the            *)
(* environment: a refusal there changes nothing.                           *)
(***************************************************************************)
Rejected(p, v) == <<image, p, v>> \in Clash

\* checkUpgrade: no downgrade.  A ledger that stableUID has written and no
\* installation has completed has version code 0 and no lineage to continue.
Upgradable(prev, v) == Code[v] >= prev.code

\* The admission: not over the system image, not over a pending removal, not a
\* downgrade, and with a catalog that accepts the whole set.
BeginInstall(p, v) ==
    /\ phase = "up" /\ tx = None /\ p \notin System
    /\ ledger[p] # None => ~ledger[p].removal /\ Upgradable(ledger[p], v)
    /\ ~Rejected(p, v)
    /\ tx' = [Held("install", p, v, None, IF ledger[p] = None THEN "uid" ELSE "code")
                EXCEPT !.uid = IF ledger[p] = None THEN 0 ELSE ledger[p].uid]
    /\ UNCHANGED <<disk, memory, phase, setter, faults>>

\* InstallVerifiedPackage: exchange with the tree in the directory of that
\* version string, or a rename that refuses an existing target; either fails if
\* the disk is not as assumed.
PutCode ==
    /\ At("install", "code")
    /\ Replacing <=> Tree(tx.pkg, tx.version) # {}
    /\ code' = [code EXCEPT ![tx.pkg] = (@ \ Tree(tx.pkg, tx.version)) \cup {tx.version}]
    /\ tx' = [tx EXCEPT !.at = "user", !.placed = TRUE]
    /\ UNCHANGED <<ledger, nextUid, data, grant, acl, image, memory, phase, setter, faults>>

CodeRefused ==
    /\ At("install", "code")
    /\ ~(Replacing <=> Tree(tx.pkg, tx.version) # {})
    /\ Goto("undo")
    /\ UNCHANGED <<disk, memory, phase, setter, faults>>

EnsureUser ==
    /\ At("install", "user")
    /\ Goto(IF Had THEN "ledger" ELSE "data")
    /\ UNCHANGED <<disk, memory, phase, setter, faults>>

\* CreatePrivateDataDirectory refuses a directory that is there.
MakeData ==
    /\ At("install", "data")
    /\ IF data[tx.pkg] = 0
       THEN /\ data' = [data EXCEPT ![tx.pkg] = tx.uid]
            /\ tx' = [tx EXCEPT !.at = "ledger", !.made = TRUE]
       ELSE /\ Goto("undo") /\ UNCHANGED data
    /\ UNCHANGED <<ledger, nextUid, code, grant, acl, image, memory, phase, setter, faults>>

Carried == IF Had THEN tx.prev.disabled ELSE {}

SaveLedger ==
    /\ At("install", "ledger")
    /\ ledger' = [ledger EXCEPT ![tx.pkg] =
           [version |-> tx.version, code |-> Code[tx.version], uid |-> tx.uid,
            disabled |-> Carried, removal |-> FALSE]]
    /\ Goto("ident")
    /\ UNCHANGED <<nextUid, code, data, grant, acl, image, memory, phase, setter, faults>>

\* Each projection is replaced in one atomic store.
ReplaceIdentity(p, uid) ==
    ident' = [ident EXCEPT ![p] = uid] /\ UNCHANGED <<reg, perm, cat>>
ReplaceEntry(p, entry) ==
    reg' = [reg EXCEPT ![p] = entry] /\ UNCHANGED <<ident, perm, cat>>
ReplaceGrants(holders) == perm' = holders /\ UNCHANGED <<ident, reg, cat>>
PublishCatalog(p, version) ==
    cat' = [cat EXCEPT ![p] = version] /\ UNCHANGED <<ident, reg, perm>>

\* publishCatalogLast: identity, registry, grants, and the catalog last.
Publish ==
    /\ tx # None /\ tx.op = "install"
    /\ LET p == tx.pkg IN
       \/ tx.at = "ident" /\ Goto("reg") /\ ReplaceIdentity(p, tx.uid)
       \/ tx.at = "reg" /\ Goto("perm")
          /\ ReplaceEntry(p, [version |-> tx.version, uid |-> tx.uid, disabled |-> Carried])
       \/ tx.at = "perm" /\ Goto("cat") /\ ReplaceGrants(perm \cup {p})
       \/ tx.at = "cat" /\ Goto("consent") /\ PublishCatalog(p, tx.version)
    /\ UNCHANGED <<disk, running, phase, setter, faults>>

\* applyInstallConsent: only what nobody has decided yet becomes granted, and
\* a failure is only audited.
Consent ==
    /\ At("install", "consent") /\ setter[Installer] = None
    /\ Goto("reload")
    /\ \/ /\ grant[tx.pkg] = "none"
          /\ grant' = [grant EXCEPT ![tx.pkg] = "granted"]
          /\ setter' = [setter EXCEPT ![Installer] =
                 [at |-> "decide", pkg |-> tx.pkg, allowed |-> FALSE, uid |-> 0, copy |-> {}]]
          /\ NoFault
       \/ grant[tx.pkg] # "none" /\ NoFault /\ UNCHANGED <<grant, setter>>
       \/ grant[tx.pkg] = "none" /\ Fault /\ UNCHANGED <<grant, setter>>
    /\ UNCHANGED <<ledger, nextUid, code, data, acl, image, memory, phase>>

\* After an upgrade the running components are restarted from the new entry;
\* one that does not stop in time stays, and Install reports ErrReloadPending.
Reload ==
    /\ At("install", "reload") /\ setter[Installer] = None
    /\ tx' = None
    /\ \/ NoFault /\ running' = [running EXCEPT ![tx.pkg] = @ \ Carried]
       \/ Had /\ Fault /\ UNCHANGED running
    /\ UNCHANGED <<disk, ident, reg, perm, cat, phase, setter>>

\* A step before the commit fails.  What was there before InstallVerifiedPackage
\* is not undone.
InstallFails ==
    /\ tx # None /\ tx.op = "install"
    /\ tx.at \in {"uid", "bare", "code", "user", "data", "ledger"}
    /\ Fault /\ Goto("undo")
    /\ UNCHANGED <<disk, memory, phase, setter>>

\* Mutant: the compensation removes the code a same-version install replaced.
Undo_Replaced ==
    /\ At("install", "undo") /\ tx' = None
    /\ code' = [code EXCEPT ![tx.pkg] = IF tx.placed THEN @ \ Tree(tx.pkg, tx.version) ELSE @]
    /\ data' = [data EXCEPT ![tx.pkg] = IF tx.made THEN 0 ELSE @]
    /\ UNCHANGED <<ledger, nextUid, grant, acl, image, memory, phase, setter, faults>>

\* The compensation: the new code directory unless it replaced one, and the
\* data directory this transaction made.  Its own failure is only audited.
Undo ==
    /\ At("install", "undo")
    /\ tx' = None
    /\ \/ NoFault
          /\ code' = [code EXCEPT ![tx.pkg] =
                 IF tx.placed /\ ~Replacing THEN @ \ Tree(tx.pkg, tx.version) ELSE @]
          /\ data' = [data EXCEPT ![tx.pkg] = IF tx.made THEN 0 ELSE @]
       \/ tx.placed /\ ~Replacing /\ Fault /\ UNCHANGED code
          /\ data' = [data EXCEPT ![tx.pkg] = IF tx.made THEN 0 ELSE @]
       \/ tx.made /\ Fault /\ UNCHANGED data
          /\ code' = [code EXCEPT ![tx.pkg] =
                 IF tx.placed /\ ~Replacing THEN @ \ Tree(tx.pkg, tx.version) ELSE @]
    /\ UNCHANGED <<ledger, nextUid, grant, acl, image, memory, phase, setter>>

----------------------------------------------------------------------------
(***************************************************************************)
(* Uninstall.  The tombstone is on disk before anything is taken away; a   *)
(* failure leaves it there and the call may be made again.                 *)
(***************************************************************************)
BeginRemove(p) ==
    /\ phase = "up" /\ tx = None /\ p \notin System
    /\ \/ reg[p] # None /\ ledger[p] # None
       \/ reg[p] = None /\ ledger[p] # None /\ ledger[p].removal
    /\ ledger' = [ledger EXCEPT ![p].removal = TRUE]
    /\ tx' = [Held("remove", p, 0, None, "cat") EXCEPT !.uid = ledger[p].uid]
    /\ UNCHANGED <<nextUid, code, data, grant, acl, image, memory, phase, setter, faults>>

\* The reverse order: no route can bind from the catalog on, then the package
\* is unknown, then it has no grant, which closes the routes that rest on it.
Unpublish ==
    /\ tx # None /\ tx.op = "remove"
    /\ LET p == tx.pkg IN
       \/ tx.at = "cat" /\ Goto("reg") /\ PublishCatalog(p, 0)
       \/ tx.at = "reg" /\ Goto("ident") /\ ReplaceEntry(p, None)
       \/ tx.at = "ident" /\ Goto("perm") /\ ReplaceIdentity(p, 0)
       \/ tx.at = "perm" /\ Goto("stop") /\ ReplaceGrants(perm \ {p})
    /\ UNCHANGED <<disk, running, phase, setter, faults>>

\* Mutant: a component that does not stop does not end the call.
StopAll_Lenient ==
    /\ At("remove", "stop") /\ Goto("clear")
    /\ \/ NoFault /\ running' = [running EXCEPT ![tx.pkg] = {}]
       \/ Fault /\ \E left \in SUBSET running[tx.pkg] :
             running' = [running EXCEPT ![tx.pkg] = left]
    /\ UNCHANGED <<disk, ident, reg, perm, cat, phase, setter>>

\* Every component of the tombstone is stopped and the leases are withdrawn;
\* an error in either lets the rest of this step run, and ends the call.
StopAll ==
    /\ At("remove", "stop")
    /\ \/ /\ NoFault /\ Goto("clear")
          /\ running' = [running EXCEPT ![tx.pkg] = {}]
       \/ /\ Fault /\ tx' = None
          /\ \E left \in SUBSET running[tx.pkg] :
                running' = [running EXCEPT ![tx.pkg] = left]
    /\ UNCHANGED <<disk, ident, reg, perm, cat, phase, setter>>

ClearGrants ==
    /\ At("remove", "clear") /\ Goto("acl")
    /\ grant' = [grant EXCEPT ![tx.pkg] = "none"]
    /\ UNCHANGED <<ledger, nextUid, code, data, acl, image, memory, phase, setter, faults>>

AclOff ==
    /\ At("remove", "acl") /\ Goto("rmcode")
    /\ acl' = acl \ {tx.uid}
    /\ UNCHANGED <<ledger, nextUid, code, data, grant, image, memory, phase, setter, faults>>

\* RemovePackageTree may have removed some of the versions when it fails.
RemoveCode ==
    /\ At("remove", "rmcode")
    /\ \/ /\ NoFault /\ Goto("rmdata") /\ code' = [code EXCEPT ![tx.pkg] = {}]
       \/ /\ Fault /\ tx' = None
          /\ \E left \in SUBSET code[tx.pkg] : code' = [code EXCEPT ![tx.pkg] = left]
    /\ UNCHANGED <<ledger, nextUid, data, grant, acl, image, memory, phase, setter>>

RemoveData ==
    /\ At("remove", "rmdata") /\ Goto("rmledger")
    /\ data' = [data EXCEPT ![tx.pkg] = 0]
    /\ UNCHANGED <<ledger, nextUid, code, grant, acl, image, memory, phase, setter, faults>>

RemoveLedger ==
    /\ At("remove", "rmledger") /\ tx' = None
    /\ ledger' = [ledger EXCEPT ![tx.pkg] = None]
    /\ UNCHANGED <<nextUid, code, data, grant, acl, image, memory, phase, setter, faults>>

RemoveFails ==
    /\ tx # None /\ tx.op = "remove" /\ tx.at \in {"clear", "acl", "rmdata", "rmledger"}
    /\ Fault /\ tx' = None
    /\ UNCHANGED <<disk, memory, phase, setter>>

----------------------------------------------------------------------------
(***************************************************************************)
(* SetComponentEnabled: the ledger first, then the projections, then the   *)
(* running instance, whose failure to stop is only audited.                *)
(***************************************************************************)
BeginSet(p, c, op) ==
    /\ phase = "up" /\ tx = None /\ reg[p] # None /\ ledger[p] # None
    /\ op = "disable" => p \notin System \/ c \in Disableable
    /\ LET next == IF op = "disable" THEN reg[p].disabled \cup {c} ELSE reg[p].disabled \ {c} IN
       /\ next # reg[p].disabled
       /\ ledger' = [ledger EXCEPT ![p].disabled = next]
    /\ tx' = Held(op, p, 0, c, "reg")
    /\ UNCHANGED <<nextUid, code, data, grant, acl, image, memory, phase, setter, faults>>

CommitSet ==
    /\ tx # None /\ tx.op \in {"disable", "enable"} /\ tx.at = "reg"
    /\ ReplaceEntry(tx.pkg, [reg[tx.pkg] EXCEPT !.disabled = ledger[tx.pkg].disabled])
    /\ tx' = IF tx.op = "disable" THEN [tx EXCEPT !.at = "stop"] ELSE None
    /\ UNCHANGED <<disk, running, phase, setter, faults>>

StopDisabled ==
    /\ At("disable", "stop") /\ tx' = None
    /\ \/ NoFault /\ running' = [running EXCEPT ![tx.pkg] = @ \ {tx.component}]
       \/ Fault /\ UNCHANGED running
    /\ UNCHANGED <<disk, ident, reg, perm, cat, phase, setter>>

\* The service supervisor starts what the registry names and does not disable.
Launch(p, c) ==
    /\ phase = "up" /\ reg[p] # None /\ c \notin reg[p].disabled
    /\ c \notin running[p]
    /\ running' = [running EXCEPT ![p] = @ \cup {c}]
    /\ UNCHANGED <<disk, ident, reg, perm, cat, phase, tx, setter, faults>>

----------------------------------------------------------------------------
(***************************************************************************)
(* SetRuntimeState and its projection.  The state is stored under the      *)
(* permission module's lock, if the package has the install grant; the     *)
(* verdict, the package's UID and the ACL are read afterwards, without it. *)
(***************************************************************************)
Allowed(p) == p \in perm /\ (p \in System \/ grant[p] = "granted")

SetState(t, p, state) ==
    /\ phase = "up" /\ setter[t] = None /\ p \in perm
    /\ grant' = [grant EXCEPT ![p] = state]
    /\ setter' = [setter EXCEPT ![t] =
           [at |-> "decide", pkg |-> p, allowed |-> FALSE, uid |-> 0, copy |-> {}]]
    /\ UNCHANGED <<ledger, nextUid, code, data, acl, image, memory, phase, tx, faults>>

Decide(t) ==
    /\ setter[t] # None /\ setter[t].at = "decide"
    /\ setter' = [setter EXCEPT ![t].at = "find", ![t].allowed = Allowed(setter[t].pkg)]
    /\ UNCHANGED <<disk, memory, phase, tx, faults>>

\* projectUserDataAccess: a package the registry does not know is left alone.
\* SetUserDataAccess reads the whole ACL, and Project writes it.
Find(t) ==
    /\ setter[t] # None /\ setter[t].at = "find"
    /\ LET call == setter[t]  entry == reg[call.pkg] IN
       setter' = [setter EXCEPT ![t] =
           IF entry = None THEN None
           ELSE [call EXCEPT !.at = "write", !.uid = entry.uid, !.copy = acl]]
    /\ UNCHANGED <<disk, memory, phase, tx, faults>>

Project(t) ==
    /\ setter[t] # None /\ setter[t].at = "write"
    /\ acl' = IF setter[t].allowed THEN setter[t].copy \cup {setter[t].uid}
              ELSE setter[t].copy \ {setter[t].uid}
    /\ setter' = [setter EXCEPT ![t] = None]
    /\ UNCHANGED <<ledger, nextUid, code, data, grant, image, memory, phase, tx, faults>>

ProjectFails(t) ==
    /\ setter[t] # None /\ setter[t].at = "write" /\ Fault
    /\ setter' = [setter EXCEPT ![t] = None]
    /\ UNCHANGED <<disk, memory, phase, tx>>

----------------------------------------------------------------------------
(***************************************************************************)
(* The end of a run of the kernel, and Start.                              *)
(***************************************************************************)
\* Power is lost: what was in memory is gone, wherever a transaction was.
PowerLoss ==
    /\ phase # "down" \/ tx # None
    /\ Fault /\ phase' = "down"
    /\ ident' = [p \in Package |-> 0] /\ reg' = [p \in Package |-> None]
    /\ perm' = {} /\ cat' = [p \in Package |-> 0]
    /\ running' = [p \in Package |-> {}]
    /\ tx' = None /\ setter' = [t \in Thread \cup {Installer} |-> None]
    /\ UNCHANGED disk

\* An update of the system image takes effect while the kernel is down.
Update(v) ==
    /\ phase = "down" /\ tx = None /\ v # image
    /\ image' = v
    /\ UNCHANGED <<ledger, nextUid, code, data, grant, acl, memory, phase, tx, setter, faults>>

\* Mutant: the scan does not look at the tombstone.
Scannable_Pending(p) ==
    IF p \in System THEN ledger[p] # None
    ELSE /\ ledger[p] # None
         /\ ledger[p].version \in code[p] /\ ledger[p].code = Code[ledger[p].version]

\* What Scan makes of a package's files: the system image as it is, and of the
\* installed packages those whose ledger names the tree that is there, by its
\* version string and its version code.
Scannable(p) ==
    IF p \in System THEN ledger[p] # None
    ELSE /\ ledger[p] # None /\ ~ledger[p].removal
         /\ ledger[p].version \in code[p] /\ ledger[p].code = Code[ledger[p].version]

Scanned(p) ==
    IF p \in System THEN [version |-> image, uid |-> ledger[p].uid, disabled |-> {}]
    ELSE [version |-> ledger[p].version, uid |-> ledger[p].uid,
          disabled |-> ledger[p].disabled]

\* The catalog's rounds of quarantine end with the packages it accepts.
Accepted == {p \in Package : Scannable(p) /\ ~Rejected(p, Scanned(p).version)}

\* scanSystemImage gives a package of the image a ledger when it has none.
ScanSystem(p) ==
    /\ phase = "down" /\ tx = None /\ p \in System /\ ledger[p] = None
    /\ tx' = Held("boot", p, image, None, "uid")
    /\ UNCHANGED <<disk, memory, phase, setter, faults>>

\* provisionAll: users and data directories; one that fails is only audited.
Provision ==
    /\ phase = "down" /\ tx = None /\ \A p \in System : ledger[p] # None
    /\ \E missed \in SUBSET Accepted :
          /\ data' = [p \in Package |->
                 IF p \in Accepted \ missed /\ data[p] = 0 THEN ledger[p].uid ELSE data[p]]
          /\ IF missed = {} THEN NoFault ELSE Fault
    /\ phase' = "scanned"
    /\ UNCHANGED <<ledger, nextUid, code, grant, acl, image, memory, tx, setter>>

\* publishCatalogLast at Start: nobody reads the projections yet.
StartPublish ==
    /\ phase = "scanned" /\ phase' = "published"
    /\ reg' = [p \in Package |-> IF p \in Accepted THEN Scanned(p) ELSE None]
    /\ ident' = [p \in Package |-> IF p \in Accepted THEN ledger[p].uid ELSE 0]
    /\ perm' = Accepted
    /\ cat' = [p \in Package |-> IF p \in Accepted THEN Scanned(p).version ELSE 0]
    /\ UNCHANGED <<disk, running, tx, setter, faults>>

\* ReconcileUserDataAccess: the ACL becomes the projection of the consents; a
\* failure is logged.
Reconcile ==
    /\ phase = "published" /\ phase' = "up"
    /\ \/ NoFault /\ acl' = {reg[p].uid : p \in {q \in Package : reg[q] # None /\ Allowed(q)}}
       \/ Fault /\ UNCHANGED acl
    /\ UNCHANGED <<ledger, nextUid, code, data, grant, image, memory, tx, setter>>

----------------------------------------------------------------------------
InstallStep ==
    \/ PutCode \/ CodeRefused \/ EnsureUser \/ MakeData \/ SaveLedger \/ Publish
    \/ Consent \/ Reload \/ InstallFails \/ Undo

RemoveStep ==
    \/ Unpublish \/ StopAll \/ ClearGrants \/ AclOff \/ RemoveCode \/ RemoveData
    \/ RemoveLedger \/ RemoveFails

Next ==
    \/ TakeUid \/ WriteBare \/ InstallStep \/ RemoveStep
    \/ CommitSet \/ StopDisabled
    \/ \E p \in Package :
          \/ \E v \in Version : BeginInstall(p, v)
          \/ BeginRemove(p) \/ ScanSystem(p)
          \/ \E c \in Component :
                BeginSet(p, c, "disable") \/ BeginSet(p, c, "enable") \/ Launch(p, c)
    \/ \E t \in Thread, p \in Package, s \in {"granted", "denied"} : SetState(t, p, s)
    \/ \E t \in Thread \cup {Installer} :
          Decide(t) \/ Find(t) \/ Project(t) \/ ProjectFails(t)
    \/ \E v \in Image : Update(v)
    \/ PowerLoss \/ Provision \/ StartPublish \/ Reconcile

Spec == Init /\ [][Next]_vars

----------------------------------------------------------------------------
(***************************************************************************)
(* Properties.                                                             *)
(***************************************************************************)
\* From its tombstone on a package is never active again, whatever fails and
\* however often the machine restarts, until it is gone and installed anew; and
\* a provider that is routable has an identity, an entry and its grants
\* (catalog_projection.go:200): readers take the four without a lock, in the
\* middle of a transaction too.
RoutableIsKnown ==
    \A p \in Package : cat[p] # 0 => ident[p] # 0 /\ reg[p] # None /\ p \in perm
RemovedStaysRemoved ==
    /\ \A p \in Package :
          ledger[p] # None /\ ledger[p].removal /\ (tx = None \/ tx.pkg # p) =>
              cat[p] = 0 /\ reg[p] = None /\ ident[p] = 0 /\ p \notin perm
    /\ RoutableIsKnown

\* Nothing outlives the ledger that names its owner: code, private data, a
\* consent or a running component would be inherited by the package's next
\* installation, which has another UID.
NothingInherited ==
    \A p \in Package :
        /\ ledger[p] = None /\ p \notin System =>
               code[p] = {} /\ data[p] = 0 /\ grant[p] = "none" /\ running[p] = {}
        /\ data[p] # 0 => data[p] = ledger[p].uid
        /\ \A q \in Package \ {p} :
               ledger[p] # None /\ ledger[q] # None => ledger[p].uid # ledger[q].uid

\* An upgrade that keeps the version string takes the place of the tree that was
\* there: when it does not get as far as its ledger, the directory holds a
\* release newer than the one the ledger names.
Overwritten(p) ==
    \E w \in Tree(p, ledger[p].version) : Code[w] > ledger[p].code

\* What the registry answers between two transactions is what a restart would
\* find on the disk: an installation or an upgrade that returned survives, one
\* that failed leaves the version that was there, and a disabled component of
\* an installed package stays disabled.  One case is excepted, and no other: a
\* failed upgrade in place (install.go:342-374), whose tree the next scan skips
\* because it is not the ledger's (scan.go:219-221).
RebootKeepsInstalled ==
    \A p \in Package \ System :
        reg[p] # None /\ (tx = None \/ tx.pkg # p) =>
            reg[p] = Scanned(p) /\ (p \in Accepted \/ Overwritten(p))
=============================================================================
