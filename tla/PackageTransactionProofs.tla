---------------------- MODULE PackageTransactionProofs ----------------------
(***************************************************************************)
(* What the package transactions promise of the disk and of the four       *)
(* projections, for any packages, versions, images, catalogs and users,    *)
(* and however many steps fail or power losses there are.                  *)
(***************************************************************************)
EXTENDS PackageTransaction, TLAPS

\* No reader finds p in any of the projections.
Unknown(p) == cat[p] = 0 /\ reg[p] = None /\ ident[p] = 0 /\ p \notin perm

\* A UID belongs to one ledger, or to the transaction that is about to write
\* the ledger for it; the allocator is past all of them.
UidsApart ==
    /\ \A p \in Package : ledger[p] # None => ledger[p].uid < nextUid
    /\ \A p, q \in Package :
          p # q /\ ledger[p] # None /\ ledger[q] # None => ledger[p].uid # ledger[q].uid
    /\ tx # None /\ tx.at = "bare" =>
          /\ tx.uid \in Uid /\ tx.uid < nextUid
          /\ \A p \in Package : ledger[p] # None => ledger[p].uid # tx.uid

\* Where each kind of transaction may be, and in which phase of the kernel.
Kernel == tx # None /\ tx.op # "boot" => phase = "up"
Boots ==
    tx # None /\ tx.op = "boot" =>
        /\ phase = "down" /\ tx.pkg \in System /\ tx.version # 0
        /\ tx.at \in {"uid", "bare"} /\ ledger[tx.pkg] = None
Dark == phase \in {"down", "scanned"} => \A p \in Package : Unknown(p)

\* What rests on a package's ledger.
Owned(p) ==
    /\ ledger[p] = None =>
          Unknown(p) /\ code[p] = {} /\ data[p] = 0 /\ grant[p] = "none" /\ running[p] = {}
    /\ data[p] # 0 => data[p] = ledger[p].uid
    /\ p \in System /\ ledger[p] # None => ~ledger[p].removal

\* What a scan would take up of an installed package, but for an upgrade in place
\* that did not reach its ledger, and the entry for it.
Whole(p) ==
    /\ ledger[p] # None /\ ~ledger[p].removal
    /\ ledger[p].code = Code[ledger[p].version]
    /\ ledger[p].version \in code[p] \/ Overwritten(p)
    /\ ~Rejected(p, ledger[p].version)
EntryOf(p) ==
    [version |-> ledger[p].version, uid |-> ledger[p].uid, disabled |-> ledger[p].disabled]

\* A package that no transaction has in hand.
Committed(p) == p \notin System /\ reg[p] # None => Whole(p) /\ reg[p] = EntryOf(p)
Buried(p) == ledger[p] # None /\ ledger[p].removal => Unknown(p)
AtRest == \A p \in Package : tx = None \/ tx.pkg # p => Committed(p) /\ Buried(p)

Before == {"uid", "bare", "code", "user", "data", "ledger", "undo"}
After == {"ident", "reg", "perm", "cat", "consent", "reload"}

\* An installation before its commit, when the ledger is still what it was, and
\* from its commit on, as far as the projections have got.
Installing ==
    tx # None /\ tx.op = "install" =>
        LET p == tx.pkg IN
        /\ p \notin System /\ tx.version # 0 /\ ~Rejected(p, tx.version)
        /\ tx.at \in Before \cup After
        /\ ledger[p] # None => ~ledger[p].removal
        /\ tx.at \in {"uid", "bare"} => ledger[p] = None
        /\ tx.at \in {"code", "user", "data", "ledger"} =>
              ledger[p] # None /\ ledger[p].uid = tx.uid
        /\ tx.at = "code" => Upgradable(ledger[p], tx.version)
        /\ tx.at \in Before => /\ Committed(p)
                               /\ IF Had THEN ledger[p] = tx.prev ELSE Unknown(p)
        /\ tx.at \in {"user", "data", "ledger"} \cup After => tx.version \in code[p]
        /\ tx.at \in After =>
              ledger[p] = [version |-> tx.version, code |-> Code[tx.version], uid |-> tx.uid,
                           disabled |-> Carried, removal |-> FALSE]
        /\ tx.at \in After \ {"ident"} => ident[p] # 0
        /\ tx.at \in After \ {"ident", "reg"} =>
              reg[p] = [version |-> tx.version, uid |-> tx.uid, disabled |-> Carried]
        /\ tx.at \in After \ {"ident", "reg", "perm"} => p \in perm

\* An uninstallation, as far as it has got.
Removing ==
    tx # None /\ tx.op = "remove" =>
        LET p == tx.pkg IN
        /\ p \notin System /\ ledger[p] # None /\ ledger[p].removal
        /\ tx.at \in {"cat", "reg", "ident", "perm", "stop", "clear", "acl", "rmcode",
                      "rmdata", "rmledger"}
        /\ tx.at # "cat" => cat[p] = 0
        /\ tx.at \notin {"cat", "reg"} => reg[p] = None
        /\ tx.at \notin {"cat", "reg", "ident"} => ident[p] = 0
        /\ tx.at \notin {"cat", "reg", "ident", "perm"} => p \notin perm
        /\ tx.at \in {"clear", "acl", "rmcode", "rmdata", "rmledger"} => running[p] = {}
        /\ tx.at \in {"acl", "rmcode", "rmdata", "rmledger"} => grant[p] = "none"
        /\ tx.at \in {"rmdata", "rmledger"} => code[p] = {}
        /\ tx.at = "rmledger" => data[p] = 0

\* Enabling and disabling a component: the ledger is ahead of the entry.
Setting ==
    tx # None /\ tx.op \in {"disable", "enable"} =>
        LET p == tx.pkg IN
        /\ ledger[p] # None /\ ~ledger[p].removal /\ reg[p] # None
        /\ tx.at \in {"reg", "stop"}
        /\ p \notin System =>
              /\ Whole(p)
              /\ [reg[p] EXCEPT !.disabled = ledger[p].disabled] = EntryOf(p)
              /\ tx.at = "stop" => reg[p] = EntryOf(p)

\* A call that is about to write the ACL has a UID to write.
Projecting ==
    \A t \in Thread \cup {Installer} :
        setter[t] # None /\ setter[t].at = "write" => setter[t].uid \in Uid

PackageInv ==
    /\ TypeOK /\ UidsApart /\ Kernel /\ Boots /\ Dark
    /\ \A p \in Package : Owned(p)
    /\ RoutableIsKnown /\ AtRest /\ Installing /\ Removing /\ Setting /\ Projecting

----------------------------------------------------------------------------
(***************************************************************************)
(* A step of a transaction touches the package it has in hand and no other.*)
(***************************************************************************)
Same(q) ==
    /\ ledger'[q] = ledger[q] /\ code'[q] = code[q] /\ data'[q] = data[q]
    /\ grant'[q] = grant[q] /\ ident'[q] = ident[q] /\ reg'[q] = reg[q]
    /\ (q \in perm' <=> q \in perm) /\ cat'[q] = cat[q] /\ running'[q] = running[q]

Routable(p) == cat[p] # 0 => ident[p] # 0 /\ reg[p] # None /\ p \in perm

LEMMA Elsewhere ==
    ASSUME PackageInv, NEW p \in Package, tx = None \/ tx.pkg = p,
           tx' = None \/ tx'.pkg = p,
           UNCHANGED <<phase, image>>, phase \notin {"down", "scanned"} \/ Unknown(p)',
           \A q \in Package \ {p} : Same(q),
           Owned(p)', Routable(p)', tx' = None => Committed(p)' /\ Buried(p)'
    PROVE  Dark' /\ (\A q \in Package : Owned(q))' /\ RoutableIsKnown' /\ AtRest'
<1>1. ASSUME NEW q \in Package \ {p}
      PROVE  Owned(q)' /\ Routable(q)' /\ Committed(q)' /\ Buried(q)'
             /\ (phase \in {"down", "scanned"} => Unknown(q)')
  <2>1. Same(q)
    BY <1>1
  <2>2. Owned(q)' /\ Routable(q)'
    BY <1>1, <2>1 DEF PackageInv, RoutableIsKnown, Same, Owned, Routable, Unknown
  <2>3. Committed(q) /\ Buried(q)
    BY <1>1 DEF PackageInv, AtRest
  <2>4. Buried(q)'
    BY <2>1, <2>3 DEF Same, Buried, Unknown
  <2>5. (Whole(q)' <=> Whole(q)) /\ EntryOf(q)' = EntryOf(q)
    BY <2>1 DEF Same, Whole, Overwritten, Tree, EntryOf, Rejected
  <2>6. Committed(q)'
    BY <2>1, <2>3, <2>5 DEF Same, Committed
  <2>7. phase \in {"down", "scanned"} => Unknown(q)'
    BY <2>1 DEF PackageInv, Dark, Same, Unknown
  <2> QED
    BY <2>2, <2>4, <2>6, <2>7
<1> QED
  BY <1>1 DEF Dark, RoutableIsKnown, Routable, AtRest

----------------------------------------------------------------------------
(***************************************************************************)
(* One lemma for each step.                                                *)
(***************************************************************************)
\* The record of a transaction, and what Goto makes of it.
LEMMA Tx ==
    ASSUME PackageInv, tx # None
    PROVE  tx \in Transaction /\ tx.pkg \in Package
BY DEF PackageInv, TypeOK, Transaction

\* A version code is a number greater than that of a ledger stableUID left.
LEMMA Coded ==
    ASSUME NEW v \in Version
    PROVE  Code[v] \in Nat /\ Code[v] >= 0
BY PackageAssumption

LEMMA GotoTx ==
    ASSUME PackageInv, tx # None, NEW step, Goto(step),
           step \in {"uid", "bare", "code", "user", "data", "ledger", "ident", "reg",
                     "perm", "cat", "consent", "reload", "undo", "stop", "clear", "acl",
                     "rmcode", "rmdata", "rmledger"}
    PROVE  /\ tx' \in Transaction /\ tx' # None /\ tx'.at = step /\ tx'.op = tx.op
           /\ tx'.pkg = tx.pkg /\ tx'.version = tx.version /\ tx'.prev = tx.prev
           /\ tx'.uid = tx.uid /\ tx'.component = tx.component
           /\ tx'.placed = tx.placed /\ tx'.made = tx.made
BY Tx, NoneAssumption DEF Goto, Transaction

\* What the invariant reads beside the transaction itself.
footing == <<ledger, code, data, grant, ident, reg, perm, cat, running, phase, image>>

LEMMA Footing ==
    ASSUME UNCHANGED footing, NEW p \in Package
    PROVE  /\ Owned(p)' <=> Owned(p)
           /\ Unknown(p)' <=> Unknown(p)
           /\ Committed(p)' <=> Committed(p)
           /\ Buried(p)' <=> Buried(p)
           /\ Routable(p)' <=> Routable(p)
           /\ Whole(p)' <=> Whole(p)
           /\ EntryOf(p)' = EntryOf(p)
           /\ \A v : Rejected(p, v)' <=> Rejected(p, v)
<1>1. ledger' = ledger /\ code' = code /\ data' = data /\ grant' = grant /\ image' = image
  BY DEF footing
<1>2. ident' = ident /\ reg' = reg /\ perm' = perm /\ cat' = cat /\ running' = running
  BY DEF footing
<1>3. (Unknown(p)' <=> Unknown(p)) /\ (Routable(p)' <=> Routable(p))
  BY <1>2 DEF Unknown, Routable
<1>4. (Owned(p)' <=> Owned(p)) /\ (Buried(p)' <=> Buried(p))
  BY <1>1, <1>2, <1>3 DEF Owned, Buried
<1>5. \A q, v : Rejected(q, v)' <=> Rejected(q, v)
  BY <1>1 DEF Rejected
<1>6. (Whole(p)' <=> Whole(p)) /\ EntryOf(p)' = EntryOf(p)
  BY <1>1, <1>5 DEF Whole, Overwritten, Tree, EntryOf
<1>7. Committed(p)' <=> Committed(p)
  BY <1>2, <1>6 DEF Committed
<1> QED
  BY <1>3, <1>4, <1>5, <1>6, <1>7

\* A step that changes the transaction only, and ends it at most when its
\* package is at rest.
LEMMA OnlyTx ==
    ASSUME PackageInv, UNCHANGED footing,
           \/ tx = None
           \/ tx' # None /\ tx'.pkg = tx.pkg
           \/ tx' = None /\ Committed(tx.pkg) /\ Buried(tx.pkg)
    PROVE  Dark' /\ (\A q \in Package : Owned(q))' /\ RoutableIsKnown' /\ AtRest'
<1>1. ASSUME NEW q \in Package
      PROVE  Owned(q)' /\ Routable(q)'
  BY <1>1, Footing DEF PackageInv, RoutableIsKnown, Routable
<1>2. Dark'
  BY Footing DEF PackageInv, Dark, footing
<1>3. AtRest'
  BY Footing DEF PackageInv, AtRest
<1> QED
  BY <1>1, <1>2, <1>3 DEF RoutableIsKnown, Routable

LEMMA TakeUidKeeps ==
    ASSUME PackageInv, NEW p \in Package, tx # None, p = tx.pkg, TakeUid
    PROVE  PackageInv'
<1>1. tx \in Transaction /\ nextUid \in Nat /\ tx.at = "uid" /\ ledger[p] = None
  BY Tx DEF TakeUid, PackageInv, TypeOK
<1>2. /\ tx' \in Transaction /\ tx' # None /\ tx'.at = "bare" /\ tx'.uid = nextUid
      /\ tx'.pkg = p /\ tx'.op = tx.op /\ tx'.version = tx.version /\ tx'.prev = tx.prev
  <2>1. tx' = [tx EXCEPT !.at = "bare", !.uid = nextUid] /\ nextUid \in 0..MaxUid
    BY <1>1, PackageAssumption DEF TakeUid, Allocate, Uid
  <2>2. tx' \in Transaction
    BY <1>1, <2>1 DEF Transaction
  <2>3. /\ tx'.at = "bare" /\ tx'.uid = nextUid
        /\ tx'.pkg = p /\ tx'.op = tx.op /\ tx'.version = tx.version /\ tx'.prev = tx.prev
    BY <1>1, <2>1 DEF Transaction
  <2> QED
    BY <2>2, <2>3, NoneAssumption
<1>3. TypeOK'
  <2>1. nextUid' \in 1..(MaxUid + 1)
    BY PackageAssumption DEF TakeUid, Allocate, Uid
  <2> QED
    BY <1>2, <2>1 DEF TakeUid, PackageInv, TypeOK, memory
<1>4. UidsApart'
  <2>1. \A q \in Package : ledger[q] # None => ledger[q].uid \in Nat
    BY DEF PackageInv, TypeOK, Ledger, Uid
  <2> QED
    BY <1>1, <1>2, <2>1 DEF TakeUid, Allocate, PackageInv, UidsApart, Uid
<1>5. Kernel' /\ Boots' /\ Removing' /\ Setting' /\ Projecting'
  BY <1>1, <1>2 DEF TakeUid, PackageInv, Kernel, Boots, Removing, Setting, Projecting
<1>6. UNCHANGED footing
  BY DEF TakeUid, memory, footing
<1>7. Installing'
  <2>1. (Committed(p)' <=> Committed(p)) /\ (Unknown(p)' <=> Unknown(p))
        /\ (\A v : Rejected(p, v)' <=> Rejected(p, v)) /\ ledger'[p] = None
    BY <1>1, <1>6, Footing DEF TakeUid
  <2>2. CASE tx.op = "install"
    <3>1. /\ p \notin System /\ tx.version # 0 /\ ~Rejected(p, tx.version)
          /\ Committed(p) /\ IF Had THEN ledger[p] = tx.prev ELSE Unknown(p)
      BY <1>1, <2>2 DEF PackageInv, Installing, Before
    <3> QED
      BY <1>1, <1>2, <2>1, <3>1 DEF Installing, Before, After, Had
  <2> QED
    BY <1>2, <2>2 DEF Installing
<1>8. tx' # None /\ tx'.pkg = tx.pkg
  BY <1>2
<1>9. Dark' /\ (\A q \in Package : Owned(q))' /\ RoutableIsKnown' /\ AtRest'
  BY <1>6, <1>8, OnlyTx
<1> QED
  BY <1>3, <1>4, <1>5, <1>7, <1>9 DEF PackageInv

LEMMA WriteBareKeeps ==
    ASSUME PackageInv, NEW p \in Package, tx # None, p = tx.pkg, WriteBare
    PROVE  PackageInv'
<1> DEFINE L == Bare(tx.version, tx.uid)
<1>1. /\ tx \in Transaction /\ tx.at = "bare" /\ tx.op \in {"install", "boot"}
      /\ tx.uid \in Uid /\ tx.uid < nextUid
  BY Tx DEF WriteBare, PackageInv, Removing, Setting, Transaction, UidsApart
<1>2. tx.version # 0 /\ ledger[p] = None
  BY <1>1 DEF PackageInv, Boots, Installing
<1>3. L \in Ledger /\ L # None /\ ~L.removal /\ L.uid = tx.uid
  <2>1. L \in Ledger
    BY <1>1, <1>2 DEF Bare, Ledger, Transaction
  <2> QED
    BY <2>1, NoneAssumption DEF Bare
<1>4. ledger' = [ledger EXCEPT ![p] = L] /\ ledger \in [Package -> Ledger \cup {None}]
  BY DEF WriteBare, PackageInv, TypeOK
<1>5. ledger'[p] = L /\ \A q \in Package \ {p} : ledger'[q] = ledger[q]
  BY <1>4
<1>6. /\ code' = code /\ data' = data /\ grant' = grant /\ image' = image /\ phase' = phase
      /\ ident' = ident /\ reg' = reg /\ perm' = perm /\ cat' = cat /\ running' = running
      /\ nextUid' = nextUid /\ acl' = acl /\ setter' = setter /\ faults' = faults
  BY DEF WriteBare, memory
<1>7. \/ tx' = None /\ tx.op = "boot"
      \/ /\ tx.op = "install" /\ tx' \in Transaction /\ tx' # None /\ tx'.at = "code"
         /\ tx'.op = "install" /\ tx'.pkg = p /\ tx'.version = tx.version
         /\ tx'.prev = tx.prev /\ tx'.uid = tx.uid
  <2>1. CASE tx.op = "boot"
    BY <2>1 DEF WriteBare
  <2>2. CASE tx.op = "install"
    <3>1. tx' = [tx EXCEPT !.at = "code"]
      BY <2>2 DEF WriteBare
    <3> QED
      BY <3>1, <2>2, GotoTx DEF Goto
  <2> QED
    BY <1>1, <2>1, <2>2
<1>8. TypeOK'
  <2>1. ledger' \in [Package -> Ledger \cup {None}] /\ tx' \in Transaction \cup {None}
    BY <1>3, <1>4, <1>7
  <2> QED
    BY <1>6, <2>1 DEF PackageInv, TypeOK
<1>9. UidsApart'
  BY <1>1, <1>3, <1>5, <1>6, <1>7 DEF PackageInv, UidsApart
<1>10. Unknown(p) /\ data[p] = 0
  BY <1>2 DEF PackageInv, Owned
<1>11. Unknown(p)'
  BY <1>10, <1>6 DEF Unknown
<1>12. Owned(p)' /\ Routable(p)' /\ Committed(p)' /\ Buried(p)'
  BY <1>3, <1>5, <1>6, <1>10, <1>11 DEF Owned, Routable, Committed, Buried, Unknown
<1>13. \A q \in Package \ {p} : Same(q)
  BY <1>5, <1>6 DEF Same
<1>14. Dark' /\ (\A q \in Package : Owned(q))' /\ RoutableIsKnown' /\ AtRest'
  BY <1>6, <1>7, <1>11, <1>12, <1>13, Elsewhere
<1>15. Kernel' /\ Boots' /\ Removing' /\ Setting' /\ Projecting'
  BY <1>1, <1>6, <1>7 DEF PackageInv, Kernel, Boots, Removing, Setting, Projecting
<1>16. Installing'
  <2>1. CASE tx.op = "install"
    <3>1. p \notin System /\ ~Rejected(p, tx.version) /\ (Had => ledger[p] = tx.prev)
      BY <1>1, <2>1 DEF PackageInv, Installing, Before
    <3>2. ~Rejected(p, tx.version)' /\ ~Had'
      BY <3>1, <1>2, <1>6, <1>7, <2>1 DEF Rejected, Had
    <3>3. Upgradable(L, tx.version)
      BY <1>1, <1>2, Coded DEF Upgradable, Bare, Transaction
    <3>4. Upgradable(ledger[p], tx.version)'
      BY <1>5, <1>7, <2>1, <3>3 DEF Upgradable
    <3> QED
      BY <1>2, <1>3, <1>5, <1>7, <1>11, <1>12, <2>1, <3>1, <3>2, <3>4
         DEF Installing, Before, After, Rejected
  <2> QED
    BY <1>1, <1>7, <2>1 DEF Installing
<1> QED
  BY <1>8, <1>9, <1>14, <1>15, <1>16 DEF PackageInv

\* What an installation leaves to show of the rest of the invariant.
LEMMA InstallRest ==
    ASSUME PackageInv, NEW p \in Package, tx # None, p = tx.pkg, tx.op = "install",
           tx' # None, tx'.op = "install", tx'.at # "bare", phase' = phase, TypeOK',
           nextUid' = nextUid, UNCHANGED setter,
           \A q \in Package : \/ ledger'[q] = ledger[q]
                              \/ ledger'[q].uid = ledger[q].uid /\ ledger[q] # None
    PROVE  UidsApart' /\ Kernel' /\ Boots' /\ Removing' /\ Setting' /\ Projecting'
BY DEF PackageInv, UidsApart, Kernel, Boots, Removing, Setting, Projecting

\* The steps that only move on: EnsureUser, CodeRefused and InstallFails.
LEMMA InstallMoves ==
    ASSUME PackageInv, NEW p \in Package, tx # None, p = tx.pkg, tx.op = "install",
           UNCHANGED <<disk, memory, phase, setter>>, faults' \in 0..MaxFaults,
           NEW step, Goto(step),
           \/ tx.at \in Before /\ step = "undo"
           \/ tx.at = "user" /\ step \in {"data", "ledger"}
    PROVE  PackageInv'
<1>1. /\ tx' \in Transaction /\ tx' # None /\ tx'.at = step /\ tx'.op = "install"
      /\ tx'.pkg = p /\ tx'.version = tx.version /\ tx'.prev = tx.prev /\ tx'.uid = tx.uid
  BY GotoTx
<1>2. /\ UNCHANGED footing /\ ledger' = ledger /\ nextUid' = nextUid /\ code' = code
      /\ phase' = phase /\ UNCHANGED setter /\ step # "bare"
  BY DEF disk, memory, footing
<1>3. TypeOK'
  BY <1>1 DEF PackageInv, TypeOK, disk, memory
<1>4. UidsApart' /\ Kernel' /\ Boots' /\ Removing' /\ Setting' /\ Projecting'
  BY <1>1, <1>2, <1>3, InstallRest
<1>5. Installing'
  <2>1. (Committed(p)' <=> Committed(p)) /\ (Unknown(p)' <=> Unknown(p))
        /\ (\A v : Rejected(p, v)' <=> Rejected(p, v))
    BY <1>2, Footing
  <2> QED
    BY <1>1, <1>2, <2>1 DEF PackageInv, Installing, Before, After, Had
<1>6. Dark' /\ (\A q \in Package : Owned(q))' /\ RoutableIsKnown' /\ AtRest'
  BY <1>1, <1>2, OnlyTx
<1> QED
  BY <1>3, <1>4, <1>5, <1>6 DEF PackageInv

LEMMA BeginInstallKeeps ==
    ASSUME PackageInv, NEW p \in Package, NEW v \in Version, BeginInstall(p, v)
    PROVE  PackageInv'
<1>1. /\ tx = None /\ phase = "up" /\ p \notin System /\ v # 0 /\ ~Rejected(p, v)
      /\ ledger[p] # None => ~ledger[p].removal
  BY PackageAssumption DEF BeginInstall
<1>2. ledger[p] \in Ledger \cup {None} /\ 0 \in 0..MaxUid
      /\ (ledger[p] # None => ledger[p].uid \in 0..MaxUid)
  BY PackageAssumption DEF PackageInv, TypeOK, Ledger, Uid
<1>3. /\ tx' \in Transaction /\ tx'.op = "install" /\ tx'.pkg = p /\ tx'.version = v
      /\ tx'.at = IF ledger[p] = None THEN "uid" ELSE "code"
      /\ tx'.prev = ledger[p] /\ (ledger[p] # None => tx'.uid = ledger[p].uid)
  <2>1. CASE ledger[p] = None
    <3>1. tx' = [op |-> "install", pkg |-> p, version |-> v, component |-> None,
                 at |-> "uid", prev |-> None, uid |-> 0, placed |-> FALSE, made |-> FALSE]
      BY <2>1 DEF BeginInstall, Held
    <3> QED
      BY <1>2, <2>1, <3>1 DEF Transaction
  <2>2. CASE ledger[p] # None
    <3>1. tx' = [op |-> "install", pkg |-> p, version |-> v, component |-> None,
                 at |-> "code", prev |-> ledger[p], uid |-> ledger[p].uid,
                 placed |-> FALSE, made |-> FALSE]
      BY <2>2 DEF BeginInstall, Held
    <3> QED
      BY <1>2, <2>2, <3>1 DEF Transaction
  <2> QED
    BY <2>1, <2>2
<1>4. tx' # None
  BY <1>3, NoneAssumption
<1>5. UNCHANGED footing /\ ledger' = ledger /\ nextUid' = nextUid /\ setter' = setter
      /\ phase' = phase
  BY DEF BeginInstall, disk, memory, footing
<1>6. TypeOK'
  BY <1>3 DEF BeginInstall, PackageInv, TypeOK, disk, memory
<1>7. UidsApart' /\ Kernel' /\ Boots' /\ Removing' /\ Setting' /\ Projecting'
  BY <1>1, <1>3, <1>4, <1>5
     DEF PackageInv, UidsApart, Kernel, Boots, Removing, Setting, Projecting
<1>8. Installing'
  <2>1. (Committed(p)' <=> Committed(p)) /\ (Unknown(p)' <=> Unknown(p))
        /\ (\A w : Rejected(p, w)' <=> Rejected(p, w))
    BY <1>5, Footing
  <2>2. Committed(p) /\ (ledger[p] = None => Unknown(p))
    BY <1>1 DEF PackageInv, AtRest, Owned
  <2>3. ledger[p] # None => Upgradable(ledger[p], v)
    BY DEF BeginInstall
  <2>4. ledger[p] # None => Upgradable(ledger[p], tx.version)'
    BY <1>3, <1>5, <2>3 DEF Upgradable
  <2> QED
    BY <1>1, <1>3, <1>5, <2>1, <2>2, <2>4 DEF Installing, Before, After, Had
<1>9. Dark' /\ (\A q \in Package : Owned(q))' /\ RoutableIsKnown' /\ AtRest'
  BY <1>1, <1>5, OnlyTx
<1> QED
  BY <1>6, <1>7, <1>8, <1>9 DEF PackageInv

LEMMA MoveOnKeeps ==
    ASSUME PackageInv, NEW p \in Package, tx # None, p = tx.pkg,
           CodeRefused \/ EnsureUser \/ InstallFails
    PROVE  PackageInv'
<1>1. faults \in 0..MaxFaults
  BY DEF PackageInv, TypeOK
<1>2. CASE CodeRefused
  BY <1>1, <1>2, InstallMoves DEF CodeRefused, At, Before
<1>3. CASE EnsureUser
  BY <1>1, <1>3, InstallMoves DEF EnsureUser, At
<1>4. CASE InstallFails
  <2>1. faults' \in 0..MaxFaults
    BY <1>1, <1>4, PackageAssumption DEF InstallFails, Fault
  <2> QED
    BY <2>1, <1>4, InstallMoves DEF InstallFails, Before
<1> QED
  BY <1>2, <1>3, <1>4

\* More code beside what is there does no harm.
LEMMA Standing ==
    ASSUME NEW p \in Package, ledger'[p] = ledger[p], reg'[p] = reg[p], image' = image,
           code[p] \subseteq code'[p]
    PROVE  /\ Committed(p) => Committed(p)'
           /\ Whole(p) => Whole(p)'
           /\ EntryOf(p)' = EntryOf(p)
           /\ \A v : Rejected(p, v)' <=> Rejected(p, v)
<1>1. \A v : Rejected(p, v)' <=> Rejected(p, v)
  BY DEF Rejected
<1>2. EntryOf(p)' = EntryOf(p)
  BY DEF EntryOf
<1>3. Whole(p) => Whole(p)'
  BY <1>1 DEF Whole, Overwritten, Tree
<1> QED
  BY <1>1, <1>2, <1>3 DEF Committed

LEMMA PutCodeKeeps ==
    ASSUME PackageInv, NEW p \in Package, tx # None, p = tx.pkg, PutCode
    PROVE  PackageInv'
<1>1. /\ tx \in Transaction /\ tx.op = "install" /\ tx.at = "code"
      /\ code' = [code EXCEPT ![p] = (@ \ Tree(p, tx.version)) \cup {tx.version}]
      /\ code \in [Package -> SUBSET Version]
  BY Tx DEF PutCode, At, PackageInv, TypeOK
<1>2. /\ p \notin System /\ tx.version # 0 /\ ~Rejected(p, tx.version)
      /\ ledger[p] # None /\ ~ledger[p].removal /\ ledger[p].uid = tx.uid
      /\ Upgradable(ledger[p], tx.version)
      /\ Committed(p) /\ IF Had THEN ledger[p] = tx.prev ELSE Unknown(p)
  BY <1>1 DEF PackageInv, Installing, Before
<1>3. tx.version \in Version
  BY <1>1, <1>2 DEF Transaction
<1>4. /\ code' \in [Package -> SUBSET Version] 
      /\ code'[p] = (code[p] \ Tree(p, tx.version)) \cup {tx.version}
      /\ \A q \in Package \ {p} : code'[q] = code[q]
  BY <1>1, <1>3
<1>5. /\ tx' \in Transaction /\ tx' # None /\ tx'.at = "user" /\ tx'.op = "install"
      /\ tx'.pkg = p /\ tx'.version = tx.version /\ tx'.prev = tx.prev /\ tx'.uid = tx.uid
  <2>1. tx' = [tx EXCEPT !.at = "user", !.placed = TRUE]
    BY DEF PutCode
  <2>2. tx' \in Transaction
    BY <1>1, <2>1 DEF Transaction
  <2>3. /\ tx'.at = "user" /\ tx'.op = tx.op /\ tx'.pkg = tx.pkg
        /\ tx'.version = tx.version /\ tx'.prev = tx.prev /\ tx'.uid = tx.uid
    BY <1>1, <2>1 DEF Transaction
  <2>4. tx' # None
    BY <2>2, NoneAssumption
  <2> QED
    BY <1>1, <2>2, <2>3, <2>4
<1>6. /\ ledger' = ledger /\ data' = data /\ grant' = grant /\ image' = image /\ phase' = phase
      /\ ident' = ident /\ reg' = reg /\ perm' = perm /\ cat' = cat /\ running' = running
      /\ nextUid' = nextUid /\ acl' = acl /\ setter' = setter /\ faults' = faults
  BY DEF PutCode, memory
<1>7. TypeOK'
  BY <1>4, <1>5, <1>6 DEF PackageInv, TypeOK
<1>8. UidsApart' /\ Kernel' /\ Boots' /\ Removing' /\ Setting' /\ Projecting'
  BY <1>1, <1>5, <1>6, <1>7, InstallRest
<1>9. Committed(p)' /\ (Unknown(p)' <=> Unknown(p))
      /\ (\A v : Rejected(p, v)' <=> Rejected(p, v))
  <2>1. (Unknown(p)' <=> Unknown(p)) /\ EntryOf(p)' = EntryOf(p)
        /\ (\A v : Rejected(p, v)' <=> Rejected(p, v))
    BY <1>6 DEF Unknown, EntryOf, Rejected
  <2>2. CASE ~Replacing
    <3>1. code[p] \subseteq code'[p]
      BY <1>1, <1>4, <2>2 DEF PutCode
    <3> QED
      BY <1>2, <1>6, <2>1, <3>1, Standing
  <2>3. CASE Replacing
    <3>1. Dir[ledger[p].version] = Dir[tx.version]
      BY <1>2, <2>3 DEF Replacing
    <3>2. ledger[p].version \in Version /\ ledger[p].code \in Nat
      BY <1>2 DEF PackageInv, TypeOK, Ledger
    <3>3. tx.version \in Tree(p, ledger[p].version)'
      BY <1>4, <1>6, <3>1 DEF Tree
    <3>4. CASE ledger[p].code = Code[tx.version]
      <4>1. ledger[p].code = Code[ledger[p].version] => tx.version = ledger[p].version
        BY <1>3, <3>1, <3>2, <3>4, PackageAssumption
      <4>2. Whole(p) => Whole(p)'
        BY <1>4, <1>6, <2>1, <4>1 DEF Whole
      <4> QED
        BY <1>2, <1>6, <2>1, <4>2 DEF Committed
    <3>5. CASE ledger[p].code # Code[tx.version]
      <4>1. Code[tx.version] > ledger[p].code
        <5>1. Code[tx.version] \in Nat /\ Code[tx.version] >= ledger[p].code
          BY <1>2, <1>3, Coded DEF Upgradable
        <5> QED
          BY <3>2, <3>5, <5>1
      <4>2. Overwritten(p)'
        BY <1>6, <3>3, <4>1 DEF Overwritten
      <4>3. Whole(p) => Whole(p)'
        BY <1>6, <2>1, <4>2 DEF Whole
      <4> QED
        BY <1>2, <1>6, <2>1, <4>3 DEF Committed
    <3> QED
      BY <3>4, <3>5
  <2> QED
    BY <2>1, <2>2, <2>3
<1>10. Installing'
  BY <1>2, <1>4, <1>5, <1>6, <1>9 DEF Installing, Before, After, Had
<1>11. Owned(p)' /\ Routable(p)'
  BY <1>2, <1>6 DEF PackageInv, Owned, RoutableIsKnown, Routable
<1>12. \A q \in Package \ {p} : Same(q)
  BY <1>4, <1>6 DEF Same
<1>13. phase = "up"
  BY <1>1 DEF PackageInv, Kernel
<1>14. Dark' /\ (\A q \in Package : Owned(q))' /\ RoutableIsKnown' /\ AtRest'
  BY <1>5, <1>6, <1>11, <1>12, <1>13, Elsewhere
<1> QED
  BY <1>7, <1>8, <1>10, <1>14 DEF PackageInv

LEMMA MakeDataKeeps ==
    ASSUME PackageInv, NEW p \in Package, tx # None, p = tx.pkg, MakeData
    PROVE  PackageInv'
<1>1. tx \in Transaction /\ tx.op = "install" /\ tx.at = "data"
  BY Tx DEF MakeData, At
<1>2. /\ p \notin System /\ tx.version # 0 /\ ~Rejected(p, tx.version)
      /\ ledger[p] # None /\ ~ledger[p].removal /\ ledger[p].uid = tx.uid
      /\ tx.version \in code[p]
      /\ Committed(p) /\ IF Had THEN ledger[p] = tx.prev ELSE Unknown(p)
  BY <1>1 DEF PackageInv, Installing, Before
<1>3. CASE data[p] # 0
  <2>1. faults' \in 0..MaxFaults /\ Goto("undo") /\ UNCHANGED <<disk, memory, phase, setter>>
    BY <1>3 DEF MakeData, PackageInv, TypeOK, disk
  <2> QED
    BY <1>1, <2>1, InstallMoves DEF Before
<1>4. CASE data[p] = 0
  <2>1. /\ data' = [data EXCEPT ![p] = tx.uid] /\ data \in [Package -> 0..MaxUid]
        /\ tx.uid \in 0..MaxUid /\ tx' = [tx EXCEPT !.at = "ledger", !.made = TRUE]
    BY <1>1, <1>4 DEF MakeData, PackageInv, TypeOK, Transaction
  <2>2. /\ data' \in [Package -> 0..MaxUid] /\ data'[p] = tx.uid
        /\ \A q \in Package \ {p} : data'[q] = data[q]
    BY <2>1
  <2>3. /\ tx' \in Transaction /\ tx' # None /\ tx'.at = "ledger" /\ tx'.op = "install"
        /\ tx'.pkg = p /\ tx'.version = tx.version /\ tx'.prev = tx.prev /\ tx'.uid = tx.uid
    <3>1. tx' \in Transaction
      BY <1>1, <2>1 DEF Transaction
    <3>2. /\ tx'.at = "ledger" /\ tx'.op = tx.op /\ tx'.pkg = tx.pkg
          /\ tx'.version = tx.version /\ tx'.prev = tx.prev /\ tx'.uid = tx.uid
      BY <1>1, <2>1 DEF Transaction
    <3>3. tx' # None
      BY <3>1, NoneAssumption
    <3> QED
      BY <1>1, <3>1, <3>2, <3>3
  <2>4. /\ ledger' = ledger /\ code' = code /\ grant' = grant /\ image' = image /\ phase' = phase
        /\ ident' = ident /\ reg' = reg /\ perm' = perm /\ cat' = cat /\ running' = running
        /\ nextUid' = nextUid /\ acl' = acl /\ setter' = setter /\ faults' = faults
    BY DEF MakeData, memory
  <2>5. TypeOK'
    BY <2>2, <2>3, <2>4 DEF PackageInv, TypeOK
  <2>6. UidsApart' /\ Kernel' /\ Boots' /\ Removing' /\ Setting' /\ Projecting'
    BY <1>1, <2>3, <2>4, <2>5, InstallRest
  <2>7. Committed(p)' /\ (Unknown(p)' <=> Unknown(p))
        /\ (\A v : Rejected(p, v)' <=> Rejected(p, v))
    <3>1. Unknown(p)' <=> Unknown(p)
      BY <2>4 DEF Unknown
    <3> QED
      BY <1>2, <2>4, <3>1, Standing
  <2>8. Installing'
    BY <1>2, <2>3, <2>4, <2>7 DEF Installing, Before, After, Had
  <2>9. Owned(p)' /\ Routable(p)'
    BY <1>2, <2>2, <2>4 DEF PackageInv, Owned, RoutableIsKnown, Routable
  <2>10. \A q \in Package \ {p} : Same(q)
    BY <2>2, <2>4 DEF Same
  <2>11. phase = "up"
    BY <1>1 DEF PackageInv, Kernel
  <2>12. Dark' /\ (\A q \in Package : Owned(q))' /\ RoutableIsKnown' /\ AtRest'
    BY <2>3, <2>4, <2>9, <2>10, <2>11, Elsewhere
  <2> QED
    BY <2>5, <2>6, <2>8, <2>12 DEF PackageInv
<1> QED
  BY <1>3, <1>4

LEMMA SaveLedgerKeeps ==
    ASSUME PackageInv, NEW p \in Package, tx # None, p = tx.pkg, SaveLedger
    PROVE  PackageInv'
<1> DEFINE L == [version |-> tx.version, code |-> Code[tx.version], uid |-> tx.uid,
                 disabled |-> Carried, removal |-> FALSE]
<1>1. tx \in Transaction /\ tx.op = "install" /\ tx.at = "ledger" /\ Goto("ident")
  BY Tx DEF SaveLedger, At
<1>2. /\ p \notin System /\ tx.version # 0 /\ ~Rejected(p, tx.version)
      /\ ledger[p] # None /\ ledger[p].uid = tx.uid /\ tx.version \in code[p]
  BY <1>1 DEF PackageInv, Installing, Before
<1>3. /\ tx' \in Transaction /\ tx' # None /\ tx'.at = "ident" /\ tx'.op = "install"
      /\ tx'.pkg = p /\ tx'.version = tx.version /\ tx'.prev = tx.prev /\ tx'.uid = tx.uid
  BY <1>1, GotoTx
<1>4. /\ code' = code /\ data' = data /\ grant' = grant /\ image' = image /\ phase' = phase
      /\ ident' = ident /\ reg' = reg /\ perm' = perm /\ cat' = cat /\ running' = running
      /\ nextUid' = nextUid /\ acl' = acl /\ setter' = setter /\ faults' = faults
  BY DEF SaveLedger, memory
<1>5. /\ ledger' = [ledger EXCEPT ![p] = L] /\ ledger \in [Package -> Ledger \cup {None}]
      /\ ledger[p] \in Ledger
  BY <1>1, <1>2 DEF SaveLedger, PackageInv, TypeOK
<1>6. L \in Ledger /\ L # None
  <2>1. Carried \in SUBSET Component
    BY <1>1 DEF Carried, Had, Transaction, Ledger
  <2>2. tx.uid \in Uid
    BY <1>2, <1>5 DEF Ledger
  <2>3. tx.version \in Version /\ Code[tx.version] \in Nat
    BY <1>1, <1>2, Coded DEF Transaction
  <2>4. L \in Ledger
    BY <2>1, <2>2, <2>3 DEF Ledger
  <2> QED
    BY <2>4, NoneAssumption
<1>7. ledger'[p] = L /\ \A q \in Package \ {p} : ledger'[q] = ledger[q]
  BY <1>5
<1>8. TypeOK'
  <2>1. ledger' \in [Package -> Ledger \cup {None}]
    BY <1>5, <1>6
  <2> QED
    BY <1>3, <1>4, <2>1 DEF PackageInv, TypeOK
<1>9. UidsApart' /\ Kernel' /\ Boots' /\ Removing' /\ Setting' /\ Projecting'
  <2>1. \A q \in Package : \/ ledger'[q] = ledger[q]
                           \/ ledger'[q].uid = ledger[q].uid /\ ledger[q] # None
    BY <1>2, <1>7
  <2> QED
    BY <1>1, <1>3, <1>4, <1>8, <2>1, InstallRest
<1>10. Installing'
  <2>1. ~Rejected(p, tx.version)' /\ Carried' = Carried
    BY <1>2, <1>3, <1>4 DEF Rejected, Carried, Had
  <2> QED
    BY <1>2, <1>3, <1>4, <1>6, <1>7, <2>1 DEF Installing, Before, After, Rejected
<1>11. Owned(p)' /\ Routable(p)'
  BY <1>2, <1>4, <1>6, <1>7 DEF PackageInv, Owned, RoutableIsKnown, Routable
<1>12. \A q \in Package \ {p} : Same(q)
  BY <1>4, <1>7 DEF Same
<1>13. phase = "up"
  BY <1>1 DEF PackageInv, Kernel
<1>14. Dark' /\ (\A q \in Package : Owned(q))' /\ RoutableIsKnown' /\ AtRest'
  BY <1>3, <1>4, <1>11, <1>12, <1>13, Elsewhere
<1> QED
  BY <1>8, <1>9, <1>10, <1>14 DEF PackageInv

LEMMA PublishKeeps ==
    ASSUME PackageInv, NEW p \in Package, tx # None, p = tx.pkg, Publish
    PROVE  PackageInv'
<1>1. tx \in Transaction /\ tx.op = "install" /\ tx.at \in {"ident", "reg", "perm", "cat"}
  BY Tx DEF Publish
<1>2. /\ p \notin System /\ tx.version # 0 /\ ~Rejected(p, tx.version)
      /\ tx.version \in code[p]
      /\ ledger[p] = [version |-> tx.version, code |-> Code[tx.version], uid |-> tx.uid,
                      disabled |-> Carried, removal |-> FALSE]
  BY <1>1 DEF PackageInv, Installing, Before, After
<1>3. ledger[p] # None /\ tx.uid \in Uid /\ tx.version \in Version
      /\ Carried \in SUBSET Component
  <2>1. ledger[p] # None
    BY <1>1, <1>2 DEF PackageInv, Owned
  <2>2. ledger[p] \in Ledger
    BY <2>1 DEF PackageInv, TypeOK
  <2> QED
    BY <1>2, <2>1, <2>2 DEF Ledger
<1> DEFINE E == [version |-> tx.version, uid |-> tx.uid, disabled |-> Carried]
<1>4. E \in Entry /\ E # None
  <2>1. E \in Entry
    BY <1>3 DEF Entry
  <2> QED
    BY <2>1, NoneAssumption
<1>5. /\ ledger' = ledger /\ code' = code /\ data' = data /\ grant' = grant /\ image' = image
      /\ phase' = phase /\ running' = running /\ nextUid' = nextUid /\ acl' = acl
      /\ setter' = setter /\ faults' = faults
  BY DEF Publish, disk
<1>6. /\ tx' \in Transaction /\ tx' # None /\ tx'.op = "install" /\ tx'.at # "bare"
      /\ tx'.pkg = p /\ tx'.version = tx.version /\ tx'.prev = tx.prev /\ tx'.uid = tx.uid
  BY <1>1, GotoTx DEF Publish
<1>7. \/ tx.at = "ident" /\ tx'.at = "reg" /\ ReplaceIdentity(p, tx.uid)
      \/ tx.at = "reg" /\ tx'.at = "perm" /\ ReplaceEntry(p, E)
      \/ tx.at = "perm" /\ tx'.at = "cat" /\ ReplaceGrants(perm \cup {p})
      \/ tx.at = "cat" /\ tx'.at = "consent" /\ PublishCatalog(p, tx.version)
  BY <1>1, GotoTx DEF Publish
<1>8. /\ ident' \in [Package -> 0..MaxUid] /\ reg' \in [Package -> Entry \cup {None}]
      /\ perm' \subseteq Package /\ cat' \in [Package -> Version \cup {0}]
      /\ \A q \in Package \ {p} : /\ ident'[q] = ident[q] /\ reg'[q] = reg[q]
                                  /\ (q \in perm' <=> q \in perm) /\ cat'[q] = cat[q]
      /\ ident'[p] = IF tx.at = "ident" THEN tx.uid ELSE ident[p]
      /\ reg'[p] = IF tx.at = "reg" THEN E ELSE reg[p]
      /\ p \in perm' <=> tx.at = "perm" \/ p \in perm
      /\ cat'[p] = IF tx.at = "cat" THEN tx.version ELSE cat[p]
  <2> DEFINE Four(i, r, g, c) ==
        /\ i \in [Package -> 0..MaxUid] /\ r \in [Package -> Entry \cup {None}]
        /\ g \subseteq Package /\ c \in [Package -> Version \cup {0}]
  <2>1. Four(ident, reg, perm, cat) /\ tx.uid \in 0..MaxUid
    BY <1>3 DEF PackageInv, TypeOK, Uid
  <2>2. CASE tx.at = "ident"
    BY <1>7, <2>1, <2>2 DEF ReplaceIdentity
  <2>3. CASE tx.at = "reg"
    BY <1>4, <1>7, <2>1, <2>3 DEF ReplaceEntry
  <2>4. CASE tx.at = "perm"
    BY <1>7, <2>1, <2>4 DEF ReplaceGrants
  <2>5. CASE tx.at = "cat"
    BY <1>3, <1>7, <2>1, <2>5 DEF PublishCatalog
  <2> QED
    BY <1>1, <2>2, <2>3, <2>4, <2>5
<1>9. TypeOK'
  BY <1>5, <1>6, <1>8 DEF PackageInv, TypeOK
<1>10. UidsApart' /\ Kernel' /\ Boots' /\ Removing' /\ Setting' /\ Projecting'
  BY <1>1, <1>5, <1>6, <1>9, InstallRest
<1>11. Installing'
  <2>1. ~Rejected(p, tx.version)' /\ Carried' = Carried
    BY <1>2, <1>5, <1>6 DEF Rejected, Carried, Had
  <2>2. tx.uid # 0
    BY <1>3 DEF Uid
  <2>3. /\ tx.at \in After \ {"ident"} => ident[p] # 0
        /\ tx.at \in After \ {"ident", "reg"} => reg[p] = E
        /\ tx.at \in After \ {"ident", "reg", "perm"} => p \in perm
    BY <1>1 DEF PackageInv, Installing
  <2>4. /\ tx'.at \in After \ {"ident"} => ident'[p] # 0
        /\ tx'.at \in After \ {"ident", "reg"} => reg'[p] = E
        /\ tx'.at \in After \ {"ident", "reg", "perm"} => p \in perm'
        /\ tx'.at \in After
    BY <1>7, <1>8, <2>2, <2>3 DEF After
  <2> QED
    BY <1>2, <1>3, <1>5, <1>6, <2>1, <2>4 DEF Installing, Before, After, Rejected
<1>12. Owned(p)'
  BY <1>3, <1>5 DEF PackageInv, Owned
<1>13. Routable(p)'
  <2>1. tx.at = "cat" => ident[p] # 0 /\ reg[p] = E /\ p \in perm
    BY <1>1 DEF PackageInv, Installing, After
  <2>2. tx.uid # 0
    BY <1>3 DEF Uid
  <2> QED
    BY <1>4, <1>8, <2>1, <2>2 DEF PackageInv, RoutableIsKnown, Routable
<1>14. \A q \in Package \ {p} : Same(q)
  BY <1>5, <1>8 DEF Same
<1>15. phase = "up"
  BY <1>1 DEF PackageInv, Kernel
<1>16. Dark' /\ (\A q \in Package : Owned(q))' /\ RoutableIsKnown' /\ AtRest'
  BY <1>5, <1>6, <1>12, <1>13, <1>14, <1>15, Elsewhere
<1> QED
  BY <1>9, <1>10, <1>11, <1>16 DEF PackageInv

LEMMA ConsentKeeps ==
    ASSUME PackageInv, NEW p \in Package, tx # None, p = tx.pkg, Consent
    PROVE  PackageInv'
<1>1. tx \in Transaction /\ tx.op = "install" /\ tx.at = "consent" /\ Goto("reload")
  BY Tx DEF Consent, At
<1>2. /\ tx' \in Transaction /\ tx' # None /\ tx'.at = "reload" /\ tx'.op = "install"
      /\ tx'.pkg = p /\ tx'.version = tx.version /\ tx'.prev = tx.prev /\ tx'.uid = tx.uid
  BY <1>1, GotoTx
<1>3. /\ ledger' = ledger /\ code' = code /\ data' = data /\ image' = image /\ phase' = phase
      /\ ident' = ident /\ reg' = reg /\ perm' = perm /\ cat' = cat /\ running' = running
      /\ nextUid' = nextUid /\ acl' = acl
  BY DEF Consent, memory
<1> DEFINE C == [at |-> "decide", pkg |-> p, allowed |-> FALSE, uid |-> 0, copy |-> {}]
<1>4. C \in Call
  BY PackageAssumption DEF Call
<1>5. /\ grant' \in [Package -> {"none", "granted", "denied"}]
      /\ setter' \in [Thread \cup {Installer} -> Call \cup {None}]
      /\ faults' \in 0..MaxFaults
      /\ \A q \in Package \ {p} : grant'[q] = grant[q]
      /\ \A t \in Thread \cup {Installer} : setter'[t] = setter[t] \/ setter'[t] = C
  <2>1. /\ grant \in [Package -> {"none", "granted", "denied"}]
        /\ setter \in [Thread \cup {Installer} -> Call \cup {None}]
        /\ faults \in 0..MaxFaults
    BY DEF PackageInv, TypeOK
  <2>2. faults' \in 0..MaxFaults
    BY <2>1, PackageAssumption DEF Consent, Fault, NoFault
  <2>3. CASE UNCHANGED <<grant, setter>>
    BY <2>1, <2>2, <2>3
  <2>4. CASE /\ grant' = [grant EXCEPT ![p] = "granted"]
             /\ setter' = [setter EXCEPT ![Installer] = C]
    BY <1>4, <2>1, <2>2, <2>4
  <2> QED
    BY <2>3, <2>4 DEF Consent
<1>6. TypeOK'
  BY <1>2, <1>3, <1>5 DEF PackageInv, TypeOK
<1>7. Kernel' /\ Boots' /\ Removing' /\ Setting' /\ UidsApart'
  BY <1>1, <1>2, <1>3 DEF PackageInv, UidsApart, Kernel, Boots, Removing, Setting
<1>8. Projecting'
  BY <1>5 DEF PackageInv, Projecting
<1>9. Installing'
  <2>1. ~Rejected(p, tx.version)' /\ Carried' = Carried
    BY <1>1, <1>2, <1>3 DEF PackageInv, Installing, Before, After, Rejected, Carried, Had
  <2> QED
    BY <1>1, <1>2, <1>3, <2>1 DEF PackageInv, Installing, Before, After, Rejected
<1>10. ledger[p] # None
  BY <1>1, NoneAssumption DEF PackageInv, Installing, After, Owned
<1>11. Owned(p)' /\ Routable(p)'
  BY <1>3, <1>10 DEF PackageInv, Owned, RoutableIsKnown, Routable
<1>12. \A q \in Package \ {p} : Same(q)
  BY <1>3, <1>5 DEF Same
<1>13. phase = "up"
  BY <1>1 DEF PackageInv, Kernel
<1>14. Dark' /\ (\A q \in Package : Owned(q))' /\ RoutableIsKnown' /\ AtRest'
  BY <1>2, <1>3, <1>11, <1>12, <1>13, Elsewhere
<1> QED
  BY <1>6, <1>7, <1>8, <1>9, <1>14 DEF PackageInv

\* Without a transaction there is nothing to show of its kinds.
LEMMA NoTx ==
    ASSUME PackageInv, tx' = None, ledger' = ledger, nextUid' = nextUid, UNCHANGED setter
    PROVE  /\ UidsApart' /\ Kernel' /\ Boots' /\ Installing' /\ Removing' /\ Setting'
           /\ Projecting'
BY DEF PackageInv, UidsApart, Kernel, Boots, Installing, Removing, Setting, Projecting

LEMMA ReloadKeeps ==
    ASSUME PackageInv, NEW p \in Package, tx # None, p = tx.pkg, Reload
    PROVE  PackageInv'
<1>1. tx \in Transaction /\ tx.op = "install" /\ tx.at = "reload"
  BY Tx DEF Reload, At
<1>2. /\ ledger' = ledger /\ code' = code /\ data' = data /\ image' = image /\ phase' = phase
      /\ ident' = ident /\ reg' = reg /\ perm' = perm /\ cat' = cat /\ grant' = grant
      /\ nextUid' = nextUid /\ acl' = acl /\ setter' = setter /\ tx' = None
  BY DEF Reload, disk
<1>3. /\ running' \in [Package -> SUBSET Component] /\ faults' \in 0..MaxFaults
      /\ \A q \in Package \ {p} : running'[q] = running[q]
  BY PackageAssumption DEF Reload, PackageInv, TypeOK, Fault, NoFault
<1>4. TypeOK'
  BY <1>2, <1>3 DEF PackageInv, TypeOK
<1>5. /\ ~Rejected(p, tx.version) /\ tx.version \in code[p]
      /\ ledger[p] = [version |-> tx.version, code |-> Code[tx.version], uid |-> tx.uid,
                      disabled |-> Carried, removal |-> FALSE]
      /\ reg[p] = [version |-> tx.version, uid |-> tx.uid, disabled |-> Carried]
      /\ ident[p] # 0
  BY <1>1 DEF PackageInv, Installing, After
<1>6. ledger[p] # None
  BY <1>5 DEF PackageInv, Owned, Unknown
<1>7. Whole(p) /\ reg[p] = EntryOf(p)
  BY <1>5, <1>6 DEF Whole, Overwritten, Tree, EntryOf
<1>8. Committed(p)' /\ Buried(p)'
  BY <1>2, <1>5, <1>7, Standing DEF Committed, Buried
<1>9. Owned(p)' /\ Routable(p)'
  BY <1>2, <1>6 DEF PackageInv, Owned, RoutableIsKnown, Routable
<1>10. \A q \in Package \ {p} : Same(q)
  BY <1>2, <1>3 DEF Same
<1>11. phase = "up"
  BY <1>1 DEF PackageInv, Kernel
<1>12. Dark' /\ (\A q \in Package : Owned(q))' /\ RoutableIsKnown' /\ AtRest'
  BY <1>2, <1>8, <1>9, <1>10, <1>11, Elsewhere
<1> QED
  BY <1>2, <1>4, <1>12, NoTx DEF PackageInv

LEMMA UndoKeeps ==
    ASSUME PackageInv, NEW p \in Package, tx # None, p = tx.pkg, Undo
    PROVE  PackageInv'
<1>1. tx \in Transaction /\ tx.op = "install" /\ tx.at = "undo"
  BY Tx DEF Undo, At
<1>2. /\ ledger' = ledger /\ running' = running /\ image' = image /\ phase' = phase
      /\ ident' = ident /\ reg' = reg /\ perm' = perm /\ cat' = cat /\ grant' = grant
      /\ nextUid' = nextUid /\ acl' = acl /\ setter' = setter /\ tx' = None
  BY DEF Undo, memory
<1>3. /\ code' \in [Package -> SUBSET Version] /\ data' \in [Package -> 0..MaxUid]
      /\ faults' \in 0..MaxFaults
      /\ \A q \in Package \ {p} : code'[q] = code[q] /\ data'[q] = data[q]
      /\ code'[p] = code[p] \/ (~Replacing /\ code'[p] = code[p] \ Tree(p, tx.version))
      /\ data'[p] \in {0, data[p]}
  <2>1. /\ code \in [Package -> SUBSET Version] /\ data \in [Package -> 0..MaxUid]
        /\ faults \in 0..MaxFaults /\ 0 \in 0..MaxUid
    BY PackageAssumption DEF PackageInv, TypeOK
  <2>2. faults' \in 0..MaxFaults
    BY <2>1, PackageAssumption DEF Undo, Fault, NoFault
  <2>3. \/ code' = code
        \/ ~Replacing /\ code' = [code EXCEPT ![p] = @ \ Tree(p, tx.version)]
    <3>1. [code EXCEPT ![p] = code[p]] = code
      BY <2>1
    <3>2. CASE tx.placed /\ ~Replacing
      BY <3>2 DEF Undo
    <3>3. CASE ~(tx.placed /\ ~Replacing)
      BY <3>1, <3>3 DEF Undo
    <3> QED
      BY <3>2, <3>3
  <2>4. data' = data \/ data' = [data EXCEPT ![p] = 0]
    <3>1. [data EXCEPT ![p] = data[p]] = data
      BY <2>1
    <3>2. CASE tx.made
      BY <3>2 DEF Undo
    <3>3. CASE ~tx.made
      BY <3>1, <3>3 DEF Undo
    <3> QED
      BY <3>2, <3>3
  <2>5. /\ code' \in [Package -> SUBSET Version]
        /\ \A q \in Package \ {p} : code'[q] = code[q]
        /\ code'[p] = code[p] \/ (~Replacing /\ code'[p] = code[p] \ Tree(p, tx.version))
    <3>1. CASE code' = code
      BY <2>1, <3>1
    <3>2. CASE ~Replacing /\ code' = [code EXCEPT ![p] = @ \ Tree(p, tx.version)]
      BY <2>1, <3>2
    <3> QED
      BY <2>3, <3>1, <3>2
  <2>6. /\ data' \in [Package -> 0..MaxUid] /\ data'[p] \in {0, data[p]}
        /\ \A q \in Package \ {p} : data'[q] = data[q]
    BY <2>1, <2>4
  <2> QED
    BY <2>2, <2>5, <2>6
<1>4. TypeOK'
  BY <1>2, <1>3 DEF PackageInv, TypeOK
<1>5. /\ p \notin System /\ Committed(p) /\ (ledger[p] # None => ~ledger[p].removal)
      /\ IF Had THEN ledger[p] = tx.prev ELSE Unknown(p)
  BY <1>1 DEF PackageInv, Installing, Before
<1>6. Committed(p)'
  <2>1. CASE Had
    <3>1. Dir[ledger[p].version] = Dir[tx.version] => Replacing
      BY <1>5, <2>1 DEF Replacing
    <3>2. \A w \in code[p] : Dir[w] = Dir[ledger[p].version] => w \in code'[p]
      BY <1>3, <3>1 DEF Tree
    <3>3. Overwritten(p) => Overwritten(p)'
      BY <1>2, <3>2 DEF Overwritten, Tree
    <3>4. Whole(p) => Whole(p)'
      BY <1>2, <3>2, <3>3 DEF Whole, Rejected
    <3> QED
      BY <1>2, <1>5, <3>4 DEF Committed, EntryOf
  <2>2. CASE ~Had
    BY <1>2, <1>5, <2>2 DEF Committed, Unknown
  <2> QED
    BY <2>1, <2>2
<1>7. Buried(p)' /\ Owned(p)' /\ Routable(p)'
  BY <1>2, <1>3, <1>5 DEF PackageInv, Buried, Owned, RoutableIsKnown, Routable, Unknown
<1>8. \A q \in Package \ {p} : Same(q)
  BY <1>2, <1>3 DEF Same
<1>9. phase = "up"
  BY <1>1 DEF PackageInv, Kernel
<1>10. Dark' /\ (\A q \in Package : Owned(q))' /\ RoutableIsKnown' /\ AtRest'
  BY <1>2, <1>6, <1>7, <1>8, <1>9, Elsewhere
<1> QED
  BY <1>2, <1>4, <1>10, NoTx DEF PackageInv

\* What an uninstallation leaves to show of the rest of the invariant.
LEMMA RemoveRest ==
    ASSUME PackageInv, NEW p \in Package, tx # None, p = tx.pkg, tx.op = "remove",
           tx' # None, tx'.op = "remove", tx'.at # "bare", phase' = phase,
           nextUid' = nextUid, ledger' = ledger, UNCHANGED setter
    PROVE  UidsApart' /\ Kernel' /\ Boots' /\ Installing' /\ Setting' /\ Projecting'
BY DEF PackageInv, UidsApart, Kernel, Boots, Installing, Setting, Projecting

\* From its last projection on, a package that is being removed is unknown.
LEMMA RemovedAtRest ==
    ASSUME PackageInv, NEW p \in Package, tx # None, p = tx.pkg, tx.op = "remove",
           tx.at \notin {"cat", "reg", "ident", "perm"},
           UNCHANGED <<ident, reg, perm, cat>>
    PROVE  Unknown(p) /\ Unknown(p)' /\ Committed(p)' /\ Buried(p)' /\ Routable(p)'
<1>1. Unknown(p)
  BY DEF PackageInv, Removing, Unknown
<1> QED
  BY <1>1 DEF Unknown, Committed, Buried, Routable

\* A step that fails and ends the call after the projections.
LEMMA RemoveStops ==
    ASSUME PackageInv, NEW p \in Package, tx # None, p = tx.pkg, tx.op = "remove",
           tx.at \notin {"cat", "reg", "ident", "perm"}, tx' = None, TypeOK',
           UNCHANGED <<ident, reg, perm, cat, image, phase, ledger, nextUid, setter>>,
           data' = data, grant' = grant,
           \A q \in Package \ {p} : code'[q] = code[q] /\ running'[q] = running[q]
    PROVE  PackageInv'
<1>1. Unknown(p)' /\ Committed(p)' /\ Buried(p)' /\ Routable(p)'
  BY RemovedAtRest
<1>2. ledger[p] # None /\ phase = "up"
  BY DEF PackageInv, Removing, Kernel
<1>3. Owned(p)'
  BY <1>2 DEF PackageInv, Owned
<1>4. \A q \in Package \ {p} : Same(q)
  BY DEF Same
<1>5. Dark' /\ (\A q \in Package : Owned(q))' /\ RoutableIsKnown' /\ AtRest'
  BY <1>1, <1>2, <1>3, <1>4, Elsewhere
<1> QED
  BY <1>5, NoTx DEF PackageInv

LEMMA BeginRemoveKeeps ==
    ASSUME PackageInv, NEW p \in Package, BeginRemove(p)
    PROVE  PackageInv'
<1>1. tx = None /\ phase = "up" /\ p \notin System /\ ledger[p] # None
  BY DEF BeginRemove
<1>2. ledger \in [Package -> Ledger \cup {None}] /\ ledger[p] \in Ledger
  BY <1>1 DEF PackageInv, TypeOK
<1> DEFINE L == [ledger[p] EXCEPT !.removal = TRUE]
<1>3. /\ L \in Ledger /\ L # None /\ L.removal /\ L.uid = ledger[p].uid
      /\ L.uid \in 0..MaxUid
  <2>1. L \in Ledger
    BY <1>2 DEF Ledger
  <2>2. L.removal /\ L.uid = ledger[p].uid
    BY <1>2 DEF Ledger
  <2>3. ledger[p].uid \in 0..MaxUid
    BY <1>2, PackageAssumption DEF Ledger, Uid
  <2> QED
    BY <2>1, <2>2, <2>3, NoneAssumption
<1>4. ledger' = [ledger EXCEPT ![p] = L]
  BY DEF BeginRemove
<1>5. /\ ledger' \in [Package -> Ledger \cup {None}] /\ ledger'[p] = L
      /\ \A q \in Package \ {p} : ledger'[q] = ledger[q]
  BY <1>2, <1>3, <1>4
<1>6. /\ tx' \in Transaction /\ tx' # None /\ tx'.op = "remove" /\ tx'.at = "cat"
      /\ tx'.pkg = p /\ tx'.uid = ledger[p].uid
  <2>1. tx' = [op |-> "remove", pkg |-> p, version |-> 0, component |-> None,
               at |-> "cat", prev |-> ledger[p], uid |-> ledger[p].uid,
               placed |-> FALSE, made |-> FALSE]
    BY DEF BeginRemove, Held
  <2>2. tx' \in Transaction
    BY <1>2, <1>3, <2>1 DEF Transaction
  <2> QED
    BY <2>1, <2>2, NoneAssumption
<1>7. /\ code' = code /\ data' = data /\ grant' = grant /\ image' = image /\ phase' = phase
      /\ ident' = ident /\ reg' = reg /\ perm' = perm /\ cat' = cat /\ running' = running
      /\ nextUid' = nextUid /\ acl' = acl /\ setter' = setter /\ faults' = faults
  BY DEF BeginRemove, memory
<1>8. TypeOK'
  BY <1>5, <1>6, <1>7 DEF PackageInv, TypeOK
<1>9. UidsApart' /\ Kernel' /\ Boots' /\ Installing' /\ Setting' /\ Projecting'
  <2>1. \A q \in Package :
           (ledger'[q] # None <=> ledger[q] # None) /\ ledger'[q].uid = ledger[q].uid
    BY <1>1, <1>3, <1>5
  <2>2. UidsApart'
    BY <1>6, <1>7, <2>1 DEF PackageInv, UidsApart
  <2> QED
    BY <1>1, <1>6, <1>7, <2>2
       DEF PackageInv, Kernel, Boots, Installing, Setting, Projecting
<1>10. Removing'
  BY <1>1, <1>3, <1>5, <1>6 DEF Removing
<1>11. Owned(p)' /\ Routable(p)'
  BY <1>1, <1>3, <1>5, <1>7 DEF PackageInv, Owned, RoutableIsKnown, Routable
<1>12. \A q \in Package \ {p} : Same(q)
  BY <1>5, <1>7 DEF Same
<1>13. Dark' /\ (\A q \in Package : Owned(q))' /\ RoutableIsKnown' /\ AtRest'
  BY <1>1, <1>6, <1>7, <1>11, <1>12, Elsewhere
<1> QED
  BY <1>8, <1>9, <1>10, <1>13 DEF PackageInv

LEMMA UnpublishKeeps ==
    ASSUME PackageInv, NEW p \in Package, tx # None, p = tx.pkg, Unpublish
    PROVE  PackageInv'
<1>1. tx \in Transaction /\ tx.op = "remove" /\ tx.at \in {"cat", "reg", "ident", "perm"}
  BY Tx DEF Unpublish
<1>2. /\ p \notin System /\ ledger[p] # None /\ ledger[p].removal
      /\ tx.at # "cat" => cat[p] = 0
      /\ tx.at \notin {"cat", "reg"} => reg[p] = None
      /\ tx.at \notin {"cat", "reg", "ident"} => ident[p] = 0
  BY <1>1 DEF PackageInv, Removing
<1>3. /\ ledger' = ledger /\ code' = code /\ data' = data /\ grant' = grant /\ image' = image
      /\ phase' = phase /\ running' = running /\ nextUid' = nextUid /\ acl' = acl
      /\ setter' = setter /\ faults' = faults
  BY DEF Unpublish, disk
<1>4. tx' \in Transaction /\ tx' # None /\ tx'.op = "remove" /\ tx'.pkg = p
  BY <1>1, GotoTx DEF Unpublish
<1>5. \/ tx.at = "cat" /\ tx'.at = "reg" /\ PublishCatalog(p, 0)
      \/ tx.at = "reg" /\ tx'.at = "ident" /\ ReplaceEntry(p, None)
      \/ tx.at = "ident" /\ tx'.at = "perm" /\ ReplaceIdentity(p, 0)
      \/ tx.at = "perm" /\ tx'.at = "stop" /\ ReplaceGrants(perm \ {p})
  BY <1>1, GotoTx DEF Unpublish
<1>6. /\ ident' \in [Package -> 0..MaxUid] /\ reg' \in [Package -> Entry \cup {None}]
      /\ perm' \subseteq Package /\ cat' \in [Package -> Version \cup {0}]
      /\ \A q \in Package \ {p} : /\ ident'[q] = ident[q] /\ reg'[q] = reg[q]
                                  /\ (q \in perm' <=> q \in perm) /\ cat'[q] = cat[q]
      /\ cat'[p] = IF tx.at = "cat" THEN 0 ELSE cat[p]
      /\ reg'[p] = IF tx.at = "reg" THEN None ELSE reg[p]
      /\ ident'[p] = IF tx.at = "ident" THEN 0 ELSE ident[p]
      /\ p \in perm' <=> tx.at # "perm" /\ p \in perm
  <2>1. /\ ident \in [Package -> 0..MaxUid] /\ reg \in [Package -> Entry \cup {None}]
        /\ perm \subseteq Package /\ cat \in [Package -> Version \cup {0}] /\ 0 \in 0..MaxUid
    BY PackageAssumption DEF PackageInv, TypeOK
  <2>2. CASE tx.at = "ident"
    BY <1>5, <2>1, <2>2 DEF ReplaceIdentity
  <2>3. CASE tx.at = "reg"
    BY <1>5, <2>1, <2>3 DEF ReplaceEntry
  <2>4. CASE tx.at = "perm"
    BY <1>5, <2>1, <2>4 DEF ReplaceGrants
  <2>5. CASE tx.at = "cat"
    BY <1>5, <2>1, <2>5 DEF PublishCatalog
  <2> QED
    BY <1>1, <2>2, <2>3, <2>4, <2>5
<1>7. TypeOK'
  BY <1>3, <1>4, <1>6 DEF PackageInv, TypeOK
<1>8. UidsApart' /\ Kernel' /\ Boots' /\ Installing' /\ Setting' /\ Projecting'
  BY <1>1, <1>3, <1>4, <1>5, RemoveRest
<1>9. Removing'
  BY <1>2, <1>3, <1>4, <1>5, <1>6 DEF Removing
<1>10. Owned(p)' /\ Routable(p)'
  BY <1>2, <1>3, <1>6 DEF PackageInv, Owned, RoutableIsKnown, Routable
<1>11. \A q \in Package \ {p} : Same(q)
  BY <1>3, <1>6 DEF Same
<1>12. phase = "up"
  BY <1>1 DEF PackageInv, Kernel
<1>13. Dark' /\ (\A q \in Package : Owned(q))' /\ RoutableIsKnown' /\ AtRest'
  BY <1>3, <1>4, <1>10, <1>11, <1>12, Elsewhere
<1> QED
  BY <1>7, <1>8, <1>9, <1>13 DEF PackageInv

\* A step after the projections that goes on to the next.
LEMMA RemoveGoesOn ==
    ASSUME PackageInv, NEW p \in Package, tx # None, p = tx.pkg, tx.op = "remove",
           tx.at \notin {"cat", "reg", "ident", "perm"}, TypeOK', Removing',
           tx' # None, tx'.pkg = p, tx'.op = "remove", tx'.at # "bare",
           UNCHANGED <<ident, reg, perm, cat, image, phase, ledger, nextUid, setter>>,
           data'[p] \in {0, data[p]},
           \A q \in Package \ {p} :
              /\ code'[q] = code[q] /\ running'[q] = running[q]
              /\ data'[q] = data[q] /\ grant'[q] = grant[q]
    PROVE  PackageInv'
<1>1. Routable(p)'
  BY RemovedAtRest
<1>2. ledger[p] # None /\ phase = "up"
  BY DEF PackageInv, Removing, Kernel
<1>3. Owned(p)'
  BY <1>2 DEF PackageInv, Owned
<1>4. \A q \in Package \ {p} : Same(q)
  BY DEF Same
<1>5. Dark' /\ (\A q \in Package : Owned(q))' /\ RoutableIsKnown' /\ AtRest'
  BY <1>1, <1>2, <1>3, <1>4, Elsewhere
<1>6. UidsApart' /\ Kernel' /\ Boots' /\ Installing' /\ Setting' /\ Projecting'
  BY RemoveRest
<1> QED
  BY <1>5, <1>6 DEF PackageInv

LEMMA StopAllKeeps ==
    ASSUME PackageInv, NEW p \in Package, tx # None, p = tx.pkg, StopAll
    PROVE  PackageInv'
<1>1. tx \in Transaction /\ tx.op = "remove" /\ tx.at = "stop"
  BY Tx DEF StopAll, At
<1>2. /\ ledger' = ledger /\ code' = code /\ data' = data /\ grant' = grant /\ image' = image
      /\ ident' = ident /\ reg' = reg /\ perm' = perm /\ cat' = cat /\ phase' = phase
      /\ nextUid' = nextUid /\ acl' = acl /\ setter' = setter
  BY DEF StopAll, disk
<1>3. running \in [Package -> SUBSET Component] /\ faults \in 0..MaxFaults
  BY DEF PackageInv, TypeOK
<1>4. CASE /\ NoFault /\ Goto("clear") /\ running' = [running EXCEPT ![p] = {}]
  <2>1. /\ tx' \in Transaction /\ tx' # None /\ tx'.op = "remove" /\ tx'.at = "clear"
        /\ tx'.pkg = p
    BY <1>1, <1>4, GotoTx
  <2>2. /\ running' \in [Package -> SUBSET Component] /\ faults' \in 0..MaxFaults
        /\ running'[p] = {} /\ \A q \in Package \ {p} : running'[q] = running[q]
    BY <1>3, <1>4 DEF NoFault
  <2>3. TypeOK'
    BY <1>2, <2>1, <2>2 DEF PackageInv, TypeOK
  <2>4. Removing'
    BY <1>1, <1>2, <2>1, <2>2 DEF PackageInv, Removing
  <2> QED
    BY <1>1, <1>2, <2>1, <2>2, <2>3, <2>4, RemoveGoesOn
<1>5. CASE /\ Fault /\ tx' = None
           /\ \E left \in SUBSET running[p] : running' = [running EXCEPT ![p] = left]
  <2>1. faults' \in 0..MaxFaults
    BY <1>3, <1>5, PackageAssumption DEF Fault
  <2>2. PICK left \in SUBSET running[p] : running' = [running EXCEPT ![p] = left]
    BY <1>5
  <2>3. /\ running' \in [Package -> SUBSET Component]
        /\ \A q \in Package \ {p} : running'[q] = running[q]
    BY <1>3, <2>2
  <2>4. TypeOK'
    BY <1>2, <1>5, <2>1, <2>3 DEF PackageInv, TypeOK
  <2> QED
    BY <1>1, <1>2, <1>5, <2>3, <2>4, RemoveStops
<1> QED
  BY <1>4, <1>5 DEF StopAll

\* ClearGrants, AclOff and RemoveData.
LEMMA ClearKeeps ==
    ASSUME PackageInv, NEW p \in Package, tx # None, p = tx.pkg,
           ClearGrants \/ AclOff \/ RemoveData
    PROVE  PackageInv'
<1>1. tx \in Transaction /\ tx.op = "remove" /\ tx.at \in {"clear", "acl", "rmdata"}
  BY Tx DEF ClearGrants, AclOff, RemoveData, At
<1>2. /\ ledger' = ledger /\ code' = code /\ image' = image /\ running' = running
      /\ ident' = ident /\ reg' = reg /\ perm' = perm /\ cat' = cat /\ phase' = phase
      /\ nextUid' = nextUid /\ setter' = setter /\ faults' = faults
  BY DEF ClearGrants, AclOff, RemoveData, memory
<1>3. /\ tx' \in Transaction /\ tx' # None /\ tx'.op = "remove" /\ tx'.pkg = p
      /\ tx'.at = IF tx.at = "clear" THEN "acl"
                  ELSE IF tx.at = "acl" THEN "rmcode" ELSE "rmledger"
  BY <1>1, GotoTx DEF ClearGrants, AclOff, RemoveData, At
<1>4. /\ acl' \subseteq Uid /\ data' \in [Package -> 0..MaxUid]
      /\ grant' \in [Package -> {"none", "granted", "denied"}]
      /\ \A q \in Package \ {p} : data'[q] = data[q] /\ grant'[q] = grant[q]
      /\ data'[p] \in {0, data[p]} /\ grant'[p] \in {"none", grant[p]}
      /\ tx.at = "clear" => grant'[p] = "none"
      /\ tx.at = "rmdata" => data'[p] = 0
  <2>1. /\ acl \subseteq Uid /\ data \in [Package -> 0..MaxUid] /\ 0 \in 0..MaxUid
        /\ grant \in [Package -> {"none", "granted", "denied"}]
    BY PackageAssumption DEF PackageInv, TypeOK
  <2>2. CASE ClearGrants
    BY <2>1, <2>2 DEF ClearGrants, At
  <2>3. CASE AclOff
    BY <2>1, <2>3 DEF AclOff, At
  <2>4. CASE RemoveData
    BY <2>1, <2>4 DEF RemoveData, At
  <2> QED
    BY <2>2, <2>3, <2>4
<1>5. TypeOK'
  BY <1>2, <1>3, <1>4 DEF PackageInv, TypeOK
<1>6. Removing'
  BY <1>1, <1>2, <1>3, <1>4 DEF PackageInv, Removing
<1> QED
  BY <1>1, <1>2, <1>3, <1>4, <1>5, <1>6, RemoveGoesOn

LEMMA RemoveCodeKeeps ==
    ASSUME PackageInv, NEW p \in Package, tx # None, p = tx.pkg, RemoveCode
    PROVE  PackageInv'
<1>1. tx \in Transaction /\ tx.op = "remove" /\ tx.at = "rmcode"
  BY Tx DEF RemoveCode, At
<1>2. /\ ledger' = ledger /\ running' = running /\ data' = data /\ grant' = grant
      /\ ident' = ident /\ reg' = reg /\ perm' = perm /\ cat' = cat /\ phase' = phase
      /\ nextUid' = nextUid /\ acl' = acl /\ setter' = setter /\ image' = image
  BY DEF RemoveCode, memory
<1>3. code \in [Package -> SUBSET Version] /\ faults \in 0..MaxFaults
  BY DEF PackageInv, TypeOK
<1>4. CASE NoFault /\ Goto("rmdata") /\ code' = [code EXCEPT ![p] = {}]
  <2>1. /\ tx' \in Transaction /\ tx' # None /\ tx'.op = "remove" /\ tx'.at = "rmdata"
        /\ tx'.pkg = p
    BY <1>1, <1>4, GotoTx
  <2>2. /\ code' \in [Package -> SUBSET Version] /\ faults' \in 0..MaxFaults
        /\ code'[p] = {} /\ \A q \in Package \ {p} : code'[q] = code[q]
    BY <1>3, <1>4 DEF NoFault
  <2>3. TypeOK'
    BY <1>2, <2>1, <2>2 DEF PackageInv, TypeOK
  <2>4. Removing'
    BY <1>1, <1>2, <2>1, <2>2 DEF PackageInv, Removing
  <2> QED
    BY <1>1, <1>2, <2>1, <2>2, <2>3, <2>4, RemoveGoesOn
<1>5. CASE /\ Fault /\ tx' = None
           /\ \E left \in SUBSET code[p] : code' = [code EXCEPT ![p] = left]
  <2>1. faults' \in 0..MaxFaults
    BY <1>3, <1>5, PackageAssumption DEF Fault
  <2>2. PICK left \in SUBSET code[p] : code' = [code EXCEPT ![p] = left]
    BY <1>5
  <2>3. /\ code' \in [Package -> SUBSET Version]
        /\ \A q \in Package \ {p} : code'[q] = code[q]
    BY <1>3, <2>2
  <2>4. TypeOK'
    BY <1>2, <1>5, <2>1, <2>3 DEF PackageInv, TypeOK
  <2> QED
    BY <1>1, <1>2, <1>5, <2>3, <2>4, RemoveStops
<1> QED
  BY <1>4, <1>5 DEF RemoveCode

LEMMA RemoveFailsKeeps ==
    ASSUME PackageInv, NEW p \in Package, tx # None, p = tx.pkg, RemoveFails
    PROVE  PackageInv'
<1>1. /\ tx.op = "remove" /\ tx.at \in {"clear", "acl", "rmdata", "rmledger"} /\ tx' = None
  BY DEF RemoveFails
<1>2. /\ ledger' = ledger /\ running' = running /\ data' = data /\ grant' = grant
      /\ ident' = ident /\ reg' = reg /\ perm' = perm /\ cat' = cat /\ phase' = phase
      /\ nextUid' = nextUid /\ acl' = acl /\ setter' = setter /\ image' = image
      /\ code' = code
  BY DEF RemoveFails, disk, memory
<1>3. faults' \in 0..MaxFaults
  BY PackageAssumption DEF RemoveFails, Fault, PackageInv, TypeOK
<1>4. TypeOK'
  BY <1>1, <1>2, <1>3 DEF PackageInv, TypeOK
<1> QED
  BY <1>1, <1>2, <1>4, RemoveStops

LEMMA RemoveLedgerKeeps ==
    ASSUME PackageInv, NEW p \in Package, tx # None, p = tx.pkg, RemoveLedger
    PROVE  PackageInv'
<1>1. /\ tx.op = "remove" /\ tx.at = "rmledger" /\ tx' = None
      /\ ledger' = [ledger EXCEPT ![p] = None] /\ ledger \in [Package -> Ledger \cup {None}]
  BY DEF RemoveLedger, At, PackageInv, TypeOK
<1>2. /\ code' = code /\ running' = running /\ data' = data /\ grant' = grant
      /\ ident' = ident /\ reg' = reg /\ perm' = perm /\ cat' = cat /\ phase' = phase
      /\ nextUid' = nextUid /\ acl' = acl /\ setter' = setter /\ image' = image
      /\ faults' = faults
  BY DEF RemoveLedger, memory
<1>3. /\ ledger' \in [Package -> Ledger \cup {None}] /\ ledger'[p] = None
      /\ \A q \in Package \ {p} : ledger'[q] = ledger[q]
  BY <1>1
<1>4. TypeOK'
  BY <1>1, <1>2, <1>3 DEF PackageInv, TypeOK
<1>5. UidsApart'
  BY <1>1, <1>2, <1>3 DEF PackageInv, UidsApart
<1>6. Kernel' /\ Boots' /\ Installing' /\ Removing' /\ Setting' /\ Projecting'
  BY <1>1, <1>2 DEF PackageInv, Kernel, Boots, Installing, Removing, Setting, Projecting
<1>7. /\ Unknown(p)' /\ Committed(p)' /\ Routable(p)'
  BY <1>1, <1>2, RemovedAtRest
<1>8. Owned(p)' /\ Buried(p)'
  <2>1. code[p] = {} /\ data[p] = 0 /\ grant[p] = "none" /\ running[p] = {}
    BY <1>1 DEF PackageInv, Removing
  <2> QED
    BY <1>2, <1>3, <1>7, <2>1 DEF Owned, Buried
<1>9. \A q \in Package \ {p} : Same(q)
  BY <1>2, <1>3 DEF Same
<1>10. phase = "up"
  BY <1>1 DEF PackageInv, Kernel
<1>11. Dark' /\ (\A q \in Package : Owned(q))' /\ RoutableIsKnown' /\ AtRest'
  BY <1>1, <1>2, <1>7, <1>8, <1>9, <1>10, Elsewhere
<1> QED
  BY <1>4, <1>5, <1>6, <1>11 DEF PackageInv

LEMMA BeginSetKeeps ==
    ASSUME PackageInv, NEW p \in Package, NEW c \in Component,
           NEW op \in {"disable", "enable"}, BeginSet(p, c, op)
    PROVE  PackageInv'
<1> DEFINE next == IF op = "disable" THEN reg[p].disabled \cup {c} ELSE reg[p].disabled \ {c}
           L == [ledger[p] EXCEPT !.disabled = next]
<1>1. /\ tx = None /\ phase = "up" /\ ledger[p] # None /\ reg[p] # None
      /\ ledger' = [ledger EXCEPT ![p] = L] /\ tx' = Held(op, p, 0, c, "reg")
  BY DEF BeginSet
<1>2. /\ ledger \in [Package -> Ledger \cup {None}] /\ ledger[p] \in Ledger
      /\ reg[p] \in Entry
  BY <1>1 DEF PackageInv, TypeOK
<1>3. Committed(p) /\ ~ledger[p].removal
  BY <1>1 DEF PackageInv, AtRest, Buried, Unknown
<1>4. /\ L \in Ledger /\ L # None /\ L.disabled = next
      /\ L.removal = ledger[p].removal /\ L.uid = ledger[p].uid
      /\ L.version = ledger[p].version /\ L.code = ledger[p].code
  <2>1. next \in SUBSET Component
    BY <1>2 DEF Entry
  <2>2. L \in Ledger
    BY <1>2, <2>1 DEF Ledger
  <2>3. /\ L.disabled = next /\ L.removal = ledger[p].removal /\ L.uid = ledger[p].uid
        /\ L.version = ledger[p].version /\ L.code = ledger[p].code
    BY <1>2 DEF Ledger
  <2> QED
    BY <2>2, <2>3, NoneAssumption
<1>5. /\ ledger' \in [Package -> Ledger \cup {None}] /\ ledger'[p] = L
      /\ \A q \in Package \ {p} : ledger'[q] = ledger[q]
  BY <1>1, <1>2, <1>4
<1>6. /\ tx' \in Transaction /\ tx' # None /\ tx'.op = op /\ tx'.at = "reg" /\ tx'.pkg = p
  <2>1. tx' = [op |-> op, pkg |-> p, version |-> 0, component |-> c, at |-> "reg",
               prev |-> ledger[p], uid |-> 0, placed |-> FALSE, made |-> FALSE]
    BY <1>1 DEF Held
  <2>2. tx' \in Transaction
    BY <1>2, <2>1, PackageAssumption DEF Transaction
  <2> QED
    BY <2>1, <2>2, NoneAssumption
<1>7. /\ code' = code /\ data' = data /\ grant' = grant /\ image' = image /\ phase' = phase
      /\ ident' = ident /\ reg' = reg /\ perm' = perm /\ cat' = cat /\ running' = running
      /\ nextUid' = nextUid /\ acl' = acl /\ setter' = setter /\ faults' = faults
  BY DEF BeginSet, memory
<1>8. TypeOK'
  BY <1>5, <1>6, <1>7 DEF PackageInv, TypeOK
<1>9. UidsApart'
  <2>1. \A q \in Package :
           (ledger'[q] # None <=> ledger[q] # None) /\ ledger'[q].uid = ledger[q].uid
    BY <1>1, <1>4, <1>5
  <2> QED
    BY <1>6, <1>7, <2>1 DEF PackageInv, UidsApart
<1>10. Kernel' /\ Boots' /\ Installing' /\ Removing' /\ Projecting'
  BY <1>1, <1>6, <1>7 DEF PackageInv, Kernel, Boots, Installing, Removing, Projecting
<1>11. Setting'
  <2>1. ~ledger'[p].removal /\ ledger'[p] # None /\ reg'[p] # None
    BY <1>1, <1>3, <1>4, <1>5, <1>7
  <2>2. ASSUME p \notin System
        PROVE  Whole(p)' /\ [reg'[p] EXCEPT !.disabled = ledger'[p].disabled] = EntryOf(p)'
    <3>1. Whole(p) /\ reg[p] = EntryOf(p)
      BY <1>1, <1>3, <2>2 DEF Committed
    <3>2. Whole(p)'
      BY <1>4, <1>5, <1>7, <2>1, <3>1 DEF Whole, Overwritten, Tree, Rejected
    <3>3. EntryOf(p)' = [version |-> ledger[p].version, uid |-> ledger[p].uid,
                         disabled |-> next]
      BY <1>4, <1>5 DEF EntryOf
    <3>4. [EntryOf(p) EXCEPT !.disabled = next]
            = [version |-> ledger[p].version, uid |-> ledger[p].uid, disabled |-> next]
      BY DEF EntryOf
    <3> QED
      BY <1>4, <1>5, <1>7, <3>1, <3>2, <3>3, <3>4
  <2> QED
    BY <1>6, <2>1, <2>2 DEF Setting
<1>12. Owned(p)' /\ Routable(p)'
  BY <1>1, <1>3, <1>4, <1>5, <1>7 DEF PackageInv, Owned, RoutableIsKnown, Routable
<1>13. \A q \in Package \ {p} : Same(q)
  BY <1>5, <1>7 DEF Same
<1>14. Dark' /\ (\A q \in Package : Owned(q))' /\ RoutableIsKnown' /\ AtRest'
  BY <1>1, <1>6, <1>7, <1>12, <1>13, Elsewhere
<1> QED
  BY <1>8, <1>9, <1>10, <1>11, <1>14 DEF PackageInv

LEMMA CommitSetKeeps ==
    ASSUME PackageInv, NEW p \in Package, tx # None, p = tx.pkg, CommitSet
    PROVE  PackageInv'
<1> DEFINE E == [reg[p] EXCEPT !.disabled = ledger[p].disabled]
<1>1. /\ tx \in Transaction /\ tx.op \in {"disable", "enable"} /\ tx.at = "reg"
      /\ ReplaceEntry(p, E)
  BY Tx DEF CommitSet
<1>2. /\ ledger[p] # None /\ ~ledger[p].removal /\ reg[p] # None
      /\ p \notin System => Whole(p) /\ E = EntryOf(p)
  BY <1>1 DEF PackageInv, Setting
<1>3. /\ reg \in [Package -> Entry \cup {None}] /\ reg[p] \in Entry /\ ledger[p] \in Ledger
  BY <1>2 DEF PackageInv, TypeOK
<1>4. E \in Entry /\ E # None
  <2>1. E \in Entry
    BY <1>3 DEF Entry, Ledger
  <2> QED
    BY <2>1, NoneAssumption
<1>5. /\ reg' \in [Package -> Entry \cup {None}] /\ reg'[p] = E
      /\ \A q \in Package \ {p} : reg'[q] = reg[q]
  BY <1>1, <1>3, <1>4 DEF ReplaceEntry
<1>6. /\ ledger' = ledger /\ code' = code /\ data' = data /\ grant' = grant /\ image' = image
      /\ phase' = phase /\ running' = running /\ nextUid' = nextUid /\ acl' = acl
      /\ setter' = setter /\ faults' = faults /\ ident' = ident /\ perm' = perm
      /\ cat' = cat
  BY <1>1 DEF CommitSet, disk, ReplaceEntry
<1>7. \/ tx' = None
      \/ /\ tx' \in Transaction /\ tx' # None /\ tx'.op = tx.op /\ tx'.at = "stop"
         /\ tx'.pkg = p
  <2>1. CASE tx.op = "disable"
    <3>1. Goto("stop")
      BY <2>1 DEF CommitSet, Goto
    <3> QED
      BY <1>1, <3>1, GotoTx
  <2>2. CASE tx.op = "enable"
    BY <2>2 DEF CommitSet
  <2> QED
    BY <1>1, <2>1, <2>2
<1>8. TypeOK'
  BY <1>5, <1>6, <1>7 DEF PackageInv, TypeOK
<1>9. UidsApart'
  BY <1>6, <1>7 DEF PackageInv, UidsApart
<1>10. Kernel' /\ Boots' /\ Installing' /\ Removing' /\ Projecting'
  BY <1>1, <1>6, <1>7 DEF PackageInv, Kernel, Boots, Installing, Removing, Projecting
<1>11. /\ Whole(p)' <=> Whole(p)
       /\ EntryOf(p)' = EntryOf(p)
  BY <1>6 DEF Whole, Overwritten, Tree, EntryOf, Rejected
<1>12. Setting'
  <2>1. [E EXCEPT !.disabled = ledger[p].disabled] = E
    BY <1>3 DEF Entry
  <2> QED
    BY <1>2, <1>4, <1>5, <1>6, <1>7, <1>11, <2>1 DEF Setting
<1>13. Committed(p)' /\ Buried(p)'
  BY <1>2, <1>5, <1>6, <1>11 DEF Committed, Buried
<1>14. Owned(p)' /\ Routable(p)'
  BY <1>2, <1>4, <1>5, <1>6 DEF PackageInv, Owned, RoutableIsKnown, Routable
<1>15. \A q \in Package \ {p} : Same(q)
  BY <1>5, <1>6 DEF Same
<1>16. phase = "up"
  BY <1>1 DEF PackageInv, Kernel
<1>17. Dark' /\ (\A q \in Package : Owned(q))' /\ RoutableIsKnown' /\ AtRest'
  BY <1>6, <1>7, <1>13, <1>14, <1>15, <1>16, Elsewhere
<1> QED
  BY <1>8, <1>9, <1>10, <1>12, <1>17 DEF PackageInv

LEMMA StopDisabledKeeps ==
    ASSUME PackageInv, NEW p \in Package, tx # None, p = tx.pkg, StopDisabled
    PROVE  PackageInv'
<1>1. tx.op = "disable" /\ tx.at = "stop" /\ tx' = None
  BY DEF StopDisabled, At
<1>2. /\ ledger' = ledger /\ code' = code /\ data' = data /\ image' = image /\ phase' = phase
      /\ ident' = ident /\ reg' = reg /\ perm' = perm /\ cat' = cat /\ grant' = grant
      /\ nextUid' = nextUid /\ acl' = acl /\ setter' = setter
  BY DEF StopDisabled, disk
<1>3. /\ running' \in [Package -> SUBSET Component] /\ faults' \in 0..MaxFaults
      /\ \A q \in Package \ {p} : running'[q] = running[q]
  BY PackageAssumption DEF StopDisabled, PackageInv, TypeOK, Fault, NoFault
<1>4. TypeOK'
  BY <1>1, <1>2, <1>3 DEF PackageInv, TypeOK
<1>5. /\ ledger[p] # None /\ ~ledger[p].removal
      /\ p \notin System => Whole(p) /\ reg[p] = EntryOf(p)
  BY <1>1 DEF PackageInv, Setting
<1>6. Committed(p)' /\ Buried(p)'
  <2>1. Committed(p)
    BY <1>5 DEF Committed
  <2> QED
    BY <1>2, <1>5, <2>1, Standing DEF Buried
<1>7. Owned(p)' /\ Routable(p)'
  BY <1>2, <1>5 DEF PackageInv, Owned, RoutableIsKnown, Routable
<1>8. \A q \in Package \ {p} : Same(q)
  BY <1>2, <1>3 DEF Same
<1>9. phase = "up"
  BY <1>1 DEF PackageInv, Kernel
<1>10. Dark' /\ (\A q \in Package : Owned(q))' /\ RoutableIsKnown' /\ AtRest'
  BY <1>1, <1>2, <1>6, <1>7, <1>8, <1>9, Elsewhere
<1> QED
  BY <1>1, <1>2, <1>4, <1>10, NoTx DEF PackageInv

\* Launch and SetState need a package that the projections know.
LEMMA KnownStep ==
    ASSUME PackageInv, NEW p \in Package, ~Unknown(p), TypeOK', Projecting',
           tx # None /\ tx.pkg = p /\ tx.op = "remove" =>
               \/ running' = running /\ p \in perm
               \/ grant' = grant /\ reg[p] # None,
           UNCHANGED <<ledger, nextUid, code, data, image, phase, ident, reg, perm, cat, tx>>,
           \A q \in Package \ {p} : running'[q] = running[q] /\ grant'[q] = grant[q]
    PROVE  PackageInv'
<1>1. UidsApart' /\ Kernel' /\ Boots' /\ Dark' /\ RoutableIsKnown'
  BY DEF PackageInv, UidsApart, Kernel, Boots, Dark, RoutableIsKnown, Unknown
<1>2. \A q \in Package : Owned(q)'
  <2>1. ledger[p] # None
    BY DEF PackageInv, Owned
  <2>2. Owned(p)'
    BY <2>1 DEF PackageInv, Owned
  <2>3. ASSUME NEW q \in Package \ {p} PROVE Owned(q)'
    BY <2>3 DEF PackageInv, Owned, Unknown
  <2> QED
    BY <2>2, <2>3
<1>3. \A q \in Package : /\ Committed(q)' <=> Committed(q)
                         /\ Buried(q)' <=> Buried(q)
                         /\ Unknown(q)' <=> Unknown(q)
                         /\ Whole(q)' <=> Whole(q)
                         /\ EntryOf(q)' = EntryOf(q)
  <2>1. \A q \in Package : /\ Whole(q)' <=> Whole(q)
                           /\ EntryOf(q)' = EntryOf(q)
    BY DEF Whole, Overwritten, Tree, EntryOf, Rejected
  <2> QED
    BY <2>1 DEF Committed, Buried, Unknown
<1>4. AtRest'
  BY <1>3 DEF PackageInv, AtRest
<1>5. Installing'
  <2>1. CASE tx # None /\ tx.op = "install"
    <3>1. PICK q \in Package : q = tx.pkg
      BY <2>1, Tx
    <3> QED
      BY <1>3, <2>1, <3>1 DEF PackageInv, Installing, Rejected, Had, Carried
  <2> QED
    BY <2>1 DEF Installing
<1>6. Setting'
  <2>1. CASE tx # None /\ tx.op \in {"disable", "enable"}
    <3>1. PICK q \in Package : q = tx.pkg
      BY <2>1, Tx
    <3> QED
      BY <1>3, <2>1, <3>1 DEF PackageInv, Setting
  <2> QED
    BY <2>1 DEF Setting
<1>7. Removing'
  <2>1. CASE tx # None /\ tx.op = "remove"
    <3>1. PICK q \in Package : q = tx.pkg
      BY <2>1, Tx
    <3>2. CASE q # p
      BY <2>1, <3>1, <3>2 DEF PackageInv, Removing
    <3>3. CASE q = p
      BY <2>1, <3>1, <3>3 DEF PackageInv, Removing
    <3> QED
      BY <3>2, <3>3
  <2> QED
    BY <2>1 DEF Removing
<1> QED
  BY <1>1, <1>2, <1>4, <1>5, <1>6, <1>7 DEF PackageInv

LEMMA LaunchKeeps ==
    ASSUME PackageInv, NEW p \in Package, NEW c \in Component, Launch(p, c)
    PROVE  PackageInv'
<1>1. ~Unknown(p) /\ reg[p] # None
  BY DEF Launch, Unknown
<1>2. /\ UNCHANGED <<ledger, nextUid, code, data, image, phase, ident, reg, perm, cat, tx>>
      /\ grant' = grant /\ acl' = acl /\ setter' = setter /\ faults' = faults
  BY DEF Launch, disk
<1>3. /\ running' \in [Package -> SUBSET Component]
      /\ \A q \in Package \ {p} : running'[q] = running[q]
  BY DEF Launch, PackageInv, TypeOK
<1>4. TypeOK' /\ Projecting'
  BY <1>2, <1>3 DEF PackageInv, TypeOK, Projecting
<1> QED
  BY <1>1, <1>2, <1>3, <1>4, KnownStep

LEMMA SetStateKeeps ==
    ASSUME PackageInv, NEW t \in Thread, NEW p \in Package,
           NEW s \in {"granted", "denied"}, SetState(t, p, s)
    PROVE  PackageInv'
<1> DEFINE C == [at |-> "decide", pkg |-> p, allowed |-> FALSE, uid |-> 0, copy |-> {}]
<1>1. ~Unknown(p) /\ p \in perm
  BY DEF SetState, Unknown
<1>2. /\ UNCHANGED <<ledger, nextUid, code, data, image, phase, ident, reg, perm, cat, tx>>
      /\ running' = running /\ acl' = acl /\ faults' = faults
  BY DEF SetState, memory
<1>3. C \in Call
  BY PackageAssumption DEF Call
<1>4. /\ grant' \in [Package -> {"none", "granted", "denied"}]
      /\ \A q \in Package \ {p} : grant'[q] = grant[q]
  BY DEF SetState, PackageInv, TypeOK
<1>5. /\ setter' \in [Thread \cup {Installer} -> Call \cup {None}]
      /\ \A u \in Thread \cup {Installer} : setter'[u] = setter[u] \/ setter'[u] = C
  BY <1>3 DEF SetState, PackageInv, TypeOK
<1>6. TypeOK' /\ Projecting'
  BY <1>2, <1>4, <1>5 DEF PackageInv, TypeOK, Projecting
<1> QED
  BY <1>1, <1>2, <1>4, <1>6, KnownStep

\* The projection of a consent touches the ACL only.
LEMMA ProjectionStep ==
    ASSUME PackageInv, TypeOK', Projecting', UNCHANGED footing,
           UNCHANGED <<nextUid, phase, tx>>
    PROVE  PackageInv'
<1>1. UidsApart' /\ Kernel' /\ Boots' /\ Removing'
  BY DEF footing, PackageInv, UidsApart, Kernel, Boots, Removing
<1>2. \A p \in Package : /\ Committed(p)' <=> Committed(p)
                         /\ Unknown(p)' <=> Unknown(p)
                         /\ Whole(p)' <=> Whole(p)
                         /\ EntryOf(p)' = EntryOf(p)
  BY Footing
<1>3. Installing'
  <2>1. CASE tx # None /\ tx.op = "install"
    <3>1. PICK q \in Package : q = tx.pkg
      BY <2>1, Tx
    <3> QED
      BY <1>2, <2>1, <3>1 DEF footing, PackageInv, Installing, Rejected, Had, Carried
  <2> QED
    BY <2>1 DEF Installing
<1>4. Setting'
  <2>1. CASE tx # None /\ tx.op \in {"disable", "enable"}
    <3>1. PICK q \in Package : q = tx.pkg
      BY <2>1, Tx
    <3> QED
      BY <1>2, <2>1, <3>1 DEF footing, PackageInv, Setting
  <2> QED
    BY <2>1 DEF Setting
<1>5. Dark' /\ (\A q \in Package : Owned(q))' /\ RoutableIsKnown' /\ AtRest'
  <2>1. tx = None \/ (tx' # None /\ tx'.pkg = tx.pkg)
    OBVIOUS
  <2> QED
    BY <2>1, OnlyTx
<1> QED
  BY <1>1, <1>3, <1>4, <1>5 DEF PackageInv

LEMMA ProjectionKeeps ==
    ASSUME PackageInv, NEW t \in Thread \cup {Installer},
           Decide(t) \/ Find(t) \/ Project(t) \/ ProjectFails(t)
    PROVE  PackageInv'
<1>1. /\ setter \in [Thread \cup {Installer} -> Call \cup {None}] /\ setter[t] \in Call
      /\ acl \subseteq Uid /\ faults \in 0..MaxFaults
  BY DEF Decide, Find, Project, ProjectFails, PackageInv, TypeOK
<1>2. /\ UNCHANGED footing /\ UNCHANGED <<nextUid, phase, tx>>
      /\ reg' = reg /\ ledger' = ledger /\ code' = code /\ data' = data /\ grant' = grant
      /\ image' = image /\ ident' = ident /\ perm' = perm /\ cat' = cat /\ running' = running
  BY DEF Decide, Find, Project, ProjectFails, disk, memory, footing
<1>3. /\ acl' \subseteq Uid /\ faults' \in 0..MaxFaults
      /\ \E x \in Call \cup {None} :
            /\ setter' = [setter EXCEPT ![t] = x]
            /\ x # None /\ x.at = "write" => x.uid \in Uid
  <2>1. CASE Decide(t)
    <3> DEFINE x == [setter[t] EXCEPT !.at = "find", !.allowed = Allowed(setter[t].pkg)]
    <3>1. Allowed(setter[t].pkg) \in BOOLEAN
      BY DEF Allowed
    <3>2. x \in Call /\ x.at = "find"
      BY <1>1, <3>1 DEF Call
    <3>3. setter' = [setter EXCEPT ![t] = x] /\ acl' = acl /\ faults' = faults
      BY <1>1, <2>1 DEF Decide, disk
    <3> HIDE DEF x
    <3> QED
      BY <1>1, <3>2, <3>3
  <2>2. CASE Find(t)
    <3>1. CASE reg[setter[t].pkg] = None
      BY <1>1, <2>2, <3>1 DEF Find, disk
    <3>2. CASE reg[setter[t].pkg] # None
      <4> DEFINE x == [setter[t] EXCEPT !.at = "write", !.uid = reg[setter[t].pkg].uid,
                                       !.copy = acl]
      <4>1. reg[setter[t].pkg].uid \in Uid
        BY <1>1, <3>2 DEF PackageInv, TypeOK, Call, Entry
      <4>2. reg[setter[t].pkg].uid \in 0..MaxUid
        BY <4>1, PackageAssumption DEF Uid
      <4>3. x \in Call /\ x.uid \in Uid
        BY <1>1, <4>1, <4>2 DEF Call
      <4>4. setter' = [setter EXCEPT ![t] = x] /\ acl' = acl /\ faults' = faults
        BY <2>2, <3>2 DEF Find, disk
      <4> HIDE DEF x
      <4> QED
        BY <1>1, <4>3, <4>4
    <3> QED
      BY <3>1, <3>2
  <2>3. CASE Project(t)
    <3>1. setter[t].copy \in SUBSET Uid /\ setter[t].uid \in Uid
      BY <1>1, <2>3 DEF Project, PackageInv, Projecting, Call
    <3>2. acl' \subseteq Uid
      BY <1>1, <2>3, <3>1 DEF Project
    <3>3. setter' = [setter EXCEPT ![t] = None] /\ faults' = faults
      BY <2>3 DEF Project
    <3> QED
      BY <1>1, <3>2, <3>3
  <2>4. CASE ProjectFails(t)
    <3>1. faults' \in 0..MaxFaults
      BY <1>1, <2>4, PackageAssumption DEF ProjectFails, Fault
    <3>2. setter' = [setter EXCEPT ![t] = None] /\ acl' = acl
      BY <2>4 DEF ProjectFails, disk
    <3> QED
      BY <1>1, <3>1, <3>2
  <2> QED
    BY <2>1, <2>2, <2>3, <2>4
<1>4. TypeOK'
  BY <1>1, <1>2, <1>3 DEF PackageInv, TypeOK
<1>5. Projecting'
  BY <1>1, <1>3 DEF PackageInv, Projecting
<1> QED
  BY <1>2, <1>4, <1>5, ProjectionStep

----------------------------------------------------------------------------
(***************************************************************************)
(* The kernel starts, and stops.                                           *)
(***************************************************************************)
LEMMA InitInv == Init => PackageInv
<1> SUFFICES ASSUME Init PROVE PackageInv
  OBVIOUS
<1>1. TypeOK
  BY PackageAssumption DEF Init, TypeOK, Uid
<1>2. UidsApart /\ Kernel /\ Boots /\ Installing /\ Removing /\ Setting /\ Projecting
  BY DEF Init, UidsApart, Kernel, Boots, Installing, Removing, Setting, Projecting
<1>3. \A p \in Package : Unknown(p) /\ Owned(p)
  BY DEF Init, Unknown, Owned
<1>4. Dark /\ RoutableIsKnown /\ AtRest
  BY <1>3 DEF Dark, RoutableIsKnown, AtRest, Committed, Buried, Unknown
<1> QED
  BY <1>1, <1>2, <1>3, <1>4 DEF PackageInv

\* A package no reader can find is at rest.
LEMMA UnknownAtRest ==
    ASSUME tx' = None, \A p \in Package : Unknown(p)'
    PROVE  Dark' /\ RoutableIsKnown' /\ AtRest'
BY DEF Dark, RoutableIsKnown, AtRest, Committed, Buried, Unknown

LEMMA PowerLossKeeps == ASSUME PackageInv, PowerLoss PROVE PackageInv'
<1>1. /\ ledger' = ledger /\ nextUid' = nextUid /\ code' = code /\ data' = data
      /\ grant' = grant /\ acl' = acl /\ image' = image /\ tx' = None /\ phase' = "down"
  BY DEF PowerLoss, disk
<1>2. /\ ident' = [p \in Package |-> 0] /\ reg' = [p \in Package |-> None] /\ perm' = {}
      /\ cat' = [p \in Package |-> 0] /\ running' = [p \in Package |-> {}]
      /\ setter' = [t \in Thread \cup {Installer} |-> None]
  BY DEF PowerLoss
<1>3. faults' \in 0..MaxFaults
  BY PackageAssumption DEF PowerLoss, Fault, PackageInv, TypeOK
<1>4. TypeOK'
  BY <1>1, <1>2, <1>3, PackageAssumption DEF PackageInv, TypeOK
<1>5. \A p \in Package : Unknown(p)' /\ Owned(p)'
  BY <1>1, <1>2 DEF PackageInv, Owned, Unknown
<1>6. Dark' /\ RoutableIsKnown' /\ AtRest'
  BY <1>1, <1>5, UnknownAtRest
<1>7. /\ UidsApart' /\ Kernel' /\ Boots' /\ Installing' /\ Removing' /\ Setting'
      /\ Projecting'
  BY <1>1, <1>2
     DEF PackageInv, UidsApart, Kernel, Boots, Installing, Removing, Setting, Projecting
<1> QED
  BY <1>4, <1>5, <1>6, <1>7 DEF PackageInv

LEMMA UpdateKeeps ==
    ASSUME PackageInv, NEW v \in Image, Update(v)
    PROVE  PackageInv'
<1>1. /\ ledger' = ledger /\ nextUid' = nextUid /\ code' = code /\ data' = data
      /\ grant' = grant /\ acl' = acl /\ image' = v /\ tx' = None /\ phase' = phase
      /\ ident' = ident /\ reg' = reg /\ perm' = perm /\ cat' = cat /\ running' = running
      /\ setter' = setter /\ faults' = faults /\ phase = "down"
  BY DEF Update, memory
<1>2. TypeOK'
  BY <1>1 DEF PackageInv, TypeOK
<1>3. \A p \in Package : Unknown(p)' /\ Owned(p)'
  BY <1>1 DEF PackageInv, Owned, Dark, Unknown
<1>4. Dark' /\ RoutableIsKnown' /\ AtRest'
  BY <1>1, <1>3, UnknownAtRest
<1> QED
  BY <1>1, <1>2, <1>3, <1>4, NoTx DEF PackageInv

LEMMA ScanSystemKeeps ==
    ASSUME PackageInv, NEW p \in Package, ScanSystem(p)
    PROVE  PackageInv'
<1>1. tx = None /\ phase = "down" /\ p \in System /\ ledger[p] = None
  BY DEF ScanSystem
<1>2. /\ tx' \in Transaction /\ tx' # None /\ tx'.op = "boot" /\ tx'.at = "uid"
      /\ tx'.pkg = p /\ tx'.version # 0
  <2>1. tx' = [op |-> "boot", pkg |-> p, version |-> image, component |-> None,
               at |-> "uid", prev |-> None, uid |-> 0, placed |-> FALSE, made |-> FALSE]
    BY <1>1 DEF ScanSystem, Held
  <2>2. image \in Version /\ image # 0 /\ 0 \in 0..MaxUid
    BY PackageAssumption DEF PackageInv, TypeOK
  <2>3. tx' \in Transaction
    BY <2>1, <2>2 DEF Transaction
  <2> QED
    BY <2>1, <2>2, <2>3, NoneAssumption
<1>3. UNCHANGED footing /\ nextUid' = nextUid /\ ledger' = ledger /\ phase' = phase
  BY DEF ScanSystem, disk, memory, footing
<1>4. TypeOK' /\ Projecting'
  BY <1>2 DEF ScanSystem, PackageInv, TypeOK, Projecting, disk, memory
<1>5. UidsApart' /\ Kernel' /\ Boots' /\ Installing' /\ Removing' /\ Setting'
  BY <1>1, <1>2, <1>3
     DEF PackageInv, UidsApart, Kernel, Boots, Installing, Removing, Setting
<1>6. Dark' /\ (\A q \in Package : Owned(q))' /\ RoutableIsKnown' /\ AtRest'
  BY <1>1, <1>3, OnlyTx
<1> QED
  BY <1>4, <1>5, <1>6 DEF PackageInv

LEMMA ProvisionKeeps == ASSUME PackageInv, Provision PROVE PackageInv'
<1>1. /\ ledger' = ledger /\ nextUid' = nextUid /\ code' = code
      /\ grant' = grant /\ acl' = acl /\ image' = image /\ tx' = None /\ phase = "down"
      /\ ident' = ident /\ reg' = reg /\ perm' = perm /\ cat' = cat /\ running' = running
      /\ setter' = setter /\ phase' = "scanned"
  BY DEF Provision, memory
<1>2. PICK missed \in SUBSET Accepted :
         /\ data' = [p \in Package |->
                IF p \in Accepted \ missed /\ data[p] = 0 THEN ledger[p].uid ELSE data[p]]
         /\ IF missed = {} THEN NoFault ELSE Fault
  BY DEF Provision
<1>3. faults' \in 0..MaxFaults
  BY <1>2, PackageAssumption DEF Fault, NoFault, PackageInv, TypeOK
<1>4. \A p \in Accepted : ledger[p] # None /\ ledger[p].uid \in 0..MaxUid
  <2>1. \A p \in Accepted : ledger[p] # None /\ p \in Package
    BY DEF Accepted, Scannable
  <2>2. Uid \subseteq 0..MaxUid
    BY PackageAssumption DEF Uid
  <2> QED
    BY <2>1, <2>2 DEF PackageInv, TypeOK, Ledger
<1>5. data' \in [Package -> 0..MaxUid]
  BY <1>2, <1>4 DEF PackageInv, TypeOK
<1>6. TypeOK'
  BY <1>1, <1>3, <1>5 DEF PackageInv, TypeOK
<1>7. \A p \in Package : Unknown(p)' /\ Owned(p)'
  <2> SUFFICES ASSUME NEW p \in Package PROVE Unknown(p)' /\ Owned(p)'
    OBVIOUS
  <2>1. Unknown(p)'
    BY <1>1 DEF PackageInv, Dark, Unknown
  <2>2. data'[p] = data[p] \/ (ledger[p] # None /\ data'[p] = ledger[p].uid)
    BY <1>2, <1>4
  <2> QED
    BY <1>1, <2>1, <2>2 DEF PackageInv, Owned
<1>8. Dark' /\ RoutableIsKnown' /\ AtRest'
  BY <1>1, <1>7, UnknownAtRest
<1> QED
  BY <1>1, <1>6, <1>7, <1>8, NoTx DEF PackageInv

LEMMA StartPublishKeeps == ASSUME PackageInv, StartPublish PROVE PackageInv'
<1>1. /\ ledger' = ledger /\ nextUid' = nextUid /\ code' = code /\ data' = data
      /\ grant' = grant /\ acl' = acl /\ image' = image /\ tx' = tx /\ phase = "scanned"
      /\ running' = running /\ setter' = setter /\ faults' = faults /\ phase' = "published"
  BY DEF StartPublish, disk
<1>2. tx = None
  BY <1>1 DEF PackageInv, Kernel, Boots
<1>3. \A p \in Package :
         /\ reg'[p] = IF p \in Accepted THEN Scanned(p) ELSE None
         /\ ident'[p] = IF p \in Accepted THEN ledger[p].uid ELSE 0
         /\ p \in perm' <=> p \in Accepted
         /\ cat'[p] = IF p \in Accepted THEN Scanned(p).version ELSE 0
  BY DEF StartPublish
<1>4. \A p \in Accepted :
         /\ p \in Package /\ ledger[p] # None /\ ~ledger[p].removal
         /\ Scanned(p) \in Entry /\ Scanned(p) # None /\ Scanned(p).version \in Version
         /\ ledger[p].uid \in Uid
  <2> SUFFICES ASSUME NEW p \in Accepted
               PROVE  /\ p \in Package /\ ledger[p] # None /\ ~ledger[p].removal
                      /\ Scanned(p) \in Entry /\ Scanned(p) # None
                      /\ Scanned(p).version \in Version /\ ledger[p].uid \in Uid
    OBVIOUS
  <2>1. p \in Package /\ ledger[p] # None /\ ~ledger[p].removal
    BY DEF Accepted, Scannable, PackageInv, Owned
  <2>2. ledger[p] \in Ledger /\ image \in Version
    BY <2>1, PackageAssumption DEF PackageInv, TypeOK
  <2>3. Scanned(p) \in Entry /\ Scanned(p).version \in Version /\ ledger[p].uid \in Uid
    BY <2>2 DEF Scanned, Entry, Ledger
  <2> QED
    BY <2>1, <2>3, NoneAssumption
<1>5. 0 \notin Version /\ 0 \notin Uid /\ Uid \subseteq 0..MaxUid /\ 0 \in 0..MaxUid
  BY PackageAssumption DEF Uid
<1>6. TypeOK'
  <2>1. reg' \in [Package -> Entry \cup {None}]
    BY <1>4 DEF StartPublish
  <2>2. ident' \in [Package -> 0..MaxUid]
    BY <1>4, <1>5 DEF StartPublish
  <2>3. perm' \subseteq Package
    BY <1>4 DEF StartPublish
  <2>4. cat' \in [Package -> Version \cup {0}]
    BY <1>4 DEF StartPublish
  <2> QED
    BY <1>1, <2>1, <2>2, <2>3, <2>4 DEF PackageInv, TypeOK
<1>7. ASSUME NEW p \in Package
      PROVE  Owned(p)' /\ Routable(p)' /\ Committed(p)' /\ Buried(p)'
  <2>1. CASE p \notin Accepted
    <3>1. Unknown(p)'
      BY <1>3, <2>1 DEF Unknown
    <3> QED
      BY <1>1, <3>1 DEF PackageInv, Owned, Routable, Committed, Buried, Unknown
  <2>2. CASE p \in Accepted
    <3>1. /\ reg'[p] = Scanned(p) /\ reg'[p] # None /\ ident'[p] # 0 /\ p \in perm'
          /\ ledger[p] # None /\ ~ledger[p].removal
      BY <1>3, <1>4, <1>5, <2>2
    <3>2. Owned(p)' /\ Routable(p)' /\ Buried(p)'
      BY <1>1, <3>1 DEF PackageInv, Owned, Routable, Buried
    <3>3. p \notin System => Whole(p) /\ Scanned(p) = EntryOf(p)
      BY <2>2 DEF Accepted, Scannable, Scanned, Whole, Overwritten, Tree, EntryOf
    <3>4. Committed(p)'
      BY <1>1, <3>1, <3>3 DEF Committed, Whole, Overwritten, Tree, EntryOf, Rejected
    <3> QED
      BY <3>2, <3>4
  <2> QED
    BY <2>1, <2>2
<1>8. Dark' /\ RoutableIsKnown' /\ AtRest'
  BY <1>1, <1>7 DEF Dark, RoutableIsKnown, Routable, AtRest
<1> QED
  BY <1>1, <1>2, <1>6, <1>7, <1>8, NoTx DEF PackageInv

LEMMA ReconcileKeeps == ASSUME PackageInv, Reconcile PROVE PackageInv'
<1>1. /\ ledger' = ledger /\ nextUid' = nextUid /\ tx' = tx /\ phase = "published"
      /\ setter' = setter /\ phase' = "up"
  BY DEF Reconcile
<1>2. UNCHANGED <<code, data, grant, image, ident, reg, perm, cat, running>>
  BY DEF Reconcile, memory
<1>3. tx = None
  BY <1>1 DEF PackageInv, Kernel, Boots
<1>4. acl' \subseteq Uid /\ faults' \in 0..MaxFaults
  <2>1. /\ \A q \in Package : reg[q] # None => reg[q].uid \in Uid
        /\ acl \subseteq Uid /\ faults \in 0..MaxFaults
    BY DEF PackageInv, TypeOK, Entry
  <2>2. CASE NoFault /\ acl' = {reg[p].uid : p \in {q \in Package : reg[q] # None /\ Allowed(q)}}
    BY <2>1, <2>2 DEF NoFault
  <2>3. CASE Fault /\ UNCHANGED acl
    BY <2>1, <2>3, PackageAssumption DEF Fault
  <2> QED
    BY <2>2, <2>3 DEF Reconcile
<1>5. TypeOK'
  BY <1>1, <1>2, <1>4 DEF PackageInv, TypeOK
<1>6. \A p \in Package : Owned(p)' /\ Committed(p)' /\ Buried(p)'
  <2>1. \A p \in Package : Owned(p) /\ Committed(p) /\ Buried(p)
    BY <1>3 DEF PackageInv, AtRest
  <2>2. \A p \in Package : /\ Whole(p)' <=> Whole(p)
                           /\ EntryOf(p)' = EntryOf(p)
                           /\ Unknown(p)' <=> Unknown(p)
    BY <1>1, <1>2 DEF Whole, Overwritten, Tree, EntryOf, Rejected, Unknown
  <2> QED
    BY <1>1, <1>2, <2>1, <2>2 DEF Owned, Committed, Buried
<1>7. Dark' /\ RoutableIsKnown' /\ AtRest'
  BY <1>1, <1>2, <1>6 DEF PackageInv, Dark, RoutableIsKnown, AtRest
<1> QED
  BY <1>1, <1>3, <1>5, <1>6, <1>7, NoTx DEF PackageInv

----------------------------------------------------------------------------
LEMMA StutterKeeps == ASSUME PackageInv, UNCHANGED vars PROVE PackageInv'
<1>1. UNCHANGED footing /\ UNCHANGED <<nextUid, phase, tx>>
  BY DEF vars, disk, memory, footing
<1>2. TypeOK' /\ Projecting'
  BY DEF vars, disk, memory, PackageInv, TypeOK, Projecting
<1> QED
  BY <1>1, <1>2, ProjectionStep

\* The steps of the transaction in hand.
InHand ==
    \/ TakeUid \/ WriteBare \/ InstallStep \/ RemoveStep \/ CommitSet \/ StopDisabled

LEMMA InHandKeeps == ASSUME PackageInv, InHand PROVE PackageInv'
<1>1. tx # None
  BY DEF InHand, TakeUid, WriteBare, InstallStep, RemoveStep, CommitSet, StopDisabled,
         PutCode, CodeRefused, EnsureUser, MakeData, SaveLedger, Publish, Consent, Reload,
         InstallFails, Undo, Unpublish, StopAll, ClearGrants, AclOff, RemoveCode,
         RemoveData, RemoveLedger, RemoveFails, At
<1>2. PICK p \in Package : p = tx.pkg
  BY <1>1, Tx
<1>3. CASE TakeUid \/ WriteBare
  BY <1>1, <1>2, <1>3, TakeUidKeeps, WriteBareKeeps
<1>4. CASE InstallStep
  BY <1>1, <1>2, <1>4, PutCodeKeeps, MoveOnKeeps, MakeDataKeeps, SaveLedgerKeeps,
     PublishKeeps, ConsentKeeps, ReloadKeeps, UndoKeeps DEF InstallStep
<1>5. CASE RemoveStep
  BY <1>1, <1>2, <1>5, UnpublishKeeps, StopAllKeeps, ClearKeeps, RemoveCodeKeeps,
     RemoveLedgerKeeps, RemoveFailsKeeps DEF RemoveStep
<1>6. CASE CommitSet \/ StopDisabled
  BY <1>1, <1>2, <1>6, CommitSetKeeps, StopDisabledKeeps
<1> QED
  BY <1>3, <1>4, <1>5, <1>6 DEF InHand

LEMMA NextKeeps == PackageInv /\ [Next]_vars => PackageInv'
<1> SUFFICES ASSUME PackageInv, [Next]_vars PROVE PackageInv'
  OBVIOUS
<1>1. CASE UNCHANGED vars
  BY <1>1, StutterKeeps
<1>2. CASE InHand
  BY <1>2, InHandKeeps
<1>3. CASE \E p \in Package :
              \/ \E v \in Version : BeginInstall(p, v)
              \/ BeginRemove(p) \/ ScanSystem(p)
              \/ \E c \in Component :
                    BeginSet(p, c, "disable") \/ BeginSet(p, c, "enable") \/ Launch(p, c)
  BY <1>3, BeginInstallKeeps, BeginRemoveKeeps, ScanSystemKeeps, BeginSetKeeps, LaunchKeeps
<1>4. CASE \E t \in Thread, p \in Package, s \in {"granted", "denied"} : SetState(t, p, s)
  BY <1>4, SetStateKeeps
<1>5. CASE \E t \in Thread \cup {Installer} :
              Decide(t) \/ Find(t) \/ Project(t) \/ ProjectFails(t)
  BY <1>5, ProjectionKeeps
<1>6. CASE (\E v \in Image : Update(v)) \/ PowerLoss \/ Provision \/ StartPublish \/ Reconcile
  BY <1>6, UpdateKeeps, PowerLossKeeps, ProvisionKeeps, StartPublishKeeps, ReconcileKeeps
<1> QED
  BY <1>1, <1>2, <1>3, <1>4, <1>5, <1>6 DEF Next, InHand

LEMMA AlwaysPackageInv == Spec => []PackageInv
BY InitInv, NextKeeps, PTL DEF Spec

LEMMA InvMeans == PackageInv => RemovedStaysRemoved /\ NothingInherited /\ RebootKeepsInstalled
<1> SUFFICES ASSUME PackageInv
             PROVE  RemovedStaysRemoved /\ NothingInherited /\ RebootKeepsInstalled
  OBVIOUS
<1>1. RemovedStaysRemoved
  BY DEF PackageInv, RemovedStaysRemoved, AtRest, Buried, Unknown
<1>2. NothingInherited
  BY DEF PackageInv, NothingInherited, Owned, UidsApart
<1>3. RebootKeepsInstalled
  <2> SUFFICES ASSUME NEW p \in Package \ System, reg[p] # None, tx = None \/ tx.pkg # p
               PROVE  reg[p] = Scanned(p) /\ (p \in Accepted \/ Overwritten(p))
    BY DEF RebootKeepsInstalled
  <2>1. Whole(p) /\ reg[p] = EntryOf(p)
    BY DEF PackageInv, AtRest, Committed
  <2> QED
    BY <2>1 DEF Whole, EntryOf, Accepted, Scannable, Scanned
<1> QED
  BY <1>1, <1>2, <1>3

\* A removal holds from the tombstone on, through every failure, power loss
\* and restart (Module.Uninstall, Scan); and whoever finds a provider in the
\* catalog finds its identity, entry and grants, without a lock and in the
\* middle of a transaction (publishCatalogLast, and its reverse).
THEOREM RemovalHolds == Spec => []RemovedStaysRemoved
BY AlwaysPackageInv, InvMeans, PTL

\* Code, private data, consents and instances end with the ledger that names
\* their owner, and no UID is given twice (stableUID, the order of Uninstall):
\* the next installation of a package inherits nothing.
THEOREM OwnersKeepApart == Spec => []NothingInherited
BY AlwaysPackageInv, InvMeans, PTL

\* What the registry answers about an installed package that no transaction
\* has in hand is what a scan of the disk would publish: a restart changes
\* nothing (Install's compensation and commit order, Scan, catalog.Build), but
\* where an upgrade that keeps the version string took the tree's place and
\* failed before its ledger.
THEOREM RestartFindsTheSame == Spec => []RebootKeepsInstalled
BY AlwaysPackageInv, InvMeans, PTL
=============================================================================
