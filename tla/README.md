# A verification of nervud

nervud is the privileged daemon of a robot operating system: it decides which
program may move which actuator, carries the calls, events and streams between
programs, installs and supervises them, and stops the machine. These modules
model it in TLA+, check it with TLC and prove the properties that matter most
with TLAPS.

Paths below are relative to `src/`; `control/slot.go` stands for
`src/internal/control/slot.go`. `PROJECT.json` maps every definition to the
lines it translates.

## 1. Inventory

| component | state | operations | hard behaviour | what makes it correct |
|---|---|---|---|---|
| **motiongate** | one atomic word: state, 56-bit epoch | Trip, BumpEpochIfNormal, BeginRecovery, RequireRearm, Rearm | any thread, no lock | every latch and re-arm starts an epoch; only a re-arm leads to Normal |
| **control** | a copy-on-write directory of slots, each with a lease, a freshness, a parked end; safety floor, seqlock, pending count | Acquire, Renew, Release*, Revoke*, RevokeAll, Check, Refresh, the lane | RevokeAll and Check take no lock; a lease is issued while a latch happens | one authority per Resource; a latch takes it at once and for good; each end told once, in order |
| **safety** | halt being tracked, stop phase, wake-up channels | Trip, RequireRearm, Rearm, Stop Lane, Supervisor Lane, reports | wake-ups coalesce; reports are late, early, repeated; timeouts | every latch is handed to the Provider's path and settles; a phase has evidence; a re-arm is of the latch that was judged |
| **ipc**, calls | per connection: identity, in-flight reservations, outbox, epoch samples; the dispatch table; handles of leases | Request, DispatchResult, teardown, revocation, reaper, launch, transfer control | a route is authorised long before it is published; every other thread can revoke or answer it | no route outlives its authority; exactly one answer; no reservation leaks |
| **ipc**, server | the socket's two names, connections and their counts, a writer and a queue each | Start, accept, handshake, per-frame check, teardown, Stop | processes overlap; a peer neither sends nor takes; Stop races with admit | a live listener keeps its name; a replaced sender is not served; Stop waits for no peer |
| **operation** | the table of long-running operations | Create, Cancel, Accept, Succeed/Fail/Cancelled, loop, Stop | reports race with boundaries, deadlines and Stop | a verdict is final; every operation ends |
| **service** | an instance per component: state, handle, crash times, back-off | EnsureStarted, StopComponent, ReloadPackage, RevokeInstallGrant, supervise, Stop | stop racing with start, crash window, circuit breaker to Safety | one process per unit; a stop is not undone; a Vital failure trips Safety |
| **pkgregistry** | ledger, code, data and consents on disk; four projections in memory | scan, install, upgrade, uninstall, disable, quarantine | many steps over disk, catalog, permissions, services; a failure or loss of power between any two | a package is in or out; a removed one stays out; nobody inherits |
| **catalog** | an immutable snapshot with a generation per definition | Build, Prepare, Publish, Select | sources conflict; a caller's base is stale; a package returns | a generation stands for one meaning; the guilty source is left out |
| **endpoint** | registrations by connection, bindings, waiters | Register, Resolve, Route, RouteEvent, teardown | catalog, packages and consents move while a route is used; on-demand start | a binding leads where it was made for, or nowhere |
| **transfer** | records of two legs, tickets, budgets | Begin, Commit, attach, relay, FinishRoute, revoke, reap, Stop | both legs, the result and a revocation race for one record | no stream outlives its authority or its request; budgets are exact |
| **subscription** | subscriptions by key and connection, scopes | Subscribe, Publish, Unsubscribe, CloseScope, CloseConn | full queues, publishers in several goroutines | gaps are ends or counted; nothing after the end |
| **permission**, **permissionadmin** | install and runtime grants, a revision | grant, revoke, consent | a grant moves while a call is checked | a revoked grant authorises nothing new |
| **audit** | a hash-chained file | append, rotate, recover | a torn tail after a crash | the chain has no gap that verification misses |
| **authority** | none | typed privileged operations | cancelled or timed-out calls to systemd | a kind of subject does only its kinds of operation |
| **kernel**, main.go | modules in order | Start, Stop | a slow module is abandoned after 5 s | reverse order of stop |
| scheduler, identity, admin, nervusctl, health, resource, resourcedir, power, preflight, protocheck, logging, sysprobe | tables or nothing | read, check, format | none to speak of | tested by units |

How they interact. `safety` latches the gate and calls `control.RevokeAll`
(main.go wires it) from its Supervisor Lane. `control` tells `ipc` of each ended
lease; `ipc` asks `control` before it publishes a controlled route and creates
an `operation` for a long-running method; a Provider that answers a route may
begin a `transfer`, whose records fall with the route and its authority.
`pkgregistry` publishes the catalog, the grants and the identities, and tells
`ipc`, `control`, `service` and `transfer` what to revoke. `service` trips
`safety` when a Vital component breaks down. `endpoint` asks `service` to start
a component that somebody resolves, and routes against the catalog of the
moment. Events go from a Provider or the operation manager through
`subscription` to the outboxes. The kernel stops modules in reverse: control is
registered before safety, so safety stops first.

`PROJECT.json` lists the hazards, each at the line where it bites.

## 2. Modules

    MotionGate <- MotionLatch <- ControlLease     <- MCControlLease
                              |                ~~ ControlAuthority (implemented by it)
                              <- SafetySupervisor <- SafetySupervisorProofs
    MotionAuthority  = ControlLease + SafetySupervisor on one gate
                                       <- MotionAuthorityProofs
    OperationManager <- RequestRouting <- MCRequestRouting
                                       <- RequestRoutingProofs
    ServiceSupervisor <- ServiceSupervisorProofs
    CatalogBuilder   <- CatalogRegistry  <- MCCatalogRegistry
                     <- EndpointRegistry <- MCEndpointRegistry
                     <- CatalogProofs, about both
    PackageTransaction <- MCPackageTransaction, PackageTransactionProofs
    TransferSession    <- MCTransferSession, DeliveryProofs
    EventFanout        <- MCEventFanout, DeliveryProofs
    IpcServer          <- MCIpcServer, IpcServerProofs

Every module has a type invariant (`TypeOK`; `Typed` in MotionAuthorityProofs),
which documents its state and is the first thing to check after a change. The
runs below do not list it: each was checked once with the runs' constants, and
those of the control, routing and operation modules are proved.

### Motion

**MotionGate** (motiongate) is the packed word. Each operation of the code is a
compare-and-swap loop, so each is one step; other modules conjoin these steps.
The epoch wraps at `EpochMask` and skips 0, as `incEpoch` does.

**MotionLatch** is the contract between the two halves: which trips
`RevokeAll` has not yet returned for (`awaiting`), and when safety may re-arm.
`ControlLease` assumes it, `SafetySupervisor` is checked to keep it
(`KeepsLatchContract`), and `MotionAuthority` needs no assumption about it.

**ControlLease** (control). `cur`, `fresh`, `parked` are the atomics of a slot,
`slots` the directory. One operation at a time holds `mu` (`op`, with a program
counter that names the code's steps: flush, admit, inspect, preempt, bump,
sequence, freshen, publish, recheck, undo, ...). `RevokeAll` (`rev`), the lane
(`lane`), the drain of ended leases (`drain`) and the lock-free callers
(`call`) interleave with it at each atomic access. `published` and `told` are
history. A lease's ID is its epoch, which is unique.

**ControlAuthority** says what the rest of the program may rely on: at most one
token per Resource, never granted twice nor after a later one, all taken in the
step that latches. `ImplementsAuthority` maps a lease that is effective (gate
Normal, epoch above the safety floor) to the holder.

**SafetySupervisor** (safety). Caller threads, the Stop Lane (`DeliverHalt`),
the Supervisor Lane (`Reconcile`, `BeginHalt`, `Revoked`, `OnReport`,
`OnTick`), two one-place wake-ups, the phase word that is published, and the
environment: a Provider that reports anything about any halt it got, time, and
control's bumps of the epoch. `sent` are the halts that got to the Provider,
`failed` those that SendHalt lost: the code records its error and goes on.

**MotionAuthority** is both on one gate: every step of ControlLease's other
half is replaced by what the Supervisor really does, and `RevokeAll` is called
by one and carried out by the other. It is too large for an exhaustive run; its
theorems say more than a run could.

### Calls and operations

**OperationManager** (operation): the table of operations, their state machine,
the reports, the background loop and Stop.

**RequestRouting** (ipc, endpoint/route.go) extends OperationManager. A
connection's `serve` goroutine is a program counter: a Request is routed,
checked, reserved, validated, its operation created, its route published or
refused; a teardown goes through dispatch table, lease, control, endpoint and
outbox in the code's order. The table has a mutex, so each of its operations is
a step; what follows, Responses and reservations, is done later and piecemeal by
the goroutine that took the route (`todo`). `sampled` abstracts the epoch
comparison of `publishDispatchAtEpoch`: of a counter that only grows, the code
uses only whether it has moved since. A teardown advances no epoch, so a route
can be published behind the sweep of its target's: `missed` is the history of
those. The operation calls run in goroutines of their own, so they come at any
point of their caller's serve.

Abstractions of RequestRouting: a package has one connection; a connection is
registered as a Provider once; a caller has one lease, which ControlLease's
`EndToldOnce` justifies; the clock is the set of deadlines that have
passed; an operation's deadline is its route's; an invalid result is answered
and the connection hangs up; `enqueue` of the Dispatch and the release of a
refused reservation are one step with their neighbours; CancelDispatch, which is
best effort, is left out; a full outbox is one that closes, as in the code.

### Connections and the listener

**IpcServer** (ipc.go, conn.go, outbox.go) is what RequestRouting takes for
granted: how nervud comes to own its socket and gives it up, whom it admits, and
the life of a connection. `server[k]` is one process (its Start and Stop by
program counter, the accept goroutine, the counts `conns`, `perUID`, `wg`);
`lock` is the abstract socket only one process can hold and `path` whose socket
file is at the path; `conn[c]` is the serve goroutine with its writer and queue.
`owner` and `lastGeneration` are the identity registry. `readAs` remembers
whether a frame's sender was current when it came in. What a frame makes the
server do is in the other modules: it is handled with at most one answer. The
environment decides `verifyComponent`'s comparison, the protocol version, the
frame rate and the handshake's timeout.

### Services

**ServiceSupervisor** (service, with the calls pkgregistry makes of it and the
systemd unit under it). An instance is a record: its supervisor's program
counter, its state, whether it has a handle, whether its stop was asked for
(`stopCh`), its crashes and back-off. `lock` is `sandboxReloadMu`; `task` is the
pkgregistry call in progress (they come one at a time), `life` is Manager.Stop,
`proc` the instance whose process the unit runs: systemd goes by the unit's
name, the Manager by the instance. `Faulty` names what may fail. There is one
package; of its version only whether an instance is of the current one
(`current`); of time only ages (`crashes`) and what is left of a back-off
(`due`). The error paths of one call are its alternatives: `StartError` is a
start refused, failed, or cut short with the process up; `CallerGivesUp` is the
caller's context. The lookups by unit are left out.

### Packages and the catalog

**PackageTransaction** (pkgregistry, permission). The disk is `ledger`, `code`,
`data`, `grant` (consents), `acl` and the allocator of UIDs; memory is `ident`,
`reg`, `perm` and `cat`, which readers take without a lock. One transaction at a
time (`tx`, by program counter) goes through Install, Uninstall or
SetComponentEnabled in the code's order, one effect a step, each with its
failure and its undo. A consent (`Thread`) takes no part in that mutex. A
release has a version string, which names its directory (`Dir`), and a version
code, which an upgrade compares (`Code`): an upgrade that keeps the string takes
the place of the tree that is there (`Tree`), and is not undone. `PowerLoss` may
come between any two steps; the boot scans the disk, quarantines (system
packages too), provisions, publishes and reconciles. An image update changes the
system packages. Verdicts about manifests, signatures, digests and lineage are
choices; a rebooted machine and a restarted daemon are one thing. An app does
not take the id of a system package here, which Install allows when that one is
not up (install.go:208 looks at the registry): ledger and UID would then have
two meanings. CatalogRegistry models a shared id as far as the boot's quarantine
goes.

**CatalogBuilder** (catalog/builder.go, model.go, selector.go) has no state: the
builder's merge of sources in order of authority, with each reason to refuse one
(`Fits` and its parts), the checks of the whole, and the generations, as
operators over sets of definitions, and the selector's filter and choice. A
definition is a record of what routes and checks compare. `Namespace` gives the
packages whose prefix an id has, which can be several as package ids hold dots.
**CatalogRegistry**
runs it: a boot with quarantine, callers that prepare against a base and publish
by compare-and-swap, restarts with other images. An image may ship the id of an
installed app (`Installed`, `SameEntry`), and the quarantine then drops the first
of the two (`FirstOf`). `seen` is history: all that was
ever published in this boot.

**EndpointRegistry** (endpoint) uses the builder's snapshots. `request[c]` is a
handler between two of its lock acquisitions (`look`, `start`, `wait`, ...),
`live` the registrations, `bindings[c]`, `pending` the waiters for an on-demand
start. The package registry's entries and the catalog change in two steps, in
the code's order; consents and enablement change at any time. A binding carries
`meant`, the definitions it was resolved against, for the properties only: the
code compares their generations.

### Streams and events

**TransferSession** (transfer, ipc/transfer_control.go, method_gate.go). A step
is one critical section of Manager.mu, or of the dispatch table's lock. `record`
holds the phase, which sides are attached, whether buffers are held and which
relay workers run; `route` says who has the request it belongs to (the dispatch
table, whoever took it from there, nobody), `refs` which streams its result
names; `live`, `tombstones` and `buffers` are the budget. `withdrawal` is any of
the revocations and connection teardowns, which share one shape: take the routes
(`Take`), finish them (`Sweep`), scan the records (`Scan`). `attempt` is a data
connection. A Provider may commit before it has read the answer to its
attachment. Tickets, sizes and rates are left out: a refused attachment is
`Refuse` whatever the reason, and the bytes of a relay touch no shared state.

**EventFanout** (subscription, ipc/subscribe.go, eventscope.go). `outbox[c]`
keeps all that was put in a connection's queue and how much of it has gone, so
a property can speak of what the client sees; `subs` are the registry's entries
with sequence and dropped count, `owner` the scope table. Providers publish from
their own goroutine, the operation manager from any. `work` of a publisher is
where its publication is: the subscriptions it has yet to deliver to, during which
it holds the registry's lock (`Unlocked` is what others wait for), those that
closeSubscriptions has yet to tell, the one it has told and not yet removed, and
the operation whose scope it is going to close. A queue has its own lock, so the
writer and the answers of a connection come in between two deliveries.

## 3. Runs

| run | instance | distinct states | what it shows |
|---|---|---|---|
| `control` | 1 connection, 1 Resource, 1 lock-free caller | 5 280 918 | refinement of ControlAuthority; each end told once, before the next grant; Check is atomic and freshness starts and grows with the lease (`CheckAtomic`); a reported grant is effective; no lease outlives a trip |
| `control_live` | 1 connection, fair | 83 999 | a lapsed lease goes; its end is told (`LeasesEnd`) |
| `safety` | 1 thread, fair | 190 674 | phases have evidence and only climb (`PhaseIsHonest`), lanes agree, the latch contract, every latch is tried or its failure on record (`HaltIsTried`), and settles |
| `calls` | 2 requests of one caller, one controlled, faults, every revocation | 1 898 492 | authority of routes, but for those published behind a teardown's sweep, one answer and no leaked reservation |
| `operations` | 1 long controlled request, fair, 1 boundary | 256 570 | Stop, late reports, liveness of requests and operations |
| `services` | 1 Vital component, app or service, initially enabled or not; fair | 73 708 | one supervisor per unit and no orphan (`OneSupervisor`), only what the registry says runs, no silent loss, stops obeyed and shutdown ends |
| `transfer` | 1 request, a relay and a ring, 2 data connections, 1 withdrawal; fair | 243 052 | no stream outlives its authority or its request, exact budgets, half-open transfers end |
| `packages` | a system and an installed package, 3 releases of 2 version strings, 2 images, 1 consent thread, 1 fault | 5 768 986 | removed stays removed and what is routable is known, nothing is inherited, a reboot finds what was installed, but for a failed upgrade in place |
| `catalog` | 4 images, one of which ships an app's id, up to 2 apps, 2 publishers | 7 884 | generations identify meanings, quarantine is just (where no id is shared), changes are local |
| `endpoints` | an app, an on-demand service, 2 updates, consents, disablement | 206 252 | a binding keeps its contract, a lost one stays lost, every resolution ends and waiters are exact |
| `events` | 1 client with 2 subscriptions, 1 provider, 1 operation, a queue of one event | 4 051 262 | no gap or a counted one, nothing after the end |
| `server` | 2 processes, 2 connections, 2 users, 2 generations | 1 145 556 | one listener, no replaced sender served, Stop waits for no peer and leaves nothing |

A property whose name covers several promises is a conjunction of named parts;
the modules define and comment each part.

### Bounds

*Motion.* `MaxEpoch` 3 allows two latches with a re-arm and grants between
them, which is what every stale-epoch argument needs: an old lease, a trip, and
something issued afterwards. `control` has 5: a lease, two trips whose second
RevokeAll is still at work when the gate has been re-armed, and the issue that
meets it. `MaxTime` 1 or 2 lets a lease of one tick live, be refreshed and
lapse. One connection, as of any class, preempts itself, is renewed and is
revoked; that a handle belongs to one connection, and that one Resource does not
disturb another though they share the directory, `mu` and the pending count,
is what the proofs say for any number. `EpochMask` is 99 and is never reached; the
wrap is an assumption of the proofs that need it. `safety` has one thread,
which trips, recovers and re-arms; the Stop Lane, the Supervisor, control and
the Provider run beside it.

*Calls.* Two requests meet in the table, in one revocation and in one teardown,
where the order of answers can differ; with one Provider both connections of
every route can go. `Faulty` names who may hang up. In `calls`, `MaxInflight`
is 2 and the limit itself is not reached.

*Services.* Components share only `sandboxReloadMu`, the package and Stop,
whose loops over components are in the model (two of them give more than
thirteen million states, too many for the liveness properties).
`MaxInst` is 2, so an instance can be followed by its successor while it is
still there; the place of one that nothing refers to is used again. The ten
seconds, five crashes and one to thirty seconds of the code become a window of
1, a threshold of 2 and a back-off of 1 to 2, which keeps crashes inside and
outside the window, a back-off that grows and one at its cap.

*Packages.* Releases 1 and 2 have one version string and two codes, release 3 a
string of its own: that is a reinstallation, an upgrade in place, one to a new
directory, and an image update that excludes one or is itself excluded; three
UIDs are a removal followed by an installation under a new one; one fault (a
failed step or a loss of power) meets every step of every transaction, and the
retry or the boot that follows meets what it left.

*Catalog and endpoints.* The images hold a conflict over a Resource, over an
interface and over an identity, a package that is broken, and one that depends
on another; an app comes, changes and comes back; its id is a prefix of the other
app's, and one image ships it. Five revisions reach a caller
whose base is stale and a definition that returns. In `endpoints` the vendor's
update removes one interface, keeps one and changes its resource, and the next
restores them; `MaxHandle` is 1 as each connection holds one binding at a time.

*Streams, events, server.* A result may name one stream and drop the other;
both limits and the tombstone limit are reached. A queue of one event meets
subscriptions that end with a loss and ones that count it, two at a time, and
three publications, so that two can be lost in a row before one arrives; TLC goes
no further from a state in which a client has been sent more than three messages
(`MaxSent`), which leaves room for that and for the notice of an end. Two processes overlap or follow one another;
one
user may have one connection, so that the limit per user bites; the server's,
checked beside it, does not.

`CHECK_DEADLOCK FALSE` is set where the model really stops: when all requests
have been sent and every connection has gone or rests (`calls`, `operations`,
`events`), after shutdown (`services`, `transfer`, `server`), and when the
bounds on transactions, revisions and handles are used up (`packages`,
`catalog`, `endpoints`).

### Fairness

Goroutines that can step do (weak fairness); tickers tick; time
passes. Strong fairness is used for what waits on `mu` and `revDrainMu`, Go
mutexes whose starvation mode serves the longest waiter, and for the branches of
a `select`, which chooses at random among those that are ready. systemd answers
a start or a stop, well or not, as each has its 30 s. A handler of `endpoints`
goes on, its timer included. In `transfer` the kernel's goroutines, the reaper
and the handshake's deadline are fair. Nobody owes a request, a
release, a report, a result, a commit, an attachment, a hang-up or a process's
exit, and no caller is obliged to give up: leases lapse, halts settle,
operations, transfers and stops end without them. The other runs check safety
only and assume nothing.

### Mutants

Every property of a run has one: a definition of the
code with one plausible slip (`Drop_Store`, `RevokeFloor_Skipped`,
`Reap_UncontrolledOnly`, `Undo_Replaced`, ...), under which TLC finds the
property violated.

## 4. Observations

Places where the code does something its comments, or a reader, would not
expect. No run is devoted to them; those marked *(TLC)* were met as
counterexamples while the models were written.

Motion and calls

- *(TLC)* Rearm judges the phase against an epoch read earlier and then swaps
  the gate on its state alone (safety/module.go:358). With two concurrent
  callers, one can re-arm, a new Trip and RequireRearm pass, and the other's
  swap re-arm a latch whose stop has not settled: what the comment at
  module.go:349-352 says is excluded. One caller of Rearm is enough if another
  goroutine trips and requires a re-arm between its two steps. The leases stay
  safe with one caller, as the proofs of the composition show under that
  hypothesis (`OneRearmer`): the latch that took them away has been through
  RevokeAll by then, and a trip that follows it finds none to take away.
- *(TLC)* RevokeAll of a later trip may run after the gate has been re-armed,
  beside an issue. If it takes the old lease, counts, parks and returns, and the
  lane tells that end, all between issueLocked's look at revPending and its look
  at the seqlock, the new lease is granted and then the old one's end is told, or
  the other way round: the promise of control/slot.go:56-62 and 180-184 does not
  cover it. `EndToldBeforeNext` excepts exactly these leases (`late`).
- *(TLC)* A Provider that answers a caller whose outbox is full or closed loses
  its own connection (ipc/conn.go:903, 916; ipc.go:896), against the comment at
  ipc/dispatch.go:391-393.
- A stale Refresh can extend a replacement (control/slot.go:268), against the
  comment at slot.go:271-273: a replacement may have read the clock before the
  Refresh did. The extension is of a lease that is in force anyway.
- *(TLC)* A connection's teardown advances no epoch that publication compares, so
  a Request routed before it may be published behind its sweep (conn.go:781,
  dispatch.go:161, 355): the route stays with a Provider that has gone and is
  answered only by the reaper, although dispatch.go:399-401 has it answered at
  once. `RouteHasAuthority` excepts exactly these routes (`missed`); without
  that, TLC finds one.
- A SendHalt that fails is put in the audit ring and never tried again
  (safety/stoplane.go:32): the Provider of such a halt hears nothing of it, and
  the latch settles by the Supervisor's timeout. So `HaltIsTried` promises no more
  than that the halt was handed over, or its error recorded.
- `operation.ReleaseByConn` is documented as part of teardown and has no caller.

Server

- admit does not look at `quit`, so a connection may be taken on while Stop
  waits; CheckQuit ends it at its first loop. Stop gives the singleton lock back
  even when its goroutines have not drained, and its allowance is the kernel's
  5 s, as long as one frame's body may take.

Services

- *(TLC)* With "cut" added to `Faulty` in services.cfg, `OneSupervisor` is
  violated: a start that is given up at its 30 s can leave the process up with
  no handle to stop it by. Each retry finds the unit's name taken, until the
  breaker sets the instance to Failed with the process still running, where
  service/supervise.go:105-109 has it that a terminal state means a stopped
  unit. The same cut by shutdown leaves the process to the unit's dependency on
  nervud's.
- *(TLC)* With "wait" in `Faulty` it is violated as well: an error of
  WaitProcess comes with an empty ExitInfo, which `cleanExit` takes for a
  success, so an app that is still running is taken for closed. A crash that
  falls between two polls of a unit systemd has collected also reads as success;
  the comment at supervise.go:608-610 wants doubt resolved the other way.
- Failed starts can never reach the circuit breaker of service/supervise.go with
  its real constants: the back-off doubles (1, 2, 4, 8 s) and at most four fall
  in a window of ten seconds.
- The always-on components of a package that is installed for the first time are
  started by nothing until the next boot or an on-demand start
  (pkgregistry/install.go:454).

Packages

- *(TLC)* A first installation that fails after its UID was allocated leaves the
  bare ledger; the same version can then not be installed, as it is taken for a
  replacement of a directory that is not there (install.go:324, 346), where
  install.go:146 promises to leave nothing half-finished. Such a package, and a
  quarantined one, cannot be uninstalled either.
- *(TLC)* An upgrade that keeps the version string and raises the code takes the
  place of the tree (install.go:342-347). When it fails or power is lost before
  its ledger is saved, nothing is undone, as install.go:367-373 takes ledger and
  disk to agree still; the next boot skips the package, whose manifest's code is
  not the ledger's (scan.go:219-221). `RebootKeepsInstalled` excepts exactly this
  case (`Overwritten`); without that, TLC finds it.
- A crash between InstallVerifiedPackage and the saved ledger of an upgrade to
  another directory leaves that directory, which the next attempt's
  RENAME_NOREPLACE refuses.
- *(TLC)* Disabling a component of a system package is forgotten by the next
  boot (lifecycle.go:115, scan.go:155-166).
- *(TLC)* Two callers' projections of a consent can cross and leave the ACL with
  the older answer until the next boot (permission/registry.go:455,
  authority/acl_linux.go:247).
- An unverified package of development mode is dropped by a reboot;
  `writeFileAtomic` does not sync the directory.

Catalog and endpoints

- *(TLC)* A failure of the build that blames no source (builder.go:813, 992)
  stops the boot, where pkgregistry/module.go:87-89 and quarantine.go:54-58 have
  it that one bad package must not.
- *(TLC)* An image may ship the id of an installed app: Install looks the other
  way round only (install.go:206-209), and at the registry of the moment. The
  boot lists both, and when either is blamed dropEntry drops the first of the
  two, the image's (quarantine.go:91-102): a package of the image is left out
  because of an app, where quarantine.go:13 has it drop the one that caused the
  failure.
- *(TLC)* Namespaces are prefixes (catalog/builder.go:638, 652, 669, 707) and
  package ids hold dots (pkgregistry/manifest.go:559-580): `com.a` may define an
  interface named `com.a.b.x` and, coming before `com.a.b` in the order of
  sources, becomes its owner, which ends the routes to com.a.b's memberships.
- An app whose private interface or permission another one uses cannot be
  uninstalled: the catalog without it does not build.
- *(TLC)* A registration that comes between Resolve's look and its place in the
  queue wakes nobody (endpoint/resolve.go:130, module.go:310), against
  module.go:295-296; the timer answers.
- A waiter is queued by component, so the first of two registrations wakes those
  that want the second, and they are told it is not found.
- A registration checked against an older catalog than it is committed under
  stays live but routes nothing, and stands in the way of an on-demand start.
- RouteEvent never looks at the resource, though route_event.go:30-31 says so.

Streams and events

- *(TLC)* A withdrawal that closes a stream between its route's completion and
  FinishRoute (ipc/method_gate.go:90) has the Provider that properly named it
  treated as a violator of its contract and disconnected (method_gate.go:59).
- A Provider that commits before it has read the answer to its attachment lets
  the relay start, and serveAttach's reset of the deadline then clears the idle
  one. `max_streams` counts tombstones. Ring transfers end only with the
  control plane.
- Events of a scoped Provider are published under scope 0 (subscribe.go:256) and
  reach no scoped subscriber.
- A subscription outlives its Provider's endpoint without a notice
  (subscription.go:294-298), and a revoked permission (route_event.go:34-36).
  One admitted as its operation ends waits for ever. SubscriptionClosed is
  dropped by a full queue, and an Event may precede its SubscribeResult.

## 5. Proofs

TLC's instances are small; these hold for every value of the constants that
satisfies the modules' ASSUMEs.

**MotionAuthorityProofs, the leases.** `ControlSafe`: `ControlSpec => []NoLeaseOutlivesTrip`.
The property is not inductive: a lease is judged by the safety floor, and
nothing in it says where the floor is while RevokeAll is on its way. The
invariant `FloorInv` has three parts: the floor covers the last latch
once RevokeAll has returned for it (`FloorCoversLatch`); a RevokeAll past its
second step has raised the floor to its epoch (`FloorRaised`); and under a
Normal gate the last latch is below the floor (`NormalAboveFloor`). The re-arm
guard `LatchRevoked`, all that safety really gives, is what joins them. The
argument does not need that the epoch does not wrap.

`ControlImplements`: while the epoch has not wrapped,
`ControlSpec` implements ControlAuthority. `RefInv` adds that the slot is empty
where a lease is about to be published (`Vacant`) and that the epoch being
issued is newer than all before and older than a latch in force
(`EpochsOrdered`). Every step is then quiet (maps to a stutter or to `End`), or
is a publication, a latch or a re-arm. `NoWrap` is a real assumption: after 2^56
epochs a token would come back.

`EndsToldOnce` (`EndToldOnce`, while the epoch has not wrapped) is the longest
argument. A slot has one parking place for the end of a lease; what must be
shown is that it is free whenever somebody parks, and that an issue never passes
an end that is parked. `EndInv` says: every lease published is in exactly one
place that will tell its end, which knows whose it is (`Takes`, `Known`,
`Owned`); a slot that is occupied or about to be has nothing parked and nothing
on its way there (`Room`, `Slotted`); the pending count is exact (`Counted`), so
that whoever reads zero passes nothing; what RevokeAll has in hand keeps its
latch unanswered, unless it was taken late (`Answered`); what an issue finds parked is late or handed to the drain it
waits for (`Cleared`); and once Stop has the locks nothing is in flight that
could publish or park (`Stopping`). `late` is history: TLC found the case it
excepts (section 4), and the proof that there is no other.

`ChecksAreAtomic` (`CheckAtomic`): what a caller has loaded was published there
(`CallsKnown`) and an epoch is published once, so a lease that has left its slot
does not come back, and a caller that finds its lease there at the end had it
there when it judged (`CallsHeld`); and a slot's freshness is raised before its
lease is published and never falls (`FreshFirst`). `GrantsAreEffective`
(`GrantIsEffective`): while the gate still has the epoch of the issue, every
halt anybody knows of (the floor's, RevokeAll's, those awaiting it) is older
(`HaltsOlder`), and while the seqlock reads the same no RevokeAll has taken
anything since (`SeqUntouched`).

**SafetySupervisorProofs.** `PhasesAreHonest` (`PhaseIsHonest`), with no
assumption: `PhaseInv` says that the published word is the Supervisor's own phase
(`Mirrors`) and that the halt it is about to begin is newer than the one it
tracks (`BeginIsNew`), so an old halt's reports and timeouts find another epoch.

`LanesComeToAgree` (`LanesAgree`): `LaneInv` says where the news of a latch is
while a lane has not acted on it: in its one-place wake-up, or with the thread
that is about to wake it (`HaltGoesOut`, `HaltIsTracked`). That is what
coalescing must not lose.

`LatchContractKept` (`KeepsLatchContract`, for `OneRearmer` and while the epoch
has not wrapped). The hard step is the re-arm, which is judged by a phase read
long before the swap. `HaltInv` follows the evidence: the halt of a latched gate
is tracked or still owed (`LatchIsSeen`), what the Supervisor is about to begin
is owed and newer (`BeginIsOwed`), once it is past RevokeAll nothing up to its
epoch is (`PastRevoke`), so a settled phase means that RevokeAll has returned for
it (`SettledIsServed`), and a Rearm between its steps judges by a halt as old as
the latch or by none (`RearmIsJust`). `OneRearmer` (one caller of Rearm at a
time) is an assumption about the operator's side which no lock in module.go
enforces; section 4 says what happens without it. `HaltsAreServed` is the same
invariant under `AnySpec`, where control may bump the epoch without the run's
bound.

**MotionAuthorityProofs, the composition.** ControlLease describes safety by what it may do:
latch, recover, answer a latch by RevokeAll, and re-arm once that has returned.
SafetySupervisor describes control as bumps of the epoch. The composition on one
gate is both: `CompositionIsSafety` maps each of its steps to one of
SafetySupervisor or a bump, and with `HaltsAreServed` from there
`CompositionIsControl` shows that the real Supervisor does no more than the
leases allow for: `OneRearmer /\ AuthoritySpec /\ []NoWrap => ControlSpec` (and
SafetySupervisor's own assumption on its constants, which an INSTANCE brings
along). `MotionSafe` draws the conclusion: all that is proved of the leases holds
of the two halves together. The composition leaves each half's Stop to that half.

**RequestRoutingProofs.** `RoutingTyped`: type correctness, one lemma per action.

`RoutesAuthorized`: `Spec => []RouteHasAuthority`, whose one exception is a route
published behind the sweep of its target's teardown. A
route is published long after it was authorised; the invariant `AuthorityInv`
says what its caller's goroutine knows in between: while its sample of the
epoch holds, what it has looked up (`RoutedRight`) and checked (`CheckedRight`)
is still so or is being taken away by a goroutine that has yet to sweep the
table, and a connection that leaves has nothing more in hand
(`LeaversHaveNone`).

`AnswersOnce` (`AnsweredOnce`): `AnswerInv` says that a request is in one hand
at a time: its serve goroutine's, the table's, or the work list of whoever took
its route (`InOneHand`); that it is unanswered as long as it is in one
(`Answers`), holds its reservation exactly as long (`Reservations`), and that a
goroutine with Responses left to send has taken nothing new (`Errands`).

`StopLeavesNone` (`StopLeavesNothing`): once the loop has
converged on Stop nothing can begin, as Create looks at the flag under the lock
that Stop converges under. `OvertakenOnlyFail` (`OvertakenOnlyFails`): after a
boundary or a deadline an operation can only fail. `UndispatchedEnds`
(`UndispatchedOperationEnds`): an operation with no Dispatch is in the hands of
the goroutine that is going to publish or to fail it.

**DeliveryProofs, the streams.** `AuthorityEndsStreams` (`RevokedIsClosed`) and
`RequestsEndStreams` (`NothingOutlivesRoute`). `TransferInv` adds to the two
properties that a withdrawal that has begun leaves no token open that it is about
(`TakenIsShut`), which is why Begin's second look at its
route's token is enough, and that a route whose result was refused is done with
(`BlamedIsDone`). `BudgetNeverDrifts` (`BudgetExact`): `BudgetInv` says that the
counters are the cardinalities of the sets they count and of every record
(`RecordOK`) that it holds its buffers while it is live or a worker of its relay
is left, and has no worker before it is active; so whichever comes last, the close
or the last worker, gives the buffers back, and only that one. That the sets are
finite is part of the invariant, not an assumption on the constants.

**DeliveryProofs, the events.** `GapCounted` (`GapIsCounted`), `ReliableGapless`
(`ReliableHasNoGap`) and `EndedIsSilent` (`NothingAfterEnd`). `EventInv` says that
a subscription which nobody is closing (`Running`) counts what its client was sent
and what it lost: the last number sent is its sequence less its dropped count
(`CountInv`). A loss keeps that true for a class that counts it; for a reliable one
it does not, but the subscription is then on a publisher's list until it is
removed, and no publication reaches it in between, because the next one to its
key is by the same publisher, which is still at work (`WorkInv`). That last step is why
Publish may hand the closing over to its caller, outside the lock: it holds because
a provider publishes from one goroutine and the operation manager under its own
lock. `EndInv` says that whoever was told of an end and is still subscribed is the
one being removed; `NumbersGiven`, that whatever is being said or done is about a
number already given, so a new subscription is in none of it; `TeardownInv`, what
each deferred call of serve has taken away for good.

**IpcServerProofs.** `ListenerKeepsItsName` (`OneListener`): `NamesInv` says
that whoever is between taking the lock and giving it back holds it, and that a
listener is within that stretch and its file at the path; so whoever removes a
file holds the lock, and it is not a listener's. `StaleFramesDropped`
(`RevokedIsNotServed`): `SenderInv` says that generations are never given twice
and that a connection's is one already given, so a sender that was replaced when
its frame came in is still not the owner when the frame is checked.
`StopNeedsNoPeer` (`StopWaitsForNoPeer`): `StopInv` counts, per process, the
acceptor, the slots and the writers against wg (`Counted`); a connection has a slot
or is the one in the acceptor's hand (`Slotted`), so a count of nothing means that
nothing runs; and what Stop's snapshot missed was never read from and has nothing
queued (`Closing`, `Untouched`), so it ends at its next look at quit.

**PackageTransactionProofs.** `RemovalHolds` (`RemovedStaysRemoved`),
`OwnersKeepApart` (`NothingInherited`) and `RestartFindsTheSame`
(`RebootKeepsInstalled`, with the exception of the upgrade in place), for any
packages, versions, images, UIDs and number of faults and losses of power. What
a transaction leaves behind is judged by where it is: `PackageInv` has, for each
stretch of an installation, an uninstallation, a disablement and the boot, what
is on disk and in memory by then (`Installing`, `Removing`, `Setting`,
`Projecting`, `Boots`, `Dark`), and for a registry at rest that the two agree
(`AtRest`); besides that UIDs of two packages differ and are never those of a
third (`UidsApart`, `Owned`) and that whatever is routable is known
(`RoutableIsKnown`).

**ServiceSupervisorProofs.** `RegistryInv` joins three things: a supervisor at work
is the one its key names and shows as active (`KeysHold`), so that an instance is
replaced only when nobody works for it; whoever holds sandboxReloadMu keeps the
keys still, so that what a call waits for is all there is (`LockHolds`,
`TaskHolds`); and whatever is at work is what the Registry says, or was given up
on, or is still to be stopped by the call in progress (`Accounted`). From it
follow `OneAtWork`, the first half of `OneSupervisor`, and with
`ProcessHeld` (a process that runs is its supervisor's, which has not heard of an
end) `NoneIsOrphaned` (all of it) and `RegistryIsCarriedOut` (`RegistryHolds`).
Those two assume `SystemdAnswers`: no unit comes up after its 30 s, and units
can be watched. Section 4 says what happens otherwise. `VitalTrips`
(`VitalNeverSilent`) needs no such thing: `VitalInv` says that whoever drains has
been told to stop.

**CatalogProofs.** What a merge and a quarantine compute is a recursion over
sets of sources. TLAPS has no induction for that, but it can be had from the
least number for which a claim fails (`LeastNumber`, from the well-foundedness
of strict inclusion on the subsets of an interval): with it `MergeKeeps` shows
that a merge has one definition of a name and one interface for every
membership, and `QuarantineBuilds` that what a boot publishes is the build of
what it keeps. `BuildFollows` is what the two registries need of the builder: a
definition of the new catalog is one of the catalog before, field by field
(`Whole`), or has the new revision as its generation (`Follows`).

`GenerationsIdentify` (`GenerationIdentifies`): `History` adds to the property
that no generation published is beyond the current revision and that all of the
current catalog has been published; `Prepared`, that a candidate follows its
base, which the compare and swap then requires to be the current catalog.

`QuarantinesAreJust` (`QuarantineIsJust`). Sources are merged in the order of
their authority, so whether one is accepted depends on those before it alone
(`Below`, `MergeBelow`): a build fails exactly when one is not, and blames the
first. What the rounds of the quarantine keep can then be said source by source:
one that is left out does not fit with those kept before it (`LeftOut`), so it
would be refused again if it were put back, and is refused without those after
it. `DiskInv` is what that needs of a reachable state: the image and the apps hold
one source of a package each. A package whose id both hold, and those merged after
it, are left out of the claim: there the code drops another entry than the guilty
one (section 4).

`ChangesAreLocal` (`ChangeIsLocal`) compares the builds of two sets of sources
that are not even merged in the same order. So a merge is first described
without the order: an interface is the definition of its first definer, a
membership is its own source's, a resource is of its first declarer and of the
one manager there is. Another package's membership is the same with the app as
without it, an interface unless the app owns it in either, and a resource
always: two packages never manage one, and no app manages one of a reserved
type, as the kernel's are (`DifferInApp`); and what is the same keeps its
generation (`AssignKeeps`). `LocalInv` says that the current catalog is the
picture of the active packages (`Shows`), a candidate that of its base's
packages after the change (`PreparedFor`), and that a candidate based on the
current catalog was prepared from the packages that are active now, so that
comparing the catalog compares the packages too.

Both assume `SourceAssumption`: ids are told apart by their order, the kernel is
one source and its resources are of reserved types, and an image holds a package
once. It does not say that an image ships no app's id, which nothing in the code
sees to.

`RoutesKeepContracts` (`RouteKeepsContract`), `LostForGood` (`LostStaysLost`) and
`QueuesAreExact` (`QueueIsExact`, the safety half of `ResolveEnds`).
`EndpointInv` says that what anybody holds of the catalog has generations the
current one has reached (`Dated`), so that nothing published later can have
them; that the snapshot a resolution is pinned to agrees with the current one
wherever name and generation do (`Pinned`, `Agree`), which is why binding
against an old snapshot is sound; that a binding's `meant` is what its
generations stand for, as long as they stand for anything (`Kept`); that a
registration's number is within its connection's count, so that one that is gone
does not return (`Counted`); and where each waiter is (`RequestsOK`,
`QueueIsExact`). The assumptions on the constants are that the sets of sources
are finite, that nothing is named None, and that the kernel's sources are the
kernel's.

Only model-checked: the liveness properties `LeasesEnd`, `HaltIsTried`,
`HaltSettles`, `RequestIsAnswered`, `OperationEnds`, `StopIsObeyed`,
`HalfOpenEnds` and `ResolveEnds`, because TLAPS has no ENABLED. Every other
property of the runs is stated by a theorem.

## 6. Not modelled

- **audit**: one writer under one lock, a file that no other component reads.
  Its chain and its recovery from a torn tail are functions of bytes.
- **Package admission** (manifest, signature, digest, lineage, arbitration,
  development trust): sequential functions over bytes, whose verdicts are
  choices in PackageTransaction.
- **authority**'s table of who may do what, **scheduler**, **identity**'s
  SO_PEERCRED, **sysprobe**, **logging**, **power**, **preflight**,
  **protocheck**, **health**, **resource**, **resourcedir**: no state that a
  sequence of steps can corrupt. **admin** and nervusctl call one operation of
  the registry per request.
- In control: the snapshot reader and the lane's panic handler. In safety: the
  audit ring and the observers. In ipc: builtin bodies, launch and the handle
  table of lease.go. In operation: the progress limit, watch and ageing. In
  service: the start request's contents and the lookups by unit. In transfer:
  frames, credit and pacing inside one direction, the ring's memory. In
  subscription: the limits on numbers. In catalog: the embedded descriptors and
  the schemas' encoding. In the kernel: the loop over modules.

What would come next: the handle table of ipc/lease.go as a refinement of the
lease in RequestRouting; ledger and UID of an id that an app and an image share;
and a second component in `services` for safety only.
