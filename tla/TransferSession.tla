-------------------------- MODULE TransferSession --------------------------
(***************************************************************************)
(* The transfer data plane (internal/transfer) and the places of           *)
(* internal/ipc that open and close it.                                    *)
(*                                                                         *)
(* A Provider that is answering a dispatched route may Begin a transfer:   *)
(* two single-use tickets, one for each side.  The Provider attaches a     *)
(* data-plane socket with its own, Commits, and returns the caller's       *)
(* ticket in its result; the caller attaches and the kernel relays frames, *)
(* or steps aside when the two share a memory ring.  A record dies with    *)
(* its route unless the result keeps it, and with any authority it rests   *)
(* on: the caller's or Provider's connection, the endpoint, the packages,  *)
(* a permission, the Resource, the control lease.  All of those            *)
(* withdrawals have one shape, modelled by Take, Sweep and Scan.           *)
(*                                                                         *)
(* Each action is one critical section of Manager.mu, or of the dispatch   *)
(* table's lock for the routes.  Sockets are shut just after the section   *)
(* that takes them out of their record, with no other effect, so they are  *)
(* shut in the same step here.  Tickets, credentials, sizes and rates are  *)
(* abstracted: a refused attachment is Refuse whatever the reason.         *)
(***************************************************************************)
EXTENDS Integers, FiniteSets

CONSTANTS Route,        \* requests in the dispatch table
          Transfer,     \* transfer identifiers: random, so never used twice
          Attempt,      \* data-plane connections ever made
          Withdrawal,   \* calls of RevokePackage, RevokeControl, ConnClosed...
          RouteOf,      \* the origin route of each transfer
          Mode,         \* its mode and direction
          Dialler,      \* which side makes each connection
          About,        \* the routes whose authority a withdrawal takes
          MaxTransfers, MaxTombstones, MaxStreams, MaxRelayBuffers,
          MaxPending, MaxPendingPerSide

Side == {"provider", "caller"}
Modes == {"oneway", "duplex", "ring"}

ASSUME TransferConstants ==
    /\ RouteOf \in [Transfer -> Route]
    /\ Mode \in [Transfer -> Modes]
    /\ Dialler \in [Attempt -> Side]
    /\ About \in [Withdrawal -> SUBSET Route]
    /\ Withdrawal \cap {"open", "result", "reaped", "done"} = {}
    /\ {MaxTransfers, MaxTombstones, MaxStreams, MaxRelayBuffers, MaxPending,
        MaxPendingPerSide} \subseteq Nat \ {0}

VARIABLES route,        \* who holds each route: the table, a taker, nobody
          refs,         \* the transfers whose handles a result carries
          time,         \* how much of a route's time is over
          record,       \* Manager.records
          live,         \* Manager.liveCount
          tombstones,   \* Manager.tombstones
          buffers,      \* Manager.reservedBuffers
          attempt,      \* a connection's serveAttach
          withdrawal,   \* the steps of each withdrawal
          stopping,     \* Manager.Stop: "no", "admission", "closed"
          blamed        \* routes whose result got the Provider disconnected

vars == <<route, refs, time, record, live, tombstones, buffers, attempt,
          withdrawal, stopping, blamed>>
budget == <<live, tombstones, buffers>>

Phase == {"none", "asked", "prepared", "committed", "active", "closed", "forgotten"}
LivePhase == {"prepared", "committed", "active"}

Record == [state : Phase, provider : BOOLEAN, caller : BOOLEAN, unattended : BOOLEAN,
           running : 0..2, leaving : 0..2, buffered : BOOLEAN]

NoRecord == [state |-> "none", provider |-> FALSE, caller |-> FALSE,
             unattended |-> FALSE, running |-> 0, leaving |-> 0, buffered |-> FALSE]

Live(t) == record[t].state \in LivePhase

\* m.records and m.byRoute: a closed record stays as a tombstone.
Known(t) == Live(t) \/ record[t].state = "closed"
OnRoute(r) == {t \in Transfer : RouteOf[t] = r}
TokenOpen(r) == route[r] = "open"

\* relayDirections: the buffers reserved, and the workers of a relay; and the
\* buffers of a set of transfers.
Directions(t) == IF Mode[t] = "duplex" THEN 2 ELSE 1
Reserved(S) == Cardinality(S) + Cardinality({t \in S : Mode[t] = "duplex"})
Workers(t) == record[t].running + record[t].leaving

\* A route's time: its deadline (1), then the grace a caller has to attach (2).
Late(t) == time[RouteOf[t]] >= 1
Over(t) == time[RouteOf[t]] = 2

TypeOK ==
    /\ route \in [Route -> {"open", "result", "reaped", "done"} \cup Withdrawal]
    /\ refs \in [Route -> SUBSET Transfer]
    /\ time \in [Route -> 0..2]
    /\ record \in [Transfer -> Record]
    /\ live \in Nat /\ tombstones \in Nat /\ buffers \in Nat
    /\ attempt \in [Attempt -> [pc : {"idle", "pending", "admitted", "attached",
                                      "replied", "gone"},
                                of : Transfer \cup {"-"}]]
    /\ withdrawal \in [Withdrawal -> {"idle", "sweep", "returned"}]
    /\ stopping \in {"no", "admission", "closed"}
    /\ blamed \subseteq Route

Init ==
    /\ route = [r \in Route |-> "open"]
    /\ refs = [r \in Route |-> {}]
    /\ time = [r \in Route |-> 0]
    /\ record = [t \in Transfer |-> NoRecord]
    /\ live = 0 /\ tombstones = 0 /\ buffers = 0
    /\ attempt = [a \in Attempt |-> [pc |-> "idle", of |-> "-"]]
    /\ withdrawal = [w \in Withdrawal |-> "idle"]
    /\ stopping = "no"
    /\ blamed = {}

(***************************************************************************)
(* closeLocked: the one way a record ends.  Its budget is released, the    *)
(* relay buffer only if no worker still reads into it.                     *)
(***************************************************************************)
Closed(t) ==
    [record[t] EXCEPT !.state = "closed", !.unattended = FALSE, !.provider = FALSE,
                      !.caller = FALSE, !.buffered = @ /\ Workers(t) > 0]

Returned(S) == Reserved({t \in S : Workers(t) = 0})

Close(T) ==
    LET S == {t \in T : Live(t)} IN
    /\ record' = [t \in Transfer |-> IF t \in S THEN Closed(t) ELSE record[t]]
    /\ live' = live - Cardinality(S)
    /\ tombstones' = tombstones + Cardinality(S)
    /\ buffers' = buffers - Returned(S)

----------------------------------------------------------------------------
(***************************************************************************)
(* The control plane: the Provider's BeginTransfer, CommitTransfer and     *)
(* AbortTransfer.                                                          *)
(***************************************************************************)
\* beginTransferBuiltin finds the route in the table, its token open.  (The
\* lease check of a method that needs one may refuse as well.)
Originates(t) == TokenOpen(RouteOf[t])

\* Begin checks the policy and draws the tickets, outside any lock.
Begin(t) ==
    /\ record[t].state = "none"
    /\ Originates(t)
    /\ ~Late(t)
    /\ record' = [record EXCEPT ![t].state = "asked"]
    /\ UNCHANGED <<route, refs, time, budget, attempt, withdrawal, stopping, blamed>>

\* Begin trusts the token it has read before the lock.
StillOpen_Cached(t) == TRUE

\* The token is read again under the lock.
StillOpen(t) == TokenOpen(RouteOf[t])

\* The route's stream limit counts tombstones too; reserveLocked.
Admissible(t) ==
    /\ Cardinality({u \in OnRoute(RouteOf[t]) : Known(u)}) < MaxStreams
    /\ live < MaxTransfers
    /\ tombstones < MaxTombstones
    /\ buffers + Directions(t) <= MaxRelayBuffers

Prepare(t) ==
    /\ record[t].state = "asked"
    /\ IF stopping = "no" /\ StillOpen(t) /\ Admissible(t)
       THEN /\ record' = [record EXCEPT ![t].state = "prepared", ![t].buffered = TRUE]
            /\ live' = live + 1
            /\ buffers' = buffers + Directions(t)
       ELSE /\ record' = [record EXCEPT ![t].state = "forgotten"]
            /\ UNCHANGED <<live, buffers>>
    /\ UNCHANGED <<route, refs, time, tombstones, attempt, withdrawal, stopping, blamed>>

\* Commit closes an expired transfer, and refuses one without a Provider.
CommitExpired(t) == ~TokenOpen(RouteOf[t]) \/ Late(t)

Commit(t) ==
    /\ record[t].state = "prepared"
    /\ IF CommitExpired(t)
       THEN Close({t})
       ELSE /\ record[t].provider
            /\ record' = [record EXCEPT ![t].state = "committed"]
            /\ UNCHANGED budget
    /\ UNCHANGED <<route, refs, time, attempt, withdrawal, stopping, blamed>>

Abort(t) ==
    /\ Live(t)
    /\ record' = [record EXCEPT ![t] = Closed(t)]
    /\ live' = live - 1
    /\ tombstones' = tombstones + 1
    /\ buffers' = buffers - Returned({t})
    /\ UNCHANGED <<route, refs, time, attempt, withdrawal, stopping, blamed>>

----------------------------------------------------------------------------
(***************************************************************************)
(* How a route ends: its result, its deadline, or a withdrawal.            *)
(***************************************************************************)
\* dispatch.complete takes the route; the Provider's result names handles.
Result(r) ==
    /\ TokenOpen(r)
    /\ time[r] = 0
    /\ route' = [route EXCEPT ![r] = "result"]
    /\ \E T \in SUBSET Transfer : refs' = [refs EXCEPT ![r] = T]
    /\ UNCHANGED <<time, record, budget, attempt, withdrawal, stopping, blamed>>

\* Every handle must belong to the route and be committed.
Valid(r) == \A t \in refs[r] : /\ RouteOf[t] = r
                               /\ record[t].state \in {"committed", "active"}

\* An invalid result costs only the streams it does not name.
Dropped_Unnamed(r) == OnRoute(r) \ refs[r]

\* What FinishRoute closes: all of an invalid result's, else the unreferenced.
Dropped(r) == IF Valid(r) THEN OnRoute(r) \ refs[r] ELSE OnRoute(r)

\* FinishRoute; a failed one is rejectProviderResult, and the Provider's
\* connection is closed.
FinishRoute(r) ==
    /\ route[r] = "result"
    /\ Close(Dropped(r))
    /\ blamed' = IF Valid(r) THEN blamed ELSE blamed \cup {r}
    /\ route' = [route EXCEPT ![r] = "done"]
    /\ UNCHANGED <<refs, time, attempt, withdrawal, stopping>>

\* dispatch.reap, or a result that comes too late.
RouteExpires(r) ==
    /\ TokenOpen(r)
    /\ time[r] >= 1
    /\ route' = [route EXCEPT ![r] = "reaped"]
    /\ UNCHANGED <<refs, time, record, budget, attempt, withdrawal, stopping, blamed>>

CloseRoute(r) ==
    /\ Close(OnRoute(r))
    /\ route' = [route EXCEPT ![r] = "done"]

CloseReaped(r) ==
    /\ route[r] = "reaped"
    /\ CloseRoute(r)
    /\ UNCHANGED <<refs, time, attempt, withdrawal, stopping, blamed>>

\* revokeEndpoint, revokePackage, revokePermission, revokeResource,
\* revokeControl and connClosed match entries of the table; the scan of the
\* records repeats the match on the authority they were begun with.
Matches(w, r) == r \in About[w]
Scanned(w) == {t \in Transfer : Matches(w, RouteOf[t])}

\* A withdrawal closes the matching tokens under the table's lock...
Take(w) ==
    /\ withdrawal[w] = "idle"
    /\ route' = [r \in Route |-> IF Matches(w, r) /\ TokenOpen(r) THEN w ELSE route[r]]
    /\ withdrawal' = [withdrawal EXCEPT ![w] = "sweep"]
    /\ UNCHANGED <<refs, time, record, budget, attempt, stopping, blamed>>

\* ...then closes the transfers of each route it took...
Sweep(w, r) ==
    /\ withdrawal[w] = "sweep"
    /\ route[r] = w
    /\ CloseRoute(r)
    /\ UNCHANGED <<refs, time, attempt, withdrawal, stopping, blamed>>

\* ...and last scans the records themselves: a stream a result has kept no
\* longer has a route.
Scan(w) ==
    /\ withdrawal[w] = "sweep"
    /\ \A r \in Route : route[r] # w
    /\ Close(Scanned(w))
    /\ withdrawal' = [withdrawal EXCEPT ![w] = "returned"]
    /\ UNCHANGED <<route, refs, time, attempt, stopping, blamed>>

----------------------------------------------------------------------------
(***************************************************************************)
(* The data plane: one serveAttach per connection, and the relay.          *)
(***************************************************************************)
Serving == {a \in Attempt : attempt[a].pc \notin {"idle", "gone"}}
ServingSide(s) == {a \in Attempt : Dialler[a] = s
                                   /\ attempt[a].pc \in {"admitted", "attached", "replied"}}

Goes(a, pc) == attempt' = [attempt EXCEPT ![a].pc = pc]

\* acceptLoop takes a pending slot.
Accept(a) ==
    /\ attempt[a].pc = "idle"
    /\ Goes(a, IF Cardinality(Serving) < MaxPending /\ stopping = "no"
               THEN "pending" ELSE "gone")
    /\ UNCHANGED <<route, refs, time, record, budget, withdrawal, stopping, blamed>>

\* serveAttach takes a slot of the peer's uid.
Admit(a) ==
    /\ attempt[a].pc = "pending"
    /\ Goes(a, IF Cardinality(ServingSide(Dialler[a])) < MaxPendingPerSide
                  /\ stopping = "no"
               THEN "admitted" ELSE "gone")
    /\ UNCHANGED <<route, refs, time, record, budget, withdrawal, stopping, blamed>>

\* The frame is late, malformed or not authentic; or Stop has shut the socket.
Refuse(a) ==
    /\ attempt[a].pc = "admitted"
    /\ Goes(a, "gone")
    /\ UNCHANGED <<route, refs, time, record, budget, withdrawal, stopping, blamed>>

\* side.consumed, and the expiry of the side's ticket.
Consumed(t, s) == IF s = "provider" THEN record[t].provider ELSE record[t].caller
TicketExpired(t, s) == IF s = "provider" THEN record[t].unattended \/ Late(t) ELSE Over(t)
MayAttach(t, s) == record[t].state = IF s = "provider" THEN "prepared" ELSE "committed"

\* attach: a good ticket of one side, used for the first time.
Attach(a, t) ==
    LET s == Dialler[a] IN
    /\ attempt[a].pc = "admitted"
    /\ stopping # "closed"
    /\ Live(t) /\ ~Consumed(t, s)
    /\ IF stopping = "admission"
       THEN Goes(a, "gone") /\ UNCHANGED <<record, budget>>
       ELSE IF TicketExpired(t, s)
       THEN Goes(a, "gone") /\ Close({t})
       ELSE IF ~MayAttach(t, s)
       THEN Goes(a, "gone") /\ UNCHANGED <<record, budget>>
       ELSE /\ attempt' = [attempt EXCEPT ![a] = [pc |-> "attached", of |-> t]]
            /\ record' = [record EXCEPT ![t].provider = @ \/ s = "provider",
                                        ![t].caller = @ \/ s = "caller",
                                        ![t].state = IF s = "caller" THEN "active" ELSE @]
            /\ UNCHANGED budget
    /\ UNCHANGED <<route, refs, time, withdrawal, stopping, blamed>>

\* The result frame and, in ring mode, the descriptors are sent.
Reply(a) ==
    /\ attempt[a].pc = "attached"
    /\ Live(attempt[a].of)
    /\ Goes(a, "replied")
    /\ UNCHANGED <<route, refs, time, record, budget, withdrawal, stopping, blamed>>

\* The peer does not take them, or the socket has been shut: closeID.
ReplyFails(a) ==
    /\ attempt[a].pc \in {"attached", "replied"}
    /\ attempt[a].pc = "replied" => ~Live(attempt[a].of)
    /\ Close({attempt[a].of})
    /\ Goes(a, "gone")
    /\ UNCHANGED <<route, refs, time, withdrawal, stopping, blamed>>

\* startRelay reads the state again: the record may be closed by now.
Relayable(t) == record[t].state = "active" /\ Mode[t] # "ring"

Handed(a) ==
    LET t == attempt[a].of IN
    /\ attempt[a].pc = "replied"
    /\ Goes(a, "gone")
    /\ record' = IF Dialler[a] = "caller" /\ Relayable(t)
                 THEN [record EXCEPT ![t].running = Directions(t)]
                 ELSE record
    /\ UNCHANGED <<route, refs, time, budget, withdrawal, stopping, blamed>>

\* relay returns: the peer hung up, was silent or slow, sent a bad frame, or
\* the transfer is closed.
RelayFails(t) ==
    LET left(rec) == [rec EXCEPT !.running = @ - 1, !.leaving = @ + 1] IN
    /\ record[t].running > 0
    /\ IF Live(t)
       THEN /\ record' = [record EXCEPT ![t] = left(Closed(t))]
            /\ live' = live - 1
            /\ tombstones' = tombstones + 1
       ELSE /\ record' = [record EXCEPT ![t] = left(record[t])]
            /\ UNCHANGED <<live, tombstones>>
    /\ UNCHANGED <<route, refs, time, buffers, attempt, withdrawal, stopping, blamed>>

\* The first worker to leave returns the buffer of both.
LastOut_First(t) == TRUE

\* relayDone: the last worker returns the buffer.
LastOut(t) == Workers(t) = 1

RelayDone(t) ==
    /\ record[t].leaving > 0
    /\ record' = [record EXCEPT ![t].leaving = @ - 1, ![t].buffered = @ /\ ~LastOut(t)]
    /\ buffers' = buffers - IF LastOut(t) /\ record[t].buffered THEN Directions(t) ELSE 0
    /\ UNCHANGED <<route, refs, time, live, tombstones, attempt, withdrawal, stopping,
                   blamed>>

----------------------------------------------------------------------------
(***************************************************************************)
(* Time, the reaper and Stop.                                              *)
(***************************************************************************)
\* ProviderAttachTimeout.
Unattended(t) ==
    /\ record[t].state = "prepared"
    /\ ~record[t].unattended
    /\ record' = [record EXCEPT ![t].unattended = TRUE]
    /\ UNCHANGED <<route, refs, time, budget, attempt, withdrawal, stopping, blamed>>

Tick(r) ==
    /\ time[r] < 2
    /\ time' = [time EXCEPT ![r] = @ + 1]
    /\ UNCHANGED <<route, refs, record, budget, attempt, withdrawal, stopping, blamed>>

\* The reaper knows only the Provider's timeout.
Reapable_Prepared(t) == record[t].state = "prepared" /\ (record[t].unattended \/ Late(t))

Reapable(t) ==
    \/ record[t].state = "prepared" /\ (record[t].unattended \/ Late(t))
    \/ record[t].state = "committed" /\ Over(t)

\* One record of a pass of reap.
Reap(t) ==
    /\ stopping # "closed"
    /\ Reapable(t)
    /\ Close({t})
    /\ UNCHANGED <<route, refs, time, attempt, withdrawal, stopping, blamed>>

\* TombstoneTTL is 30 s; a worker of a closed record ends within
\* WriteTimeout, 5 s.
Forget(t) ==
    /\ stopping # "closed"
    /\ record[t].state = "closed"
    /\ Workers(t) = 0
    /\ record' = [record EXCEPT ![t].state = "forgotten"]
    /\ tombstones' = tombstones - 1
    /\ UNCHANGED <<route, refs, time, live, buffers, attempt, withdrawal, stopping, blamed>>

\* Stop refuses newcomers, shuts the listener...
Stop ==
    /\ stopping = "no"
    /\ stopping' = "admission"
    /\ UNCHANGED <<route, refs, time, record, budget, attempt, withdrawal, blamed>>

\* ...then closes every record, and every connection not yet attached.
Shut(a) == attempt[a].pc \in {"pending", "admitted"}

StopCloses ==
    /\ stopping = "admission"
    /\ stopping' = "closed"
    /\ Close(Transfer)
    /\ attempt' = [a \in Attempt |-> IF Shut(a) THEN [attempt[a] EXCEPT !.pc = "gone"]
                                     ELSE attempt[a]]
    /\ UNCHANGED <<route, refs, time, withdrawal, blamed>>

Joined == Serving = {} /\ \A t \in Transfer : Workers(t) = 0

----------------------------------------------------------------------------
TransferStep(t) ==
    \/ Begin(t) \/ Prepare(t) \/ Commit(t) \/ Abort(t)
    \/ RelayFails(t) \/ RelayDone(t)
    \/ Unattended(t) \/ Reap(t) \/ Forget(t)

RouteStep(r) ==
    \/ Result(r) \/ FinishRoute(r) \/ RouteExpires(r) \/ CloseReaped(r) \/ Tick(r)

AttemptStep(a) ==
    \/ Accept(a) \/ Admit(a) \/ Refuse(a)
    \/ \E t \in Transfer : Attach(a, t)
    \/ Reply(a) \/ ReplyFails(a) \/ Handed(a)

WithdrawalStep(w) == Take(w) \/ Scan(w) \/ \E r \in Route : Sweep(w, r)

Next ==
    \/ \E t \in Transfer : TransferStep(t)
    \/ \E r \in Route : RouteStep(r)
    \/ \E a \in Attempt : AttemptStep(a)
    \/ \E w \in Withdrawal : WithdrawalStep(w)
    \/ Stop \/ StopCloses

Spec == Init /\ [][Next]_vars

\* What the goroutines and the clock guarantee: handlers and serveAttach run
\* on, a relay of a closed transfer finds its sockets shut, the reaper's ticker
\* fires, a withdrawal and Stop run to their end.  Peers promise nothing: no
\* fairness for Begin, Commit, Abort, Result, Accept and Attach, but the
\* handshake timeout ends a connection that sends nothing.
Fairness ==
    /\ \A t \in Transfer : /\ WF_vars(Prepare(t))
                           /\ WF_vars(RelayFails(t) /\ ~Live(t))
                           /\ WF_vars(RelayDone(t))
                           /\ WF_vars(Reap(t)) /\ WF_vars(Forget(t))
    /\ \A r \in Route : /\ WF_vars(FinishRoute(r)) /\ WF_vars(RouteExpires(r))
                        /\ WF_vars(CloseReaped(r)) /\ WF_vars(Tick(r))
    /\ \A a \in Attempt : /\ WF_vars(Admit(a)) /\ WF_vars(Refuse(a))
                          /\ WF_vars(Reply(a) \/ ReplyFails(a)) /\ WF_vars(Handed(a))
    /\ \A w \in Withdrawal : /\ WF_vars(Scan(w))
                             /\ \A r \in Route : WF_vars(Sweep(w, r))
    /\ WF_vars(StopCloses)

FairSpec == Spec /\ Fairness

----------------------------------------------------------------------------
(***************************************************************************)
(* Properties.                                                             *)
(***************************************************************************)
\* Once RevokePackage, RevokePermission, RevokeResource, RevokeControl, the
\* endpoint's removal or a connection's teardown has returned, no stream that
\* rested on what was taken away is open, however a BeginTransfer, a result or
\* an attachment crossed it.
RevokedIsClosed ==
    \A w \in Withdrawal, t \in Transfer :
        withdrawal[w] = "returned" /\ RouteOf[t] \in About[w] => ~Live(t)

\* A stream outlives its request only if the request succeeded and its result
\* gave the caller that stream's handle: none is left that nobody can use.
NothingOutlivesRoute ==
    \A t \in Transfer :
        LET r == RouteOf[t] IN
        route[r] = "done" /\ Live(t) => t \in refs[r] /\ r \notin blamed

\* The counters that admit transfers say what is there, and the memory they
\* bound is bounded: a record beyond the limits would need a live transfer or
\* a tombstone the admission has not seen.
BudgetExact ==
    /\ live = Cardinality({t \in Transfer : Live(t)})
    /\ tombstones = Cardinality({t \in Transfer : record[t].state = "closed"})
    /\ buffers = Reserved({t \in Transfer : record[t].buffered})
    /\ \A t \in Transfer : Workers(t) > 0 => record[t].buffered
    /\ live + tombstones < MaxTransfers + MaxTombstones
    /\ buffers <= MaxRelayBuffers

\* Half-open transfers do not pile up: one that is begun becomes active, or is
\* closed and then forgotten with its buffers returned. And the wait of
\* Manager.Stop for its goroutines ends, with no transfer left.
StopJoins == stopping # "no" ~> Joined /\ \A t \in Transfer : ~Live(t)
HalfOpenEnds ==
    /\ \A t \in Transfer :
          record[t].state \in {"asked", "prepared", "committed", "closed"}
              ~> record[t].state \in {"active", "forgotten"} \/ stopping # "no"
    /\ StopJoins
=============================================================================
