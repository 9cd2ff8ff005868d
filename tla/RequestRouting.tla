--------------------------- MODULE RequestRouting ---------------------------
(***************************************************************************)
(* internal/ipc: from a caller's Request to its one Response.              *)
(*                                                                         *)
(* Each connection has one goroutine, serve, that handles its frames one   *)
(* after another and then tears it down, and one that writes its outbox.   *)
(* A Request becomes a route in the dispatch table and a Dispatch in the   *)
(* target's outbox; whoever takes the route out of the table answers it:   *)
(*   - the target's serve, with the DispatchResult;                        *)
(*   - the reaper, at the deadline;                                        *)
(*   - the teardown of either connection;                                  *)
(*   - a revocation: of a permission, package or Resource (`revoker'), of  *)
(*     an endpoint by its Provider, of a lease by the Control Lane         *)
(*     (`lane').                                                           *)
(* The table's mutex makes each of its operations one step. What follows   *)
(* one, queued frames and released reservations, is done later and by      *)
(* parts (`todo').                                                         *)
(*                                                                         *)
(* A connection is registered as a Provider at most once, and a caller has *)
(* at most one lease, on the Resource that its controlled requests are     *)
(* about. The leases themselves are ControlLease's.                        *)
(***************************************************************************)
EXTENDS OperationManager

CONSTANTS
    Request,        \* requests, each sent once: request IDs do not wrap
    SourceOf,       \* the connection that sends it
    TargetOf,       \* the Provider it is for
    Controlled,     \* those whose method requires a control lease
    Long,           \* those whose method returns an operation
    Withdrawal,     \* the sets of requests that one revocation is about
    LeaseEpoch,     \* the motion epoch of the leases
    Boundary,       \* the boundaries that Safety raises
    MaxInflight,    \* maxInflightRequests
    Faulty,         \* connections that may hang up or stop reading
    None

ASSUME RoutingAssumption ==
    /\ SourceOf \in [Request -> Conn] /\ TargetOf \in [Request -> Conn]
    /\ Controlled \subseteq Request /\ Long \subseteq Request
    /\ Request = OperationId /\ Withdrawal \subseteq SUBSET Request
    /\ LeaseEpoch \in MotionEpoch /\ Boundary \subseteq MotionEpoch
    /\ Conn \cap {"serve", "table", "reaper", "revoker", "lane"} = {}
    /\ None \notin Request /\ None \notin Conn
    /\ MaxInflight \in Nat /\ Faulty \subseteq Conn

VARIABLES
    granted,    \* requests that the catalog and the permissions allow
    registered, \* Providers with a live registration
    lease,      \* per caller: "held", "ended" (not told yet) or "none"
    sampled,    \* connections whose sample of dispatchTable.epoch still holds
    table,      \* requests with a route in the table
    inflight,   \* requests with a reservation
    open,       \* connections whose outbox takes frames
    serve,      \* what each connection's goroutine is doing
    revoker,    \* what a revocation has withdrawn and not yet revoked
    lane,       \* whose lease end the Control Lane is telling
    todo,       \* per goroutine: what is left of what it took on
    received, dispatched, responses,    \* history
    missed      \* history: routes published behind their target's teardown,
                \* after it had swept the table

routingVars == <<granted, registered, lease, sampled, table, inflight, open,
                 serve, revoker, lane, todo, received, dispatched,
                 responses, missed>>
vars == <<operationVars, routingVars>>

Goroutine == Conn \cup {"reaper", "revoker", "lane"}

Idle == [pc |-> "idle", req |-> None]
Nothing == [answer |-> {}, release |-> {}]

RoutingInit ==
    /\ granted = Request
    /\ registered = {TargetOf[r] : r \in Request}
    /\ lease = [c \in Conn |->
                   IF \E r \in Controlled : SourceOf[r] = c THEN "held"
                   ELSE "none"]
    /\ sampled = {} /\ table = {}
    /\ inflight = {} /\ open = Conn
    /\ serve = [c \in Conn |-> Idle]
    /\ revoker = {} /\ lane = None /\ todo = [g \in Goroutine |-> Nothing]
    /\ received = {} /\ dispatched = {} /\ missed = {}
    /\ responses = [r \in Request |-> 0]

Init == OperationInit /\ RoutingInit

----------------------------------------------------------------------------
(* A goroutine takes on what it took out of the table, a Go map that gives *)
(* it in any order: requests to answer, and then requests that have nobody *)
(* to be answered to, whose reservations are only to be given back. The    *)
(* CancelDispatch that targets are sent on the way, best effort, is left   *)
(* out.                                                                    *)
TakesOn(g, answer, release) ==
    todo' = [todo EXCEPT ![g] = [answer |-> answer, release |-> release]]

(* A Response is queued, if its connection still takes frames.             *)
Respond(r) ==
    responses' = [responses EXCEPT ![r] = IF SourceOf[r] \in open THEN @ + 1
                                          ELSE @]

----------------------------------------------------------------------------
(* One goroutine at a time: c's serve, between frames or within one.       *)
At(c, pc) == serve[c].pc = pc /\ todo[c] = Nothing

Goes(c, pc) == serve' = [serve EXCEPT ![c].pc = pc]
Rests(c) == serve' = [serve EXCEPT ![c] = Idle]
Closes(c) == serve' = [serve EXCEPT ![c] = [pc |-> "close", req |-> None]]

(* The parts of the state that the steps of a handler leave alone.         *)
authority == <<granted, registered, lease>>
routes == <<sampled, table, dispatched, missed>>
frames == <<open, responses>>
others == <<revoker, lane, todo>>

(* handleRequest samples the epoch before it looks anything up. The epoch  *)
(* only grows, so all that the sample is good for is to tell whether there *)
(* was a revocation since.                                                 *)
SampleHolds_Always(c) == TRUE
SampleHolds(c) == c \in sampled

Receive(c, r) ==
    /\ At(c, "idle") /\ SourceOf[r] = c /\ r \notin received
    /\ received' = received \cup {r}
    /\ sampled' = sampled \cup {c}
    /\ serve' = [serve EXCEPT ![c] = [pc |-> "route", req |-> r]]
    /\ UNCHANGED <<operationVars, authority, table, dispatched, missed, frames,
                   others, inflight>>

(* Route: a live registration, and everything the catalog asks for.        *)
Route(c) ==
    /\ At(c, "route")
    /\ LET r == serve[c].req IN
       Goes(c, IF ~(r \in granted /\ TargetOf[r] \in registered) THEN "refuse"
               ELSE IF r \in Controlled THEN "check"
               ELSE "reserve")
    /\ UNCHANGED <<operationVars, authority, routes, frames, others,
                   inflight, received>>

CheckResource(c) ==
    /\ At(c, "check")
    /\ Goes(c, IF lease[c] = "held" THEN "reserve" ELSE "refuse")
    /\ UNCHANGED <<operationVars, authority, routes, frames, others,
                   inflight, received>>

(* reserveRequest, the deadline, and the lease's wire handle, which is     *)
(* there until the lease's end is told.                                    *)
Reserve(c) ==
    /\ At(c, "reserve")
    /\ LET r == serve[c].req IN
       IF Cardinality({q \in inflight : SourceOf[q] = c}) >= MaxInflight
       THEN Goes(c, "refuse") /\ UNCHANGED inflight
       ELSE /\ inflight' = inflight \cup {r}
            /\ Goes(c, IF r \in Controlled /\ lease[c] = "none" THEN "refuse"
                       ELSE IF r \in Long THEN "validate"
                       ELSE "publish")
    /\ UNCHANGED <<operationVars, authority, routes, frames, others,
                   received>>

(* createOperation, before the Dispatch: validateCreate, with ValidLease,  *)
(* and then the insertion.                                                 *)
ValidateCreate(c) ==
    /\ At(c, "validate")
    /\ LET r == serve[c].req IN
       Goes(c, IF r \notin past /\ (r \in Controlled => lease[c] = "held")
               THEN "create" ELSE "refuse")
    /\ UNCHANGED <<operationVars, authority, routes, frames, others,
                   inflight, received>>

CreateOperation(c) ==
    /\ At(c, "create")
    /\ LET r == serve[c].req IN
       \/ /\ Create(r, c, TargetOf[r], r \in Controlled,
                    IF r \in Controlled THEN LeaseEpoch ELSE 0)
          /\ Goes(c, "publish")
       \/ /\ ~Accepting /\ Goes(c, "refuse")
          /\ UNCHANGED operationVars
    /\ UNCHANGED <<authority, routes, frames, others, inflight, received>>

(* publishDispatchAtEpoch: the route and its Dispatch, or neither. Without *)
(* it the operation is failed and the reservation released. An outbox takes*)
(* frames to the end of its connection's teardown, so the target may have  *)
(* swept the table already.                                                *)
Swept(c) == serve[c].pc \in {"close lease", "close control", "close endpoint",
                            "close outbox", "gone"}

Unpublished(c) ==
    Goes(c, IF serve[c].req \in Long THEN "fail" ELSE "refuse")

Publish(c) ==
    /\ At(c, "publish")
    /\ LET r == serve[c].req IN
       IF SampleHolds(c) /\ TargetOf[r] \in open
       THEN /\ table' = table \cup {r}
            /\ dispatched' = dispatched \cup {r}
            /\ missed' = IF Swept(TargetOf[r]) THEN missed \cup {r} ELSE missed
            /\ Rests(c)
       ELSE Unpublished(c) /\ UNCHANGED <<table, dispatched, missed>>
    /\ sampled' = sampled \ {c}
    /\ UNCHANGED <<operationVars, authority, frames, others, inflight,
                   received>>

FailOperation(c) ==
    /\ At(c, "fail")
    /\ LET r == serve[c].req IN
       \/ ReportTerminal(r, "FAILED")
       \/ ~Live(r) /\ UNCHANGED operationVars
    /\ Goes(c, "refuse")
    /\ UNCHANGED <<authority, routes, frames, others, inflight, received>>

ReleaseRequest(r) == inflight' = inflight \ {r}

(* The failure response, after releasing the reservation if there is one.  *)
Refuse(c) ==
    /\ At(c, "refuse")
    /\ LET r == serve[c].req IN
       /\ ReleaseRequest(r)
       /\ Respond(r)
       /\ IF c \in open THEN Rests(c) ELSE Closes(c)
    /\ sampled' = sampled \ {c}
    /\ UNCHANGED <<operationVars, authority, table, dispatched, missed, open,
                   others, received>>

----------------------------------------------------------------------------
(* handleDispatchResult. complete takes the route out for its own target   *)
(* only; a route that is not there any more is nobody's fault. A result    *)
(* that breaks the method's contract is answered for like any other, and   *)
(* then the Provider is closed, as after HangUp.                           *)
Complete_Keeps(r) == UNCHANGED table
Complete(r) == table' = table \ {r}

DispatchResult(c, r) ==
    /\ At(c, "idle") /\ r \in table
    /\ \/ /\ TargetOf[r] = c
          /\ Complete(r)
          /\ TakesOn(c, {r}, {})
          /\ Goes(c, "answering")
       \/ /\ TargetOf[r] # c
          /\ Closes(c) /\ UNCHANGED <<table, todo>>
    /\ UNCHANGED <<operationVars, authority, sampled, dispatched, missed,
                   frames, revoker, lane, inflight, received>>

(* A goroutine does one of the things it took on. resolveRoute gives the   *)
(* reservation back and queues the Response, and tells                     *)
(* handleDispatchResult whether that worked.                               *)
Answer(g, r) ==
    /\ r \in todo[g].answer
    /\ todo' = [todo EXCEPT ![g].answer = @ \ {r}]
    /\ ReleaseRequest(r)
    /\ Respond(r)
    /\ IF ~(g \in Conn /\ serve[g].pc = "answering") THEN UNCHANGED serve
       ELSE IF SourceOf[r] \in open THEN Rests(g) ELSE Closes(g)
    /\ UNCHANGED <<operationVars, authority, routes, open, revoker, lane,
                   received>>

Release(g, r) ==
    /\ todo[g].answer = {} /\ r \in todo[g].release
    /\ todo' = [todo EXCEPT ![g].release = @ \ {r}]
    /\ ReleaseRequest(r)
    /\ UNCHANGED <<operationVars, authority, routes, frames, revoker, lane,
                   serve, received>>

(* The reaper finds routes past their deadlines.                           *)
Reap_UncontrolledOnly ==
    /\ todo["reaper"] = Nothing
    /\ LET late == (table \cap past) \ Controlled IN
       /\ late # {} /\ table' = table \ late
       /\ TakesOn("reaper", late, {})
    /\ UNCHANGED <<operationVars, authority, sampled, dispatched, missed,
                   frames, revoker, lane, inflight, serve, received>>

Reap ==
    /\ todo["reaper"] = Nothing
    /\ LET late == table \cap past IN
       /\ late # {} /\ table' = table \ late
       /\ TakesOn("reaper", late, {})
    /\ UNCHANGED <<operationVars, authority, sampled, dispatched, missed,
                   frames, revoker, lane, inflight, serve, received>>

----------------------------------------------------------------------------
(* Every revocation moves the epoch, whether or not it finds a route.      *)
Revoke(g, rs) ==
    /\ sampled' = {}
    /\ table' = table \ rs
    /\ TakesOn(g, table \cap rs, {})
    /\ UNCHANGED <<dispatched, missed>>

(* A permission, a package's authority or a Resource is withdrawn from     *)
(* where Route looks, and then from the table.                             *)
Withdraw(rs) ==
    /\ revoker = {} /\ todo["revoker"] = Nothing
    /\ rs # {} /\ rs \subseteq granted
    /\ granted' = granted \ rs /\ revoker' = rs
    /\ UNCHANGED <<operationVars, registered, lease, routes, frames, lane,
                   todo, inflight, serve, received>>

RevokeRoutes ==
    /\ revoker # {} /\ Revoke("revoker", revoker) /\ revoker' = {}
    /\ UNCHANGED <<operationVars, authority, frames, lane, inflight, serve,
                   received>>

(* handleUnregisterEndpoint, on the Provider's own connection.             *)
UnregisterEndpoint(c) ==
    /\ At(c, "idle") /\ c \in registered
    /\ registered' = registered \ {c}
    /\ Goes(c, "unregister")
    /\ UNCHANGED <<operationVars, granted, lease, routes, frames, others,
                   inflight, received>>

RevokeEndpoint(c) ==
    /\ At(c, "unregister")
    /\ Revoke(c, {r \in Request : TargetOf[r] = c})
    /\ Rests(c)
    /\ UNCHANGED <<operationVars, authority, frames, revoker, lane,
                   inflight, received>>

(* A lease ends in control, by expiry, preemption or Safety, and the       *)
(* Control Lane tells ControlLeaseEnded: the handle goes, then the routes. *)
LeaseEnds(c) ==
    /\ lease[c] = "held" /\ lease' = [lease EXCEPT ![c] = "ended"]
    /\ UNCHANGED <<operationVars, granted, registered, routes, frames,
                   others, inflight, serve, received>>

ForgetLease(c) ==
    /\ lane = None /\ todo["lane"] = Nothing /\ lease[c] = "ended"
    /\ lease' = [lease EXCEPT ![c] = "none"] /\ lane' = c
    /\ UNCHANGED <<operationVars, granted, registered, routes, frames,
                   revoker, todo, inflight, serve, received>>

UnderLease(c) == {r \in Controlled : SourceOf[r] = c}

RevokeControl ==
    /\ lane # None /\ Revoke("lane", UnderLease(lane)) /\ lane' = None
    /\ UNCHANGED <<operationVars, authority, frames, revoker, inflight,
                   serve, received>>

----------------------------------------------------------------------------
(* serve's loop ends: the peer hung up or broke the protocol, or the       *)
(* socket was closed on it. What follows is its defers, last one first.    *)
HangUp(c) ==
    /\ At(c, "idle") /\ (c \in Faulty \/ c \notin open) /\ Closes(c)
    /\ UNCHANGED <<operationVars, authority, routes, frames, others,
                   inflight, received>>

(* dispatchConnClosed: answers for the callers whose target this was,      *)
(* cancellations for the targets of what this one had asked.               *)
DispatchConnClosed(c) ==
    /\ At(c, "close")
    /\ LET asTarget == {r \in table : TargetOf[r] = c}
           asSource == {r \in table : SourceOf[r] = c} \ asTarget IN
       /\ table' = table \ (asTarget \cup asSource)
       /\ TakesOn(c, asTarget, asSource)
    /\ Goes(c, "close lease")
    /\ UNCHANGED <<operationVars, authority, sampled, dispatched, missed,
                   frames, revoker, lane, inflight, received>>

RevokeConn(c) ==
    /\ At(c, "close lease")
    /\ IF lease[c] = "held"
       THEN /\ lease' = [lease EXCEPT ![c] = "none"]
            /\ Goes(c, "close control")
       ELSE Goes(c, "close endpoint") /\ UNCHANGED lease
    /\ UNCHANGED <<operationVars, granted, registered, routes, frames,
                   others, inflight, received>>

RevokeOwnControl(c) ==
    /\ At(c, "close control")
    /\ Revoke(c, UnderLease(c)) /\ Goes(c, "close endpoint")
    /\ UNCHANGED <<operationVars, authority, frames, revoker, lane,
                   inflight, received>>

EndpointsConnClosed(c) ==
    /\ At(c, "close endpoint")
    /\ registered' = registered \ {c} /\ Goes(c, "close outbox")
    /\ UNCHANGED <<operationVars, granted, lease, routes, frames, others,
                   inflight, received>>

CloseOutbox(c) ==
    /\ At(c, "close outbox")
    /\ open' = open \ {c} /\ Goes(c, "gone")
    /\ UNCHANGED <<operationVars, authority, routes, responses, others,
                   inflight, received>>

(* The outboxes. What is in them shows in the history only. An outbox      *)
(* stops taking frames when runWriter fails, or when a push finds it full  *)
(* and closes the connection as a slow consumer. Either closes the socket, *)
(* which serve finds out later.                                            *)
OutboxCloses(c) ==
    /\ c \in open \cap Faulty /\ open' = open \ {c}
    /\ UNCHANGED <<operationVars, authority, routes, responses, others,
                   inflight, serve, received>>

----------------------------------------------------------------------------
(* The operation control interface is a builtin endpoint: its methods run  *)
(* in goroutines of their own, at any point of the caller's serve. Only the*)
(* caller's package may cancel (a connection stands for its package here), *)
(* and only the operation's Provider may report.                           *)
CancelOperation(c, id) == Exists(id) /\ ops[id].owner = c /\ Cancel(id)
AcceptOperation(c, id, e) == ProviderOperation(c, id) /\ Accept(id, e)
CompleteOperation(c, id, to) ==
    ProviderOperation(c, id) /\ ReportTerminal(id, to)

(* Deadlines count from the reservation.                                   *)
TimePasses(r) == (r \in inflight \/ Live(r)) /\ DeadlinePasses(r)

Operations ==
    /\ \/ \E c \in Conn, id \in OperationId :
             \/ CancelOperation(c, id)
             \/ \E e \in MotionEpoch \cup {0} : AcceptOperation(c, id, e)
             \/ \E to \in TerminalState : CompleteOperation(c, id, to)
       \/ \E e \in Boundary : SafetySupersede(e)
       \/ \E r \in Request : TimePasses(r)
       \/ LoopStep \/ CloseStop
    /\ UNCHANGED routingVars

ServeStep(c) ==
    \/ Route(c) \/ CheckResource(c) \/ Reserve(c) \/ ValidateCreate(c)
    \/ CreateOperation(c) \/ Publish(c) \/ FailOperation(c) \/ Refuse(c)
    \/ RevokeEndpoint(c)
    \/ DispatchConnClosed(c) \/ RevokeConn(c) \/ RevokeOwnControl(c)
    \/ EndpointsConnClosed(c) \/ CloseOutbox(c)

Next ==
    \/ Operations
    \/ \E c \in Conn :
          \/ \E r \in Request : Receive(c, r) \/ DispatchResult(c, r)
          \/ ServeStep(c) \/ UnregisterEndpoint(c) \/ HangUp(c)
          \/ LeaseEnds(c) \/ ForgetLease(c)
          \/ OutboxCloses(c)
    \/ \E g \in Goroutine, r \in Request : Answer(g, r) \/ Release(g, r)
    \/ Reap \/ RevokeRoutes \/ RevokeControl
    \/ \E rs \in Withdrawal : Withdraw(rs)

Spec == Init /\ [][Next]_vars

(* What the code's threads owe: a connection's goroutine and the lanes go  *)
(* on with what they have begun, the loop and the reaper tick, and time    *)
(* passes. Nobody owes a request, a result, a report or a hang-up.         *)
FairSpec ==
    /\ Spec
    /\ \A c \in Conn : WF_vars(ServeStep(c)) /\ WF_vars(ForgetLease(c))
    /\ \A g \in Goroutine :
          WF_vars(\E r \in Request : Answer(g, r) \/ Release(g, r))
    /\ WF_vars(Reap) /\ WF_vars(RevokeRoutes) /\ WF_vars(RevokeControl)
    /\ WF_vars(LoopStep /\ UNCHANGED routingVars)
    /\ \A r \in Request : WF_vars(TimePasses(r) /\ UNCHANGED routingVars)

----------------------------------------------------------------------------
Handling == {"route", "check", "reserve", "validate", "create", "publish",
             "fail", "refuse"}
Leaving == {"close", "close lease", "close control", "close endpoint",
            "close outbox", "gone"}

RoutingTypeOK ==
    /\ granted \subseteq Request /\ registered \subseteq Conn
    /\ lease \in [Conn -> {"held", "ended", "none"}]
    /\ sampled \subseteq Conn /\ table \subseteq Request
    /\ inflight \subseteq Request /\ open \subseteq Conn
    /\ serve \in [Conn -> [pc : Handling, req : Request] \cup
                          [pc : Leaving \cup {"idle", "answering", "unregister"},
                           req : {None}]]
    /\ \A c \in Conn : serve[c].pc \in Handling => SourceOf[serve[c].req] = c
    /\ revoker \subseteq Request /\ lane \in Conn \cup {None}
    /\ todo \in [Goroutine -> [answer : SUBSET Request,
                               release : SUBSET Request]]
    /\ received \subseteq Request /\ dispatched \subseteq Request
    /\ missed \subseteq Request
    /\ responses \in [Request -> Nat]

TypeOK == OperationTypeOK /\ RoutingTypeOK

(* A route in the table is a licence for a Provider to act. Whatever it    *)
(* rested on when it was published - the grant, the Provider's             *)
(* registration, the caller's lease - is still there, or the goroutine     *)
(* that took it away is on its way to the table. Route and CheckResource   *)
(* looked at all three long before the route was published. A Provider     *)
(* whose teardown has swept the table has no route in it from before: only *)
(* one that was published behind the sweep, which no teardown answers any  *)
(* more (dispatch.go's dispatchConnClosed says that none waits for its     *)
(* deadline).                                                              *)
RouteHasAuthority ==
    \A r \in table :
       /\ r \in granted \cup revoker
       /\ \/ TargetOf[r] \in registered /\ ~Swept(TargetOf[r])
          \/ serve[TargetOf[r]].pc = "unregister"
          \/ r \in missed
       /\ r \in Controlled =>
             \/ lease[SourceOf[r]] \in {"held", "ended"}
             \/ lane = SourceOf[r]

(* Who still has to answer for a request.                                  *)
Keepers(r) ==
    (IF serve[SourceOf[r]].req = r THEN {"serve"} ELSE {})
    \cup (IF r \in table THEN {"table"} ELSE {})
    \cup {g \in Goroutine : r \in todo[g].answer \cup todo[g].release}

Departed(c) == c \notin open \/ serve[c].pc \in Leaving

(* Whoever takes a request over, the result, the reaper, a teardown or a   *)
(* revocation, exactly one of them answers it; only a caller that is gone  *)
(* goes without. A reservation is given back when its request is answered, *)
(* on every one of those paths: a leak would shut the caller out after     *)
(* maxInflight calls, an early release would let it exceed its limit.      *)
ReservationHeld ==
    /\ \A r \in inflight : Keepers(r) # {}
    /\ \A r \in Request :
          Keepers(r) \ {"serve"} # {} => r \in inflight
AnsweredOnce ==
    /\ \A r \in received :
          /\ \A k, l \in Keepers(r) : k = l
          /\ Keepers(r) # {} => responses[r] = 0
          /\ Keepers(r) = {} => responses[r] = 1 \/ Departed(SourceOf[r])
          /\ responses[r] <= 1
    /\ ReservationHeld

(* An operation whose Dispatch never went out is failed by the caller that *)
(* created it: no Provider will ever accept or complete it, and its owner  *)
(* was told that the call failed.                                          *)
UndispatchedOperationEnds ==
    \A id \in OperationId :
       Live(id) /\ id \notin dispatched =>
          /\ serve[ops[id].owner].pc \in {"publish", "fail"}
          /\ serve[ops[id].owner].req = id

(* Every request gets its answer, however its route ends and even if its   *)
(* Provider never says a word, unless the caller itself goes away.         *)
RequestIsAnswered ==
    \A r \in Request :
       r \in received ~> responses[r] > 0 \/ Departed(SourceOf[r])

(* And every operation ends, whatever became of its request and whatever   *)
(* its Provider does about it, or does not.                                *)
OperationEnds == \A id \in OperationId : Live(id) ~> ~Live(id)
=============================================================================
