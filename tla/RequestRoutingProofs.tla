------------------------ MODULE RequestRoutingProofs ------------------------
(***************************************************************************)
(* Proofs about RequestRouting and OperationManager, for any connections,  *)
(* requests, limits and boundaries.                                        *)
(***************************************************************************)
EXTENDS RequestRouting, TLAPS

USE OperationAssumption, RoutingAssumption
    DEF OperationAssumption, RoutingAssumption

----------------------------------------------------------------------------
(* Types of the operations.                                                *)
OperationRecord ==
    [state : {"PENDING", "RUNNING", "CANCEL_REQUESTED"} \cup TerminalState,
     owner : Conn, provider : Conn, leased : BOOLEAN,
     epoch : MotionEpoch \cup {0}]

LEMMA ExistsTyped ==
    ASSUME OperationTypeOK, NEW id \in OperationId, Exists(id)
    PROVE  ops[id] \in OperationRecord
BY DEF OperationTypeOK, Exists, NoOperation, OperationRecord

LEMMA MovedTyped ==
    ASSUME NEW op \in OperationRecord,
           NEW to \in {"PENDING", "RUNNING", "CANCEL_REQUESTED"}
                         \cup TerminalState
    PROVE  Moved(op, to) \in OperationRecord
BY DEF Moved, OperationRecord

LEMMA FailAllTyped ==
    ASSUME OperationTypeOK, NEW ids, FailAll(ids)
    PROVE  ops' \in [OperationId -> {NoOperation} \cup OperationRecord]
<1>1. ASSUME NEW id \in OperationId, Live(id)
      PROVE  Moved(ops[id], "FAILED") \in OperationRecord
  BY <1>1, ExistsTyped, MovedTyped DEF Live, TerminalState
<1>2. \A id \in OperationId : ops[id] \in {NoOperation} \cup OperationRecord
  BY DEF OperationTypeOK, OperationRecord
<1> QED
  BY <1>1, <1>2 DEF FailAll

LEMMA MoveTyped ==
    ASSUME OperationTypeOK, NEW id \in OperationId, Exists(id),
           NEW to \in {"RUNNING", "CANCEL_REQUESTED"} \cup TerminalState,
           ops' = [ops EXCEPT ![id] = Moved(@, to)]
    PROVE  ops' \in [OperationId -> {NoOperation} \cup OperationRecord]
<1>1. Moved(ops[id], to) \in OperationRecord
  BY ExistsTyped, MovedTyped
<1> QED
  BY <1>1 DEF OperationTypeOK, OperationRecord

LEMMA OpsTyped ==
    ASSUME OperationTypeOK,
           ops' \in [OperationId -> {NoOperation} \cup OperationRecord],
           UNCHANGED <<boundary, wake, loop, stopping, past>>
    PROVE  OperationTypeOK'
BY DEF OperationTypeOK, OperationRecord

LEMMA CreateTyped ==
    ASSUME OperationTypeOK, NEW r \in OperationId, NEW c \in Conn,
           NEW p \in Conn,
           Create(r, c, p, r \in Controlled,
                  IF r \in Controlled THEN LeaseEpoch ELSE 0)
    PROVE  OperationTypeOK'
BY DEF Create, OperationTypeOK

LEMMA ReportTerminalTyped ==
    ASSUME OperationTypeOK, NEW id \in OperationId, NEW to \in TerminalState,
           ReportTerminal(id, to)
    PROVE  OperationTypeOK'
<1>1. ops' \in [OperationId -> {NoOperation} \cup OperationRecord]
  BY FailAllTyped, MoveTyped DEF ReportTerminal, Live
<1>2. UNCHANGED <<boundary, wake, loop, stopping, past>>
  BY DEF ReportTerminal
<1> QED
  BY <1>1, <1>2, OpsTyped

LEMMA AcceptTyped ==
    ASSUME OperationTypeOK, NEW id \in OperationId, NEW e, Accept(id, e)
    PROVE  OperationTypeOK'
<1>1. ops' \in [OperationId -> {NoOperation} \cup OperationRecord]
  <2>1. CASE FailAll({id})
    BY <2>1, FailAllTyped
  <2>2. CASE ops' = [ops EXCEPT ![id] = Moved(ops[id], "RUNNING")]
    <3>1. Exists(id)
      BY DEF Accept, Live
    <3> QED
      BY <2>2, <3>1, MoveTyped
  <2> QED
    BY <2>1, <2>2 DEF Accept
<1>2. UNCHANGED <<boundary, wake, loop, stopping, past>>
  BY DEF Accept
<1> QED
  BY <1>1, <1>2, OpsTyped

LEMMA CancelTyped ==
    ASSUME OperationTypeOK, NEW id \in OperationId, Cancel(id)
    PROVE  OperationTypeOK'
<1>1. Exists(id) /\ ops' = [ops EXCEPT ![id] = Moved(@, "CANCEL_REQUESTED")]
  BY DEF Cancel
<1>2. Moved(ops[id], "CANCEL_REQUESTED") \in OperationRecord
  BY <1>1, ExistsTyped, MovedTyped
<1>3. ops' \in [OperationId -> {NoOperation} \cup OperationRecord]
  BY <1>1, <1>2 DEF OperationTypeOK, OperationRecord
<1>4. UNCHANGED <<boundary, wake, loop, stopping, past>>
  BY DEF Cancel
<1> QED
  BY <1>3, <1>4, OpsTyped

LEMMA LoopStepTyped ==
    ASSUME OperationTypeOK, LoopStep
    PROVE  OperationTypeOK'
<1>1. CASE ConvergeSupersede
  <2>1. ops' \in [OperationId -> {NoOperation} \cup OperationRecord]
    BY <1>1, FailAllTyped DEF ConvergeSupersede
  <2> QED
    BY <1>1, <2>1 DEF ConvergeSupersede, OperationTypeOK, OperationRecord
<1>2. CASE ScanDeadlines
  <2>1. ops' \in [OperationId -> {NoOperation} \cup OperationRecord]
    BY <1>2, FailAllTyped DEF ScanDeadlines
  <2> QED
    BY <1>2, <2>1 DEF ScanDeadlines, OperationTypeOK, OperationRecord
<1>3. CASE StopConverges
  <2>1. ops' \in [OperationId -> {NoOperation} \cup OperationRecord]
    BY <1>3, FailAllTyped DEF StopConverges
  <2> QED
    BY <1>3, <2>1 DEF StopConverges, OperationTypeOK, OperationRecord
<1>4. CASE ReapTerminal
  <2>1. ops' \in [OperationId -> {NoOperation} \cup OperationRecord]
    BY <1>4 DEF ReapTerminal, OperationTypeOK, OperationRecord
  <2>2. /\ loop' = [loop EXCEPT !.pc = "select"]
        /\ UNCHANGED <<boundary, wake, stopping, past>>
    BY <1>4 DEF ReapTerminal
  <2> QED
    BY <2>1, <2>2 DEF OperationTypeOK, OperationRecord
<1>5. CASE LoopWakes
  BY <1>5 DEF LoopWakes, OperationTypeOK
<1>6. CASE LoopTicks
  BY <1>6 DEF LoopTicks, OperationTypeOK
<1>7. CASE LoopExits
  BY <1>7 DEF LoopExits, OperationTypeOK
<1> QED
  BY <1>1, <1>2, <1>3, <1>4, <1>5, <1>6, <1>7 DEF LoopStep

LEMMA OperationsTyped ==
    ASSUME OperationTypeOK, Operations
    PROVE  OperationTypeOK'
<1>1. ASSUME NEW c \in Conn, NEW id \in OperationId, CancelOperation(c, id)
      PROVE  OperationTypeOK'
  BY <1>1, CancelTyped DEF CancelOperation
<1>2. ASSUME NEW c \in Conn, NEW id \in OperationId,
             NEW e \in MotionEpoch \cup {0}, AcceptOperation(c, id, e)
      PROVE  OperationTypeOK'
  BY <1>2, AcceptTyped DEF AcceptOperation
<1>3. ASSUME NEW c \in Conn, NEW id \in OperationId,
             NEW to \in TerminalState, CompleteOperation(c, id, to)
      PROVE  OperationTypeOK'
  BY <1>3, ReportTerminalTyped DEF CompleteOperation
<1>4. ASSUME NEW e \in Boundary, SafetySupersede(e)
      PROVE  OperationTypeOK'
  BY <1>4 DEF SafetySupersede, OperationTypeOK
<1>5. ASSUME NEW r \in Request, TimePasses(r)
      PROVE  OperationTypeOK'
  BY <1>5 DEF TimePasses, DeadlinePasses, OperationTypeOK
<1>6. CASE CloseStop
  BY <1>6 DEF CloseStop, OperationTypeOK
<1> QED
  BY <1>1, <1>2, <1>3, <1>4, <1>5, <1>6, LoopStepTyped DEF Operations

----------------------------------------------------------------------------
(* Types of the routing.                                                   *)
Between == Leaving \cup {"idle", "answering", "unregister"}

ServeOK ==
    /\ serve \in [Conn -> [pc : Handling, req : Request] \cup
                          [pc : Between, req : {None}]]
    /\ \A c \in Conn : serve[c].pc \in Handling => SourceOf[serve[c].req] = c

LEMMA ServeTyped == RoutingTypeOK => ServeOK
BY DEF RoutingTypeOK, ServeOK, Between

LEMMA PcsApart == Handling \cap Between = {}
BY DEF Handling, Between, Leaving

LEMMA HandlingTyped ==
    ASSUME RoutingTypeOK, NEW c \in Conn, serve[c].pc \in Handling
    PROVE  /\ serve[c].req \in Request /\ SourceOf[serve[c].req] = c
           /\ TargetOf[serve[c].req] \in Conn
BY ServeTyped, PcsApart DEF ServeOK

LEMMA GoesOn ==
    ASSUME ServeOK, NEW c \in Conn, NEW pc, Goes(c, pc),
           \/ serve[c].pc \in Handling /\ pc \in Handling
           \/ serve[c].pc \in Between /\ pc \in Between
    PROVE  ServeOK'
<1>1. serve' = [serve EXCEPT ![c].pc = pc] /\ serve'[c].pc = pc
  BY DEF Goes, ServeOK
<1>2. CASE serve[c].pc \in Handling /\ pc \in Handling
  BY <1>1, <1>2, PcsApart DEF ServeOK
<1>3. CASE serve[c].pc \in Between /\ pc \in Between
  BY <1>1, <1>3, PcsApart DEF ServeOK
<1> QED
  BY <1>2, <1>3

LEMMA RestsOrCloses ==
    ASSUME ServeOK, NEW c \in Conn, Rests(c) \/ Closes(c)
    PROVE  ServeOK'
<1>1. \E pc \in Between :
         serve' = [serve EXCEPT ![c] = [pc |-> pc, req |-> None]]
  BY DEF Rests, Closes, Idle, Between, Leaving
<1> QED
  BY <1>1, PcsApart DEF ServeOK

LEMMA RespondTyped ==
    ASSUME RoutingTypeOK, NEW r \in Request, Respond(r)
    PROVE  responses' \in [Request -> Nat]
BY DEF RoutingTypeOK, Respond

LEMMA TakesOnTyped ==
    ASSUME RoutingTypeOK, NEW g \in Goroutine,
           NEW answer \in SUBSET Request, NEW release \in SUBSET Request,
           TakesOn(g, answer, release)
    PROVE  todo' \in [Goroutine -> [answer : SUBSET Request,
                                    release : SUBSET Request]]
BY DEF RoutingTypeOK, TakesOn

(* The parts of the type invariant that most steps leave alone.            *)
AuthorityOK ==
    /\ granted \subseteq Request /\ registered \subseteq Conn
    /\ lease \in [Conn -> {"held", "ended", "none"}]
    /\ revoker \subseteq Request /\ lane \in Conn \cup {None}
RoutesOK ==
    /\ sampled \subseteq Conn /\ table \subseteq Request
    /\ received \subseteq Request /\ dispatched \subseteq Request
    /\ missed \subseteq Request
FramesOK ==
    /\ inflight \subseteq Request /\ open \subseteq Conn
    /\ todo \in [Goroutine -> [answer : SUBSET Request,
                               release : SUBSET Request]]
    /\ responses \in [Request -> Nat]

LEMMA RoutingParts ==
    /\ RoutingTypeOK <=> ServeOK /\ AuthorityOK /\ RoutesOK /\ FramesOK
    /\ RoutingTypeOK' <=> ServeOK' /\ AuthorityOK' /\ RoutesOK' /\ FramesOK'
<1>1. RoutingTypeOK <=> ServeOK /\ AuthorityOK /\ RoutesOK /\ FramesOK
  BY Zenon
     DEF RoutingTypeOK, ServeOK, AuthorityOK, RoutesOK, FramesOK, Between
<1>2. RoutingTypeOK' <=> ServeOK' /\ AuthorityOK' /\ RoutesOK' /\ FramesOK'
  BY Zenon
     DEF RoutingTypeOK, ServeOK, AuthorityOK, RoutesOK, FramesOK, Between
<1> QED
  BY <1>1, <1>2

LEMMA AuthorityStill ==
    ASSUME AuthorityOK, UNCHANGED <<authority, revoker, lane>>
    PROVE  AuthorityOK'
BY DEF AuthorityOK, authority

LEMMA RoutesStill ==
    ASSUME RoutesOK, UNCHANGED <<routes, received>> PROVE RoutesOK'
BY DEF RoutesOK, routes

LEMMA FramesStill ==
    ASSUME FramesOK, UNCHANGED <<frames, todo, inflight>> PROVE FramesOK'
BY DEF FramesOK, frames

LEMMA HandlingStepTyped ==
    ASSUME RoutingTypeOK, OperationTypeOK, NEW c \in Conn,
           \/ Route(c) \/ CheckResource(c) \/ Reserve(c) \/ ValidateCreate(c)
           \/ CreateOperation(c) \/ Publish(c) \/ FailOperation(c) \/ Refuse(c)
    PROVE  RoutingTypeOK'
<1> USE RoutingParts
<1>1. CASE Route(c) \/ CheckResource(c) \/ ValidateCreate(c)
  <2>1. serve[c].pc \in Handling /\ \E pc \in Handling : Goes(c, pc)
    BY <1>1 DEF Route, CheckResource, ValidateCreate, At, Handling
  <2>2. UNCHANGED <<authority, revoker, lane, routes, received, frames, todo,
                    inflight>>
    BY <1>1 DEF Route, CheckResource, ValidateCreate, others
  <2> QED
    BY <2>1, <2>2, GoesOn, AuthorityStill, RoutesStill, FramesStill
<1>2. CASE Reserve(c)
  <2>1. serve[c].pc \in Handling /\ \E pc \in Handling : Goes(c, pc)
    BY <1>2 DEF Reserve, At, Handling
  <2>2. UNCHANGED <<authority, revoker, lane, routes, received, frames, todo>>
    BY <1>2 DEF Reserve, others
  <2>3. inflight' \subseteq Request
    BY <1>2, <2>1, HandlingTyped DEF Reserve, FramesOK
  <2>4. FramesOK'
    BY <2>2, <2>3 DEF FramesOK, frames
  <2> QED
    BY <2>1, <2>2, <2>4, GoesOn, AuthorityStill, RoutesStill
<1>3. CASE CreateOperation(c) \/ FailOperation(c)
  <2>1. serve[c].pc \in Handling /\ \E pc \in Handling : Goes(c, pc)
    BY <1>3 DEF CreateOperation, FailOperation, At, Handling
  <2>2. UNCHANGED <<authority, revoker, lane, routes, received, frames, todo,
                    inflight>>
    BY <1>3 DEF CreateOperation, FailOperation, others
  <2> QED
    BY <2>1, <2>2, GoesOn, AuthorityStill, RoutesStill, FramesStill
<1>4. CASE Publish(c)
  <2>1. serve[c].pc \in Handling /\ serve[c].req \in Request
    BY <1>4, HandlingTyped DEF Publish, At, Handling
  <2>2. Rests(c) \/ \E pc \in Handling : Goes(c, pc)
    BY <1>4 DEF Publish, Unpublished, Handling
  <2>3. UNCHANGED <<authority, revoker, lane, received, frames, todo, inflight>>
    BY <1>4 DEF Publish, others
  <2>4. RoutesOK'
    BY <1>4, <2>1, <2>3 DEF Publish, RoutesOK
  <2> QED
    BY <2>1, <2>2, <2>3, <2>4, GoesOn, RestsOrCloses, AuthorityStill,
       FramesStill
<1>5. CASE Refuse(c)
  <2>1. serve[c].req \in Request
    BY <1>5, HandlingTyped DEF Refuse, At, Handling
  <2>2. UNCHANGED <<authority, revoker, lane, table, dispatched, missed, received,
                    open, todo>>
    BY <1>5 DEF Refuse, others
  <2>3. responses' \in [Request -> Nat]
    BY <1>5, <2>1, RespondTyped DEF Refuse
  <2>4. sampled' = sampled \ {c} /\ inflight' \subseteq inflight
    BY <1>5 DEF Refuse, ReleaseRequest
  <2>5. RoutesOK' /\ FramesOK'
    BY <2>2, <2>3, <2>4 DEF RoutesOK, FramesOK
  <2>6. ServeOK'
    BY <1>5, RestsOrCloses DEF Refuse
  <2> QED
    BY <2>2, <2>5, <2>6, AuthorityStill
<1> QED
  BY <1>1, <1>2, <1>3, <1>4, <1>5

LEMMA RevokeTyped ==
    ASSUME RoutesOK, FramesOK, NEW g \in Goroutine, NEW rs \in SUBSET Request,
           Revoke(g, rs), UNCHANGED <<received, frames, inflight>>
    PROVE  RoutesOK' /\ FramesOK'
BY DEF RoutesOK, FramesOK, Revoke, TakesOn, frames

LEMMA ResultStepTyped ==
    ASSUME RoutingTypeOK, NEW c \in Conn, NEW r \in Request,
           NEW g \in Goroutine,
           \/ Receive(c, r) \/ DispatchResult(c, r)
           \/ Answer(g, r) \/ Release(g, r)
    PROVE  RoutingTypeOK'
<1> USE RoutingParts
<1>1. CASE Receive(c, r)
  <2>1. serve' = [serve EXCEPT ![c] = [pc |-> "route", req |-> r]]
    BY <1>1 DEF Receive
  <2>2. ServeOK'
    BY <1>1, <2>1, PcsApart DEF ServeOK, Receive, Handling
  <2>3. UNCHANGED <<authority, revoker, lane, table, dispatched, missed, frames, todo,
                    inflight>>
    BY <1>1 DEF Receive, others
  <2>4. RoutesOK'
    BY <1>1, <2>3 DEF Receive, RoutesOK
  <2> QED
    BY <2>2, <2>3, <2>4, AuthorityStill, FramesStill
<1>2. CASE DispatchResult(c, r)
  <2>1. serve[c].pc \in Between
    BY <1>2 DEF DispatchResult, At, Between
  <2>2. Closes(c) \/ Goes(c, "answering")
    BY <1>2 DEF DispatchResult
  <2>3. ServeOK'
    BY <2>1, <2>2, GoesOn, RestsOrCloses DEF Between
  <2>4. UNCHANGED <<authority, sampled, dispatched, missed, frames, revoker, lane,
                    inflight, received>>
    BY <1>2 DEF DispatchResult
  <2>5. todo' = todo \/ TakesOn(c, {r}, {})
    BY <1>2 DEF DispatchResult
  <2>6. table' \subseteq table
    BY <1>2 DEF DispatchResult, Complete
  <2>7. RoutesOK' /\ FramesOK'
    BY <2>4, <2>5, <2>6 DEF RoutesOK, FramesOK, TakesOn, frames, Goroutine
  <2> QED
    BY <2>3, <2>4, <2>7, AuthorityStill
<1>3. CASE Answer(g, r)
  <2>1. UNCHANGED <<authority, routes, open, revoker, lane, received>>
    BY <1>3 DEF Answer
  <2>2. todo' = [todo EXCEPT ![g].answer = @ \ {r}] /\ ReleaseRequest(r)
    BY <1>3 DEF Answer
  <2>3. FramesOK'
    BY <1>3, <2>1, <2>2, RespondTyped DEF Answer, FramesOK, ReleaseRequest
  <2>4. ServeOK'
    BY <1>3, RestsOrCloses DEF Answer, ServeOK
  <2> QED
    BY <2>1, <2>3, <2>4, AuthorityStill, RoutesStill
<1>4. CASE Release(g, r)
  <2>1. UNCHANGED <<authority, routes, frames, revoker, lane, serve, received>>
    BY <1>4 DEF Release
  <2>2. todo' = [todo EXCEPT ![g].release = @ \ {r}] /\ ReleaseRequest(r)
    BY <1>4 DEF Release
  <2>3. FramesOK'
    BY <2>1, <2>2 DEF FramesOK, ReleaseRequest, frames
  <2>4. ServeOK'
    BY <2>1 DEF ServeOK
  <2> QED
    BY <2>1, <2>3, <2>4, AuthorityStill, RoutesStill
<1> QED
  BY <1>1, <1>2, <1>3, <1>4

LEMMA RevocationStepTyped ==
    ASSUME RoutingTypeOK, NEW c \in Conn, NEW rs \in SUBSET Request,
           \/ Withdraw(rs) \/ UnregisterEndpoint(c)
           \/ RevokeEndpoint(c) \/ LeaseEnds(c) \/ ForgetLease(c)
    PROVE  RoutingTypeOK'
<1> USE RoutingParts
<1>1. CASE Withdraw(rs)
  <2>1. UNCHANGED <<registered, lease, routes, frames, lane, todo, inflight,
                    serve, received>>
    BY <1>1 DEF Withdraw
  <2>2. granted' \subseteq granted /\ revoker' = rs
    BY <1>1 DEF Withdraw
  <2>3. ServeOK' /\ AuthorityOK'
    BY <2>1, <2>2 DEF ServeOK, AuthorityOK
  <2> QED
    BY <2>1, <2>3, RoutesStill, FramesStill
<1>2. CASE UnregisterEndpoint(c)
  <2>1. UNCHANGED <<granted, lease, revoker, lane, routes, frames, todo,
                    inflight, received>>
    BY <1>2 DEF UnregisterEndpoint, others
  <2>2. registered' \subseteq registered /\ Goes(c, "unregister")
        /\ serve[c].pc = "idle"
    BY <1>2 DEF UnregisterEndpoint, At
  <2>3. ServeOK' /\ AuthorityOK'
    BY <2>1, <2>2, GoesOn DEF AuthorityOK, Between
  <2> QED
    BY <2>1, <2>3, RoutesStill, FramesStill
<1>3. CASE RevokeEndpoint(c)
  <2>1. UNCHANGED <<authority, frames, revoker, lane, inflight, received>>
    BY <1>3 DEF RevokeEndpoint
  <2>2. Rests(c) /\ Revoke(c, {r \in Request : TargetOf[r] = c})
    BY <1>3 DEF RevokeEndpoint
  <2>3. RoutesOK' /\ FramesOK'
    BY <2>1, <2>2, RevokeTyped DEF Goroutine
  <2> QED
    BY <2>1, <2>2, <2>3, RestsOrCloses, AuthorityStill
<1>4. CASE LeaseEnds(c)
  <2>1. UNCHANGED <<granted, registered, routes, frames, revoker, lane, todo,
                    inflight, serve, received>>
    BY <1>4 DEF LeaseEnds, others
  <2>2. lease' = [lease EXCEPT ![c] = "ended"]
    BY <1>4 DEF LeaseEnds
  <2>3. ServeOK' /\ AuthorityOK'
    BY <2>1, <2>2 DEF ServeOK, AuthorityOK
  <2> QED
    BY <2>1, <2>3, RoutesStill, FramesStill
<1>5. CASE ForgetLease(c)
  <2>1. UNCHANGED <<granted, registered, routes, frames, revoker, todo,
                    inflight, serve, received>>
    BY <1>5 DEF ForgetLease
  <2>2. lease' = [lease EXCEPT ![c] = "none"] /\ lane' = c
    BY <1>5 DEF ForgetLease
  <2>3. ServeOK' /\ AuthorityOK'
    BY <2>1, <2>2 DEF ServeOK, AuthorityOK
  <2> QED
    BY <2>1, <2>3, RoutesStill, FramesStill
<1> QED
  BY <1>1, <1>2, <1>3, <1>4, <1>5

LEMMA LaneStepTyped ==
    ASSUME RoutingTypeOK, RevokeRoutes \/ RevokeControl \/ Reap
    PROVE  RoutingTypeOK'
<1> USE RoutingParts
<1>1. CASE RevokeRoutes
  <2>1. UNCHANGED <<authority, frames, lane, inflight, serve, received>>
    BY <1>1 DEF RevokeRoutes
  <2>2. Revoke("revoker", revoker) /\ revoker' = {}
    BY <1>1 DEF RevokeRoutes
  <2>3. RoutesOK' /\ FramesOK'
    BY <2>1, <2>2, RevokeTyped DEF AuthorityOK, Goroutine
  <2>4. ServeOK' /\ AuthorityOK'
    BY <2>1, <2>2 DEF ServeOK, AuthorityOK, authority
  <2> QED
    BY <2>3, <2>4
<1>2. CASE RevokeControl
  <2>1. UNCHANGED <<authority, frames, revoker, inflight, serve, received>>
    BY <1>2 DEF RevokeControl
  <2>2. Revoke("lane", UnderLease(lane)) /\ lane' = None
    BY <1>2 DEF RevokeControl
  <2>3. UnderLease(lane) \in SUBSET Request
    BY DEF UnderLease
  <2>4. RoutesOK' /\ FramesOK'
    BY <2>1, <2>2, <2>3, RevokeTyped DEF Goroutine
  <2>5. ServeOK' /\ AuthorityOK'
    BY <2>1, <2>2 DEF ServeOK, AuthorityOK, authority
  <2> QED
    BY <2>4, <2>5
<1>3. CASE Reap
  <2>1. UNCHANGED <<authority, sampled, dispatched, missed, frames, revoker, lane,
                    inflight, serve, received>>
    BY <1>3 DEF Reap
  <2>2. table' \subseteq table /\ TakesOn("reaper", table \cap past, {})
    BY <1>3 DEF Reap
  <2>3. RoutesOK' /\ FramesOK' /\ ServeOK'
    BY <2>1, <2>2 DEF RoutesOK, FramesOK, ServeOK, TakesOn, frames, Goroutine
  <2> QED
    BY <2>1, <2>3, AuthorityStill
<1> QED
  BY <1>1, <1>2, <1>3

LEMMA TeardownStepTyped ==
    ASSUME RoutingTypeOK, NEW c \in Conn,
           \/ HangUp(c) \/ DispatchConnClosed(c) \/ RevokeConn(c)
           \/ RevokeOwnControl(c) \/ EndpointsConnClosed(c) \/ CloseOutbox(c)
           \/ OutboxCloses(c)
    PROVE  RoutingTypeOK'
<1> USE RoutingParts
<1>1. CASE HangUp(c)
  <2>1. UNCHANGED <<authority, routes, frames, revoker, lane, todo, inflight,
                    received>>
    BY <1>1 DEF HangUp, others
  <2>2. Closes(c)
    BY <1>1 DEF HangUp
  <2> QED
    BY <2>1, <2>2, RestsOrCloses, AuthorityStill, RoutesStill, FramesStill
<1>2. CASE DispatchConnClosed(c)
  <2>1. UNCHANGED <<authority, sampled, dispatched, missed, frames, revoker, lane,
                    inflight, received>>
    BY <1>2 DEF DispatchConnClosed
  <2>2. table' \subseteq table
    BY <1>2 DEF DispatchConnClosed
  <2>3. PICK answer \in SUBSET table, release \in SUBSET table :
           TakesOn(c, answer, release)
    BY <1>2 DEF DispatchConnClosed
  <2>4. RoutesOK' /\ FramesOK'
    BY <2>1, <2>2, <2>3 DEF RoutesOK, FramesOK, TakesOn, frames, Goroutine
  <2>5. serve[c].pc \in Between /\ \E pc \in Between : Goes(c, pc)
    BY <1>2 DEF DispatchConnClosed, At, Between, Leaving
  <2>6. ServeOK'
    BY <2>5, GoesOn
  <2> QED
    BY <2>1, <2>4, <2>6, AuthorityStill
<1>3. CASE RevokeConn(c)
  <2>1. UNCHANGED <<granted, registered, routes, frames, revoker, lane, todo,
                    inflight, received>>
    BY <1>3 DEF RevokeConn, others
  <2>2. lease' = lease \/ lease' = [lease EXCEPT ![c] = "none"]
    BY <1>3 DEF RevokeConn
  <2>3. serve[c].pc \in Between /\ \E pc \in Between : Goes(c, pc)
    BY <1>3 DEF RevokeConn, At, Between, Leaving
  <2>4. ServeOK' /\ AuthorityOK'
    BY <2>1, <2>2, <2>3, GoesOn DEF AuthorityOK
  <2> QED
    BY <2>1, <2>4, RoutesStill, FramesStill
<1>4. CASE RevokeOwnControl(c)
  <2>1. UNCHANGED <<authority, frames, revoker, lane, inflight, received>>
    BY <1>4 DEF RevokeOwnControl
  <2>2. serve[c].pc \in Between /\ \E pc \in Between : Goes(c, pc)
    BY <1>4 DEF RevokeOwnControl, At, Between, Leaving
  <2>3. ServeOK'
    BY <2>2, GoesOn
  <2>4. \E rs \in SUBSET Request : Revoke(c, rs)
    BY <1>4 DEF RevokeOwnControl, UnderLease
  <2>5. RoutesOK' /\ FramesOK'
    BY <2>1, <2>4, RevokeTyped DEF Goroutine
  <2> QED
    BY <2>1, <2>3, <2>5, AuthorityStill
<1>5. CASE EndpointsConnClosed(c)
  <2>1. UNCHANGED <<granted, lease, revoker, lane, routes, frames, todo,
                    inflight, received>>
    BY <1>5 DEF EndpointsConnClosed, others
  <2>2. /\ serve[c].pc = "close endpoint" /\ Goes(c, "close outbox")
        /\ registered' \subseteq registered
    BY <1>5 DEF EndpointsConnClosed, At
  <2>3. ServeOK'
    BY <2>2, GoesOn DEF Between, Leaving
  <2>4. AuthorityOK'
    BY <2>1, <2>2 DEF AuthorityOK
  <2> QED
    BY <2>1, <2>3, <2>4, RoutesStill, FramesStill
<1>6. CASE CloseOutbox(c)
  <2>1. UNCHANGED <<authority, routes, responses, revoker, lane, todo,
                    inflight, received>>
    BY <1>6 DEF CloseOutbox, others
  <2>2. /\ serve[c].pc = "close outbox" /\ Goes(c, "gone")
        /\ open' \subseteq open
    BY <1>6 DEF CloseOutbox, At
  <2>3. ServeOK'
    BY <2>2, GoesOn DEF Between, Leaving
  <2>4. FramesOK'
    BY <2>1, <2>2 DEF FramesOK
  <2> QED
    BY <2>1, <2>3, <2>4, AuthorityStill, RoutesStill
<1>7. CASE OutboxCloses(c)
  <2>1. /\ UNCHANGED <<authority, routes, responses, revoker, lane, todo,
                       inflight, serve, received>>
        /\ open' \subseteq open
    BY <1>7 DEF OutboxCloses, others
  <2>2. FramesOK' /\ ServeOK'
    BY <2>1 DEF FramesOK, ServeOK
  <2> QED
    BY <2>1, <2>2, AuthorityStill, RoutesStill
<1> QED
  BY <1>1, <1>2, <1>3, <1>4, <1>5, <1>6, <1>7

----------------------------------------------------------------------------
LEMMA InitTyped == Init => TypeOK
<1> SUFFICES ASSUME Init PROVE TypeOK
  OBVIOUS
<1>1. OperationTypeOK
  BY DEF Init, OperationInit, OperationTypeOK
<1>2. ServeOK
  BY PcsApart DEF Init, RoutingInit, ServeOK, Idle, Between
<1>3. AuthorityOK /\ RoutesOK /\ FramesOK
  BY DEF Init, RoutingInit, AuthorityOK, RoutesOK, FramesOK, Nothing
<1> QED
  BY <1>1, <1>2, <1>3, RoutingParts DEF TypeOK

LEMMA RoutingStepTyped ==
    ASSUME OperationTypeOK, RoutingTypeOK, [Next]_vars
    PROVE  RoutingTypeOK'
<1>1. CASE Operations \/ UNCHANGED vars
  <2>1. UNCHANGED routingVars
    BY <1>1 DEF Operations, vars
  <2> QED
    BY <2>1 DEF routingVars, RoutingTypeOK
<1>2. ASSUME NEW c \in Conn, NEW r \in Request,
             Receive(c, r) \/ DispatchResult(c, r)
      PROVE  RoutingTypeOK'
  BY <1>2, ResultStepTyped DEF Goroutine
<1>3. ASSUME NEW c \in Conn, ServeStep(c) PROVE RoutingTypeOK'
  BY <1>3, HandlingStepTyped, RevocationStepTyped, TeardownStepTyped
     DEF ServeStep
<1>4. ASSUME NEW c \in Conn,
             \/ UnregisterEndpoint(c) \/ HangUp(c) \/ LeaseEnds(c)
             \/ ForgetLease(c) \/ OutboxCloses(c)
      PROVE  RoutingTypeOK'
  BY <1>4, RevocationStepTyped, TeardownStepTyped
<1>5. ASSUME NEW g \in Goroutine, NEW r \in Request,
             Answer(g, r) \/ Release(g, r)
      PROVE  RoutingTypeOK'
  BY <1>5, ResultStepTyped
<1>6. CASE RevokeRoutes \/ RevokeControl \/ Reap
  BY <1>6, LaneStepTyped
<1>7. ASSUME NEW rs \in Withdrawal, Withdraw(rs) PROVE RoutingTypeOK'
  <2>1. rs \in SUBSET Request
    OBVIOUS
  <2>2. CASE rs = {}
    BY <1>7, <2>2 DEF Withdraw
  <2>3. CASE rs # {}
    <3>1. \E c \in Conn : TRUE
      BY <2>1, <2>3
    <3> QED
      BY <1>7, <2>1, <3>1, RevocationStepTyped
  <2> QED
    BY <2>2, <2>3
<1> QED
  BY <1>1, <1>2, <1>3, <1>4, <1>5, <1>6, <1>7 DEF Next

(* Beside Operations, only handleRequest touches them.                     *)
LEMMA OperationsMove ==
    ASSUME [Next]_vars
    PROVE  \/ Operations
           \/ \E c \in Conn : CreateOperation(c) \/ FailOperation(c)
           \/ UNCHANGED operationVars
<1>1. ASSUME NEW c \in Conn, NEW r,
             Receive(c, r) \/ DispatchResult(c, r)
      PROVE  UNCHANGED operationVars
  BY <1>1 DEF Receive, DispatchResult
<1>2. ASSUME NEW c \in Conn,
             \/ Route(c) \/ CheckResource(c) \/ Reserve(c)
             \/ ValidateCreate(c) \/ Publish(c) \/ Refuse(c)
             \/ RevokeEndpoint(c)
      PROVE  UNCHANGED operationVars
  BY <1>2 DEF Route, CheckResource, Reserve, ValidateCreate, Publish, Refuse,
              RevokeEndpoint
<1>3. ASSUME NEW c \in Conn,
             \/ DispatchConnClosed(c) \/ RevokeConn(c) \/ RevokeOwnControl(c)
             \/ EndpointsConnClosed(c) \/ CloseOutbox(c)
             \/ UnregisterEndpoint(c) \/ HangUp(c) \/ LeaseEnds(c)
             \/ ForgetLease(c) \/ OutboxCloses(c)
      PROVE  UNCHANGED operationVars
  BY <1>3 DEF DispatchConnClosed, RevokeConn, RevokeOwnControl,
              EndpointsConnClosed, CloseOutbox, UnregisterEndpoint, HangUp,
              LeaseEnds, ForgetLease, OutboxCloses
<1>4. ASSUME NEW g, NEW r, Answer(g, r) \/ Release(g, r)
      PROVE  UNCHANGED operationVars
  BY <1>4 DEF Answer, Release
<1>5. ASSUME NEW rs,
             Reap \/ RevokeRoutes \/ RevokeControl \/ Withdraw(rs)
      PROVE  UNCHANGED operationVars
  BY <1>5 DEF Reap, RevokeRoutes, RevokeControl, Withdraw
<1>6. CASE UNCHANGED vars
  BY <1>6 DEF vars
<1>7. ASSUME NEW c \in Conn, ServeStep(c)
      PROVE  CreateOperation(c) \/ FailOperation(c) \/ UNCHANGED operationVars
  BY <1>2, <1>3, <1>7, Zenon DEF ServeStep
<1> QED
  BY <1>1, <1>3, <1>4, <1>5, <1>6, <1>7, Zenon DEF Next

LEMMA OperationStepTyped ==
    ASSUME TypeOK, [Next]_vars
    PROVE  OperationTypeOK'
<1>1. OperationTypeOK /\ RoutingTypeOK
  BY DEF TypeOK
<1>2. ASSUME NEW c \in Conn, CreateOperation(c) PROVE OperationTypeOK'
  <2>1. serve[c].pc \in Handling
    BY <1>2 DEF CreateOperation, At, Handling
  <2>2. PICK r \in OperationId : r = serve[c].req /\ TargetOf[r] \in Conn
    BY <1>1, <2>1, HandlingTyped
  <2>3. \/ Create(r, c, TargetOf[r], r \in Controlled,
                  IF r \in Controlled THEN LeaseEpoch ELSE 0)
        \/ UNCHANGED operationVars
    BY <1>2, <2>2 DEF CreateOperation
  <2>4. CASE UNCHANGED operationVars
    BY <1>1, <2>4 DEF operationVars, OperationTypeOK
  <2> QED
    BY <1>1, <2>2, <2>3, <2>4, CreateTyped
<1>3. ASSUME NEW c \in Conn, FailOperation(c) PROVE OperationTypeOK'
  <2>1. serve[c].pc \in Handling
    BY <1>3 DEF FailOperation, At, Handling
  <2>2. PICK r \in OperationId : r = serve[c].req
    BY <1>1, <2>1, HandlingTyped
  <2>3. ReportTerminal(r, "FAILED") \/ UNCHANGED operationVars
    BY <1>3, <2>2 DEF FailOperation
  <2>4. CASE UNCHANGED operationVars
    BY <1>1, <2>4 DEF operationVars, OperationTypeOK
  <2> QED
    BY <1>1, <2>2, <2>3, <2>4, ReportTerminalTyped DEF TerminalState
<1>4. CASE UNCHANGED operationVars
  BY <1>1, <1>4 DEF operationVars, OperationTypeOK
<1> QED
  BY <1>1, <1>2, <1>3, <1>4, OperationsTyped, OperationsMove

(* The types are right in every state, for any number of connections,      *)
(* requests and boundaries. In particular what a connection's goroutine    *)
(* works on is its own request, whatever it is interrupted by.             *)
THEOREM RoutingTyped == Spec => []TypeOK
<1>1. TypeOK /\ [Next]_vars => TypeOK'
  BY OperationStepTyped, RoutingStepTyped DEF TypeOK
<1> QED
  BY InitTyped, <1>1, PTL DEF Spec

HIDE DEF OperationAssumption, RoutingAssumption

----------------------------------------------------------------------------
(* Which steps move which part of the state.                               *)
LEMMA RegistrationMoves ==
    ASSUME [Next]_vars
    PROVE  \/ UNCHANGED registered
           \/ \E c \in Conn : UnregisterEndpoint(c) \/ EndpointsConnClosed(c)
<1>1. ASSUME NEW c \in Conn, NEW r, Receive(c, r) \/ DispatchResult(c, r)
      PROVE  UNCHANGED registered
  BY <1>1 DEF Receive, DispatchResult, authority
<1>2. ASSUME NEW c \in Conn,
             \/ Route(c) \/ CheckResource(c) \/ Reserve(c)
             \/ ValidateCreate(c) \/ CreateOperation(c) \/ Publish(c)
             \/ FailOperation(c) \/ Refuse(c) \/ RevokeEndpoint(c)
      PROVE  UNCHANGED registered
  BY <1>2 DEF Route, CheckResource, Reserve, ValidateCreate, CreateOperation,
              Publish, FailOperation, Refuse, RevokeEndpoint, authority
<1>3. ASSUME NEW c \in Conn,
             \/ DispatchConnClosed(c) \/ RevokeConn(c) \/ RevokeOwnControl(c)
             \/ CloseOutbox(c) \/ HangUp(c) \/ LeaseEnds(c) \/ ForgetLease(c)
             \/ OutboxCloses(c)
      PROVE  UNCHANGED registered
  BY <1>3 DEF DispatchConnClosed, RevokeConn, RevokeOwnControl, CloseOutbox,
              HangUp, LeaseEnds, ForgetLease, OutboxCloses, authority
<1>4. ASSUME NEW g, NEW r, Answer(g, r) \/ Release(g, r)
      PROVE  UNCHANGED registered
  BY <1>4 DEF Answer, Release, authority
<1>5. ASSUME NEW rs,
             Reap \/ RevokeRoutes \/ RevokeControl \/ Withdraw(rs)
      PROVE  UNCHANGED registered
  BY <1>5 DEF Reap, RevokeRoutes, RevokeControl, Withdraw, authority
<1>6. CASE Operations \/ UNCHANGED vars
  BY <1>6 DEF Operations, vars, routingVars
<1>7. ASSUME NEW c \in Conn, ServeStep(c)
      PROVE  EndpointsConnClosed(c) \/ UNCHANGED registered
  BY <1>2, <1>3, <1>7, Zenon DEF ServeStep
<1> QED
  BY <1>1, <1>3, <1>4, <1>5, <1>6, <1>7, Zenon DEF Next

LEMMA GrantsMove ==
    ASSUME [Next]_vars
    PROVE  \/ UNCHANGED <<granted, revoker>>
           \/ RevokeRoutes
           \/ \E rs \in Withdrawal : Withdraw(rs)
<1>1. ASSUME NEW c \in Conn, NEW r, Receive(c, r) \/ DispatchResult(c, r)
      PROVE  UNCHANGED <<granted, revoker>>
  BY <1>1 DEF Receive, DispatchResult, authority, others
<1>2. ASSUME NEW c \in Conn,
             \/ Route(c) \/ CheckResource(c) \/ Reserve(c)
             \/ ValidateCreate(c) \/ CreateOperation(c) \/ Publish(c)
             \/ FailOperation(c) \/ Refuse(c) \/ RevokeEndpoint(c)
      PROVE  UNCHANGED <<granted, revoker>>
  BY <1>2 DEF Route, CheckResource, Reserve, ValidateCreate, CreateOperation,
              Publish, FailOperation, Refuse, RevokeEndpoint, authority, others
<1>3. ASSUME NEW c \in Conn,
             \/ DispatchConnClosed(c) \/ RevokeConn(c) \/ RevokeOwnControl(c)
             \/ EndpointsConnClosed(c) \/ UnregisterEndpoint(c)
             \/ CloseOutbox(c) \/ HangUp(c) \/ LeaseEnds(c) \/ ForgetLease(c)
             \/ OutboxCloses(c)
      PROVE  UNCHANGED <<granted, revoker>>
  BY <1>3 DEF DispatchConnClosed, RevokeConn, RevokeOwnControl, CloseOutbox,
              EndpointsConnClosed, UnregisterEndpoint, HangUp, LeaseEnds,
              ForgetLease, OutboxCloses, authority, others
<1>4. ASSUME NEW g, NEW r, Answer(g, r) \/ Release(g, r)
      PROVE  UNCHANGED <<granted, revoker>>
  BY <1>4 DEF Answer, Release, authority
<1>5. CASE Reap \/ RevokeControl
  BY <1>5 DEF Reap, RevokeControl, authority
<1>6. CASE Operations \/ UNCHANGED vars
  BY <1>6 DEF Operations, vars, routingVars
<1>7. ASSUME NEW c \in Conn, ServeStep(c)
      PROVE  UNCHANGED <<granted, revoker>>
  BY <1>2, <1>3, <1>7, Zenon DEF ServeStep
<1> QED
  BY <1>1, <1>3, <1>4, <1>5, <1>6, <1>7, Zenon DEF Next

LEMMA LeasesMove ==
    ASSUME [Next]_vars
    PROVE  \/ UNCHANGED <<lease, lane>>
           \/ RevokeControl
           \/ \E c \in Conn : LeaseEnds(c) \/ ForgetLease(c) \/ RevokeConn(c)
<1>1. ASSUME NEW c \in Conn, NEW r, Receive(c, r) \/ DispatchResult(c, r)
      PROVE  UNCHANGED <<lease, lane>>
  BY <1>1 DEF Receive, DispatchResult, authority, others
<1>2. ASSUME NEW c \in Conn,
             \/ Route(c) \/ CheckResource(c) \/ Reserve(c)
             \/ ValidateCreate(c) \/ CreateOperation(c) \/ Publish(c)
             \/ FailOperation(c) \/ Refuse(c) \/ RevokeEndpoint(c)
      PROVE  UNCHANGED <<lease, lane>>
  BY <1>2 DEF Route, CheckResource, Reserve, ValidateCreate, CreateOperation,
              Publish, FailOperation, Refuse, RevokeEndpoint, authority, others
<1>3. ASSUME NEW c \in Conn,
             \/ DispatchConnClosed(c) \/ RevokeOwnControl(c)
             \/ EndpointsConnClosed(c) \/ UnregisterEndpoint(c)
             \/ CloseOutbox(c) \/ HangUp(c) \/ OutboxCloses(c)
      PROVE  UNCHANGED <<lease, lane>>
  BY <1>3 DEF DispatchConnClosed, RevokeOwnControl, CloseOutbox,
              EndpointsConnClosed, UnregisterEndpoint, HangUp, OutboxCloses,
              authority, others
<1>4. ASSUME NEW g, NEW r, Answer(g, r) \/ Release(g, r)
      PROVE  UNCHANGED <<lease, lane>>
  BY <1>4 DEF Answer, Release, authority
<1>5. ASSUME NEW rs, Reap \/ RevokeRoutes \/ Withdraw(rs)
      PROVE  UNCHANGED <<lease, lane>>
  BY <1>5 DEF Reap, RevokeRoutes, Withdraw, authority
<1>6. CASE Operations \/ UNCHANGED vars
  BY <1>6 DEF Operations, vars, routingVars
<1>7. ASSUME NEW c \in Conn, ServeStep(c)
      PROVE  RevokeConn(c) \/ UNCHANGED <<lease, lane>>
  BY <1>2, <1>3, <1>7, Zenon DEF ServeStep
<1> QED
  BY <1>1, <1>3, <1>4, <1>5, <1>6, <1>7, Zenon DEF Next

(* Only handleRequest adds a route, and only with a sample that holds.     *)
Publishes(c) ==
    /\ Publish(c) /\ c \in sampled
    /\ table' = table \cup {serve[c].req}
    /\ dispatched' = dispatched \cup {serve[c].req} /\ Rests(c)
    /\ missed' = IF Swept(TargetOf[serve[c].req])
                 THEN missed \cup {serve[c].req} ELSE missed

FewerRoutes == table' \subseteq table /\ UNCHANGED <<dispatched, missed>>

LEMMA RoutesMove ==
    ASSUME [Next]_vars
    PROVE  \/ \E c \in Conn : Publishes(c)
           \/ FewerRoutes
<1>1. ASSUME NEW c \in Conn, NEW r, Receive(c, r) \/ DispatchResult(c, r)
      PROVE  FewerRoutes
  BY <1>1 DEF FewerRoutes, Receive, DispatchResult, Complete
<1>2. ASSUME NEW c \in Conn,
             \/ Route(c) \/ CheckResource(c) \/ Reserve(c)
             \/ ValidateCreate(c) \/ CreateOperation(c)
             \/ FailOperation(c) \/ Refuse(c) \/ RevokeEndpoint(c)
      PROVE  FewerRoutes
  BY <1>2 DEF FewerRoutes, Route, CheckResource, Reserve, ValidateCreate, CreateOperation,
              FailOperation, Refuse, RevokeEndpoint, routes, Revoke
<1>3. ASSUME NEW c \in Conn,
             \/ DispatchConnClosed(c) \/ RevokeConn(c) \/ RevokeOwnControl(c)
             \/ EndpointsConnClosed(c) \/ UnregisterEndpoint(c)
             \/ CloseOutbox(c) \/ HangUp(c) \/ LeaseEnds(c) \/ ForgetLease(c)
             \/ OutboxCloses(c)
      PROVE  FewerRoutes
  BY <1>3 DEF FewerRoutes, DispatchConnClosed, RevokeConn, RevokeOwnControl, CloseOutbox,
              EndpointsConnClosed, UnregisterEndpoint, HangUp, LeaseEnds,
              ForgetLease, OutboxCloses, routes, Revoke
<1>4. ASSUME NEW g, NEW r, Answer(g, r) \/ Release(g, r)
      PROVE  FewerRoutes
  BY <1>4 DEF FewerRoutes, Answer, Release, routes
<1>5. ASSUME NEW rs,
             Reap \/ RevokeRoutes \/ RevokeControl \/ Withdraw(rs)
      PROVE  FewerRoutes
  BY <1>5 DEF FewerRoutes, Reap, RevokeRoutes, RevokeControl, Withdraw, routes, Revoke
<1>6. CASE Operations \/ UNCHANGED vars
  BY <1>6 DEF FewerRoutes, Operations, vars, routingVars
<1>7. ASSUME NEW c \in Conn, Publish(c)
      PROVE  Publishes(c) \/ FewerRoutes
  BY <1>7 DEF FewerRoutes, Publish, Publishes, SampleHolds
<1>8. ASSUME NEW c \in Conn, ServeStep(c)
      PROVE  Publishes(c) \/ FewerRoutes
  BY <1>2, <1>3, <1>7, <1>8, Zenon DEF ServeStep
<1> QED
  BY <1>1, <1>3, <1>4, <1>5, <1>6, <1>8, Zenon DEF Next

(* A sample is taken when a request is received, and then only lost.       *)
LEMMA SamplesMove ==
    ASSUME [Next]_vars
    PROVE  \/ sampled' \subseteq sampled
           \/ \E c \in Conn, r \in Request : Receive(c, r)
<1>1. ASSUME NEW c \in Conn, NEW r, DispatchResult(c, r)
      PROVE  sampled' \subseteq sampled
  BY <1>1 DEF DispatchResult
<1>2. ASSUME NEW c \in Conn,
             \/ Route(c) \/ CheckResource(c) \/ Reserve(c)
             \/ ValidateCreate(c) \/ CreateOperation(c) \/ Publish(c)
             \/ FailOperation(c) \/ Refuse(c) \/ RevokeEndpoint(c)
      PROVE  sampled' \subseteq sampled
  BY <1>2 DEF Route, CheckResource, Reserve, ValidateCreate, CreateOperation,
              Publish, FailOperation, Refuse, RevokeEndpoint, routes, Revoke
<1>3. ASSUME NEW c \in Conn,
             \/ DispatchConnClosed(c) \/ RevokeConn(c) \/ RevokeOwnControl(c)
             \/ EndpointsConnClosed(c) \/ UnregisterEndpoint(c)
             \/ CloseOutbox(c) \/ HangUp(c) \/ LeaseEnds(c) \/ ForgetLease(c)
             \/ OutboxCloses(c)
      PROVE  sampled' \subseteq sampled
  BY <1>3 DEF DispatchConnClosed, RevokeConn, RevokeOwnControl, CloseOutbox,
              EndpointsConnClosed, UnregisterEndpoint, HangUp, LeaseEnds,
              ForgetLease, OutboxCloses, routes, Revoke
<1>4. ASSUME NEW g, NEW r, Answer(g, r) \/ Release(g, r)
      PROVE  sampled' \subseteq sampled
  BY <1>4 DEF Answer, Release, routes
<1>5. ASSUME NEW rs,
             Reap \/ RevokeRoutes \/ RevokeControl \/ Withdraw(rs)
      PROVE  sampled' \subseteq sampled
  BY <1>5 DEF Reap, RevokeRoutes, RevokeControl, Withdraw, routes, Revoke
<1>6. CASE Operations \/ UNCHANGED vars
  BY <1>6 DEF Operations, vars, routingVars
<1>7. ASSUME NEW c \in Conn, ServeStep(c)
      PROVE  sampled' \subseteq sampled
  BY <1>2, <1>3, <1>7, Zenon DEF ServeStep
<1> QED
  BY <1>1, <1>3, <1>4, <1>5, <1>6, <1>7, Zenon DEF Next

(* A goroutine's place moves by its own steps only.                        *)
Handles(c) ==
    \/ Route(c) \/ CheckResource(c) \/ Reserve(c) \/ ValidateCreate(c)
    \/ CreateOperation(c) \/ Publish(c) \/ FailOperation(c) \/ Refuse(c)

LeavesOrIdles(c) ==
    /\ serve[c].pc \in Between
    /\ \/ Closes(c) /\ serve[c].pc \in {"idle", "answering"}
       \/ Rests(c) /\ serve[c].pc = "answering"
       \/ Goes(c, "answering") /\ serve[c].pc = "idle"
       \/ Goes(c, "unregister") /\ serve[c].pc = "idle"
       \/ /\ \E pc \in Leaving \ {"close"} : Goes(c, pc)
          /\ serve[c].pc \in Leaving
          /\ serve[c].pc = "close" => DispatchConnClosed(c)

LEMMA ServeMoves ==
    ASSUME [Next]_vars
    PROVE  \/ UNCHANGED serve
           \/ \E c \in Conn :
                 \/ Handles(c) \/ RevokeEndpoint(c) \/ LeavesOrIdles(c)
                 \/ \E r \in Request : Receive(c, r)
<1>1. ASSUME NEW c \in Conn, NEW r, DispatchResult(c, r)
      PROVE  LeavesOrIdles(c)
  BY <1>1 DEF DispatchResult, At, LeavesOrIdles, Between
<1>2. ASSUME NEW c \in Conn,
             \/ DispatchConnClosed(c) \/ RevokeConn(c) \/ RevokeOwnControl(c)
             \/ EndpointsConnClosed(c) \/ CloseOutbox(c)
      PROVE  LeavesOrIdles(c)
  <2>1. serve[c].pc \in Leaving
    BY <1>2 DEF DispatchConnClosed, RevokeConn, RevokeOwnControl, CloseOutbox,
                EndpointsConnClosed, At, Leaving
  <2>2. \E pc \in Leaving \ {"close"} : Goes(c, pc)
    BY <1>2 DEF DispatchConnClosed, RevokeConn, RevokeOwnControl, CloseOutbox,
                EndpointsConnClosed, Leaving
  <2>3. serve[c].pc = "close" => DispatchConnClosed(c)
    BY <1>2 DEF RevokeConn, RevokeOwnControl, CloseOutbox,
                EndpointsConnClosed, At
  <2> QED
    BY <2>1, <2>2, <2>3 DEF LeavesOrIdles, Between
<1>3. ASSUME NEW c \in Conn, UnregisterEndpoint(c) \/ HangUp(c)
      PROVE  LeavesOrIdles(c)
  BY <1>3 DEF UnregisterEndpoint, HangUp, At, LeavesOrIdles, Between
<1>4. ASSUME NEW c \in Conn, LeaseEnds(c) \/ ForgetLease(c) \/ OutboxCloses(c)
      PROVE  UNCHANGED serve
  BY <1>4 DEF LeaseEnds, ForgetLease, OutboxCloses
<1>5. ASSUME NEW g \in Goroutine, NEW r, Answer(g, r)
      PROVE  (g \in Conn /\ LeavesOrIdles(g)) \/ serve' = serve
  BY <1>5 DEF Answer, LeavesOrIdles, Between
<1>6. ASSUME NEW g, NEW r, Release(g, r)
      PROVE  UNCHANGED serve
  BY <1>6 DEF Release
<1>7. ASSUME NEW rs,
             Reap \/ RevokeRoutes \/ RevokeControl \/ Withdraw(rs)
      PROVE  UNCHANGED serve
  BY <1>7 DEF Reap, RevokeRoutes, RevokeControl, Withdraw
<1>8. CASE Operations \/ UNCHANGED vars
  BY <1>8 DEF Operations, vars, routingVars
<1>9. ASSUME NEW c \in Conn, ServeStep(c)
      PROVE  Handles(c) \/ RevokeEndpoint(c) \/ LeavesOrIdles(c)
  BY <1>2, <1>9, Zenon DEF ServeStep, Handles
<1> QED
  BY <1>1, <1>3, <1>4, <1>5, <1>6, <1>7, <1>8, <1>9, Zenon DEF Next

----------------------------------------------------------------------------
(* Everything a route rests on, with the slack that its withdrawal has:    *)
(* what is gone already, the goroutine that took it away is about to take  *)
(* out of the table.                                                       *)
Allowed(r) == r \in granted \cup revoker
Backed(p) == p \in registered \/ serve[p].pc = "unregister" \/ Swept(p)
Leased(c) == lease[c] \in {"held", "ended"} \/ lane = c

Checked == {"reserve", "validate", "create", "publish"}
Routed == Checked \cup {"check"}

(* While a sample holds, so does what was looked up under it.              *)
RoutedRight ==
    \A c \in sampled : serve[c].pc \in Routed =>
       Allowed(serve[c].req) /\ Backed(TargetOf[serve[c].req])
CheckedRight ==
    \A c \in sampled : serve[c].pc \in Checked =>
       (serve[c].req \in Controlled => Leased(c))
(* A caller that has begun to leave has no routes.                         *)
LeaversHaveNone ==
    \A r \in table : serve[SourceOf[r]].pc \notin Leaving \ {"close"}

(* A route's Provider is registered or on its way out, and one that has    *)
(* swept the table has only routes that were published behind it.          *)
RoutesBacked == \A r \in table : Backed(TargetOf[r])
RoutesMet == \A r \in table : Swept(TargetOf[r]) => r \in missed

AuthorityInv ==
    /\ RoutedRight /\ CheckedRight /\ LeaversHaveNone
    /\ RoutesBacked /\ RoutesMet /\ RouteHasAuthority

LEMMA AllowedStays ==
    ASSUME [Next]_vars, NEW r, Allowed(r)
    PROVE  \/ Allowed(r)'
           \/ RevokeRoutes /\ r \in revoker
<1>1. CASE UNCHANGED <<granted, revoker>>
  BY <1>1 DEF Allowed
<1>2. CASE RevokeRoutes
  BY <1>2 DEF RevokeRoutes, Allowed, authority
<1>3. ASSUME NEW rs \in Withdrawal, Withdraw(rs) PROVE Allowed(r)'
  BY <1>3 DEF Withdraw, Allowed
<1> QED
  BY <1>1, <1>2, <1>3, GrantsMove

LEMMA BackedStays ==
    ASSUME TypeOK, [Next]_vars, NEW p \in Conn, Backed(p)
    PROVE  Backed(p)' \/ RevokeEndpoint(p)
<1> ServeOK
  BY ServeTyped DEF TypeOK
<1>1. CASE p \in registered
  <2>1. ASSUME NEW c \in Conn, UnregisterEndpoint(c) PROVE Backed(p)'
    BY <1>1, <2>1 DEF UnregisterEndpoint, Goes, ServeOK, Backed
  <2>2. ASSUME NEW c \in Conn, EndpointsConnClosed(c) PROVE Backed(p)'
    BY <1>1, <2>2 DEF EndpointsConnClosed, Goes, ServeOK, Backed, Swept
  <2>3. CASE UNCHANGED registered
    BY <1>1, <2>3 DEF Backed
  <2> QED
    BY <2>1, <2>2, <2>3, RegistrationMoves
<1>2. CASE serve[p].pc = "unregister" \/ Swept(p)
  <2>1. ASSUME NEW c \in Conn, Handles(c) PROVE Backed(p)'
    <3>1. serve[c].pc \in Handling
      BY <2>1 DEF Handles, Route, CheckResource, Reserve, ValidateCreate,
                  CreateOperation, Publish, FailOperation, Refuse, At, Handling
    <3>2. \E state : serve' = [serve EXCEPT ![c] = state]
      BY <2>1, Zenon
         DEF Handles, Route, CheckResource, Reserve, ValidateCreate,
             CreateOperation, Publish, Unpublished, FailOperation, Refuse,
             Goes, Rests, Closes
    <3> QED
      BY <1>2, <3>1, <3>2 DEF Handling, Swept, ServeOK, Backed
  <2>2. ASSUME NEW c \in Conn, RevokeEndpoint(c), c # p PROVE Backed(p)'
    BY <1>2, <2>2 DEF RevokeEndpoint, Rests, ServeOK, Backed, Swept
  <2>3. ASSUME NEW c \in Conn, LeavesOrIdles(c) PROVE Backed(p)'
    BY <1>2, <2>3
       DEF LeavesOrIdles, Closes, Rests, Goes, ServeOK, Backed, Leaving, Swept
  <2>4. ASSUME NEW c \in Conn, NEW r \in Request, Receive(c, r)
        PROVE  Backed(p)'
    BY <1>2, <2>4 DEF Receive, At, ServeOK, Backed, Swept
  <2>5. CASE UNCHANGED serve
    BY <1>2, <2>5 DEF Backed, Swept
  <2> QED
    BY <2>1, <2>2, <2>3, <2>4, <2>5, ServeMoves
<1> QED
  BY <1>1, <1>2 DEF Backed

LEMMA LeasedStays ==
    ASSUME TypeOK, [Next]_vars, NEW c \in Conn, Leased(c)
    PROVE  \/ Leased(c)'
           \/ RevokeControl /\ lane = c
           \/ RevokeConn(c)
<1> AuthorityOK
  BY RoutingParts DEF TypeOK
<1>1. CASE UNCHANGED <<lease, lane>>
  BY <1>1 DEF Leased
<1>2. CASE RevokeControl
  BY <1>2 DEF RevokeControl, Leased, authority
<1>3. ASSUME NEW d \in Conn, LeaseEnds(d) PROVE Leased(c)'
  BY <1>3 DEF LeaseEnds, Leased, AuthorityOK, others
<1>4. ASSUME NEW d \in Conn, ForgetLease(d) PROVE Leased(c)'
  <2>1. c # None /\ lane' = d /\ lease' = [lease EXCEPT ![d] = "none"]
    BY <1>4, RoutingAssumption DEF ForgetLease, RoutingAssumption
  <2>2. lane # c
    BY <1>4, <2>1 DEF ForgetLease
  <2> QED
    BY <2>1, <2>2 DEF Leased, AuthorityOK
<1>5. ASSUME NEW d \in Conn, RevokeConn(d), d # c PROVE Leased(c)'
  BY <1>5 DEF RevokeConn, Leased, AuthorityOK, others
<1> QED
  BY <1>1, <1>2, <1>3, <1>4, <1>5, LeasesMove

(* How a goroutine came to where it is in a handler, as long as its sample *)
(* holds: it was there already, or it has just looked.                     *)
LEMMA RoutedBefore ==
    ASSUME TypeOK, [Next]_vars, NEW c \in Conn, c \in sampled',
           serve'[c].pc \in Routed
    PROVE  /\ c \in sampled /\ serve'[c].req = serve[c].req
           /\ serve[c].pc \in Routed \/ Route(c)
           /\ \/ serve[c].pc \in Checked /\ serve'[c].pc \in Checked
              \/ CheckResource(c) /\ lease[c] = "held"
              \/ Route(c) /\ serve[c].req \notin Controlled
              \/ serve'[c].pc = "check"
<1> ServeOK
  BY ServeTyped DEF TypeOK
<1> DEFINE Stays == serve'[c] = serve[c]
           Goal == /\ c \in sampled /\ serve'[c].req = serve[c].req
                   /\ serve[c].pc \in Routed \/ Route(c)
                   /\ \/ serve[c].pc \in Checked /\ serve'[c].pc \in Checked
                      \/ CheckResource(c) /\ lease[c] = "held"
                      \/ Route(c) /\ serve[c].req \notin Controlled
                      \/ serve'[c].pc = "check"
<1>1. c \in sampled
  <2>1. ASSUME NEW d \in Conn, NEW r \in Request, Receive(d, r)
        PROVE  c \in sampled
    <3>1. CASE d = c
      BY <2>1, <3>1 DEF Receive, ServeOK, Routed, Checked
    <3>2. CASE d # c
      BY <2>1, <3>2 DEF Receive
    <3> QED
      BY <3>1, <3>2
  <2> QED
    BY <2>1, SamplesMove
<1>2. ASSUME Stays PROVE Goal
  BY <1>1, <1>2 DEF Routed, Checked
<1>3. ASSUME NEW d \in Conn, d # c, Handles(d) PROVE Stays
  <2>1. \E state : serve' = [serve EXCEPT ![d] = state]
    BY <1>3, Zenon
       DEF Handles, Route, CheckResource, Reserve, ValidateCreate,
           CreateOperation, Publish, Unpublished, FailOperation, Refuse,
           Goes, Rests, Closes
  <2> QED
    BY <1>3, <2>1 DEF ServeOK
<1>4. ASSUME Handles(c) PROVE Goal
  <2>1. CASE Route(c)
    BY <1>1, <2>1 DEF Route, At, Goes, ServeOK, Routed, Checked
  <2>2. CASE CheckResource(c)
    BY <1>1, <2>2 DEF CheckResource, At, Goes, ServeOK, Routed, Checked
  <2>3. CASE Reserve(c) \/ ValidateCreate(c) \/ CreateOperation(c)
    <3>1. serve[c].pc \in {"reserve", "validate", "create"}
      BY <2>3 DEF Reserve, ValidateCreate, CreateOperation, At
    <3>2. \E pc \in {"refuse", "validate", "create", "publish"} : Goes(c, pc)
      BY <2>3 DEF Reserve, ValidateCreate, CreateOperation
    <3> QED
      BY <1>1, <3>1, <3>2 DEF Goes, ServeOK, Routed, Checked
  <2>4. CASE Publish(c) \/ Refuse(c)
    BY <2>4 DEF Publish, Refuse
  <2>5. CASE FailOperation(c)
    BY <2>5 DEF FailOperation, Goes, ServeOK, Routed, Checked
  <2> QED
    BY <1>4, <2>1, <2>2, <2>3, <2>4, <2>5 DEF Handles
<1>5. ASSUME NEW d \in Conn, RevokeEndpoint(d) PROVE FALSE
  BY <1>5 DEF RevokeEndpoint, Revoke
<1>6. ASSUME NEW d \in Conn, LeavesOrIdles(d) PROVE Stays
  <2>1. CASE Closes(d) \/ Rests(d)
    <3>1. \E pc \in Between :
             serve' = [serve EXCEPT ![d] = [pc |-> pc, req |-> None]]
      BY <2>1 DEF Closes, Rests, Idle, Between, Leaving
    <3> QED
      BY <3>1, PcsApart DEF ServeOK, Routed, Checked, Handling
  <2>2. CASE \E pc \in Between : Goes(d, pc)
    BY <2>2, PcsApart DEF Goes, ServeOK, Routed, Checked, Handling
  <2> QED
    BY <1>6, <2>1, <2>2 DEF LeavesOrIdles, Between
<1>7. ASSUME NEW d \in Conn, NEW r \in Request, Receive(d, r) PROVE Stays
  BY <1>7 DEF Receive, ServeOK, Routed, Checked
<1>8. ASSUME UNCHANGED serve PROVE Goal
  BY <1>2, <1>8
<1> HIDE DEF Stays, Goal
<1>9. ASSUME NEW d \in Conn, Handles(d) PROVE Goal
  <2>1. CASE d = c
    BY <1>4, <1>9, <2>1
  <2> QED
    BY <1>2, <1>3, <1>9, <2>1, Zenon
<1>10. Goal
  BY <1>2, <1>5, <1>6, <1>7, <1>8, <1>9, ServeMoves
<1> QED
  BY <1>10 DEF Goal

(* The revocations lose every sample, and the routes they are about.       *)
LEMMA RevocationsForget ==
    ASSUME NEW c \in Conn, RevokeRoutes \/ RevokeControl \/ RevokeEndpoint(c)
    PROVE  /\ sampled' = {}
           /\ RevokeRoutes => table' = table \ revoker
           /\ RevokeControl => table' = table \ UnderLease(lane)
           /\ RevokeEndpoint(c) =>
                 table' = table \ {r \in Request : TargetOf[r] = c}
<1>1. CASE RevokeRoutes
  BY <1>1 DEF RevokeRoutes, RevokeControl, RevokeEndpoint, Revoke
<1>2. CASE RevokeControl
  BY <1>2 DEF RevokeRoutes, RevokeControl, RevokeEndpoint, Revoke
<1>3. CASE RevokeEndpoint(c)
  BY <1>3 DEF RevokeRoutes, RevokeControl, RevokeEndpoint, Revoke
<1> QED
  BY <1>1, <1>2, <1>3

LEMMA RoutedRightStep ==
    ASSUME TypeOK, TypeOK', RoutedRight, [Next]_vars
    PROVE  RoutedRight'
<1> SUFFICES ASSUME NEW c \in Conn, c \in sampled', serve'[c].pc \in Routed,
                    NEW r, r = serve'[c].req, NEW p, p = TargetOf[r]
             PROVE  Allowed(r)' /\ Backed(p)'
  BY DEF RoutedRight, TypeOK, RoutingTypeOK
<1>1. /\ c \in sampled /\ r = serve[c].req
      /\ serve[c].pc \in Routed \/ Route(c)
  BY RoutedBefore
<1>2. r \in Request /\ p \in Conn
  <2>1. serve[c].pc \in Handling
    BY <1>1 DEF Routed, Checked, Handling, Route, At
  <2> QED
    BY <1>1, <2>1, HandlingTyped DEF TypeOK
<1>3. Allowed(r) /\ Backed(p)
  <2>1. CASE serve[c].pc \in Routed
    BY <1>1, <2>1 DEF RoutedRight
  <2>2. CASE Route(c)
    <3>1. serve'[c].pc # "refuse"
      BY DEF Routed, Checked
    <3>2. ServeOK
      BY ServeTyped DEF TypeOK
    <3>3. r \in granted /\ p \in registered
      BY <1>1, <2>2, <3>1, <3>2 DEF Route, Goes, ServeOK
    <3> QED
      BY <3>3 DEF Allowed, Backed
  <2> QED
    BY <1>1, <2>1, <2>2
<1>4. Allowed(r)'
  BY <1>3, AllowedStays, RevocationsForget
<1>5. Backed(p)'
  BY <1>2, <1>3, BackedStays, RevocationsForget
<1> QED
  BY <1>1, <1>4, <1>5

LEMMA CheckedRightStep ==
    ASSUME TypeOK, TypeOK', CheckedRight, [Next]_vars
    PROVE  CheckedRight'
<1> SUFFICES ASSUME NEW c \in Conn, c \in sampled', serve'[c].pc \in Checked,
                    serve'[c].req \in Controlled
             PROVE  Leased(c)'
  BY DEF CheckedRight, TypeOK, RoutingTypeOK
<1>1. /\ c \in sampled /\ serve'[c].req = serve[c].req
      /\ serve[c].pc \in Checked \/ lease[c] = "held"
  <2>1. serve'[c].pc \in Routed /\ serve'[c].pc # "check"
    BY DEF Routed, Checked
  <2> QED
    BY <2>1, RoutedBefore
<1>2. Leased(c)
  BY <1>1 DEF CheckedRight, Leased
<1>3. ~RevokeConn(c)
  <2>1. ServeOK
    BY ServeTyped DEF TypeOK
  <2>2. RevokeConn(c) =>
           \E pc \in {"close control", "close endpoint"} : Goes(c, pc)
    BY DEF RevokeConn
  <2> QED
    BY <2>1, <2>2 DEF Goes, ServeOK, Checked
<1> QED
  BY <1>2, <1>3, LeasedStays, RevocationsForget

LEMMA WhereItRests ==
    ASSUME ServeOK, NEW c \in Conn, Rests(c) \/ Closes(c)
    PROVE  serve'[c].pc \in {"idle", "close"}
<1>1. CASE Rests(c)
  <2>1. serve'[c] = Idle
    BY <1>1 DEF Rests, ServeOK
  <2> QED
    BY <2>1 DEF Idle
<1>2. CASE Closes(c)
  <2>1. serve'[c] = [pc |-> "close", req |-> None]
    BY <1>2 DEF Closes, ServeOK
  <2> QED
    BY <2>1
<1> QED
  BY <1>1, <1>2

(* A teardown comes past its sweep of the table by nothing but the sweep.  *)
LEMMA SweepsFirst ==
    ASSUME TypeOK, [Next]_vars, NEW c \in Conn, Swept(c)'
    PROVE  Swept(c) \/ DispatchConnClosed(c)
<1> SUFFICES ASSUME ~Swept(c), ~DispatchConnClosed(c) PROVE FALSE
  OBVIOUS
<1> ServeOK
  BY ServeTyped DEF TypeOK
<1>1. /\ serve[c].pc \notin Leaving \ {"close"}
      /\ serve'[c].pc \in Leaving \ {"close"}
  BY DEF Swept, Leaving
<1>2. ASSUME NEW d \in Conn, Handles(d) PROVE FALSE
  <2>1. serve[d].pc \in Handling
    BY <1>2 DEF Handles, Route, CheckResource, Reserve, ValidateCreate,
                CreateOperation, Publish, FailOperation, Refuse, At, Handling
  <2>2. \/ \E pc \in Handling : Goes(d, pc)
        \/ Rests(d) \/ Closes(d)
    BY <1>2 DEF Handles, Route, CheckResource, Reserve, ValidateCreate,
                CreateOperation, Publish, Unpublished, FailOperation, Refuse,
                Handling
  <2>3. d # c
    <3>1. CASE \E pc \in Handling : Goes(d, pc)
      BY <1>1, <3>1 DEF Goes, ServeOK, Handling, Leaving
    <3>2. CASE Rests(d) \/ Closes(d)
      BY <1>1, <3>2, WhereItRests DEF Leaving
    <3> QED
      BY <2>2, <3>1, <3>2
  <2> QED
    BY <1>1, <2>2, <2>3 DEF Goes, Rests, Closes, ServeOK
<1>3. ASSUME NEW d \in Conn, RevokeEndpoint(d) PROVE FALSE
  BY <1>1, <1>3 DEF RevokeEndpoint, Rests, Idle, ServeOK, Leaving
<1>4. ASSUME NEW d \in Conn, LeavesOrIdles(d) PROVE FALSE
  <2>1. CASE d = c /\ serve[d].pc = "close"
    <3>1. DispatchConnClosed(d)
      BY <1>4, <2>1 DEF LeavesOrIdles
    <3> QED
      BY <2>1, <3>1 DEF DispatchConnClosed
  <2>2. CASE d # c
    BY <1>1, <1>4, <2>2
       DEF LeavesOrIdles, Goes, Rests, Closes, ServeOK
  <2>3. CASE d = c /\ serve[d].pc # "close"
    <3>1. serve[d].pc \notin Leaving
      BY <1>1, <2>3
    <3>2. \/ Rests(c) \/ Closes(c)
          \/ \E pc \in {"answering", "unregister"} : Goes(c, pc)
      BY <1>4, <2>3, <3>1 DEF LeavesOrIdles
    <3>3. CASE \E pc \in {"answering", "unregister"} : Goes(c, pc)
      <4>1. PICK pc \in {"answering", "unregister"} :
                serve' = [serve EXCEPT ![c].pc = pc]
        BY <3>3 DEF Goes
      <4>2. serve'[c].pc = pc
        BY <4>1 DEF ServeOK
      <4> QED
        BY <1>1, <4>2 DEF Leaving
    <3>4. CASE Rests(c) \/ Closes(c)
      BY <1>1, <3>4, WhereItRests DEF Leaving
    <3> QED
      BY <3>2, <3>3, <3>4
  <2> QED
    BY <2>1, <2>2, <2>3
<1>5. ASSUME NEW d \in Conn, NEW q \in Request, Receive(d, q) PROVE FALSE
  BY <1>1, <1>5 DEF Receive, ServeOK, Leaving
<1> QED
  BY <1>1, <1>2, <1>3, <1>4, <1>5, ServeMoves

LEMMA LeaversHaveNoneStep ==
    ASSUME TypeOK, TypeOK', LeaversHaveNone, [Next]_vars
    PROVE  LeaversHaveNone'
<1> SUFFICES ASSUME NEW r \in table', NEW c, c = SourceOf[r],
                    serve'[c].pc \in Leaving \ {"close"}
             PROVE  FALSE
  BY DEF LeaversHaveNone
<1>1. r \in Request /\ c \in Conn /\ ServeOK
  BY ServeTyped, RoutingAssumption
     DEF TypeOK, RoutingTypeOK, RoutingAssumption
<1>2. CASE r \notin table
  <2>1. PICK d \in Conn : Publishes(d)
    BY <1>2, RoutesMove DEF FewerRoutes
  <2>2. r = serve[d].req /\ serve[d].pc = "publish" /\ Rests(d)
    BY <1>2, <2>1 DEF Publishes, Publish, At
  <2>3. c = d
    BY <1>1, <2>2 DEF ServeOK, Handling
  <2> QED
    BY <1>1, <2>2, <2>3 DEF Rests, Idle, ServeOK, Leaving
<1>3. CASE r \in table
  <2>1. serve[c].pc \notin Leaving \ {"close"}
    BY <1>3 DEF LeaversHaveNone
  <2>2. DispatchConnClosed(c)
    BY <1>1, <2>1, SweepsFirst DEF Swept, Leaving
  <2> QED
    BY <1>1, <2>2 DEF DispatchConnClosed
<1> QED
  BY <1>2, <1>3

(* Publish sees to what comes behind the sweep.                            *)
LEMMA RoutesMetStep ==
    ASSUME TypeOK, TypeOK', RoutesMet, [Next]_vars
    PROVE  RoutesMet'
<1> SUFFICES ASSUME NEW r \in table', Swept(TargetOf[r])' PROVE r \in missed'
  BY DEF RoutesMet
<1>1. r \in Request /\ TargetOf[r] \in Conn /\ ServeOK
  BY ServeTyped, RoutingAssumption
     DEF TypeOK, RoutingTypeOK, RoutingAssumption
<1>2. CASE r \notin table
  <2>1. PICK d \in Conn : Publishes(d)
    BY <1>2, RoutesMove DEF FewerRoutes
  <2>2. r = serve[d].req /\ Rests(d)
    BY <1>2, <2>1 DEF Publishes
  <2>3. Swept(TargetOf[r])
    BY <1>1, <2>2 DEF Rests, Idle, ServeOK, Swept
  <2> QED
    BY <2>1, <2>2, <2>3 DEF Publishes
<1>3. CASE r \in table
  <2>1. ~DispatchConnClosed(TargetOf[r])
    BY <1>3 DEF DispatchConnClosed
  <2>2. r \in missed
    BY <1>1, <1>3, <2>1, SweepsFirst DEF RoutesMet
  <2>3. missed \subseteq missed'
    BY RoutesMove DEF Publishes, FewerRoutes
  <2> QED
    BY <2>2, <2>3
<1> QED
  BY <1>2, <1>3

LEMMA RouteHasAuthorityStep ==
    ASSUME TypeOK, TypeOK', AuthorityInv, [Next]_vars
    PROVE  RoutesBacked' /\ RouteHasAuthority'
<1> RoutesMet'
  BY RoutesMetStep DEF AuthorityInv
<1> SUFFICES ASSUME NEW r \in table'
             PROVE  /\ Allowed(r)' /\ Backed(TargetOf[r])'
                    /\ r \in Controlled => Leased(SourceOf[r])'
  BY DEF RouteHasAuthority, RoutesBacked, RoutesMet, Allowed, Backed, Leased
<1>1. r \in Request /\ SourceOf[r] \in Conn /\ TargetOf[r] \in Conn /\ ServeOK
  BY ServeTyped, RoutingAssumption
     DEF TypeOK, RoutingTypeOK, RoutingAssumption
<1>2. CASE r \notin table
  <2>1. PICK d \in Conn : Publishes(d)
    BY <1>2, RoutesMove DEF FewerRoutes
  <2>2. r = serve[d].req /\ serve[d].pc = "publish" /\ d \in sampled
    BY <1>2, <2>1 DEF Publishes, Publish, At
  <2>3. SourceOf[r] = d
    BY <1>1, <2>2 DEF ServeOK, Handling
  <2>4. Allowed(r) /\ Backed(TargetOf[r]) /\ (r \in Controlled => Leased(d))
    BY <2>2
       DEF AuthorityInv, RoutedRight, CheckedRight, Routed, Checked
  <2>5. UNCHANGED <<granted, registered, lease, revoker, lane>> /\ Rests(d)
    BY <2>1 DEF Publishes, Publish, authority, others
  <2>6. Allowed(r)' /\ (r \in Controlled => Leased(d)')
    BY <2>4, <2>5 DEF Allowed, Leased
  <2>7. Backed(TargetOf[r])'
    BY <1>1, <2>2, <2>4, <2>5 DEF Backed, Rests, ServeOK, Swept
  <2> QED
    BY <2>3, <2>6, <2>7
<1>3. CASE r \in table
  <2>1. Allowed(r) /\ Backed(TargetOf[r])
        /\ (r \in Controlled => Leased(SourceOf[r]))
    BY <1>3 DEF AuthorityInv, RouteHasAuthority, RoutesBacked, Allowed, Leased
  <2>2. Allowed(r)'
    BY <1>1, <2>1, AllowedStays, RevocationsForget
  <2>3. Backed(TargetOf[r])'
    BY <1>1, <2>1, BackedStays, RevocationsForget
  <2>4. ASSUME r \in Controlled PROVE Leased(SourceOf[r])'
    <3>1. ~(RevokeControl /\ lane = SourceOf[r])
      BY <1>1, <2>4, RevocationsForget DEF UnderLease
    <3>2. ~RevokeConn(SourceOf[r])
      BY <1>3 DEF AuthorityInv, LeaversHaveNone, RevokeConn, At, Leaving
    <3> QED
      BY <1>1, <2>1, <2>4, <3>1, <3>2, LeasedStays
  <2> QED
    BY <2>2, <2>3, <2>4
<1> QED
  BY <1>2, <1>3

(* No request reaches a Provider, or stays on its way to one, after what   *)
(* permitted it was withdrawn: handleRequest looks the grant, the endpoint *)
(* and the lease up one after another and without a common lock, and       *)
(* publishDispatchAtEpoch's one comparison makes up for it. The one route  *)
(* left over is one published behind its Provider's sweep of the table:    *)
(* nothing that happened before the sweep survives it.                     *)
THEOREM RoutesAuthorized == Spec => []RouteHasAuthority
<1>1. Init => AuthorityInv
  <2> SUFFICES ASSUME Init PROVE AuthorityInv
    OBVIOUS
  <2>1. sampled = {} /\ table = {}
    BY DEF Init, RoutingInit
  <2> QED
    BY <2>1 DEF AuthorityInv, RoutedRight, CheckedRight, LeaversHaveNone,
                RoutesBacked, RoutesMet, RouteHasAuthority
<1>2. TypeOK /\ TypeOK' /\ AuthorityInv /\ [Next]_vars => AuthorityInv'
  BY RoutedRightStep, CheckedRightStep, LeaversHaveNoneStep,
     RoutesMetStep, RouteHasAuthorityStep DEF AuthorityInv
<1>3. AuthorityInv => RouteHasAuthority
  BY DEF AuthorityInv
<1> QED
  BY <1>1, <1>2, <1>3, RoutingTyped, PTL DEF Spec

----------------------------------------------------------------------------
(***************************************************************************)
(* The safety of the operations that RequestRouting's calls create.        *)
(***************************************************************************)

(* Nothing but handleRequest begins an operation, and none changes hands.  *)
Same(id) ==
    /\ Exists(id)' => Exists(id)
    /\ Live(id)' => Live(id) /\ ops'[id].owner = ops[id].owner

Begins(c, id) ==
    /\ CreateOperation(c) /\ serve[c].req = id /\ ~stopping
    /\ ops'[id].owner = c /\ Goes(c, "publish")

LEMMA FailAllSame ==
    ASSUME OperationTypeOK, NEW id \in OperationId, NEW ids, FailAll(ids)
    PROVE  Same(id)
<1>1. CASE Live(id)
  <2>1. ops[id] \in OperationRecord
    BY <1>1, ExistsTyped DEF Live
  <2> QED
    BY <1>1, <2>1
       DEF FailAll, Moved, Same, Live, Exists, OperationRecord
<1>2. CASE ~Live(id)
  BY <1>2 DEF FailAll, Same, Live, Exists, Terminal
<1> QED
  BY <1>1, <1>2

LEMMA MoveSame ==
    ASSUME OperationTypeOK, NEW id \in OperationId, NEW i \in OperationId,
           Live(i), NEW to, ops' = [ops EXCEPT ![i] = Moved(@, to)]
    PROVE  Same(id)
<1>1. ops[i] \in OperationRecord
  BY ExistsTyped DEF Live
<1>2. CASE id = i
  BY <1>1, <1>2
     DEF Moved, Same, Live, Exists, OperationTypeOK, OperationRecord
<1>3. CASE id # i
  BY <1>3 DEF Same, Live, Exists, Terminal, OperationTypeOK
<1> QED
  BY <1>2, <1>3

LEMMA ReportTerminalSame ==
    ASSUME OperationTypeOK, NEW id \in OperationId, NEW i \in OperationId,
           NEW to, ReportTerminal(i, to)
    PROVE  Same(id)
BY FailAllSame, MoveSame DEF ReportTerminal

LEMMA LoopStepSame ==
    ASSUME OperationTypeOK, NEW id \in OperationId, LoopStep
    PROVE  Same(id)
<1>1. CASE ConvergeSupersede \/ ScanDeadlines \/ StopConverges
  BY <1>1, FailAllSame DEF ConvergeSupersede, ScanDeadlines, StopConverges
<1>2. CASE ReapTerminal
  BY <1>2 DEF ReapTerminal, Same, Live, Exists, Terminal, NoOperation
<1>3. CASE LoopWakes \/ LoopTicks \/ LoopExits
  BY <1>3 DEF LoopWakes, LoopTicks, LoopExits, Same, Live, Exists, Terminal
<1> QED
  BY <1>1, <1>2, <1>3 DEF LoopStep

LEMMA OperationsSame ==
    ASSUME OperationTypeOK, NEW id \in OperationId, Operations
    PROVE  Same(id)
<1>1. ASSUME NEW c \in Conn, NEW i \in OperationId, CancelOperation(c, i)
      PROVE  Same(id)
  <2>1. Live(i) /\ ops' = [ops EXCEPT ![i] = Moved(@, "CANCEL_REQUESTED")]
    BY <1>1
       DEF CancelOperation, Cancel, CanTransition, Live, Terminal,
           TerminalState
  <2> QED
    BY <2>1, MoveSame
<1>2. ASSUME NEW c \in Conn, NEW i \in OperationId, NEW e,
             AcceptOperation(c, i, e)
      PROVE  Same(id)
  BY <1>2, FailAllSame, MoveSame DEF AcceptOperation, Accept
<1>3. ASSUME NEW c \in Conn, NEW i \in OperationId, NEW to,
             CompleteOperation(c, i, to)
      PROVE  Same(id)
  BY <1>3, ReportTerminalSame DEF CompleteOperation
<1>4. ASSUME NEW e, NEW r,
             SafetySupersede(e) \/ TimePasses(r) \/ CloseStop
      PROVE  Same(id)
  BY <1>4 DEF SafetySupersede, TimePasses, DeadlinePasses, CloseStop, Same,
              Live, Exists, Terminal
<1> QED
  BY <1>1, <1>2, <1>3, <1>4, LoopStepSame DEF Operations

LEMMA OperationsBegin ==
    ASSUME TypeOK, [Next]_vars, NEW id \in OperationId
    PROVE  Same(id) \/ \E c \in Conn : Begins(c, id)
<1> OperationTypeOK /\ RoutingTypeOK
  BY DEF TypeOK
<1>1. ASSUME UNCHANGED ops PROVE Same(id)
  BY <1>1 DEF Same, Live, Exists, Terminal
<1>2. ASSUME NEW c \in Conn, CreateOperation(c)
      PROVE  Same(id) \/ Begins(c, id)
  <2>1. serve[c].pc \in Handling
    BY <1>2 DEF CreateOperation, At, Handling
  <2>2. PICK r \in OperationId : r = serve[c].req
    BY <2>1, HandlingTyped, RoutingAssumption DEF RoutingAssumption
  <2>3. CASE UNCHANGED operationVars
    BY <1>1, <2>3 DEF operationVars
  <2>4. CASE ~ UNCHANGED operationVars
    <3>1. /\ Create(r, c, TargetOf[r], r \in Controlled,
                    IF r \in Controlled THEN LeaseEpoch ELSE 0)
          /\ Goes(c, "publish")
      BY <1>2, <2>2, <2>4, Zenon DEF CreateOperation
    <3>2. CASE r = id
      BY <1>2, <2>2, <3>1, <3>2
         DEF Create, Accepting, Begins, OperationTypeOK
    <3>3. CASE r # id
      BY <3>1, <3>3
         DEF Create, Same, Live, Exists, Terminal, OperationTypeOK
    <3> QED
      BY <3>2, <3>3
  <2> QED
    BY <2>3, <2>4
<1>3. ASSUME NEW c \in Conn, FailOperation(c) PROVE Same(id)
  <2>1. serve[c].pc \in Handling
    BY <1>3 DEF FailOperation, At, Handling
  <2>2. PICK r \in OperationId : r = serve[c].req
    BY <2>1, HandlingTyped, RoutingAssumption DEF RoutingAssumption
  <2>3. ReportTerminal(r, "FAILED") \/ UNCHANGED operationVars
    BY <1>3, <2>2 DEF FailOperation
  <2> QED
    BY <1>1, <2>3, ReportTerminalSame DEF operationVars
<1>4. UNCHANGED operationVars => UNCHANGED ops
  BY DEF operationVars
<1> QED
  BY <1>1, <1>2, <1>3, <1>4, OperationsSame, OperationsMove, Zenon

----------------------------------------------------------------------------
(* The loop ends only after stopCh is closed.                              *)
StopInv ==
    /\ loop.pc \in {"exited", "stopped"} => stopping
    /\ StopLeavesNothing

LEMMA LoopMoves ==
    ASSUME [Next]_vars
    PROVE  LoopStep \/ CloseStop \/ UNCHANGED <<loop, stopping>>
<1>1. CASE Operations
  BY <1>1
     DEF Operations, CancelOperation, Cancel, AcceptOperation, Accept,
         CompleteOperation, ReportTerminal, SafetySupersede, TimePasses,
         DeadlinePasses
<1>2. ASSUME NEW c \in Conn, CreateOperation(c) \/ FailOperation(c)
      PROVE  UNCHANGED <<loop, stopping>>
  BY <1>2 DEF CreateOperation, Create, FailOperation, ReportTerminal,
              operationVars
<1>3. CASE UNCHANGED operationVars
  BY <1>3 DEF operationVars
<1> QED
  BY <1>1, <1>2, <1>3, OperationsMove

LEMMA StopStep ==
    ASSUME TypeOK, StopInv, [Next]_vars
    PROVE  StopInv'
<1> OperationTypeOK
  BY DEF TypeOK
<1>1. /\ loop'.pc \in {"exited", "stopped"} => stopping'
      /\ \/ loop'.pc = "stopped" => loop.pc = "stopped"
         \/ StopConverges
  <2>1. CASE LoopStep
    BY <2>1
       DEF LoopStep, LoopWakes, LoopTicks, ConvergeSupersede, ScanDeadlines,
           ReapTerminal, LoopExits, StopConverges, StopInv, OperationTypeOK
  <2>2. CASE CloseStop \/ UNCHANGED <<loop, stopping>>
    BY <2>2 DEF CloseStop, StopInv
  <2> QED
    BY <2>1, <2>2, LoopMoves
<1>2. ASSUME NEW id \in OperationId, loop'.pc = "stopped"
      PROVE  ~Live(id)'
  <2>1. CASE StopConverges
    <3>1. Live(id) => ops[id] \in OperationRecord
      BY ExistsTyped DEF Live
    <3> QED
      BY <2>1, <3>1
         DEF StopConverges, FailAll, Moved, Live, Exists, Terminal,
             TerminalState, OperationRecord
  <2>2. CASE loop.pc = "stopped"
    <3>1. ~Live(id) /\ stopping
      BY <2>2 DEF StopInv, StopLeavesNothing
    <3> QED
      BY <3>1, OperationsBegin DEF Same, Begins
  <2> QED
    BY <1>1, <1>2, <2>1, <2>2
<1> QED
  BY <1>1, <1>2 DEF StopInv, StopLeavesNothing

(* When Stop has come to its end, every operation has, although calls go   *)
(* on all the time and a Create may have passed its validation before.     *)
THEOREM StopLeavesNone == Spec => []StopLeavesNothing
<1>1. Init => StopInv
  BY DEF Init, OperationInit, StopInv, StopLeavesNothing
<1>2. TypeOK /\ StopInv /\ [Next]_vars => StopInv'
  BY StopStep
<1>3. StopInv => StopLeavesNothing
  BY DEF StopInv
<1> QED
  BY <1>1, <1>2, <1>3, RoutingTyped, PTL DEF Spec

----------------------------------------------------------------------------
(* What is on its way to Create has no operation yet.                      *)
Early == {"route", "check", "reserve", "validate", "create"}

FreshInv ==
    /\ \A id \in OperationId : Exists(id) => id \in received
    /\ \A c \in Conn : serve[c].pc \in Early =>
          ~Exists(serve[c].req) /\ serve[c].req \in received

LEMMA ReceivedMoves ==
    ASSUME [Next]_vars
    PROVE  \/ \E c \in Conn, r \in Request : Receive(c, r)
           \/ UNCHANGED received
<1>1. ASSUME NEW c \in Conn, NEW r, DispatchResult(c, r)
      PROVE  UNCHANGED received
  BY <1>1 DEF DispatchResult
<1>2. ASSUME NEW c \in Conn,
             \/ Route(c) \/ CheckResource(c) \/ Reserve(c)
             \/ ValidateCreate(c) \/ CreateOperation(c) \/ Publish(c)
             \/ FailOperation(c) \/ Refuse(c) \/ RevokeEndpoint(c)
      PROVE  UNCHANGED received
  BY <1>2 DEF Route, CheckResource, Reserve, ValidateCreate, CreateOperation,
              Publish, FailOperation, Refuse, RevokeEndpoint
<1>3. ASSUME NEW c \in Conn,
             \/ DispatchConnClosed(c) \/ RevokeConn(c) \/ RevokeOwnControl(c)
             \/ EndpointsConnClosed(c) \/ UnregisterEndpoint(c)
             \/ CloseOutbox(c) \/ HangUp(c) \/ LeaseEnds(c) \/ ForgetLease(c)
             \/ OutboxCloses(c)
      PROVE  UNCHANGED received
  BY <1>3 DEF DispatchConnClosed, RevokeConn, RevokeOwnControl, CloseOutbox,
              EndpointsConnClosed, UnregisterEndpoint, HangUp, LeaseEnds,
              ForgetLease, OutboxCloses
<1>4. ASSUME NEW g, NEW r, Answer(g, r) \/ Release(g, r)
      PROVE  UNCHANGED received
  BY <1>4 DEF Answer, Release
<1>5. ASSUME NEW rs,
             Reap \/ RevokeRoutes \/ RevokeControl \/ Withdraw(rs)
      PROVE  UNCHANGED received
  BY <1>5 DEF Reap, RevokeRoutes, RevokeControl, Withdraw
<1>6. CASE Operations \/ UNCHANGED vars
  BY <1>6 DEF Operations, vars, routingVars
<1>7. ASSUME NEW c \in Conn, ServeStep(c)
      PROVE  UNCHANGED received
  BY <1>2, <1>3, <1>7, Zenon DEF ServeStep
<1> QED
  BY <1>1, <1>3, <1>4, <1>5, <1>6, <1>7, Zenon DEF Next

(* Where a goroutine is within a handler, it came by the handler's steps.  *)
LEMMA HandlingBefore ==
    ASSUME TypeOK, [Next]_vars, NEW c \in Conn, serve'[c].pc \in Handling
    PROVE  \/ serve'[c] = serve[c]
           \/ /\ Handles(c) /\ serve'[c].req = serve[c].req
              /\ Goes(c, serve'[c].pc)
           \/ \E r \in Request : Receive(c, r) /\ serve'[c].req = r
<1> ServeOK
  BY ServeTyped DEF TypeOK
<1>1. ASSUME NEW d \in Conn, Handles(d)
      PROVE  \/ \E pc \in Handling : Goes(d, pc)
             \/ Rests(d) \/ Closes(d)
  BY <1>1
     DEF Handles, Route, CheckResource, Reserve, ValidateCreate,
         CreateOperation, Publish, Unpublished, FailOperation, Refuse,
         Handling
<1>2. ASSUME NEW d \in Conn, Rests(d) \/ Closes(d)
      PROVE  serve'[c] = serve[c]
  <2>1. CASE d = c
    BY <1>2, <2>1, WhereItRests DEF Handling
  <2> QED
    BY <1>2, <2>1 DEF Rests, Closes, ServeOK
<1>3. ASSUME NEW d \in Conn, Handles(d)
      PROVE  \/ serve'[c] = serve[c]
             \/ /\ Handles(c) /\ serve'[c].req = serve[c].req
                /\ Goes(c, serve'[c].pc)
  <2>1. CASE \E pc \in Handling : Goes(d, pc)
    <3>1. CASE d = c
      BY <1>3, <2>1, <3>1 DEF Goes, ServeOK
    <3>2. CASE d # c
      BY <2>1, <3>2 DEF Goes, ServeOK
    <3> QED
      BY <3>1, <3>2
  <2> QED
    BY <1>1, <1>2, <1>3, <2>1
<1>4. ASSUME NEW d \in Conn, RevokeEndpoint(d) PROVE serve'[c] = serve[c]
  BY <1>2, <1>4 DEF RevokeEndpoint
<1>5. ASSUME NEW d \in Conn, LeavesOrIdles(d) PROVE serve'[c] = serve[c]
  <2>1. CASE \E pc \in Between : Goes(d, pc)
    BY <2>1, PcsApart DEF Goes, ServeOK
  <2> QED
    BY <1>2, <1>5, <2>1 DEF LeavesOrIdles, Between
<1>6. ASSUME NEW d \in Conn, NEW r \in Request, Receive(d, r)
      PROVE  \/ serve'[c] = serve[c]
             \/ Receive(c, r) /\ serve'[c].req = r
  <2>1. CASE d = c
    BY <1>6, <2>1 DEF Receive, ServeOK
  <2>2. CASE d # c
    BY <1>6, <2>2 DEF Receive, ServeOK
  <2> QED
    BY <2>1, <2>2
<1>7. UNCHANGED serve => serve'[c] = serve[c]
  OBVIOUS
<1> QED
  BY <1>3, <1>4, <1>5, <1>6, <1>7, ServeMoves, Zenon

LEMMA FreshStep ==
    ASSUME TypeOK, FreshInv, [Next]_vars
    PROVE  FreshInv'
<1> ServeOK
  BY ServeTyped DEF TypeOK
<1>1. received \subseteq received'
  BY ReceivedMoves DEF Receive
<1>2. ASSUME NEW id \in OperationId, Exists(id)' PROVE id \in received'
  <2>1. CASE Same(id)
    BY <1>1, <1>2, <2>1 DEF Same, FreshInv
  <2>2. ASSUME NEW c \in Conn, Begins(c, id) PROVE id \in received'
    BY <1>1, <2>2 DEF Begins, CreateOperation, At, Early, FreshInv
  <2> QED
    BY <2>1, <2>2, OperationsBegin
<1>3. ASSUME NEW c \in Conn, serve'[c].pc \in Early,
             NEW r, r = serve'[c].req
      PROVE  ~Exists(r)' /\ r \in received'
  <2>1. CASE serve[c].pc \in Early /\ serve[c].req = r
    <3>1. ~Exists(r) /\ r \in received
      BY <2>1 DEF FreshInv
    <3>2. r \in OperationId /\ SourceOf[r] = c
      <4>1. serve[c].pc \in Handling
        BY <2>1 DEF Early, Handling
      <4> QED
        BY <2>1, <4>1, HandlingTyped, RoutingAssumption
           DEF TypeOK, RoutingAssumption
    <3>3. ASSUME NEW d \in Conn, Begins(d, r) PROVE FALSE
      <4>1. d = c
        BY <3>2, <3>3 DEF Begins, CreateOperation, At, ServeOK, Handling
      <4> QED
        BY <1>3, <3>3, <4>1 DEF Begins, Goes, ServeOK, Early
    <3> QED
      BY <1>1, <3>1, <3>2, <3>3, OperationsBegin DEF Same
  <2>2. ASSUME NEW q \in Request, Receive(c, q), serve'[c].req = q
        PROVE  ~Exists(r)' /\ r \in received'
    <3>1. ops' = ops /\ r \in OperationId /\ r \notin received
          /\ r \in received'
      BY <1>3, <2>2, RoutingAssumption
         DEF Receive, operationVars, RoutingAssumption
    <3> QED
      BY <3>1 DEF FreshInv, Exists
  <2>3. ASSUME Handles(c), serve'[c].req = serve[c].req
        PROVE  serve[c].pc \in Early
    <3>1. serve'[c].pc \in {"refuse", "fail", "idle", "close"}
          \/ serve[c].pc \in Early
      <4>1. CASE Publish(c)
        BY <4>1, WhereItRests DEF Publish, Unpublished, Goes, ServeOK
      <4>2. CASE FailOperation(c)
        BY <4>2 DEF FailOperation, Goes, ServeOK
      <4>3. CASE Refuse(c)
        BY <4>3, WhereItRests DEF Refuse
      <4> QED
        BY <2>3, <4>1, <4>2, <4>3
           DEF Handles, Route, CheckResource, Reserve, ValidateCreate,
               CreateOperation, At, Early
    <3> QED
      BY <1>3, <3>1 DEF Early
  <2>4. serve'[c].pc \in Handling
    BY <1>3 DEF Early, Handling
  <2>5. serve'[c] = serve[c] => serve[c].pc \in Early /\ serve[c].req = r
    BY <1>3
  <2> QED
    BY <1>3, <2>1, <2>2, <2>3, <2>4, <2>5, HandlingBefore
<1> QED
  BY <1>2, <1>3 DEF FreshInv

LEMMA FreshHolds == Spec => []FreshInv
<1>1. Init => FreshInv
  BY DEF Init, OperationInit, RoutingInit, FreshInv, NoOperation, Exists,
         Idle, Early
<1>2. TypeOK /\ FreshInv /\ [Next]_vars => FreshInv'
  BY FreshStep
<1> QED
  BY <1>1, <1>2, RoutingTyped, PTL DEF Spec

----------------------------------------------------------------------------
Verdict(id) == ops'[id].state \in {ops[id].state, "CANCEL_REQUESTED", "FAILED"}

LEMMA FailAllVerdict ==
    ASSUME OperationTypeOK, NEW id \in OperationId, Live(id), NEW ids,
           FailAll(ids)
    PROVE  Verdict(id)
<1>1. ops[id] \in OperationRecord
  BY ExistsTyped DEF Live
<1> QED
  BY <1>1 DEF FailAll, Moved, Verdict, OperationRecord

LEMMA MoveElsewhere ==
    ASSUME OperationTypeOK, NEW id \in OperationId, NEW i \in OperationId,
           i # id, NEW op, ops' = [ops EXCEPT ![i] = op]
    PROVE  Verdict(id)
BY DEF Verdict, OperationTypeOK

LEMMA OvertakenReported ==
    ASSUME OperationTypeOK, NEW id \in OperationId, Live(id), Overtaken(id),
           NEW i \in OperationId, NEW to, ReportTerminal(i, to)
    PROVE  Verdict(id)
<1>1. CASE FailAll({i})
  BY <1>1, FailAllVerdict
<1>2. CASE ~FailAll({i})
  <2>1. ~Overtaken(i) /\ ops' = [ops EXCEPT ![i] = Moved(@, to)]
    BY <1>2 DEF ReportTerminal
  <2> QED
    BY <2>1, MoveElsewhere
<1> QED
  BY <1>1, <1>2

LEMMA OvertakenLoop ==
    ASSUME OperationTypeOK, NEW id \in OperationId, Live(id), LoopStep
    PROVE  Verdict(id)
<1>1. CASE ConvergeSupersede \/ ScanDeadlines \/ StopConverges
  BY <1>1, FailAllVerdict DEF ConvergeSupersede, ScanDeadlines, StopConverges
<1>2. CASE ReapTerminal
  BY <1>2 DEF ReapTerminal, Verdict, Live
<1>3. CASE LoopWakes \/ LoopTicks \/ LoopExits
  BY <1>3 DEF LoopWakes, LoopTicks, LoopExits, Verdict
<1> QED
  BY <1>1, <1>2, <1>3 DEF LoopStep

LEMMA OvertakenOperations ==
    ASSUME OperationTypeOK, NEW id \in OperationId, Live(id), Overtaken(id),
           Operations
    PROVE  Verdict(id)
<1>1. ASSUME NEW c \in Conn, NEW i \in OperationId, CancelOperation(c, i)
      PROVE  Verdict(id)
  <2>1. ops' = [ops EXCEPT ![i] = Moved(@, "CANCEL_REQUESTED")]
    BY <1>1 DEF CancelOperation, Cancel
  <2>2. CASE i = id
    <3>1. ops[id] \in OperationRecord
      BY ExistsTyped DEF Live
    <3> QED
      BY <2>1, <2>2, <3>1
         DEF Moved, Verdict, OperationTypeOK, OperationRecord
  <2> QED
    BY <2>1, <2>2, MoveElsewhere
<1>2. ASSUME NEW c \in Conn, NEW i \in OperationId, NEW e,
             AcceptOperation(c, i, e)
      PROVE  Verdict(id)
  <2>1. CASE FailAll({i})
    BY <2>1, FailAllVerdict
  <2>2. CASE ~FailAll({i})
    <3>1. ~Overtaken(i) /\ ops' = [ops EXCEPT ![i] = Moved(ops[i], "RUNNING")]
      BY <1>2, <2>2 DEF AcceptOperation, Accept
    <3> QED
      BY <3>1, MoveElsewhere
  <2> QED
    BY <2>1, <2>2
<1>3. ASSUME NEW c \in Conn, NEW i \in OperationId, NEW to,
             CompleteOperation(c, i, to)
      PROVE  Verdict(id)
  BY <1>3, OvertakenReported DEF CompleteOperation
<1>4. ASSUME NEW e, NEW r,
             SafetySupersede(e) \/ TimePasses(r) \/ CloseStop
      PROVE  Verdict(id)
  BY <1>4 DEF SafetySupersede, TimePasses, DeadlinePasses, CloseStop, Verdict
<1> QED
  BY <1>1, <1>2, <1>3, <1>4, OvertakenLoop DEF Operations

LEMMA OvertakenStep ==
    ASSUME TypeOK, FreshInv, [Next]_vars, NEW id \in OperationId, Live(id),
           Overtaken(id)
    PROVE  Verdict(id)
<1> OperationTypeOK /\ RoutingTypeOK /\ ServeOK
  BY ServeTyped DEF TypeOK
<1>1. ASSUME UNCHANGED operationVars PROVE Verdict(id)
  BY <1>1 DEF Verdict, operationVars
<1>2. ASSUME NEW c \in Conn, CreateOperation(c) PROVE Verdict(id)
  <2>1. serve[c].pc \in Early /\ serve[c].pc \in Handling
    BY <1>2 DEF CreateOperation, At, Early, Handling
  <2>2. PICK r \in OperationId : r = serve[c].req
    BY <2>1, HandlingTyped, RoutingAssumption DEF RoutingAssumption
  <2>3. r # id
    BY <2>1, <2>2 DEF FreshInv, Live
  <2>4. Create(r, c, TargetOf[r], r \in Controlled,
               IF r \in Controlled THEN LeaseEpoch ELSE 0)
        \/ UNCHANGED operationVars
    BY <1>2, <2>2, Zenon DEF CreateOperation
  <2> QED
    BY <1>1, <2>3, <2>4, MoveElsewhere DEF Create
<1>3. ASSUME NEW c \in Conn, FailOperation(c) PROVE Verdict(id)
  <2>1. serve[c].pc \in Handling
    BY <1>3 DEF FailOperation, At, Handling
  <2>2. PICK r \in OperationId : r = serve[c].req
    BY <2>1, HandlingTyped, RoutingAssumption DEF RoutingAssumption
  <2>3. ReportTerminal(r, "FAILED") \/ UNCHANGED operationVars
    BY <1>3, <2>2 DEF FailOperation
  <2> QED
    BY <1>1, <2>3, OvertakenReported
<1> QED
  BY <1>1, <1>2, <1>3, OvertakenOperations, OperationsMove, Zenon

(* Once Safety's boundary or its deadline has passed an operation, a late  *)
(* Provider can make nothing of it but a failure, however long the loop    *)
(* takes to find out.                                                      *)
THEOREM OvertakenOnlyFail == Spec => OvertakenOnlyFails
<1>1. TypeOK /\ FreshInv /\ [Next]_vars =>
         [\A id \in OperationId :
             Live(id) /\ Overtaken(id) =>
                ops'[id].state \in
                   {ops[id].state, "CANCEL_REQUESTED", "FAILED"}]_operationVars
  BY OvertakenStep DEF Verdict
<1> QED
  BY <1>1, RoutingTyped, FreshHolds, PTL DEF Spec, OvertakenOnlyFails

----------------------------------------------------------------------------
(* Only the methods that return an operation create or fail one.           *)
LongOnly ==
    /\ \A c \in Conn : serve[c].pc \in {"validate", "create", "fail"} =>
          serve[c].req \in Long
    /\ \A id \in OperationId : Exists(id) => id \in Long

UndispatchedInv == LongOnly /\ UndispatchedOperationEnds

LEMMA LongStep ==
    ASSUME TypeOK, UndispatchedInv, [Next]_vars
    PROVE  LongOnly'
<1> ServeOK
  BY ServeTyped DEF TypeOK
<1>1. ASSUME NEW id \in OperationId, Exists(id)' PROVE id \in Long
  <2>1. ASSUME NEW c \in Conn, Begins(c, id) PROVE id \in Long
    BY <2>1
       DEF Begins, CreateOperation, At, UndispatchedInv, LongOnly
  <2> QED
    BY <1>1, <2>1, OperationsBegin DEF Same, UndispatchedInv, LongOnly
<1>2. ASSUME NEW c \in Conn, serve'[c].pc \in {"validate", "create", "fail"}
      PROVE  serve'[c].req \in Long
  <2>1. CASE serve'[c] = serve[c]
    BY <1>2, <2>1 DEF UndispatchedInv, LongOnly
  <2>2. ASSUME Handles(c), serve'[c].req = serve[c].req
        PROVE  serve[c].req \in Long
    <3>1. CASE Route(c)
      BY <1>2, <3>1 DEF Route, Goes, ServeOK
    <3>2. CASE CheckResource(c)
      BY <1>2, <3>2 DEF CheckResource, Goes, ServeOK
    <3>3. CASE Reserve(c)
      BY <1>2, <3>3 DEF Reserve, Goes, ServeOK
    <3>4. CASE ValidateCreate(c) \/ CreateOperation(c) \/ FailOperation(c)
      BY <3>4 DEF ValidateCreate, CreateOperation, FailOperation, At,
                  UndispatchedInv, LongOnly
    <3>5. CASE Publish(c)
      BY <1>2, <3>5, WhereItRests DEF Publish, Unpublished, Goes, ServeOK
    <3>6. CASE Refuse(c)
      BY <1>2, <3>6, WhereItRests DEF Refuse
    <3> QED
      BY <2>2, <3>1, <3>2, <3>3, <3>4, <3>5, <3>6 DEF Handles
  <2>3. ASSUME NEW r \in Request, Receive(c, r) PROVE FALSE
    BY <1>2, <2>3 DEF Receive, ServeOK
  <2>4. serve'[c].pc \in Handling
    BY <1>2 DEF Handling
  <2> QED
    BY <2>1, <2>2, <2>3, <2>4, HandlingBefore
<1> QED
  BY <1>1, <1>2 DEF LongOnly

LEMMA UndispatchedStep ==
    ASSUME TypeOK, UndispatchedInv, [Next]_vars
    PROVE  UndispatchedOperationEnds'
<1> OperationTypeOK /\ RoutingTypeOK /\ ServeOK
  BY ServeTyped DEF TypeOK
<1> SUFFICES ASSUME NEW id \in OperationId, Live(id)', id \notin dispatched',
                    NEW o, o = ops'[id].owner
             PROVE  serve'[o].pc \in {"publish", "fail"} /\ serve'[o].req = id
  BY DEF UndispatchedOperationEnds
<1>1. ASSUME NEW c \in Conn, Begins(c, id)
      PROVE  serve'[o].pc \in {"publish", "fail"} /\ serve'[o].req = id
  BY <1>1 DEF Begins, Goes, ServeOK
<1>2. CASE Same(id)
  <2>1. Live(id) /\ o = ops[id].owner /\ o \in Conn
    <3>1. ops[id] \in OperationRecord
      BY <1>2, ExistsTyped DEF Same, Live
    <3> QED
      BY <1>2, <3>1 DEF Same, OperationRecord
  <2>2. id \notin dispatched
    BY RoutesMove DEF Publishes, FewerRoutes
  <2>3. serve[o].pc \in {"publish", "fail"} /\ serve[o].req = id /\ id \in Long
    BY <2>1, <2>2
       DEF UndispatchedInv, UndispatchedOperationEnds, LongOnly, Live
  <2>4. CASE Handles(o)
    <3>1. CASE Publish(o)
      BY <2>3, <3>1, <2>1 DEF Publish, Unpublished, Goes, ServeOK
    <3>2. CASE FailOperation(o)
      <4>1. ReportTerminal(id, "FAILED")
        BY <2>1, <2>3, <3>2 DEF FailOperation
      <4>2. ops' = [ops EXCEPT ![id] = Moved(@, "FAILED")] \/ FailAll({id})
        BY <4>1 DEF ReportTerminal
      <4>3. ops[id] \in OperationRecord
        BY <2>1, ExistsTyped DEF Live
      <4>4. ops'[id].state = "FAILED"
        BY <2>1, <4>2, <4>3 DEF FailAll, Moved, OperationTypeOK, OperationRecord
      <4> QED
        BY <4>4 DEF Live, Terminal, TerminalState
    <3> QED
      BY <2>3, <2>4, <3>1, <3>2
         DEF Handles, Route, CheckResource, Reserve, ValidateCreate,
             CreateOperation, Refuse, At
  <2>5. CASE serve'[o] = serve[o]
    BY <2>3, <2>5
  <2>6. Handles(o) \/ serve'[o] = serve[o]
    <3>1. ASSUME NEW d \in Conn, Handles(d), d # o PROVE serve'[o] = serve[o]
      BY <2>1, <3>1
         DEF Handles, Route, CheckResource, Reserve, ValidateCreate,
             CreateOperation, Publish, Unpublished, FailOperation, Refuse,
             Goes, Rests, Closes, ServeOK
    <3>2. ASSUME NEW d \in Conn, RevokeEndpoint(d) PROVE serve'[o] = serve[o]
      BY <2>1, <2>3, <3>2 DEF RevokeEndpoint, At, Rests, ServeOK
    <3>3. ASSUME NEW d \in Conn, LeavesOrIdles(d) PROVE serve'[o] = serve[o]
      BY <2>1, <2>3, <3>3
         DEF LeavesOrIdles, Between, Leaving, Goes, Rests, Closes, ServeOK
    <3>4. ASSUME NEW d \in Conn, NEW r \in Request, Receive(d, r)
          PROVE  serve'[o] = serve[o]
      BY <2>1, <2>3, <3>4 DEF Receive, At, ServeOK
    <3>5. UNCHANGED serve => serve'[o] = serve[o]
      OBVIOUS
    <3> QED
      BY <2>1, <3>1, <3>2, <3>3, <3>4, <3>5, ServeMoves
  <2> QED
    BY <2>4, <2>5, <2>6
<1> QED
  BY <1>1, <1>2, OperationsBegin

(* An operation whose Dispatch nobody will ever see does not wait for its  *)
(* deadline: the call that created it is still there and about to fail it, *)
(* or gone with the operation ended.                                       *)
THEOREM UndispatchedEnds == Spec => []UndispatchedOperationEnds
<1>1. Init => UndispatchedInv
  <2> SUFFICES ASSUME Init PROVE UndispatchedInv
    OBVIOUS
  <2>1. \A id \in OperationId : ~Exists(id)
    BY DEF Init, OperationInit, NoOperation, Exists
  <2>2. \A c \in Conn : serve[c].pc = "idle"
    BY DEF Init, RoutingInit, Idle
  <2> QED
    BY <2>1, <2>2
       DEF UndispatchedInv, LongOnly, UndispatchedOperationEnds, Live
<1>2. TypeOK /\ UndispatchedInv /\ [Next]_vars => UndispatchedInv'
  BY LongStep, UndispatchedStep DEF UndispatchedInv
<1>3. UndispatchedInv => UndispatchedOperationEnds
  BY DEF UndispatchedInv
<1> QED
  BY <1>1, <1>2, <1>3, RoutingTyped, PTL DEF Spec

----------------------------------------------------------------------------
(***************************************************************************)
(* Every request is answered once, and its reservation given back once.    *)
(***************************************************************************)
Served(r) == serve[SourceOf[r]].req = r
Carried(g, r) == r \in todo[g].answer \cup todo[g].release
Kept(r) == Served(r) \/ r \in table \/ (\E g \in Goroutine : Carried(g, r))

(* A request is in one place at a time, and in a goroutine's errands once. *)
InOneHand ==
    /\ \A r \in table : ~Served(r)
    /\ \A g \in Goroutine, r \in Request : Carried(g, r) =>
          /\ ~Served(r) /\ r \notin table
          /\ \A h \in Goroutine : Carried(h, r) => h = g
    /\ \A g \in Goroutine : todo[g].answer \cap todo[g].release = {}

(* Nobody has answered while somebody still has to, and whoever lets go    *)
(* has answered, or had nobody to answer.                                  *)
Answers ==
    \A r \in Request :
       /\ Kept(r) => r \in received /\ responses[r] = 0
       /\ r \notin received => responses[r] = 0
       /\ r \in received /\ ~Kept(r) => responses[r] = 1 \/ Departed(SourceOf[r])
       /\ responses[r] <= 1

(* A reservation lasts from Reserve until the request is let go of.        *)
Reservations ==
    /\ \A r \in inflight : Kept(r)
    /\ table \subseteq inflight
    /\ \A g \in Goroutine, r \in Request : Carried(g, r) => r \in inflight
    /\ \A c \in Conn : serve[c].pc \in {"validate", "create", "publish"} =>
          serve[c].req \in inflight

(* Only a teardown takes on what is not to be answered: its own requests.  *)
(* And a withdrawal or a lease's end is not begun over unfinished errands. *)
Errands ==
    /\ \A g \in Goroutine, r \in Request : r \in todo[g].release =>
          g = SourceOf[r] /\ serve[g].pc \in Leaving
    /\ revoker # {} => todo["revoker"] = Nothing
    /\ lane # None => todo["lane"] = Nothing

AnswerInv == InOneHand /\ Answers /\ Reservations /\ Errands

Reserving == {"validate", "create", "publish"}

(* A step of some goroutine that is not about a request it holds.          *)
Steady ==
    /\ open' \subseteq open
    /\ \A c \in Conn :
          /\ serve'[c].req = serve[c].req
          /\ serve[c].pc \in Leaving => serve'[c].pc \in Leaving
          /\ serve'[c].pc \in Reserving =>
                serve[c].pc \in Reserving \/ serve[c].req \in inflight'

Told ==
    /\ revoker' # {} => todo'["revoker"] = Nothing
    /\ lane' # None => todo'["lane"] = Nothing

LEMMA HandsTyped ==
    ASSUME TypeOK
    PROVE  /\ \A r \in Request : SourceOf[r] \in Conn
           /\ \A c \in Conn : SourceOf[serve[c].req] = c \/ serve[c].req = None
           /\ \A c \in Conn : serve[c].req \in Request \cup {None}
           /\ \A c \in Conn : serve[c].pc \notin Handling => serve[c].req = None
           /\ \A c \in Conn : serve[c].pc \in Handling => serve[c].req \in Request
           /\ None \notin Request
           /\ Conn \subseteq Goroutine
           /\ \A g \in Goroutine : todo[g] = [answer |-> todo[g].answer,
                                              release |-> todo[g].release]
           /\ \A g \in Goroutine : /\ todo[g].answer \subseteq Request
                                   /\ todo[g].release \subseteq Request
           /\ table \subseteq Request /\ inflight \subseteq Request
           /\ received \subseteq Request
           /\ \A r \in Request : responses[r] \in Nat
<1>1. \A c \in Conn : \/ /\ serve[c].pc \in Handling /\ serve[c].req \in Request
                         /\ SourceOf[serve[c].req] = c
                      \/ /\ serve[c].pc \notin Handling /\ serve[c].req = None
  BY DEF TypeOK, RoutingTypeOK, Handling, Leaving
<1>2. \A g \in Goroutine : todo[g] \in [answer : SUBSET Request, release : SUBSET Request]
  BY DEF TypeOK, RoutingTypeOK
<1>3. /\ table \subseteq Request /\ inflight \subseteq Request
      /\ received \subseteq Request
      /\ \A r \in Request : responses[r] \in Nat
  BY DEF TypeOK, RoutingTypeOK
<1>4. /\ \A r \in Request : SourceOf[r] \in Conn
      /\ None \notin Request
  BY RoutingAssumption DEF RoutingAssumption
<1>5. Conn \subseteq Goroutine
  BY DEF Goroutine
<1> QED
  BY <1>1, <1>2, <1>3, <1>4, <1>5

(* Requests stay where they are.                                           *)
LEMMA HandsStay ==
    ASSUME TypeOK, AnswerInv, Steady, Told,
           UNCHANGED <<table, todo, received, responses>>,
           inflight \subseteq inflight',
           \A r \in inflight' \ inflight : r \in Request /\ Served(r)
    PROVE  AnswerInv'
<1>t. /\ \A r \in Request : SourceOf[r] \in Conn
      /\ table \subseteq Request
  BY HandsTyped
<1>1. \A r \in Request : Served(r)' <=> Served(r)
  BY <1>t DEF Served, Steady
<1>2. /\ \A g, r : Carried(g, r)' <=> Carried(g, r)
      /\ table' = table
  BY DEF Carried
<1>3. \A r \in Request : Kept(r)' <=> Kept(r)
  BY <1>1, <1>2 DEF Kept
<1>4. \A c \in Conn : Departed(c) => Departed(c)'
  BY DEF Departed, Steady
<1>5. InOneHand'
  BY <1>t, <1>1, <1>2 DEF AnswerInv, InOneHand
<1>6. Answers'
  BY <1>t, <1>3, <1>4 DEF AnswerInv, Answers
<1>7. Reservations'
  <2>1. \A r \in inflight' : Kept(r)'
    <3> TAKE r \in inflight'
    <3>1. CASE r \in inflight
      BY <3>1, <1>3, HandsTyped DEF AnswerInv, Reservations
    <3>2. CASE r \notin inflight
      BY <3>2, <1>1 DEF Kept
    <3> QED
      BY <3>1, <3>2
  <2>2. /\ table' \subseteq inflight'
        /\ \A g \in Goroutine, r \in Request : Carried(g, r)' => r \in inflight'
    BY <1>2 DEF AnswerInv, Reservations
  <2>3. \A c \in Conn : serve'[c].pc \in Reserving => serve'[c].req \in inflight'
    BY DEF AnswerInv, Reservations, Steady, Reserving
  <2> QED
    BY <2>1, <2>2, <2>3 DEF Reservations, Reserving
<1>8. Errands'
  BY <1>t DEF AnswerInv, Errands, Steady, Told
<1> QED
  BY <1>5, <1>6, <1>7, <1>8 DEF AnswerInv

(* A goroutine with nothing to do takes requests out of the table.         *)
LEMMA HandsTakeOn ==
    ASSUME TypeOK, AnswerInv, Steady, Told,
           NEW g \in Goroutine, NEW a, NEW b,
           todo[g] = Nothing, a \cup b \subseteq table, a \cap b = {},
           TakesOn(g, a, b), table' = table \ (a \cup b),
           UNCHANGED <<inflight, received, responses>>,
           \A r \in b : g = SourceOf[r] /\ serve'[g].pc \in Leaving
    PROVE  AnswerInv'
<1>t. /\ \A r \in Request : SourceOf[r] \in Conn
      /\ table \subseteq Request /\ inflight \subseteq Request
  BY HandsTyped
<1>1. \A r \in Request : Served(r)' <=> Served(r)
  BY <1>t DEF Served, Steady
<1>d. todo \in [Goroutine -> [answer : SUBSET Request, release : SUBSET Request]]
  BY DEF TypeOK, RoutingTypeOK
<1>2. /\ todo'[g].answer = a /\ todo'[g].release = b
      /\ \A h \in Goroutine \ {g} : todo'[h] = todo[h]
  BY <1>d DEF TakesOn
<1>3. /\ \A h \in Goroutine \ {g}, r \in Request : Carried(h, r)' <=> Carried(h, r)
      /\ \A r \in Request : Carried(g, r)' <=> r \in a \cup b
      /\ \A r \in Request : ~Carried(g, r)
  BY <1>2 DEF Carried, Nothing
<1>4. \A r \in Request : Kept(r)' <=> Kept(r)
  <2> TAKE r \in Request
  <2>1. CASE r \in a \cup b
    BY <2>1, <1>3 DEF Kept
  <2>2. CASE r \notin a \cup b
    BY <2>2, <1>1, <1>3 DEF Kept
  <2> QED
    BY <2>1, <2>2
<1>5. \A c \in Conn : Departed(c) => Departed(c)'
  BY DEF Departed, Steady
<1>6. InOneHand'
  <2>1. \A r \in table' : ~Served(r)'
    BY <1>t, <1>1 DEF AnswerInv, InOneHand
  <2>2. ASSUME NEW h \in Goroutine, NEW r \in Request, Carried(h, r)'
        PROVE  /\ ~Served(r)' /\ r \notin table'
               /\ \A k \in Goroutine : Carried(k, r)' => k = h
    <3>1. CASE r \in a \cup b
      BY <2>2, <3>1, <1>1, <1>3 DEF AnswerInv, InOneHand
    <3>2. CASE r \notin a \cup b
      BY <2>2, <3>2, <1>1, <1>3 DEF AnswerInv, InOneHand
    <3> QED
      BY <3>1, <3>2
  <2>3. \A h \in Goroutine : todo'[h].answer \cap todo'[h].release = {}
    BY <1>2 DEF AnswerInv, InOneHand
  <2> QED
    BY <2>1, <2>2, <2>3 DEF InOneHand
<1>7. Answers'
  BY <1>t, <1>4, <1>5 DEF AnswerInv, Answers
<1>8. Reservations'
  <2>1. \A r \in inflight' : Kept(r)'
    BY <1>t, <1>4 DEF AnswerInv, Reservations
  <2>2. table' \subseteq inflight'
    BY DEF AnswerInv, Reservations
  <2>3. \A h \in Goroutine, r \in Request : Carried(h, r)' => r \in inflight'
    BY <1>3 DEF AnswerInv, Reservations
  <2>4. \A c \in Conn : serve'[c].pc \in Reserving => serve'[c].req \in inflight'
    BY DEF AnswerInv, Reservations, Steady, Reserving
  <2> QED
    BY <2>1, <2>2, <2>3, <2>4 DEF Reservations, Reserving
<1>9. Errands'
  <2>1. ASSUME NEW h \in Goroutine, NEW r \in Request, r \in todo'[h].release
        PROVE  h = SourceOf[r] /\ serve'[h].pc \in Leaving
    <3>1. CASE h = g
      BY <2>1, <3>1, <1>2
    <3>2. CASE h # g
      BY <2>1, <3>2, <1>2, <1>t DEF AnswerInv, Errands, Steady
    <3> QED
      BY <3>1, <3>2
  <2> QED
    BY <2>1 DEF Errands, Told
<1> QED
  BY <1>6, <1>7, <1>8, <1>9 DEF AnswerInv

(* Whoever has a request lets go of it, and of its reservation.            *)
LEMMA HandsLetGo ==
    ASSUME TypeOK, AnswerInv, Told, NEW r \in Request,
           Kept(r), ~Kept(r)',
           \A q \in Request \ {r} : Served(q)' <=> Served(q),
           \A g \in Goroutine : /\ todo'[g].answer = todo[g].answer \ {r}
                                /\ todo'[g].release = todo[g].release \ {r},
           UNCHANGED <<table, received, open>>,
           ReleaseRequest(r),
           Respond(r) \/ (UNCHANGED responses /\ Departed(SourceOf[r])),
           \A c \in Conn :
              /\ serve[c].pc \in Leaving => serve'[c].pc \in Leaving
              /\ serve'[c].pc \in Reserving =>
                    serve'[c] = serve[c] /\ serve[c].req # r
    PROVE  AnswerInv'
<1>t. /\ \A q \in Request : SourceOf[q] \in Conn
      /\ table \subseteq Request /\ inflight \subseteq Request
      /\ \A q \in Request : responses[q] \in Nat
  BY HandsTyped
<1>1. /\ r \notin table /\ ~Served(r)'
      /\ \A g \in Goroutine : ~Carried(g, r)'
  BY DEF Kept
<1>2. \A g \in Goroutine, q \in Request \ {r} : Carried(g, q)' <=> Carried(g, q)
  BY DEF Carried
<1>3. \A q \in Request \ {r} : Kept(q)' <=> Kept(q)
  BY <1>2 DEF Kept
<1>4. \A c \in Conn : Departed(c) => Departed(c)'
  BY DEF Departed
<1>5. InOneHand'
  <2>1. \A q \in table' : ~Served(q)'
    BY <1>t, <1>1 DEF AnswerInv, InOneHand
  <2>2. ASSUME NEW h \in Goroutine, NEW q \in Request, Carried(h, q)'
        PROVE  /\ ~Served(q)' /\ q \notin table'
               /\ \A k \in Goroutine : Carried(k, q)' => k = h
    BY <2>2, <1>1, <1>2 DEF AnswerInv, InOneHand
  <2>3. \A h \in Goroutine : todo'[h].answer \cap todo'[h].release = {}
    BY DEF AnswerInv, InOneHand
  <2> QED
    BY <2>1, <2>2, <2>3 DEF InOneHand
<1>6. Answers'
  <2>r. responses \in [Request -> Nat]
    BY DEF TypeOK, RoutingTypeOK
  <2>1. \A q \in Request \ {r} : responses'[q] = responses[q]
    BY <2>r DEF Respond
  <2>2. r \in received /\ responses[r] = 0
    BY DEF AnswerInv, Answers
  <2>3. responses'[r] = 1 \/ (responses'[r] = 0 /\ Departed(SourceOf[r])')
    <3>1. CASE Respond(r) /\ SourceOf[r] \in open
      BY <3>1, <2>2, <2>r DEF Respond
    <3>2. CASE Respond(r) /\ SourceOf[r] \notin open
      BY <3>2, <2>2, <2>r DEF Respond, Departed
    <3>3. CASE UNCHANGED responses /\ Departed(SourceOf[r])
      BY <3>3, <2>2, <1>4, <1>t
    <3> QED
      BY <3>1, <3>2, <3>3
  <2>4. \A q \in Request \ {r} :
           /\ Kept(q)' => q \in received' /\ responses'[q] = 0
           /\ q \notin received' => responses'[q] = 0
           /\ q \in received' /\ ~Kept(q)' => responses'[q] = 1 \/ Departed(SourceOf[q])'
           /\ responses'[q] <= 1
    BY <2>1, <1>3, <1>4, <1>t DEF AnswerInv, Answers
  <2>5. /\ Kept(r)' => r \in received' /\ responses'[r] = 0
        /\ r \notin received' => responses'[r] = 0
        /\ r \in received' /\ ~Kept(r)' => responses'[r] = 1 \/ Departed(SourceOf[r])'
        /\ responses'[r] <= 1
    BY <2>2, <2>3
  <2> QED
    BY <2>4, <2>5 DEF Answers
<1>7. Reservations'
  <2>1. \A q \in inflight' : Kept(q)'
    BY <1>t, <1>3 DEF AnswerInv, Reservations, ReleaseRequest
  <2>2. table' \subseteq inflight'
    BY <1>1 DEF AnswerInv, Reservations, ReleaseRequest
  <2>3. \A h \in Goroutine, q \in Request : Carried(h, q)' => q \in inflight'
    BY <1>1, <1>2 DEF AnswerInv, Reservations, ReleaseRequest
  <2>4. \A c \in Conn : serve'[c].pc \in Reserving => serve'[c].req \in inflight'
    BY DEF AnswerInv, Reservations, Reserving, ReleaseRequest
  <2> QED
    BY <2>1, <2>2, <2>3, <2>4 DEF Reservations, Reserving
<1>8. Errands'
  BY <1>t DEF AnswerInv, Errands, Told
<1> QED
  BY <1>5, <1>6, <1>7, <1>8 DEF AnswerInv

LEMMA ServeGoes ==
    ASSUME TypeOK, NEW c \in Conn, NEW pc, Goes(c, pc)
    PROVE  /\ serve'[c].pc = pc /\ serve'[c].req = serve[c].req
           /\ \A d \in Conn \ {c} : serve'[d] = serve[d]
<1>1. /\ DOMAIN serve = Conn
      /\ serve[c] = [pc |-> serve[c].pc, req |-> serve[c].req]
  BY DEF TypeOK, RoutingTypeOK
<1> QED
  BY <1>1 DEF Goes

LEMMA ServeRests ==
    ASSUME TypeOK, NEW c \in Conn, Rests(c)
    PROVE  /\ serve'[c].pc = "idle" /\ serve'[c].req = None
           /\ \A d \in Conn \ {c} : serve'[d] = serve[d]
<1>1. /\ DOMAIN serve = Conn
      /\ serve[c] = [pc |-> serve[c].pc, req |-> serve[c].req]
  BY DEF TypeOK, RoutingTypeOK
<1> QED
  BY <1>1 DEF Rests, Idle

LEMMA ServeCloses ==
    ASSUME TypeOK, NEW c \in Conn, Closes(c)
    PROVE  /\ serve'[c].pc = "close" /\ serve'[c].req = None
           /\ \A d \in Conn \ {c} : serve'[d] = serve[d]
<1>1. /\ DOMAIN serve = Conn
      /\ serve[c] = [pc |-> serve[c].pc, req |-> serve[c].req]
  BY DEF TypeOK, RoutingTypeOK
<1> QED
  BY <1>1 DEF Closes

LEMMA Undisturbed ==
    ASSUME AnswerInv, UNCHANGED <<revoker, lane, todo>>
    PROVE  Told
BY DEF AnswerInv, Errands, Told

(* The steps of a connection's goroutine that move no request.             *)
LEMMA StepsAside ==
    ASSUME TypeOK, AnswerInv, NEW c \in Conn,
           \/ Route(c) \/ CheckResource(c) \/ ValidateCreate(c)
           \/ CreateOperation(c) \/ FailOperation(c) \/ RevokeConn(c)
           \/ EndpointsConnClosed(c) \/ CloseOutbox(c) \/ UnregisterEndpoint(c)
    PROVE  AnswerInv'
<1>1. /\ UNCHANGED <<table, todo, received, responses, inflight, revoker, lane>>
      /\ open' \subseteq open
      /\ \E pc : /\ Goes(c, pc)
                 /\ serve[c].pc \in Leaving => pc \in Leaving
                 /\ pc \in Reserving => serve[c].pc \in Reserving
  <2>1. CASE Route(c)
    <3>1. \E pc \in {"refuse", "check", "reserve"} : Goes(c, pc)
      BY <2>1 DEF Route
    <3> QED
      BY <2>1, <3>1 DEF Route, At, routes, frames, others, Leaving, Reserving
  <2>2. CASE CheckResource(c)
    <3>1. \E pc \in {"refuse", "reserve"} : Goes(c, pc)
      BY <2>2 DEF CheckResource
    <3> QED
      BY <2>2, <3>1 DEF CheckResource, At, routes, frames, others, Leaving, Reserving
  <2>3. CASE ValidateCreate(c)
    <3>1. \E pc \in {"refuse", "create"} : Goes(c, pc)
      BY <2>3 DEF ValidateCreate
    <3> QED
      BY <2>3, <3>1 DEF ValidateCreate, At, routes, frames, others, Leaving, Reserving
  <2>4. CASE CreateOperation(c)
    <3>1. \E pc \in {"refuse", "publish"} : Goes(c, pc)
      BY <2>4 DEF CreateOperation
    <3> QED
      BY <2>4, <3>1
      DEF CreateOperation, At, routes, frames, others, Leaving, Reserving
  <2>5. CASE FailOperation(c)
    BY <2>5 DEF FailOperation, At, routes, frames, others, Leaving, Reserving
  <2>6. CASE RevokeConn(c)
    <3>1. \E pc \in {"close control", "close endpoint"} : Goes(c, pc)
      BY <2>6 DEF RevokeConn
    <3> QED
      BY <2>6, <3>1 DEF RevokeConn, At, routes, frames, others, Leaving, Reserving
  <2>7. CASE EndpointsConnClosed(c)
    <3>1. Goes(c, "close outbox")
      BY <2>7 DEF EndpointsConnClosed
    <3>2. /\ UNCHANGED <<table, todo, received, responses, inflight, revoker, lane>>
          /\ open' \subseteq open
      BY <2>7 DEF EndpointsConnClosed, routes, frames, others
    <3>3. "close outbox" \in Leaving /\ "close outbox" \notin Reserving
      BY DEF Leaving, Reserving
    <3> QED
      BY <3>1, <3>2, <3>3
  <2>8. CASE CloseOutbox(c)
    <3>1. Goes(c, "gone")
      BY <2>8 DEF CloseOutbox
    <3>2. /\ UNCHANGED <<table, todo, received, responses, inflight, revoker, lane>>
          /\ open' \subseteq open
      BY <2>8 DEF CloseOutbox, routes, others
    <3>3. "gone" \in Leaving /\ "gone" \notin Reserving
      BY DEF Leaving, Reserving
    <3> QED
      BY <3>1, <3>2, <3>3
  <2>9. CASE UnregisterEndpoint(c)
    BY <2>9 DEF UnregisterEndpoint, At, routes, frames, others, Leaving, Reserving
  <2> QED
    BY <2>1, <2>2, <2>3, <2>4, <2>5, <2>6, <2>7, <2>8, <2>9
<1>2. PICK pc : /\ Goes(c, pc)
                /\ serve[c].pc \in Leaving => pc \in Leaving
                /\ pc \in Reserving => serve[c].pc \in Reserving
  BY <1>1
<1>3. /\ serve'[c].pc = pc /\ serve'[c].req = serve[c].req
      /\ \A d \in Conn \ {c} : serve'[d] = serve[d]
  BY <1>2, ServeGoes
<1>4. Steady
  BY <1>1, <1>2, <1>3 DEF Steady
<1>5. Told
  BY <1>1, Undisturbed
<1> QED
  BY <1>1, <1>4, <1>5, HandsStay

(* A connection's end, its lease's end, and a withdrawal: nobody's request *)
(* is moved yet.                                                           *)
LEMMA HangsUp ==
    ASSUME TypeOK, AnswerInv, NEW c \in Conn, At(c, "idle"), Closes(c),
           UNCHANGED <<table, todo, received, responses, inflight, revoker,
                       lane, open>>
    PROVE  AnswerInv'
<1>1. /\ serve'[c].pc = "close" /\ serve'[c].req = None
      /\ \A d \in Conn \ {c} : serve'[d] = serve[d]
  BY ServeCloses
<1>2. serve[c].req = None
  BY HandsTyped DEF At, Handling
<1>3. Steady
  BY <1>1, <1>2 DEF Steady, At, Leaving, Reserving
<1> QED
  BY <1>3, Undisturbed, HandsStay

LEMMA OnlyAuthority ==
    ASSUME TypeOK, AnswerInv,
           UNCHANGED <<table, todo, received, responses, inflight, serve>>,
           open' \subseteq open,
           UNCHANGED revoker \/ todo["revoker"] = Nothing,
           UNCHANGED lane \/ todo["lane"] = Nothing
    PROVE  AnswerInv'
<1>1. Steady
  BY DEF Steady
<1>2. Told
  BY DEF AnswerInv, Errands, Told
<1> QED
  BY <1>1, <1>2, HandsStay

LEMMA AuthorityEnds ==
    ASSUME TypeOK, AnswerInv,
           \/ \E c \in Conn : LeaseEnds(c) \/ ForgetLease(c) \/ OutboxCloses(c)
           \/ \E rs \in Withdrawal : Withdraw(rs)
           \/ Operations
           \/ UNCHANGED vars
    PROVE  AnswerInv'
<1>1. ASSUME NEW c \in Conn, LeaseEnds(c) PROVE AnswerInv'
  BY <1>1, OnlyAuthority DEF LeaseEnds, routes, frames, others
<1>2. ASSUME NEW c \in Conn, ForgetLease(c) PROVE AnswerInv'
  BY <1>2, OnlyAuthority DEF ForgetLease, routes, frames
<1>3. ASSUME NEW c \in Conn, OutboxCloses(c) PROVE AnswerInv'
  BY <1>3, OnlyAuthority DEF OutboxCloses, routes, others
<1>4. ASSUME NEW rs \in Withdrawal, Withdraw(rs) PROVE AnswerInv'
  BY <1>4, OnlyAuthority DEF Withdraw, routes, frames
<1>5. CASE Operations \/ UNCHANGED vars
  BY <1>5, OnlyAuthority DEF Operations, vars, routingVars
<1> QED
  BY <1>1, <1>2, <1>3, <1>4, <1>5

----------------------------------------------------------------------------
(* A request comes in, is given its reservation, and goes out as a route.  *)
LEMMA ReceiveAnswers ==
    ASSUME TypeOK, AnswerInv, NEW c \in Conn, NEW r \in Request, Receive(c, r)
    PROVE  AnswerInv'
<1>1. /\ serve[c].pc = "idle" /\ serve[c].req = None
      /\ SourceOf[r] = c /\ r \notin received
      /\ UNCHANGED <<table, todo, open, responses, inflight, revoker, lane>>
      /\ received' = received \cup {r}
  BY HandsTyped DEF Receive, At, Handling, frames, others
<1>2. /\ serve'[c].pc = "route" /\ serve'[c].req = r
      /\ \A d \in Conn \ {c} : serve'[d] = serve[d]
  BY DEF Receive, TypeOK, RoutingTypeOK
<1>t. /\ \A q \in Request : SourceOf[q] \in Conn
      /\ table \subseteq Request /\ inflight \subseteq Request
      /\ None \notin Request
  BY HandsTyped
<1>3. /\ ~Kept(r) /\ responses[r] = 0
  BY <1>1 DEF AnswerInv, Answers
<1>4. /\ \A q \in Request \ {r} : Served(q)' <=> Served(q)
      /\ Served(r)'
  BY <1>1, <1>2, <1>t DEF Served
<1>5. \A g, q : Carried(g, q)' <=> Carried(g, q)
  BY <1>1 DEF Carried
<1>6. /\ \A q \in Request \ {r} : Kept(q)' <=> Kept(q)
      /\ Kept(r)'
  BY <1>1, <1>4, <1>5 DEF Kept
<1>7. \A d \in Conn : Departed(d) => Departed(d)'
  BY <1>1, <1>2 DEF Departed, Leaving
<1>8. InOneHand'
  <2>1. /\ r \notin table
        /\ \A g \in Goroutine : ~Carried(g, r)
    BY <1>3 DEF Kept
  <2> QED
    BY <2>1, <1>1, <1>4, <1>5, <1>t DEF AnswerInv, InOneHand
<1>9. Answers'
  <2>1. \A q \in Request \ {r} : q \in received' <=> q \in received
    BY <1>1
  <2>2. responses'[r] = 0 /\ r \in received'
    BY <1>1, <1>3
  <2> QED
    BY <2>1, <2>2, <1>1, <1>6, <1>7, <1>t DEF AnswerInv, Answers
<1>10. Reservations'
  <2>1. r \notin inflight
    BY <1>3 DEF AnswerInv, Reservations
  <2>2. \A d \in Conn : serve'[d].pc \in Reserving => serve'[d].req \in inflight'
    BY <1>1, <1>2 DEF AnswerInv, Reservations, Reserving
  <2> QED
    BY <2>1, <2>2, <1>1, <1>5, <1>6, <1>t DEF AnswerInv, Reservations, Reserving
<1>11. Errands'
  <2>1. \A g \in Goroutine, q \in Request : q \in todo[g].release =>
           g \in Conn /\ g = SourceOf[q] /\ serve[g].pc \in Leaving
    BY <1>t DEF AnswerInv, Errands
  <2>2. \A d \in Conn : serve[d].pc \in Leaving => serve'[d].pc \in Leaving
    BY <1>1, <1>2 DEF Leaving
  <2> QED
    BY <1>1, <2>1, <2>2 DEF AnswerInv, Errands
<1> QED
  BY <1>8, <1>9, <1>10, <1>11 DEF AnswerInv

LEMMA ReserveAnswers ==
    ASSUME TypeOK, AnswerInv, NEW c \in Conn, Reserve(c)
    PROVE  AnswerInv'
<1>1. /\ serve[c].pc = "reserve" /\ serve[c].req \in Request
      /\ SourceOf[serve[c].req] = c
      /\ UNCHANGED <<table, todo, open, received, responses, revoker, lane>>
  BY HandsTyped DEF Reserve, At, Handling, routes, frames, others
<1>2. \/ UNCHANGED inflight /\ Goes(c, "refuse")
      \/ /\ inflight' = inflight \cup {serve[c].req}
         /\ \E pc \in {"refuse", "validate", "publish"} : Goes(c, pc)
  BY DEF Reserve
<1>3. /\ Steady
      /\ inflight \subseteq inflight'
      /\ inflight' \subseteq inflight \cup {serve[c].req}
  <2>1. CASE UNCHANGED inflight /\ Goes(c, "refuse")
    <3>1. /\ serve'[c].pc = "refuse" /\ serve'[c].req = serve[c].req
          /\ \A d \in Conn \ {c} : serve'[d] = serve[d]
      BY <2>1, ServeGoes
    <3> QED
      BY <1>1, <2>1, <3>1 DEF Steady, Leaving, Reserving
  <2>2. ASSUME inflight' = inflight \cup {serve[c].req},
               NEW pc \in {"refuse", "validate", "publish"}, Goes(c, pc)
        PROVE  /\ Steady
               /\ inflight \subseteq inflight'
               /\ inflight' \subseteq inflight \cup {serve[c].req}
    <3>1. /\ serve'[c].pc = pc /\ serve'[c].req = serve[c].req
          /\ \A d \in Conn \ {c} : serve'[d] = serve[d]
      BY <2>2, ServeGoes
    <3> QED
      BY <1>1, <2>2, <3>1 DEF Steady, Leaving, Reserving
  <2> QED
    BY <1>2, <2>1, <2>2
<1>4. Told
  BY <1>1, Undisturbed
<1>5. \A r \in inflight' \ inflight : r \in Request /\ Served(r)
  BY <1>1, <1>3 DEF Served
<1> QED
  BY <1>1, <1>3, <1>4, <1>5, HandsStay

LEMMA PublishAnswers ==
    ASSUME TypeOK, AnswerInv, NEW c \in Conn, Publish(c)
    PROVE  AnswerInv'
<1> DEFINE Went(r) == /\ r = serve[c].req /\ r \in Request
                      /\ table' = table \cup {r} /\ Rests(c)
<1>1. /\ serve[c].pc = "publish" /\ serve[c].req \in Request
      /\ SourceOf[serve[c].req] = c
      /\ UNCHANGED <<todo, open, received, responses, inflight, revoker, lane>>
  BY HandsTyped DEF Publish, At, Handling, routes, frames, others
<1>2. CASE \E r : Went(r)
  <2> PICK r : Went(r)
    BY <1>2
  <2>1. /\ serve'[c].pc = "idle" /\ serve'[c].req = None
        /\ \A d \in Conn \ {c} : serve'[d] = serve[d]
    BY ServeRests
  <2>t. /\ \A q \in Request : SourceOf[q] \in Conn
        /\ table \subseteq Request /\ inflight \subseteq Request
        /\ None \notin Request
    BY HandsTyped
  <2>2. /\ Served(r) /\ r \in inflight
    BY <1>1 DEF Served, AnswerInv, Reservations
  <2>3. /\ r \notin table
        /\ \A g \in Goroutine : ~Carried(g, r)
    BY <2>2 DEF AnswerInv, InOneHand
  <2>4. /\ \A q \in Request \ {r} : Served(q)' <=> Served(q)
        /\ ~Served(r)'
    BY <1>1, <2>1, <2>t DEF Served
  <2>5. \A g, q : Carried(g, q)' <=> Carried(g, q)
    BY <1>1 DEF Carried
  <2>6. \A q \in Request : Kept(q)' <=> Kept(q)
    <3>1. Kept(r) /\ Kept(r)'
      BY <2>2 DEF Kept
    <3>2. \A q \in Request \ {r} : Kept(q)' <=> Kept(q)
      BY <2>4, <2>5 DEF Kept
    <3> QED
      BY <3>1, <3>2
  <2>7. \A d \in Conn : Departed(d) => Departed(d)'
    BY <1>1, <2>1 DEF Departed, Leaving
  <2>8. InOneHand'
    BY <1>1, <2>3, <2>4, <2>5, <2>t DEF AnswerInv, InOneHand
  <2>9. Answers'
    BY <1>1, <2>6, <2>7, <2>t DEF AnswerInv, Answers
  <2>10. Reservations'
    <3>1. \A d \in Conn : serve'[d].pc \in Reserving => serve'[d].req \in inflight'
      BY <1>1, <2>1 DEF AnswerInv, Reservations, Reserving
    <3> QED
      BY <3>1, <1>1, <2>2, <2>5, <2>6, <2>t DEF AnswerInv, Reservations, Reserving
  <2>11. Errands'
    <3>1. /\ \A g \in Goroutine, q \in Request : q \in todo[g].release =>
                g = SourceOf[q] /\ serve[g].pc \in Leaving
          /\ revoker # {} => todo["revoker"] = Nothing
          /\ lane # None => todo["lane"] = Nothing
      BY DEF AnswerInv, Errands
    <3>2. UNCHANGED <<todo, revoker, lane>> /\ serve[c].pc \notin Leaving
      BY <1>1 DEF Leaving
    <3>3. ASSUME NEW g \in Goroutine, NEW q \in Request, q \in todo[g].release
          PROVE  g = SourceOf[q] /\ serve'[g].pc \in Leaving
      BY <2>1, <2>t, <3>1, <3>2, <3>3
    <3> QED
      BY <3>1, <3>2, <3>3 DEF Errands
  <2> QED
    BY <2>8, <2>9, <2>10, <2>11 DEF AnswerInv
<1>3. CASE Unpublished(c) /\ UNCHANGED table
  <2>1. \E pc \in {"fail", "refuse"} : Goes(c, pc)
    BY <1>3 DEF Unpublished
  <2>2. PICK pc \in {"fail", "refuse"} : Goes(c, pc)
    BY <2>1
  <2>3. /\ serve'[c].pc = pc /\ serve'[c].req = serve[c].req
        /\ \A d \in Conn \ {c} : serve'[d] = serve[d]
    BY <2>2, ServeGoes
  <2>4. Steady
    BY <1>1, <2>3 DEF Steady, Leaving, Reserving
  <2> QED
    BY <1>1, <1>3, <2>4, Undisturbed, HandsStay
<1>4. (\E r : Went(r)) \/ (Unpublished(c) /\ UNCHANGED table)
  BY <1>1 DEF Publish
<1> QED
  BY <1>2, <1>3, <1>4

----------------------------------------------------------------------------
(* A route leaves the table with whoever is to answer for it.              *)
LEMMA ResultAnswers ==
    ASSUME TypeOK, AnswerInv, NEW c \in Conn, NEW r \in Request,
           DispatchResult(c, r)
    PROVE  AnswerInv'
<1>1. /\ serve[c].pc = "idle" /\ todo[c] = Nothing
      /\ UNCHANGED <<open, responses, revoker, lane, inflight, received>>
  BY DEF DispatchResult, At, frames
<1>2. CASE Closes(c) /\ UNCHANGED <<table, todo>>
  BY <1>1, <1>2, HangsUp DEF At
<1>3. CASE Complete(r) /\ TakesOn(c, {r}, {}) /\ Goes(c, "answering")
  <2>1. /\ serve'[c].pc = "answering" /\ serve'[c].req = serve[c].req
        /\ \A d \in Conn \ {c} : serve'[d] = serve[d]
    BY <1>3, ServeGoes
  <2>2. Steady
    BY <1>1, <2>1 DEF Steady, Leaving, Reserving
  <2>3. Told
    <3>1. "revoker" # c /\ "lane" # c
      BY RoutingAssumption DEF RoutingAssumption
    <3>2. DOMAIN todo = Goroutine
      BY DEF TypeOK, RoutingTypeOK
    <3> QED
      BY <1>1, <1>3, <3>1, <3>2
      DEF TakesOn, AnswerInv, Errands, Told, Goroutine
  <2>4. r \in table
    BY DEF DispatchResult
  <2>5. table' = table \ ({r} \cup {})
    BY <1>3 DEF Complete
  <2>6. c \in Goroutine
    BY DEF Goroutine
  <2> QED
    BY <1>1, <1>3, <2>2, <2>3, <2>4, <2>5, <2>6, HandsTakeOn
<1> QED
  BY <1>2, <1>3 DEF DispatchResult

LEMMA ReapAnswers ==
    ASSUME TypeOK, AnswerInv, Reap
    PROVE  AnswerInv'
<1>1. /\ todo["reaper"] = Nothing
      /\ UNCHANGED <<open, responses, revoker, lane, inflight, received, serve>>
      /\ table' = table \ (table \cap past)
      /\ TakesOn("reaper", table \cap past, {})
  BY DEF Reap, frames
<1>2. Steady
  BY <1>1 DEF Steady
<1>3. Told
  <2>1. DOMAIN todo = Goroutine
    BY DEF TypeOK, RoutingTypeOK
  <2> QED
    BY <1>1, <2>1 DEF TakesOn, AnswerInv, Errands, Told
<1>4. /\ "reaper" \in Goroutine
      /\ table' = table \ ((table \cap past) \cup {})
  BY <1>1 DEF Goroutine
<1> QED
  BY <1>1, <1>2, <1>3, <1>4, HandsTakeOn

LEMMA RevokeAnswers ==
    ASSUME TypeOK, AnswerInv, Steady, Told,
           NEW g \in Goroutine, NEW rs, todo[g] = Nothing, Revoke(g, rs),
           UNCHANGED <<inflight, received, responses>>
    PROVE  AnswerInv'
<1>1. /\ TakesOn(g, table \cap rs, {})
      /\ table' = table \ ((table \cap rs) \cup {})
  BY DEF Revoke
<1> QED
  BY <1>1, HandsTakeOn

LEMMA WithdrawalAnswers ==
    ASSUME TypeOK, AnswerInv, RevokeRoutes \/ RevokeControl
    PROVE  AnswerInv'
<1>t. DOMAIN todo = Goroutine
  BY DEF TypeOK, RoutingTypeOK
<1>g. "revoker" \in Goroutine /\ "lane" \in Goroutine
  BY DEF Goroutine
<1>1. CASE RevokeRoutes
  <2>1. /\ todo["revoker"] = Nothing /\ Revoke("revoker", revoker)
        /\ revoker' = {}
        /\ UNCHANGED <<open, responses, lane, inflight, serve, received>>
    BY <1>1 DEF RevokeRoutes, frames, AnswerInv, Errands
  <2>2. Steady
    BY <2>1 DEF Steady
  <2>3. Told
    BY <2>1, <1>t DEF Revoke, TakesOn, AnswerInv, Errands, Told
  <2> QED
    BY <1>g, <2>1, <2>2, <2>3, RevokeAnswers
<1>2. CASE RevokeControl
  <2>1. /\ todo["lane"] = Nothing /\ Revoke("lane", UnderLease(lane))
        /\ lane' = None
        /\ UNCHANGED <<open, responses, revoker, inflight, serve, received>>
    BY <1>2 DEF RevokeControl, frames, AnswerInv, Errands
  <2>2. Steady
    BY <2>1 DEF Steady
  <2>3. Told
    BY <2>1, <1>t DEF Revoke, TakesOn, AnswerInv, Errands, Told
  <2> QED
    BY <1>g, <2>1, <2>2, <2>3, RevokeAnswers
<1> QED
  BY <1>1, <1>2

LEMMA ConnWithdraws ==
    ASSUME TypeOK, AnswerInv, NEW c \in Conn,
           RevokeEndpoint(c) \/ RevokeOwnControl(c)
    PROVE  AnswerInv'
<1>t. DOMAIN todo = Goroutine
  BY DEF TypeOK, RoutingTypeOK
<1>1. /\ c \in Goroutine /\ "revoker" # c /\ "lane" # c
  BY RoutingAssumption DEF RoutingAssumption, Goroutine
<1>2. /\ todo[c] = Nothing
      /\ \E rs : Revoke(c, rs)
      /\ UNCHANGED <<open, responses, revoker, lane, inflight, received>>
  BY DEF RevokeEndpoint, RevokeOwnControl, At, frames
<1>3. Steady
  <2>1. CASE RevokeEndpoint(c)
    <3>1. /\ serve'[c].pc = "idle" /\ serve'[c].req = None
          /\ \A d \in Conn \ {c} : serve'[d] = serve[d]
      BY <2>1, ServeRests DEF RevokeEndpoint
    <3>2. serve[c].pc = "unregister" /\ serve[c].req = None
      BY <2>1, HandsTyped DEF RevokeEndpoint, At, Handling
    <3> QED
      BY <1>2, <3>1, <3>2 DEF Steady, Leaving, Reserving
  <2>2. CASE RevokeOwnControl(c)
    <3>1. /\ serve'[c].pc = "close endpoint" /\ serve'[c].req = serve[c].req
          /\ \A d \in Conn \ {c} : serve'[d] = serve[d]
      BY <2>2, ServeGoes DEF RevokeOwnControl
    <3> QED
      BY <1>2, <3>1 DEF Steady, Leaving, Reserving
  <2> QED
    BY <2>1, <2>2
<1>4. Told
  BY <1>t, <1>1, <1>2 DEF Revoke, TakesOn, AnswerInv, Errands, Told, Goroutine
<1> QED
  BY <1>1, <1>2, <1>3, <1>4, RevokeAnswers

LEMMA TeardownAnswers ==
    ASSUME TypeOK, AnswerInv, NEW c \in Conn, DispatchConnClosed(c)
    PROVE  AnswerInv'
<1> DEFINE asTarget == {r \in table : TargetOf[r] = c}
           asSource == {r \in table : SourceOf[r] = c} \ asTarget
<1>t. DOMAIN todo = Goroutine
  BY DEF TypeOK, RoutingTypeOK
<1>1. /\ c \in Goroutine /\ "revoker" # c /\ "lane" # c
  BY RoutingAssumption DEF RoutingAssumption, Goroutine
<1>2. /\ todo[c] = Nothing /\ serve[c].pc = "close"
      /\ table' = table \ (asTarget \cup asSource)
      /\ TakesOn(c, asTarget, asSource)
      /\ Goes(c, "close lease")
      /\ UNCHANGED <<open, responses, revoker, lane, inflight, received>>
  BY DEF DispatchConnClosed, At, frames
<1>3. /\ serve'[c].pc = "close lease" /\ serve'[c].req = serve[c].req
      /\ \A d \in Conn \ {c} : serve'[d] = serve[d]
  BY <1>2, ServeGoes
<1>4. Steady
  BY <1>2, <1>3 DEF Steady, Leaving, Reserving
<1>5. Told
  BY <1>t, <1>1, <1>2 DEF TakesOn, AnswerInv, Errands, Told, Goroutine
<1>6. \A r \in asSource : c = SourceOf[r] /\ serve'[c].pc \in Leaving
  BY <1>3 DEF Leaving
<1>7. asTarget \cup asSource \subseteq table /\ asTarget \cap asSource = {}
  OBVIOUS
<1> HIDE DEF asTarget, asSource
<1> QED
  BY <1>1, <1>2, <1>4, <1>5, <1>6, <1>7, HandsTakeOn

----------------------------------------------------------------------------
(* And is answered, or given back.                                         *)
LEMMA RefuseAnswers ==
    ASSUME TypeOK, AnswerInv, NEW c \in Conn, Refuse(c)
    PROVE  AnswerInv'
<1> DEFINE r == serve[c].req
<1>1. /\ serve[c].pc = "refuse" /\ r \in Request /\ SourceOf[r] = c
      /\ None \notin Request
      /\ \A q \in Request : SourceOf[q] \in Conn
  BY HandsTyped DEF Refuse, At, Handling
<1>2. /\ UNCHANGED <<table, todo, received, open, revoker, lane>>
      /\ ReleaseRequest(r) /\ Respond(r)
      /\ Rests(c) \/ Closes(c)
  BY DEF Refuse, others
<1>3. /\ serve'[c].pc \in {"idle", "close"} /\ serve'[c].req = None
      /\ \A d \in Conn \ {c} : serve'[d] = serve[d]
  BY <1>2, ServeRests, ServeCloses
<1>4. Served(r)
  BY <1>1 DEF Served
<1>5. /\ r \notin table
      /\ \A g \in Goroutine : ~Carried(g, r)
  BY <1>1, <1>4 DEF AnswerInv, InOneHand
<1>6. Kept(r)
  BY <1>4 DEF Kept
<1>7. \A q \in Request \ {r} : Served(q)' <=> Served(q)
  BY <1>1, <1>3 DEF Served
<1>8. \A q \in Request : q = r =>
         /\ ~(serve'[SourceOf[q]].req = q)
         /\ ~(q \in table')
         /\ \A g \in Goroutine : q \notin todo'[g].answer \cup todo'[g].release
  BY <1>1, <1>2, <1>3, <1>5 DEF Carried
<1>9. \A g \in Goroutine : /\ todo'[g].answer = todo[g].answer \ {r}
                           /\ todo'[g].release = todo[g].release \ {r}
  BY <1>2, <1>5 DEF Carried
<1>10. \A d \in Conn :
         /\ serve[d].pc \in Leaving => serve'[d].pc \in Leaving
         /\ serve'[d].pc \in Reserving => serve'[d] = serve[d] /\ serve[d].req # r
  <2>1. serve[c].pc \notin Leaving /\ serve'[c].pc \notin Reserving
    BY <1>1, <1>3 DEF Leaving, Reserving
  <2>2. \A d \in Conn \ {c} : serve[d].pc \in Reserving => SourceOf[serve[d].req] = d
    BY HandsTyped DEF Reserving, Handling
  <2> QED
    BY <1>1, <1>3, <2>1, <2>2
<1>11. Told
  BY <1>2, Undisturbed
<1>12. PICK q \in Request : q = r
  BY <1>1
<1>13. ~Kept(q)'
  BY <1>8, <1>12 DEF Kept, Served, Carried
<1> HIDE DEF r
<1> QED
  BY <1>2, <1>6, <1>7, <1>9, <1>10, <1>11, <1>12, <1>13, HandsLetGo

LEMMA AnswerAnswers ==
    ASSUME TypeOK, AnswerInv, NEW g \in Goroutine, NEW r \in Request,
           \/ Answer(g, r)
           \/ Release(g, r)
    PROVE  AnswerInv'
<1>t. /\ todo \in [Goroutine -> [answer : SUBSET Request, release : SUBSET Request]]
      /\ serve \in [Conn -> [pc : Handling \cup Leaving \cup
                                  {"idle", "answering", "unregister"},
                             req : Request \cup {None}]]
  BY DEF TypeOK, RoutingTypeOK
<1>1. /\ Carried(g, r)
      /\ todo[g].answer \cap todo[g].release = {}
  BY DEF Answer, Release, Carried, AnswerInv, InOneHand
<1>2. /\ ~Served(r) /\ r \notin table
      /\ \A h \in Goroutine \ {g} : ~Carried(h, r)
  BY <1>1 DEF AnswerInv, InOneHand
<1>3. Kept(r)
  BY <1>1 DEF Kept
<1>4. \A h \in Goroutine : /\ todo'[h].answer = todo[h].answer \ {r}
                           /\ todo'[h].release = todo[h].release \ {r}
  <2>1. CASE Answer(g, r)
    <3>1. /\ todo'[g].answer = todo[g].answer \ {r}
          /\ todo'[g].release = todo[g].release
          /\ \A h \in Goroutine \ {g} : todo'[h] = todo[h]
      BY <1>t, <2>1 DEF Answer
    <3>2. r \notin todo[g].release
      BY <1>1, <2>1 DEF Answer
    <3> QED
      BY <3>1, <3>2, <1>2 DEF Carried
  <2>2. CASE Release(g, r)
    <3>1. /\ todo'[g].answer = todo[g].answer
          /\ todo'[g].release = todo[g].release \ {r}
          /\ \A h \in Goroutine \ {g} : todo'[h] = todo[h]
      BY <1>t, <2>2 DEF Release
    <3>2. r \notin todo[g].answer
      BY <1>1, <2>2 DEF Release
    <3> QED
      BY <3>1, <3>2, <1>2 DEF Carried
  <2> QED
    BY <2>1, <2>2
<1>5. /\ UNCHANGED <<table, received, open, revoker, lane>>
      /\ ReleaseRequest(r)
  BY DEF Answer, Release, routes, frames
<1>6. Respond(r) \/ (UNCHANGED responses /\ Departed(SourceOf[r]))
  <2>1. CASE Answer(g, r)
    BY <2>1 DEF Answer
  <2>2. CASE Release(g, r)
    BY <2>2 DEF Release, frames, AnswerInv, Errands, Departed
  <2> QED
    BY <2>1, <2>2
<1>7. \A d \in Conn : /\ serve'[d].req = serve[d].req
                      /\ serve[d].pc \in Leaving => serve'[d].pc \in Leaving
                      /\ serve'[d].pc \in Reserving => serve'[d] = serve[d]
  <2>1. CASE UNCHANGED serve
    BY <2>1
  <2>2. CASE g \in Conn /\ serve[g].pc = "answering" /\ (Rests(g) \/ Closes(g))
    <3>1. /\ serve'[g].pc \in {"idle", "close"} /\ serve'[g].req = None
          /\ \A d \in Conn \ {g} : serve'[d] = serve[d]
      BY <2>2, ServeRests, ServeCloses
    <3>2. serve[g].req = None
      BY <2>2, HandsTyped DEF Handling
    <3> QED
      BY <2>2, <3>1, <3>2 DEF Leaving, Reserving
  <2> QED
    BY <2>1, <2>2 DEF Answer, Release
<1>8. \A q \in Request : Served(q)' <=> Served(q)
  BY <1>7, HandsTyped DEF Served
<1>9. ~Kept(r)'
  <2>1. \A h \in Goroutine : ~Carried(h, r)'
    BY <1>4 DEF Carried
  <2> QED
    BY <2>1, <1>2, <1>5, <1>8 DEF Kept
<1>10. \A d \in Conn : serve[d].pc \in Reserving => serve[d].req # r
  <2>1. \A d \in Conn : serve[d].pc \in Reserving => SourceOf[serve[d].req] = d
    BY HandsTyped DEF Reserving, Handling
  <2> QED
    BY <2>1, <1>2 DEF Served
<1>11. Told
  <2>1. \A h \in Goroutine : todo[h] = Nothing => todo'[h] = Nothing
    <3> SUFFICES ASSUME NEW h \in Goroutine, todo[h] = Nothing
                 PROVE  todo'[h] = Nothing
      OBVIOUS
    <3>1. h # g
      BY <1>1 DEF Carried, Nothing
    <3> QED
      BY <3>1, <1>t DEF Answer, Release
  <2>2. "revoker" \in Goroutine /\ "lane" \in Goroutine
    BY DEF Goroutine
  <2> QED
    BY <2>1, <2>2, <1>5 DEF AnswerInv, Errands, Told
<1> QED
  BY <1>3, <1>4, <1>5, <1>6, <1>7, <1>8, <1>9, <1>10, <1>11, HandsLetGo

LEMMA InitAnswers == Init => AnswerInv
<1> SUFFICES ASSUME Init PROVE AnswerInv
  OBVIOUS
<1>1. /\ table = {} /\ inflight = {} /\ received = {} /\ revoker = {} /\ lane = None
      /\ \A c \in Conn : serve[c].pc = "idle" /\ serve[c].req = None
      /\ \A g \in Goroutine : todo[g].answer = {} /\ todo[g].release = {}
      /\ \A r \in Request : responses[r] = 0
  BY DEF Init, RoutingInit, Idle, Nothing
<1>2. /\ \A r \in Request : SourceOf[r] \in Conn
      /\ None \notin Request
  BY RoutingAssumption DEF RoutingAssumption
<1>3. \A r \in Request : ~Kept(r)
  BY <1>1, <1>2 DEF Kept, Served, Carried
<1>4. InOneHand
  BY <1>1, <1>2 DEF InOneHand, Carried
<1>5. Answers
  BY <1>1, <1>3 DEF Answers
<1>6. Reservations
  BY <1>1 DEF Reservations, Carried
<1>7. Errands
  BY <1>1 DEF Errands
<1> QED
  BY <1>4, <1>5, <1>6, <1>7 DEF AnswerInv

LEMMA NextAnswers ==
    ASSUME TypeOK, AnswerInv, [Next]_vars
    PROVE  AnswerInv'
<1>1. ASSUME NEW c \in Conn, ServeStep(c) PROVE AnswerInv'
  BY <1>1, StepsAside, ReserveAnswers, PublishAnswers, RefuseAnswers,
     ConnWithdraws, TeardownAnswers DEF ServeStep
<1>2. ASSUME NEW c \in Conn, HangUp(c) PROVE AnswerInv'
  BY <1>2, HangsUp DEF HangUp, routes, frames, others
<1>3. ASSUME NEW c \in Conn, UnregisterEndpoint(c) PROVE AnswerInv'
  BY <1>3, StepsAside
<1>4. ASSUME NEW c \in Conn, NEW r \in Request, Receive(c, r) \/ DispatchResult(c, r)
      PROVE  AnswerInv'
  BY <1>4, ReceiveAnswers, ResultAnswers
<1>5. ASSUME NEW g \in Goroutine, NEW r \in Request, Answer(g, r) \/ Release(g, r)
      PROVE  AnswerInv'
  BY <1>5, AnswerAnswers
<1>6. CASE \/ \E c \in Conn : LeaseEnds(c) \/ ForgetLease(c) \/ OutboxCloses(c)
           \/ \E rs \in Withdrawal : Withdraw(rs)
           \/ Operations
           \/ UNCHANGED vars
  BY <1>6, AuthorityEnds
<1>7. CASE Reap \/ RevokeRoutes \/ RevokeControl
  BY <1>7, ReapAnswers, WithdrawalAnswers
<1> QED
  BY <1>1, <1>2, <1>3, <1>4, <1>5, <1>6, <1>7, Zenon DEF Next

LEMMA AnswersGiven ==
    ASSUME TypeOK, AnswerInv
    PROVE  AnsweredOnce
<1>t. /\ \A r \in Request : SourceOf[r] \in Conn
      /\ table \subseteq Request /\ inflight \subseteq Request
      /\ received \subseteq Request
      /\ \A r \in Request : responses[r] \in Nat
  BY HandsTyped
<1>1. \A g \in Goroutine : g # "serve" /\ g # "table"
  BY RoutingAssumption DEF RoutingAssumption, Goroutine
<1>2. \A r \in Request :
         /\ "serve" \in Keepers(r) <=> Served(r)
         /\ "table" \in Keepers(r) <=> r \in table
         /\ \A g \in Goroutine : g \in Keepers(r) <=> Carried(g, r)
         /\ Keepers(r) \subseteq {"serve", "table"} \cup Goroutine
  BY <1>1 DEF Keepers, Served, Carried
<1>3. \A r \in Request : Keepers(r) # {} <=> Kept(r)
  BY <1>2 DEF Kept
<1>4. ASSUME NEW r \in Request, NEW k \in Keepers(r), NEW l \in Keepers(r)
      PROVE  k = l
  BY <1>2, <1>4 DEF AnswerInv, InOneHand
<1>5. \A r \in inflight : Keepers(r) # {}
  BY <1>t, <1>3 DEF AnswerInv, Reservations
<1>6. ASSUME NEW r \in Request, Keepers(r) \ {"serve"} # {}
      PROVE  r \in inflight
  BY <1>2, <1>6 DEF AnswerInv, Reservations
<1>7. ReservationHeld
  BY <1>5, <1>6 DEF ReservationHeld
<1> QED
  BY <1>t, <1>3, <1>4, <1>7 DEF AnsweredOnce, AnswerInv, Answers

\* Whoever takes a request over, the result, the reaper, a teardown or a
\* revocation, exactly one of them answers it and gives its reservation back,
\* and only a caller that is gone goes without an answer (dispatch.go:
\* complete, reap, revoke, resolveRoute, dispatchConnClosed).
THEOREM AnswersOnce == Spec => []AnsweredOnce
<1>1. TypeOK /\ AnswerInv /\ [Next]_vars => AnswerInv'
  BY NextAnswers
<1>2. TypeOK /\ AnswerInv => AnsweredOnce
  BY AnswersGiven
<1> QED
  BY InitAnswers, <1>1, <1>2, RoutingTyped, PTL DEF Spec

=============================================================================
