-------------------------- MODULE OperationManager --------------------------
(***************************************************************************)
(* internal/operation: the long-running calls nervud coordinates.          *)
(*                                                                         *)
(* An operation is moved by its Provider's reports, by its owner's Cancel, *)
(* and by the Manager itself: its loop fails what has run past its         *)
(* deadline or was born before the boundary that Safety raised, and Stop   *)
(* fails the rest. Everything but the boundary is under the Manager's mu,  *)
(* so each of the steps below is one critical section. SafetySupersede     *)
(* takes no lock.                                                          *)
(*                                                                         *)
(* An operation's ID is never used again, and stands here for the request  *)
(* that created it. Of the clock only the deadlines that have passed are   *)
(* kept. Results, progress and the events of a transition are left out,    *)
(* and so is ReleaseByConn, which nothing calls.                           *)
(***************************************************************************)
EXTENDS Naturals, FiniteSets

CONSTANTS
    OperationId,
    Conn,           \* connections, the owners and the Providers
    MotionEpoch     \* motion epochs; 0 is none

ASSUME OperationAssumption == MotionEpoch \subseteq Nat \ {0}

VARIABLES
    ops,        \* Manager.ops; an ID without an operation has state ABSENT
    boundary,   \* supersedeEpoch
    wake,       \* the loop's wake channel is full
    loop,       \* where the background goroutine is, with the boundary it read
    stopping,   \* stopCh is closed
    past        \* the operations whose deadline has passed

operationVars == <<ops, boundary, wake, loop, stopping, past>>

NoOperation == [state |-> "ABSENT"]

TerminalState == {"SUCCEEDED", "FAILED", "CANCELLED"}

CanTransition(from, to) ==
    \/ from = "PENDING" /\ to \in {"RUNNING", "CANCEL_REQUESTED", "FAILED"}
    \/ from = "RUNNING" /\ to \in {"CANCEL_REQUESTED", "SUCCEEDED", "FAILED"}
    \/ from = "CANCEL_REQUESTED" /\ to \in TerminalState

Exists(id) == ops[id].state # "ABSENT"
Terminal(id) == ops[id].state \in TerminalState
Live(id) == Exists(id) /\ ~Terminal(id)

(* Born before the boundary b, and under a lease.                          *)
Superseded(op, b) == op.leased /\ b # 0 /\ op.epoch < b
Overtaken(id) == Superseded(ops[id], boundary) \/ id \in past

Moved(op, to) == [op EXCEPT !.state = to]

(* terminateLocked, for each of the live operations of a set.              *)
FailAll(ids) ==
    ops' = [id \in OperationId |->
               IF id \in ids /\ Live(id) THEN Moved(ops[id], "FAILED")
               ELSE ops[id]]

OperationInit ==
    /\ ops = [id \in OperationId |-> NoOperation]
    /\ boundary = 0 /\ wake = FALSE
    /\ loop = [pc |-> "select", boundary |-> 0]
    /\ stopping = FALSE
    /\ past = {}

----------------------------------------------------------------------------
(* The second half of Create, under mu. validateCreate ran before it.      *)
Accepting_Always == TRUE
Accepting == ~stopping

Create(id, owner, provider, leased, epoch) ==
    /\ Accepting
    /\ ops' = [ops EXCEPT ![id] =
          [state |-> "PENDING", owner |-> owner, provider |-> provider,
           leased |-> leased, epoch |-> epoch]]
    /\ UNCHANGED <<boundary, wake, loop, stopping, past>>

(* A cancellation is only requested: the Provider decides what becomes of  *)
(* it. Of a terminal operation, or twice, it changes nothing.              *)
Cancel(id) ==
    /\ Exists(id)
    /\ CanTransition(ops[id].state, "CANCEL_REQUESTED")
    /\ ops' = [ops EXCEPT ![id] = Moved(@, "CANCEL_REQUESTED")]
    /\ UNCHANGED <<boundary, wake, loop, stopping, past>>

(* A Provider reports on its own operations only.                          *)
ProviderOperation(provider, id) == Exists(id) /\ ops[id].provider = provider

(* The Provider starts, under the epoch it believes in.                    *)
Accept(id, epoch) ==
    LET op == ops[id] IN
    /\ Live(id)
    /\ \/ /\ epoch # op.epoch \/ Overtaken(id)
          /\ FailAll({id})
       \/ /\ epoch = op.epoch /\ ~Overtaken(id)
          /\ CanTransition(op.state, "RUNNING")
          /\ ops' = [ops EXCEPT ![id] = Moved(op, "RUNNING")]
    /\ UNCHANGED <<boundary, wake, loop, stopping, past>>

(* Succeed, Fail and Cancelled. Whatever is reported of an operation that  *)
(* the boundary or the deadline has overtaken, it failed.                  *)
ReportTerminal_Late(id, to) ==
    /\ Live(id) /\ CanTransition(ops[id].state, to)
    /\ ops' = [ops EXCEPT ![id] = Moved(@, to)]
    /\ UNCHANGED <<boundary, wake, loop, stopping, past>>
ReportTerminal(id, to) ==
    /\ Live(id)
    /\ \/ Overtaken(id) /\ FailAll({id})
       \/ /\ ~Overtaken(id) /\ CanTransition(ops[id].state, to)
          /\ ops' = [ops EXCEPT ![id] = Moved(@, to)]
    /\ UNCHANGED <<boundary, wake, loop, stopping, past>>

----------------------------------------------------------------------------
(* Safety raises the boundary and rings. Nothing in main.go connects it to *)
(* safety yet; the package promises to bear it at any moment.              *)
SafetySupersede(epoch) ==
    /\ epoch > boundary
    /\ boundary' = epoch /\ wake' = TRUE
    /\ UNCHANGED <<ops, loop, stopping, past>>

(* The loop: a ring converges the boundary, a tick also scans the          *)
(* deadlines and reaps. The boundary is read before mu is taken. A tick    *)
(* that has nothing to look at is left out.                                *)
LoopWakes ==
    /\ loop.pc = "select" /\ wake
    /\ wake' = FALSE /\ loop' = [pc |-> "woken", boundary |-> boundary]
    /\ UNCHANGED <<ops, boundary, stopping, past>>

LoopTicks ==
    /\ loop.pc = "select" /\ \E id \in OperationId : Exists(id)
    /\ loop' = [pc |-> "ticked", boundary |-> boundary]
    /\ UNCHANGED <<ops, boundary, wake, stopping, past>>

ConvergeSupersede ==
    /\ loop.pc \in {"woken", "ticked"}
    /\ FailAll({id \in OperationId :
                   Exists(id) /\ Superseded(ops[id], loop.boundary)})
    /\ loop' = [pc |-> IF loop.pc = "woken" THEN "select" ELSE "scan",
                boundary |-> 0]
    /\ UNCHANGED <<boundary, wake, stopping, past>>

ScanDeadlines_Skipped ==
    /\ loop.pc = "scan"
    /\ loop' = [loop EXCEPT !.pc = "reap"]
    /\ UNCHANGED <<ops, boundary, wake, stopping, past>>
ScanDeadlines ==
    /\ loop.pc = "scan"
    /\ FailAll(past)
    /\ loop' = [loop EXCEPT !.pc = "reap"]
    /\ UNCHANGED <<boundary, wake, stopping, past>>

(* Terminal operations are kept for a while, terminalRetention.            *)
ReapTerminal ==
    /\ loop.pc = "reap"
    /\ \E old \in SUBSET {id \in OperationId : Terminal(id)} :
          ops' = [id \in OperationId |->
                     IF id \in old THEN NoOperation ELSE ops[id]]
    /\ loop' = [loop EXCEPT !.pc = "select"]
    /\ UNCHANGED <<boundary, wake, stopping, past>>

(* Stop closes stopCh, waits for the loop, and fails what is left.         *)
CloseStop ==
    /\ ~stopping /\ stopping' = TRUE
    /\ UNCHANGED <<ops, boundary, wake, loop, past>>

LoopExits ==
    /\ loop.pc = "select" /\ stopping
    /\ loop' = [loop EXCEPT !.pc = "exited"]
    /\ UNCHANGED <<ops, boundary, wake, stopping, past>>

StopConverges ==
    /\ loop.pc = "exited"
    /\ FailAll(OperationId)
    /\ loop' = [loop EXCEPT !.pc = "stopped"]
    /\ UNCHANGED <<boundary, wake, stopping, past>>

DeadlinePasses(id) ==
    /\ id \notin past /\ past' = past \cup {id}
    /\ UNCHANGED <<ops, boundary, wake, loop, stopping>>

LoopStep ==
    LoopWakes \/ LoopTicks \/ ConvergeSupersede \/ ScanDeadlines
    \/ ReapTerminal \/ LoopExits \/ StopConverges

----------------------------------------------------------------------------
OperationTypeOK ==
    /\ ops \in [OperationId -> {NoOperation} \cup
                  [state : {"PENDING", "RUNNING", "CANCEL_REQUESTED"}
                              \cup TerminalState,
                   owner : Conn, provider : Conn, leased : BOOLEAN,
                   epoch : MotionEpoch \cup {0}]]
    /\ boundary \in MotionEpoch \cup {0} /\ wake \in BOOLEAN
    /\ loop \in [pc : {"select", "woken", "ticked", "scan", "reap",
                       "exited", "stopped"},
                 boundary : MotionEpoch \cup {0}]
    /\ stopping \in BOOLEAN /\ past \subseteq OperationId

(* After Stop no operation is under way, however its last Create raced     *)
(* with it: there is no goroutine left that would ever end one.            *)
StopLeavesNothing ==
    loop.pc = "stopped" => \A id \in OperationId : ~Live(id)

(* From the moment the boundary or the deadline has passed an operation,   *)
(* nothing its Provider reports can set it running, make it a success or   *)
(* confirm its cancellation, although the loop may be ticks away from it.  *)
OvertakenOnlyFails ==
    [][\A id \in OperationId :
          Live(id) /\ Overtaken(id) =>
             ops'[id].state \in
                {ops[id].state, "CANCEL_REQUESTED", "FAILED"}]_operationVars
=============================================================================
