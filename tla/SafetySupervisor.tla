-------------------------- MODULE SafetySupervisor --------------------------
(***************************************************************************)
(* internal/safety: the latch, the two lanes that answer it, and re-arm.   *)
(*                                                                         *)
(*   - any goroutine may Trip, request recovery, require a re-arm or       *)
(*     re-arm (`thread' is where each such call has got to);               *)
(*   - the Stop Lane sends the halt under the epoch it reads;              *)
(*   - the Supervisor tracks one halt, from its own wake-ups, from the     *)
(*     Provider's reports and from its ticker, and publishes the phase     *)
(*     together with the epoch it belongs to.                              *)
(*                                                                         *)
(* control's part is its epoch bumps under a Normal gate, and RevokeAll,   *)
(* which keeps the Supervisor busy for as long as it runs.                 *)
(***************************************************************************)
EXTENDS MotionLatch

CONSTANTS
    Thread,             \* goroutines that call into the module
    Rearmer,            \* those among them that call Rearm
    Evidence,           \* Contract.StandstillConfirmationSupported
    AcceptTimeout, AckTimeout, StandstillTimeout,   \* Contract, in ticks
    ReportPhase         \* the phases a Provider's reports ask for

ASSUME SafetyAssumption ==
    /\ Rearmer \subseteq Thread /\ Evidence \in BOOLEAN
    /\ AcceptTimeout \in Nat \ {0} /\ AckTimeout \in Nat
    /\ StandstillTimeout \in Nat
    /\ AcceptTimeout <= AckTimeout /\ AckTimeout <= StandstillTimeout
    /\ ReportPhase \subseteq 0 .. 255

(* StopPhase, with the numbers of safety.proto.                            *)
Unspecified == 0
Requested == 1
ProviderAccepted == 3
OutputDisabled == 5
StandstillConfirmed == 6
DeliveryFault == 7
StandstillTimedOut == 8

Fault(p) == p \in {DeliveryFault, StandstillTimedOut}
Rank(p) == IF p \in 1 .. 6 THEN p ELSE 0

VARIABLES
    thread,
    stopWake, superWake,    \* the two channels of capacity 1
    stopLane,               \* running or exited
    sent,                   \* the epochs of the halts that got to the Provider
    failed,                 \* those of the halts that SendHalt lost, its error
                            \* in the audit ring
    sup,                    \* the Supervisor's own state and its pc
    phase,                  \* the published word: [phase | its halt's epoch]
    closed,                 \* stopCh
    disabled                \* history: the epochs for which the Provider has
                            \* reported its outputs disabled, or standstill

safetyVars == <<thread, stopWake, superWake, stopLane, sent, failed, sup,
                phase, closed, disabled, latchEpoch, awaiting>>
wakeVars == <<stopWake, superWake>>
haltVars == <<stopLane, sent, failed, closed, disabled>>
latchVars == <<latchEpoch, awaiting>>

Escalation == {"accept", "ack", "standstill"}

NoThread == [pc |-> "idle", epoch |-> 0]

SafetyInit ==
    /\ thread = [t \in Thread |-> NoThread]
    /\ stopWake = FALSE /\ superWake = FALSE
    /\ stopLane = "running" /\ sent = {} /\ failed = {}
    /\ sup = [pc |-> "idle", active |-> FALSE, epoch |-> 0, next |-> 0,
              phase |-> Unspecified, terminal |-> FALSE, age |-> 0,
              esc |-> {}]
    /\ phase = [phase |-> Unspecified, epoch |-> 0]
    /\ closed = FALSE /\ disabled = {}

----------------------------------------------------------------------------
(* The calls. Each moves the gate in one swap and then wakes the lanes;    *)
(* the wake-up of a full channel is dropped (wake).                        *)
Call(t, pc) ==
    /\ thread[t].pc = "idle"
    /\ thread' = [thread EXCEPT ![t].pc = pc]

Trip(t) ==
    /\ gate.epoch < MaxEpoch
    /\ LatchTrip /\ Call(t, "wakeStop")
    /\ UNCHANGED <<wakeVars, haltVars, sup, phase>>

WakeStop_Forgotten(t) ==
    /\ thread[t].pc = "wakeStop"
    /\ thread' = [thread EXCEPT ![t].pc = "wakeSuper"]
    /\ UNCHANGED <<gate, wakeVars, haltVars, sup, phase, latchVars>>
WakeStop(t) ==
    /\ thread[t].pc = "wakeStop"
    /\ stopWake' = TRUE
    /\ thread' = [thread EXCEPT ![t].pc = "wakeSuper"]
    /\ UNCHANGED <<gate, superWake, haltVars, sup, phase, latchVars>>

WakeSuper_Forgotten(t) ==
    /\ thread[t].pc = "wakeSuper"
    /\ thread' = [thread EXCEPT ![t].pc = "idle"]
    /\ UNCHANGED <<gate, wakeVars, haltVars, sup, phase, latchVars>>
WakeSuper(t) ==
    /\ thread[t].pc = "wakeSuper"
    /\ superWake' = TRUE
    /\ thread' = [thread EXCEPT ![t].pc = "idle"]
    /\ UNCHANGED <<gate, stopWake, haltVars, sup, phase, latchVars>>

(* Both wake the Supervisor whether or not the gate moved.                 *)
RequestRecovery(t) ==
    /\ BeginRecovery \/ (gate.state # "SafetyLatched" /\ UNCHANGED gate)
    /\ Call(t, "wakeSuper")
    /\ UNCHANGED <<wakeVars, haltVars, sup, phase, latchVars>>

RequireExplicitRearm(t) ==
    /\ RequireRearm
       \/ (gate.state \notin {"SafetyLatched", "OEMRecovery"} /\ UNCHANGED gate)
    /\ Call(t, "wakeSuper")
    /\ UNCHANGED <<wakeVars, haltVars, sup, phase, latchVars>>

(* Rearm: load the gate's epoch, load and judge the phase, swap the gate.  *)
RearmLoad(t) ==
    /\ t \in Rearmer /\ thread[t].pc = "idle"
    /\ thread' = [thread EXCEPT ![t] = [pc |-> "judge", epoch |-> gate.epoch]]
    /\ UNCHANGED <<gate, wakeVars, haltVars, sup, phase, latchVars>>

RearmSettled(p) == Rank(p) >= OutputDisabled \/ Fault(p)

MayRearm_Unsettled(p, epoch) == p.epoch = epoch
MayRearm(p, epoch) == p.epoch = epoch /\ RearmSettled(p.phase)

RearmJudge(t) ==
    /\ thread[t].pc = "judge"
    /\ thread' = [thread EXCEPT ![t] =
                    IF MayRearm(phase, @.epoch) THEN [@ EXCEPT !.pc = "swap"]
                    ELSE NoThread]
    /\ UNCHANGED <<gate, wakeVars, haltVars, sup, phase, latchVars>>

RearmSwap(t) ==
    /\ thread[t].pc = "swap"
    /\ \/ /\ RearmGate
          /\ thread' = [thread EXCEPT ![t] = [NoThread EXCEPT !.pc = "wakeSuper"]]
       \/ /\ gate.state # "RearmRequired"
          /\ thread' = [thread EXCEPT ![t] = NoThread]
          /\ UNCHANGED gate
    /\ UNCHANGED <<wakeVars, haltVars, sup, phase, latchVars>>

----------------------------------------------------------------------------
(* The Stop Lane: one halt for all wake-ups since the last, under the      *)
(* epoch of this moment. A halt that SendHalt could not deliver is recorded*)
(* (evDeliveryFault) and that is all: nobody sends it again. One that got   *)
(* through counts as sent whatever SendHalt returned.                      *)
DeliverHalt ==
    /\ stopLane = "running" /\ stopWake
    /\ stopWake' = FALSE
    /\ \/ sent' = sent \cup {gate.epoch} /\ failed' = failed \ {gate.epoch}
       \/ failed' = failed \cup ({gate.epoch} \ sent) /\ UNCHANGED sent
    /\ UNCHANGED <<gate, thread, superWake, stopLane, sup, phase, closed,
                   disabled, latchVars>>

(* The halts that SendHalt was called for.                                 *)
Tried == sent \cup failed

----------------------------------------------------------------------------
(* The Supervisor.                                                         *)
SetPhase(p, epoch) == phase' = [phase |-> p, epoch |-> epoch]

(* reconcile: align with one snapshot of the gate. Coming back to Normal   *)
(* ends the tracking; anything else that is not this halt begins another.  *)
NewHalt_IfInactive == ~Normal /\ ~sup.active
NewHalt == ~Normal /\ (~sup.active \/ gate.epoch # sup.epoch)

Reconcile ==
    /\ sup.pc = "idle" /\ superWake
    /\ superWake' = FALSE
    /\ \/ /\ NewHalt
          /\ sup' = [sup EXCEPT !.pc = "begin", !.next = gate.epoch]
          /\ UNCHANGED phase
       \/ /\ Normal /\ sup.active
          /\ sup' = [sup EXCEPT !.active = FALSE]
          /\ SetPhase(Unspecified, sup.epoch)
       \/ /\ ~NewHalt /\ ~(Normal /\ sup.active)
          /\ UNCHANGED <<sup, phase>>
    /\ UNCHANGED <<gate, thread, stopWake, haltVars, latchVars>>

(* beginHalt, up to its call of RevokeAll.                                 *)
BeginHalt ==
    /\ sup.pc = "begin"
    /\ sup' = [sup EXCEPT !.pc = "revoking", !.active = TRUE,
                          !.epoch = sup.next, !.next = 0,
                          !.phase = Requested, !.terminal = FALSE,
                          !.age = 0, !.esc = {}]
    /\ SetPhase(Requested, sup.next)
    /\ UNCHANGED <<gate, thread, wakeVars, haltVars, latchVars>>

Revoked ==
    /\ sup.pc = "revoking"
    /\ sup' = [sup EXCEPT !.pc = "idle"]
    /\ LatchServed(sup.epoch) /\ UNCHANGED latchEpoch
    /\ UNCHANGED <<gate, thread, wakeVars, haltVars, phase>>

(* advance: a fault from any phase but a fault, for good; a standstill     *)
(* that the device cannot prove counts as disabled outputs; everything     *)
(* else only forward.                                                      *)
Reaches(to) ==
    IF to = StandstillConfirmed /\ ~Evidence THEN OutputDisabled ELSE to

Advances(to) ==
    ~sup.terminal /\ (Fault(to) \/ Rank(Reaches(to)) > Rank(sup.phase))

Advance(to, esc) ==
    IF Advances(to)
    THEN /\ sup' = [sup EXCEPT !.phase = Reaches(to), !.terminal = Fault(to),
                               !.esc = esc]
         /\ SetPhase(Reaches(to), sup.epoch)
    ELSE sup' = [sup EXCEPT !.esc = esc] /\ UNCHANGED phase

(* What a report asks for: HaltAccepted, StandstillConfirmed and           *)
(* ProviderFault the phase of their name, StopProgress any byte at all.    *)

Believes_Stale(epoch) == sup.active
Believes(epoch) == sup.active /\ epoch = sup.epoch

(* onReport. Reports may be late, out of order, repeated or never come; a  *)
(* Provider answers only halts that it got.                                *)
OnReport(epoch, to) ==
    /\ sup.pc = "idle" /\ epoch \in sent
    /\ disabled' = IF Rank(to) >= OutputDisabled THEN disabled \cup {epoch}
                   ELSE disabled
    /\ IF Believes(epoch) THEN Advance(to, sup.esc) ELSE UNCHANGED <<sup, phase>>
    /\ UNCHANGED <<gate, thread, wakeVars, stopLane, sent, failed,
                   closed, latchVars>>

(* onTick: the escalations that are due, each once per halt. Only the last *)
(* moves the phase.                                                        *)
Due ==
    (IF sup.age > AcceptTimeout /\ Rank(sup.phase) < ProviderAccepted
     THEN {"accept"} ELSE {})
    \cup (IF sup.age > AckTimeout /\ Rank(sup.phase) < OutputDisabled
          THEN {"ack"} ELSE {})
    \cup (IF sup.age > StandstillTimeout /\ Rank(sup.phase) < StandstillConfirmed
          THEN {"standstill"} ELSE {})

Escalates == sup.active /\ ~sup.terminal

OnTick ==
    /\ sup.pc = "idle" /\ Escalates /\ ~(Due \subseteq sup.esc)
    /\ IF "standstill" \in Due \ sup.esc
       THEN Advance(StandstillTimedOut, sup.esc \cup Due)
       ELSE sup' = [sup EXCEPT !.esc = @ \cup Due] /\ UNCHANGED phase
    /\ UNCHANGED <<gate, thread, wakeVars, haltVars, latchVars>>

(* Time, counted from haltAt; past the last budget more of it is the same. *)
Elapse ==
    /\ sup.active /\ sup.age <= StandstillTimeout
    /\ sup' = [sup EXCEPT !.age = @ + 1]
    /\ UNCHANGED <<gate, thread, wakeVars, haltVars, phase, latchVars>>

----------------------------------------------------------------------------
(* Stop closes stopCh, and each lane leaves its loop at its next turn,     *)
(* even with a wake-up pending.                                            *)
Stop ==
    /\ ~closed /\ closed' = TRUE
    /\ UNCHANGED <<gate, thread, wakeVars, stopLane, sent, failed, sup,
                   phase, disabled, latchVars>>

StopLaneExit ==
    /\ closed /\ stopLane = "running" /\ stopLane' = "exited"
    /\ UNCHANGED <<gate, thread, wakeVars, sent, failed, sup, phase,
                   closed, disabled, latchVars>>

SupervisorExit ==
    /\ closed /\ sup.pc = "idle"
    /\ sup' = [sup EXCEPT !.pc = "exited"]
    /\ UNCHANGED <<gate, thread, wakeVars, haltVars, phase, latchVars>>

(* control: an ordinary lease boundary. *)
ControlBumps ==
    /\ gate.epoch < MaxEpoch /\ Normal /\ BumpEpochIfNormal
    /\ UNCHANGED safetyVars

----------------------------------------------------------------------------
ThreadStep(t) == WakeStop(t) \/ WakeSuper(t) \/ RearmJudge(t) \/ RearmSwap(t)

Next ==
    \/ \E t \in Thread :
          \/ Trip(t) \/ RequestRecovery(t) \/ RequireExplicitRearm(t)
          \/ RearmLoad(t) \/ ThreadStep(t)
    \/ DeliverHalt \/ Reconcile \/ BeginHalt \/ Revoked \/ OnTick \/ Elapse
    \/ \E epoch \in sent, to \in ReportPhase : OnReport(epoch, to)
    \/ Stop \/ StopLaneExit \/ SupervisorExit
    \/ ControlBumps

safetyAll == <<gate, safetyVars>>

Init == LatchInit /\ SafetyInit

Spec == Init /\ [][Next]_safetyAll

(* Goroutines that can step do, time passes, and Go's select, which picks  *)
(* among the ready channels at random, keeps none of them waiting forever. *)
Fairness ==
    /\ \A t \in Thread : WF_safetyAll(ThreadStep(t))
    /\ WF_safetyAll(DeliverHalt) /\ SF_safetyAll(Reconcile)
    /\ WF_safetyAll(BeginHalt) /\ WF_safetyAll(Revoked)
    /\ SF_safetyAll(OnTick) /\ WF_safetyAll(Elapse)
FairSpec == Spec /\ Fairness

----------------------------------------------------------------------------
TypeOK ==
    /\ GateOK
    /\ thread \in [Thread -> [pc: {"idle", "wakeStop", "wakeSuper", "judge",
                                 "swap"}, epoch: Nat]]
    /\ stopWake \in BOOLEAN /\ superWake \in BOOLEAN
    /\ stopLane \in {"running", "exited"} /\ sent \subseteq Nat
    /\ failed \subseteq Nat
    /\ sup \in [pc: {"idle", "begin", "revoking", "exited"}, active: BOOLEAN,
               epoch: Nat, next: Nat, phase: 0 .. 8, terminal: BOOLEAN,
               age: 0 .. StandstillTimeout + 1, esc: SUBSET Escalation]
    /\ phase \in [phase: 0 .. 8, epoch: Nat]
    /\ closed \in BOOLEAN /\ disabled \subseteq Nat
    /\ latchEpoch \in Nat /\ awaiting \subseteq Nat

(* Once everyone has had their turn nobody is left with an older halt: the *)
(* last halt tried, the halt tracked and the gate agree. The lanes get no  *)
(* queue, one coalescing wake-up each.                                     *)
Settled ==
    /\ ~stopWake /\ ~superWake /\ sup.pc = "idle"
    /\ \A t \in Thread : thread[t].pc \notin {"wakeStop", "wakeSuper"}
LanesAgree ==
    Settled /\ ~closed =>
        IF Normal THEN ~sup.active
        ELSE sup.active /\ sup.epoch = gate.epoch /\ gate.epoch \in Tried

(* The published phase never claims disabled outputs, let alone standstill,*)
(* that the Provider has not reported for this very halt, nor a standstill *)
(* the device has no means to prove (stopprogress.go: no faked standstill).*)
(* Within one halt it only climbs, and a fault is the end of it: no         *)
(* escalation and no report moves it again. Only the end of tracking takes *)
(* a phase away.                                                           *)
PhaseHasEvidence ==
    /\ Rank(phase.phase) >= OutputDisabled => phase.epoch \in disabled
    /\ phase.phase = StandstillConfirmed => Evidence
PhaseOnlyClimbs ==
    phase'.epoch = phase.epoch /\ phase' # phase =>
        \/ phase'.phase = Unspecified
        \/ ~Fault(phase.phase)
           /\ (Fault(phase'.phase) \/ phase'.phase > phase.phase)
PhaseIsHonest == [][PhaseHasEvidence' /\ PhaseOnlyClimbs]_safetyAll

(* What ControlLease relies on: with one caller of Rearm, a latch is        *)
(* re-armed only after RevokeAll for it has returned, and RevokeAll runs   *)
(* under the epochs of trips alone.                                        *)
KeepsLatchContract ==
    [][/\ gate.state = "RearmRequired" /\ gate'.state = "Normal"
            => LatchRevoked
       /\ sup.pc = "begin" /\ sup'.pc = "revoking"
            => sup'.epoch \in awaiting]_safetyAll

(* Every latch gets to the Provider's path, however the wake-ups coalesce: *)
(* SendHalt is called under its epoch, and the halt is delivered or its    *)
(* error on record, unless the gate has since moved on. That the Provider  *)
(* gets the halt is not promised: what is left then is that it settles.    *)
HaltIsTried ==
    \A e \in 1 .. MaxEpoch :
        ~Normal /\ gate.epoch = e ~> e \in Tried \/ gate.epoch # e \/ closed

(* No halt hangs: it settles by report or by the standstill timeout, so    *)
(* that the operator can always re-arm in the end.                         *)
HaltSettles ==
    \A e \in 1 .. MaxEpoch :
        ~Normal /\ gate.epoch = e
          ~> \/ phase.epoch = e /\ RearmSettled(phase.phase)
             \/ gate.epoch # e \/ closed
=============================================================================
