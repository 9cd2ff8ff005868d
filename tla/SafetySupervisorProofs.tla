----------------------- MODULE SafetySupervisorProofs -----------------------
(***************************************************************************)
(* Proofs about internal/safety. Of the Supervisor's own promises, that    *)
(* the published phase is honest and that the lanes come to agree hold of  *)
(* every behaviour. That a latch is re-armed only after its RevokeAll      *)
(* needs one caller of Rearm at a time, and an epoch that has not wrapped. *)
(***************************************************************************)
EXTENDS SafetySupervisor, TLAPS

(* An assumption about the Operator's side: no lock of module.go's Rearm   *)
(* keeps two of its callers apart.                                         *)
OneRearmer == \A t, u \in Rearmer : t = u

(* The epoch is not about to wrap around its 56 bits. *)
NoWrap == gate.epoch < EpochMask

(* What is proved here does not lean on the bound MaxEpoch: control may    *)
(* bump the epoch of a Normal gate at any time.                            *)
Bumps == Normal /\ BumpEpoch /\ UNCHANGED safetyVars
AnyNext == Next \/ Bumps
AnySpec == Init /\ [][AnyNext]_safetyAll

ThreadType == [pc: {"idle", "wakeStop", "wakeSuper", "judge", "swap"}, epoch: Nat]
SupType == [pc: {"idle", "begin", "revoking", "exited"}, active: BOOLEAN,
            epoch: Nat, next: Nat, phase: 0 .. 8, terminal: BOOLEAN,
            age: 0 .. StandstillTimeout + 1, esc: SUBSET Escalation]
PhaseType == [phase: 0 .. 8, epoch: Nat]

----------------------------------------------------------------------------
(* Which action moves what. *)

(* A step of a caller leaves the lanes' own state alone.                   *)
Calls(t) ==
    \/ Trip(t) \/ WakeStop(t) \/ WakeSuper(t)
    \/ RequestRecovery(t) \/ RequireExplicitRearm(t)
    \/ RearmLoad(t) \/ RearmJudge(t) \/ RearmSwap(t)
LEMMA CallsFrame ==
    ASSUME NEW t \in Thread, Calls(t)
    PROVE  UNCHANGED <<sup, phase, stopLane, sent, failed, closed, disabled>>
BY DEF Calls, Trip, WakeStop, WakeSuper, RequestRecovery, RequireExplicitRearm,
   RearmLoad, RearmJudge, RearmSwap, haltVars

LEMMA NextCases ==
    ASSUME [AnyNext]_safetyAll
    PROVE  \/ \E t \in Thread : Calls(t)
           \/ DeliverHalt \/ Reconcile \/ BeginHalt \/ Revoked \/ Elapse
           \/ OnTick \/ \E epoch \in sent, to \in ReportPhase : OnReport(epoch, to)
           \/ Stop \/ StopLaneExit \/ SupervisorExit \/ Bumps
           \/ UNCHANGED safetyAll
<1>1. ControlBumps => Bumps
  BY DEF ControlBumps, Bumps, BumpEpochIfNormal
<1> QED
  BY <1>1 DEF AnyNext, Next, Calls, ThreadStep

LEMMA NextEpoch ==
    ASSUME GateOK PROVE IncEpoch(gate.epoch) \in 1 .. EpochMask
BY EpochMaskAssumption DEF GateOK, IncEpoch

LEMMA GateStep ==
    ASSUME GateOK, NEW t \in Thread, Calls(t) PROVE GateOK'
<1>1. IncEpoch(gate.epoch) \in 1 .. EpochMask
  BY NextEpoch
<1>2. \/ TripGate \/ BeginRecovery \/ RequireRearm \/ RearmGate \/ UNCHANGED gate
  BY DEF Calls, Trip, LatchTrip, WakeStop, WakeSuper, RequestRecovery,
     RequireExplicitRearm, RearmLoad, RearmJudge, RearmSwap
<1> QED
  BY <1>1, <1>2 DEF TripGate, BeginRecovery, RequireRearm, RearmGate, GateOK,
     GateStates

LEMMA ThreadTyped ==
    ASSUME TypeOK, NEW t \in Thread, Calls(t)
    PROVE  thread' \in [Thread -> ThreadType]
<1>1. thread \in [Thread -> ThreadType] /\ gate.epoch \in Nat
  BY DEF TypeOK, ThreadType, GateOK
<1>2. CASE Trip(t) \/ RequestRecovery(t) \/ RequireExplicitRearm(t)
  BY <1>1, <1>2 DEF Trip, RequestRecovery, RequireExplicitRearm, Call, ThreadType
<1>3. CASE WakeStop(t) \/ WakeSuper(t)
  BY <1>1, <1>3 DEF WakeStop, WakeSuper, ThreadType
<1>4. CASE RearmLoad(t) \/ RearmJudge(t)
  BY <1>1, <1>4 DEF RearmLoad, RearmJudge, NoThread, ThreadType
<1>5. CASE RearmSwap(t)
  BY <1>1, <1>5 DEF RearmSwap, NoThread, ThreadType
<1> QED
  BY <1>2, <1>3, <1>4, <1>5 DEF Calls

(* What onTick and onReport do to the halt that is tracked, if anything:   *)
(* they move its phase forward or to a fault.                              *)
Climbs ==
    /\ sup.active /\ ~sup.terminal
    /\ phase' = [phase |-> sup'.phase, epoch |-> sup.epoch]
    /\ sup'.terminal = Fault(sup'.phase)
    /\ Fault(sup'.phase) \/ Rank(sup'.phase) > Rank(sup.phase)
    /\ sup'.phase = StandstillConfirmed => Evidence
Stays ==
    /\ phase' = phase /\ sup'.phase = sup.phase /\ sup'.terminal = sup.terminal
Follows ==
    /\ sup' \in SupType /\ sup'.pc = sup.pc /\ sup'.active = sup.active
    /\ sup'.epoch = sup.epoch /\ sup'.next = sup.next

LEMMA AdvanceStep ==
    ASSUME sup \in SupType, sup.active, NEW to \in Nat, NEW esc \in SUBSET Escalation,
           Advance(to, esc)
    PROVE  /\ Follows
           /\ Stays \/ (Climbs /\ sup'.phase = Reaches(to))
<1>1. CASE Advances(to)
  <2>1. Reaches(to) \in 0 .. 8
    BY <1>1 DEF Advances, Reaches, Fault, Rank, OutputDisabled, StandstillConfirmed,
       DeliveryFault, StandstillTimedOut
  <2>2. /\ sup' = [sup EXCEPT !.phase = Reaches(to), !.terminal = Fault(to), !.esc = esc]
        /\ phase' = [phase |-> Reaches(to), epoch |-> sup.epoch]
    BY <1>1 DEF Advance, SetPhase
  <2>7. Fault(to) \in BOOLEAN
    BY DEF Fault
  <2>3. /\ Follows /\ sup'.phase = Reaches(to) /\ sup'.terminal = Fault(to)
    BY <2>1, <2>2, <2>7 DEF Follows, SupType
  <2>4. Fault(to) = Fault(Reaches(to)) /\ (Fault(to) => Reaches(to) = to)
    BY DEF Fault, Reaches, OutputDisabled, StandstillConfirmed, DeliveryFault,
       StandstillTimedOut
  <2>5. Reaches(to) = StandstillConfirmed => Evidence
    BY DEF Reaches, OutputDisabled, StandstillConfirmed
  <2>6. ~sup.terminal /\ (Fault(to) \/ Rank(Reaches(to)) > Rank(sup.phase))
    BY <1>1 DEF Advances
  <2> QED
    BY <2>2, <2>3, <2>4, <2>5, <2>6 DEF Climbs
<1>2. CASE ~Advances(to)
  BY <1>2 DEF Advance, Follows, Stays, SupType
<1> QED
  BY <1>1, <1>2

LEMMA TickStep ==
    ASSUME sup \in SupType, OnTick
    PROVE  Follows /\ (Stays \/ (Climbs /\ Fault(sup'.phase)))
<1>1. sup.active /\ Due \in SUBSET Escalation /\ sup.esc \in SUBSET Escalation
  BY DEF OnTick, Escalates, Due, Escalation, SupType
<1>2. sup.esc \cup Due \in SUBSET Escalation
  BY <1>1
<1>3. CASE Advance(StandstillTimedOut, sup.esc \cup Due)
  <2>1. StandstillTimedOut \in Nat
    BY DEF StandstillTimedOut
  <2>2. Fault(Reaches(StandstillTimedOut))
    BY DEF Fault, Reaches, StandstillTimedOut, StandstillConfirmed
  <2> QED
    BY <1>1, <1>2, <1>3, <2>1, <2>2, AdvanceStep
<1>4. CASE sup' = [sup EXCEPT !.esc = @ \cup Due] /\ UNCHANGED phase
  BY <1>2, <1>4 DEF Follows, Stays, SupType
<1> QED
  BY <1>3, <1>4 DEF OnTick

LEMMA ReportStep ==
    ASSUME sup \in SupType, NEW epoch \in sent, NEW to \in ReportPhase,
           OnReport(epoch, to)
    PROVE  /\ Follows
           /\ Stays \/ (Climbs /\ epoch = sup.epoch /\ sup'.phase = Reaches(to))
<1>1. to \in Nat
  BY SafetyAssumption
<1>2. CASE Believes(epoch)
  <2>1. sup.active /\ epoch = sup.epoch /\ Advance(to, sup.esc)
        /\ sup.esc \in SUBSET Escalation
    BY <1>2 DEF OnReport, Believes, SupType
  <2> QED
    BY <1>1, <2>1, AdvanceStep
<1>3. CASE ~Believes(epoch)
  BY <1>3 DEF OnReport, Follows, Stays
<1> QED
  BY <1>2, <1>3


(* What the Supervisor's own steps do.                                     *)
LEMMA ReconcileStep ==
    ASSUME sup \in SupType, gate.epoch \in Nat, Reconcile
    PROVE  /\ sup.pc = "idle" /\ sup' \in SupType
           /\ \/ /\ NewHalt /\ phase' = phase
                 /\ sup'.pc = "begin" /\ sup'.next = gate.epoch
                 /\ sup'.active = sup.active /\ sup'.epoch = sup.epoch
                 /\ sup'.phase = sup.phase /\ sup'.terminal = sup.terminal
              \/ /\ Normal /\ sup.active
                 /\ phase' = [phase |-> Unspecified, epoch |-> sup.epoch]
                 /\ sup'.pc = "idle" /\ sup'.next = sup.next
                 /\ ~sup'.active /\ sup'.epoch = sup.epoch
              \/ /\ ~NewHalt /\ ~(Normal /\ sup.active)
                 /\ sup' = sup /\ phase' = phase
<1>1. CASE NewHalt /\ sup' = [sup EXCEPT !.pc = "begin", !.next = gate.epoch]
           /\ UNCHANGED phase
  BY <1>1 DEF Reconcile, SupType
<1>2. CASE Normal /\ sup.active /\ sup' = [sup EXCEPT !.active = FALSE]
           /\ SetPhase(Unspecified, sup.epoch)
  BY <1>2 DEF Reconcile, SetPhase, SupType
<1>3. CASE ~NewHalt /\ ~(Normal /\ sup.active) /\ UNCHANGED <<sup, phase>>
  BY <1>3 DEF Reconcile
<1> QED
  BY <1>1, <1>2, <1>3 DEF Reconcile

LEMMA BeginStep ==
    ASSUME sup \in SupType, BeginHalt
    PROVE  /\ sup' \in SupType /\ sup'.pc = "revoking" /\ sup'.active
           /\ sup'.epoch = sup.next /\ sup'.phase = Requested /\ ~sup'.terminal
           /\ phase' = [phase |-> Requested, epoch |-> sup.next]
<1>1. Requested \in 0 .. 8 /\ {} \in SUBSET Escalation
      /\ 0 \in 0 .. StandstillTimeout + 1
  BY SafetyAssumption DEF Requested
<1>2. sup' = [sup EXCEPT !.pc = "revoking", !.active = TRUE, !.epoch = sup.next,
                         !.next = 0, !.phase = Requested, !.terminal = FALSE,
                         !.age = 0, !.esc = {}]
      /\ phase' = [phase |-> Requested, epoch |-> sup.next]
  BY DEF BeginHalt, SetPhase
<1>3. sup' \in SupType
  BY <1>1, <1>2 DEF SupType
<1>4. /\ sup'.pc = "revoking" /\ sup'.active /\ sup'.epoch = sup.next
      /\ sup'.phase = Requested /\ ~sup'.terminal
  BY <1>2 DEF SupType
<1> QED
  BY <1>2, <1>3, <1>4

LEMMA PlainStep ==
    ASSUME sup \in SupType, Revoked \/ Elapse \/ SupervisorExit
    PROVE  /\ sup' \in SupType /\ phase' = phase /\ sup'.active = sup.active
           /\ sup'.epoch = sup.epoch /\ sup'.next = sup.next
           /\ sup'.phase = sup.phase /\ sup'.terminal = sup.terminal
<1>1. CASE Revoked
  BY <1>1 DEF Revoked, SupType
<1>2. CASE Elapse
  <2>1. StandstillTimeout \in Nat
    BY SafetyAssumption
  <2>2. sup' = [sup EXCEPT !.age = sup.age + 1] /\ phase' = phase
    BY <1>2 DEF Elapse
  <2>3. sup.age \in 0 .. StandstillTimeout + 1 /\ sup.age <= StandstillTimeout
    BY <1>2 DEF Elapse, SupType
  <2>4. sup.age + 1 \in 0 .. StandstillTimeout + 1
    BY <2>1, <2>3
  <2> QED
    BY <2>2, <2>4 DEF SupType
<1>3. CASE SupervisorExit
  BY <1>3 DEF SupervisorExit, SupType
<1> QED
  BY <1>1, <1>2, <1>3

(* The frame of the steps that are no caller's.                            *)
LanesOnly ==
    \/ Reconcile \/ BeginHalt \/ Revoked \/ Elapse \/ OnTick
    \/ (\E epoch \in sent, to \in ReportPhase : OnReport(epoch, to))
    \/ SupervisorExit
LEMMA LanesFrame ==
    ASSUME LanesOnly
    PROVE  /\ UNCHANGED <<gate, thread, stopWake, stopLane, sent, failed, closed, latchEpoch>>
           /\ Reconcile \/ superWake' = superWake
           /\ Revoked \/ awaiting' = awaiting
           /\ (\E epoch \in sent, to \in ReportPhase : OnReport(epoch, to))
              \/ disabled' = disabled
BY DEF LanesOnly, Reconcile, BeginHalt, Revoked, Elapse, OnTick, OnReport,
   SupervisorExit, haltVars, wakeVars, latchVars

LEMMA SupTyped ==
    ASSUME sup \in SupType, phase \in PhaseType, gate.epoch \in Nat, LanesOnly
    PROVE  sup' \in SupType /\ phase' \in PhaseType
<1>1. Unspecified \in 0 .. 8 /\ Requested \in 0 .. 8
  BY DEF Unspecified, Requested
<1>2. CASE Reconcile
  BY <1>1, <1>2, ReconcileStep DEF SupType, PhaseType
<1>3. CASE BeginHalt
  BY <1>1, <1>3, BeginStep DEF SupType, PhaseType
<1>4. CASE Revoked \/ Elapse \/ SupervisorExit
  BY <1>4, PlainStep
<1>5. CASE OnTick \/ \E epoch \in sent, to \in ReportPhase : OnReport(epoch, to)
  BY <1>5, TickStep, ReportStep DEF Follows, Stays, Climbs, SupType, PhaseType
<1> QED
  BY <1>2, <1>3, <1>4, <1>5 DEF LanesOnly

LEMMA TypeInit == Init => TypeOK
<1> SUFFICES ASSUME Init PROVE TypeOK
  OBVIOUS
<1>1. GateOK
  BY EpochMaskAssumption DEF Init, LatchInit, GateInit, GateOK, GateStates
<1>2. StandstillTimeout \in Nat
  BY SafetyAssumption
<1>3. 0 \in 0 .. StandstillTimeout + 1 /\ {} \in SUBSET Escalation
  BY <1>2
<1>4. sup \in SupType /\ phase \in PhaseType
  BY <1>3 DEF Init, SafetyInit, SupType, PhaseType, Unspecified
<1>5. thread \in [Thread -> ThreadType]
  BY DEF Init, SafetyInit, NoThread, ThreadType
<1> QED
  BY <1>1, <1>4, <1>5 DEF Init, LatchInit, SafetyInit, TypeOK, SupType, PhaseType,
     ThreadType

LEMMA TypeStep == ASSUME TypeOK, [AnyNext]_safetyAll PROVE TypeOK'
<1>1. /\ sup \in SupType /\ phase \in PhaseType /\ gate.epoch \in Nat
      /\ thread \in [Thread -> ThreadType]
  BY DEF TypeOK, SupType, PhaseType, ThreadType, GateOK
<1>2. CASE \E t \in Thread : Calls(t)
  <2>1. PICK t \in Thread : Calls(t)
    BY <1>2
  <2>2. UNCHANGED <<sup, phase, stopLane, sent, failed, closed, disabled>>
    BY <2>1, CallsFrame
  <2>3. GateOK' /\ thread' \in [Thread -> ThreadType]
    BY <2>1, GateStep, ThreadTyped DEF TypeOK
  <2>4. gate'.epoch \in Nat
    BY <2>3 DEF GateOK
  <2>5. stopWake' \in BOOLEAN /\ superWake' \in BOOLEAN
    BY <2>1 DEF TypeOK, Calls, Trip, WakeStop, WakeSuper, RequestRecovery,
       RequireExplicitRearm, RearmLoad, RearmJudge, RearmSwap, wakeVars
  <2>6. latchEpoch' \in Nat /\ awaiting' \subseteq Nat
    BY <2>1, <2>4 DEF TypeOK, Calls, Trip, LatchTrip, WakeStop, WakeSuper,
       RequestRecovery, RequireExplicitRearm, RearmLoad, RearmJudge, RearmSwap,
       latchVars
  <2> QED
    BY <2>2, <2>3, <2>5, <2>6 DEF TypeOK, ThreadType
<1>3. CASE LanesOnly
  <2>1. /\ UNCHANGED <<gate, thread, stopWake, stopLane, sent, failed, closed, latchEpoch>>
        /\ Reconcile \/ superWake' = superWake
        /\ Revoked \/ awaiting' = awaiting
        /\ (\E epoch \in sent, to \in ReportPhase : OnReport(epoch, to))
           \/ disabled' = disabled
    BY <1>3, LanesFrame
  <2>2. sup' \in SupType /\ phase' \in PhaseType
    BY <1>1, <1>3, SupTyped
  <2>3. superWake' \in BOOLEAN
    BY <2>1 DEF Reconcile, TypeOK
  <2>4. awaiting' \subseteq Nat
    BY <2>1 DEF Revoked, LatchServed, TypeOK
  <2>5. disabled' \subseteq Nat
    BY <2>1 DEF OnReport, TypeOK
  <2> QED
    BY <2>1, <2>2, <2>3, <2>4, <2>5 DEF TypeOK, SupType, PhaseType, GateOK
<1>4. CASE DeliverHalt \/ Stop \/ StopLaneExit
  BY <1>1, <1>4 DEF DeliverHalt, Stop, StopLaneExit, TypeOK, GateOK, wakeVars, latchVars
<1>5. CASE Bumps
  BY <1>5, NextEpoch DEF Bumps, BumpEpoch, TypeOK, GateOK, safetyVars
<1>6. CASE UNCHANGED safetyAll
  BY <1>6 DEF safetyAll, safetyVars, TypeOK, GateOK
<1> QED
  BY <1>2, <1>3, <1>4, <1>5, <1>6, NextCases DEF LanesOnly

----------------------------------------------------------------------------
(***************************************************************************)
(* The phase. While a halt is tracked the published word mirrors it; a     *)
(* halt is begun under an epoch other than the tracked one's.              *)
(***************************************************************************)
Mirrors ==
    IF sup.active
    THEN /\ phase = [phase |-> sup.phase, epoch |-> sup.epoch]
         /\ sup.terminal <=> Fault(sup.phase)
    ELSE phase.phase = Unspecified
BeginIsNew == sup.pc = "begin" /\ sup.active => sup.next # sup.epoch
PhaseInv == Mirrors /\ BeginIsNew /\ PhaseHasEvidence

LEMMA PhaseInit == Init => PhaseInv
BY DEF Init, SafetyInit, PhaseInv, Mirrors, BeginIsNew, PhaseHasEvidence, Rank,
   Unspecified, OutputDisabled, StandstillConfirmed

(* A step that moves neither the phase nor what it is of.                  *)
LEMMA PhaseStays ==
    ASSUME PhaseInv, phase' = phase, sup'.active = sup.active,
           sup'.epoch = sup.epoch, sup'.phase = sup.phase,
           sup'.terminal = sup.terminal, disabled \subseteq disabled', BeginIsNew'
    PROVE  PhaseInv' /\ PhaseOnlyClimbs
BY DEF PhaseInv, Mirrors, PhaseHasEvidence, PhaseOnlyClimbs

LEMMA PhaseClimbs ==
    ASSUME PhaseInv, sup \in SupType, Follows, Climbs, disabled \subseteq disabled',
           Rank(sup'.phase) >= OutputDisabled => sup.epoch \in disabled'
    PROVE  PhaseInv' /\ PhaseOnlyClimbs
<1>1. Mirrors'
  BY DEF Climbs, Follows, Mirrors
<1>2. BeginIsNew'
  BY DEF Follows, BeginIsNew, PhaseInv
<1>3. PhaseHasEvidence'
  BY DEF Climbs, PhaseHasEvidence
<1>4. phase.phase = sup.phase /\ ~Fault(phase.phase)
  BY DEF Climbs, Mirrors, PhaseInv
<1>5. Fault(phase'.phase) \/ phase'.phase > phase.phase
  BY <1>4 DEF Climbs, Follows, Fault, Rank, SupType, DeliveryFault, StandstillTimedOut
<1> QED
  BY <1>1, <1>2, <1>3, <1>4, <1>5 DEF PhaseOnlyClimbs, PhaseInv

LEMMA PhaseStep ==
    ASSUME TypeOK, PhaseInv, [AnyNext]_safetyAll PROVE PhaseInv' /\ PhaseOnlyClimbs
<1>1. /\ sup \in SupType /\ phase \in PhaseType /\ gate.epoch \in Nat
  BY DEF TypeOK, SupType, PhaseType, GateOK
<1>2. CASE \/ \E t \in Thread : Calls(t)
           \/ DeliverHalt \/ Stop \/ StopLaneExit \/ Bumps \/ UNCHANGED safetyAll
  <2>1. UNCHANGED <<sup, phase, disabled>>
    BY <1>2, CallsFrame DEF DeliverHalt, Stop, StopLaneExit, Bumps, safetyVars,
       safetyAll
  <2> QED
    BY <2>1, PhaseStays DEF PhaseInv, BeginIsNew
<1>3. CASE Revoked \/ Elapse \/ SupervisorExit
  <2>1. disabled' = disabled /\ (sup'.pc = "begin" => sup.pc = "begin")
    BY <1>1, <1>3 DEF Revoked, Elapse, SupervisorExit, SupType, haltVars
  <2> QED
    BY <1>1, <1>3, <2>1, PlainStep, PhaseStays DEF PhaseInv, BeginIsNew
<1>4. CASE Reconcile
  <2>1. disabled' = disabled
    BY <1>4 DEF Reconcile, haltVars
  <2>2. CASE Normal /\ sup.active
    <3>1. /\ phase' = [phase |-> Unspecified, epoch |-> sup.epoch]
          /\ ~sup'.active
      BY <1>1, <1>4, <2>2, ReconcileStep DEF NewHalt
    <3> QED
      BY <3>1, <2>1 DEF PhaseInv, Mirrors, BeginIsNew, PhaseHasEvidence, Rank,
         PhaseOnlyClimbs, Unspecified, OutputDisabled, StandstillConfirmed
  <2>3. CASE ~(Normal /\ sup.active)
    BY <1>1, <1>4, <2>1, <2>3, ReconcileStep, PhaseStays
       DEF BeginIsNew, NewHalt, PhaseInv
  <2> QED
    BY <2>2, <2>3
<1>5. CASE BeginHalt
  <2>1. disabled' = disabled /\ sup.pc = "begin"
    BY <1>5 DEF BeginHalt, haltVars
  <2>2. /\ sup'.pc = "revoking" /\ sup'.active /\ sup'.epoch = sup.next
        /\ sup'.phase = 1 /\ ~sup'.terminal
        /\ phase' = [phase |-> 1, epoch |-> sup.next]
    BY <1>1, <1>5, BeginStep DEF Requested
  <2>3. PhaseInv'
    BY <2>2 DEF PhaseInv, Mirrors, BeginIsNew, PhaseHasEvidence, Rank, Fault,
       OutputDisabled, StandstillConfirmed, DeliveryFault, StandstillTimedOut
  <2>4. phase'.epoch # phase.epoch \/ phase.phase = 0
    BY <2>1, <2>2 DEF PhaseInv, Mirrors, BeginIsNew, Unspecified
  <2> QED
    BY <2>2, <2>3, <2>4 DEF PhaseOnlyClimbs, Fault, DeliveryFault, StandstillTimedOut
<1>6. CASE OnTick
  <2>1. disabled' = disabled
    BY <1>6 DEF OnTick, haltVars
  <2>2. CASE Follows /\ Stays
    BY <2>1, <2>2, PhaseStays DEF Follows, Stays, BeginIsNew, PhaseInv
  <2>3. CASE Follows /\ Climbs /\ Fault(sup'.phase)
    <3>1. ~(Rank(sup'.phase) >= OutputDisabled)
      BY <2>3 DEF Fault, Rank, OutputDisabled, DeliveryFault, StandstillTimedOut
    <3> QED
      BY <1>1, <2>1, <2>3, <3>1, PhaseClimbs
  <2> QED
    BY <1>1, <1>6, <2>2, <2>3, TickStep
<1>7. ASSUME NEW epoch \in sent, NEW to \in ReportPhase, OnReport(epoch, to)
      PROVE  PhaseInv' /\ PhaseOnlyClimbs
  <2>1. disabled' = IF Rank(to) >= OutputDisabled THEN disabled \cup {epoch}
                    ELSE disabled
    BY <1>7 DEF OnReport
  <2>2. CASE Follows /\ Stays
    BY <2>1, <2>2, PhaseStays DEF Follows, Stays, BeginIsNew, PhaseInv
  <2>3. CASE Follows /\ Climbs /\ epoch = sup.epoch /\ sup'.phase = Reaches(to)
    <3>1. Rank(sup'.phase) >= OutputDisabled => Rank(to) >= OutputDisabled
      BY <2>3 DEF Reaches, Rank, OutputDisabled, StandstillConfirmed
    <3> QED
      BY <1>1, <2>1, <2>3, <3>1, PhaseClimbs
  <2> QED
    BY <1>1, <1>7, <2>2, <2>3, ReportStep
<1> QED
  BY <1>2, <1>3, <1>4, <1>5, <1>6, <1>7, NextCases

(* No phase is published without the Provider's own report for that halt,  *)
(* no standstill without the means to prove one, and within a halt phases  *)
(* only climb and a fault is final, whatever the order and number of       *)
(* reports, timeouts, trips and re-arms (stopprogress.go's advance,        *)
(* supervisor.go's onReport, onTick, beginHalt and reconcile).             *)
THEOREM PhasesAreHonest == Spec => PhaseIsHonest
<1>1. Init => TypeOK /\ PhaseInv
  BY TypeInit, PhaseInit
<1>2. TypeOK /\ PhaseInv /\ [Next]_safetyAll
        => (TypeOK /\ PhaseInv)' /\ [PhaseHasEvidence' /\ PhaseOnlyClimbs]_safetyAll
  BY TypeStep, PhaseStep DEF AnyNext, PhaseInv
<1> QED
  BY <1>1, <1>2, PTL DEF Spec, PhaseIsHonest

----------------------------------------------------------------------------
(***************************************************************************)
(* The lanes. A wake-up dropped on a full channel is no loss: as long as   *)
(* somebody is awake or about to be woken the lane will look once more,    *)
(* and otherwise it has looked since the gate last moved.                  *)
(***************************************************************************)
Waking(pcs) == \E t \in Thread : thread[t].pc \in pcs
HaltGoesOut ==
    ~Normal /\ ~closed => gate.epoch \in Tried \/ stopWake \/ Waking({"wakeStop"})
InStep ==
    IF sup.pc = "begin" THEN ~Normal /\ sup.next = gate.epoch
    ELSE IF Normal THEN ~sup.active
         ELSE sup.active /\ sup.epoch = gate.epoch
HaltIsTracked ==
    ~closed => /\ sup.pc # "exited"
               /\ superWake \/ Waking({"wakeStop", "wakeSuper"}) \/ InStep
LaneInv == HaltGoesOut /\ HaltIsTracked

LEMMA LaneInit == Init => LaneInv
BY DEF Init, LatchInit, GateInit, SafetyInit, LaneInv, HaltGoesOut, HaltIsTracked,
   InStep, Normal

(* A caller wakes whom its step concerns, or is about to.                  *)
LEMMA CallsWake ==
    ASSUME TypeOK, LaneInv, NEW t \in Thread, Calls(t) PROVE LaneInv'
<1>1. thread \in [Thread -> ThreadType]
  BY DEF TypeOK, ThreadType
<1>2. UNCHANGED <<sup, sent, failed, closed>>
  BY CallsFrame
<1>3. CASE Trip(t)
  <2>1. thread'[t].pc = "wakeStop" /\ UNCHANGED wakeVars
    BY <1>1, <1>3 DEF Trip, Call, ThreadType
  <2> QED
    BY <1>2, <2>1 DEF LaneInv, HaltGoesOut, Tried, HaltIsTracked, Waking
<1>4. CASE WakeStop(t)
  <2>1. /\ thread'[t].pc = "wakeSuper" /\ stopWake' /\ UNCHANGED gate
    BY <1>1, <1>4 DEF WakeStop, ThreadType
  <2> QED
    BY <1>2, <2>1 DEF LaneInv, HaltGoesOut, Tried, HaltIsTracked, Waking
<1>5. CASE WakeSuper(t)
  <2>1. /\ superWake' /\ stopWake' = stopWake /\ UNCHANGED gate
        /\ \A u \in Thread : thread[u].pc = "wakeStop" => thread'[u].pc = "wakeStop"
    BY <1>1, <1>5 DEF WakeSuper, ThreadType
  <2> QED
    BY <1>2, <2>1 DEF LaneInv, HaltGoesOut, Tried, HaltIsTracked, Waking, Normal
<1>6. CASE RequestRecovery(t) \/ RequireExplicitRearm(t)
  <2>1. /\ thread'[t].pc = "wakeSuper" /\ UNCHANGED wakeVars
        /\ \A u \in Thread : thread[u].pc = "wakeStop" => thread'[u].pc = "wakeStop"
    BY <1>1, <1>6 DEF RequestRecovery, RequireExplicitRearm, Call, ThreadType
  <2>2. gate'.epoch = gate.epoch /\ Normal' = Normal
    BY <1>6 DEF RequestRecovery, RequireExplicitRearm, BeginRecovery, RequireRearm,
       TypeOK, GateOK, Normal
  <2> QED
    BY <1>2, <2>1, <2>2 DEF LaneInv, HaltGoesOut, Tried, HaltIsTracked, Waking, wakeVars
<1>7. CASE (RearmLoad(t) \/ RearmJudge(t) \/ RearmSwap(t)) /\ UNCHANGED gate
  <2>1. /\ UNCHANGED wakeVars
        /\ \A u \in Thread : thread[u].pc \in {"wakeStop", "wakeSuper"} =>
              thread'[u].pc = thread[u].pc
    BY <1>1, <1>7 DEF RearmLoad, RearmJudge, RearmSwap, NoThread, ThreadType
  <2> QED
    BY <1>2, <1>7, <2>1 DEF LaneInv, HaltGoesOut, Tried, HaltIsTracked, InStep, Waking,
       Normal, wakeVars
<1>8. CASE RearmSwap(t) /\ RearmGate
  <2>1. thread'[t].pc = "wakeSuper" /\ UNCHANGED wakeVars /\ Normal'
    BY <1>1, <1>8 DEF RearmSwap, RearmGate, Normal, NoThread, ThreadType
  <2> QED
    BY <1>2, <2>1 DEF LaneInv, HaltGoesOut, Tried, HaltIsTracked, Waking, Normal
<1>9. (RearmLoad(t) \/ RearmJudge(t)) => UNCHANGED gate
  BY DEF RearmLoad, RearmJudge
<1>10. RearmSwap(t) => UNCHANGED gate \/ RearmGate
  BY DEF RearmSwap
<1> QED
  BY <1>3, <1>4, <1>5, <1>6, <1>7, <1>8, <1>9, <1>10 DEF Calls

LEMMA LaneStep == ASSUME TypeOK, LaneInv, [AnyNext]_safetyAll PROVE LaneInv'
<1>1. /\ sup \in SupType /\ gate.epoch \in Nat
  BY DEF TypeOK, SupType, GateOK
<1>2. CASE \E t \in Thread : Calls(t)
  BY <1>2, CallsWake
<1>3. CASE LanesOnly
  <2>1. /\ UNCHANGED <<gate, thread, stopWake, sent, failed, closed>>
        /\ Reconcile \/ superWake' = superWake
    BY <1>3, LanesFrame
  <2>2. HaltGoesOut'
    BY <2>1 DEF LaneInv, HaltGoesOut, Tried, Waking, Normal
  <2>3. CASE Reconcile
    <3>1. ~closed => sup'.pc # "exited" /\ InStep'
      BY <1>1, <2>1, <2>3, ReconcileStep DEF NewHalt, InStep, Normal
    <3> QED
      BY <2>1, <2>2, <3>1 DEF LaneInv, HaltIsTracked
  <2>4. CASE BeginHalt
    <3>1. /\ sup.pc = "begin" /\ sup'.pc = "revoking" /\ sup'.active
          /\ sup'.epoch = sup.next /\ superWake' = superWake
      BY <1>1, <2>4, BeginStep DEF BeginHalt, wakeVars
    <3> QED
      BY <2>1, <2>2, <3>1 DEF LaneInv, HaltIsTracked, InStep, Waking, Normal
  <2>5. CASE \/ Revoked \/ Elapse \/ OnTick
             \/ \E epoch \in sent, to \in ReportPhase : OnReport(epoch, to)
    <3>1. /\ sup'.active = sup.active /\ sup'.epoch = sup.epoch
          /\ sup'.next = sup.next
          /\ sup'.pc = sup.pc \/ (sup.pc = "revoking" /\ sup'.pc = "idle")
          /\ superWake' = superWake
      <4>1. CASE Revoked \/ Elapse
        BY <1>1, <4>1 DEF Revoked, Elapse, SupType, wakeVars
      <4>2. CASE OnTick
        BY <1>1, <4>2, TickStep DEF OnTick, Follows, wakeVars
      <4>3. ASSUME NEW epoch \in sent, NEW to \in ReportPhase, OnReport(epoch, to)
            PROVE  Follows /\ superWake' = superWake
        BY <1>1, <4>3, ReportStep DEF OnReport, wakeVars
      <4> QED
        BY <2>5, <4>1, <4>2, <4>3 DEF Follows
    <3> QED
      BY <2>1, <2>2, <3>1 DEF LaneInv, HaltIsTracked, InStep, Waking, Normal
  <2>6. CASE SupervisorExit
    BY <2>1, <2>2, <2>6 DEF SupervisorExit, LaneInv, HaltIsTracked
  <2> QED
    BY <1>3, <2>3, <2>4, <2>5, <2>6 DEF LanesOnly
<1>4. CASE DeliverHalt
  BY <1>4 DEF DeliverHalt, LaneInv, HaltGoesOut, Tried, HaltIsTracked, InStep, Waking, Normal
<1>5. CASE Stop
  BY <1>5 DEF Stop, LaneInv, HaltGoesOut, Tried, HaltIsTracked
<1>6. CASE StopLaneExit
  BY <1>6 DEF StopLaneExit, LaneInv, HaltGoesOut, Tried, HaltIsTracked
<1>7. CASE Bumps
  <2>1. Normal /\ Normal' /\ UNCHANGED safetyVars
    BY <1>7 DEF Bumps, BumpEpoch, Normal, TypeOK, GateOK
  <2> QED
    BY <2>1 DEF LaneInv, HaltGoesOut, Tried, HaltIsTracked, InStep, Waking, safetyVars
<1>8. CASE UNCHANGED safetyAll
  BY <1>8 DEF safetyAll, safetyVars, LaneInv, HaltGoesOut, Tried, HaltIsTracked, InStep,
     Waking, Normal
<1> QED
  BY <1>2, <1>3, <1>4, <1>5, <1>6, <1>7, <1>8, NextCases DEF LanesOnly

(* However the wake-ups of trips, recoveries and re-arms coalesce, once    *)
(* everyone has had their turn both lanes are at the gate's own epoch: the *)
(* halt has been sent under it and the Supervisor tracks it, or nothing if *)
(* the gate is Normal (trigger.go's wake, stoplane.go, supervisor.go's     *)
(* reconcile).                                                             *)
THEOREM LanesComeToAgree == Spec => []LanesAgree
<1>1. Init => TypeOK /\ LaneInv
  BY TypeInit, LaneInit
<1>2. TypeOK /\ LaneInv /\ [Next]_safetyAll => (TypeOK /\ LaneInv)'
  BY TypeStep, LaneStep DEF AnyNext
<1>3. LaneInv => LanesAgree
  BY DEF LaneInv, HaltGoesOut, HaltIsTracked, InStep, Waking, LanesAgree, Settled
<1> QED
  BY <1>1, <1>2, <1>3, PTL DEF Spec

----------------------------------------------------------------------------
(***************************************************************************)
(* The latch and RevokeAll. The hard step is the swap that re-arms: it     *)
(* comes long after the phase was judged, and between the two the gate may *)
(* have tripped again; it must still be true that the latch that took      *)
(* control away has been through RevokeAll.                                *)
(***************************************************************************)
(* Nothing runs ahead of the gate.                                         *)
Bounded ==
    /\ phase.epoch <= gate.epoch
    /\ sup.epoch <= gate.epoch /\ sup.next <= gate.epoch
    /\ latchEpoch <= gate.epoch
    /\ \A e \in awaiting : e <= gate.epoch
    /\ \A t \in Thread : thread[t].epoch <= gate.epoch

(* No halt has had epoch e, and since the gate has passed it none will.    *)
Unhalted(e) ==
    /\ e \notin awaiting /\ phase.epoch # e
    /\ sup.pc = "begin" => sup.next # e
    /\ sup.active => sup.epoch # e
    /\ gate.epoch = e => Normal

(* The Supervisor and the trips. The halt of a latched gate is tracked or  *)
(* its RevokeAll is still owed, what the Supervisor is about to track is   *)
(* owed, and once a halt is past RevokeAll nothing up to it is owed any    *)
(* more; a settled phase is evidence of that.                              *)
LatchIsSeen ==
    /\ Normal => Unhalted(gate.epoch)
    /\ ~Normal => \/ gate.epoch \in awaiting
                  \/ sup.active /\ sup.epoch = gate.epoch
BeginIsOwed ==
    sup.pc = "begin" => /\ sup.next \in awaiting
                        /\ sup.active => sup.epoch < sup.next
PastRevoke ==
    /\ sup.pc = "revoking" => sup.active
    /\ sup.active /\ sup.pc # "revoking" => \A e \in awaiting : e > sup.epoch
SettledIsServed ==
    RearmSettled(phase.phase) => \A e \in awaiting : e > phase.epoch

(* Rearm between its steps: it judges by the epoch of a halt as old as the *)
(* latch, or by no halt's epoch, and then it is refused; and after the     *)
(* judgement the latch stays served.                                       *)
Judging(t) ==
    \/ Unhalted(thread[t].epoch)
    \/ ~Normal /\ latchEpoch <= thread[t].epoch
RearmIsJust ==
    \A t \in Thread :
        /\ thread[t].pc \in {"judge", "swap"} => t \in Rearmer
        /\ thread[t].pc = "judge" => Judging(t)
        /\ thread[t].pc = "swap" => ~Normal /\ LatchRevoked

HaltInv ==
    /\ Bounded /\ LatchIsSeen /\ BeginIsOwed /\ PastRevoke /\ SettledIsServed
    /\ RearmIsJust

(* The types, as these proofs use them. *)
LEMMA Types ==
    ASSUME TypeOK
    PROVE  /\ gate \in [state: GateStates, epoch: Nat]
           /\ thread \in [Thread -> ThreadType]
           /\ sup \in SupType /\ phase \in PhaseType
           /\ latchEpoch \in Nat /\ awaiting \subseteq Nat
BY DEF TypeOK, ThreadType, SupType, PhaseType, GateOK

LEMMA EpochClimbs ==
    ASSUME TypeOK, NoWrap PROVE IncEpoch(gate.epoch) = gate.epoch + 1
BY DEF NoWrap, IncEpoch, TypeOK, GateOK

LEMMA HaltInit == Init => HaltInv
<1> SUFFICES ASSUME Init PROVE HaltInv
  OBVIOUS
<1> USE DEF Init, LatchInit, GateInit, SafetyInit
<1>1. Bounded
  BY DEF Bounded, NoThread
<1>2. LatchIsSeen /\ BeginIsOwed /\ PastRevoke /\ SettledIsServed
  BY DEF LatchIsSeen, BeginIsOwed, PastRevoke, SettledIsServed, Unhalted, Normal
<1>3. RearmIsJust
  BY DEF RearmIsJust, NoThread
<1> QED
  BY <1>1, <1>2, <1>3 DEF HaltInv

(* What of the invariant a step of one thread leaves to show.              *)
LEMMA ThreadOnly ==
    ASSUME HaltInv, Normal' = Normal, gate'.epoch = gate.epoch,
           UNCHANGED <<latchEpoch, awaiting, sup, phase>>,
           \A u \in Thread : thread'[u].epoch <= gate.epoch, RearmIsJust'
    PROVE  HaltInv'
BY DEF HaltInv, Bounded, LatchIsSeen, BeginIsOwed, PastRevoke, SettledIsServed,
   Unhalted

LEMMA WakeKeeps ==
    ASSUME TypeOK, HaltInv, NEW t \in Thread,
           \/ WakeStop(t) \/ WakeSuper(t)
           \/ RequestRecovery(t) \/ RequireExplicitRearm(t)
    PROVE  HaltInv'
<1>1. UNCHANGED <<latchEpoch, awaiting, sup, phase>>
  BY DEF WakeStop, WakeSuper, RequestRecovery, RequireExplicitRearm, latchVars
<1>2. Normal' = Normal /\ gate'.epoch = gate.epoch
  BY Types DEF WakeStop, WakeSuper, RequestRecovery, RequireExplicitRearm,
     BeginRecovery, RequireRearm, Normal
<1>3. PICK pc \in {"wakeSuper", "idle"} : thread' = [thread EXCEPT ![t].pc = pc]
  BY DEF WakeStop, WakeSuper, RequestRecovery, RequireExplicitRearm, Call
<1>4. \A u \in Thread : /\ thread'[u].epoch = thread[u].epoch
                        /\ thread'[u].pc = IF u = t THEN pc ELSE thread[u].pc
  BY <1>3, Types DEF ThreadType
<1>5. RearmIsJust'
  BY <1>1, <1>2, <1>4 DEF HaltInv, RearmIsJust, Judging, Unhalted, LatchRevoked
<1>6. \A u \in Thread : thread'[u].epoch <= gate.epoch
  BY <1>4 DEF HaltInv, Bounded
<1> QED
  BY <1>1, <1>2, <1>5, <1>6, ThreadOnly

LEMMA QuietKeeps ==
    ASSUME TypeOK, HaltInv,
           DeliverHalt \/ Elapse \/ Stop \/ StopLaneExit \/ SupervisorExit
    PROVE  HaltInv'
<1>1. UNCHANGED <<gate, latchEpoch, awaiting, thread, phase>>
  BY DEF DeliverHalt, Elapse, Stop, StopLaneExit, SupervisorExit, latchVars
<1>2. /\ sup'.active = sup.active /\ sup'.epoch = sup.epoch /\ sup'.next = sup.next
      /\ sup'.pc = sup.pc \/ (sup.pc = "idle" /\ sup'.pc = "exited")
  <2>1. CASE DeliverHalt \/ Stop \/ StopLaneExit
    BY <2>1 DEF DeliverHalt, Stop, StopLaneExit
  <2>2. CASE Elapse \/ SupervisorExit
    BY <2>2, Types DEF Elapse, SupervisorExit, SupType
  <2> QED
    BY <2>1, <2>2
<1> QED
  BY <1>1, <1>2 DEF HaltInv, Bounded, LatchIsSeen, BeginIsOwed, PastRevoke,
     SettledIsServed, RearmIsJust, Judging, Unhalted, LatchRevoked, Normal

LEMMA BumpKeeps ==
    ASSUME TypeOK, NoWrap, HaltInv, Bumps PROVE HaltInv'
<1>1. UNCHANGED <<latchEpoch, awaiting, thread, sup, phase>> /\ Normal
  BY DEF Bumps, safetyVars
<1>2. gate'.epoch = gate.epoch + 1 /\ Normal'
  BY EpochClimbs, Types DEF Bumps, BumpEpoch, Normal
<1>3. BeginIsOwed' /\ PastRevoke' /\ SettledIsServed'
  BY <1>1 DEF HaltInv, BeginIsOwed, PastRevoke, SettledIsServed
<1>4. Bounded' /\ Unhalted(gate.epoch)'
  BY <1>1, <1>2, Types DEF HaltInv, Bounded, Unhalted, SupType, PhaseType, ThreadType
<1>5. LatchIsSeen'
  BY <1>1, <1>2, <1>4 DEF LatchIsSeen
<1>6. RearmIsJust'
  BY <1>1, <1>2 DEF HaltInv, RearmIsJust, Judging, Unhalted
<1> QED
  BY <1>3, <1>4, <1>5, <1>6 DEF HaltInv

LEMMA TripKeeps ==
    ASSUME TypeOK, NoWrap, HaltInv, NEW t \in Thread, Trip(t) PROVE HaltInv'
<1>1. UNCHANGED <<sup, phase>> /\ LatchTrip
  BY DEF Trip
<1>2. \A u \in Thread : /\ thread'[u].epoch = thread[u].epoch
                        /\ thread'[u].pc = IF u = t THEN "wakeStop" ELSE thread[u].pc
  BY Types DEF Trip, Call, ThreadType
<1>3. CASE gate.state = "SafetyLatched"
  <2>1. UNCHANGED <<gate, latchEpoch, awaiting>>
    BY <1>1, <1>3 DEF LatchTrip, TripGate, Normal
  <2>2. RearmIsJust'
    BY <1>1, <1>2, <2>1 DEF HaltInv, RearmIsJust, Judging, Unhalted, LatchRevoked, Normal
  <2> QED
    BY <1>1, <1>2, <2>1, <2>2, ThreadOnly DEF HaltInv, Bounded, Normal
<1>4. CASE gate.state # "SafetyLatched"
  <2>1. gate'.epoch = gate.epoch + 1 /\ ~Normal' /\ gate' # gate
    BY <1>1, <1>4, EpochClimbs, Types DEF LatchTrip, TripGate, Normal
  <2>2. /\ awaiting' = awaiting \cup {gate'.epoch}
        /\ latchEpoch' = IF Normal THEN gate'.epoch ELSE latchEpoch
    BY <1>1, <2>1 DEF LatchTrip
  <2>3. /\ gate.epoch \in Nat /\ latchEpoch \in Nat /\ awaiting \subseteq Nat
        /\ sup.epoch \in Nat /\ sup.next \in Nat /\ phase.epoch \in Nat
        /\ \A u \in Thread : thread[u].epoch \in Nat
    BY Types DEF SupType, PhaseType, ThreadType
  <2>4. Bounded'
    BY <1>1, <1>2, <2>1, <2>2, <2>3 DEF HaltInv, Bounded
  <2>5. LatchIsSeen' /\ BeginIsOwed'
    BY <1>1, <2>1, <2>2 DEF HaltInv, LatchIsSeen, BeginIsOwed
  <2>6. PastRevoke' /\ SettledIsServed'
    BY <1>1, <2>1, <2>2, <2>3 DEF HaltInv, Bounded, PastRevoke, SettledIsServed
  <2>7. ASSUME NEW u \in Thread, thread'[u].pc = "judge" PROVE Judging(u)'
    <3>1. thread[u].pc = "judge" /\ thread'[u].epoch = thread[u].epoch
      BY <1>2, <2>7
    <3>2. CASE Unhalted(thread[u].epoch)
      BY <1>1, <2>1, <2>2, <2>3, <3>1, <3>2 DEF Judging, Unhalted, HaltInv, Bounded
    <3>3. CASE ~Normal /\ latchEpoch <= thread[u].epoch
      BY <2>1, <2>2, <3>1, <3>3 DEF Judging
    <3> QED
      BY <3>1, <3>2, <3>3 DEF HaltInv, RearmIsJust, Judging
  <2>8. ASSUME NEW u \in Thread, thread'[u].pc = "swap" PROVE LatchRevoked'
    <3>1. ~Normal /\ LatchRevoked
      BY <1>2, <2>8 DEF HaltInv, RearmIsJust
    <3> QED
      BY <2>1, <2>2, <2>3, <3>1 DEF LatchRevoked, HaltInv, Bounded
  <2>9. RearmIsJust'
    BY <1>2, <2>1, <2>7, <2>8 DEF HaltInv, RearmIsJust
  <2> QED
    BY <2>4, <2>5, <2>6, <2>9 DEF HaltInv
<1> QED
  BY <1>3, <1>4

(* Re-arm, one caller at a time. *)
LEMMA LoadKeeps ==
    ASSUME TypeOK, HaltInv, NEW t \in Thread, RearmLoad(t) PROVE HaltInv'
<1>1. UNCHANGED <<gate, latchEpoch, awaiting, sup, phase>> /\ t \in Rearmer
  BY DEF RearmLoad, latchVars
<1>2. thread' = [thread EXCEPT ![t] = [pc |-> "judge", epoch |-> gate.epoch]]
  BY DEF RearmLoad
<1>3. ASSUME NEW u \in Thread, u # t PROVE thread'[u] = thread[u]
  BY <1>2, <1>3, Types
<1>4. thread'[t].pc = "judge" /\ thread'[t].epoch = gate.epoch
  BY <1>2, Types
<1>5. Judging(t)'
  BY <1>1, <1>4 DEF HaltInv, LatchIsSeen, Bounded, Judging, Unhalted, Normal
<1>6. RearmIsJust'
  BY <1>1, <1>3, <1>4, <1>5 DEF HaltInv, RearmIsJust, Judging, Unhalted,
     LatchRevoked, Normal
<1>7. \A u \in Thread : thread'[u].epoch <= gate.epoch
  BY <1>3, <1>4, Types DEF HaltInv, Bounded
<1> QED
  BY <1>1, <1>6, <1>7, ThreadOnly DEF Normal

(* The judgement accepts the epoch of a halt that is past RevokeAll, and   *)
(* the latch in force is no younger.                                       *)
LEMMA JudgeKeeps ==
    ASSUME TypeOK, HaltInv, NEW t \in Thread, RearmJudge(t) PROVE HaltInv'
<1>1. UNCHANGED <<gate, latchEpoch, awaiting, sup, phase>>
      /\ thread[t].pc = "judge" /\ t \in Rearmer
  BY DEF RearmJudge, latchVars, HaltInv, RearmIsJust
<1>2. ASSUME NEW u \in Thread, u # t PROVE thread'[u] = thread[u]
  BY <1>2, Types DEF RearmJudge
<1>3. CASE MayRearm(phase, thread[t].epoch)
  <2>1. thread'[t].pc = "swap" /\ thread'[t].epoch = thread[t].epoch
    BY <1>3, Types DEF RearmJudge, ThreadType
  <2>2. phase.epoch = thread[t].epoch /\ RearmSettled(phase.phase)
    BY <1>3 DEF MayRearm
  <2>3. ~Normal /\ latchEpoch <= phase.epoch
    BY <1>1, <2>2 DEF HaltInv, RearmIsJust, Judging, Unhalted
  <2>4. LatchRevoked
    BY <2>2, <2>3, Types DEF HaltInv, SettledIsServed, LatchRevoked, PhaseType
  <2>5. RearmIsJust'
    BY <1>1, <1>2, <2>1, <2>3, <2>4 DEF HaltInv, RearmIsJust, Judging, Unhalted,
       LatchRevoked, Normal
  <2>6. \A u \in Thread : thread'[u].epoch <= gate.epoch
    BY <1>2, <2>1 DEF HaltInv, Bounded
  <2> QED
    BY <1>1, <2>5, <2>6, ThreadOnly DEF Normal
<1>4. CASE ~MayRearm(phase, thread[t].epoch)
  <2>1. thread'[t].pc = "idle" /\ thread'[t].epoch = 0
    BY <1>4, Types DEF RearmJudge, NoThread
  <2>2. RearmIsJust'
    BY <1>1, <1>2, <2>1 DEF HaltInv, RearmIsJust, Judging, Unhalted, LatchRevoked,
       Normal
  <2>3. \A u \in Thread : thread'[u].epoch <= gate.epoch
    BY <1>2, <2>1, Types DEF HaltInv, Bounded
  <2> QED
    BY <1>1, <2>2, <2>3, ThreadOnly DEF Normal
<1> QED
  BY <1>3, <1>4

LEMMA SwapKeeps ==
    ASSUME OneRearmer, TypeOK, NoWrap, HaltInv, NEW t \in Thread, RearmSwap(t)
    PROVE  HaltInv'
<1>1. UNCHANGED <<latchEpoch, awaiting, sup, phase>>
      /\ thread[t].pc = "swap" /\ t \in Rearmer
  BY DEF RearmSwap, latchVars, HaltInv, RearmIsJust
<1>2. PICK pc \in {"wakeSuper", "idle"} :
           thread' = [thread EXCEPT ![t] = [pc |-> pc, epoch |-> 0]]
  BY DEF RearmSwap, NoThread
<1>3. \A u \in Thread : IF u = t THEN thread'[u].pc = pc /\ thread'[u].epoch = 0
                        ELSE thread'[u] = thread[u]
  BY <1>2, Types
<1>4. \A u \in Thread : u # t => thread[u].pc \notin {"judge", "swap"}
  BY <1>1 DEF HaltInv, RearmIsJust, OneRearmer
<1>5. RearmIsJust'
  BY <1>3, <1>4 DEF RearmIsJust
<1>6. gate.epoch \in Nat /\ \A u \in Thread : thread'[u].epoch <= gate.epoch
  BY <1>3, Types DEF HaltInv, Bounded
<1>7. CASE UNCHANGED gate
  BY <1>1, <1>5, <1>6, <1>7, ThreadOnly DEF Normal
<1>8. CASE RearmGate
  <2>1. gate'.epoch = gate.epoch + 1 /\ Normal'
    BY <1>8, EpochClimbs DEF RearmGate, Normal
  <2>2. Bounded'
    <3>1. \A u \in Thread : thread'[u].epoch \in Nat
      BY <1>3, Types DEF ThreadType
    <3> QED
      BY <1>1, <1>6, <2>1, <3>1, Types DEF HaltInv, Bounded, SupType, PhaseType
  <2>3. Unhalted(gate.epoch)'
    BY <1>1, <1>6, <2>1, Types DEF HaltInv, Bounded, Unhalted, SupType, PhaseType
  <2>4. LatchIsSeen' /\ BeginIsOwed' /\ PastRevoke' /\ SettledIsServed'
    BY <1>1, <2>1, <2>3 DEF HaltInv, LatchIsSeen, BeginIsOwed, PastRevoke,
       SettledIsServed
  <2> QED
    BY <1>5, <2>2, <2>4 DEF HaltInv
<1> QED
  BY <1>7, <1>8 DEF RearmSwap

(* The Supervisor: what its steps have in common. No epoch becomes a       *)
(* halt's that was not one, unless the gate is latched under it.           *)
LEMMA SupervisorOnly ==
    ASSUME HaltInv, UNCHANGED <<gate, latchEpoch, thread>>,
           awaiting' \subseteq awaiting, phase'.epoch <= gate.epoch,
           sup'.epoch <= gate.epoch, sup'.next <= gate.epoch,
           \A e : Unhalted(e) => Unhalted(e)',
           ~Normal => \/ gate.epoch \in awaiting'
                      \/ sup'.active /\ sup'.epoch = gate.epoch,
           BeginIsOwed', PastRevoke', SettledIsServed'
    PROVE  HaltInv'
<1>1. Bounded'
  BY DEF HaltInv, Bounded
<1>2. LatchIsSeen'
  BY DEF HaltInv, LatchIsSeen, Normal
<1>3. RearmIsJust'
  BY DEF HaltInv, RearmIsJust, Judging, LatchRevoked, Normal
<1> QED
  BY <1>1, <1>2, <1>3 DEF HaltInv

LEMMA ReconcileKeeps == ASSUME TypeOK, HaltInv, Reconcile PROVE HaltInv'
<1>1. UNCHANGED <<gate, latchEpoch, awaiting, thread>> /\ sup.pc = "idle"
  BY DEF Reconcile, latchVars
<1>2. /\ sup \in SupType /\ phase \in PhaseType
      /\ gate.epoch \in Nat /\ Bounded
  BY Types DEF HaltInv
<1>3. CASE NewHalt
  <2>1. /\ sup'.pc = "begin" /\ sup'.next = gate.epoch /\ phase' = phase
        /\ sup'.active = sup.active /\ sup'.epoch = sup.epoch
    BY <1>2, <1>3, ReconcileStep DEF NewHalt
  <2>2. ~Normal /\ (~sup.active \/ gate.epoch # sup.epoch)
    BY <1>3 DEF NewHalt
  <2>3. gate.epoch \in awaiting
    BY <2>2 DEF HaltInv, LatchIsSeen
  <2>4. BeginIsOwed'
    BY <1>1, <1>2, <2>1, <2>2, <2>3 DEF BeginIsOwed, Bounded, SupType
  <2>5. PastRevoke' /\ SettledIsServed'
    BY <1>1, <2>1 DEF HaltInv, PastRevoke, SettledIsServed
  <2>6. \A e : Unhalted(e) => Unhalted(e)'
    BY <1>1, <2>1, <2>3 DEF Unhalted, Normal
  <2> QED
    BY <1>1, <1>2, <2>1, <2>3, <2>4, <2>5, <2>6, SupervisorOnly DEF Bounded
<1>4. CASE Normal /\ sup.active
  <2>1. /\ sup'.pc = "idle" /\ ~sup'.active
        /\ sup'.epoch = sup.epoch /\ sup'.next = sup.next
        /\ phase' = [phase |-> 0, epoch |-> sup.epoch]
    BY <1>2, <1>4, ReconcileStep DEF NewHalt, Unspecified
  <2>2. BeginIsOwed' /\ PastRevoke'
    BY <2>1 DEF BeginIsOwed, PastRevoke
  <2>3. SettledIsServed'
    BY <2>1 DEF SettledIsServed, RearmSettled, Rank, Fault, OutputDisabled,
       DeliveryFault, StandstillTimedOut
  <2>4. \A e : Unhalted(e) => Unhalted(e)'
    BY <1>1, <1>4, <2>1 DEF Unhalted, Normal
  <2> QED
    BY <1>1, <1>2, <1>4, <2>1, <2>2, <2>3, <2>4, SupervisorOnly DEF Bounded
<1>5. CASE sup' = sup /\ phase' = phase
  <2>1. \A e : Unhalted(e) => Unhalted(e)'
    BY <1>1, <1>5 DEF Unhalted, Normal
  <2>2. BeginIsOwed' /\ PastRevoke' /\ SettledIsServed'
    BY <1>1, <1>5 DEF HaltInv, BeginIsOwed, PastRevoke, SettledIsServed
  <2> QED
    BY <1>1, <1>2, <1>5, <2>1, <2>2, SupervisorOnly DEF HaltInv, Bounded, LatchIsSeen
<1> QED
  BY <1>2, <1>3, <1>4, <1>5, ReconcileStep

(* Reports and timeouts settle only the halt that is tracked. *)
LEMMA AdvanceKeeps ==
    ASSUME TypeOK, HaltInv,
           OnTick \/ \E epoch \in sent, to \in ReportPhase : OnReport(epoch, to)
    PROVE  HaltInv'
<1>1. UNCHANGED <<gate, latchEpoch, awaiting, thread>> /\ sup.pc = "idle"
  BY DEF OnTick, OnReport, latchVars
<1>2. /\ sup \in SupType /\ gate.epoch \in Nat /\ Bounded
  BY Types DEF HaltInv
<1>3. /\ sup'.pc = "idle" /\ sup'.active = sup.active
      /\ sup'.epoch = sup.epoch /\ sup'.next = sup.next
      /\ phase' = phase \/ (sup.active /\ phase'.epoch = sup.epoch)
  BY <1>1, <1>2, TickStep, ReportStep DEF Follows, Stays, Climbs
<1>4. BeginIsOwed' /\ PastRevoke'
  BY <1>1, <1>3 DEF HaltInv, BeginIsOwed, PastRevoke
<1>5. SettledIsServed'
  BY <1>1, <1>3 DEF HaltInv, PastRevoke, SettledIsServed
<1>6. \A e : Unhalted(e) => Unhalted(e)'
  BY <1>1, <1>3 DEF Unhalted, Normal
<1>7. phase'.epoch <= gate.epoch
  BY <1>2, <1>3 DEF Bounded
<1> QED
  BY <1>1, <1>2, <1>3, <1>4, <1>5, <1>6, <1>7, SupervisorOnly
     DEF HaltInv, Bounded, LatchIsSeen

LEMMA BeginKeeps == ASSUME TypeOK, HaltInv, BeginHalt PROVE HaltInv'
<1>1. UNCHANGED <<gate, latchEpoch, awaiting, thread>> /\ sup.pc = "begin"
  BY DEF BeginHalt, latchVars
<1>2. /\ sup \in SupType /\ gate.epoch \in Nat /\ Bounded
  BY Types DEF HaltInv
<1>3. /\ sup'.pc = "revoking" /\ sup'.active /\ sup'.epoch = sup.next
      /\ phase' = [phase |-> 1, epoch |-> sup.next]
  BY <1>2, BeginStep DEF Requested
<1>4. sup'.next = 0
  BY <1>2 DEF BeginHalt, SupType
<1>5. BeginIsOwed' /\ PastRevoke'
  BY <1>3 DEF BeginIsOwed, PastRevoke
<1>6. SettledIsServed'
  BY <1>3 DEF SettledIsServed, RearmSettled, Rank, Fault, OutputDisabled,
     DeliveryFault, StandstillTimedOut
<1>7. \A e : Unhalted(e) => Unhalted(e)'
  BY <1>1, <1>3 DEF Unhalted, Normal
<1>8. ~Normal => gate.epoch \in awaiting \/ (sup'.active /\ sup'.epoch = gate.epoch)
  BY <1>1, <1>2, <1>3 DEF HaltInv, LatchIsSeen, BeginIsOwed, Bounded, SupType
<1> QED
  BY <1>1, <1>2, <1>3, <1>4, <1>5, <1>6, <1>7, <1>8, SupervisorOnly DEF Bounded

LEMMA RevokedKeeps == ASSUME TypeOK, HaltInv, Revoked PROVE HaltInv'
<1>1. UNCHANGED <<gate, latchEpoch, thread, phase>> /\ sup.pc = "revoking"
  BY DEF Revoked
<1>2. /\ sup \in SupType /\ gate.epoch \in Nat /\ awaiting \subseteq Nat /\ Bounded
  BY Types DEF HaltInv
<1>3. awaiting' = {e \in awaiting : e > sup.epoch}
  BY DEF Revoked, LatchServed
<1>4. /\ sup'.pc = "idle" /\ sup'.active = sup.active
      /\ sup'.epoch = sup.epoch /\ sup'.next = sup.next
  BY <1>2 DEF Revoked, SupType
<1>5. BeginIsOwed' /\ PastRevoke' /\ SettledIsServed'
  BY <1>1, <1>3, <1>4 DEF HaltInv, BeginIsOwed, PastRevoke, SettledIsServed
<1>6. \A e : Unhalted(e) => Unhalted(e)'
  BY <1>1, <1>3, <1>4 DEF Unhalted, Normal
<1>7. ~Normal => gate.epoch \in awaiting' \/ (sup'.active /\ sup'.epoch = gate.epoch)
  BY <1>1, <1>2, <1>3, <1>4 DEF HaltInv, LatchIsSeen, PastRevoke, Bounded, SupType
<1> QED
  BY <1>1, <1>2, <1>3, <1>4, <1>5, <1>6, <1>7, SupervisorOnly DEF Bounded

LEMMA HaltStep ==
    ASSUME OneRearmer, NoWrap, TypeOK, HaltInv, [AnyNext]_safetyAll PROVE HaltInv'
<1>1. CASE \E t \in Thread : Calls(t)
  BY <1>1, TripKeeps, WakeKeeps, LoadKeeps, JudgeKeeps, SwapKeeps DEF Calls
<1>2. CASE UNCHANGED safetyAll
  BY <1>2 DEF safetyAll, safetyVars, HaltInv, Bounded, LatchIsSeen, BeginIsOwed,
     PastRevoke, SettledIsServed, RearmIsJust, Judging, Unhalted, LatchRevoked, Normal
<1> QED
  BY <1>1, <1>2, QuietKeeps, ReconcileKeeps, BeginKeeps, RevokedKeeps, AdvanceKeeps,
     BumpKeeps, NextCases

(* Only the swap of a Rearm opens a gate that waits to be re-armed, and    *)
(* only beginHalt calls RevokeAll.                                         *)
LatchContract ==
    /\ gate.state = "RearmRequired" /\ gate'.state = "Normal" => LatchRevoked
    /\ sup.pc = "begin" /\ sup'.pc = "revoking" => sup'.epoch \in awaiting
LEMMA ContractStep ==
    ASSUME TypeOK, HaltInv, [AnyNext]_safetyAll PROVE LatchContract
<1>1. sup \in SupType
  BY Types
<1>2. ASSUME NEW t \in Thread, Calls(t) PROVE LatchContract
  <2>1. sup' = sup
    BY <1>2, CallsFrame
  <2>2. CASE RearmSwap(t)
    BY <2>1, <2>2 DEF RearmSwap, HaltInv, RearmIsJust, LatchContract
  <2>3. CASE ~RearmSwap(t)
    <3>1. gate.state = "RearmRequired" => gate'.state # "Normal"
      BY <1>2, <2>3 DEF Calls, Trip, LatchTrip, TripGate, WakeStop, WakeSuper,
         RequestRecovery, RequireExplicitRearm, RearmLoad, RearmJudge, BeginRecovery,
         RequireRearm
    <3> QED
      BY <2>1, <3>1 DEF LatchContract
  <2> QED
    BY <2>2, <2>3
<1>3. CASE BeginHalt
  <2>1. sup'.epoch = sup.next /\ sup.pc = "begin" /\ gate' = gate
    BY <1>1, <1>3, BeginStep DEF BeginHalt
  <2> QED
    BY <2>1 DEF LatchContract, HaltInv, BeginIsOwed
<1>4. CASE DeliverHalt \/ Stop \/ StopLaneExit \/ UNCHANGED safetyAll
  BY <1>4 DEF DeliverHalt, Stop, StopLaneExit, safetyAll, safetyVars, LatchContract
<1>5. CASE Bumps
  BY <1>5 DEF Bumps, safetyVars, Normal, LatchContract
<1>6. CASE \/ Reconcile \/ Revoked \/ Elapse \/ SupervisorExit \/ OnTick
           \/ \E epoch \in sent, to \in ReportPhase : OnReport(epoch, to)
  <2>1. gate' = gate
    BY <1>6, LanesFrame DEF LanesOnly
  <2>2. sup.pc = "begin" => sup'.pc # "revoking"
    <3>1. CASE Elapse
      BY <1>1, <3>1 DEF Elapse, SupType
    <3>2. CASE ~Elapse
      BY <1>6, <3>2 DEF Reconcile, Revoked, SupervisorExit, OnTick, OnReport
    <3> QED
      BY <3>1, <3>2
  <2> QED
    BY <2>1, <2>2 DEF LatchContract
<1> QED
  BY <1>2, <1>3, <1>4, <1>5, <1>6, NextCases

(* What others may build on: the same, whatever control does to the epoch. *)
THEOREM HaltsAreServed ==
    OneRearmer /\ AnySpec /\ []NoWrap => [](TypeOK /\ PhaseInv /\ LaneInv /\ HaltInv)
<1>1. Init => TypeOK /\ PhaseInv /\ LaneInv /\ HaltInv
  BY TypeInit, PhaseInit, LaneInit, HaltInit
<1>2. CASE OneRearmer
  <2>1. /\ TypeOK /\ PhaseInv /\ LaneInv /\ HaltInv /\ NoWrap
        /\ [AnyNext]_safetyAll
        => (TypeOK /\ PhaseInv /\ LaneInv /\ HaltInv)'
    BY <1>2, TypeStep, PhaseStep, LaneStep, HaltStep
  <2> QED
    BY <1>1, <2>1, PTL DEF AnySpec
<1> QED
  BY <1>2

(* A latch is re-armed only after the RevokeAll of the trip that took      *)
(* control away has returned, and RevokeAll runs under the epochs of trips *)
(* alone (module.go's Rearm, which judges long before it swaps, and        *)
(* supervisor.go's beginHalt).                                             *)
THEOREM LatchContractKept ==
    OneRearmer /\ Spec /\ []NoWrap => KeepsLatchContract
<1>1. Spec => AnySpec
  BY PTL DEF Spec, AnySpec, AnyNext
<1>2. TypeOK /\ HaltInv /\ [Next]_safetyAll => [LatchContract]_safetyAll
  BY ContractStep DEF AnyNext
<1>3. [LatchContract]_safetyAll
        => [/\ gate.state = "RearmRequired" /\ gate'.state = "Normal"
                 => LatchRevoked
            /\ sup.pc = "begin" /\ sup'.pc = "revoking"
                 => sup'.epoch \in awaiting]_safetyAll
  BY DEF LatchContract
<1> QED
  BY <1>1, <1>2, <1>3, HaltsAreServed, PTL DEF Spec, KeepsLatchContract
=============================================================================
