-------------------------- MODULE MotionAuthority --------------------------
(***************************************************************************)
(* The two halves of nervud's motion authority on their one gate:          *)
(* internal/safety latches it and answers the latch, internal/control      *)
(* grants leases under it. They meet in two places:                        *)
(*   - the gate's word, moved by either;                                   *)
(*   - RevokeAll, which the Supervisor calls from beginHalt and which runs *)
(*     in the Supervisor's thread until it returns.                        *)
(* ControlLease describes the second half by what it may do to the first;  *)
(* here the real one does it. Neither is stopped: each module has its own  *)
(* Stop, and the kernel stops safety first.                                *)
(***************************************************************************)
EXTENDS ControlLease

CONSTANTS
    Thread, Rearmer, Evidence, AcceptTimeout, AckTimeout, StandstillTimeout,
    ReportPhase

VARIABLES
    thread, stopWake, superWake, stopLane, sent, failed, sup, phase, closed,
    disabled

S == INSTANCE SafetySupervisor

latchVars == <<latchEpoch, awaiting>>
supervisorVars == <<thread, stopWake, superWake, stopLane, sent, failed, sup, phase,
                    closed, disabled>>
authorityVars == <<controlAll, supervisorVars>>

AuthorityInit == Init /\ S!SafetyInit

ControlActs == ControlStep /\ UNCHANGED <<latchVars, supervisorVars>>

(* Steps of safety that control sees nothing of, or only the gate's state. *)
SafetyActs ==
    /\ \/ \E t \in Thread :
             \/ S!WakeStop(t) \/ S!WakeSuper(t)
             \/ S!RequestRecovery(t) \/ S!RequireExplicitRearm(t)
             \/ S!RearmLoad(t) \/ S!RearmJudge(t)
             \/ gate.epoch < MaxEpoch /\ S!RearmSwap(t)
       \/ S!DeliverHalt \/ S!Reconcile \/ S!OnTick \/ S!Elapse
       \/ \E epoch \in sent, to \in ReportPhase : S!OnReport(epoch, to)
    /\ UNCHANGED <<slotVars, revokeVars, op, drain, lane, call, life, clock,
                   published, told, late>>

TripActs == (\E t \in Thread : S!Trip(t)) /\ SafetyTrips

(* RevokeAll is called by one half and run by the other.                   *)
RevokeCalled == S!BeginHalt /\ RevokeAll(sup.next)

RevokeReturned == S!Revoked /\ RevokeReturn

AuthorityNext ==
    ControlActs \/ SafetyActs \/ TripActs \/ RevokeCalled \/ RevokeReturned

AuthoritySpec == AuthorityInit /\ [][AuthorityNext]_authorityVars
=============================================================================
