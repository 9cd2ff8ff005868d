----------------------------- MODULE MotionGate -----------------------------
(***************************************************************************)
(* internal/motiongate: the one word that safety and control share.        *)
(*                                                                         *)
(* The word packs an 8-bit state and a 56-bit motion epoch, and every      *)
(* operation is a single compare-and-swap on it (retried until it lands    *)
(* or its source state is gone), so an operation is one atomic step here.  *)
(* `gate' is that word; the operators below are steps of it, and the       *)
(* modules that extend this one conjoin them with steps of their own.      *)
(*                                                                         *)
(* MotionLatch adds what safety owes control about it.                     *)
(***************************************************************************)
EXTENDS Naturals

CONSTANTS
    EpochMask,     \* the largest epoch: 2^56 - 1 in the code
    MaxEpoch       \* bound: nothing new starts once the epoch reaches it

ASSUME EpochMaskAssumption == EpochMask \in Nat /\ EpochMask > 1
ASSUME MaxEpochAssumption == MaxEpoch \in Nat

VARIABLE gate

GateStates == {"Normal", "SafetyLatched", "OEMRecovery", "RearmRequired"}

Normal == gate.state = "Normal"

(* incEpoch: wraps inside the 56 bits and steps over 0, the invalid epoch. *)
IncEpoch(e) == IF e = EpochMask THEN 1 ELSE e + 1

GateInit == gate = [state |-> "Normal", epoch |-> 1]

(* Trip: latches and bumps from every state but SafetyLatched, where it is *)
(* idempotent and leaves the word alone.                                   *)
TripGate ==
    IF gate.state = "SafetyLatched"
    THEN UNCHANGED gate
    ELSE gate' = [state |-> "SafetyLatched", epoch |-> IncEpoch(gate.epoch)]

(* BumpEpoch: bumps whatever the state is. No caller in the program uses   *)
(* it; control uses the conditional form below.                            *)
BumpEpoch == gate' = [gate EXCEPT !.epoch = IncEpoch(@)]

(* BumpEpochIfNormal: check and increment in one swap.                     *)
BumpEpochIfNormal == IF Normal THEN BumpEpoch ELSE UNCHANGED gate

BeginRecovery ==
    /\ gate.state = "SafetyLatched"
    /\ gate' = [gate EXCEPT !.state = "OEMRecovery"]

RequireRearm ==
    /\ gate.state \in {"SafetyLatched", "OEMRecovery"}
    /\ gate' = [gate EXCEPT !.state = "RearmRequired"]

RearmGate ==
    /\ gate.state = "RearmRequired"
    /\ gate' = [state |-> "Normal", epoch |-> IncEpoch(gate.epoch)]

----------------------------------------------------------------------------
(* The gate on its own, under every operation it has.                      *)
GateNext ==
    \/ TripGate \/ BumpEpoch \/ BumpEpochIfNormal
    \/ BeginRecovery \/ RequireRearm \/ RearmGate
GateSpec == GateInit /\ [][GateNext]_gate

(* The epoch stays in its 56 bits and is never 0, the invalid epoch, not   *)
(* even when it wraps (incEpoch).                                          *)
GateOK == gate \in [state: GateStates, epoch: 1 .. EpochMask]
=============================================================================
