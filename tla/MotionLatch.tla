---------------------------- MODULE MotionLatch ----------------------------
(***************************************************************************)
(* What internal/safety and internal/control owe each other at the gate.   *)
(* A latch takes control away at once, by the gate; RevokeAll then clears  *)
(* the leases away, and the latch may be re-armed once it has.             *)
(*                                                                         *)
(* Both variables are history. ControlLease takes the steps below as its   *)
(* environment; SafetySupervisor is checked to make no others.             *)
(***************************************************************************)
EXTENDS MotionGate

VARIABLES
    latchEpoch,   \* the epoch of the last Trip that found the gate Normal
    awaiting      \* the epochs of the Trips no RevokeAll has returned for

LatchInit == GateInit /\ latchEpoch = 0 /\ awaiting = {}

LatchTrip ==
    /\ TripGate
    /\ latchEpoch' = IF Normal THEN gate'.epoch ELSE latchEpoch
    /\ awaiting' = IF gate' = gate THEN awaiting
                   ELSE awaiting \cup {gate'.epoch}

(* RevokeAll for `epoch' has returned, and covers every trip before it.    *)
LatchServed(epoch) == awaiting' = {e \in awaiting : e > epoch}

(* When safety may re-arm. What it provides with one caller of Rearm at a  *)
(* time: the latch that took control away has been through RevokeAll. The  *)
(* RevokeAll of a later trip, which finds nothing, may still be running.   *)
LatchRevoked == latchEpoch \notin awaiting
=============================================================================
