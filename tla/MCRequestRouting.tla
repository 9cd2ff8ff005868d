-------------------------- MODULE MCRequestRouting --------------------------
(* Instances of RequestRouting for TLC. *)
EXTENDS RequestRouting

CONSTANTS c1, p1, r1, r2

FromC1 == [r \in Request |-> c1]
ToP1 == [r \in Request |-> p1]
=============================================================================
