--------------------------- MODULE MCControlLease ---------------------------
(* Instances of ControlLease for TLC. *)
EXTENDS ControlLease

CONSTANTS c1, c2, p1, r1, r2, k1

OwnPackage == [c \in Conn |-> p1]
UnitTTL == [k \in Class |-> 1]
HumanDeadman == [k \in Class |-> IF k = "HUMAN" THEN 1 ELSE 0]

=============================================================================
