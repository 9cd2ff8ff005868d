------------------------- MODULE MCTransferSession -------------------------
(***************************************************************************)
(* A small instance of TransferSession: one request with a relay and a     *)
(* ring, of which its result may keep one and drop the other, a Provider's *)
(* and a caller's data connection, and one withdrawal of authority.        *)
(***************************************************************************)
EXTENDS TransferSession

CONSTANTS r1, t1, t2, p1, c1, lease

OneRoute == [t \in Transfer |-> r1]
RelayAndRing == [t \in Transfer |-> IF t = t1 THEN "duplex" ELSE "ring"]
Diallers == [a \in Attempt |-> IF a = c1 THEN "caller" ELSE "provider"]
Covers == [w \in Withdrawal |-> {r1}]
=============================================================================
