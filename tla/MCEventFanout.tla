--------------------------- MODULE MCEventFanout ---------------------------
(***************************************************************************)
(* An instance of EventFanout for TLC: one provider with a scoped and an   *)
(* unscoped event, a client that may own its one instance, and one         *)
(* operation that the client may follow.                                   *)
(***************************************************************************)
EXTENDS EventFanout

CONSTANTS
    c1, p1, op1, i1, state, frame, changed,
    MaxSent        \* bound: messages to one connection, of states that are gone on from

MCClass == [e \in {state, frame, changed} |->
    IF e = state THEN "state" ELSE IF e = frame THEN "lossy" ELSE "unspecified"]
MCSees == [c \in Conn |-> IF c = c1 THEN {op1} ELSE {}]
MCBound == \A c \in Conn : Len(outbox[c].sent) <= MaxSent
=============================================================================
