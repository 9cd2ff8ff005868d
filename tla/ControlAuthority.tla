-------------------------- MODULE ControlAuthority --------------------------
(***************************************************************************)
(* What internal/control promises the rest of the program: at each moment  *)
(* a Resource is under the authority of at most one token, a token is      *)
(* never granted twice nor after a later one, and a Safety latch takes all *)
(* authority away in the same instant, for good.                           *)
(***************************************************************************)
EXTENDS Naturals

CONSTANT Resource

VARIABLES
    latched,
    holder,     \* the token that may move the Resource, 0 for nobody
    used        \* the tokens used up

Newer(token) == \A u \in used : u < token

Init ==
    /\ latched = FALSE
    /\ holder = [r \in Resource |-> 0]
    /\ used = {}

(* A token newer than all before it, for a Resource nobody holds.          *)
Grant(r, token) ==
    /\ ~latched /\ holder[r] = 0
    /\ Newer(token)
    /\ used' = used \cup {token}
    /\ holder' = [holder EXCEPT ![r] = token]
    /\ UNCHANGED latched

(* A token may be used up without being granted. *)
Waste(token) ==
    /\ Newer(token)
    /\ used' = used \cup {token}
    /\ UNCHANGED <<latched, holder>>

End(S) ==
    /\ holder' = [r \in Resource |-> IF r \in S THEN 0 ELSE holder[r]]
    /\ UNCHANGED <<latched, used>>

Latch ==
    /\ latched' = TRUE
    /\ holder' = [r \in Resource |-> 0]
    /\ UNCHANGED used

(* Nobody gets authority back by the latch going away. *)
Unlatch ==
    /\ latched /\ latched' = FALSE
    /\ UNCHANGED <<holder, used>>

Next ==
    \/ \E token \in used' :
          Waste(token) \/ \E r \in Resource : Grant(r, token)
    \/ \E S \in SUBSET Resource : End(S)
    \/ Latch \/ Unlatch

Spec == Init /\ [][Next]_<<latched, holder, used>>
=============================================================================
