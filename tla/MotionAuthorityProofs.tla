----------------------- MODULE MotionAuthorityProofs -----------------------
(***************************************************************************)
(* Proofs about ControlLease, for any connections, Resources, policies and *)
(* epochs; and that each half of the motion authority is what the other    *)
(* takes it for.                                                           *)
(*                                                                         *)
(* Seen from safety, control only bumps the epoch of a Normal gate, so     *)
(* what SafetySupervisorProofs says of the Supervisor holds here. Seen     *)
(* from control, safety re-arms no latch that has not been through         *)
(* RevokeAll, and that is what SafetySupervisorProofs says; so what the    *)
(* first part says of the leases holds of the composition as well.         *)
(***************************************************************************)
EXTENDS MotionAuthority, FiniteSetTheorems, TLAPS

OpPc == {"idle", "flush", "force", "draining", "admit", "inspect", "preempt",
         "bump", "sequence", "freshen", "publish", "recheck", "undo", "renew",
         "renewed", "drop", "sweep", "settle", "expire"}

OpType ==
    [pc: OpPc, by: {"caller", "lane", "stop"},
     next: {"idle", "admit", "bump", "sequence", "sweep"},
     q: Request \cup {None}, res: Resource \cup {None}, now: Nat,
     old: LeaseOrNone, epoch: Nat, seq: Nat, todo: SUBSET Resource,
     match: SUBSET Conn, dropped: SUBSET (Resource \X Nat)]

RevType ==
    [pc: {"idle", "enter", "floor", "swap", "count", "park"},
     epoch: Nat, todo: SUBSET Resource, res: Resource \cup {None},
     lease: LeaseOrNone]

LaneType ==
    [pc: {"idle", "lock", "exited"}, res: Resource \cup {None},
     lease: LeaseOrNone, now: Nat]

DrainType ==
    [by: {"none", "op", "lane"}, pc: {"scan", "tell", "count"},
     todo: SUBSET Resource, lease: LeaseOrNone]

(* Acquire is under way, so op.q is its request and op.res its Resource.   *)
Acquiring(o) ==
    \/ o.pc \in {"admit", "inspect", "preempt", "bump", "sequence",
                 "freshen", "publish", "recheck", "undo"}
    \/ o.next \in {"admit", "bump", "sequence"}

(* What an operation knows of its own variables at each of its steps.      *)
OpSense(o) ==
    /\ o.pc = "flush" => o.next \in {"admit", "sequence"}
    /\ o.pc = "force" => o.next = "sweep"
    /\ o.pc = "draining" => o.next \in {"admit", "sequence", "sweep"}
    /\ Acquiring(o) => o.q \in Request /\ o.res \in Resource
    /\ o.pc \in {"renew", "drop", "preempt", "expire"} =>
          o.old \in Lease /\ o.res \in Resource

(* The part of the type invariant that who holds control depends on.       *)
GateTyped ==
    /\ gate \in [state: GateStates, epoch: Nat]
    /\ safetyFloor \in Nat /\ latchEpoch \in Nat /\ awaiting \subseteq Nat
RevTyped == rev \in RevType
OpTyped == op \in OpType /\ OpSense(op)
LaneTyped ==
    /\ lane \in LaneType
    /\ lane.pc = "lock" => lane.lease \in Lease /\ lane.res \in Resource
    /\ drain \in DrainType
SlotsTyped ==
    /\ revokeSeq \in Nat /\ clock \in Nat
    /\ slots \subseteq Resource
    /\ cur \in [Resource -> LeaseOrNone]
    /\ parked \in [Resource -> LeaseOrNone]
    /\ published \subseteq Resource \X Nat

Typed == GateTyped /\ RevTyped /\ OpTyped /\ LaneTyped /\ SlotsTyped

typedVars == <<gate, safetyFloor, latchEpoch, awaiting, rev, op, lane,
               drain, revokeSeq, clock, slots, cur, parked, published>>

USE ControlAssumption, EpochMaskAssumption, NoneAssumption
    DEF ControlAssumption, EpochMaskAssumption, NoneAssumption

----------------------------------------------------------------------------
(* What an abandoned or finished operation leaves behind is typed. *)
LEMMA IdleTyped ==
    /\ NoOp \in OpType /\ OpSense(NoOp)
    /\ NoRev \in RevType /\ NoLane \in LaneType /\ NoDrain \in DrainType
BY DEF NoDrain, DrainType, NoOp, OpType, OpPc, OpSense, Acquiring, NoRev, RevType, NoLane,
   LaneType, LeaseOrNone

(* What begins to hold mu.                                                 *)
LEMMA BegunTyped ==
    ASSUME NEW pc \in {"renew", "drop", "expire"}, NEW by \in {"caller", "lane"},
           NEW r \in Resource, NEW old \in Lease, NEW now \in Nat,
           NEW o, o.pc = pc, o.next = "idle", o.res = r, o.old = old, o \in OpType
    PROVE  OpSense(o)
BY DEF OpSense, Acquiring

LEMMA SweepTyped ==
    ASSUME NEW todo \in SUBSET Resource, NEW conns \in SUBSET Conn
    PROVE  /\ [NoOp EXCEPT !.pc = "sweep", !.todo = todo, !.match = conns] \in OpType
           /\ OpSense([NoOp EXCEPT !.pc = "sweep", !.todo = todo, !.match = conns])
<1> DEFINE o == [NoOp EXCEPT !.pc = "sweep", !.todo = todo, !.match = conns]
<1>1. o.pc = "sweep" /\ o.next = "idle"
  BY DEF NoOp
<1>2. o \in OpType
  BY IdleTyped DEF OpType, OpPc
<1> HIDE DEF o
<1>3. OpSense(o)
  BY <1>1 DEF OpSense, Acquiring
<1> QED
  BY <1>2, <1>3 DEF o

LEMMA InitTyped == Init => Typed
BY IdleTyped DEF Init, LatchInit, GateInit, ControlInit, Typed, GateTyped, RevTyped,
   OpTyped, LaneTyped, SlotsTyped, GateStates, NoLane, LeaseOrNone

LEMMA StutterTyped ==
    ASSUME Typed, UNCHANGED typedVars PROVE Typed'
BY DEF Typed, typedVars, GateTyped, RevTyped, OpTyped, LaneTyped, SlotsTyped

(* The gate keeps its type through each of its operations. *)
LEMMA IncEpochNat == ASSUME NEW e \in Nat PROVE IncEpoch(e) \in Nat
BY DEF IncEpoch

LEMMA GateStepTyped ==
    ASSUME GateTyped,
           \/ TripGate \/ BumpEpoch \/ BumpEpochIfNormal
           \/ BeginRecovery \/ RequireRearm \/ RearmGate
    PROVE  gate' \in [state: GateStates, epoch: Nat]
BY IncEpochNat DEF GateTyped, TripGate, BumpEpoch, BumpEpochIfNormal,
   BeginRecovery, RequireRearm, RearmGate, GateStates

LEMMA PoliciesTyped == Budget \subseteq Nat /\ BaseResource \in Resource
BY DEF ControlAssumption

LEMMA NewLeaseTyped ==
    ASSUME OpTyped, op.pc = "publish" PROVE NewLease \in Lease
<1>1. op.now \in Nat /\ op.epoch \in Nat /\ op.q \in Request
  BY DEF OpTyped, OpSense, Acquiring, OpType
<1>2. /\ op.q.conn \in Conn /\ op.q.class \in Class
      /\ op.q.gen \in Generation /\ op.q.ttl \in Budget
      /\ op.q.deadman \in Budget
  BY <1>1 DEF Request
<1>3. op.q.ttl \in Nat
  BY <1>2, PoliciesTyped, Zenon
<1>4. op.now + op.q.ttl \in Nat
  BY <1>1, <1>3
<1> QED
  BY <1>1, <1>2, <1>4 DEF NewLease, Lease

LEMMA VerdictTyped ==
    ASSUME NEW old, NEW q, NEW now
    PROVE  /\ Verdict(old, q, now)
                 \in {"bump", "drop", "renew", "preempt", "refuse"}
           /\ old = None => Verdict(old, q, now) = "bump"
BY DEF Verdict, Valid, CanPreempt

----------------------------------------------------------------------------
(* Every step keeps the types, Safety's and control's own.                 *)
LEMMA AcquireTyped ==
    ASSUME Typed,
           \/ \E q \in Request : Acquire(q)
           \/ Flush \/ Admit \/ Inspect \/ Preempt \/ Bump \/ Sequence
           \/ Freshen \/ Publish \/ Recheck \/ Undo
    PROVE  Typed'
<1> USE DEF Typed, slotVars, revokeVars, historyVars
<1>1. CASE \E q \in Request : Acquire(q)
  <2>1. PICK q \in Request : Acquire(q)
    BY <1>1
  <2>2. q.res \in Resource
    BY DEF Request
  <2>3. OpTyped'
    BY <2>1, <2>2, IdleTyped DEF Acquire, Begin, OpTyped, OpType, OpPc,
       OpSense, Acquiring, NoOp
  <2> QED
    BY <2>1, <2>3 DEF Acquire, GateTyped, RevTyped, LaneTyped, SlotsTyped
<1>2. CASE Flush
  <2>1. OpTyped'
    BY <1>2 DEF Flush, Go, OpTyped, OpType, OpPc, OpSense, Acquiring
  <2>2. drain' \in DrainType
    BY <1>2, IdleTyped DEF Flush, NoDrain, DrainType, LaneTyped, SlotsTyped
  <2> QED
    BY <1>2, <2>1, <2>2 DEF Flush, GateTyped, RevTyped, LaneTyped, SlotsTyped
<1>3. CASE Admit
  <2>1. OpTyped'
    <3>1. CASE op' = NoOp
      BY <3>1, IdleTyped DEF OpTyped
    <3>2. CASE op' = [op EXCEPT !.pc = "inspect", !.now = clock]
      BY <1>3, <3>2 DEF Admit, OpTyped, OpType, OpPc, OpSense, Acquiring,
         SlotsTyped
    <3> QED
      BY <1>3, <3>1, <3>2 DEF Admit
  <2>2. slots' \subseteq Resource
    BY <1>3 DEF Admit, OpTyped, OpSense, Acquiring, SlotsTyped
  <2> QED
    BY <1>3, <2>1, <2>2 DEF Admit, GateTyped, RevTyped, LaneTyped, SlotsTyped
<1>4. CASE Inspect
  <2> DEFINE old == cur[op.res]
             v == Verdict(old, op.q, op.now)
  <2>1. OpTyped'
    <3>1. CASE v = "refuse"
      BY <1>4, <3>1, IdleTyped DEF Inspect, OpTyped
    <3>2. CASE v # "refuse"
      <4>1. /\ v \in {"bump", "drop", "renew", "preempt"}
            /\ old = None => v = "bump"
        BY <3>2, VerdictTyped
      <4>2. op' = [op EXCEPT !.pc = v, !.old = old, !.next = "bump"]
        BY <1>4, <3>2 DEF Inspect
      <4>3. op.res \in Resource /\ old \in LeaseOrNone /\ op.q \in Request
        BY <1>4 DEF Inspect, OpTyped, OpSense, Acquiring, SlotsTyped
      <4> HIDE DEF old, v
      <4>4. op' \in OpType
        BY <4>1, <4>2, <4>3 DEF OpTyped, OpType, OpPc
      <4>5. /\ op'.pc = v /\ op'.next = "bump" /\ op'.old = old
            /\ op'.q = op.q /\ op'.res = op.res
        BY <4>2 DEF OpTyped, OpType
      <4>6. OpSense(op')
        BY <4>1, <4>3, <4>5 DEF OpSense, Acquiring, LeaseOrNone
      <4> QED
        BY <4>4, <4>6 DEF OpTyped
    <3> QED
      BY <3>1, <3>2
  <2> QED
    BY <1>4, <2>1 DEF Inspect, GateTyped, RevTyped, LaneTyped, SlotsTyped
<1>5. CASE Preempt
  <2>1. OpTyped'
    BY <1>5 DEF Preempt, Go, OpTyped, OpType, OpPc, OpSense, Acquiring
  <2>2. cur' \in [Resource -> LeaseOrNone]
    BY <1>5 DEF Preempt, SlotsTyped, LeaseOrNone
  <2> QED
    BY <1>5, <2>1, <2>2 DEF Preempt, GateTyped, RevTyped, LaneTyped, SlotsTyped
<1>6. CASE Bump
  <2>1. gate' \in [state: GateStates, epoch: Nat]
    BY <1>6, GateStepTyped DEF Bump
  <2>2. OpTyped'
    <3>1. CASE op' = NoOp
      BY <3>1, IdleTyped DEF OpTyped
    <3>2. CASE op' # NoOp
      <4>1. op' = [op EXCEPT !.pc = "flush", !.next = "sequence", !.epoch = gate'.epoch]
        BY <1>6, <3>2 DEF Bump
      <4>2. op' \in OpType
        BY <2>1, <4>1 DEF OpTyped, OpType, OpPc
      <4>3. /\ op'.pc = "flush" /\ op'.next = "sequence"
            /\ op'.q = op.q /\ op'.res = op.res
        BY <4>1 DEF OpTyped, OpType
      <4>4. op.q \in Request /\ op.res \in Resource
        BY <1>6 DEF Bump, OpTyped, OpSense, Acquiring
      <4>5. OpSense(op')
        BY <4>3, <4>4 DEF OpSense, Acquiring
      <4> QED
        BY <4>2, <4>5 DEF OpTyped
    <3> QED
      BY <3>1, <3>2
  <2> QED
    BY <1>6, <2>1, <2>2 DEF Bump, GateTyped, RevTyped, LaneTyped, SlotsTyped
<1>7. CASE Sequence
  <2>1. OpTyped'
    <3>1. CASE op' = NoOp
      BY <3>1, IdleTyped DEF OpTyped
    <3>2. CASE op' # NoOp
      <4>1. op' = [op EXCEPT !.pc = "freshen", !.seq = revokeSeq]
        BY <1>7, <3>2 DEF Sequence
      <4>2. op' \in OpType
        BY <4>1 DEF OpTyped, OpType, OpPc, SlotsTyped
      <4>3. /\ op'.pc = "freshen" /\ op'.q = op.q /\ op'.res = op.res
            /\ op'.next = op.next
        BY <4>1 DEF OpTyped, OpType
      <4>4. op.q \in Request /\ op.res \in Resource
        BY <1>7 DEF Sequence, OpTyped, OpSense, Acquiring
      <4>5. OpSense(op')
        BY <4>3, <4>4 DEF OpSense, Acquiring
      <4> QED
        BY <4>2, <4>5 DEF OpTyped
    <3> QED
      BY <3>1, <3>2
  <2> QED
    BY <1>7, <2>1 DEF Sequence, GateTyped, RevTyped, LaneTyped, SlotsTyped
<1>8. CASE Freshen
  <2>1. OpTyped'
    BY <1>8 DEF Freshen, Go, OpTyped, OpType, OpPc, OpSense, Acquiring
  <2> QED
    BY <1>8, <2>1 DEF Freshen, GateTyped, RevTyped, LaneTyped, SlotsTyped
<1>9. CASE Publish
  <2>1. OpTyped'
    BY <1>9 DEF Publish, Go, OpTyped, OpType, OpPc, OpSense, Acquiring
  <2>2. op.res \in Resource /\ op.epoch \in Nat
    BY <1>9 DEF Publish, OpTyped, OpType, OpSense, Acquiring
  <2>3. NewLease \in Lease
    BY <1>9, NewLeaseTyped DEF Publish
  <2>4. cur' \in [Resource -> LeaseOrNone]
    BY <1>9, <2>2, <2>3 DEF Publish, SlotsTyped, LeaseOrNone
  <2>5. published' \subseteq Resource \X Nat
    BY <1>9, <2>2 DEF Publish, SlotsTyped
  <2> QED
    BY <1>9, <2>1, <2>4, <2>5
       DEF Publish, GateTyped, RevTyped, LaneTyped, SlotsTyped
<1>10. CASE Recheck
  <2>1. OpTyped'
    BY <1>10, IdleTyped DEF Recheck, OpTyped, OpType, OpPc, OpSense, Acquiring
  <2> QED
    BY <1>10, <2>1 DEF Recheck, GateTyped, RevTyped, LaneTyped, SlotsTyped
<1>11. CASE Undo
  <2>1. cur' \in [Resource -> LeaseOrNone]
    BY <1>11 DEF Undo, SlotsTyped, LeaseOrNone
  <2> QED
    BY <1>11, <2>1, IdleTyped
       DEF Undo, OpTyped, GateTyped, RevTyped, LaneTyped, SlotsTyped
<1> QED
  BY <1>1, <1>2, <1>3, <1>4, <1>5, <1>6, <1>7, <1>8, <1>9, <1>10, <1>11

LEMMA OrdinaryTyped ==
    ASSUME Typed,
           \/ \E r \in Resource :
                 \/ RenewBegin(r) \/ Release(r) \/ Sweep(r)
                 \/ \E g \in Generation : RevokeResource(r, g)
           \/ \E c \in Conn : RevokeConn(c)
           \/ \E p \in Package : RevokeByPackage(p)
           \/ Renew \/ Renewed \/ Drop \/ Settle
    PROVE  Typed'
<1> USE DEF Typed, slotVars, revokeVars, historyVars
<1>1. ASSUME NEW r \in Resource, RenewBegin(r) PROVE Typed'
  <2>1. OpTyped'
    <3>1. op' = [NoOp EXCEPT !.pc = "renew", !.res = r, !.old = cur[r], !.now = clock]
      BY <1>1 DEF RenewBegin, Begin
    <3>2. cur[r] \in Lease /\ clock \in Nat
      BY <1>1 DEF RenewBegin, SlotsTyped, LeaseOrNone
    <3>3. op' \in OpType
      BY <3>1, <3>2, IdleTyped DEF OpType, OpPc, LeaseOrNone
    <3>4. op'.pc = "renew" /\ op'.next = "idle" /\ op'.res = r /\ op'.old = cur[r]
      BY <3>1 DEF NoOp
    <3> QED
      BY <3>2, <3>3, <3>4, BegunTyped DEF OpTyped
  <2> QED
    BY <1>1, <2>1 DEF RenewBegin, GateTyped, RevTyped, LaneTyped, SlotsTyped
<1>2. ASSUME NEW r \in Resource, cur[r] # None, DropBegin(r) PROVE OpTyped'
  <2>1. op' = [NoOp EXCEPT !.pc = "drop", !.res = r, !.old = cur[r]]
    BY <1>2 DEF DropBegin, Begin
  <2>2. cur[r] \in Lease
    BY <1>2 DEF SlotsTyped, LeaseOrNone
  <2>3. op' \in OpType
    BY <2>1, <2>2, IdleTyped DEF OpType, OpPc, LeaseOrNone
  <2>4. op'.pc = "drop" /\ op'.next = "idle" /\ op'.res = r /\ op'.old = cur[r]
    BY <2>1 DEF NoOp
  <2> QED
    BY <2>2, <2>3, <2>4, BegunTyped DEF OpTyped
<1>3. ASSUME NEW r \in Resource, Release(r) PROVE Typed'
  BY <1>3, <1>2 DEF Release, GateTyped, RevTyped, LaneTyped, SlotsTyped
<1>4. ASSUME NEW r \in Resource, NEW g \in Generation, RevokeResource(r, g)
      PROVE  Typed'
  BY <1>4, <1>2 DEF RevokeResource, GateTyped, RevTyped, LaneTyped, SlotsTyped
<1>5. ASSUME NEW conns \in SUBSET Conn, SweepBegin(conns) PROVE OpTyped'
  BY <1>5, SweepTyped DEF SweepBegin, Begin, OpTyped, SlotsTyped
<1>6. ASSUME NEW c \in Conn, RevokeConn(c) PROVE Typed'
  BY <1>6, <1>5 DEF RevokeConn, GateTyped, RevTyped, LaneTyped, SlotsTyped
<1>7. ASSUME NEW p \in Package, RevokeByPackage(p) PROVE Typed'
  BY <1>7, <1>5
     DEF RevokeByPackage, GateTyped, RevTyped, LaneTyped, SlotsTyped
<1>8. ASSUME NEW r \in Resource, OpTyped, SlotsTyped, Take(r), cur[r] # None,
             op.pc \in {"drop", "sweep"}
      PROVE  OpTyped' /\ cur' \in [Resource -> LeaseOrNone]
  <2>1. cur[r].epoch \in Nat
    BY <1>8 DEF SlotsTyped, LeaseOrNone, Lease
  <2>2. op.dropped \cup {<<r, cur[r].epoch>>} \in SUBSET (Resource \X Nat)
    BY <1>8, <2>1 DEF OpTyped, OpType
  <2>3. OpTyped'
    <3>1. CASE op.pc = "drop"
      <4>1. op' \in OpType
        BY <1>8, <2>2, <3>1 DEF Take, OpTyped, OpType, OpPc
      <4>2. /\ op'.pc = "settle" /\ op'.next = op.next /\ op'.q = op.q
            /\ op'.res = op.res
        BY <1>8, <3>1 DEF Take, OpTyped, OpType
      <4>3. OpSense(op')
        BY <1>8, <3>1, <4>2 DEF OpTyped, OpSense, Acquiring
      <4> QED
        BY <4>1, <4>3 DEF OpTyped
    <3>2. CASE op.pc = "sweep"
      <4>1. op' \in OpType
        BY <1>8, <2>2, <3>2 DEF Take, OpTyped, OpType, OpPc
      <4>2. /\ op'.pc = "sweep" /\ op'.next = op.next /\ op'.q = op.q
            /\ op'.res = op.res
        BY <1>8, <3>2 DEF Take, OpTyped, OpType
      <4>3. OpSense(op')
        BY <1>8, <3>2, <4>2 DEF OpTyped, OpSense, Acquiring
      <4> QED
        BY <4>1, <4>3 DEF OpTyped
    <3> QED
      BY <1>8, <3>1, <3>2
  <2>4. cur' \in [Resource -> LeaseOrNone]
    BY <1>8 DEF Take, SlotsTyped, LeaseOrNone
  <2> QED
    BY <2>3, <2>4
<1>9. ASSUME NEW r \in Resource, Sweep(r) PROVE Typed'
  <2>1. CASE Take(r) /\ cur[r] # None
    BY <1>9, <2>1, <1>8
       DEF Sweep, GateTyped, RevTyped, LaneTyped, SlotsTyped
  <2>2. CASE op' = [op EXCEPT !.todo = @ \ {r}] /\ UNCHANGED cur
    <3>1. OpTyped'
      BY <1>9, <2>2 DEF Sweep, OpTyped, OpType, OpPc, OpSense, Acquiring
    <3> QED
      BY <1>9, <2>2, <3>1
         DEF Sweep, GateTyped, RevTyped, LaneTyped, SlotsTyped
  <2> QED
    BY <1>9, <2>1, <2>2 DEF Sweep
<1>10. CASE Renew
  <2>1. CASE op' = NoOp /\ UNCHANGED cur
    BY <1>10, <2>1, IdleTyped
       DEF Renew, OpTyped, GateTyped, RevTyped, LaneTyped, SlotsTyped
  <2>2. CASE cur[op.res] = op.old /\ Go("renewed")
             /\ cur' = [cur EXCEPT ![op.res].deadline = op.now + op.old.ttl]
    <3>1. OpTyped'
      BY <1>10, <2>2 DEF Renew, Go, OpTyped, OpType, OpPc, OpSense, Acquiring
    <3>2. /\ op.old \in Lease /\ op.res \in Resource
          /\ op.now \in Nat /\ op.old.ttl \in Budget
      BY <1>10 DEF Renew, OpTyped, OpType, OpSense, Lease
    <3>3. op.old.ttl \in Nat
      BY <3>2, PoliciesTyped, Zenon
    <3>4. op.now + op.old.ttl \in Nat
      BY <3>2, <3>3
    <3>5. [op.old EXCEPT !.deadline = op.now + op.old.ttl] \in Lease
      BY <3>2, <3>4 DEF Lease
    <3>6. cur' = [cur EXCEPT ![op.res] =
                    [op.old EXCEPT !.deadline = op.now + op.old.ttl]]
      BY <2>2
    <3>7. cur' \in [Resource -> LeaseOrNone]
      BY <3>2, <3>5, <3>6 DEF SlotsTyped, LeaseOrNone
    <3> QED
      BY <1>10, <3>1, <3>7
         DEF Renew, GateTyped, RevTyped, LaneTyped, SlotsTyped
  <2> QED
    BY <1>10, <2>1, <2>2 DEF Renew
<1>11. CASE Renewed
  BY <1>11, IdleTyped
     DEF Renewed, OpTyped, GateTyped, RevTyped, LaneTyped, SlotsTyped
<1>12. CASE Drop
  <2>1. op.res \in Resource /\ op.old # None
    BY <1>12 DEF Drop, OpTyped, OpSense
  <2>2. CASE Take(op.res) /\ cur[op.res] = op.old
    BY <1>12, <2>1, <2>2, <1>8
       DEF Drop, GateTyped, RevTyped, LaneTyped, SlotsTyped
  <2>3. CASE Go("settle") /\ UNCHANGED cur
    <3>1. OpTyped'
      BY <1>12, <2>3 DEF Drop, Go, OpTyped, OpType, OpPc, OpSense, Acquiring
    <3> QED
      BY <1>12, <2>3, <3>1 DEF Drop, GateTyped, RevTyped, LaneTyped, SlotsTyped
  <2> QED
    BY <1>12, <2>2, <2>3 DEF Drop
<1>13. CASE Settle
  <2>1. gate' \in [state: GateStates, epoch: Nat]
    BY <1>13, GateStepTyped DEF Settle, GateTyped
  <2>2. OpTyped'
    <3>1. CASE op' = NoOp
      BY <3>1, IdleTyped DEF OpTyped
    <3>2. CASE op.next = "bump"
               /\ op' = [op EXCEPT !.pc = "bump", !.dropped = {}]
      BY <3>2 DEF OpTyped, OpType, OpPc, OpSense, Acquiring
    <3> QED
      BY <1>13, <3>1, <3>2 DEF Settle
  <2> QED
    BY <1>13, <2>1, <2>2
       DEF Settle, GateTyped, RevTyped, LaneTyped, SlotsTyped
<1> QED
  BY <1>1, <1>3, <1>4, <1>6, <1>7, <1>9, <1>10, <1>11, <1>12, <1>13

(* The lanes, RevokeAll, the lock-free callers, Stop and the clock.        *)
LEMMA ThreadsTyped ==
    ASSUME Typed,
           \/ \E r \in Resource : DrainSlot(r) \/ LaneScan(r)
           \/ DrainTell \/ DrainCount \/ DrainEnd
           \/ LaneDrain \/ LaneLock \/ LaneExit \/ Expire
           \/ StopLock \/ CloseStop \/ RevokeWork \/ RevokeReturn
           \/ \E k \in Caller :
                 \/ CallJudge(k) \/ CallConfirm(k) \/ CallMark(k)
                 \/ CallReturn(k)
                 \/ \E r \in Resource : CallLoad(k, r)
           \/ Tick
    PROVE  Typed'
<1> USE DEF slotVars, revokeVars, historyVars
<1>1. CASE \/ CloseStop
           \/ \E k \in Caller :
                 \/ CallJudge(k) \/ CallConfirm(k) \/ CallMark(k)
                 \/ CallReturn(k)
                 \/ \E r \in Resource : CallLoad(k, r)
  <2>1. UNCHANGED typedVars
    BY <1>1 DEF typedVars, CloseStop, CallJudge, CallConfirm, CallMark, CallReturn, CallLoad
  <2> QED
    BY <2>1, StutterTyped
<1>2. CASE Tick
  BY <1>2 DEF Tick, Typed, GateTyped, RevTyped, OpTyped, LaneTyped, SlotsTyped
<1>3. CASE DrainEnd
  <2>1. OpTyped'
    BY <1>3 DEF DrainEnd, DrainDone, Typed, OpTyped, OpType, OpPc, OpSense,
       Acquiring
  <2> QED
    BY <1>3, <2>1, IdleTyped
       DEF DrainEnd, Typed, GateTyped, RevTyped, LaneTyped, SlotsTyped
<1>13. CASE DrainTell \/ DrainCount \/ LaneDrain
  <2>1. drain' \in DrainType
    BY <1>13 DEF DrainTell, DrainCount, LaneDrain, NoDrain, DrainType,
       LeaseOrNone, Typed, LaneTyped, SlotsTyped
  <2> QED
    BY <1>13, <2>1 DEF DrainTell, DrainCount, LaneDrain, Typed, GateTyped,
       RevTyped, OpTyped, LaneTyped, SlotsTyped
<1>14. ASSUME NEW r \in Resource, DrainSlot(r) PROVE Typed'
  <2>1. drain' \in DrainType
    BY <1>14 DEF DrainSlot, DrainType, Typed, LaneTyped, SlotsTyped
  <2>2. parked' \in [Resource -> LeaseOrNone]
    BY <1>14 DEF DrainSlot, Typed, SlotsTyped, LeaseOrNone
  <2> QED
    BY <1>14, <2>1, <2>2 DEF DrainSlot, Typed, GateTyped, RevTyped, OpTyped,
       LaneTyped, SlotsTyped
<1>4. ASSUME NEW r \in Resource, LaneScan(r) PROVE Typed'
  <2>1. LaneTyped'
    BY <1>4 DEF LaneScan, Typed, LaneTyped, LaneType, SlotsTyped, LeaseOrNone
  <2> QED
    BY <1>4, <2>1 DEF LaneScan, Typed, GateTyped, RevTyped, OpTyped, SlotsTyped
<1>5. CASE LaneLock
  <2>1. OpTyped'
    <3>1. op' = [NoOp EXCEPT !.pc = "expire", !.by = "lane", !.res = lane.res,
                             !.old = lane.lease, !.now = lane.now]
      BY <1>5 DEF LaneLock
    <3>2. lane.lease \in Lease /\ lane.res \in Resource /\ lane.now \in Nat
      BY <1>5 DEF LaneLock, Typed, LaneTyped, LaneType
    <3>3. op' \in OpType
      BY <3>1, <3>2, IdleTyped DEF OpType, OpPc, LeaseOrNone
    <3>4. /\ op'.pc = "expire" /\ op'.next = "idle" /\ op'.res = lane.res
          /\ op'.old = lane.lease
      BY <3>1 DEF NoOp
    <3> QED
      BY <3>2, <3>3, <3>4, BegunTyped DEF OpTyped
  <2>2. LaneTyped'
    BY <1>5, IdleTyped DEF LaneLock, Typed, LaneTyped, NoLane
  <2> QED
    BY <1>5, <2>1, <2>2 DEF LaneLock, Typed, GateTyped, RevTyped, SlotsTyped
<1>6. CASE LaneExit
  <2>1. LaneTyped'
    BY <1>6, IdleTyped DEF LaneExit, Typed, LaneTyped, LaneType, NoLane
  <2> QED
    BY <1>6, <2>1 DEF LaneExit, Typed, GateTyped, RevTyped, OpTyped, SlotsTyped
<1>7. CASE Expire
  <2>1. OpTyped'
    BY <1>7, IdleTyped DEF Expire, Go, Typed, OpTyped, OpType, OpPc, OpSense,
       Acquiring
  <2> QED
    BY <1>7, <2>1 DEF Expire, Typed, GateTyped, RevTyped, LaneTyped, SlotsTyped
<1>8. CASE StopLock
  <2>1. OpTyped'
    <3>1. op' = [NoOp EXCEPT !.pc = "force", !.by = "stop", !.next = "sweep",
                             !.match = Conn, !.todo = slots]
      BY <1>8 DEF StopLock
    <3>2. op' \in OpType
      BY <3>1, IdleTyped DEF OpType, OpPc, Typed, SlotsTyped
    <3>3. op'.pc = "force" /\ op'.next = "sweep"
      BY <3>1 DEF NoOp
    <3>4. OpSense(op')
      BY <3>3 DEF OpSense, Acquiring
    <3> QED
      BY <3>2, <3>4 DEF OpTyped
  <2> QED
    BY <1>8, <2>1 DEF StopLock, Typed, GateTyped, RevTyped, LaneTyped, SlotsTyped
<1>9. CASE RevokeEnter \/ RevokeFloor
  <2>1. RevTyped'
    BY <1>9 DEF RevokeEnter, RevokeFloor, Typed, RevTyped, RevType, SlotsTyped
  <2>2. safetyFloor' \in Nat /\ revokeSeq' \in Nat
    BY <1>9 DEF RevokeEnter, RevokeFloor, Typed, RevTyped, RevType, GateTyped,
       SlotsTyped
  <2> QED
    BY <1>9, <2>1, <2>2 DEF RevokeEnter, RevokeFloor, Typed, GateTyped, OpTyped,
       LaneTyped, SlotsTyped
<1>10. ASSUME NEW r \in Resource, RevokeSwap(r) PROVE Typed'
  <2>1. RevTyped'
    BY <1>10 DEF RevokeSwap, Typed, RevTyped, RevType, SlotsTyped
  <2>2. cur' \in [Resource -> LeaseOrNone]
    BY <1>10 DEF RevokeSwap, Typed, SlotsTyped, LeaseOrNone
  <2> QED
    BY <1>10, <2>1, <2>2 DEF RevokeSwap, Typed, GateTyped, OpTyped, LaneTyped,
       SlotsTyped
<1>11. CASE RevokeCount \/ RevokePark
  <2>1. RevTyped'
    BY <1>11 DEF RevokeCount, RevokePark, Typed, RevTyped, RevType, LeaseOrNone
  <2>2. parked' \in [Resource -> LeaseOrNone]
    BY <1>11 DEF RevokeCount, RevokePark, Typed, RevTyped, RevType, SlotsTyped
  <2> QED
    BY <1>11, <2>1, <2>2 DEF RevokeCount, RevokePark, Typed, GateTyped, OpTyped,
       LaneTyped, SlotsTyped
<1>12. CASE RevokeReturn
  <2>1. RevTyped'
    BY <1>12, IdleTyped DEF RevokeReturn, RevTyped
  <2>2. revokeSeq' \in Nat
    BY <1>12 DEF RevokeReturn, Typed, SlotsTyped
  <2>3. awaiting' \subseteq Nat
    BY <1>12 DEF RevokeReturn, LatchServed, Typed, GateTyped
  <2> QED
    BY <1>12, <2>1, <2>2, <2>3 DEF RevokeReturn, Typed, GateTyped, OpTyped, LaneTyped,
       SlotsTyped
<1> QED
  BY <1>1, <1>2, <1>3, <1>4, <1>5, <1>6, <1>7, <1>8, <1>9, <1>10, <1>11, <1>12,
     <1>13, <1>14 DEF RevokeWork

(* What internal/safety does to control. *)
LEMMA SafetyTyped ==
    ASSUME Typed,
           SafetyTrips \/ SafetyRecovers \/ SafetyRearms \/ SafetyRevokes
    PROVE  Typed'
<1> USE DEF slotVars, revokeVars, historyVars, controlVars
<1>1. CASE SafetyTrips
  <2>1. gate' \in [state: GateStates, epoch: Nat]
    BY <1>1, GateStepTyped DEF SafetyTrips, LatchTrip, Typed
  <2>2. gate'.epoch \in Nat
    BY <2>1
  <2>3. latchEpoch' \in Nat /\ awaiting' \subseteq Nat
    BY <1>1, <2>2 DEF SafetyTrips, LatchTrip, Typed, GateTyped
  <2> QED
    BY <1>1, <2>1, <2>3 DEF SafetyTrips, Typed, GateTyped, RevTyped, OpTyped,
       LaneTyped, SlotsTyped
<1>2. CASE SafetyRecovers \/ SafetyRearms
  <2>1. gate' \in [state: GateStates, epoch: Nat]
    BY <1>2, GateStepTyped DEF SafetyRecovers, SafetyRearms, Typed
  <2> QED
    BY <1>2, <2>1 DEF SafetyRecovers, SafetyRearms, Typed, GateTyped, RevTyped,
       OpTyped, LaneTyped, SlotsTyped
<1>3. CASE SafetyRevokes
  <2>1. PICK epoch \in awaiting : RevokeAll(epoch)
    BY <1>3 DEF SafetyRevokes
  <2>2. epoch \in Nat
    BY DEF Typed, GateTyped
  <2>3. RevTyped'
    BY <2>1, <2>2, IdleTyped DEF RevokeAll, RevTyped, RevType, NoRev
  <2> QED
    BY <2>1, <2>3 DEF RevokeAll, Typed, GateTyped, OpTyped, LaneTyped, SlotsTyped
<1> QED
  BY <1>1, <1>2, <1>3

(* A step of control or of its environment, re-arm included. *)
AnyNext == NextButRearm \/ SafetyRearms

LEMMA TypedStep ==
    ASSUME Typed, [AnyNext]_controlAll PROVE Typed'
<1>1. CASE UNCHANGED controlAll \/ Exit
  <2>1. UNCHANGED typedVars
    BY <1>1 DEF controlAll, controlVars, typedVars, Exit
  <2> QED
    BY <2>1, StutterTyped
<1>2. CASE ControlStep
  BY <1>2, AcquireTyped, OrdinaryTyped, ThreadsTyped DEF ControlStep
<1>3. CASE CloseStop \/ RevokeReturn
  BY <1>3, ThreadsTyped
<1>4. CASE SafetyTrips \/ SafetyRecovers \/ SafetyRevokes \/ SafetyRearms
  BY <1>4, SafetyTyped
<1> QED
  BY <1>1, <1>2, <1>3, <1>4 DEF AnyNext, NextButRearm

----------------------------------------------------------------------------
(* The invariant behind NoLeaseOutlivesTrip. A latch that took control     *)
(* away is either still on the Supervisor's list or below the floor, and   *)
(* the gate is Normal only above the floor. RevokeAll takes a latch off    *)
(* the list when it returns, so on its way there the floor must already    *)
(* cover the epoch it runs under.                                          *)
FloorCoversLatch == latchEpoch \in awaiting \/ latchEpoch <= safetyFloor
FloorRaised == rev.pc \in {"swap", "count", "park"} => rev.epoch <= safetyFloor
NormalAboveFloor == Normal => latchEpoch <= safetyFloor
FloorInv == FloorCoversLatch /\ FloorRaised /\ NormalAboveFloor

(* The variables of the invariant, and the steps that touch them.          *)
LatchUntouched ==
    /\ UNCHANGED <<latchEpoch, awaiting, safetyFloor, rev>>
    /\ Normal' = Normal

LEMMA BumpsLatchUntouched ==
    ASSUME GateTyped, BumpEpochIfNormal \/ UNCHANGED gate
    PROVE  Normal' = Normal
BY DEF BumpEpochIfNormal, BumpEpoch, Normal, GateTyped

LEMMA ControlLatchUntouched ==
    ASSUME Typed, ControlStep \/ CloseStop \/ Exit,
           ~RevokeWork
    PROVE  LatchUntouched
<1> USE DEF slotVars, revokeVars, historyVars, LatchUntouched
<1>1. CASE Bump \/ Settle
  BY <1>1, BumpsLatchUntouched DEF Typed, Bump, Settle
<1>2. CASE \/ \E q \in Request : Acquire(q)
           \/ Flush \/ Admit \/ Inspect \/ Preempt \/ Sequence
           \/ Freshen \/ Publish \/ Recheck \/ Undo
  BY <1>2 DEF Acquire, Flush, Admit, Inspect, Preempt, Sequence, Freshen,
     Publish, Recheck, Undo, Normal
<1>3. CASE \/ \E r \in Resource :
                 \/ RenewBegin(r) \/ Release(r) \/ Sweep(r)
                 \/ \E g \in Generation : RevokeResource(r, g)
           \/ \E c \in Conn : RevokeConn(c)
           \/ \E p \in Package : RevokeByPackage(p)
           \/ Renew \/ Renewed \/ Drop \/ Expire
  BY <1>3 DEF RenewBegin, Release, Sweep, RevokeResource, RevokeConn,
     RevokeByPackage, Renew, Renewed, Drop, Expire, Normal
<1>4. CASE \/ \E r \in Resource : DrainSlot(r) \/ LaneScan(r)
           \/ DrainTell \/ DrainCount \/ DrainEnd
           \/ LaneDrain \/ LaneLock \/ LaneExit
           \/ StopLock \/ CloseStop \/ Tick
  BY <1>4 DEF DrainSlot, LaneScan, DrainTell, DrainCount, DrainEnd, LaneDrain,
     LaneLock, LaneExit, StopLock, CloseStop, Tick, Normal
<1>5. CASE \E k \in Caller :
                 \/ CallJudge(k) \/ CallConfirm(k) \/ CallMark(k)
                 \/ CallReturn(k)
                 \/ \E r \in Resource : CallLoad(k, r)
  BY <1>5 DEF CallJudge, CallConfirm, CallMark, CallReturn, CallLoad, Normal
<1>6. CASE Exit
  BY <1>6 DEF Exit, controlVars, Normal
<1> QED
  BY <1>1, <1>2, <1>3, <1>4, <1>5, <1>6 DEF ControlStep

LEMMA FloorInit == Init => FloorInv
BY DEF Init, LatchInit, ControlInit, NoRev, FloorInv, FloorCoversLatch, FloorRaised,
   NormalAboveFloor

LEMMA FloorStep ==
    ASSUME Typed, FloorInv, [Next]_controlAll PROVE FloorInv'
<1> USE DEF slotVars, revokeVars, historyVars, FloorInv, FloorCoversLatch,
            FloorRaised, NormalAboveFloor
<1>1. CASE LatchUntouched
  BY <1>1 DEF LatchUntouched
<1>2. CASE UNCHANGED controlAll
  BY <1>2 DEF controlAll, controlVars, Normal
<1>3. CASE RevokeEnter \/ RevokeCount \/ RevokePark \/ \E r \in Resource : RevokeSwap(r)
  BY <1>3 DEF RevokeEnter, RevokeCount, RevokePark, RevokeSwap, Normal, Typed,
     RevTyped, RevType
<1>4. CASE RevokeFloor
  BY <1>4 DEF RevokeFloor, Normal, Typed, RevTyped, RevType, GateTyped
<1>5. CASE RevokeReturn
  BY <1>5 DEF RevokeReturn, LatchServed, Normal, Typed, RevTyped, RevType,
     GateTyped, NoRev
<1>6. CASE SafetyTrips
  <2>1. ~Normal'
    BY <1>6 DEF SafetyTrips, LatchTrip, TripGate, Normal
  <2>2. CASE Normal
    BY <1>6, <2>1, <2>2 DEF SafetyTrips, LatchTrip, Normal
  <2>3. CASE ~Normal
    BY <1>6, <2>1, <2>3 DEF SafetyTrips, LatchTrip
  <2> QED
    BY <2>2, <2>3
<1>7. CASE SafetyRecovers
  BY <1>7 DEF SafetyRecovers, BeginRecovery, RequireRearm, Normal, controlVars,
     Typed, GateTyped
<1>8. CASE LatchRevoked /\ SafetyRearms
  BY <1>8 DEF LatchRevoked, SafetyRearms, controlVars
<1>9. CASE SafetyRevokes
  BY <1>9 DEF SafetyRevokes, RevokeAll, NoRev, Normal
<1> QED
  BY <1>1, <1>2, <1>3, <1>4, <1>5, <1>6, <1>7, <1>8, <1>9, ControlLatchUntouched
     DEF Next, NextButRearm, RevokeWork

LEMMA FloorProtects == Typed /\ FloorInv => NoLeaseOutlivesTrip
BY DEF Typed, GateTyped, SlotsTyped, LeaseOrNone, Lease, FloorInv,
   NormalAboveFloor, NoLeaseOutlivesTrip, Effective

(* No lease that could be exercised was issued before the last Safety      *)
(* trip, however many Resources, connections and trips there are and       *)
(* however they interleave (slot.go RevokeAll, issueLocked; gate.go Trip). *)
THEOREM ControlSafe == ControlSpec => []NoLeaseOutlivesTrip
<1>1. Init => Typed /\ FloorInv
  BY InitTyped, FloorInit
<1>2. Typed /\ FloorInv /\ [Next]_controlAll => (Typed /\ FloorInv)'
  BY TypedStep, FloorStep DEF Next, AnyNext
<1> QED
  BY <1>1, <1>2, FloorProtects, PTL DEF ControlSpec

----------------------------------------------------------------------------
(***************************************************************************)
(* ControlLease implements ControlAuthority: to the rest of the program,   *)
(* slots, floor, seqlock and re-checks are one token per Resource, given   *)
(* out in order and taken away by a latch in one step.                     *)
(*                                                                         *)
(* It holds for as long as the epoch does not wrap.                        *)
(***************************************************************************)

NoWrap == gate.epoch < EpochMask

(* An issue that has its epoch and has not yet published under it.         *)
Issuing ==
    \/ op.pc \in {"sequence", "freshen", "publish"}
    \/ op.pc \in {"flush", "draining"} /\ op.next = "sequence"

(* Whoever drains inside an operation holds mu.                            *)
DrainerHolds == drain.by = "op" => op.pc = "draining"

(* The Resource is vacant where a lease is going to be published: the one  *)
(* that was there can only have left the slot since it was looked at.      *)
Vacant ==
    /\ op.pc \in {"preempt", "drop"} => cur[op.res] \in {None, op.old}
    /\ \/ op.pc = "bump" \/ (op.pc = "settle" /\ op.next = "bump") \/ Issuing
          => cur[op.res] = None
    /\ op.pc = "sweep" => op.next # "bump"

(* Epochs in use are no newer than the gate's, and older than a latch that *)
(* is in force; the one being issued is newer than every one before it.    *)
InForce(e) == e <= gate.epoch /\ (~Normal => e < latchEpoch)
EpochsOrdered ==
    /\ \A r \in Resource : cur[r] # None => InForce(cur[r].epoch)
    /\ \A p \in published : p[2] <= gate.epoch
    /\ Issuing => /\ InForce(op.epoch)
                  /\ \A p \in published : p[2] < op.epoch

RefInv == DrainerHolds /\ Vacant /\ EpochsOrdered

LEMMA RefInit == Init => RefInv
BY DEF Init, LatchInit, GateInit, ControlInit, NoOp, NoDrain, RefInv, DrainerHolds,
   Vacant, EpochsOrdered, Issuing

----------------------------------------------------------------------------
(* A quiet step issues nothing and leaves the latch alone: leases only     *)
(* leave their slots or are renewed, and the floor and the epoch only rise.*)
Quiet ==
    /\ published' = published /\ Normal' = Normal
    /\ latchEpoch' = latchEpoch
    /\ safetyFloor' >= safetyFloor /\ gate'.epoch >= gate.epoch
    /\ \A r \in Resource :
          cur'[r] # None => cur[r] # None /\ cur'[r].epoch = cur[r].epoch
    /\ Issuing' => Issuing /\ op'.epoch = op.epoch

LEMMA QuietOrdered ==
    ASSUME Typed, Typed', EpochsOrdered, Quiet PROVE EpochsOrdered'
<1>1. gate.epoch \in Nat /\ gate'.epoch \in Nat /\ latchEpoch \in Nat
      /\ op.epoch \in Nat
  BY DEF Typed, GateTyped, OpTyped, OpType
<1>2. \A e \in Nat : InForce(e) => InForce(e)'
  BY <1>1 DEF InForce, Quiet
<1>3. ASSUME NEW r \in Resource, cur'[r] # None PROVE InForce(cur[r].epoch)'
  <2>1. cur[r] # None /\ cur'[r].epoch = cur[r].epoch
    BY <1>3 DEF Quiet
  <2>2. cur[r].epoch \in Nat
    BY <2>1 DEF Typed, SlotsTyped, LeaseOrNone, Lease
  <2> QED
    BY <1>2, <2>1, <2>2 DEF EpochsOrdered, InForce, Quiet
<1>4. ASSUME NEW p \in published' PROVE p[2] <= gate'.epoch
  BY <1>1 DEF Quiet, EpochsOrdered, Typed, SlotsTyped
<1>5. ASSUME Issuing' PROVE InForce(op.epoch)' /\ \A p \in published' : p[2] < op'.epoch
  BY <1>1, <1>2, <1>5 DEF Quiet, EpochsOrdered, InForce
<1> QED
  BY <1>3, <1>4, <1>5 DEF EpochsOrdered

(* A step that leaves alone all that a quiet step may move. *)
Still ==
    /\ UNCHANGED <<published, gate, latchEpoch, cur>>
    /\ safetyFloor' = safetyFloor
    /\ Issuing' => Issuing /\ op'.epoch = op.epoch

LEMMA StillQuiet == ASSUME Typed, Still PROVE Quiet
BY DEF Typed, GateTyped, Still, Quiet, Normal

IssuePc == {"sequence", "freshen", "publish", "flush", "draining"}

LEMMA NotIssuing == op'.pc \notin IssuePc => ~Issuing'
BY DEF IssuePc, Issuing

LEMMA NoOpIdle == NoOp.pc = "idle"
BY DEF NoOp

(* A step of mu's holder to another place, or to the end of the operation. *)
LEMMA Elsewhere ==
    ASSUME OpTyped, NEW pc, pc \notin IssuePc,
           op' = NoOp \/ op' = [op EXCEPT !.pc = pc]
    PROVE  op'.pc \notin IssuePc
BY DEF NoOp, IssuePc, OpTyped, OpType

(* Every step is quiet but a bump that begins an issue, the publication,   *)
(* a trip and a re-arm.                                                    *)
LEMMA OpQuiet ==
    ASSUME Typed, NoWrap, DrainerHolds,
           \/ \E q \in Request : Acquire(q)
           \/ Flush \/ Admit \/ Inspect \/ Preempt \/ Sequence
           \/ Freshen \/ Recheck \/ Undo
           \/ \E r \in Resource :
                 \/ RenewBegin(r) \/ Release(r) \/ Sweep(r)
                 \/ \E g \in Generation : RevokeResource(r, g)
           \/ \E c \in Conn : RevokeConn(c)
           \/ \E p \in Package : RevokeByPackage(p)
           \/ Renew \/ Renewed \/ Drop \/ Settle
    PROVE  Quiet
<1> USE DEF slotVars, revokeVars, historyVars
<1>1. CASE Admit \/ Recheck \/ Renewed
  <2>1. op'.pc \notin IssuePc
    <3>1. CASE Admit
      <4>1. op' = NoOp \/ op' = [op EXCEPT !.pc = "inspect", !.now = clock]
        BY <3>1 DEF Admit
      <4>2. CASE op' = NoOp
        BY <4>2, NoOpIdle DEF IssuePc
      <4>3. CASE op' = [op EXCEPT !.pc = "inspect", !.now = clock]
        BY <4>3 DEF IssuePc, Typed, OpTyped, OpType
      <4> QED
        BY <4>1, <4>2, <4>3
    <3>2. CASE Recheck \/ Renewed
      BY <3>2, Elsewhere DEF Recheck, Renewed, IssuePc, Typed
    <3> QED
      BY <1>1, <3>1, <3>2
  <2>2. Still
    BY <1>1, <2>1, NotIssuing DEF Admit, Recheck, Renewed, Still
  <2> QED
    BY <2>2, StillQuiet
<1>12. CASE Sequence \/ Freshen
  <2>1. Issuing /\ (op' = NoOp \/ op'.epoch = op.epoch)
    BY <1>12 DEF Sequence, Freshen, Go, Issuing, Typed, OpTyped, OpType
  <2>2. op' = NoOp => ~Issuing'
    BY DEF NoOp, Issuing
  <2>3. Still
    BY <1>12, <2>1, <2>2 DEF Sequence, Freshen, Still
  <2> QED
    BY <2>3, StillQuiet
<1>2. CASE \/ \E q \in Request : Acquire(q)
           \/ \E r \in Resource :
                 \/ RenewBegin(r) \/ Release(r)
                 \/ \E g \in Generation : RevokeResource(r, g)
           \/ \E c \in Conn : RevokeConn(c)
           \/ \E p \in Package : RevokeByPackage(p)
  <2>1. \/ \E q \in Request :
                 op' = [NoOp EXCEPT !.pc = "flush", !.next = "admit", !.q = q,
                                    !.res = q.res]
        \/ \E r \in Resource :
                 \/ op' = [NoOp EXCEPT !.pc = "renew", !.res = r,
                                       !.old = cur[r], !.now = clock]
                 \/ op' = [NoOp EXCEPT !.pc = "drop", !.res = r, !.old = cur[r]]
        \/ \E conns \in SUBSET Conn :
                 op' = [NoOp EXCEPT !.pc = "sweep", !.todo = slots,
                                    !.match = conns]
    BY <1>2 DEF Acquire, RenewBegin, Release, RevokeResource, RevokeConn,
       RevokeByPackage, Begin, DropBegin, SweepBegin
  <2>2. ~Issuing'
    BY <2>1 DEF NoOp, Issuing
  <2>3. Still
    BY <1>2, <2>2 DEF Acquire, RenewBegin, Release, RevokeResource, RevokeConn,
       RevokeByPackage, Still
  <2> QED
    BY <2>3, StillQuiet
<1>3. CASE Flush
  <2>1. Still
    BY <1>3 DEF Flush, Go, Still, Issuing, Typed, OpTyped, OpType, OpSense
  <2> QED
    BY <2>1, StillQuiet
<1>4. CASE Inspect
  <2> DEFINE v == Verdict(cur[op.res], op.q, op.now)
  <2>1. v \in {"bump", "drop", "renew", "preempt", "refuse"}
    BY VerdictTyped
  <2>2. \/ op' = NoOp
        \/ op' = [op EXCEPT !.pc = v, !.old = cur[op.res], !.next = "bump"]
    BY <1>4 DEF Inspect
  <2> HIDE DEF v
  <2>3. op'.pc \notin IssuePc
    <3>1. CASE op' = NoOp
      BY <3>1 DEF NoOp, IssuePc
    <3>2. CASE op' = [op EXCEPT !.pc = v, !.old = cur[op.res], !.next = "bump"]
      <4>1. op'.pc = v
        BY <3>2 DEF Typed, OpTyped, OpType
      <4> QED
        BY <2>1, <4>1 DEF IssuePc
    <3> QED
      BY <2>2, <3>1, <3>2
  <2>4. Still
    BY <1>4, <2>3, NotIssuing DEF Inspect, Still
  <2> QED
    BY <2>4, StillQuiet
<1>8. CASE Preempt
  <2>1. ~Issuing'
    BY <1>8 DEF Preempt, Go, Issuing, Typed, OpTyped, OpType
  <2> QED
    BY <1>8, <2>1 DEF Preempt, Quiet, Normal, Typed, GateTyped, SlotsTyped
<1>9. CASE Undo
  <2>1. ~Issuing'
    BY <1>9 DEF Undo, NoOp, Issuing
  <2> QED
    BY <1>9, <2>1 DEF Undo, Quiet, Normal, Typed, GateTyped, SlotsTyped
<1>10. ASSUME NEW r \in Resource, Sweep(r) PROVE Quiet
  <2>1. ~Issuing'
    BY <1>10 DEF Sweep, Take, Issuing, Typed, OpTyped, OpType
  <2>2. \A s \in Resource : cur'[s] # None => cur'[s] = cur[s]
    BY <1>10 DEF Sweep, Take, Typed, SlotsTyped
  <2>3. UNCHANGED <<gate, published, latchEpoch, safetyFloor>>
    BY <1>10 DEF Sweep
  <2> QED
    BY <2>1, <2>2, <2>3 DEF Quiet, Normal, Typed, GateTyped
<1>5. CASE Drop
  <2>1. op'.pc \notin IssuePc /\ op.res \in Resource
    BY <1>5 DEF Drop, Take, Go, IssuePc, Typed, OpTyped, OpType, OpSense
  <2> QED
    BY <1>5, <2>1, NotIssuing
       DEF Drop, Take, Quiet, Normal, Typed, GateTyped, SlotsTyped
<1>6. CASE Renew
  <2>1. op'.pc \notin IssuePc /\ op.res \in Resource /\ op.old \in Lease
    BY <1>6 DEF Renew, Go, NoOp, IssuePc, Typed, OpTyped, OpType, OpSense
  <2>2. \/ UNCHANGED cur
        \/ /\ cur[op.res] = op.old
           /\ cur' = [cur EXCEPT ![op.res] =
                        [op.old EXCEPT !.deadline = op.now + op.old.ttl]]
    BY <1>6 DEF Renew
  <2>3. [op.old EXCEPT !.deadline = op.now + op.old.ttl].epoch = op.old.epoch
        /\ op.old # None
    BY <2>1, NoneAssumption DEF Lease, NoneAssumption
  <2>4. ASSUME NEW r \in Resource, cur'[r] # None
        PROVE  cur[r] # None /\ cur'[r].epoch = cur[r].epoch
    BY <2>1, <2>2, <2>3, <2>4 DEF Typed, SlotsTyped
  <2> QED
    BY <1>6, <2>1, <2>4, NotIssuing DEF Renew, Quiet, Normal, Typed, GateTyped
<1>7. CASE Settle
  <2>1. gate'.epoch >= gate.epoch /\ Normal' = Normal
    BY <1>7 DEF Settle, BumpEpochIfNormal, BumpEpoch, IncEpoch, Normal, NoWrap,
       Typed, GateTyped
  <2>2. op'.pc \notin IssuePc
    BY <1>7 DEF Settle, NoOp, IssuePc, Typed, OpTyped, OpType
  <2>3. UNCHANGED <<published, latchEpoch, safetyFloor, cur>>
    BY <1>7 DEF Settle
  <2>4. ~Issuing'
    BY <2>2, NotIssuing
  <2> QED
    BY <2>1, <2>3, <2>4 DEF Quiet, Typed, GateTyped
<1> QED
  BY <1>1, <1>2, <1>3, <1>4, <1>5, <1>6, <1>7, <1>8, <1>9, <1>10,
     <1>12

LEMMA ThreadQuiet ==
    ASSUME Typed, NoWrap, DrainerHolds,
           \/ \E r \in Resource : DrainSlot(r) \/ LaneScan(r)
           \/ DrainTell \/ DrainCount \/ DrainEnd
           \/ LaneDrain \/ LaneLock \/ LaneExit \/ Expire
           \/ StopLock \/ CloseStop \/ RevokeWork \/ RevokeReturn
           \/ \E k \in Caller :
                 \/ CallJudge(k) \/ CallConfirm(k) \/ CallMark(k)
                 \/ CallReturn(k)
                 \/ \E r \in Resource : CallLoad(k, r)
           \/ Tick \/ SafetyRevokes \/ Exit \/ UNCHANGED controlAll
    PROVE  Quiet
<1> USE DEF slotVars, revokeVars, historyVars
<1>1. CASE \/ \E r \in Resource : DrainSlot(r) \/ LaneScan(r)
           \/ DrainTell \/ DrainCount \/ LaneDrain \/ LaneExit \/ CloseStop
  <2>1. Still
    BY <1>1 DEF DrainSlot, LaneScan, DrainTell, DrainCount, LaneDrain, LaneExit,
       CloseStop, Still, Issuing
  <2> QED
    BY <2>1, StillQuiet
<1>7. CASE LaneLock \/ Expire \/ StopLock
  <2>1. op'.pc \notin IssuePc
    <3>1. CASE Expire
      BY <3>1, Elsewhere DEF Expire, Go, IssuePc, Typed
    <3>2. CASE LaneLock \/ StopLock
      BY <3>2 DEF LaneLock, StopLock, NoOp, IssuePc
    <3> QED
      BY <1>7, <3>1, <3>2
  <2>2. Still
    BY <1>7, <2>1, NotIssuing DEF LaneLock, Expire, StopLock, Still
  <2> QED
    BY <2>2, StillQuiet
<1>2. CASE \/ \E k \in Caller :
                 \/ CallJudge(k) \/ CallConfirm(k) \/ CallMark(k)
                 \/ CallReturn(k)
                 \/ \E r \in Resource : CallLoad(k, r)
           \/ Tick \/ SafetyRevokes \/ Exit \/ UNCHANGED controlAll
  <2>1. Still
    BY <1>2 DEF CallJudge, CallConfirm, CallMark, CallReturn, CallLoad, Tick,
       SafetyRevokes, RevokeAll, Exit, controlAll, controlVars, Still, Issuing
  <2> QED
    BY <2>1, StillQuiet
<1>3. CASE RevokeEnter \/ RevokeCount \/ RevokePark \/ RevokeReturn
  <2>1. Still
    BY <1>3 DEF RevokeEnter, RevokeCount, RevokePark, RevokeReturn, Still,
       Issuing
  <2> QED
    BY <2>1, StillQuiet
<1>4. CASE RevokeFloor
  BY <1>4 DEF RevokeFloor, Quiet, Issuing, Normal, Typed, GateTyped, RevTyped,
     RevType
<1>5. ASSUME NEW r \in Resource, RevokeSwap(r) PROVE Quiet
  BY <1>5 DEF RevokeSwap, Quiet, Issuing, Normal, Typed, GateTyped, SlotsTyped
<1>6. CASE DrainEnd
  <2>1. Issuing' => Issuing /\ op'.epoch = op.epoch
    BY <1>6 DEF DrainEnd, DrainDone, Issuing, DrainerHolds, Typed, OpTyped,
       OpType, OpSense
  <2>2. Still
    BY <1>6, <2>1 DEF DrainEnd, Still
  <2> QED
    BY <2>2, StillQuiet
<1> QED
  BY <1>1, <1>2, <1>3, <1>4, <1>5, <1>6, <1>7 DEF RevokeWork

LEMMA RecoverQuiet == ASSUME Typed, SafetyRecovers PROVE Quiet
BY DEF SafetyRecovers, BeginRecovery, RequireRearm, controlVars, Quiet, Normal,
   Issuing, Typed, GateTyped

----------------------------------------------------------------------------
(* RefInv is inductive while the epoch does not wrap. *)
LEMMA DrainerStep ==
    ASSUME Typed, DrainerHolds, [AnyNext]_controlAll PROVE DrainerHolds'
<1> USE DEF slotVars, revokeVars, historyVars, DrainerHolds
<1>1. CASE UNCHANGED <<op, drain>>
  BY <1>1
<1>2. CASE Flush
  BY <1>2 DEF Flush, Go, NoDrain, Typed, OpTyped, OpType
<1>3. CASE drain.by # "op" /\ drain' = drain
  BY <1>3
<1>4. ASSUME op.pc # "draining" PROVE drain.by # "op"
  BY <1>4
<1>5. CASE \/ \E q \in Request : Acquire(q)
           \/ Admit \/ Inspect \/ Preempt \/ Bump \/ Sequence
           \/ Freshen \/ Publish \/ Recheck \/ Undo
  <2>1. op.pc # "draining"
    BY <1>5, NoOpIdle DEF Acquire, Begin, Admit, Inspect, Preempt, Bump,
       Sequence, Freshen, Publish, Recheck, Undo
  <2>2. drain' = drain
    BY <1>5 DEF Acquire, Admit, Inspect, Preempt, Bump, Sequence, Freshen,
       Publish, Recheck, Undo
  <2> QED
    BY <2>1, <2>2, <1>3, <1>4
<1>6. CASE \/ \E r \in Resource :
                 \/ RenewBegin(r) \/ Release(r) \/ Sweep(r)
                 \/ \E g \in Generation : RevokeResource(r, g)
           \/ \E c \in Conn : RevokeConn(c)
           \/ \E p \in Package : RevokeByPackage(p)
           \/ Renew \/ Renewed \/ Drop \/ Settle
           \/ LaneLock \/ Expire \/ StopLock
  <2>1. op.pc # "draining"
    BY <1>6, NoOpIdle DEF RenewBegin, Release, Sweep, RevokeResource,
       RevokeConn, RevokeByPackage, DropBegin, SweepBegin, Begin, Renew,
       Renewed, Drop, Settle, LaneLock, Expire, StopLock
  <2>2. drain' = drain
    BY <1>6 DEF RenewBegin, Release, Sweep, RevokeResource, RevokeConn,
       RevokeByPackage, Renew, Renewed, Drop, Settle, LaneLock, Expire, StopLock
  <2> QED
    BY <2>1, <2>2, <1>3, <1>4
<1>7. CASE DrainEnd \/ LaneDrain
  <2>1. CASE DrainEnd
    BY <2>1 DEF DrainEnd, NoDrain
  <2>2. CASE LaneDrain
    BY <2>2 DEF LaneDrain, NoDrain
  <2> QED
    BY <1>7, <2>1, <2>2
<1>10. CASE \/ \E r \in Resource : DrainSlot(r)
            \/ DrainTell \/ DrainCount
  <2>1. op' = op /\ drain'.by = drain.by
    BY <1>10 DEF DrainSlot, DrainTell, DrainCount, Typed, LaneTyped, DrainType
  <2> QED
    BY <2>1
<1>8. CASE \/ \E r \in Resource : LaneScan(r)
           \/ LaneExit \/ CloseStop \/ RevokeWork \/ RevokeReturn
           \/ \E k \in Caller :
                 \/ CallJudge(k) \/ CallConfirm(k) \/ CallMark(k)
                 \/ CallReturn(k)
                 \/ \E r \in Resource : CallLoad(k, r)
           \/ Tick
  BY <1>8 DEF LaneScan, LaneExit, CloseStop, RevokeWork, RevokeEnter,
     RevokeFloor, RevokeCount, RevokePark, RevokeSwap, RevokeReturn, CallJudge,
     CallConfirm, CallMark, CallReturn, CallLoad, Tick
<1>9. CASE SafetyTrips \/ SafetyRecovers \/ SafetyRevokes \/ SafetyRearms
           \/ Exit \/ UNCHANGED controlAll
  BY <1>9 DEF SafetyTrips, SafetyRecovers, SafetyRevokes, RevokeAll,
     SafetyRearms, Exit, controlAll, controlVars
<1> QED
  BY <1>2, <1>5, <1>6, <1>7, <1>8, <1>9, <1>10
     DEF AnyNext, NextButRearm, ControlStep

(* Steps of other threads, which can only vacate a slot. *)
LEMMA OthersVacate ==
    ASSUME Typed, Vacant, op' = op,
           \A r \in Resource : cur'[r] \in {None, cur[r]}
    PROVE  Vacant'
<1>1. op.pc \in {"preempt", "drop", "bump"} \/ op.next = "bump" \/ Issuing
        => op.res \in Resource
  BY DEF Typed, OpTyped, OpSense, Acquiring, Issuing
<1> QED
  BY <1>1 DEF Vacant, Issuing

LEMMA VacantStep ==
    ASSUME Typed, DrainerHolds, Vacant, [AnyNext]_controlAll PROVE Vacant'
<1> USE DEF slotVars, revokeVars, historyVars
<1>1. CASE op' = NoOp
  BY <1>1 DEF Vacant, NoOp, Issuing
<1>2. CASE UNCHANGED op /\ UNCHANGED cur
  BY <1>2 DEF Vacant, Issuing
<1>3. CASE \/ \E q \in Request : Acquire(q)
           \/ \E r \in Resource : RenewBegin(r)
           \/ \E c \in Conn : RevokeConn(c)
           \/ \E p \in Package : RevokeByPackage(p)
           \/ LaneLock \/ StopLock
  <2>1. op'.pc \in {"flush", "force", "renew", "sweep", "expire"}
        /\ op'.next \in {"idle", "admit", "sweep"}
    <3>1. CASE \E q \in Request : Acquire(q)
      BY <3>1 DEF Acquire, Begin, NoOp
    <3>2. CASE \E r \in Resource : RenewBegin(r)
      BY <3>2 DEF RenewBegin, Begin, NoOp
    <3>3. CASE \/ \E c \in Conn : RevokeConn(c)
               \/ \E p \in Package : RevokeByPackage(p)
      <4>1. PICK conns : SweepBegin(conns)
        BY <3>3 DEF RevokeConn, RevokeByPackage
      <4> QED
        BY <4>1 DEF SweepBegin, Begin, NoOp
    <3>4. CASE LaneLock
      BY <3>4 DEF LaneLock, NoOp
    <3>5. CASE StopLock
      BY <3>5 DEF StopLock, NoOp
    <3> QED
      BY <1>3, <3>1, <3>2, <3>3, <3>4, <3>5
  <2> QED
    BY <2>1 DEF Vacant, Issuing
<1>4. ASSUME NEW r \in Resource,
             Release(r) \/ \E g \in Generation : RevokeResource(r, g)
      PROVE  Vacant'
  <2>1. cur' = cur /\ op' = [NoOp EXCEPT !.pc = "drop", !.res = r, !.old = cur[r]]
    BY <1>4 DEF Release, RevokeResource, DropBegin, Begin
  <2> QED
    BY <2>1 DEF Vacant, Issuing, NoOp
<1>5. CASE Flush
  BY <1>5 DEF Flush, Go, Vacant, Issuing, Typed, OpTyped, OpType, OpSense
<1>6. CASE Admit
  <2>1. CASE op' = [op EXCEPT !.pc = "inspect", !.now = clock]
    BY <2>1 DEF Vacant, Issuing, Typed, OpTyped, OpType
  <2> QED
    BY <1>1, <1>6, <2>1 DEF Admit
<1>7. CASE Inspect
  <2> DEFINE v == Verdict(cur[op.res], op.q, op.now)
  <2>1. /\ v \in {"bump", "drop", "renew", "preempt", "refuse"}
        /\ v = "bump" => cur[op.res] = None
    BY DEF Verdict, Valid, CanPreempt
  <2>2. CASE op' = [op EXCEPT !.pc = v, !.old = cur[op.res], !.next = "bump"]
    <3>1. op'.pc = v /\ op'.old = cur[op.res] /\ op'.next = "bump"
          /\ op'.res = op.res
      BY <2>2 DEF Typed, OpTyped, OpType
    <3>2. cur' = cur
      BY <1>7 DEF Inspect
    <3> HIDE DEF v
    <3> QED
      BY <2>1, <3>1, <3>2 DEF Vacant, Issuing
  <2> QED
    BY <1>1, <1>7, <2>2 DEF Inspect
<1>8. CASE Preempt
  <2>1. op.res \in Resource /\ op'.pc = "bump" /\ op'.res = op.res
    BY <1>8 DEF Preempt, Go, Typed, OpTyped, OpType, OpSense
  <2>2. cur'[op.res] = None
    BY <1>8, <2>1 DEF Preempt, Vacant, Typed, SlotsTyped
  <2> QED
    BY <2>1, <2>2 DEF Vacant, Issuing
<1>9. CASE Bump
  <2>1. CASE op' = [op EXCEPT !.pc = "flush", !.next = "sequence",
                              !.epoch = gate'.epoch]
    BY <1>9, <2>1 DEF Bump, Vacant, Issuing, Typed, OpTyped, OpType
  <2> QED
    BY <1>1, <1>9, <2>1 DEF Bump
<1>10. CASE Sequence \/ Freshen
  <2>1. CASE op' = [op EXCEPT !.pc = "freshen", !.seq = revokeSeq]
             \/ op' = [op EXCEPT !.pc = "publish"]
    BY <1>10, <2>1
       DEF Sequence, Freshen, Vacant, Issuing, Typed, OpTyped, OpType
  <2> QED
    BY <1>1, <1>10, <2>1 DEF Sequence, Freshen, Go
<1>11. CASE Publish \/ Renew
  <2>1. op' = NoOp \/ op' = [op EXCEPT !.pc = "recheck"]
                   \/ op' = [op EXCEPT !.pc = "renewed"]
    BY <1>11 DEF Publish, Renew, Go
  <2>2. op' = NoOp \/ op'.pc \in {"recheck", "renewed"}
    BY <2>1 DEF Typed, OpTyped, OpType
  <2> QED
    BY <1>1, <2>2 DEF Vacant, Issuing
<1>12. CASE Recheck
  <2>1. CASE op' = [op EXCEPT !.pc = "undo"]
    BY <2>1 DEF Vacant, Issuing, Typed, OpTyped, OpType
  <2> QED
    BY <1>1, <1>12, <2>1 DEF Recheck
<1>13. CASE Undo \/ Renewed
  BY <1>1, <1>13 DEF Undo, Renewed
<1>14. CASE Drop
  <2>1. op.res \in Resource /\ op'.pc = "settle" /\ op'.res = op.res
    BY <1>14 DEF Drop, Take, Go, Typed, OpTyped, OpType, OpSense
  <2>2. cur'[op.res] = None
    BY <1>14, <2>1 DEF Drop, Take, Vacant, Typed, SlotsTyped
  <2> QED
    BY <2>1, <2>2 DEF Vacant, Issuing
<1>15. ASSUME NEW r \in Resource, Sweep(r) PROVE Vacant'
  <2>1. op'.pc = "sweep" /\ op'.next = op.next
    BY <1>15 DEF Sweep, Take, Typed, OpTyped, OpType
  <2> QED
    BY <1>15, <2>1 DEF Sweep, Vacant, Issuing
<1>16. CASE Settle
  <2>1. CASE op.next = "bump" /\ op' = [op EXCEPT !.pc = "bump", !.dropped = {}]
    <3>1. op.pc = "settle" /\ cur' = cur
      BY <1>16, <2>1 DEF Settle, Vacant
    <3>2. op'.pc = "bump" /\ op'.res = op.res
      BY <2>1 DEF Typed, OpTyped, OpType
    <3> QED
      BY <2>1, <3>1, <3>2 DEF Vacant, Issuing
  <2> QED
    BY <1>1, <1>16, <2>1 DEF Settle
<1>17. CASE Expire
  <2>1. CASE StillLapsed /\ op' = [op EXCEPT !.pc = "drop"]
    <3>1. op'.pc = "drop" /\ op'.res = op.res /\ op'.old = op.old
      BY <2>1 DEF Typed, OpTyped, OpType
    <3> QED
      BY <1>17, <2>1, <3>1 DEF Expire, StillLapsed, Vacant, Issuing
  <2> QED
    BY <1>1, <1>17, <2>1 DEF Expire, Go
<1>18. CASE DrainEnd
  BY <1>18 DEF DrainEnd, DrainDone, DrainerHolds, Vacant, Issuing, Typed,
     OpTyped, OpType, OpSense
<1>19. ASSUME NEW r \in Resource, RevokeSwap(r) PROVE Vacant'
  <2>1. op' = op /\ \A s \in Resource : cur'[s] \in {None, cur[s]}
    BY <1>19 DEF RevokeSwap, Typed, SlotsTyped
  <2> QED
    BY <2>1, OthersVacate
<1>20. CASE \/ \E r \in Resource : DrainSlot(r) \/ LaneScan(r)
            \/ DrainTell \/ DrainCount \/ LaneDrain \/ LaneExit \/ CloseStop
            \/ RevokeEnter \/ RevokeFloor \/ RevokeCount \/ RevokePark
            \/ RevokeReturn \/ Tick
  <2>1. UNCHANGED op /\ UNCHANGED cur
    BY <1>20 DEF DrainSlot, LaneScan, DrainTell, DrainCount, LaneDrain,
       LaneExit, CloseStop, RevokeEnter, RevokeFloor, RevokeCount, RevokePark,
       RevokeReturn, Tick
  <2> QED
    BY <1>2, <2>1
<1>21. CASE \E k \in Caller :
                 \/ CallJudge(k) \/ CallConfirm(k) \/ CallMark(k)
                 \/ CallReturn(k)
                 \/ \E r \in Resource : CallLoad(k, r)
  <2>1. UNCHANGED op /\ UNCHANGED cur
    BY <1>21 DEF CallJudge, CallConfirm, CallMark, CallReturn, CallLoad
  <2> QED
    BY <1>2, <2>1
<1>22. CASE SafetyTrips \/ SafetyRecovers \/ SafetyRevokes \/ SafetyRearms
            \/ Exit \/ UNCHANGED controlAll
  <2>1. UNCHANGED op /\ UNCHANGED cur
    BY <1>22 DEF SafetyTrips, SafetyRecovers, SafetyRevokes, RevokeAll,
       SafetyRearms, Exit, controlAll, controlVars
  <2> QED
    BY <1>2, <2>1
<1> QED
  BY <1>3, <1>4, <1>5, <1>6, <1>7, <1>8, <1>9, <1>10, <1>11, <1>12, <1>13,
     <1>14, <1>15, <1>16, <1>17, <1>18, <1>19, <1>20, <1>21, <1>22
     DEF AnyNext, NextButRearm, ControlStep, RevokeWork

LEMMA Climbs ==
    ASSUME Typed, NoWrap PROVE IncEpoch(gate.epoch) = gate.epoch + 1
BY DEF NoWrap, IncEpoch, Typed, GateTyped

(* The steps that are not quiet. *)
LEMMA LoudOrdered ==
    ASSUME Typed, Typed', NoWrap, RefInv,
           Bump \/ Publish \/ SafetyTrips \/ SafetyRearms
    PROVE  EpochsOrdered'
<1> USE DEF slotVars, revokeVars, historyVars
<1>1. /\ gate.epoch \in Nat /\ latchEpoch \in Nat /\ op.epoch \in Nat
      /\ IncEpoch(gate.epoch) = gate.epoch + 1
      /\ \A r \in Resource : cur[r] # None => cur[r].epoch \in Nat
      /\ \A p \in published : p[2] \in Nat
  BY Climbs DEF Typed, GateTyped, OpTyped, OpType, SlotsTyped, LeaseOrNone, Lease
<1>2. CASE Bump
  <2>1. CASE op' = NoOp /\ UNCHANGED gate
    <3>1. ~Issuing'
      BY <2>1 DEF NoOp, Issuing
    <3>2. UNCHANGED <<cur, published, latchEpoch>>
      BY <1>2 DEF Bump
    <3> QED
      BY <2>1, <3>1, <3>2 DEF RefInv, EpochsOrdered, InForce, Normal
  <2>2. CASE Normal /\ gate' = [gate EXCEPT !.epoch = IncEpoch(@)]
             /\ op' = [op EXCEPT !.pc = "flush", !.next = "sequence",
                                 !.epoch = gate'.epoch]
    <3>1. /\ Normal' /\ gate'.epoch = gate.epoch + 1
          /\ op'.epoch = gate.epoch + 1
      BY <1>1, <2>2 DEF Normal, Typed, GateTyped, OpTyped, OpType
    <3>2. cur' = cur /\ published' = published
      BY <1>2 DEF Bump
    <3> QED
      BY <1>1, <3>1, <3>2 DEF RefInv, EpochsOrdered, InForce
  <2> QED
    BY <1>2, <2>1, <2>2 DEF Bump, BumpEpochIfNormal, BumpEpoch
<1>3. CASE Publish
  <2>1. Issuing /\ op.res \in Resource
    BY <1>3 DEF Publish, Issuing, Typed, OpTyped, OpSense, Acquiring
  <2>2. /\ InForce(op.epoch) /\ ~Issuing'
    BY <1>3, <2>1 DEF Publish, Go, Issuing, RefInv, EpochsOrdered, Typed, OpTyped,
       OpType
  <2>3. \A r \in Resource :
           cur'[r] = IF r = op.res THEN NewLease ELSE cur[r]
    BY <1>3 DEF Publish, Typed, SlotsTyped
  <2>4. NewLease.epoch = op.epoch
    BY DEF NewLease
  <2>5. UNCHANGED <<gate, latchEpoch>> /\ published' = published \cup {<<op.res, op.epoch>>}
    BY <1>3 DEF Publish
  <2>6. \A e \in Nat : InForce(e) => InForce(e)'
    BY <2>5 DEF InForce, Normal
  <2>7. ASSUME NEW r \in Resource, cur'[r] # None PROVE InForce(cur[r].epoch)'
    BY <1>1, <2>2, <2>3, <2>4, <2>5, <2>7 DEF InForce, Normal, RefInv, EpochsOrdered
  <2>8. \A p \in published' : p[2] <= gate'.epoch
    BY <2>2, <2>5 DEF InForce, RefInv, EpochsOrdered
  <2> QED
    BY <2>2, <2>7, <2>8 DEF EpochsOrdered
<1>4. CASE SafetyTrips \/ SafetyRearms
  <2>1. /\ gate' = gate \/ gate'.epoch = gate.epoch + 1
        /\ ~Normal' => \/ Normal /\ latchEpoch' = gate.epoch + 1
                       \/ ~Normal /\ latchEpoch' = latchEpoch
    <3>1. CASE SafetyTrips
      <4>1. CASE gate.state = "SafetyLatched"
        <5>1. gate' = gate /\ ~Normal /\ latchEpoch' = latchEpoch
          BY <3>1, <4>1 DEF SafetyTrips, LatchTrip, TripGate, Normal
        <5> QED
          BY <5>1
      <4>2. CASE gate.state # "SafetyLatched"
        BY <1>1, <3>1, <4>2 DEF SafetyTrips, LatchTrip, TripGate, Normal
      <4> QED
        BY <4>1, <4>2
    <3>2. CASE SafetyRearms
      BY <1>1, <3>2 DEF SafetyRearms, RearmGate, Normal
    <3> QED
      BY <1>4, <3>1, <3>2
  <2>2. \A e \in Nat : InForce(e) => InForce(e)'
    BY <1>1, <2>1 DEF InForce
  <2>3. UNCHANGED <<cur, published, op>>
    BY <1>4 DEF SafetyTrips, SafetyRearms, controlVars
  <2>4. Issuing' = Issuing
    BY <2>3 DEF Issuing
  <2>5. ASSUME NEW r \in Resource, cur'[r] # None PROVE InForce(cur[r].epoch)'
    BY <1>1, <2>2, <2>3, <2>5 DEF InForce, RefInv, EpochsOrdered
  <2>6. \A p \in published' : p[2] <= gate'.epoch
    BY <1>1, <2>1, <2>3 DEF RefInv, EpochsOrdered
  <2>7. ASSUME Issuing'
        PROVE  InForce(op.epoch)' /\ \A p \in published' : p[2] < op'.epoch
    BY <1>1, <2>2, <2>3, <2>4, <2>7 DEF InForce, RefInv, EpochsOrdered
  <2> QED
    BY <2>5, <2>6, <2>7 DEF EpochsOrdered
<1> QED
  BY <1>2, <1>3, <1>4

LEMMA StepIsQuietOrLoud ==
    ASSUME Typed, NoWrap, DrainerHolds, [NextButRearm]_controlAll
    PROVE  Quiet \/ Bump \/ Publish \/ SafetyTrips
BY OpQuiet, ThreadQuiet, RecoverQuiet DEF NextButRearm, ControlStep

LEMMA RefStep ==
    ASSUME Typed, Typed', NoWrap, RefInv, [AnyNext]_controlAll PROVE RefInv'
<1>1. EpochsOrdered'
  BY StepIsQuietOrLoud, QuietOrdered, LoudOrdered DEF RefInv, AnyNext
<1>2. DrainerHolds' /\ Vacant'
  BY DrainerStep, VacantStep DEF RefInv
<1> QED
  BY <1>1, <1>2 DEF RefInv

----------------------------------------------------------------------------
(* The mapping, and the steps under it. *)
Holder(r) == IF Effective(r) THEN cur[r].epoch ELSE 0
holder == [r \in Resource |-> Holder(r)]
used == {p[2] : p \in published}

LEMMA HolderKept ==
    ASSUME Normal' = Normal, safetyFloor' = safetyFloor,
           NEW r \in Resource, cur'[r] = cur[r]
    PROVE  Holder(r)' = Holder(r)
BY DEF Holder, Effective

LEMMA MappedEnd ==
    ASSUME NEW freed \in SUBSET Resource, Normal' = Normal, used' = used,
           holder' = [r \in Resource |-> IF r \in freed THEN 0 ELSE holder[r]]
    PROVE  Authority!Next
<1>1. Authority!End(freed)
  BY DEF Authority!End, holder, Holder, used
<1> QED
  BY <1>1 DEF Authority!Next

LEMMA MappedGrant ==
    ASSUME NEW r \in Resource, NEW e \in Nat, Normal, Normal' = Normal,
           Holder(r) = 0, \A u \in used : u < e, used' = used \cup {e},
           \A s \in Resource : Holder(s)' = IF s = r THEN e ELSE Holder(s)
    PROVE  Authority!Next
<1>1. holder' = [holder EXCEPT ![r] = e]
  BY DEF holder
<1>2. holder[r] = 0
  BY DEF holder
<1>3. Authority!Grant(r, e)
  BY <1>1, <1>2 DEF Authority!Grant, Authority!Newer, holder, Holder, used
<1> QED
  BY <1>3 DEF Authority!Next, used

LEMMA MappedWaste ==
    ASSUME NEW e \in Nat, Normal' = Normal,
           \A u \in used : u < e, used' = used \cup {e},
           \A s \in Resource : Holder(s)' = Holder(s)
    PROVE  Authority!Next
<1>1. holder' = holder
  BY DEF holder
<1>2. Authority!Waste(e)
  BY <1>1 DEF Authority!Waste, Authority!Newer, holder, Holder, used
<1> QED
  BY <1>2 DEF Authority!Next, used

LEMMA QuietImplements ==
    ASSUME Typed, Typed', Quiet PROVE Authority!Next
<1> DEFINE freed == {r \in Resource : ~(/\ Normal' /\ cur'[r] # None
                                        /\ cur'[r].epoch > safetyFloor')}
<1>1. ASSUME NEW r \in Resource, r \notin freed PROVE Holder(r)' = Holder(r)
  BY <1>1 DEF Quiet, Effective, Holder, Typed, GateTyped, SlotsTyped,
     LeaseOrNone, Lease
<1>2. ASSUME NEW r \in Resource, r \in freed PROVE Holder(r)' = 0
  BY <1>2 DEF Effective, Holder
<1>3. holder' = [r \in Resource |-> IF r \in freed THEN 0 ELSE holder[r]]
  BY <1>1, <1>2 DEF holder
<1>4. Normal' = Normal /\ used' = used
  BY DEF Quiet, used
<1> QED
  BY <1>3, <1>4, MappedEnd

LEMMA BumpImplements ==
    ASSUME Typed, Bump PROVE Authority!Next
<1>1. Normal' = Normal
  BY BumpsLatchUntouched DEF Bump, Typed
<1>2. UNCHANGED <<cur, published, safetyFloor>>
  BY DEF Bump, slotVars, revokeVars, historyVars
<1>3. used' = used
  BY <1>2 DEF used
<1>4. ASSUME NEW r \in Resource PROVE Holder(r)' = Holder(r)
  BY <1>1, <1>2, HolderKept
<1> DEFINE freed == {}
<1>5. holder' = [r \in Resource |-> IF r \in freed THEN 0 ELSE holder[r]]
  BY <1>4 DEF holder
<1>6. freed \in SUBSET Resource
  OBVIOUS
<1> HIDE DEF freed
<1> QED
  BY <1>1, <1>3, <1>5, <1>6, MappedEnd

(* A publication grants authority, or wastes its token when the latch or   *)
(* the floor has overtaken it.                                             *)
LEMMA PublishImplements ==
    ASSUME Typed, RefInv, Publish PROVE Authority!Next
<1>1. /\ op.res \in Resource /\ op.epoch \in Nat /\ Issuing
  BY DEF Publish, Typed, OpTyped, OpType, OpSense, Acquiring, Issuing
<1>2. UNCHANGED <<gate, safetyFloor>>
      /\ published' = published \cup {<<op.res, op.epoch>>}
      /\ cur' = [cur EXCEPT ![op.res] = NewLease]
  BY DEF Publish, revokeVars
<1>3. NewLease.epoch = op.epoch
  BY DEF NewLease
<1>4. used' = used \cup {op.epoch}
  <2>1. used' \subseteq used \cup {op.epoch}
    BY <1>2 DEF used
  <2>2. used \subseteq used'
    BY <1>2 DEF used
  <2>3. <<op.res, op.epoch>> \in published'
    BY <1>2
  <2>4. op.epoch \in used'
    BY <2>3 DEF used
  <2> QED
    BY <2>1, <2>2, <2>4
<1>5. \A u \in used : u < op.epoch
  BY <1>1 DEF RefInv, EpochsOrdered, used
<1>6. Normal' = Normal /\ safetyFloor' = safetyFloor
  BY <1>2 DEF Normal
<1>7. Holder(op.res) = 0
  BY <1>1 DEF RefInv, Vacant, Holder, Effective
<1>8. ASSUME NEW r \in Resource, r # op.res PROVE Holder(r)' = Holder(r)
  <2>1. cur'[r] = cur[r]
    BY <1>1, <1>2, <1>8 DEF Typed, SlotsTyped
  <2> QED
    BY <1>6, <2>1, HolderKept
<1>9. CASE Normal' /\ cur'[op.res] # None /\ cur'[op.res].epoch > safetyFloor'
  <2>1. cur'[op.res] = NewLease
    BY <1>1, <1>2 DEF Typed, SlotsTyped
  <2>2. ASSUME NEW r \in Resource, r = op.res PROVE Holder(r)' = op.epoch
    BY <1>3, <1>9, <2>1, <2>2 DEF Holder, Effective
  <2>3. \A r \in Resource :
           Holder(r)' = IF r = op.res THEN op.epoch ELSE Holder(r)
    BY <1>8, <2>2
  <2> QED
    BY <1>1, <1>4, <1>5, <1>6, <1>7, <1>9, <2>3, MappedGrant
<1>10. CASE ~(Normal' /\ cur'[op.res] # None
             /\ cur'[op.res].epoch > safetyFloor')
  <2>1. ASSUME NEW r \in Resource, r = op.res PROVE Holder(r)' = 0
    BY <1>10, <2>1 DEF Holder, Effective
  <2>2. \A r \in Resource : Holder(r)' = Holder(r)
    BY <1>7, <1>8, <2>1
  <2> QED
    BY <1>1, <1>4, <1>5, <1>6, <2>2, MappedWaste
<1> QED
  BY <1>9, <1>10

(* A trip out of Normal takes all authority away, later ones nothing.      *)
LEMMA TripImplements ==
    ASSUME Typed, SafetyTrips PROVE Authority!Next
<1>1. ~Normal'
  BY DEF SafetyTrips, LatchTrip, TripGate, Normal
<1>2. published' = published
  BY DEF SafetyTrips
<1>3. \A r \in Resource : Holder(r)' = 0
  BY <1>1 DEF Holder, Effective
<1>4. Authority!Latch
  BY <1>1, <1>2, <1>3 DEF Authority!Latch, Holder
<1> QED
  BY <1>4 DEF Authority!Next

(* Re-arming gives nobody authority back: the floor has reached the latch, *)
(* and every lease left in a slot is from before it.                       *)
LEMMA RearmImplements ==
    ASSUME Typed, RefInv, FloorInv, LatchRevoked, SafetyRearms
    PROVE  Authority!Next
<1>1. ~Normal /\ Normal'
  BY DEF SafetyRearms, RearmGate, Normal
<1>2. UNCHANGED <<cur, safetyFloor, published>>
  BY DEF SafetyRearms, controlVars
<1>3. latchEpoch <= safetyFloor
  BY DEF LatchRevoked, FloorInv, FloorCoversLatch
<1>4. ASSUME NEW r \in Resource PROVE Holder(r)' = 0 /\ Holder(r) = 0
  <2>1. cur[r] # None => cur[r].epoch \in Nat /\ cur[r].epoch < latchEpoch
    BY <1>1 DEF RefInv, EpochsOrdered, InForce, Typed, SlotsTyped, LeaseOrNone,
       Lease
  <2>2. cur[r] # None => ~(cur[r].epoch > safetyFloor)
    BY <1>3, <2>1 DEF Typed, GateTyped
  <2> QED
    BY <1>1, <1>2, <2>2 DEF Holder, Effective
<1>5. Authority!Unlatch
  BY <1>1, <1>2, <1>4 DEF Authority!Unlatch, Holder
<1> QED
  BY <1>5 DEF Authority!Next

LEMMA StepImplements ==
    ASSUME Typed, Typed', NoWrap, RefInv, FloorInv, [Next]_controlAll
    PROVE  Authority!Next
<1>1. CASE [NextButRearm]_controlAll
  BY <1>1, StepIsQuietOrLoud, QuietImplements, BumpImplements,
     PublishImplements, TripImplements DEF RefInv
<1>2. CASE LatchRevoked /\ SafetyRearms
  BY <1>2, RearmImplements
<1> QED
  BY <1>1, <1>2 DEF Next

(* As long as the 56 bits of the epoch last, the leases are the authority  *)
(* that ControlAuthority specifies: at most one token per Resource, never  *)
(* one twice nor after a later one, all of it gone the moment of a trip    *)
(* and none of it back with the re-arm (slot.go, gate.go).                 *)
THEOREM ControlImplements == ControlSpec /\ []NoWrap => ImplementsAuthority
<1>1. Init => Typed /\ FloorInv /\ RefInv
  BY InitTyped, FloorInit, RefInit
<1>2. Init => Authority!Init
  BY DEF Init, LatchInit, GateInit, ControlInit, Normal, Authority!Init, Effective
<1>3. Typed /\ FloorInv /\ RefInv /\ NoWrap /\ [Next]_controlAll
        => (Typed /\ FloorInv /\ RefInv)'
  BY TypedStep, FloorStep, RefStep DEF Next, AnyNext
<1>4. Typed /\ Typed' /\ FloorInv /\ RefInv /\ NoWrap /\ [Next]_controlAll
        => Authority!Next
  BY StepImplements
<1> QED
  BY <1>1, <1>2, <1>3, <1>4, PTL
     DEF ControlSpec, ImplementsAuthority, Authority!Spec


----------------------------------------------------------------------------
(***************************************************************************)
(* EndToldOnce, for as long as the epoch does not wrap. EndInv says where  *)
(* the end of a lease is on its way to the observer, and what keeps the    *)
(* next lease of the slot behind it: Room and Counted that RevokeAll finds *)
(* its parking place free and an issue sees that something is parked;      *)
(* Answered that RevokeAll takes a lease under a latch, unless it is late; *)
(* Cleared that what an issue still finds parked is either late or goes in *)
(* the drain it waits for; Stopping that Stop's sweep finds what is left.  *)
(***************************************************************************)

(* RevokeAll, the drain and mu's holder, each with an end in hand. *)
Sweeps(r) == rev.lease # None /\ rev.res = r
HandShapes ==
    /\ rev.lease # None <=> rev.pc \in {"count", "park"}
    /\ rev.lease # None => rev.res \in Resource
    /\ revokeSeq % 2 = IF rev.pc \in {"idle", "enter"} THEN 0 ELSE 1
    /\ drain.lease # None <=> drain.pc = "tell"
    /\ drain.pc # "scan" => drain.by # "none"
    /\ op.pc = "draining" => drain.by = "op"

(* What RevokeAll takes before the latch is answered is not late, and the  *)
(* gate is not Normal before it returns.                                   *)
Answered ==
    /\ Normal => LatchRevoked
    /\ rev.lease # None /\ rev.lease.epoch \notin late => ~LatchRevoked

(* mu's holder: what it has taken is out of its slot, and what it refuses  *)
(* to leave published is what it published.                                *)
Takes ==
    /\ op.dropped # {} => op.pc \in {"settle", "sweep"}
    /\ \A d \in op.dropped : cur[d[1]] = None
    /\ op.pc \in {"recheck", "undo"} /\ cur[op.res] # None =>
          cur[op.res].epoch = op.epoch

(* Every end is that of a published lease, and an epoch names one lease.   *)
Known ==
    /\ \A r \in Resource : cur[r] # None => <<r, cur[r].epoch>> \in published
    /\ \A r \in Resource :
          parked[r] # None => <<r, parked[r].epoch>> \in published
    /\ rev.lease # None => <<rev.res, rev.lease.epoch>> \in published
    /\ drain.lease # None =>
          \E r \in Resource : <<r, drain.lease.epoch>> \in published
    /\ op.dropped \subseteq published
    /\ \A e \in told : \E p \in published : p[2] = e
    /\ \A p, q \in published : p[2] = q[2] => p = q

(* InOnePlace, place by place. *)
InSlot(p) == cur[p[1]] # None /\ cur[p[1]].epoch = p[2]
InParking(p) == parked[p[1]] # None /\ parked[p[1]].epoch = p[2]
InSafety(p) == rev.lease # None /\ rev.lease.epoch = p[2]
InDrain(p) == drain.lease # None /\ drain.lease.epoch = p[2]
InOp(p) == p \in op.dropped
Kept(p) == InSlot(p) \/ InParking(p) \/ InSafety(p) \/ InDrain(p) \/ InOp(p)
KeptOnce(p) ==
    /\ InSlot(p) => ~(InParking(p) \/ InSafety(p) \/ InDrain(p) \/ InOp(p))
    /\ InParking(p) => ~(InSafety(p) \/ InDrain(p) \/ InOp(p))
    /\ InSafety(p) => ~(InDrain(p) \/ InOp(p))
    /\ InDrain(p) => ~InOp(p)
OnePlace(p) == KeptOnce(p) /\ (Kept(p) <=> p[2] \notin told)
Owned == \A p \in published : OnePlace(p)

Ends == Takes /\ Known /\ Owned

(* A slot with a lease, or about to have one, has nothing parked and       *)
(* nothing on its way there.                                               *)
Publishing == op.pc \in {"freshen", "publish"}
Occupied(r) == cur[r] # None \/ (Publishing /\ op.res = r)
Room ==
    /\ \A r \in Resource : Occupied(r) => parked[r] = None /\ ~Sweeps(r)
    /\ \A r \in Resource : Sweeps(r) => parked[r] = None

(* An Acquire that was admitted.                                           *)
Past ==
    \/ op.pc \in {"inspect", "preempt", "bump", "sequence", "freshen",
                  "publish", "recheck", "undo"}
    \/ op.next \in {"bump", "sequence"}
Slotted ==
    /\ \A r \in Resource :
          cur[r] # None \/ parked[r] # None \/ Sweeps(r) => r \in slots
    /\ Past => op.res \in slots

ParkedAt == {r \in Resource : parked[r] # None}
Counted ==
    /\ IsFiniteSet(ParkedAt)
    /\ revPending = Cardinality(ParkedAt)
                      + (IF rev.pc = "park" THEN 1 ELSE 0)
                      + (IF drain.pc # "scan" THEN 1 ELSE 0)

(* The end of a lease of r that has to be told before the next one. *)
Owes(r, l) ==
    l # None /\ <<r, l.epoch>> \in published /\ l.epoch \notin late
Cleared ==
    /\ \A r \in Resource : Occupied(r) => ~Owes(r, drain.lease)
    /\ Issuing =>
          /\ Sweeps(op.res) => rev.lease.epoch \in late
          /\ Owes(op.res, parked[op.res]) =>
                \/ op.pc = "flush"
                \/ op.pc = "draining" /\ op.res \in drain.todo
          /\ Owes(op.res, drain.lease) => op.pc \in {"flush", "draining"}

(* Stop waits for mu, drains, and sweeps all that is there. *)
StopGoesOn ==
    /\ op.pc \in {"force", "draining", "sweep"}
    /\ op.next = "sweep" /\ op.match = Conn
    /\ \A r \in Resource : cur[r] # None => r \in op.todo
    /\ \A r \in Resource : parked[r] # None =>
          op.pc = "force" \/ (op.pc = "draining" /\ r \in drain.todo)
    /\ drain.lease # None => op.pc \in {"force", "draining"}
AllEnded ==
    /\ \A r \in Resource : cur[r] = None /\ parked[r] = None
    /\ drain.lease = None
    /\ \A p \in published : p[2] \in told
Stopping ==
    /\ life # "running" => rev.pc = "idle"
    /\ life \in {"stopping", "stopped"} => ~Past
    /\ life = "stopping" <=> op.by = "stop"
    /\ op.by = "stop" => StopGoesOn
    /\ life = "stopped" => AllEnded

EndInv == HandShapes /\ Answered /\ Ends /\ Room /\ Slotted /\ Counted
          /\ Cleared /\ Stopping
----------------------------------------------------------------------------
(* Steps that leave every end where it is. *)
worldVars == <<cur, parked, revokeSeq, revPending, rev, drain, life, published,
               told, late, latchEpoch, awaiting>>

(* mu is taken. *)
Begins ==
    \/ \E q \in Request : Acquire(q)
    \/ \E r \in Resource :
          \/ RenewBegin(r) \/ Release(r)
          \/ \E g \in Generation : RevokeResource(r, g)
    \/ \E c \in Conn : RevokeConn(c)
    \/ \E p \in Package : RevokeByPackage(p)
    \/ LaneLock

(* mu's holder goes on. *)
Walks ==
    \/ Admit \/ Inspect \/ Bump \/ Sequence \/ Freshen \/ Recheck \/ Renewed
    \/ Expire

(* Threads that have no part in an end, and the gate's other movements. *)
Aside ==
    \/ \E r \in Resource : LaneScan(r)
    \/ LaneExit \/ Tick \/ SafetyRecovers \/ Exit
    \/ LatchRevoked /\ SafetyRearms
    \/ \E k \in Caller :
          \/ CallJudge(k) \/ CallConfirm(k) \/ CallMark(k) \/ CallReturn(k)
          \/ \E r \in Resource : CallLoad(k, r)
    \/ UNCHANGED controlAll

LEMMA BeginsFresh ==
    ASSUME Typed, Begins
    PROVE  /\ UNCHANGED worldVars /\ slots' = slots /\ gate' = gate
           /\ op = NoOp
           /\ op'.pc \in {"flush", "renew", "drop", "sweep", "expire"}
           /\ op'.next \in {"idle", "admit"}
           /\ op'.by \in {"caller", "lane"} /\ op'.dropped = {}
<1> USE DEF slotVars, revokeVars, historyVars
<1>1. UNCHANGED worldVars /\ slots' = slots /\ gate' = gate
  BY DEF Begins, Acquire, RenewBegin, Release, RevokeResource, RevokeConn,
     RevokeByPackage, LaneLock, worldVars
<1>2. op = NoOp
  BY DEF Begins, Acquire, RenewBegin, Release, RevokeResource, RevokeConn,
     RevokeByPackage, LaneLock, Begin, DropBegin, SweepBegin
<1>3. /\ op'.pc \in {"flush", "renew", "drop", "sweep", "expire"}
      /\ op'.next \in {"idle", "admit"}
      /\ op'.by \in {"caller", "lane"} /\ op'.dropped = {}
  <2>1. \/ \E q \in Request :
                 op' = [NoOp EXCEPT !.pc = "flush", !.next = "admit", !.q = q,
                                    !.res = q.res]
        \/ \E r \in Resource :
                 \/ op' = [NoOp EXCEPT !.pc = "renew", !.res = r,
                                       !.old = cur[r], !.now = clock]
                 \/ op' = [NoOp EXCEPT !.pc = "drop", !.res = r, !.old = cur[r]]
        \/ \E conns \in SUBSET Conn :
                 op' = [NoOp EXCEPT !.pc = "sweep", !.todo = slots,
                                    !.match = conns]
        \/ op' = [NoOp EXCEPT !.pc = "expire", !.by = "lane", !.res = lane.res,
                              !.old = lane.lease, !.now = lane.now]
    BY DEF Begins, Acquire, RenewBegin, Release, RevokeResource, RevokeConn,
       RevokeByPackage, LaneLock, Begin, DropBegin, SweepBegin
  <2> QED
    BY <2>1 DEF NoOp
<1> QED
  BY <1>1, <1>2, <1>3

LEMMA AsideStill ==
    ASSUME Typed, Aside
    PROVE  /\ UNCHANGED worldVars /\ slots' = slots /\ op' = op
           /\ Normal' => Normal \/ LatchRevoked
<1> USE DEF slotVars, revokeVars, historyVars
<1>1. UNCHANGED worldVars /\ slots' = slots /\ op' = op
  BY DEF Aside, LaneScan, LaneExit, Tick, SafetyRecovers, Exit, SafetyRearms,
     CallJudge, CallConfirm, CallMark, CallReturn, CallLoad, controlAll,
     controlVars, worldVars
<1>2. CASE gate' = gate \/ LatchRevoked
  BY <1>1, <1>2 DEF Normal
<1>3. CASE SafetyRecovers
  BY <1>1, <1>3 DEF SafetyRecovers, BeginRecovery, RequireRearm, Normal,
     Typed, GateTyped
<1>4. gate' = gate \/ LatchRevoked \/ SafetyRecovers
  BY DEF Aside, LaneScan, LaneExit, Tick, Exit, CallJudge, CallConfirm,
     CallMark, CallReturn, CallLoad, controlAll
<1> QED
  BY <1>1, <1>2, <1>3, <1>4

LEMMA WalksWorld ==
    ASSUME Typed, Walks
    PROVE  UNCHANGED worldVars /\ slots \subseteq slots' /\ Normal' = Normal
<1> USE DEF slotVars, revokeVars, historyVars
<1>1. CASE Bump
  BY <1>1, BumpsLatchUntouched DEF Bump, worldVars, Typed
<1>2. CASE Walks /\ ~Bump
  BY <1>2 DEF Walks, Admit, Inspect, Sequence, Freshen, Recheck, Renewed,
     Expire, worldVars, Normal
<1> QED
  BY <1>1, <1>2

(* How mu's holder goes on. *)
LEMMA WalksOn ==
    ASSUME Typed, Walks
    PROVE  /\ op.pc \in {"admit", "inspect", "bump", "sequence", "freshen",
                         "recheck", "renewed", "expire"}
           /\ op'.pc \in {"idle", "inspect", "preempt", "bump", "renew", "drop",
                          "flush", "freshen", "publish", "undo"}
           /\ op'.dropped = op.dropped \/ op'.dropped = {}
           /\ op'.by = op.by \/ op'.by = "caller"
           /\ op'.pc = "undo" =>
                 op.pc = "recheck" /\ op'.res = op.res /\ op'.epoch = op.epoch
           /\ Publishing' => /\ op'.res = op.res
                             /\ Publishing \/ (op.pc = "sequence" /\ MayPublish)
           /\ Past' => /\ op'.res = op.res
                       /\ Past \/ (life = "running" /\ op.res \in slots')
           /\ Issuing' => /\ op'.res = op.res
                          /\ \/ op.pc = "bump" /\ Normal /\ op'.pc = "flush"
                             \/ op.pc = "sequence" /\ op'.pc = "freshen"
                             \/ op.pc = "freshen" /\ op'.pc = "publish"
<1> USE DEF Typed, OpTyped, OpType, OpPc
<1>1. CASE op' = NoOp
  BY <1>1 DEF NoOp, Walks, Admit, Inspect, Bump, Sequence, Freshen, Recheck,
     Renewed, Expire, Publishing, Past, Issuing
<1>2. CASE Admit /\ op' # NoOp
  <2>1. op' = [op EXCEPT !.pc = "inspect", !.now = clock]
        /\ life = "running" /\ slots' = slots \cup {op.res} /\ op.pc = "admit"
    BY <1>2 DEF Admit
  <2> QED
    BY <2>1 DEF Publishing, Past, Issuing
<1>3. CASE Inspect /\ op' # NoOp
  <2> DEFINE v == Verdict(cur[op.res], op.q, op.now)
  <2>1. v \in {"bump", "drop", "renew", "preempt", "refuse"}
    BY VerdictTyped
  <2>2. v # "refuse" /\ op.pc = "inspect"
        /\ op' = [op EXCEPT !.pc = v, !.old = cur[op.res], !.next = "bump"]
    BY <1>3 DEF Inspect
  <2> HIDE DEF v
  <2>3. op'.pc = v /\ op'.next = "bump" /\ op'.dropped = op.dropped
        /\ op'.by = op.by /\ op'.res = op.res
    BY <2>2
  <2> QED
    BY <2>1, <2>2, <2>3 DEF Publishing, Past, Issuing
<1>4. CASE Bump /\ op' # NoOp
  <2>1. Normal /\ op.pc = "bump"
        /\ op' = [op EXCEPT !.pc = "flush", !.next = "sequence",
                            !.epoch = gate'.epoch]
    BY <1>4 DEF Bump
  <2> QED
    BY <2>1 DEF Publishing, Past, Issuing
<1>5. CASE Sequence /\ op' # NoOp
  <2>1. op.pc = "sequence" /\ MayPublish
        /\ op' = [op EXCEPT !.pc = "freshen", !.seq = revokeSeq]
    BY <1>5 DEF Sequence
  <2> QED
    BY <2>1 DEF Publishing, Past, Issuing
<1>6. CASE Freshen
  <2>1. op.pc = "freshen" /\ op' = [op EXCEPT !.pc = "publish"]
    BY <1>6 DEF Freshen, Go
  <2> QED
    BY <2>1 DEF Publishing, Past, Issuing
<1>7. CASE Recheck /\ op' # NoOp
  <2>1. op.pc = "recheck" /\ op' = [op EXCEPT !.pc = "undo"]
    BY <1>7 DEF Recheck
  <2> QED
    BY <2>1 DEF Publishing, Past, Issuing
<1>8. CASE Expire /\ op' # NoOp
  <2>1. op.pc = "expire" /\ op' = [op EXCEPT !.pc = "drop"]
    BY <1>8 DEF Expire, Go
  <2> QED
    BY <2>1 DEF Publishing, Past, Issuing
<1>9. CASE Renewed
  BY <1>1, <1>9 DEF Renewed
<1> QED
  BY <1>1, <1>2, <1>3, <1>4, <1>5, <1>6, <1>7, <1>8, <1>9 DEF Walks
----------------------------------------------------------------------------
(* Every step is one that leaves the ends alone, or one of these. *)
LEMMA StepKinds ==
    ASSUME [Next]_controlAll
    PROVE  \/ Begins \/ Walks \/ Aside
           \/ Flush \/ Preempt \/ Publish \/ Undo \/ Renew \/ Drop
           \/ \E r \in Resource : Sweep(r)
           \/ Settle
           \/ \E r \in Resource : DrainSlot(r)
           \/ DrainTell \/ DrainCount \/ DrainEnd \/ LaneDrain
           \/ CloseStop \/ StopLock
           \/ RevokeEnter \/ RevokeFloor
           \/ \E r \in Resource : RevokeSwap(r)
           \/ RevokeCount \/ RevokePark \/ RevokeReturn
           \/ SafetyTrips \/ SafetyRevokes
BY DEF Next, NextButRearm, ControlStep, RevokeWork, Begins, Walks, Aside

LEMMA EndInit == Init => EndInv
<1> SUFFICES ASSUME Init PROVE EndInv
  OBVIOUS
<1> USE DEF Init, LatchInit, GateInit, ControlInit, NoOp, NoRev, NoDrain
<1>1. HandShapes /\ Answered
  BY DEF HandShapes, Answered, LatchRevoked
<1>2. Ends
  BY DEF Ends, Takes, Known, Owned
<1>3. Room /\ Slotted
  BY DEF Room, Occupied, Publishing, Sweeps, Slotted, Past
<1>4. ParkedAt = {}
  BY DEF ParkedAt
<1>5. Counted
  BY <1>4, FS_EmptySet DEF Counted
<1>6. Cleared
  BY DEF Cleared, Occupied, Publishing, Owes, Issuing
<1>7. Stopping
  BY DEF Stopping, Past
<1> QED
  BY <1>1, <1>2, <1>3, <1>5, <1>6, <1>7 DEF EndInv

----------------------------------------------------------------------------
(* The hands of RevokeAll and of the drain. *)
LEMMA Parity ==
    ASSUME NEW n \in Nat
    PROVE  /\ n % 2 = 0 => (n + 1) % 2 = 1
           /\ n % 2 = 1 => (n + 1) % 2 = 0
OBVIOUS

LEMMA HandStep ==
    ASSUME Typed, HandShapes, [Next]_controlAll PROVE HandShapes'
<1> USE DEF slotVars, revokeVars, historyVars
<1>1. CASE Begins
  <2>1. UNCHANGED <<rev, revokeSeq, drain>> /\ op'.pc # "draining"
    BY <1>1, BeginsFresh DEF worldVars
  <2> QED
    BY <2>1 DEF HandShapes
<1>2. CASE Walks
  <2>1. UNCHANGED <<rev, revokeSeq, drain>> /\ op'.pc # "draining"
    BY <1>2, WalksWorld, WalksOn DEF worldVars
  <2> QED
    BY <2>1 DEF HandShapes
<1>3. CASE Aside
  <2>1. UNCHANGED <<rev, revokeSeq, drain, op>>
    BY <1>3, AsideStill DEF worldVars
  <2> QED
    BY <2>1 DEF HandShapes
<1>4. CASE \/ Preempt \/ Publish \/ Undo \/ Renew \/ Drop
           \/ \E r \in Resource : Sweep(r)
           \/ Settle \/ StopLock
  <2>1. UNCHANGED <<rev, revokeSeq, drain>>
    BY <1>4 DEF Preempt, Publish, Undo, Renew, Drop, Sweep, Settle, StopLock
  <2>2. op'.pc # "draining"
    <3> USE DEF Typed, OpTyped, OpType
    <3>1. CASE Preempt \/ Publish \/ Undo
      BY <3>1, NoOpIdle DEF Preempt, Publish, Undo, Go
    <3>2. CASE Renew
      BY <3>2, NoOpIdle DEF Renew, Go
    <3>3. CASE Drop
      BY <3>3 DEF Drop, Take, Go
    <3>4. CASE \E r \in Resource : Sweep(r)
      BY <3>4 DEF Sweep, Take
    <3>5. CASE Settle
      BY <3>5, NoOpIdle DEF Settle
    <3>6. CASE StopLock
      BY <3>6 DEF StopLock, NoOp
    <3> HIDE DEF Typed, OpTyped, OpType
    <3> QED
      BY <1>4, <3>1, <3>2, <3>3, <3>4, <3>5, <3>6
  <2> QED
    BY <2>1, <2>2 DEF HandShapes
<1>5. CASE Flush
  <2>1. CASE op' = [op EXCEPT !.pc = op.next] /\ UNCHANGED drain
    <3>1. op'.pc # "draining"
      BY <2>1 DEF Typed, OpTyped, OpType
    <3> QED
      BY <1>5, <2>1, <3>1 DEF Flush, HandShapes
  <2>2. CASE drain' = [NoDrain EXCEPT !.by = "op", !.todo = slots]
    BY <1>5, <2>2 DEF Flush, HandShapes, NoDrain
  <2> QED
    BY <1>5, <2>1, <2>2 DEF Flush
<1>6. CASE \/ \E r \in Resource : DrainSlot(r)
           \/ DrainTell \/ DrainCount \/ LaneDrain
  <2>1. UNCHANGED <<rev, revokeSeq, op>>
    BY <1>6 DEF DrainSlot, DrainTell, DrainCount, LaneDrain
  <2>2. /\ drain'.lease # None <=> drain'.pc = "tell"
        /\ drain'.pc # "scan" => drain'.by # "none"
        /\ drain.by = "op" => drain'.by = "op"
    BY <1>6 DEF DrainSlot, DrainTell, DrainCount, LaneDrain, NoDrain,
       HandShapes, Typed, LaneTyped, DrainType
  <2> QED
    BY <2>1, <2>2 DEF HandShapes
<1>7. CASE DrainEnd
  <2>1. drain' = NoDrain /\ UNCHANGED <<rev, revokeSeq>>
    BY <1>7 DEF DrainEnd
  <2>2. op'.pc # "draining"
    BY <1>7 DEF DrainEnd, DrainDone, HandShapes, Typed, OpTyped, OpType
  <2> QED
    BY <2>1, <2>2 DEF HandShapes, NoDrain
<1>8. CASE CloseStop \/ SafetyTrips
  <2>1. UNCHANGED <<rev, revokeSeq, drain, op>>
    BY <1>8 DEF CloseStop, SafetyTrips
  <2> QED
    BY <2>1 DEF HandShapes
<1>9. CASE SafetyRevokes \/ RevokeFloor \/ RevokeCount \/ RevokePark
  <2>1. UNCHANGED <<revokeSeq, drain, op>>
    BY <1>9 DEF SafetyRevokes, RevokeAll, RevokeFloor, RevokeCount, RevokePark
  <2>2. /\ rev'.lease # None <=> rev'.pc \in {"count", "park"}
        /\ rev'.lease # None => rev'.res \in Resource
        /\ rev.pc \in {"idle", "enter"} <=> rev'.pc \in {"idle", "enter"}
    BY <1>9 DEF SafetyRevokes, RevokeAll, RevokeFloor, RevokeCount, RevokePark,
       NoRev, HandShapes, Typed, RevTyped, RevType
  <2> QED
    BY <2>1, <2>2 DEF HandShapes
<1>10. CASE \E r \in Resource : RevokeSwap(r)
  <2>1. UNCHANGED <<revokeSeq, drain, op>>
    BY <1>10 DEF RevokeSwap
  <2>2. /\ rev'.lease # None <=> rev'.pc \in {"count", "park"}
        /\ rev'.lease # None => rev'.res \in Resource
        /\ rev.pc \notin {"idle", "enter"} /\ rev'.pc \notin {"idle", "enter"}
    BY <1>10 DEF RevokeSwap, HandShapes, Typed, RevTyped, RevType
  <2> QED
    BY <2>1, <2>2 DEF HandShapes
<1>11. CASE RevokeEnter \/ RevokeReturn
  <2>1. UNCHANGED <<drain, op>> /\ revokeSeq' = revokeSeq + 1
    BY <1>11 DEF RevokeEnter, RevokeReturn
  <2>2. revokeSeq \in Nat
    BY DEF Typed, SlotsTyped
  <2>3. /\ revokeSeq % 2 = 0 => revokeSeq' % 2 = 1
        /\ revokeSeq % 2 = 1 => revokeSeq' % 2 = 0
    BY <2>1, <2>2, Parity
  <2>4. rev'.lease = None /\ rev'.pc \notin {"count", "park"}
    BY <1>11 DEF RevokeEnter, RevokeReturn, NoRev, HandShapes, Typed, RevTyped,
       RevType
  <2>5. rev.pc \in {"idle", "enter"} <=> ~(rev'.pc \in {"idle", "enter"})
    BY <1>11 DEF RevokeEnter, RevokeReturn, NoRev, Typed, RevTyped, RevType
  <2>6. revokeSeq' % 2 = IF rev'.pc \in {"idle", "enter"} THEN 0 ELSE 1
    <3>1. revokeSeq % 2 = IF rev.pc \in {"idle", "enter"} THEN 0 ELSE 1
      BY DEF HandShapes
    <3>2. CASE rev.pc \in {"idle", "enter"}
      <4>1. revokeSeq' % 2 = 1
        BY <2>3, <3>1, <3>2
      <4> QED
        BY <2>5, <3>2, <4>1
    <3>3. CASE rev.pc \notin {"idle", "enter"}
      <4>1. revokeSeq' % 2 = 0
        BY <2>3, <3>1, <3>3
      <4> QED
        BY <2>5, <3>3, <4>1
    <3> QED
      BY <3>2, <3>3
  <2> QED
    BY <2>1, <2>4, <2>6 DEF HandShapes
<1> QED
  BY <1>1, <1>2, <1>3, <1>4, <1>5, <1>6, <1>7, <1>8, <1>9, <1>10, <1>11,
     StepKinds

LEMMA AnsweredStep ==
    ASSUME Typed, HandShapes, Answered, [Next]_controlAll PROVE Answered'
<1> USE DEF slotVars, revokeVars, historyVars
<1>1. ASSUME UNCHANGED <<rev, late, latchEpoch, awaiting>>,
             Normal' => Normal \/ LatchRevoked
      PROVE  Answered'
  BY <1>1 DEF Answered, LatchRevoked
<1>2. CASE Begins \/ Walks \/ Aside
  <2>1. UNCHANGED <<rev, late, latchEpoch, awaiting>>
        /\ (Normal' => Normal \/ LatchRevoked)
    BY <1>2, BeginsFresh, WalksWorld, AsideStill DEF worldVars, Normal
  <2> QED
    BY <1>1, <2>1
<1>3. CASE \/ Flush \/ Preempt \/ Publish \/ Undo \/ Renew \/ Drop
           \/ \E r \in Resource : Sweep(r)
           \/ \E r \in Resource : DrainSlot(r)
           \/ DrainTell \/ DrainCount \/ DrainEnd \/ LaneDrain
           \/ CloseStop \/ StopLock
  <2>1. UNCHANGED <<gate, rev, late, latchEpoch, awaiting>>
    BY <1>3 DEF Flush, Preempt, Publish, Undo, Renew, Drop, Sweep, DrainSlot,
       DrainTell, DrainCount, DrainEnd, LaneDrain, CloseStop, StopLock
  <2> QED
    BY <1>1, <2>1 DEF Normal
<1>4. CASE Settle
  <2>1. UNCHANGED <<rev, late, latchEpoch, awaiting>> /\ Normal' = Normal
    BY <1>4, BumpsLatchUntouched DEF Settle, Typed
  <2> QED
    BY <1>1, <2>1
<1>5. CASE RevokeEnter \/ RevokeFloor \/ RevokeCount \/ RevokePark
           \/ SafetyRevokes
  <2>1. UNCHANGED <<gate, late, latchEpoch, awaiting>>
    BY <1>5 DEF RevokeEnter, RevokeFloor, RevokeCount, RevokePark,
       SafetyRevokes, RevokeAll
  <2>2. rev'.lease = None \/ rev'.lease = rev.lease
    BY <1>5 DEF RevokeEnter, RevokeFloor, RevokeCount, RevokePark,
       SafetyRevokes, RevokeAll, NoRev, Typed, RevTyped, RevType
  <2> QED
    BY <2>1, <2>2 DEF Answered, LatchRevoked, Normal
<1>6. ASSUME NEW r \in Resource, RevokeSwap(r) PROVE Answered'
  <2>1. UNCHANGED <<gate, latchEpoch, awaiting>> /\ rev'.lease = cur[r]
    BY <1>6 DEF RevokeSwap, Typed, RevTyped, RevType
  <2>2. rev'.lease # None /\ LatchRevoked => rev'.lease.epoch \in late'
    BY <1>6, <2>1 DEF RevokeSwap
  <2> QED
    BY <2>1, <2>2 DEF Answered, LatchRevoked, Normal
<1>7. CASE RevokeReturn
  BY <1>7 DEF RevokeReturn, LatchServed, NoRev, Answered, LatchRevoked, Normal
<1>8. CASE SafetyTrips
  <2>1. ~Normal' /\ UNCHANGED <<rev, late>>
    BY <1>8 DEF SafetyTrips, LatchTrip, TripGate, Normal
  <2>2. CASE Normal
    <3>1. gate' # gate
      BY <2>1, <2>2 DEF Normal
    <3>2. latchEpoch' \in awaiting'
      BY <1>8, <2>2, <3>1 DEF SafetyTrips, LatchTrip
    <3> QED
      BY <2>1, <3>2 DEF Answered, LatchRevoked
  <2>3. CASE ~Normal
    <3>1. latchEpoch' = latchEpoch /\ awaiting \subseteq awaiting'
      BY <1>8, <2>3 DEF SafetyTrips, LatchTrip
    <3> QED
      BY <2>1, <3>1 DEF Answered, LatchRevoked
  <2> QED
    BY <2>2, <2>3
<1> QED
  BY <1>2, <1>3, <1>4, <1>5, <1>6, <1>7, <1>8, StepKinds
----------------------------------------------------------------------------
(* An end goes from place to place. *)
LEMMA OneName ==
    ASSUME Known, NEW p \in published, NEW r, NEW e,
           <<r, e>> \in published, p[2] = e
    PROVE  p = <<r, e>> /\ p[1] = r
<1>1. p = <<r, e>>
  BY DEF Known
<1> QED
  BY <1>1

LEMMA EndsFrame ==
    ASSUME Ends, UNCHANGED <<cur, parked, published, told>>,
           rev'.lease = rev.lease, rev.lease # None => rev'.res = rev.res,
           drain'.lease = drain.lease, op'.dropped = op.dropped,
           op'.dropped # {} => op'.pc \in {"settle", "sweep"},
           op'.pc \in {"recheck", "undo"} =>
              /\ op.pc \in {"recheck", "undo"}
              /\ op'.res = op.res /\ op'.epoch = op.epoch
    PROVE  Ends'
<1>1. Takes'
  BY DEF Ends, Takes
<1>2. Known'
  BY DEF Ends, Known
<1>3. Owned'
  BY DEF Ends, Owned, OnePlace, KeptOnce, Kept, InSlot, InParking, InSafety,
     InDrain, InOp
<1> QED
  BY <1>1, <1>2, <1>3 DEF Ends

(* RevokeAll changes hands in its swap and when it parks. *)
LEMMA RevHolds ==
    ASSUME Typed, HandShapes,
           \/ RevokeEnter \/ RevokeFloor \/ RevokeCount \/ RevokeReturn
           \/ SafetyRevokes \/ rev' = rev
    PROVE  /\ rev'.lease = rev.lease
           /\ rev.lease # None => rev'.res = rev.res
<1>1. CASE RevokeCount
  BY <1>1 DEF RevokeCount, Typed, RevTyped, RevType
<1>2. CASE RevokeEnter \/ RevokeFloor
  BY <1>2 DEF RevokeEnter, RevokeFloor, Typed, RevTyped, RevType
<1>3. CASE RevokeReturn \/ SafetyRevokes
  <2>1. rev.lease = None
    BY <1>3 DEF RevokeReturn, SafetyRevokes, RevokeAll, HandShapes
  <2>2. NoRev.lease = None
    BY DEF NoRev
  <2>3. rev'.lease = NoRev.lease
    <3>1. CASE RevokeReturn
      BY <3>1 DEF RevokeReturn
    <3>2. CASE SafetyRevokes
      <4>1. PICK n \in awaiting : rev' = [NoRev EXCEPT !.pc = "enter", !.epoch = n]
        BY <3>2 DEF SafetyRevokes, RevokeAll
      <4> QED
        BY <4>1 DEF NoRev
    <3> QED
      BY <1>3, <3>1, <3>2
  <2> QED
    BY <2>1, <2>2, <2>3
<1> QED
  BY <1>1, <1>2, <1>3

(* The steps that move no end. *)
LEMMA EndsRest ==
    ASSUME Typed, DrainerHolds, HandShapes, Ends,
           \/ Begins \/ Walks \/ Aside \/ Flush
           \/ DrainCount \/ DrainEnd \/ LaneDrain \/ CloseStop \/ StopLock
           \/ RevokeEnter \/ RevokeFloor \/ RevokeCount \/ RevokeReturn
           \/ SafetyTrips \/ SafetyRevokes
    PROVE  Ends'
<1> USE DEF slotVars, revokeVars, historyVars
<1>1. CASE Begins
  <2>1. /\ UNCHANGED <<cur, parked, published, told, rev, drain>>
        /\ op'.dropped = op.dropped /\ op'.dropped = {}
        /\ op'.pc \notin {"recheck", "undo"}
    BY <1>1, BeginsFresh DEF worldVars, NoOp
  <2> QED
    BY <2>1, EndsFrame
<1>2. CASE Walks
  <2>1. UNCHANGED <<cur, parked, published, told, rev, drain>>
    BY <1>2, WalksWorld DEF worldVars
  <2>2. op'.dropped = op.dropped /\ op'.dropped = {}
    BY <1>2, WalksOn DEF Ends, Takes
  <2>3. op'.pc \in {"recheck", "undo"} =>
           op.pc = "recheck" /\ op'.res = op.res /\ op'.epoch = op.epoch
    BY <1>2, WalksOn
  <2> QED
    BY <2>1, <2>2, <2>3, EndsFrame
<1>3. CASE Aside
  <2>1. UNCHANGED <<cur, parked, published, told, rev, drain, op>>
    BY <1>3, AsideStill DEF worldVars
  <2> QED
    BY <2>1, EndsFrame DEF Ends, Takes
<1>4. CASE Flush
  <2>1. UNCHANGED <<cur, parked, published, told, rev>> /\ op.pc \in {"flush", "force"}
    BY <1>4 DEF Flush
  <2>2. drain'.lease = drain.lease
    BY <1>4 DEF Flush, NoDrain, HandShapes
  <2>3. op'.dropped = op.dropped /\ op'.pc \notin {"recheck", "undo"}
    BY <1>4 DEF Flush, Go, Typed, OpTyped, OpType
  <2>4. op.dropped = {}
    BY <2>1 DEF Ends, Takes
  <2> QED
    BY <2>1, <2>2, <2>3, <2>4, EndsFrame
<1>5. CASE DrainCount \/ LaneDrain
  <2>1. UNCHANGED <<cur, parked, published, told, rev, op>>
    BY <1>5 DEF DrainCount, LaneDrain
  <2>2. drain'.lease = drain.lease
    BY <1>5 DEF DrainCount, LaneDrain, NoDrain, HandShapes, Typed, LaneTyped,
       DrainType
  <2> QED
    BY <2>1, <2>2, EndsFrame DEF Ends, Takes
<1>6. CASE DrainEnd
  <2>1. UNCHANGED <<cur, parked, published, told, rev>>
    BY <1>6 DEF DrainEnd
  <2>2. drain'.lease = drain.lease
    BY <1>6 DEF DrainEnd, NoDrain, HandShapes
  <2>3. op' = op \/ (op.pc = "draining" /\ op' = [op EXCEPT !.pc = op.next])
    BY <1>6 DEF DrainEnd, DrainDone, DrainerHolds
  <2>4. CASE op' = op
    BY <2>1, <2>2, <2>4, EndsFrame DEF Ends, Takes
  <2>5. CASE op.pc = "draining" /\ op' = [op EXCEPT !.pc = op.next]
    <3>1. op'.dropped = op.dropped /\ op'.pc \notin {"recheck", "undo"}
      BY <2>5 DEF Typed, OpTyped, OpType
    <3>2. op.dropped = {}
      BY <2>5 DEF Ends, Takes
    <3> QED
      BY <2>1, <2>2, <3>1, <3>2, EndsFrame
  <2> QED
    BY <2>3, <2>4, <2>5
<1>7. CASE StopLock
  <2>1. /\ UNCHANGED <<cur, parked, published, told, rev, drain>>
        /\ op'.dropped = op.dropped /\ op'.dropped = {}
        /\ op'.pc \notin {"recheck", "undo"}
    BY <1>7 DEF StopLock, NoOp
  <2> QED
    BY <2>1, EndsFrame
<1>8. CASE CloseStop \/ SafetyTrips
  <2>1. UNCHANGED <<cur, parked, published, told, rev, drain, op>>
    BY <1>8 DEF CloseStop, SafetyTrips
  <2> QED
    BY <2>1, EndsFrame DEF Ends, Takes
<1>9. CASE \/ RevokeEnter \/ RevokeFloor \/ RevokeCount \/ RevokeReturn
           \/ SafetyRevokes
  <2>1. UNCHANGED <<cur, parked, published, told, drain, op>>
    BY <1>9 DEF RevokeEnter, RevokeFloor, RevokeCount, RevokeReturn,
       SafetyRevokes, RevokeAll
  <2>2. rev'.lease = rev.lease /\ (rev.lease # None => rev'.res = rev.res)
    BY <1>9, RevHolds
  <2> QED
    BY <2>1, <2>2, EndsFrame DEF Ends, Takes
<1> QED
  BY <1>1, <1>2, <1>3, <1>4, <1>5, <1>6, <1>7, <1>8, <1>9

(* Preempt and Undo: told on the spot. *)
LEMMA SlotToTold ==
    ASSUME Typed, Ends, NEW r \in Resource, cur[r] # None,
           cur' = [cur EXCEPT ![r] = None],
           told' = told \cup {cur[r].epoch},
           UNCHANGED <<parked, published, rev, drain>>,
           op'.dropped = {}, op.dropped = {},
           op'.pc \notin {"recheck", "undo"}
    PROVE  Ends'
<1> DEFINE e == cur[r].epoch
<1>1. <<r, e>> \in published
  BY DEF Ends, Known
<1>2. \A s \in Resource : cur'[s] = IF s = r THEN None ELSE cur[s]
  BY DEF Typed, SlotsTyped
<1>3. Takes'
  BY DEF Takes
<1>4. Known'
  BY <1>1, <1>2 DEF Ends, Known
<1>5. ASSUME NEW p \in published PROVE OnePlace(p)'
  <2>1. p[1] \in Resource /\ OnePlace(p)
    BY DEF Typed, SlotsTyped, Ends, Owned
  <2>2. CASE p[2] = e
    <3>1. p[1] = r
      BY <1>1, <2>2, OneName DEF Ends
    <3> QED
      BY <1>2, <2>1, <2>2, <3>1 DEF OnePlace, KeptOnce, Kept, InSlot,
         InParking, InSafety, InDrain, InOp
  <2>3. CASE p[2] # e
    <3>1. InSlot(p)' <=> InSlot(p)
      BY <1>2, <2>1, <2>3 DEF InSlot
    <3>2. p[2] \in told' <=> p[2] \in told
      BY <2>3
    <3> QED
      BY <2>1, <3>1, <3>2 DEF OnePlace, KeptOnce, Kept,
         InParking, InSafety, InDrain, InOp
  <2> QED
    BY <2>2, <2>3
<1> QED
  BY <1>3, <1>4, <1>5 DEF Ends, Owned

(* dropLocked, dropMatchingLocked: out of the slot, to be told in Settle. *)
LEMMA SlotToOp ==
    ASSUME Typed, Ends, NEW r \in Resource, cur[r] # None, Take(r),
           UNCHANGED <<parked, published, told, rev, drain>>,
           op'.pc \in {"settle", "sweep"}
    PROVE  Ends'
<1> DEFINE e == cur[r].epoch
<1>1. <<r, e>> \in published
  BY DEF Ends, Known
<1>2. \A s \in Resource : cur'[s] = IF s = r THEN None ELSE cur[s]
  BY DEF Take, Typed, SlotsTyped
<1>3. op'.dropped = op.dropped \cup {<<r, e>>}
  BY DEF Take, Typed, OpTyped, OpType
<1>4. Takes'
  <2>1. ASSUME NEW d \in op'.dropped PROVE cur'[d[1]] = None
    <3>1. d[1] \in Resource
      BY <1>3 DEF Typed, OpTyped, OpType
    <3> QED
      BY <1>2, <1>3, <3>1 DEF Ends, Takes
  <2> QED
    BY <2>1 DEF Takes
<1>5. Known'
  BY <1>1, <1>2, <1>3 DEF Ends, Known
<1>6. ASSUME NEW p \in published PROVE OnePlace(p)'
  <2>1. p[1] \in Resource /\ OnePlace(p)
    BY DEF Typed, SlotsTyped, Ends, Owned
  <2>2. CASE p[2] = e
    <3>1. p[1] = r /\ p = <<r, e>>
      BY <1>1, <2>2, OneName DEF Ends
    <3>2. InSlot(p) /\ ~InSlot(p)' /\ InOp(p)'
      BY <1>2, <1>3, <2>2, <3>1 DEF InSlot, InOp
    <3> QED
      BY <2>1, <3>2 DEF OnePlace, KeptOnce, Kept, InParking, InSafety, InDrain
  <2>3. CASE p[2] # e
    <3>1. InSlot(p)' <=> InSlot(p)
      BY <1>2, <2>1, <2>3 DEF InSlot
    <3>2. InOp(p)' <=> InOp(p)
      BY <1>3, <2>3 DEF InOp
    <3> QED
      BY <2>1, <3>1, <3>2 DEF OnePlace, KeptOnce, Kept,
         InParking, InSafety, InDrain
  <2> QED
    BY <2>2, <2>3
<1> QED
  BY <1>4, <1>5, <1>6 DEF Ends, Owned

(* Settle: all that was taken is told. *)
LEMMA OpToTold ==
    ASSUME Typed, Ends, told' = told \cup {d[2] : d \in op.dropped},
           op'.dropped = {}, op'.pc \notin {"recheck", "undo"},
           UNCHANGED <<cur, parked, published, rev, drain>>
    PROVE  Ends'
<1>1. op.dropped \subseteq published
  BY DEF Ends, Known
<1>2. Takes'
  BY DEF Takes
<1>3. Known'
  <2>1. ASSUME NEW e \in told' PROVE \E p \in published : p[2] = e
    BY <1>1, <2>1 DEF Ends, Known
  <2> QED
    BY <2>1 DEF Ends, Known
<1>4. ASSUME NEW p \in published PROVE OnePlace(p)'
  <2>1. OnePlace(p)
    BY DEF Ends, Owned
  <2>2. p[2] \in told' <=> p[2] \in told \/ InOp(p)
    <3>1. ASSUME NEW d \in op.dropped, d[2] = p[2] PROVE d = p
      BY <1>1, <3>1 DEF Ends, Known
    <3> QED
      BY <3>1 DEF InOp
  <2>3. ~InOp(p)'
    BY DEF InOp
  <2> QED
    BY <2>1, <2>2, <2>3 DEF OnePlace, KeptOnce, Kept, InSlot, InParking,
       InSafety, InDrain
<1> QED
  BY <1>2, <1>3, <1>4 DEF Ends, Owned

(* RevokeSwap. *)
LEMMA SlotToSafety ==
    ASSUME Typed, HandShapes, Ends, NEW r \in Resource, RevokeSwap(r)
    PROVE  Ends'
<1> USE DEF slotVars, revokeVars, historyVars
<1>1. UNCHANGED <<parked, published, told, op, drain>> /\ rev.lease = None
  BY DEF RevokeSwap, HandShapes
<1>2. \A s \in Resource : cur'[s] = IF s = r THEN None ELSE cur[s]
  BY DEF RevokeSwap, Typed, SlotsTyped
<1>3. rev'.lease = cur[r] /\ rev'.res = r
  BY DEF RevokeSwap, Typed, RevTyped, RevType
<1>4. cur[r] # None => <<r, cur[r].epoch>> \in published
  BY DEF Ends, Known
<1>5. Takes'
  <2>1. ASSUME NEW d \in op.dropped PROVE cur'[d[1]] = None
    <3>1. d[1] \in Resource
      BY DEF Typed, OpTyped, OpType
    <3> QED
      BY <1>2, <3>1 DEF Ends, Takes
  <2>2. op.pc \in {"recheck", "undo"} => op.res \in Resource
    BY DEF Typed, OpTyped, OpSense, Acquiring
  <2> QED
    BY <1>1, <1>2, <2>1, <2>2 DEF Ends, Takes
<1>6. Known'
  BY <1>1, <1>2, <1>3, <1>4 DEF Ends, Known
<1>7. ASSUME NEW p \in published PROVE OnePlace(p)'
  <2>1. p[1] \in Resource /\ OnePlace(p) /\ ~InSafety(p)
    BY <1>1 DEF Typed, SlotsTyped, Ends, Owned, InSafety
  <2>2. CASE cur[r] # None /\ p[2] = cur[r].epoch
    <3>1. p[1] = r
      BY <1>4, <2>2, OneName DEF Ends
    <3>2. InSlot(p) /\ ~InSlot(p)' /\ InSafety(p)'
      BY <1>2, <1>3, <2>2, <3>1 DEF InSlot, InSafety
    <3> QED
      BY <1>1, <2>1, <3>2 DEF OnePlace, KeptOnce, Kept, InParking, InDrain, InOp
  <2>3. CASE ~(cur[r] # None /\ p[2] = cur[r].epoch)
    <3>1. InSlot(p)' <=> InSlot(p)
      BY <1>2, <2>1, <2>3 DEF InSlot
    <3>2. ~InSafety(p)'
      BY <1>3, <2>3 DEF InSafety
    <3> QED
      BY <1>1, <2>1, <3>1, <3>2 DEF OnePlace, KeptOnce, Kept, InParking,
         InDrain, InOp
  <2> QED
    BY <2>2, <2>3
<1> QED
  BY <1>1, <1>5, <1>6, <1>7 DEF Ends, Owned

(* RevokePark, into a free parking place. *)
LEMMA SafetyToParking ==
    ASSUME Typed, HandShapes, Room, Ends, RevokePark
    PROVE  Ends'
<1> USE DEF slotVars, revokeVars, historyVars
<1> DEFINE r == rev.res
           l == rev.lease
<1>1. l # None /\ r \in Resource /\ parked[r] = None
  BY DEF RevokePark, HandShapes, Room, Sweeps
<1>2. UNCHANGED <<cur, published, told, op, drain>>
  BY DEF RevokePark
<1>3. \A s \in Resource : parked'[s] = IF s = r THEN l ELSE parked[s]
  BY <1>1 DEF RevokePark, Typed, SlotsTyped
<1>4. rev'.lease = None
  BY DEF RevokePark, Typed, RevTyped, RevType
<1>5. <<r, l.epoch>> \in published
  BY <1>1 DEF Ends, Known
<1> HIDE DEF r, l
<1>6. Takes'
  BY <1>2 DEF Ends, Takes
<1>7. Known'
  BY <1>2, <1>3, <1>4, <1>5 DEF Ends, Known
<1>8. ASSUME NEW p \in published PROVE OnePlace(p)'
  <2>1. p[1] \in Resource /\ OnePlace(p)
    BY DEF Typed, SlotsTyped, Ends, Owned
  <2>2. ~InSafety(p)' /\ (InSafety(p) <=> p[2] = l.epoch)
    BY <1>1, <1>4 DEF InSafety, l
  <2>3. CASE p[2] = l.epoch
    <3>1. p[1] = r
      BY <1>5, <2>3, OneName DEF Ends
    <3>2. InParking(p)' /\ ~InParking(p)
      BY <1>1, <1>3, <2>3, <3>1 DEF InParking
    <3> QED
      BY <1>2, <2>1, <2>2, <2>3, <3>2
         DEF OnePlace, KeptOnce, Kept, InSlot, InDrain, InOp
  <2>4. CASE p[2] # l.epoch
    <3>1. InParking(p)' <=> InParking(p)
      BY <1>1, <1>3, <2>1, <2>4 DEF InParking
    <3> QED
      BY <1>2, <2>1, <2>2, <2>4, <3>1
         DEF OnePlace, KeptOnce, Kept, InSlot, InDrain, InOp
  <2> QED
    BY <2>3, <2>4
<1> QED
  BY <1>2, <1>6, <1>7, <1>8 DEF Ends, Owned

(* The drain takes what is parked, and tells it. *)
LEMMA ParkingToDrain ==
    ASSUME Typed, HandShapes, Ends, NEW r \in Resource, DrainSlot(r)
    PROVE  Ends'
<1> USE DEF slotVars, revokeVars, historyVars
<1>1. UNCHANGED <<cur, published, told, op, rev>> /\ drain.lease = None
  BY DEF DrainSlot, HandShapes
<1>2. \A s \in Resource : parked'[s] = IF s = r THEN None ELSE parked[s]
  BY DEF DrainSlot, Typed, SlotsTyped
<1>3. drain'.lease = parked[r]
  BY DEF DrainSlot, Typed, LaneTyped, DrainType
<1>4. parked[r] # None => <<r, parked[r].epoch>> \in published
  BY DEF Ends, Known
<1>5. Takes'
  BY <1>1 DEF Ends, Takes
<1>6. Known'
  BY <1>1, <1>2, <1>3, <1>4 DEF Ends, Known
<1>7. ASSUME NEW p \in published PROVE OnePlace(p)'
  <2>1. p[1] \in Resource /\ OnePlace(p) /\ ~InDrain(p)
    BY <1>1 DEF Typed, SlotsTyped, Ends, Owned, InDrain
  <2>2. CASE parked[r] # None /\ p[2] = parked[r].epoch
    <3>1. p[1] = r
      BY <1>4, <2>2, OneName DEF Ends
    <3>2. InParking(p) /\ ~InParking(p)' /\ InDrain(p)'
      BY <1>2, <1>3, <2>2, <3>1 DEF InParking, InDrain
    <3> QED
      BY <1>1, <2>1, <3>2 DEF OnePlace, KeptOnce, Kept, InSlot, InSafety, InOp
  <2>3. CASE ~(parked[r] # None /\ p[2] = parked[r].epoch)
    <3>1. InParking(p)' <=> InParking(p)
      BY <1>2, <2>1, <2>3 DEF InParking
    <3>2. ~InDrain(p)'
      BY <1>3, <2>3 DEF InDrain
    <3> QED
      BY <1>1, <2>1, <3>1, <3>2 DEF OnePlace, KeptOnce, Kept, InSlot,
         InSafety, InOp
  <2> QED
    BY <2>2, <2>3
<1> QED
  BY <1>1, <1>5, <1>6, <1>7 DEF Ends, Owned

LEMMA DrainToTold ==
    ASSUME Typed, HandShapes, Ends, DrainTell PROVE Ends'
<1> USE DEF slotVars, revokeVars, historyVars
<1> DEFINE e == drain.lease.epoch
<1>1. UNCHANGED <<cur, parked, published, op, rev>> /\ drain.lease # None
  BY DEF DrainTell, HandShapes
<1>2. told' = told \cup {e} /\ drain'.lease = None
  BY DEF DrainTell, Typed, LaneTyped, DrainType
<1>3. Takes'
  BY <1>1 DEF Ends, Takes
<1>4. Known'
  <2>1. \E p \in published : p[2] = e
    BY <1>1 DEF Ends, Known
  <2> QED
    BY <1>1, <1>2, <2>1 DEF Ends, Known
<1>5. ASSUME NEW p \in published PROVE OnePlace(p)'
  <2>1. OnePlace(p)
    BY DEF Ends, Owned
  <2>2. ~InDrain(p)' /\ (InDrain(p) <=> p[2] = e)
    BY <1>1, <1>2 DEF InDrain
  <2> QED
    BY <1>1, <1>2, <2>1, <2>2
       DEF OnePlace, KeptOnce, Kept, InSlot, InParking, InSafety, InOp
<1> QED
  BY <1>1, <1>3, <1>4, <1>5 DEF Ends, Owned

(* A renewed lease is the same lease. *)
LEMMA RenewKeeps ==
    ASSUME Typed, Ends, Renew PROVE Ends'
<1> USE DEF slotVars, revokeVars, historyVars
<1>1. /\ UNCHANGED <<parked, published, told, rev, drain>>
      /\ op.dropped = {} /\ op.res \in Resource /\ op.old \in Lease
  BY DEF Renew, Ends, Takes, Typed, OpTyped, OpSense
<1>2. op'.dropped = {} /\ op'.pc \notin {"recheck", "undo"}
  BY <1>1 DEF Renew, Go, NoOp, Typed, OpTyped, OpType
<1>3. \A r \in Resource : /\ cur'[r] = None <=> cur[r] = None
                          /\ cur[r] # None => cur'[r].epoch = cur[r].epoch
  <2>1. CASE UNCHANGED cur
    BY <2>1
  <2>2. CASE cur[op.res] = op.old
             /\ cur' = [cur EXCEPT ![op.res].deadline = op.now + op.old.ttl]
    <3> DEFINE new == [op.old EXCEPT !.deadline = op.now + op.old.ttl]
    <3>1. cur' = [cur EXCEPT ![op.res] = new]
      BY <2>2
    <3>2. op.now \in Nat /\ op.old.ttl \in Nat
      BY <1>1, PoliciesTyped DEF Typed, OpTyped, OpType, Lease
    <3>3. new \in Lease /\ new.epoch = op.old.epoch
      BY <1>1, <3>2 DEF Lease
    <3>4. new # None /\ op.old # None
      BY <1>1, <3>3
    <3> HIDE DEF new
    <3> QED
      BY <1>1, <2>2, <3>1, <3>3, <3>4 DEF Typed, SlotsTyped
  <2> QED
    BY <2>1, <2>2 DEF Renew
<1>4. Takes'
  BY <1>2 DEF Takes
<1>5. Known'
  BY <1>1, <1>2, <1>3 DEF Ends, Known
<1>6. ASSUME NEW p \in published PROVE OnePlace(p)'
  <2>1. p[1] \in Resource /\ OnePlace(p)
    BY DEF Typed, SlotsTyped, Ends, Owned
  <2>2. (InSlot(p)' <=> InSlot(p)) /\ (InOp(p)' <=> InOp(p))
    BY <1>1, <1>2, <1>3, <2>1 DEF InSlot, InOp
  <2> QED
    BY <1>1, <2>1, <2>2
       DEF OnePlace, KeptOnce, Kept, InParking, InSafety, InDrain
<1> QED
  BY <1>1, <1>4, <1>5, <1>6 DEF Ends, Owned

(* A published lease is a new one, and in its slot. *)
LEMMA PublishKeeps ==
    ASSUME Typed, RefInv, Ends, Publish PROVE Ends'
<1> USE DEF slotVars, revokeVars, historyVars
<1> DEFINE r == op.res
           e == op.epoch
<1>1. /\ UNCHANGED <<parked, told, rev, drain>> /\ Issuing
      /\ published' = published \cup {<<r, e>>}
      /\ op.dropped = {} /\ r \in Resource /\ e \in Nat
  BY DEF Publish, Issuing, Ends, Takes, Typed, OpTyped, OpSense, OpType,
     Acquiring
<1>2. op'.dropped = {} /\ op'.pc = "recheck" /\ op'.res = r /\ op'.epoch = e
  BY <1>1 DEF Publish, Go, Typed, OpTyped, OpType
<1>3. cur[r] = None /\ \A p \in published : p[2] < e
  BY <1>1 DEF RefInv, Vacant, EpochsOrdered
<1>4. NewLease \in Lease /\ NewLease.epoch = e
  BY NewLeaseTyped DEF Publish, Typed, NewLease
<1>5. \A s \in Resource : cur'[s] = IF s = r THEN NewLease ELSE cur[s]
  BY DEF Publish, Typed, SlotsTyped
<1>6. NewLease # None
  BY <1>4
<1>7. \A p \in published : p[2] \in Nat /\ p[2] # e /\ p[1] \in Resource
  BY <1>1, <1>3 DEF Typed, SlotsTyped
<1> HIDE DEF r, e
<1>8. Takes'
  BY <1>1, <1>2, <1>4, <1>5 DEF Takes
<1>9. Known'
  <2>1. \A p, q \in published' : p[2] = q[2] => p = q
    BY <1>1, <1>7 DEF Ends, Known
  <2> QED
    BY <1>1, <1>2, <1>4, <1>5, <2>1 DEF Ends, Known
<1>10. ASSUME NEW p \in published' PROVE OnePlace(p)'
  <2>1. CASE p \in published
    <3>1. OnePlace(p)
      BY <2>1 DEF Ends, Owned
    <3>2. InSlot(p)' <=> InSlot(p)
      BY <1>3, <1>4, <1>5, <1>7, <2>1 DEF InSlot
    <3>3. InOp(p)' <=> InOp(p)
      BY <1>1, <1>2 DEF InOp
    <3> QED
      BY <1>1, <3>1, <3>2, <3>3
         DEF OnePlace, KeptOnce, Kept, InParking, InSafety, InDrain
  <2>2. CASE p = <<r, e>>
    <3>1. InSlot(p)' /\ ~InOp(p)'
      BY <1>1, <1>2, <1>4, <1>5, <1>6, <2>2 DEF InSlot, InOp
    <3>2. ~InParking(p)'
      BY <1>1, <1>7, <2>2 DEF InParking, Ends, Known
    <3>3. ~InSafety(p)'
      BY <1>1, <1>7, <2>2 DEF InSafety, Ends, Known
    <3>4. ~InDrain(p)'
      BY <1>1, <1>7, <2>2 DEF InDrain, Ends, Known
    <3>5. p[2] \notin told'
      BY <1>1, <1>7, <2>2 DEF Ends, Known
    <3> QED
      BY <3>1, <3>2, <3>3, <3>4, <3>5 DEF OnePlace, KeptOnce, Kept
  <2> QED
    BY <1>1, <2>1, <2>2
<1> QED
  BY <1>8, <1>9, <1>10 DEF Ends, Owned

LEMMA EndsStep ==
    ASSUME Typed, RefInv, HandShapes, Room, Ends, [Next]_controlAll
    PROVE  Ends'
<1> USE DEF slotVars, revokeVars, historyVars
<1>1. CASE Preempt \/ Undo
  <2>1. op.dropped = {} /\ op.res \in Resource
    BY <1>1 DEF Preempt, Undo, Ends, Takes, Typed, OpTyped, OpSense, Acquiring
  <2>2. op'.dropped = {} /\ op'.pc \notin {"recheck", "undo", "settle", "sweep"}
    BY <1>1, <2>1 DEF Preempt, Undo, Go, NoOp, Typed, OpTyped, OpType
  <2>3. UNCHANGED <<parked, published, rev, drain>>
    BY <1>1 DEF Preempt, Undo
  <2>4. CASE cur' = cur /\ told' = told
    BY <2>1, <2>2, <2>3, <2>4, EndsFrame
  <2>5. CASE /\ cur[op.res] # None /\ cur' = [cur EXCEPT ![op.res] = None]
             /\ told' = told \cup {cur[op.res].epoch}
    BY <2>1, <2>2, <2>3, <2>5, SlotToTold
  <2>6. CASE Preempt
    <3>1. op.old # None
      BY <2>6 DEF Preempt, Typed, OpTyped, OpSense
    <3> QED
      BY <2>4, <2>5, <2>6, <3>1 DEF Preempt
  <2>7. CASE Undo
    <3>1. cur[op.res] # None => cur[op.res].epoch = op.epoch
      BY <2>7 DEF Undo, Ends, Takes
    <3> QED
      BY <2>4, <2>5, <2>7, <3>1 DEF Undo
  <2> QED
    BY <1>1, <2>6, <2>7
<1>2. CASE Drop
  <2>1. op.res \in Resource /\ op.old # None /\ op.dropped = {}
    BY <1>2 DEF Drop, Ends, Takes, Typed, OpTyped, OpSense
  <2>2. UNCHANGED <<parked, published, told, rev, drain>>
    BY <1>2 DEF Drop
  <2>3. CASE cur[op.res] = op.old /\ Take(op.res)
    <3>1. op'.pc = "settle"
      BY <1>2, <2>3 DEF Drop, Take, Typed, OpTyped, OpType
    <3> QED
      BY <2>1, <2>2, <2>3, <3>1, SlotToOp
  <2>4. CASE Go("settle") /\ UNCHANGED cur
    <3>1. op'.dropped = {} /\ op'.pc = "settle"
      BY <2>1, <2>4 DEF Go, Typed, OpTyped, OpType
    <3> QED
      BY <2>1, <2>2, <2>4, <3>1, EndsFrame
  <2> QED
    BY <1>2, <2>3, <2>4 DEF Drop
<1>3. ASSUME NEW r \in Resource, Sweep(r) PROVE Ends'
  <2>1. op.pc = "sweep" /\ UNCHANGED <<parked, published, told, rev, drain>>
    BY <1>3 DEF Sweep
  <2>2. CASE cur[r] # None /\ Take(r)
    <3>1. op'.pc = "sweep"
      BY <2>1, <2>2 DEF Take, Typed, OpTyped, OpType
    <3> QED
      BY <2>1, <2>2, <3>1, SlotToOp
  <2>3. CASE op' = [op EXCEPT !.todo = @ \ {r}] /\ UNCHANGED cur
    <3>1. op'.dropped = op.dropped /\ op'.pc = "sweep"
      BY <2>1, <2>3 DEF Typed, OpTyped, OpType
    <3> QED
      BY <2>1, <2>3, <3>1, EndsFrame
  <2> QED
    BY <1>3, <2>2, <2>3 DEF Sweep
<1>4. CASE Settle
  <2>1. /\ told' = told \cup {d[2] : d \in op.dropped}
        /\ UNCHANGED <<cur, parked, published, rev, drain>>
    BY <1>4 DEF Settle
  <2>2. op'.dropped = {} /\ op'.pc \notin {"recheck", "undo"}
    BY <1>4 DEF Settle, NoOp, Typed, OpTyped, OpType
  <2> QED
    BY <2>1, <2>2, OpToTold
<1> QED
  BY <1>1, <1>2, <1>3, <1>4, EndsRest, RenewKeeps, PublishKeeps, SlotToSafety,
     SafetyToParking, ParkingToDrain, DrainToTold, StepKinds DEF RefInv

----------------------------------------------------------------------------
(* Room for what is taken next, and slots for all there is. *)
LEMMA RoomFrame ==
    ASSUME Room, UNCHANGED <<cur, parked>>,
           rev'.lease = rev.lease, rev.lease # None => rev'.res = rev.res,
           Publishing' => Publishing /\ op'.res = op.res
    PROVE  Room'
BY DEF Room, Occupied, Sweeps

(* Steps after which fewer slots are occupied. *)
LEMMA RoomVacates ==
    ASSUME Room, UNCHANGED <<parked, rev>>,
           \A r \in Resource : cur'[r] # None => cur[r] # None,
           ~Publishing'
    PROVE  Room'
BY DEF Room, Occupied, Sweeps

(* What becomes of op.pc in the steps that only some thread's holder of mu *)
(* makes.                                                                  *)
LEMMA HolderPaths ==
    ASSUME Typed, DrainerHolds,
           \/ Flush \/ Preempt \/ Publish \/ Undo \/ Renew \/ Drop
           \/ (\E r \in Resource : Sweep(r)) \/ Settle \/ StopLock
    PROVE  /\ ~Publishing'
           /\ Past' => Past /\ op'.res = op.res
<1> USE DEF Typed, OpTyped, OpType, OpSense, Publishing, Past
<1>1. CASE Flush
  BY <1>1 DEF Flush, Go
<1>2. CASE Preempt \/ Publish
  BY <1>2 DEF Preempt, Publish, Go
<1>3. CASE Undo
  BY <1>3 DEF Undo, NoOp
<1>4. CASE Renew
  BY <1>4 DEF Renew, Go, NoOp
<1>5. CASE Drop
  <2>1. op.pc = "drop" /\ (Take(op.res) \/ Go("settle"))
    BY <1>5 DEF Drop
  <2>2. CASE Go("settle")
    BY <2>1, <2>2 DEF Go
  <2>3. CASE Take(op.res)
    <3>1. op'.pc = "settle" /\ op'.next = op.next /\ op'.res = op.res
      BY <2>1, <2>3 DEF Take
    <3> QED
      BY <2>1, <3>1
  <2> QED
    BY <2>1, <2>2, <2>3
<1>6. CASE \E r \in Resource : Sweep(r)
  <2>1. PICK r \in Resource :
            op.pc = "sweep" /\ (Take(r) \/ op' = [op EXCEPT !.todo = op.todo \ {r}])
    BY <1>6 DEF Sweep
  <2>2. op'.next = op.next /\ op'.res = op.res /\ op'.pc = "sweep"
    <3>1. CASE Take(r)
      BY <2>1, <3>1 DEF Take
    <3>2. CASE op' = [op EXCEPT !.todo = op.todo \ {r}]
      BY <2>1, <3>2
    <3> QED
      BY <2>1, <3>1, <3>2
  <2> QED
    BY <2>1, <2>2
<1>7. CASE Settle
  BY <1>7 DEF Settle, NoOp
<1>8. CASE StopLock
  BY <1>8 DEF StopLock, NoOp
<1> QED
  BY <1>1, <1>2, <1>3, <1>4, <1>5, <1>6, <1>7, <1>8

(* The end of a drain is a step of mu's holder if that was the one. *)
LEMMA DrainEnds ==
    ASSUME Typed, DrainerHolds, HandShapes, DrainEnd
    PROVE  /\ drain.lease = None /\ drain' = NoDrain /\ drain.todo = {}
           /\ \/ op' = op /\ op.pc # "draining"
              \/ /\ op.pc = "draining" /\ op' = [op EXCEPT !.pc = op.next]
                 /\ op.next \in {"admit", "sequence", "sweep"}
                 /\ ~Publishing'
           /\ Past' => Past /\ op'.res = op.res
<1>1. drain.lease = None /\ drain' = NoDrain /\ drain.todo = {}
  BY DEF DrainEnd, HandShapes
<1>2. \/ op' = op /\ op.pc # "draining"
      \/ op.pc = "draining" /\ op' = [op EXCEPT !.pc = op.next]
  BY DEF DrainEnd, DrainDone, DrainerHolds, HandShapes
<1>3. ASSUME op.pc = "draining", op' = [op EXCEPT !.pc = op.next]
      PROVE  /\ op.next \in {"admit", "sequence", "sweep"}
             /\ ~Publishing'
             /\ Past' => Past /\ op'.res = op.res
  BY <1>3 DEF Typed, OpTyped, OpType, OpSense, Publishing, Past
<1>4. op' = op => (Past' => Past /\ op'.res = op.res)
  BY DEF Past
<1> QED
  BY <1>1, <1>2, <1>3, <1>4

(* All that mu's holder does to a slot, but for Publish. *)
LEMMA SlotsEmpty ==
    ASSUME Typed,
           \/ Flush \/ Preempt \/ Undo \/ Renew \/ Drop
           \/ (\E r \in Resource : Sweep(r)) \/ Settle \/ StopLock
    PROVE  \A r \in Resource : cur'[r] # None => cur[r] # None
<1> USE DEF slotVars, revokeVars, historyVars
<1>1. CASE Renew
  BY <1>1 DEF Renew, Typed, OpTyped, OpSense, SlotsTyped
<1>2. CASE Drop \/ \E r \in Resource : Sweep(r)
  BY <1>2 DEF Drop, Sweep, Take, Typed, SlotsTyped
<1>3. CASE Preempt \/ Undo
  BY <1>3 DEF Preempt, Undo, Typed, SlotsTyped
<1>4. CASE Flush \/ Settle \/ StopLock
  BY <1>4 DEF Flush, Settle, StopLock
<1> QED
  BY <1>1, <1>2, <1>3, <1>4

LEMMA RoomStep ==
    ASSUME Typed, RefInv, HandShapes, Room, [Next]_controlAll
    PROVE  Room'
<1> USE DEF slotVars, revokeVars, historyVars
<1>1. CASE Begins
  <2>1. UNCHANGED <<cur, parked, rev>> /\ ~Publishing'
    BY <1>1, BeginsFresh DEF worldVars, Publishing
  <2> QED
    BY <2>1, RoomFrame
<1>2. CASE Walks
  <2>1. UNCHANGED <<cur, parked, rev>>
    BY <1>2, WalksWorld DEF worldVars
  <2>2. CASE Publishing' => Publishing /\ op'.res = op.res
    BY <2>1, <2>2, RoomFrame
  <2>3. CASE Publishing' /\ op'.res = op.res /\ MayPublish
    <3>1. parked[op.res] = None /\ ~Sweeps(op.res)
      BY <2>3 DEF MayPublish, Sweeps, HandShapes
    <3> QED
      BY <2>1, <2>3, <3>1 DEF Room, Occupied, Sweeps
  <2> QED
    BY <1>2, <2>2, <2>3, WalksOn
<1>3. CASE Aside
  <2>1. UNCHANGED <<cur, parked, rev, op>>
    BY <1>3, AsideStill DEF worldVars
  <2> QED
    BY <2>1, RoomFrame DEF Publishing
<1>4. CASE \/ Flush \/ Preempt \/ Undo \/ Renew \/ Drop
           \/ (\E r \in Resource : Sweep(r)) \/ Settle \/ StopLock
  <2>1. ~Publishing'
    BY <1>4, HolderPaths DEF RefInv
  <2>2. UNCHANGED <<parked, rev>>
    BY <1>4 DEF Flush, Preempt, Undo, Renew, Drop, Sweep, Settle, StopLock
  <2>3. \A r \in Resource : cur'[r] # None => cur[r] # None
    BY <1>4, SlotsEmpty
  <2> QED
    BY <2>1, <2>2, <2>3, RoomVacates
<1>5. CASE Publish
  <2>1. UNCHANGED <<parked, rev>> /\ ~Publishing' /\ Publishing /\ op.res \in Resource
    BY <1>5, HolderPaths DEF Publish, Publishing, RefInv, Typed, OpTyped, OpSense,
       Acquiring
  <2>2. \A r \in Resource : r # op.res => cur'[r] = cur[r]
    BY <1>5, <2>1 DEF Publish, Typed, SlotsTyped
  <2> QED
    BY <2>1, <2>2 DEF Room, Occupied, Sweeps
<1>6. ASSUME NEW r \in Resource, DrainSlot(r) PROVE Room'
  <2>1. UNCHANGED <<cur, rev, op>>
    BY <1>6 DEF DrainSlot
  <2>2. \A s \in Resource : parked'[s] = None \/ parked'[s] = parked[s]
    BY <1>6 DEF DrainSlot, Typed, SlotsTyped
  <2> QED
    BY <2>1, <2>2 DEF Room, Occupied, Sweeps, Publishing
<1>7. CASE \/ DrainTell \/ DrainCount \/ LaneDrain \/ CloseStop \/ SafetyTrips
           \/ RevokeEnter \/ RevokeFloor \/ RevokeCount \/ RevokeReturn
           \/ SafetyRevokes
  <2>1. UNCHANGED <<cur, parked, op>>
    BY <1>7 DEF DrainTell, DrainCount, LaneDrain, CloseStop, SafetyTrips,
       RevokeEnter, RevokeFloor, RevokeCount, RevokeReturn, SafetyRevokes,
       RevokeAll
  <2>2. rev'.lease = rev.lease /\ (rev.lease # None => rev'.res = rev.res)
    <3>1. \/ RevokeEnter \/ RevokeFloor \/ RevokeCount \/ RevokeReturn
          \/ SafetyRevokes \/ rev' = rev
      BY <1>7 DEF DrainTell, DrainCount, LaneDrain, CloseStop, SafetyTrips
    <3> QED
      BY <3>1, RevHolds
  <2> QED
    BY <2>1, <2>2, RoomFrame DEF Publishing
<1>8. ASSUME NEW r \in Resource, RevokeSwap(r) PROVE Room'
  <2>1. UNCHANGED <<parked, op>> /\ rev.lease = None
    BY <1>8 DEF RevokeSwap, HandShapes
  <2>2. \A s \in Resource : cur'[s] = IF s = r THEN None ELSE cur[s]
    BY <1>8 DEF RevokeSwap, Typed, SlotsTyped
  <2>3. rev'.lease = cur[r] /\ rev'.res = r
    BY <1>8 DEF RevokeSwap, Typed, RevTyped, RevType
  <2>4. ASSUME NEW s \in Resource, Occupied(s)'
        PROVE  parked'[s] = None /\ ~Sweeps(s)'
    <3>1. Occupied(s)
      BY <2>1, <2>2, <2>4 DEF Occupied, Publishing
    <3>2. CASE s = r
      <4>1. cur[r] = None
        BY <2>1, <2>2, <2>4, <3>2
           DEF Occupied, Publishing, RefInv, Vacant, Issuing
      <4> QED
        BY <2>1, <2>3, <3>1, <4>1 DEF Room, Sweeps
    <3> QED
      BY <2>1, <2>3, <3>1, <3>2 DEF Room, Sweeps
  <2>5. ASSUME NEW s \in Resource, Sweeps(s)' PROVE parked'[s] = None
    BY <2>1, <2>3, <2>5 DEF Room, Occupied, Sweeps
  <2> QED
    BY <2>4, <2>5 DEF Room
<1>9. CASE RevokePark
  <2>1. UNCHANGED <<cur, op>> /\ rev'.lease = None
    BY <1>9 DEF RevokePark, Typed, RevTyped, RevType
  <2>2. rev.lease # None /\ rev.res \in Resource
    BY <1>9 DEF RevokePark, HandShapes
  <2>3. \A s \in Resource : s # rev.res => parked'[s] = parked[s]
    BY <1>9, <2>2 DEF RevokePark, Typed, SlotsTyped
  <2>4. ASSUME NEW s \in Resource, Occupied(s)' PROVE parked'[s] = None
    <3>1. Occupied(s)
      BY <2>1, <2>4 DEF Occupied, Publishing
    <3>2. s # rev.res
      BY <2>2, <3>1 DEF Room, Sweeps
    <3> QED
      BY <2>3, <3>1, <3>2 DEF Room
  <2> QED
    BY <2>1, <2>4 DEF Room, Sweeps
<1>10. CASE DrainEnd
  <2>1. UNCHANGED <<cur, parked, rev>>
    BY <1>10 DEF DrainEnd
  <2>2. Publishing' => Publishing /\ op'.res = op.res
    BY <1>10, DrainEnds DEF RefInv, Publishing
  <2> QED
    BY <2>1, <2>2, RoomFrame
<1> QED
  BY <1>1, <1>2, <1>3, <1>4, <1>5, <1>6, <1>7, <1>8, <1>9, <1>10, StepKinds

----------------------------------------------------------------------------
LEMMA SlottedFrame ==
    ASSUME Slotted, slots \subseteq slots',
           \A r \in Resource : cur'[r] # None \/ parked'[r] # None \/ Sweeps(r)'
                 => cur[r] # None \/ parked[r] # None \/ Sweeps(r),
           Past' => Past /\ op'.res = op.res
    PROVE  Slotted'
BY DEF Slotted

LEMMA SlottedStep ==
    ASSUME Typed, DrainerHolds, HandShapes, Slotted, [Next]_controlAll
    PROVE  Slotted'
<1> USE DEF slotVars, revokeVars, historyVars
<1>1. CASE Begins
  <2>1. UNCHANGED <<cur, parked, rev, slots>> /\ ~Past'
    BY <1>1, BeginsFresh DEF worldVars, Past
  <2> QED
    BY <2>1, SlottedFrame DEF Sweeps
<1>2. CASE Walks
  <2>1. UNCHANGED <<cur, parked, rev>> /\ slots \subseteq slots'
    BY <1>2, WalksWorld DEF worldVars
  <2>2. Past' => op'.res = op.res /\ (Past \/ op.res \in slots')
    BY <1>2, WalksOn
  <2> QED
    BY <2>1, <2>2 DEF Slotted, Sweeps
<1>3. CASE Aside
  <2>1. UNCHANGED <<cur, parked, rev, slots, op>>
    BY <1>3, AsideStill DEF worldVars
  <2> QED
    BY <2>1, SlottedFrame DEF Sweeps, Past
<1>4. CASE \/ Flush \/ Preempt \/ Undo \/ Renew \/ Drop
           \/ (\E r \in Resource : Sweep(r)) \/ Settle \/ StopLock
  <2>1. Past' => Past /\ op'.res = op.res
    BY <1>4, HolderPaths
  <2>2. UNCHANGED <<parked, rev, slots>>
    BY <1>4 DEF Flush, Preempt, Undo, Renew, Drop, Sweep, Settle, StopLock
  <2>3. \A r \in Resource : cur'[r] # None => cur[r] # None
    BY <1>4, SlotsEmpty
  <2> QED
    BY <2>1, <2>2, <2>3, SlottedFrame DEF Sweeps
<1>5. CASE Publish
  <2>1. /\ Past /\ op.res \in Resource /\ (Past' => Past /\ op'.res = op.res)
        /\ UNCHANGED <<parked, rev, slots>>
    BY <1>5, HolderPaths DEF Publish, Past, Typed, OpTyped, OpSense, Acquiring
  <2>2. \A r \in Resource : r # op.res => cur'[r] = cur[r]
    BY <1>5, <2>1 DEF Publish, Typed, SlotsTyped
  <2> QED
    BY <2>1, <2>2 DEF Slotted, Sweeps
<1>6. ASSUME NEW r \in Resource, DrainSlot(r) PROVE Slotted'
  <2>1. UNCHANGED <<cur, rev, slots, op>>
    BY <1>6 DEF DrainSlot
  <2>2. \A s \in Resource : parked'[s] = None \/ parked'[s] = parked[s]
    BY <1>6 DEF DrainSlot, Typed, SlotsTyped
  <2> QED
    BY <2>1, <2>2, SlottedFrame DEF Sweeps, Past
<1>7. CASE DrainEnd
  <2>1. UNCHANGED <<cur, parked, rev, slots>>
    BY <1>7 DEF DrainEnd
  <2> QED
    BY <1>7, <2>1, DrainEnds, SlottedFrame DEF Sweeps
<1>8. CASE \/ DrainTell \/ DrainCount \/ LaneDrain \/ CloseStop \/ SafetyTrips
           \/ RevokeEnter \/ RevokeFloor \/ RevokeCount \/ RevokeReturn
           \/ SafetyRevokes
  <2>1. UNCHANGED <<cur, parked, slots, op>>
    BY <1>8 DEF DrainTell, DrainCount, LaneDrain, CloseStop, SafetyTrips,
       RevokeEnter, RevokeFloor, RevokeCount, RevokeReturn, SafetyRevokes,
       RevokeAll
  <2>2. rev'.lease = rev.lease /\ (rev.lease # None => rev'.res = rev.res)
    <3>1. \/ RevokeEnter \/ RevokeFloor \/ RevokeCount \/ RevokeReturn
          \/ SafetyRevokes \/ rev' = rev
      BY <1>8 DEF DrainTell, DrainCount, LaneDrain, CloseStop, SafetyTrips
    <3> QED
      BY <3>1, RevHolds
  <2> QED
    BY <2>1, <2>2, SlottedFrame DEF Sweeps, Past
<1>9. ASSUME NEW r \in Resource, RevokeSwap(r) PROVE Slotted'
  <2>1. UNCHANGED <<parked, op, slots>>
    BY <1>9 DEF RevokeSwap
  <2>2. \A s \in Resource : cur'[s] = IF s = r THEN None ELSE cur[s]
    BY <1>9 DEF RevokeSwap, Typed, SlotsTyped
  <2>3. rev'.lease = cur[r] /\ rev'.res = r
    BY <1>9 DEF RevokeSwap, Typed, RevTyped, RevType
  <2> QED
    BY <2>1, <2>2, <2>3, SlottedFrame DEF Sweeps, Past
<1>10. CASE RevokePark
  <2>1. UNCHANGED <<cur, op, slots>> /\ rev'.lease = None
    BY <1>10 DEF RevokePark, Typed, RevTyped, RevType
  <2>2. rev.lease # None /\ rev.res \in Resource
    BY <1>10 DEF RevokePark, HandShapes
  <2>3. \A s \in Resource : s # rev.res => parked'[s] = parked[s]
    BY <1>10, <2>2 DEF RevokePark, Typed, SlotsTyped
  <2> QED
    BY <2>1, <2>2, <2>3, SlottedFrame DEF Sweeps, Past
<1> QED
  BY <1>1, <1>2, <1>3, <1>4, <1>5, <1>6, <1>7, <1>8, <1>9, <1>10, StepKinds

----------------------------------------------------------------------------
(* The pending count. *)
LEMMA CountedFrame ==
    ASSUME Counted, UNCHANGED <<parked, revPending>>,
           rev.pc = "park" <=> rev'.pc = "park",
           drain.pc = "scan" <=> drain'.pc = "scan"
    PROVE  Counted'
BY DEF Counted, ParkedAt

LEMMA CountedStep ==
    ASSUME Typed, HandShapes, Room, Counted, [Next]_controlAll
    PROVE  Counted'
<1> USE DEF slotVars, revokeVars, historyVars
<1>1. CASE Begins \/ Walks \/ Aside
  <2>1. UNCHANGED <<parked, revPending, rev, drain>>
    BY <1>1, BeginsFresh, WalksWorld, AsideStill DEF worldVars
  <2> QED
    BY <2>1, CountedFrame
<1>2. CASE \/ Preempt \/ Publish \/ Undo \/ Renew \/ Drop
           \/ (\E r \in Resource : Sweep(r)) \/ Settle \/ StopLock
           \/ CloseStop \/ SafetyTrips
  <2>1. UNCHANGED <<parked, revPending, rev, drain>>
    BY <1>2 DEF Preempt, Publish, Undo, Renew, Drop, Sweep, Settle, StopLock,
       CloseStop, SafetyTrips
  <2> QED
    BY <2>1, CountedFrame
<1>3. CASE Flush \/ DrainTell \/ DrainEnd \/ LaneDrain
  <2>1. UNCHANGED <<parked, revPending, rev>>
    BY <1>3 DEF Flush, DrainTell, DrainEnd, LaneDrain
  <2>2. drain.pc = "scan" <=> drain'.pc = "scan"
    <3>1. CASE Flush
      <4>1. drain' = drain \/ (drain.by = "none" /\
               drain' = [NoDrain EXCEPT !.by = "op", !.todo = slots])
        BY <3>1 DEF Flush
      <4> QED
        BY <4>1 DEF NoDrain, HandShapes
    <3>2. CASE DrainTell
      BY <3>2 DEF DrainTell, Typed, LaneTyped, DrainType
    <3>3. CASE DrainEnd
      BY <3>3 DEF DrainEnd, NoDrain
    <3>4. CASE LaneDrain
      <4>1. drain.by = "none" /\
            drain' = [NoDrain EXCEPT !.by = "lane", !.todo = slots]
        BY <3>4 DEF LaneDrain
      <4> QED
        BY <4>1 DEF NoDrain, HandShapes
    <3> QED
      BY <1>3, <3>1, <3>2, <3>3, <3>4
  <2> QED
    BY <2>1, <2>2, CountedFrame
<1>4. CASE RevokeEnter \/ RevokeFloor \/ RevokeReturn \/ SafetyRevokes
           \/ \E r \in Resource : RevokeSwap(r)
  <2>1. UNCHANGED <<parked, revPending, drain>>
    BY <1>4 DEF RevokeEnter, RevokeFloor, RevokeReturn, SafetyRevokes,
       RevokeAll, RevokeSwap
  <2>2. rev.pc # "park"
    BY <1>4 DEF RevokeEnter, RevokeFloor, RevokeReturn, SafetyRevokes,
       RevokeAll, RevokeSwap
  <2>3. rev'.pc # "park"
    <3>1. CASE RevokeEnter \/ RevokeFloor \/ \E r \in Resource : RevokeSwap(r)
      BY <3>1 DEF RevokeEnter, RevokeFloor, RevokeSwap, Typed, RevTyped, RevType
    <3>2. CASE RevokeReturn
      BY <3>2 DEF RevokeReturn, NoRev
    <3>3. CASE SafetyRevokes
      <4>1. PICK n \in awaiting :
               rev' = [NoRev EXCEPT !.pc = "enter", !.epoch = n]
        BY <3>3 DEF SafetyRevokes, RevokeAll
      <4> QED
        BY <4>1 DEF NoRev
    <3> QED
      BY <1>4, <3>1, <3>2, <3>3
  <2> QED
    BY <2>1, <2>2, <2>3, CountedFrame
<1>5. CASE RevokeCount
  <2>1. rev.pc # "park" /\ rev'.pc = "park" /\ revPending' = revPending + 1
        /\ UNCHANGED <<parked, drain>>
    BY <1>5 DEF RevokeCount, Typed, RevTyped, RevType
  <2>2. Cardinality(ParkedAt) \in Nat
    BY FS_CardinalityType DEF Counted
  <2> QED
    BY <2>1, <2>2 DEF Counted, ParkedAt
<1>6. CASE RevokePark
  <2>1. /\ rev.pc = "park" /\ rev.lease # None /\ rev.res \in Resource
        /\ parked[rev.res] = None /\ UNCHANGED <<revPending, drain>>
        /\ parked' = [parked EXCEPT ![rev.res] = rev.lease]
    BY <1>6 DEF RevokePark, HandShapes, Room, Sweeps
  <2>2. rev'.pc # "park"
    BY <1>6 DEF RevokePark, Typed, RevTyped, RevType
  <2>3. ParkedAt' = ParkedAt \cup {rev.res} /\ rev.res \notin ParkedAt
    BY <2>1 DEF ParkedAt, Typed, SlotsTyped
  <2>4. IsFiniteSet(ParkedAt') /\ Cardinality(ParkedAt') = Cardinality(ParkedAt) + 1
    BY <2>3, FS_AddElement DEF Counted
  <2>5. Cardinality(ParkedAt) \in Nat
    BY FS_CardinalityType DEF Counted
  <2> QED
    BY <2>1, <2>2, <2>4, <2>5 DEF Counted
<1>7. ASSUME NEW r \in Resource, DrainSlot(r) PROVE Counted'
  <2>1. /\ drain.pc = "scan" /\ UNCHANGED <<revPending, rev>>
        /\ parked' = [parked EXCEPT ![r] = None]
    BY <1>7 DEF DrainSlot
  <2>2. drain'.pc = IF parked[r] = None THEN "scan" ELSE "tell"
    BY <1>7 DEF DrainSlot, Typed, LaneTyped, DrainType
  <2>3. ParkedAt' = ParkedAt \ {r} /\ (r \in ParkedAt <=> parked[r] # None)
    BY <2>1 DEF ParkedAt, Typed, SlotsTyped
  <2>4. /\ IsFiniteSet(ParkedAt')
        /\ Cardinality(ParkedAt') = IF r \in ParkedAt
                                    THEN Cardinality(ParkedAt) - 1
                                    ELSE Cardinality(ParkedAt)
    BY <2>3, FS_RemoveElement DEF Counted
  <2>5. Cardinality(ParkedAt) \in Nat
    BY FS_CardinalityType DEF Counted
  <2> QED
    BY <2>1, <2>2, <2>3, <2>4, <2>5 DEF Counted
<1>8. CASE DrainCount
  <2>1. /\ drain.pc = "count" /\ revPending' = revPending - 1
        /\ UNCHANGED <<parked, rev>>
    BY <1>8 DEF DrainCount
  <2>2. drain'.pc = "scan"
    BY <1>8 DEF DrainCount, Typed, LaneTyped, DrainType
  <2>3. Cardinality(ParkedAt) \in Nat
    BY FS_CardinalityType DEF Counted
  <2> QED
    BY <2>1, <2>2, <2>3 DEF Counted, ParkedAt
<1> QED
  BY <1>1, <1>2, <1>3, <1>4, <1>5, <1>6, <1>7, <1>8, StepKinds

----------------------------------------------------------------------------
(* What an issue still finds of an earlier lease. *)
LEMMA ClearedFrame ==
    ASSUME Cleared, UNCHANGED <<parked, published>>, late \subseteq late',
           rev'.lease = rev.lease, rev.lease # None => rev'.res = rev.res,
           drain'.lease \in {None, drain.lease},
           op.pc = "draining" => drain'.todo = drain.todo,
           \A r \in Resource : Occupied(r)' => Occupied(r),
           Issuing' => /\ Issuing /\ op'.res = op.res /\ op.res \in Resource
                       /\ op.pc \in {"flush", "draining"} => op'.pc = op.pc
    PROVE  Cleared'
<1>1. ASSUME NEW r \in Resource, NEW l, Owes(r, l)' PROVE Owes(r, l)
  BY <1>1 DEF Owes
<1>2. ASSUME NEW r \in Resource, Occupied(r)' PROVE ~Owes(r, drain.lease)'
  BY <1>2 DEF Cleared, Owes
<1>3. ASSUME Issuing'
      PROVE  /\ Sweeps(op.res)' => rev'.lease.epoch \in late'
             /\ Owes(op.res, parked[op.res])' =>
                   \/ op'.pc = "flush"
                   \/ op'.pc = "draining" /\ op'.res \in drain'.todo
             /\ Owes(op.res, drain.lease)' => op'.pc \in {"flush", "draining"}
  <2>1. /\ Issuing /\ op'.res = op.res /\ op.res \in Resource
        /\ op.pc \in {"flush", "draining"} => op'.pc = op.pc
    BY <1>3
  <2>2. Sweeps(op.res)' => rev'.lease.epoch \in late'
    BY <2>1 DEF Cleared, Sweeps
  <2>3. Owes(op.res, parked[op.res])' =>
           \/ op'.pc = "flush"
           \/ op'.pc = "draining" /\ op'.res \in drain'.todo
    BY <2>1 DEF Cleared, Owes
  <2>4. Owes(op.res, drain.lease)' => op'.pc \in {"flush", "draining"}
    BY <2>1 DEF Cleared, Owes
  <2> QED
    BY <2>2, <2>3, <2>4
<1> QED
  BY <1>2, <1>3 DEF Cleared

(* Issuing is a matter of op.pc and op.next. *)
LEMMA IssuersRes == ASSUME Typed, Issuing PROVE op.res \in Resource
BY DEF Typed, OpTyped, OpSense, Acquiring, Issuing

LEMMA HolderIssuesNot ==
    ASSUME Typed,
           \/ Preempt \/ Publish \/ Undo \/ Renew \/ Drop
           \/ (\E r \in Resource : Sweep(r)) \/ Settle \/ StopLock
    PROVE  ~Issuing'
<1>1. op'.pc \notin IssuePc
  <2> USE DEF Typed, OpTyped, OpType, IssuePc
  <2>1. CASE Preempt \/ Publish
    BY <2>1 DEF Preempt, Publish, Go
  <2>2. CASE Undo
    BY <2>2 DEF Undo, NoOp
  <2>3. CASE Renew
    BY <2>3 DEF Renew, Go, NoOp
  <2>4. CASE Drop
    BY <2>4 DEF Drop, Take, Go
  <2>5. CASE \E r \in Resource : Sweep(r)
    BY <2>5 DEF Sweep, Take
  <2>6. CASE Settle
    BY <2>6 DEF Settle, NoOp
  <2>7. CASE StopLock
    BY <2>7 DEF StopLock, NoOp
  <2> QED
    BY <2>1, <2>2, <2>3, <2>4, <2>5, <2>6, <2>7
<1> QED
  BY <1>1, NotIssuing

LEMMA IssuerWalks ==
    ASSUME Typed, Answered, Cleared, Walks PROVE Cleared'
<1>1. UNCHANGED <<cur, parked, published, late, rev, drain>>
  BY WalksWorld DEF worldVars
<1>2. op.pc # "draining"
  BY WalksOn
<1>3. CASE ~Issuing'
  <2>1. ~Publishing'
    BY <1>3 DEF Publishing, Issuing
  <2> QED
    BY <1>1, <1>3, <2>1, ClearedFrame DEF Occupied
<1>4. CASE /\ op.pc = "bump" /\ Normal /\ op'.pc = "flush" /\ op'.res = op.res
  <2>1. ~Publishing'
    BY <1>4 DEF Publishing
  <2>2. Sweeps(op.res) => rev.lease.epoch \in late
    BY <1>4 DEF Answered, Sweeps
  <2> QED
    BY <1>1, <1>4, <2>1, <2>2 DEF Cleared, Occupied, Owes, Sweeps
<1>5. CASE /\ op.pc = "sequence" /\ op'.pc = "freshen" /\ op'.res = op.res
  <2>1. Issuing /\ op.res \in Resource
    BY <1>5, IssuersRes DEF Issuing
  <2>2. ~Owes(op.res, drain.lease) /\ ~Owes(op.res, parked[op.res])
    BY <1>5, <2>1 DEF Cleared
  <2>3. \A r \in Resource : Occupied(r)' => Occupied(r) \/ r = op.res
    BY <1>1, <1>5 DEF Occupied
  <2> QED
    BY <1>1, <1>5, <2>1, <2>2, <2>3 DEF Cleared, Owes, Sweeps
<1>6. CASE /\ op.pc = "freshen" /\ op'.pc = "publish" /\ op'.res = op.res
  <2>1. Issuing /\ op.res \in Resource
    BY <1>6, IssuersRes DEF Issuing
  <2>2. \A r \in Resource : Occupied(r)' => Occupied(r)
    BY <1>1, <1>6 DEF Occupied, Publishing
  <2> QED
    BY <1>1, <1>6, <2>1, <2>2, ClearedFrame
<1> QED
  BY <1>3, <1>4, <1>5, <1>6, WalksOn

(* The two looks at revPending, or the drain they lead to. *)
LEMMA IssuerFlushes ==
    ASSUME Typed, HandShapes, Slotted, Counted, Cleared, Flush PROVE Cleared'
<1> USE DEF slotVars, revokeVars, historyVars
<1>1. UNCHANGED <<cur, parked, published, late, rev, revPending>>
      /\ op.pc \in {"flush", "force"}
  BY DEF Flush
<1>2. op'.res = op.res /\ op'.next = op.next
  BY DEF Flush, Go, Typed, OpTyped, OpType
<1>3. Issuing' => op.pc = "flush" /\ op.next = "sequence"
  BY <1>1, <1>2 DEF Issuing, Flush, Go, Typed, OpTyped, OpType, OpSense
<1>4. \A r \in Resource : Occupied(r)' => Occupied(r)
  <2>1. ~Publishing'
    BY DEF Flush, Go, Publishing, Typed, OpTyped, OpType
  <2> QED
    BY <1>1, <2>1 DEF Occupied
<1>5. Issuing' => Issuing /\ op.res \in Resource
  BY <1>3, IssuersRes DEF Issuing
<1>6. CASE revPending = 0 /\ UNCHANGED drain
  <2>1. drain.lease = None /\ \A r \in Resource : parked[r] = None
    <3>1. Cardinality(ParkedAt) \in Nat
      BY FS_CardinalityType DEF Counted
    <3>2. Cardinality(ParkedAt) = 0 /\ drain.pc = "scan"
      BY <1>6, <3>1 DEF Counted
    <3>3. ParkedAt = {}
      BY <3>2, FS_EmptySet DEF Counted
    <3> QED
      BY <3>2, <3>3 DEF ParkedAt, HandShapes
  <2> QED
    BY <1>1, <1>2, <1>4, <1>5, <1>6, <2>1 DEF Cleared, Owes, Sweeps
<1>7. CASE /\ drain.by = "none" /\ Go("draining")
           /\ drain' = [NoDrain EXCEPT !.by = "op", !.todo = slots]
  <2>1. drain'.lease = None /\ drain'.todo = slots
    BY <1>7 DEF NoDrain
  <2>2. op'.pc = "draining"
    BY <1>7 DEF Go, Typed, OpTyped, OpType
  <2>3. Issuing' => op.res \in slots
    BY <1>3 DEF Slotted, Past
  <2> QED
    BY <1>1, <1>2, <1>4, <1>5, <2>1, <2>2, <2>3 DEF Cleared, Owes, Sweeps
<1> QED
  BY <1>6, <1>7 DEF Flush

LEMMA ClearedStep ==
    ASSUME Typed, RefInv, HandShapes, Answered, Ends, Room, Slotted, Counted,
           Cleared, [Next]_controlAll
    PROVE  Cleared'
<1> USE DEF slotVars, revokeVars, historyVars
<1>1. CASE Begins
  <2>1. UNCHANGED <<cur, parked, published, late, rev, drain>>
    BY <1>1, BeginsFresh DEF worldVars
  <2>2. ~Issuing' /\ ~Publishing'
    BY <1>1, BeginsFresh DEF Issuing, Publishing
  <2> QED
    BY <2>1, <2>2, ClearedFrame DEF Occupied
<1>2. CASE Aside
  <2>1. UNCHANGED <<cur, parked, published, late, rev, drain, op>>
    BY <1>2, AsideStill DEF worldVars
  <2> QED
    BY <2>1, IssuersRes, ClearedFrame DEF Occupied, Publishing, Issuing
<1>3. CASE \/ Preempt \/ Undo \/ Renew \/ Drop
           \/ (\E r \in Resource : Sweep(r)) \/ Settle \/ StopLock
  <2>1. UNCHANGED <<parked, published, late, rev, drain>>
    BY <1>3 DEF Preempt, Undo, Renew, Drop, Sweep, Settle, StopLock
  <2>2. ~Issuing' /\ ~Publishing'
    BY <1>3, HolderIssuesNot DEF Issuing, Publishing
  <2>3. \A r \in Resource : cur'[r] # None => cur[r] # None
    BY <1>3, SlotsEmpty
  <2> QED
    BY <2>1, <2>2, <2>3, ClearedFrame DEF Occupied
<1>4. CASE Publish
  <2>1. /\ UNCHANGED <<parked, late, rev, drain>> /\ ~Issuing' /\ Issuing
        /\ published' = published \cup {<<op.res, op.epoch>>}
        /\ Publishing /\ op.res \in Resource
    BY <1>4, HolderIssuesNot, IssuersRes DEF Publish, Issuing, Publishing
  <2>2. \A r \in Resource : Occupied(r)' => Occupied(r)
    BY <1>4, <2>1 DEF Occupied, Publish, Publishing, Issuing, Typed, SlotsTyped
  <2>3. drain.lease # None => drain.lease.epoch # op.epoch
    <3>1. \A p \in published : p[2] # op.epoch
      <4>1. op.epoch \in Nat /\ \A p \in published : p[2] \in Nat
        BY DEF Typed, OpTyped, OpType, SlotsTyped
      <4> QED
        BY <2>1, <4>1 DEF RefInv, EpochsOrdered
    <3> QED
      BY <3>1 DEF Ends, Known
  <2> QED
    BY <2>1, <2>2, <2>3 DEF Cleared, Owes
<1>5. ASSUME NEW r \in Resource, DrainSlot(r) PROVE Cleared'
  <2>1. UNCHANGED <<cur, published, late, rev, op>> /\ drain.lease = None
    BY <1>5 DEF DrainSlot, HandShapes
  <2>2. drain'.lease = parked[r] /\ drain'.todo = drain.todo \ {r}
    BY <1>5 DEF DrainSlot, Typed, LaneTyped, DrainType
  <2>3. \A s \in Resource : parked'[s] = IF s = r THEN None ELSE parked[s]
    BY <1>5 DEF DrainSlot, Typed, SlotsTyped
  <2>4. ASSUME NEW s \in Resource, Owes(s, drain.lease)'
        PROVE  s = r /\ Owes(r, parked[r])
    <3>1. /\ parked[r] # None /\ <<s, parked[r].epoch>> \in published
          /\ parked[r].epoch \notin late
      BY <2>1, <2>2, <2>4 DEF Owes
    <3>2. <<r, parked[r].epoch>> \in published
      BY <3>1 DEF Ends, Known
    <3>3. <<s, parked[r].epoch>> = <<r, parked[r].epoch>>
      BY <3>1, <3>2 DEF Ends, Known
    <3> QED
      BY <3>1, <3>3 DEF Owes
  <2>5. ASSUME NEW s \in Resource, Occupied(s)' PROVE ~Owes(s, drain.lease)'
    BY <2>1, <2>4, <2>5 DEF Occupied, Publishing, Room, Owes
  <2>6. ASSUME Issuing'
        PROVE  /\ Sweeps(op.res)' => rev'.lease.epoch \in late'
               /\ Owes(op.res, parked[op.res])' =>
                     \/ op'.pc = "flush"
                     \/ op'.pc = "draining" /\ op'.res \in drain'.todo
               /\ Owes(op.res, drain.lease)' => op'.pc \in {"flush", "draining"}
    <3>1. Issuing /\ op.res \in Resource
      BY <2>1, <2>6, IssuersRes DEF Issuing
    <3> QED
      BY <2>1, <2>2, <2>3, <2>4, <3>1 DEF Cleared, Sweeps, Owes
  <2> QED
    BY <2>5, <2>6 DEF Cleared
<1>6. CASE DrainEnd
  <2>1. UNCHANGED <<cur, parked, published, late, rev>>
    BY <1>6 DEF DrainEnd
  <2>2. drain.lease = None /\ drain' = NoDrain /\ drain.todo = {}
    BY <1>6, DrainEnds DEF RefInv
  <2>3. drain'.lease = None
    BY <2>2 DEF NoDrain
  <2>4. CASE op' = op /\ op.pc # "draining"
    BY <2>1, <2>3, <2>4, IssuersRes, ClearedFrame
       DEF Occupied, Publishing, Issuing
  <2>5. CASE /\ op.pc = "draining" /\ op' = [op EXCEPT !.pc = op.next]
             /\ ~Publishing'
    <3>1. op'.res = op.res /\ op'.next = op.next /\ op'.pc = op.next
      BY <2>5 DEF Typed, OpTyped, OpType
    <3>2. Issuing' => Issuing /\ op.next = "sequence" /\ op.res \in Resource
      <4>1. op.next \in {"admit", "sequence", "sweep"}
        BY <1>6, <2>5, DrainEnds DEF RefInv
      <4> QED
        BY <2>5, <3>1, <4>1, IssuersRes DEF Issuing
    <3>3. Issuing' => ~Owes(op.res, parked[op.res])
      BY <2>2, <2>5, <3>2 DEF Cleared
    <3> QED
      BY <2>1, <2>3, <2>5, <3>1, <3>2, <3>3
         DEF Cleared, Occupied, Sweeps, Owes
  <2> QED
    BY <1>6, <2>4, <2>5, DrainEnds DEF RefInv
<1>7. CASE DrainTell \/ DrainCount \/ LaneDrain
  <2>1. UNCHANGED <<cur, parked, published, late, rev, op>>
    BY <1>7 DEF DrainTell, DrainCount, LaneDrain
  <2>2. drain'.lease \in {None, drain.lease}
        /\ (op.pc = "draining" => drain'.todo = drain.todo)
    <3>1. CASE DrainTell \/ DrainCount
      BY <3>1 DEF DrainTell, DrainCount, Typed, LaneTyped, DrainType
    <3>2. CASE LaneDrain
      <4>1. drain.by = "none" /\
            drain' = [NoDrain EXCEPT !.by = "lane", !.todo = slots]
        BY <3>2 DEF LaneDrain
      <4> QED
        BY <4>1 DEF NoDrain, HandShapes
    <3> QED
      BY <1>7, <3>1, <3>2
  <2> QED
    BY <2>1, <2>2, IssuersRes, ClearedFrame DEF Occupied, Publishing, Issuing
<1>8. CASE \/ CloseStop \/ SafetyTrips
           \/ RevokeEnter \/ RevokeFloor \/ RevokeCount \/ RevokeReturn
           \/ SafetyRevokes
  <2>1. UNCHANGED <<cur, parked, published, late, drain, op>>
    BY <1>8 DEF CloseStop, SafetyTrips, RevokeEnter, RevokeFloor, RevokeCount,
       RevokeReturn, SafetyRevokes, RevokeAll
  <2>2. rev'.lease = rev.lease /\ (rev.lease # None => rev'.res = rev.res)
    <3>1. \/ RevokeEnter \/ RevokeFloor \/ RevokeCount \/ RevokeReturn
          \/ SafetyRevokes \/ rev' = rev
      BY <1>8 DEF CloseStop, SafetyTrips
    <3> QED
      BY <3>1, RevHolds
  <2> QED
    BY <2>1, <2>2, IssuersRes, ClearedFrame DEF Occupied, Publishing, Issuing
<1>9. ASSUME NEW r \in Resource, RevokeSwap(r) PROVE Cleared'
  <2>1. UNCHANGED <<parked, published, op, drain>> /\ late \subseteq late'
    BY <1>9 DEF RevokeSwap
  <2>2. \A s \in Resource : cur'[s] = IF s = r THEN None ELSE cur[s]
    BY <1>9 DEF RevokeSwap, Typed, SlotsTyped
  <2>3. rev'.lease = cur[r] /\ rev'.res = r
    BY <1>9 DEF RevokeSwap, Typed, RevTyped, RevType
  <2>4. Issuing => ~Sweeps(op.res)' /\ op.res \in Resource
    BY <2>1, <2>3, IssuersRes DEF RefInv, Vacant, Sweeps
  <2>5. ASSUME NEW s \in Resource, Occupied(s)' PROVE ~Owes(s, drain.lease)'
    BY <2>1, <2>2, <2>5 DEF Cleared, Occupied, Publishing, Owes
  <2>6. ASSUME Issuing
        PROVE  /\ ~Sweeps(op.res)'
               /\ Owes(op.res, parked[op.res])' =>
                     \/ op'.pc = "flush"
                     \/ op'.pc = "draining" /\ op'.res \in drain'.todo
               /\ Owes(op.res, drain.lease)' => op'.pc \in {"flush", "draining"}
    BY <2>1, <2>4, <2>6 DEF Cleared, Owes
  <2> QED
    BY <2>1, <2>5, <2>6 DEF Cleared, Issuing
<1>10. CASE RevokePark
  <2>1. UNCHANGED <<cur, published, late, op, drain>> /\ rev'.lease = None
    BY <1>10 DEF RevokePark, Typed, RevTyped, RevType
  <2>2. rev.lease # None /\ rev.res \in Resource
    BY <1>10 DEF RevokePark, HandShapes
  <2>3. \A s \in Resource :
           parked'[s] = parked[s] \/ (s = rev.res /\ parked'[s] = rev.lease)
    BY <1>10, <2>2 DEF RevokePark, Typed, SlotsTyped
  <2>4. ASSUME NEW s \in Resource, Occupied(s)' PROVE ~Owes(s, drain.lease)'
    BY <2>1, <2>4 DEF Cleared, Occupied, Publishing, Owes
  <2>5. ASSUME Issuing
        PROVE  /\ ~Sweeps(op.res)'
               /\ Owes(op.res, parked[op.res])' =>
                     \/ op'.pc = "flush"
                     \/ op'.pc = "draining" /\ op'.res \in drain'.todo
               /\ Owes(op.res, drain.lease)' => op'.pc \in {"flush", "draining"}
    <3>1. op.res \in Resource
      BY <2>5, IssuersRes
    <3>2. ~Sweeps(op.res)'
      BY <2>1 DEF Sweeps
    <3>3. Owes(op.res, parked[op.res])' => Owes(op.res, parked[op.res])
      BY <2>1, <2>2, <2>3, <2>5, <3>1 DEF Cleared, Sweeps, Owes
    <3> QED
      BY <2>1, <2>5, <3>2, <3>3 DEF Cleared, Owes
  <2> QED
    BY <2>1, <2>4, <2>5 DEF Cleared, Issuing
<1> QED
  BY <1>1, <1>2, <1>3, <1>4, <1>5, <1>6, <1>7, <1>8, <1>9, <1>10, IssuerWalks,
     IssuerFlushes, StepKinds

----------------------------------------------------------------------------
(* After Stop, and in the hands of others than Stop, nothing comes back. *)
LEMMA StoppingFrame ==
    ASSUME Stopping, UNCHANGED <<published, life>>, told \subseteq told',
           rev'.pc = rev.pc, op.by # "stop" /\ op'.by # "stop",
           Past' => Past \/ life = "running",
           \A r \in Resource : cur'[r] # None => cur[r] # None,
           \A r \in Resource : parked'[r] # None => parked[r] # None,
           drain'.lease # None =>
              drain.lease # None \/ \E r \in Resource : parked[r] # None
    PROVE  Stopping'
<1>1. life = "stopped" => AllEnded'
  BY DEF Stopping, AllEnded
<1> QED
  BY <1>1 DEF Stopping

LEMMA StoppingSettles ==
    ASSUME Typed, DrainerHolds, HandShapes, Ends, Stopping, Settle
    PROVE  Stopping'
<1> USE DEF slotVars, revokeVars, historyVars
<1>1. /\ UNCHANGED <<cur, parked, rev, drain, published>>
      /\ told' = told \cup {d[2] : d \in op.dropped}
      /\ Past' => Past
  BY HolderPaths DEF Settle
<1>2. CASE op.by = "stop"
  <2>1. op.pc = "sweep" /\ op.todo = {} /\ op.next = "sweep"
    BY <1>2 DEF Settle, Stopping, StopGoesOn
  <2>2. op' = NoOp /\ life' = "stopped"
    BY <1>2, <2>1 DEF Settle
  <2>3. ~Past' /\ op'.by = "caller"
    BY <2>2 DEF Past, NoOp
  <2>4. rev.pc = "idle" /\ rev.lease = None
    BY <1>2 DEF Stopping, HandShapes
  <2>5. /\ \A r \in Resource : cur[r] = None /\ parked[r] = None
        /\ drain.lease = None
    BY <1>2, <2>1 DEF Stopping, StopGoesOn
  <2>6. ASSUME NEW p \in published PROVE p[2] \in told'
    <3>1. p[1] \in Resource /\ OnePlace(p)
      BY DEF Typed, SlotsTyped, Ends, Owned
    <3>2. CASE InOp(p)
      BY <1>1, <3>2 DEF InOp
    <3>3. CASE ~InOp(p)
      BY <1>1, <2>4, <2>5, <3>1, <3>3
         DEF OnePlace, Kept, InSlot, InParking, InSafety, InDrain
    <3> QED
      BY <3>2, <3>3
  <2> QED
    BY <1>1, <2>2, <2>3, <2>4, <2>5, <2>6 DEF Stopping, AllEnded
<1>3. CASE op.by # "stop"
  <2>1. op'.by # "stop" /\ life' = life
    BY <1>3 DEF Settle, NoOp, Typed, OpTyped, OpType
  <2> QED
    BY <1>1, <1>3, <2>1, StoppingFrame
<1> QED
  BY <1>2, <1>3

LEMMA StoppingDrains ==
    ASSUME Typed, DrainerHolds, HandShapes, Slotted, Stopping,
           \/ Flush \/ (\E r \in Resource : DrainSlot(r))
           \/ DrainTell \/ DrainCount \/ DrainEnd \/ LaneDrain
    PROVE  Stopping'
<1> USE DEF slotVars, revokeVars, historyVars
<1>1. UNCHANGED <<cur, rev, published, life>> /\ told \subseteq told'
  BY DEF Flush, DrainSlot, DrainTell, DrainCount, DrainEnd, LaneDrain
<1>2. Past' => Past
  BY HolderPaths, DrainEnds DEF DrainSlot, DrainTell, DrainCount, LaneDrain, Past
<1>3. op'.by = op.by /\ op'.todo = op.todo /\ op'.next = op.next
      /\ op'.match = op.match
  BY DEF Flush, Go, DrainSlot, DrainTell, DrainCount, DrainEnd, DrainDone,
     LaneDrain, Typed, OpTyped, OpType
<1>4. \A r \in Resource : parked'[r] # None => parked[r] # None
  BY DEF Flush, DrainSlot, DrainTell, DrainCount, DrainEnd, LaneDrain, Typed,
     SlotsTyped
<1>5. drain'.lease # None =>
         drain.lease # None \/ \E r \in Resource : parked[r] # None
  <2>1. CASE \E r \in Resource : DrainSlot(r)
    BY <2>1 DEF DrainSlot, Typed, LaneTyped, DrainType
  <2>2. CASE DrainTell \/ DrainCount
    BY <2>2 DEF DrainTell, DrainCount, Typed, LaneTyped, DrainType
  <2>3. CASE Flush \/ DrainEnd \/ LaneDrain
    <3>1. \/ drain' = drain \/ drain' = NoDrain
          \/ drain' = [NoDrain EXCEPT !.by = "op", !.todo = slots]
          \/ drain' = [NoDrain EXCEPT !.by = "lane", !.todo = slots]
      BY <2>3 DEF Flush, DrainEnd, LaneDrain
    <3>2. /\ NoDrain.lease = None
          /\ [NoDrain EXCEPT !.by = "op", !.todo = slots].lease = None
          /\ [NoDrain EXCEPT !.by = "lane", !.todo = slots].lease = None
      BY DEF NoDrain
    <3>3. drain' = drain \/ drain'.lease = None
      BY <3>1, <3>2, Zenon
    <3> QED
      BY <3>3
  <2> QED
    BY <2>1, <2>2, <2>3
<1>6. CASE op.by # "stop"
  BY <1>1, <1>2, <1>3, <1>4, <1>5, <1>6, StoppingFrame
<1>7. CASE op.by = "stop"
  <2>1. life = "stopping" /\ StopGoesOn /\ rev.pc = "idle"
    BY <1>7 DEF Stopping
  <2>2. /\ op'.pc \in {"force", "draining", "sweep"}
        /\ \A r \in Resource : parked'[r] # None =>
              op'.pc = "force" \/ (op'.pc = "draining" /\ r \in drain'.todo)
        /\ drain'.lease # None => op'.pc \in {"force", "draining"}
    <3>1. CASE Flush
      <4>1. op.pc = "force"
        BY <2>1, <3>1 DEF Flush, StopGoesOn
      <4>2. op'.pc = "draining"
        BY <3>1, <4>1 DEF Flush, Go, Typed, OpTyped, OpType
      <4>3. drain'.todo = slots /\ parked' = parked
        BY <3>1, <4>1 DEF Flush, NoDrain
      <4> QED
        BY <4>2, <4>3 DEF Slotted
    <3>2. ASSUME NEW r \in Resource, DrainSlot(r)
          PROVE  /\ op'.pc \in {"force", "draining", "sweep"}
                 /\ \A s \in Resource : parked'[s] # None =>
                       \/ op'.pc = "force"
                       \/ op'.pc = "draining" /\ s \in drain'.todo
                 /\ drain'.lease # None => op'.pc \in {"force", "draining"}
      <4>1. /\ op' = op /\ drain'.lease = parked[r]
            /\ drain'.todo = drain.todo \ {r}
        BY <3>2 DEF DrainSlot, Typed, LaneTyped, DrainType
      <4>2. \A s \in Resource : parked'[s] = IF s = r THEN None ELSE parked[s]
        BY <3>2 DEF DrainSlot, Typed, SlotsTyped
      <4> QED
        BY <2>1, <4>1, <4>2 DEF StopGoesOn
    <3>3. CASE DrainTell \/ DrainCount
      <4>1. /\ op' = op /\ parked' = parked /\ drain'.todo = drain.todo
            /\ drain'.lease \in {None, drain.lease}
        BY <3>3 DEF DrainTell, DrainCount, Typed, LaneTyped, DrainType
      <4> QED
        BY <2>1, <4>1 DEF StopGoesOn
    <3>4. CASE LaneDrain
      <4>1. op' = op /\ parked' = parked /\ drain.by = "none"
            /\ drain'.lease = None
        BY <3>4 DEF LaneDrain, NoDrain
      <4>2. op.pc # "draining"
        BY <4>1 DEF HandShapes
      <4> QED
        BY <2>1, <4>1, <4>2 DEF StopGoesOn
    <3>5. CASE DrainEnd
      <4>1. drain.lease = None /\ drain'.lease = None /\ drain.todo = {}
            /\ parked' = parked
        BY <3>5, DrainEnds DEF NoDrain, DrainEnd
      <4>2. CASE op' = op /\ op.pc # "draining"
        BY <2>1, <4>1, <4>2 DEF StopGoesOn
      <4>3. CASE op.pc = "draining" /\ op' = [op EXCEPT !.pc = op.next]
        <5>1. op'.pc = "sweep"
          BY <2>1, <4>3 DEF StopGoesOn, Typed, OpTyped, OpType
        <5> QED
          BY <2>1, <4>1, <4>3, <5>1 DEF StopGoesOn
      <4> QED
        BY <3>5, <4>2, <4>3, DrainEnds
    <3> QED
      BY <3>1, <3>2, <3>3, <3>4, <3>5
  <2>3. StopGoesOn'
    BY <1>1, <1>3, <2>1, <2>2 DEF StopGoesOn
  <2> QED
    BY <1>1, <1>2, <1>3, <2>1, <2>3 DEF Stopping
<1> QED
  BY <1>6, <1>7

LEMMA StoppingStep ==
    ASSUME Typed, DrainerHolds, HandShapes, Ends, Slotted, Stopping,
           [Next]_controlAll
    PROVE  Stopping'
<1> USE DEF slotVars, revokeVars, historyVars
<1>1. CASE Begins
  <2>1. UNCHANGED <<cur, parked, rev, drain, life, published, told>> /\ ~Past'
        /\ op'.by # "stop" /\ op.by # "stop"
    BY <1>1, BeginsFresh DEF worldVars, Past, NoOp
  <2> QED
    BY <2>1, StoppingFrame
<1>2. CASE Walks
  <2>1. UNCHANGED <<cur, parked, rev, drain, life, published, told>>
    BY <1>2, WalksWorld DEF worldVars
  <2>2. op.by # "stop"
    BY <1>2, WalksOn DEF Stopping, StopGoesOn
  <2>3. op'.by # "stop" /\ (Past' => Past \/ life = "running")
    BY <1>2, <2>2, WalksOn
  <2> QED
    BY <2>1, <2>2, <2>3, StoppingFrame
<1>3. CASE Aside \/ SafetyTrips
  <2>1. UNCHANGED <<cur, parked, rev, drain, life, published, told, op>>
    BY <1>3, AsideStill DEF worldVars, SafetyTrips
  <2> QED
    BY <2>1 DEF Stopping, StopGoesOn, AllEnded, Past
<1>4. CASE Preempt \/ Undo \/ Renew \/ Drop
  <2>1. UNCHANGED <<parked, rev, drain, life, published>> /\ told \subseteq told'
    BY <1>4 DEF Preempt, Undo, Renew, Drop
  <2>2. op.by # "stop"
    BY <1>4 DEF Preempt, Undo, Renew, Drop, Stopping, StopGoesOn
  <2>3. op'.by # "stop"
    <3>1. op' = NoOp \/ op'.by = op.by
      <4>1. CASE Preempt \/ Undo \/ Renew
        BY <4>1 DEF Preempt, Undo, Renew, Go, Typed, OpTyped, OpType
      <4>2. CASE Drop
        BY <4>2 DEF Drop, Take, Go, Typed, OpTyped, OpType
      <4> QED
        BY <1>4, <4>1, <4>2
    <3> QED
      BY <2>2, <3>1 DEF NoOp
  <2>4. \A r \in Resource : cur'[r] # None => cur[r] # None
    BY <1>4, SlotsEmpty
  <2>5. Past' => Past
    BY <1>4, HolderPaths
  <2> QED
    BY <2>1, <2>2, <2>3, <2>4, <2>5, StoppingFrame
<1>5. CASE Publish
  <2>1. UNCHANGED <<parked, rev, drain, life, told>> /\ Past /\ Past'
    BY <1>5 DEF Publish, Past, Go, Typed, OpTyped, OpType
  <2>2. life \notin {"stopping", "stopped"} /\ op.by # "stop"
    BY <2>1 DEF Stopping
  <2>3. op'.by # "stop"
    BY <1>5, <2>2 DEF Publish, Go, Typed, OpTyped, OpType
  <2> QED
    BY <2>1, <2>2, <2>3 DEF Stopping
<1>6. ASSUME NEW r \in Resource, Sweep(r) PROVE Stopping'
  <2>1. /\ UNCHANGED <<parked, rev, drain, life, published, told>>
        /\ op.pc = "sweep"
        /\ (Past' => Past)
    BY <1>6, HolderPaths DEF Sweep
  <2>2. /\ op'.by = op.by /\ op'.next = op.next /\ op'.match = op.match
        /\ op'.pc = "sweep" /\ op'.todo = op.todo \ {r}
    BY <1>6, <2>1 DEF Sweep, Take, Typed, OpTyped, OpType
  <2>3. \A s \in Resource : cur'[s] # None => cur[s] # None
    BY <1>6, SlotsEmpty
  <2>4. CASE op.by # "stop"
    BY <2>1, <2>2, <2>3, <2>4, StoppingFrame
  <2>5. CASE op.by = "stop"
    <3>1. life = "stopping" /\ StopGoesOn /\ rev.pc = "idle"
      BY <2>5 DEF Stopping
    <3>2. cur'[r] = None
      <4>1. cur[r] # None => cur[r].conn \in op.match
        BY <3>1 DEF StopGoesOn, Typed, SlotsTyped, LeaseOrNone, Lease
      <4> QED
        BY <1>6, <4>1 DEF Sweep, Take, Typed, SlotsTyped
    <3>3. StopGoesOn'
      BY <2>1, <2>2, <2>3, <3>1, <3>2 DEF StopGoesOn
    <3> QED
      BY <2>1, <2>2, <2>5, <3>1, <3>3 DEF Stopping
  <2> QED
    BY <2>4, <2>5
<1>7. CASE CloseStop
  <2>1. UNCHANGED <<cur, parked, rev, drain, op>> /\ life = "running"
        /\ life' = "closing" /\ rev = NoRev
    BY <1>7 DEF CloseStop
  <2>2. op.by # "stop" /\ rev.pc = "idle"
    BY <2>1 DEF Stopping, NoRev
  <2> QED
    BY <2>1, <2>2 DEF Stopping
<1>8. CASE StopLock
  <2>1. /\ UNCHANGED <<cur, parked, rev, drain, slots>>
        /\ life = "closing" /\ life' = "stopping"
        /\ op' = [NoOp EXCEPT !.pc = "force", !.by = "stop", !.next = "sweep",
                              !.match = Conn, !.todo = slots]
    BY <1>8 DEF StopLock
  <2>2. /\ op'.pc = "force" /\ op'.by = "stop" /\ op'.next = "sweep"
        /\ op'.match = Conn /\ op'.todo = slots
    BY <2>1 DEF NoOp
  <2>3. ~Past' /\ rev.pc = "idle"
    BY <2>1, <2>2 DEF Past, Stopping
  <2>4. StopGoesOn'
    BY <2>1, <2>2 DEF StopGoesOn, Slotted
  <2> QED
    BY <2>1, <2>2, <2>3, <2>4 DEF Stopping
<1>9. CASE \/ RevokeEnter \/ RevokeFloor \/ (\E r \in Resource : RevokeSwap(r))
           \/ RevokeCount \/ RevokePark \/ RevokeReturn \/ SafetyRevokes
  <2>1. life' = life /\ op' = op
    BY <1>9 DEF RevokeEnter, RevokeFloor, RevokeSwap, RevokeCount, RevokePark,
       RevokeReturn, SafetyRevokes, RevokeAll
  <2>2. life = "running"
    BY <1>9 DEF RevokeEnter, RevokeFloor, RevokeSwap, RevokeCount, RevokePark,
       RevokeReturn, SafetyRevokes, RevokeAll, Stopping
  <2> QED
    BY <2>1, <2>2 DEF Stopping
<1> QED
  BY <1>1, <1>2, <1>3, <1>4, <1>5, <1>6, <1>7, <1>8, <1>9, StoppingSettles,
     StoppingDrains, StepKinds

LEMMA EndStep ==
    ASSUME Typed, RefInv, EndInv, [Next]_controlAll PROVE EndInv'
<1>1. HandShapes' /\ Answered' /\ Ends' /\ Room'
  BY HandStep, AnsweredStep, EndsStep, RoomStep DEF EndInv
<1>2. Slotted' /\ Counted' /\ Cleared' /\ Stopping'
  BY SlottedStep, CountedStep, ClearedStep, StoppingStep DEF EndInv, RefInv
<1> QED
  BY <1>1, <1>2 DEF EndInv

----------------------------------------------------------------------------
(* What EndInv is for. *)
LEMMA KeptInOne ==
    ASSUME NEW p \in published, OnePlace(p), p = <<p[1], p[2]>>
    PROVE  Cardinality(Custody(p[1], p[2])) = IF p[2] \in told THEN 0 ELSE 1
<1> DEFINE C == Custody(p[1], p[2])
<1>1. C = (IF InSlot(p) THEN {"slot"} ELSE {})
          \cup (IF InParking(p) THEN {"parked"} ELSE {})
          \cup (IF InSafety(p) THEN {"safety"} ELSE {})
          \cup (IF InDrain(p) THEN {"drain"} ELSE {})
          \cup (IF InOp(p) THEN {"op"} ELSE {})
  BY DEF Custody, InSlot, InParking, InSafety, InDrain, InOp
<1> HIDE DEF C
<1>2. CASE p[2] \in told
  <2>1. C = {}
    BY <1>1, <1>2 DEF OnePlace, Kept
  <2> QED
    BY <1>2, <2>1, FS_EmptySet DEF C
<1>3. CASE p[2] \notin told
  <2>1. \E where : C = {where}
    <3>1. CASE InSlot(p)
      BY <1>1, <3>1 DEF OnePlace, KeptOnce
    <3>2. CASE InParking(p)
      BY <1>1, <3>2 DEF OnePlace, KeptOnce
    <3>3. CASE InSafety(p)
      BY <1>1, <3>3 DEF OnePlace, KeptOnce
    <3>4. CASE InDrain(p)
      BY <1>1, <3>4 DEF OnePlace, KeptOnce
    <3>5. CASE InOp(p)
      BY <1>1, <3>5 DEF OnePlace, KeptOnce
    <3> QED
      BY <1>3, <3>1, <3>2, <3>3, <3>4, <3>5 DEF OnePlace, Kept
  <2>2. Cardinality(C) = 1
    BY <2>1, FS_Singleton
  <2> QED
    BY <1>3, <2>2 DEF C
<1> QED
  BY <1>2, <1>3

LEMMA EndProtects == Typed /\ EndInv => EndToldOnce
<1> SUFFICES ASSUME Typed, EndInv PROVE EndToldOnce
  OBVIOUS
<1>1. \A p \in published : p[1] \in Resource /\ p = <<p[1], p[2]>>
  BY DEF Typed, SlotsTyped
<1>2. InOnePlace
  BY <1>1, KeptInOne DEF InOnePlace, EndInv, Ends, Owned
<1>3. PendingCount
  BY DEF EndInv, PendingCount, ParkingFree, HandShapes, Room, Sweeps, Counted,
     ParkedAt
<1>4. ASSUME NEW r \in Resource, cur[r] # None, NEW p \in published, p[1] = r,
             p[2] # cur[r].epoch, p[2] \notin told
      PROVE  p[2] \in late
  <2>1. p = <<r, p[2]>> /\ Kept(p) /\ ~InSlot(p)
    BY <1>1, <1>4 DEF EndInv, Ends, Owned, OnePlace, InSlot
  <2>2. parked[r] = None /\ ~Sweeps(r)
    BY <1>4 DEF EndInv, Room, Occupied
  <2>3. ~InParking(p)
    BY <1>4, <2>2 DEF InParking
  <2>4. ~InSafety(p)
    <3>1. ASSUME InSafety(p) PROVE FALSE
      <4>1. <<rev.res, p[2]>> \in published
        BY <3>1 DEF InSafety, EndInv, Ends, Known
      <4>2. rev.res = r
        BY <1>4, <4>1, OneName DEF EndInv, Ends
      <4> QED
        BY <2>2, <3>1, <4>2 DEF InSafety, Sweeps
    <3> QED
      BY <3>1
  <2>5. ~InOp(p)
    BY <1>4 DEF InOp, EndInv, Ends, Takes
  <2>6. InDrain(p)
    BY <2>1, <2>3, <2>4, <2>5 DEF Kept
  <2>7. ~Owes(r, drain.lease)
    BY <1>4 DEF EndInv, Cleared, Occupied
  <2> QED
    BY <2>1, <2>6, <2>7 DEF InDrain, Owes
<1>5. EndToldBeforeNext
  BY <1>4 DEF EndToldBeforeNext
<1>6. StopIsFinal
  BY DEF EndInv, Stopping, AllEnded, StopIsFinal
<1> QED
  BY <1>2, <1>3, <1>5, <1>6 DEF EndToldOnce

(* The observer hears of the end of every published lease exactly once,    *)
(* whoever ended it (notifyLeaseEnded): until then the end is in the slot, *)
(* parked, or in one thread's hands, and revPending counts what RevokeAll  *)
(* has left to tell. No lease is published over an untold end of its slot, *)
(* but for those RevokeAll takes late; and Stop returns with nothing held  *)
(* and nothing untold (slot.go 56-62, 180-184; module.go's Stop).          *)
THEOREM EndsToldOnce == ControlSpec /\ []NoWrap => []EndToldOnce
<1>1. Init => Typed /\ RefInv /\ EndInv
  BY InitTyped, RefInit, EndInit
<1>2. Typed /\ RefInv /\ EndInv /\ NoWrap /\ [Next]_controlAll
        => (Typed /\ RefInv /\ EndInv)'
  BY TypedStep, RefStep, EndStep DEF Next, AnyNext
<1> QED
  BY <1>1, <1>2, EndProtects, PTL DEF ControlSpec

----------------------------------------------------------------------------
(* How an issue gets where it publishes and looks again. *)
LEMMA Onward ==
    ASSUME Typed, DrainerHolds, [Next]_controlAll,
           op'.pc \in {"freshen", "publish", "recheck"}
    PROVE  op' = op \/ Sequence \/ Freshen \/ Publish
<1> USE DEF slotVars, revokeVars, historyVars
<1>1. ~Begins
  BY BeginsFresh
<1>2. Walks => Sequence \/ Freshen
  <2>1. Walks => op.pc \in {"sequence", "freshen"} /\ op'.pc # "recheck"
    BY WalksOn DEF Issuing
  <2> QED
    BY <2>1 DEF Walks, Admit, Inspect, Bump, Recheck, Renewed, Expire
<1>3. ~(\/ Flush \/ Preempt \/ Undo \/ Renew \/ Drop
        \/ (\E r \in Resource : Sweep(r)) \/ Settle \/ StopLock)
  <2> USE DEF Typed, OpTyped, OpType, OpSense
  <2>1. ~(Flush \/ Preempt)
    BY DEF Flush, Preempt, Go
  <2>2. ~Drop
    BY DEF Drop, Take, Go
  <2>3. ~\E r \in Resource : Sweep(r)
    BY DEF Sweep, Take
  <2>4. ~(Undo \/ Renew)
    BY DEF Undo, Renew, Go, NoOp
  <2>5. ~Settle
    <3>1. Settle => op' = NoOp \/ op' = [op EXCEPT !.pc = "bump", !.dropped = {}]
      BY DEF Settle
    <3>2. ASSUME op' = [op EXCEPT !.pc = "bump", !.dropped = {}] PROVE FALSE
      BY <3>2
    <3> QED
      BY <3>1, <3>2, NoOpIdle
  <2>6. ~StopLock
    BY DEF StopLock, NoOp
  <2> QED
    BY <2>1, <2>2, <2>3, <2>4, <2>5, <2>6
<1>5. CASE Aside
  BY <1>5, AsideStill
<1>6. CASE DrainEnd
  BY <1>6 DEF DrainEnd, DrainDone, DrainerHolds, Typed, OpTyped, OpType, OpSense
<1>7. CASE \/ (\E r \in Resource : DrainSlot(r))
           \/ DrainTell \/ DrainCount \/ LaneDrain \/ CloseStop
           \/ (\E r \in Resource : RevokeSwap(r))
  BY <1>7 DEF DrainSlot, DrainTell, DrainCount, LaneDrain, CloseStop, RevokeSwap
<1>8. CASE \/ RevokeEnter \/ RevokeFloor \/ RevokeCount \/ RevokePark
           \/ RevokeReturn \/ SafetyTrips \/ SafetyRevokes
  BY <1>8 DEF RevokeEnter, RevokeFloor, RevokeCount, RevokePark, RevokeReturn,
     SafetyTrips, SafetyRevokes, RevokeAll
<1> QED
  BY <1>1, <1>2, <1>3, <1>5, <1>6, <1>7, <1>8, StepKinds

----------------------------------------------------------------------------
(***************************************************************************)
(* CheckAtomic. A call that finds its lease in the slot again has found it *)
(* there all along, because no epoch returns to a slot; and the deadman of *)
(* a lease starts from its own input, because freshness is stored before   *)
(* the lease is, and only ever rises.                                      *)
(***************************************************************************)
CallType ==
    [pc: {"idle", "judge", "confirm", "proved", "mark"},
     res: Resource \cup {None}, lease: LeaseOrNone, now: Nat, held: BOOLEAN]
CallsTyped ==
    /\ fresh \in [Resource -> Nat]
    /\ call \in [Caller -> CallType]
    /\ \A k \in Caller : call[k].pc = "mark" => call[k].res \in Resource
Loaded(c) == c.res \in Resource /\ <<c.res, c.lease.epoch>> \in published
CallsKnown ==
    \A k \in Caller : call[k].pc \in {"judge", "confirm"} => Loaded(call[k])
CallsHeld ==
    \A k \in Caller :
        /\ call[k].pc = "proved" => call[k].held
        /\ call[k].pc = "confirm" /\ ~call[k].held =>
              ~SlotHolds(call[k].res, call[k].lease)
FreshFirst == op.pc = "publish" => fresh[op.res] >= op.now
CheckInv ==
    CallsTyped /\ CallsKnown /\ CallsHeld /\ FreshFirst /\ FreshFromBirth

CallStep(k) ==
    \/ CallJudge(k) \/ CallConfirm(k) \/ CallMark(k) \/ CallReturn(k)
    \/ \E r \in Resource : CallLoad(k, r)

LEMMA CheckInit == Init => CheckInv
BY DEF Init, ControlInit, CheckInv, CallsTyped, CallType, CallsKnown, CallsHeld,
   FreshFirst, FreshFromBirth, NoCall, NoOp, LeaseOrNone

(* Who touches call and fresh. *)
LEMMA OthersCall ==
    ASSUME [Next]_controlAll
    PROVE  \/ UNCHANGED <<call, fresh>>
           \/ (Freshen \/ Renewed) /\ UNCHANGED call
           \/ \E k \in Caller : CallStep(k)
<1> USE DEF slotVars, revokeVars, historyVars
<1>1. CASE Begins
  BY <1>1 DEF Begins, Acquire, RenewBegin, Release, RevokeResource, RevokeConn,
     RevokeByPackage, LaneLock
<1>2. CASE Walks
  BY <1>2 DEF Walks, Admit, Inspect, Bump, Sequence, Freshen, Recheck, Renewed,
     Expire
<1>3. CASE Aside
  BY <1>3 DEF Aside, LaneScan, LaneExit, Tick, SafetyRecovers, Exit,
     SafetyRearms, CallStep, controlAll, controlVars
<1>4. CASE \/ Flush \/ Preempt \/ Publish \/ Undo \/ Renew \/ Drop
           \/ (\E r \in Resource : Sweep(r)) \/ Settle \/ StopLock \/ CloseStop
  BY <1>4 DEF Flush, Preempt, Publish, Undo, Renew, Drop, Sweep, Settle,
     StopLock, CloseStop
<1>5. CASE \/ \E r \in Resource : DrainSlot(r)
           \/ DrainTell \/ DrainCount \/ DrainEnd \/ LaneDrain
  BY <1>5 DEF DrainSlot, DrainTell, DrainCount, DrainEnd, LaneDrain
<1>6. CASE \/ RevokeEnter \/ RevokeFloor
           \/ (\E r \in Resource : RevokeSwap(r))
           \/ RevokeCount \/ RevokePark \/ RevokeReturn
           \/ SafetyTrips \/ SafetyRevokes
  BY <1>6 DEF RevokeEnter, RevokeFloor, RevokeSwap, RevokeCount, RevokePark,
     RevokeReturn, SafetyTrips, SafetyRevokes, RevokeAll
<1> QED
  BY <1>1, <1>2, <1>3, <1>4, <1>5, <1>6, StepKinds

LEMMA Marks ==
    ASSUME CallsTyped, NEW r \in Resource, NEW now \in Nat, MarkFresh(r, now)
    PROVE  /\ fresh' \in [Resource -> Nat] /\ fresh'[r] >= now
           /\ \A s \in Resource : fresh'[s] >= fresh[s]
BY DEF MarkFresh, CallsTyped

LEMMA CallsTypedStep ==
    ASSUME Typed, CallsTyped, CallsKnown, [Next]_controlAll
    PROVE  CallsTyped' /\ \A s \in Resource : fresh'[s] >= fresh[s]
<1> USE DEF slotVars, revokeVars, historyVars
<1>1. CASE UNCHANGED <<call, fresh>>
  BY <1>1 DEF CallsTyped
<1>2. CASE (Freshen \/ Renewed) /\ UNCHANGED call
  <2>1. op.now \in Nat /\ MarkFresh(op.res, op.now)
    BY <1>2 DEF Freshen, Renewed, Typed, OpTyped, OpType
  <2>2. fresh' = fresh \/ op.res \in Resource
    BY <2>1 DEF MarkFresh, CallsTyped
  <2>3. fresh' \in [Resource -> Nat] /\ \A s \in Resource : fresh'[s] >= fresh[s]
    BY <2>1, <2>2, Marks DEF CallsTyped
  <2> QED
    BY <1>2, <2>3 DEF CallsTyped
<1>3. ASSUME NEW k \in Caller, CallStep(k) PROVE
             CallsTyped' /\ \A s \in Resource : fresh'[s] >= fresh[s]
  <2>1. NoCall \in CallType /\ NoCall.pc = "idle"
    BY DEF NoCall, CallType, LeaseOrNone
  <2>2. ASSUME NEW c \in CallType, call' = [call EXCEPT ![k] = c],
               c.pc = "mark" => c.res \in Resource, UNCHANGED fresh
        PROVE  CallsTyped' /\ \A s \in Resource : fresh'[s] >= fresh[s]
    BY <2>2 DEF CallsTyped
  <2>3. call[k] \in CallType
    BY DEF CallsTyped
  <2>4. ASSUME NEW r \in Resource, CallLoad(k, r)
        PROVE  CallsTyped' /\ \A s \in Resource : fresh'[s] >= fresh[s]
    <3>1. [pc |-> "judge", res |-> r, lease |-> cur[r], now |-> clock,
           held |-> FALSE] \in CallType
      BY DEF Typed, SlotsTyped, CallType
    <3> QED
      BY <2>2, <2>4, <3>1 DEF CallLoad
  <2>5. CASE CallJudge(k) \/ CallReturn(k)
    <3> DEFINE held == SlotHolds(call[k].res, call[k].lease)
               on == [call[k] EXCEPT !.pc = "confirm", !.held = held]
    <3>1. held \in BOOLEAN
      BY DEF SlotHolds
    <3>2. UNCHANGED fresh
          /\ (call' = [call EXCEPT ![k] = NoCall] \/ call' = [call EXCEPT ![k] = on])
      BY <2>5 DEF CallJudge, CallReturn
    <3> HIDE DEF held
    <3>3. on \in CallType /\ on.pc = "confirm"
      BY <2>3, <3>1 DEF CallType
    <3> HIDE DEF on
    <3> QED
      BY <2>1, <2>2, <3>2, <3>3
  <2>6. CASE CallConfirm(k)
    <3> DEFINE c == call[k]
               proof == [NoCall EXCEPT !.pc = "proved", !.held = c.held]
               mark == [NoCall EXCEPT !.pc = "mark", !.res = c.res, !.now = c.now]
    <3>1. \E next \in {proof, mark, NoCall} :
             call' = [call EXCEPT ![k] = next] /\ UNCHANGED fresh
      BY <2>6 DEF CallConfirm
    <3>2. c.res \in Resource
      BY <2>6 DEF CallConfirm, CallsKnown, Loaded
    <3>3. proof \in CallType /\ mark \in CallType /\ proof.pc = "proved"
          /\ mark.res \in Resource
      BY <2>3, <3>2 DEF NoCall, CallType, LeaseOrNone
    <3> HIDE DEF proof, mark
    <3> QED
      BY <2>1, <2>2, <3>1, <3>3
  <2>7. CASE CallMark(k)
    <3>1. /\ MarkFresh(call[k].res, call[k].now)
          /\ call' = [call EXCEPT ![k] = NoCall]
          /\ call[k].res \in Resource /\ call[k].now \in Nat
      BY <2>3, <2>7 DEF CallMark, CallsTyped, CallType
    <3>2. fresh' \in [Resource -> Nat] /\ \A s \in Resource : fresh'[s] >= fresh[s]
      BY <3>1, Marks
    <3> QED
      BY <2>1, <3>1, <3>2 DEF CallsTyped
  <2> QED
    BY <1>3, <2>4, <2>5, <2>6, <2>7 DEF CallStep
<1> QED
  BY <1>1, <1>2, <1>3, OthersCall

(* What was published stays so, and what has left its slot stays out. *)
LEMMA NothingReturns ==
    ASSUME Typed, NoWrap, RefInv, [Next]_controlAll
    PROVE  /\ published \subseteq published'
           /\ \A r \in Resource : \A e \in Nat :
                 <<r, e>> \in published /\ cur'[r] # None /\ cur'[r].epoch = e
                    => cur[r] # None /\ cur[r].epoch = e
<1> USE DEF slotVars, revokeVars, historyVars
<1>1. CASE Quiet
  BY <1>1 DEF Quiet
<1>2. CASE Bump \/ SafetyTrips
  BY <1>2 DEF Bump, SafetyTrips
<1>3. CASE Publish
  <2>1. /\ published' = published \cup {<<op.res, op.epoch>>}
        /\ cur' = [cur EXCEPT ![op.res] = NewLease] /\ Issuing
    BY <1>3 DEF Publish, Issuing
  <2>2. \A p \in published : p[2] < op.epoch
    BY <2>1 DEF RefInv, EpochsOrdered
  <2>3. NewLease.epoch = op.epoch /\ op.epoch \in Nat
    BY DEF NewLease, Typed, OpTyped, OpType
  <2>4. \A r \in Resource : cur'[r] = IF r = op.res THEN NewLease ELSE cur[r]
    BY <2>1 DEF Typed, SlotsTyped
  <2>5. \A r \in Resource : \A e \in Nat : <<r, e>> \in published => e # op.epoch
    BY <2>2, <2>3
  <2> QED
    BY <2>1, <2>3, <2>4, <2>5
<1>4. CASE SafetyRearms
  BY <1>4 DEF SafetyRearms, controlVars
<1> QED
  BY <1>1, <1>2, <1>3, <1>4, StepIsQuietOrLoud DEF Next, RefInv

LEMMA CallsStep ==
    ASSUME Typed, NoWrap, RefInv, Known, CallsTyped, CallsKnown, CallsHeld,
           [Next]_controlAll
    PROVE  CallsKnown' /\ CallsHeld'
<1> USE DEF slotVars, revokeVars, historyVars
<1>1. ASSUME NEW k \in Caller, call'[k] = call[k]
      PROVE  /\ call[k].pc \in {"judge", "confirm"} => Loaded(call[k])'
             /\ call[k].pc = "proved" => call[k].held
             /\ call[k].pc = "confirm" /\ ~call[k].held =>
                   ~SlotHolds(call[k].res, call[k].lease)'
  <2>1. call[k].pc \in {"judge", "confirm"} => Loaded(call[k])'
    BY <1>1, NothingReturns DEF CallsKnown, Loaded
  <2>2. ASSUME call[k].pc = "confirm", ~call[k].held
        PROVE  ~SlotHolds(call[k].res, call[k].lease)'
    <3>1. Loaded(call[k]) /\ ~SlotHolds(call[k].res, call[k].lease)
      BY <2>2 DEF CallsKnown, CallsHeld
    <3>2. call[k].lease.epoch \in Nat
      BY <3>1 DEF Loaded, Typed, SlotsTyped
    <3> QED
      BY <1>1, <3>1, <3>2, NothingReturns DEF Loaded, SlotHolds
  <2> QED
    BY <2>1, <2>2 DEF CallsHeld
<1>2. CASE UNCHANGED call
  BY <1>1, <1>2 DEF CallsKnown, CallsHeld
<1>3. ASSUME NEW k \in Caller, CallStep(k) PROVE CallsKnown' /\ CallsHeld'
  <2>1. UNCHANGED <<cur, published>>
    BY <1>3 DEF CallStep, CallJudge, CallConfirm, CallMark, CallReturn, CallLoad
  <2>2. \A j \in Caller : j # k => call'[j] = call[j]
    BY <1>3 DEF CallStep, CallJudge, CallConfirm, CallMark, CallReturn,
       CallLoad, CallsTyped
  <2>3. /\ call'[k].pc \in {"judge", "confirm"} => Loaded(call[k])'
        /\ call'[k].pc = "proved" => call'[k].held
        /\ call'[k].pc = "confirm" /\ ~call'[k].held =>
              ~SlotHolds(call[k].res, call[k].lease)'
    <3>1. ASSUME NEW r \in Resource, CallLoad(k, r)
          PROVE  /\ call'[k].pc = "judge" /\ Loaded(call[k])'
      <4>1. call'[k] = [pc |-> "judge", res |-> r, lease |-> cur[r],
                        now |-> clock, held |-> FALSE] /\ cur[r] # None
        BY <3>1 DEF CallLoad, CallsTyped
      <4> QED
        BY <2>1, <4>1 DEF Loaded, Known
    <3>2. CASE CallJudge(k)
      <4> DEFINE on == [call[k] EXCEPT !.pc = "confirm",
                          !.held = SlotHolds(call[k].res, call[k].lease)]
      <4>1. call[k].pc = "judge" /\ call'[k] \in {NoCall, on}
        BY <3>2 DEF CallJudge, CallsTyped
      <4>2. /\ on.pc = "confirm" /\ on.res = call[k].res
            /\ on.lease = call[k].lease
            /\ on.held = SlotHolds(call[k].res, call[k].lease)
        BY DEF CallsTyped, CallType
      <4>3. Loaded(call[k])
        BY <4>1 DEF CallsKnown
      <4> HIDE DEF on
      <4>4. CASE call'[k] = NoCall
        BY <4>4 DEF NoCall
      <4>5. CASE call'[k] = on
        <5>1. Loaded(call[k])'
          BY <2>1, <4>2, <4>3, <4>5 DEF Loaded
        <5>2. SlotHolds(call[k].res, call[k].lease)'
                 <=> SlotHolds(call[k].res, call[k].lease)
          BY <2>1, <4>2, <4>5 DEF SlotHolds
        <5>3. SlotHolds(call[k].res, call[k].lease) => call'[k].held
          BY <4>2, <4>5
        <5> QED
          BY <4>2, <4>5, <5>1, <5>2, <5>3
      <4> QED
        BY <4>1, <4>4, <4>5
    <3>3. CASE CallConfirm(k)
      <4> DEFINE c == call[k]
                 proof == [NoCall EXCEPT !.pc = "proved", !.held = c.held]
                 mark == [NoCall EXCEPT !.pc = "mark", !.res = c.res,
                                        !.now = c.now]
      <4>1. /\ c.pc = "confirm"
            /\ IF Confirmed(c) THEN call'[k] \in {proof, mark}
               ELSE call'[k] = NoCall
        BY <3>3 DEF CallConfirm, CallsTyped
      <4>2. Confirmed(c) => c.held
        BY <4>1 DEF Confirmed, CallsHeld, CallsTyped, CallType
      <4>3. /\ proof.pc = "proved" /\ proof.held = c.held /\ mark.pc = "mark"
            /\ NoCall.pc = "idle"
        BY DEF NoCall
      <4> HIDE DEF proof, mark
      <4> QED
        BY <4>1, <4>2, <4>3
    <3>4. CASE CallMark(k) \/ CallReturn(k)
      BY <3>4 DEF CallMark, CallReturn, CallsTyped, NoCall
    <3> QED
      BY <1>3, <3>1, <3>2, <3>3, <3>4 DEF CallStep
  <2> QED
    BY <1>1, <2>2, <2>3 DEF CallsKnown, CallsHeld
<1> QED
  BY <1>2, <1>3, OthersCall

(* Only Publish puts a lease in a slot. *)
LEMMA SameLease ==
    ASSUME Typed, [Next]_controlAll, ~Publish
    PROVE  \A r \in Resource :
              cur'[r] # None => cur[r] # None /\ cur'[r].issued = cur[r].issued
<1> USE DEF slotVars, revokeVars, historyVars
<1>1. CASE Begins \/ Walks \/ Aside
  BY <1>1, BeginsFresh, WalksWorld, AsideStill DEF worldVars
<1>2. CASE Renew
  <2>1. op.old \in Lease
    BY <1>2 DEF Renew, Typed, OpTyped, OpSense
  <2>2. CASE UNCHANGED cur
    BY <2>2
  <2>3. CASE cur[op.res] = op.old
             /\ cur' = [cur EXCEPT ![op.res].deadline = op.now + op.old.ttl]
    BY <2>1, <2>3 DEF Lease, Typed, SlotsTyped
  <2> QED
    BY <1>2, <2>2, <2>3 DEF Renew
<1>3. CASE Preempt \/ Undo
  BY <1>3 DEF Preempt, Undo, Typed, SlotsTyped
<1>4. CASE Drop \/ \E r \in Resource : Sweep(r)
  BY <1>4 DEF Drop, Sweep, Take, Typed, SlotsTyped
<1>5. CASE \E r \in Resource : RevokeSwap(r)
  BY <1>5 DEF RevokeSwap, Typed, SlotsTyped
<1>6. CASE \/ Flush \/ Settle \/ StopLock \/ CloseStop
           \/ (\E r \in Resource : DrainSlot(r))
           \/ DrainTell \/ DrainCount \/ DrainEnd \/ LaneDrain
  BY <1>6 DEF Flush, Settle, StopLock, CloseStop, DrainSlot, DrainTell,
     DrainCount, DrainEnd, LaneDrain
<1>7. CASE \/ RevokeEnter \/ RevokeFloor \/ RevokeCount \/ RevokePark
           \/ RevokeReturn \/ SafetyTrips \/ SafetyRevokes
  BY <1>7 DEF RevokeEnter, RevokeFloor, RevokeCount, RevokePark, RevokeReturn,
     SafetyTrips, SafetyRevokes, RevokeAll
<1> QED
  BY <1>1, <1>2, <1>3, <1>4, <1>5, <1>6, <1>7, StepKinds

LEMMA FreshStep ==
    ASSUME Typed, DrainerHolds, CallsTyped, CallsKnown, FreshFirst,
           FreshFromBirth, [Next]_controlAll
    PROVE  FreshFirst' /\ FreshFromBirth'
<1> USE DEF slotVars, revokeVars, historyVars
<1>1. CallsTyped' /\ \A s \in Resource : fresh'[s] >= fresh[s]
  BY CallsTypedStep
<1>2. ASSUME op'.pc = "publish", ~Freshen PROVE op' = op
  <2>1. Sequence => op'.pc # "publish"
    BY DEF Sequence, NoOp, Typed, OpTyped, OpType
  <2>2. Publish => op'.pc # "publish"
    BY DEF Publish, Go, Typed, OpTyped, OpType
  <2> QED
    BY <1>2, <2>1, <2>2, Onward
<1>3. op.pc \in {"freshen", "publish"} => op.res \in Resource /\ op.now \in Nat
  BY DEF Typed, OpTyped, OpSense, OpType, Acquiring
<1>4. FreshFirst'
  <2>1. CASE Freshen
    <3>1. MarkFresh(op.res, op.now) /\ op' = [op EXCEPT !.pc = "publish"]
          /\ op.res \in Resource /\ op.now \in Nat
      BY <1>3, <2>1 DEF Freshen, Go
    <3>2. op'.res = op.res /\ op'.now = op.now
      BY <3>1 DEF Typed, OpTyped, OpType
    <3> QED
      BY <3>1, <3>2, Marks DEF FreshFirst
  <2>2. CASE ~Freshen
    <3>1. ASSUME op'.pc = "publish" PROVE fresh'[op'.res] >= op'.now
      <4>1. op' = op
        BY <1>2, <2>2, <3>1
      <4>2. fresh[op.res] >= op.now /\ op.res \in Resource /\ op.now \in Nat
        BY <1>3, <3>1, <4>1 DEF FreshFirst
      <4>3. fresh[op.res] \in Nat /\ fresh'[op.res] \in Nat
        BY <1>1, <4>2 DEF CallsTyped
      <4> QED
        BY <1>1, <4>1, <4>2, <4>3
    <3> QED
      BY <3>1 DEF FreshFirst
  <2> QED
    BY <2>1, <2>2
<1>5. ASSUME NEW r \in Resource, cur'[r] # None PROVE fresh'[r] >= cur'[r].issued
  <2>1. fresh[r] \in Nat /\ fresh'[r] \in Nat /\ fresh'[r] >= fresh[r]
    BY <1>1 DEF CallsTyped
  <2>2. ASSUME cur[r] # None, cur'[r].issued = cur[r].issued
        PROVE  fresh'[r] >= cur'[r].issued
    <3>1. cur[r].issued \in Nat /\ fresh[r] >= cur[r].issued
      BY <2>2 DEF Typed, SlotsTyped, LeaseOrNone, Lease, FreshFromBirth
    <3> QED
      BY <2>1, <2>2, <3>1
  <2>3. CASE ~Publish
    BY <1>5, <2>2, <2>3, SameLease
  <2>4. CASE Publish
    <3>1. op.pc = "publish" /\ cur' = [cur EXCEPT ![op.res] = NewLease]
      BY <2>4 DEF Publish
    <3>2. CASE r # op.res
      BY <1>5, <2>2, <3>1, <3>2 DEF Typed, SlotsTyped
    <3>3. CASE r = op.res
      <4>1. cur'[r] = NewLease
        BY <3>1, <3>3 DEF Typed, SlotsTyped
      <4>2. NewLease.issued = op.now
        BY DEF NewLease
      <4>3. fresh[r] >= op.now /\ op.now \in Nat
        BY <1>3, <3>1, <3>3 DEF FreshFirst
      <4> QED
        BY <2>1, <4>1, <4>2, <4>3
    <3> QED
      BY <3>2, <3>3
  <2> QED
    BY <2>3, <2>4
<1> QED
  BY <1>4, <1>5 DEF FreshFromBirth

(* A proof that Check hands out was true at one instant inside the call,   *)
(* and the lease's deadman counted from its own input (CheckLease,         *)
(* CheckResource: load, judge, look again; slot.go 201).                   *)
THEOREM ChecksAreAtomic == ControlSpec /\ []NoWrap => []CheckAtomic
<1>1. Init => Typed /\ RefInv /\ EndInv /\ CheckInv
  BY InitTyped, RefInit, EndInit, CheckInit
<1>2. Typed /\ RefInv /\ EndInv /\ CheckInv /\ NoWrap /\ [Next]_controlAll
        => (Typed /\ RefInv /\ EndInv /\ CheckInv)'
  <2> SUFFICES ASSUME Typed, RefInv, EndInv, CheckInv, NoWrap, [Next]_controlAll
               PROVE  (Typed /\ RefInv /\ EndInv /\ CheckInv)'
    OBVIOUS
  <2>1. Typed' /\ RefInv' /\ EndInv'
    BY TypedStep, RefStep, EndStep DEF Next, AnyNext
  <2>2. CheckInv'
    BY CallsTypedStep, CallsStep, FreshStep
       DEF CheckInv, RefInv, EndInv, Ends
  <2> QED
    BY <2>1, <2>2
<1>3. CheckInv => CheckAtomic
  BY DEF CheckInv, CallsHeld, CheckAtomic
<1> QED
  BY <1>1, <1>2, <1>3, PTL DEF ControlSpec

----------------------------------------------------------------------------
(***************************************************************************)
(* GrantIsEffective. While the gate's epoch is still the one an issue took *)
(* no halt is known from its epoch on, so the floor is below it; and while *)
(* the seqlock reads as it did when the issue looked at it, RevokeAll has  *)
(* touched no slot since.                                                  *)
(***************************************************************************)
Halts == {safetyFloor, rev.epoch} \cup awaiting
Granting == Issuing \/ op.pc = "recheck"
HaltsOlder ==
    /\ \A e \in Halts : e <= gate.epoch
    /\ Granting => /\ op.epoch <= gate.epoch
                   /\ gate.epoch = op.epoch => \A e \in Halts : e < op.epoch
SeqUntouched ==
    op.pc \in {"freshen", "publish", "recheck"} =>
        /\ op.seq <= revokeSeq /\ op.seq % 2 = 0
        /\ op.pc = "recheck" /\ revokeSeq = op.seq =>
              SlotHolds(op.res, op)
GrantInv == HaltsOlder /\ SeqUntouched

LEMMA GrantInit == Init => GrantInv
BY DEF Init, LatchInit, GateInit, ControlInit, NoOp, NoRev, GrantInv, HaltsOlder,
   Halts, Granting, Issuing, SeqUntouched

(* Only a trip adds to the halts, and it moves the epoch. *)
LEMMA HaltsStep ==
    ASSUME Typed, NoWrap, DrainerHolds, [Next]_controlAll
    PROVE  \/ Halts' \subseteq Halts \cup {0} /\ gate'.epoch >= gate.epoch
           \/ /\ Halts' \subseteq Halts \cup {gate'.epoch}
              /\ gate'.epoch > gate.epoch /\ op' = op
<1> USE DEF slotVars, revokeVars, historyVars
<1>1. gate.epoch \in Nat /\ IncEpoch(gate.epoch) = gate.epoch + 1
  BY Climbs DEF Typed, GateTyped
<1>2. CASE SafetyTrips
  <2>1. UNCHANGED <<safetyFloor, rev, op>>
    BY <1>2 DEF SafetyTrips
  <2>2. CASE gate' = gate
    <3>1. awaiting' = awaiting
      BY <1>2, <2>2 DEF SafetyTrips, LatchTrip
    <3> QED
      BY <1>1, <2>1, <2>2, <3>1 DEF Halts
  <2>3. CASE gate' # gate
    <3>1. awaiting' = awaiting \cup {gate'.epoch} /\ gate'.epoch = gate.epoch + 1
      BY <1>1, <1>2, <2>3 DEF SafetyTrips, LatchTrip, TripGate
    <3> QED
      BY <1>1, <2>1, <3>1 DEF Halts
  <2> QED
    BY <2>2, <2>3
<1>3. CASE SafetyRearms
  <2>1. gate'.epoch = gate.epoch + 1
    BY <1>1, <1>3 DEF SafetyRearms, RearmGate
  <2> QED
    BY <1>1, <1>3, <2>1 DEF SafetyRearms, controlVars, Halts
<1>4. gate'.epoch >= gate.epoch \/ SafetyTrips
  <2>1. Quiet => gate'.epoch >= gate.epoch
    BY DEF Quiet
  <2>2. Bump => gate'.epoch >= gate.epoch
    BY <1>1 DEF Bump, BumpEpochIfNormal, BumpEpoch, Typed, GateTyped
  <2>3. Publish => gate'.epoch >= gate.epoch
    BY <1>1 DEF Publish
  <2>4. SafetyRearms => gate'.epoch >= gate.epoch
    BY <1>1 DEF SafetyRearms, RearmGate
  <2> QED
    BY <2>1, <2>2, <2>3, <2>4, StepIsQuietOrLoud DEF Next
<1>5. CASE LatchUntouched \/ UNCHANGED controlAll \/ SafetyRecovers
  <2>1. UNCHANGED <<safetyFloor, rev, awaiting>>
    BY <1>5 DEF LatchUntouched, controlAll, controlVars, SafetyRecovers
  <2> QED
    BY <1>2, <1>4, <2>1 DEF Halts
<1>6. CASE \/ RevokeEnter \/ RevokeCount \/ RevokePark
           \/ \E r \in Resource : RevokeSwap(r)
  <2>1. UNCHANGED <<safetyFloor, awaiting>> /\ rev'.epoch = rev.epoch
    BY <1>6 DEF RevokeEnter, RevokeCount, RevokePark, RevokeSwap, Typed,
       RevTyped, RevType
  <2> QED
    BY <1>2, <1>4, <2>1 DEF Halts
<1>7. CASE RevokeFloor
  <2>1. /\ awaiting' = awaiting /\ rev'.epoch = rev.epoch
        /\ safetyFloor' \in {safetyFloor, rev.epoch}
    BY <1>7 DEF RevokeFloor, Typed, RevTyped, RevType
  <2> QED
    BY <1>2, <1>4, <2>1 DEF Halts
<1>8. CASE RevokeReturn
  <2>1. /\ awaiting' \subseteq awaiting /\ rev'.epoch = 0
        /\ safetyFloor' = safetyFloor
    BY <1>8 DEF RevokeReturn, LatchServed, NoRev
  <2> QED
    BY <1>2, <1>4, <2>1 DEF Halts
<1>9. CASE SafetyRevokes
  <2>1. PICK n \in awaiting : rev' = [NoRev EXCEPT !.pc = "enter", !.epoch = n]
    BY <1>9 DEF SafetyRevokes, RevokeAll
  <2>2. rev'.epoch = n /\ UNCHANGED <<awaiting, safetyFloor>>
    BY <1>9, <2>1 DEF SafetyRevokes, RevokeAll, NoRev
  <2> QED
    BY <1>2, <1>4, <2>2 DEF Halts
<1> QED
  BY <1>2, <1>3, <1>5, <1>6, <1>7, <1>8, <1>9, ControlLatchUntouched
     DEF Next, NextButRearm, RevokeWork

LEMMA HaltsOlderStep ==
    ASSUME Typed, Typed', NoWrap, RefInv, HaltsOlder, [Next]_controlAll
    PROVE  HaltsOlder'
<1> USE DEF slotVars, revokeVars, historyVars
<1>1. /\ gate.epoch \in Nat /\ gate'.epoch \in Nat /\ op.epoch \in Nat
      /\ Halts \subseteq Nat /\ safetyFloor \in Halts
  BY DEF Typed, GateTyped, OpTyped, OpType, RevTyped, RevType, Halts
<1>2. CASE Halts' \subseteq Halts \cup {0} /\ gate'.epoch >= gate.epoch
  <2>1. \A e \in Halts' : e <= gate'.epoch
    BY <1>1, <1>2 DEF HaltsOlder
  <2>2. ASSUME Granting, op'.epoch = op.epoch
        PROVE  /\ op'.epoch <= gate'.epoch
               /\ gate'.epoch = op'.epoch => \A e \in Halts' : e < op'.epoch
    BY <1>1, <1>2, <2>2 DEF HaltsOlder
  <2>3. ASSUME Granting', ~(Granting /\ op'.epoch = op.epoch)
        PROVE  Bump /\ op'.epoch = gate'.epoch /\ gate'.epoch = gate.epoch + 1
    <3>1. CASE op'.pc = "recheck"
      <4>1. Publish \/ op' = op
        <5>1. Sequence => op'.pc # "recheck"
          BY DEF Sequence, NoOp, Typed, OpTyped, OpType
        <5>2. Freshen => op'.pc # "recheck"
          BY DEF Freshen, Go, Typed, OpTyped, OpType
        <5> QED
          BY <3>1, <5>1, <5>2, Onward DEF RefInv
      <4> QED
        BY <2>3, <3>1, <4>1 DEF Granting, Issuing, Publish, Go, Typed, OpTyped,
           OpType
    <3>2. CASE Issuing'
      <4>1. ~Quiet
        BY <2>3, <3>2 DEF Quiet, Granting
      <4>2. ~Publish /\ ~SafetyTrips /\ ~SafetyRearms
        BY <2>3, <3>2, HolderIssuesNot DEF SafetyTrips, SafetyRearms, controlVars,
           Granting, Issuing
      <4>3. Bump
        BY <4>1, <4>2, StepIsQuietOrLoud DEF Next, RefInv
      <4>4. Normal /\ op' = [op EXCEPT !.pc = "flush", !.next = "sequence",
                                       !.epoch = gate'.epoch]
        BY <3>2, <4>3 DEF Bump, NoOp, Issuing
      <4> QED
        BY <4>3, <4>4, Climbs DEF Bump, BumpEpochIfNormal, BumpEpoch, Typed,
           GateTyped, OpTyped, OpType
    <3> QED
      BY <2>3, <3>1, <3>2 DEF Granting
  <2>4. ASSUME Granting'
        PROVE  /\ op'.epoch <= gate'.epoch
               /\ gate'.epoch = op'.epoch => \A e \in Halts' : e < op'.epoch
    BY <1>1, <1>2, <2>2, <2>3, <2>4 DEF HaltsOlder
  <2> QED
    BY <2>1, <2>4 DEF HaltsOlder
<1>3. CASE /\ Halts' \subseteq Halts \cup {gate'.epoch}
           /\ gate'.epoch > gate.epoch /\ op' = op
  BY <1>1, <1>3 DEF HaltsOlder, Granting, Issuing
<1> QED
  BY <1>2, <1>3, HaltsStep DEF RefInv

LEMMA SeqStep ==
    ASSUME Typed, Typed', DrainerHolds, HandShapes, SeqUntouched, [Next]_controlAll
    PROVE  SeqUntouched'
<1> USE DEF slotVars, revokeVars, historyVars
<1>1. revokeSeq \in Nat /\ op.seq \in Nat /\ revokeSeq' \in Nat
  BY DEF Typed, SlotsTyped, OpTyped, OpType
<1>2. CASE Sequence
  BY <1>1, <1>2 DEF Sequence, MayPublish, NoOp, SeqUntouched, Typed, OpTyped, OpType
<1>3. CASE Freshen
  BY <1>1, <1>3 DEF Freshen, Go, SeqUntouched, Typed, OpTyped, OpType
<1>4. CASE Publish
  <2>1. /\ op'.pc = "recheck" /\ op'.seq = op.seq /\ op'.res = op.res
        /\ op'.epoch = op.epoch /\ revokeSeq' = revokeSeq
    BY <1>4 DEF Publish, Go, Typed, OpTyped, OpType
  <2>2. op.res \in Resource /\ NewLease \in Lease /\ NewLease.epoch = op.epoch
    BY <1>4, NewLeaseTyped DEF Publish, Typed, OpTyped, OpSense, Acquiring, NewLease
  <2>3. cur'[op.res] = NewLease /\ NewLease # None
    BY <1>4, <2>2 DEF Publish, Typed, SlotsTyped
  <2> QED
    BY <1>4, <2>1, <2>2, <2>3 DEF SeqUntouched, SlotHolds, Publish
<1>5. ASSUME op' = op, op.pc \in {"freshen", "publish", "recheck"}
      PROVE  SeqUntouched'
  <2>1. op.seq <= revokeSeq /\ op.seq % 2 = 0
    BY <1>5 DEF SeqUntouched
  <2>2. revokeSeq' = revokeSeq \/ revokeSeq' = revokeSeq + 1
    <3>1. CASE Begins \/ Walks \/ Aside
      BY <3>1, BeginsFresh, WalksWorld, AsideStill DEF worldVars
    <3>2. CASE \/ Flush \/ Preempt \/ Publish \/ Undo \/ Renew \/ Drop
               \/ (\E r \in Resource : Sweep(r)) \/ Settle \/ StopLock \/ CloseStop
               \/ SafetyTrips
      BY <3>2 DEF Flush, Preempt, Publish, Undo, Renew, Drop, Sweep, Settle,
         StopLock, CloseStop, SafetyTrips
    <3>3. CASE \/ (\E r \in Resource : DrainSlot(r))
               \/ DrainTell \/ DrainCount \/ DrainEnd \/ LaneDrain
      BY <3>3 DEF DrainSlot, DrainTell, DrainCount, DrainEnd, LaneDrain
    <3>4. CASE \/ RevokeEnter \/ RevokeFloor \/ RevokeCount \/ RevokePark
               \/ (\E r \in Resource : RevokeSwap(r)) \/ RevokeReturn
               \/ SafetyRevokes
      BY <3>4 DEF RevokeEnter, RevokeFloor, RevokeCount, RevokePark, RevokeSwap,
         RevokeReturn, SafetyRevokes, RevokeAll
    <3> QED
      BY <3>1, <3>2, <3>3, <3>4, StepKinds
  <2>3. ASSUME op.pc = "recheck", revokeSeq' = op.seq
        PROVE  SlotHolds(op.res, op)'
    <3>1. revokeSeq = op.seq /\ revokeSeq % 2 = 0
      BY <1>1, <2>1, <2>2, <2>3
    <3>2. SlotHolds(op.res, op)
      BY <2>3, <3>1 DEF SeqUntouched
    <3>3. rev.pc \in {"idle", "enter"}
      BY <3>1 DEF HandShapes
    <3>4. cur' = cur
      <4>1. CASE Begins \/ Walks \/ Aside
        BY <4>1, BeginsFresh, WalksWorld, AsideStill DEF worldVars
      <4>2. ~(Preempt \/ Publish \/ Undo \/ Renew \/ Drop)
        BY <2>3 DEF Preempt, Publish, Undo, Renew, Drop
      <4>3. ~((\E r \in Resource : Sweep(r)) \/ Settle)
        BY <2>3 DEF Sweep, Settle
      <4>4. CASE Flush \/ StopLock \/ CloseStop \/ SafetyTrips
        BY <4>4 DEF Flush, StopLock, CloseStop, SafetyTrips
      <4>5. CASE \/ (\E r \in Resource : DrainSlot(r))
                 \/ DrainTell \/ DrainCount \/ DrainEnd \/ LaneDrain
        BY <4>5 DEF DrainSlot, DrainTell, DrainCount, DrainEnd, LaneDrain
      <4>6. ~\E r \in Resource : RevokeSwap(r)
        BY <3>3 DEF RevokeSwap
      <4>7. CASE \/ RevokeEnter \/ RevokeFloor \/ RevokeCount \/ RevokePark
                 \/ RevokeReturn \/ SafetyRevokes
        BY <4>7 DEF RevokeEnter, RevokeFloor, RevokeCount, RevokePark,
           RevokeReturn, SafetyRevokes, RevokeAll
      <4> QED
        BY <4>1, <4>2, <4>3, <4>4, <4>5, <4>6, <4>7, StepKinds
    <3> QED
      BY <1>5, <3>2, <3>4 DEF SlotHolds
  <2> QED
    BY <1>1, <1>5, <2>1, <2>2, <2>3 DEF SeqUntouched
<1> QED
  BY <1>2, <1>3, <1>4, <1>5, Onward DEF SeqUntouched

(* From there, mu's holder only looks again. *)
LEMMA WhoGrants ==
    ASSUME Typed, DrainerHolds, Next, op.pc = "recheck", op' # op PROVE Recheck
<1> USE DEF slotVars, revokeVars, historyVars
<1>1. ~Begins
  BY BeginsFresh DEF NoOp
<1>2. Walks => Recheck
  BY DEF Walks, Admit, Inspect, Bump, Sequence, Freshen, Renewed, Expire
<1>3. ~(Preempt \/ Publish \/ Undo \/ Renew \/ Drop)
  BY DEF Preempt, Publish, Undo, Renew, Drop
<1>4. ~((\E r \in Resource : Sweep(r)) \/ Settle \/ Flush \/ StopLock)
  BY DEF Sweep, Settle, Flush, StopLock, NoOp
<1>5. ~Aside
  BY AsideStill
<1>6. ~DrainEnd
  BY DEF DrainEnd, DrainDone, DrainerHolds
<1>7. ~(\/ (\E r \in Resource : DrainSlot(r))
        \/ DrainTell \/ DrainCount \/ LaneDrain \/ CloseStop
        \/ (\E r \in Resource : RevokeSwap(r)))
  BY DEF DrainSlot, DrainTell, DrainCount, LaneDrain, CloseStop, RevokeSwap
<1>8. ~(\/ RevokeEnter \/ RevokeFloor \/ RevokeCount \/ RevokePark
        \/ RevokeReturn \/ SafetyTrips \/ SafetyRevokes)
  BY DEF RevokeEnter, RevokeFloor, RevokeCount, RevokePark, RevokeReturn,
     SafetyTrips, SafetyRevokes, RevokeAll
<1> QED
  BY <1>1, <1>2, <1>3, <1>4, <1>5, <1>6, <1>7, <1>8, StepKinds

(* An Acquire that reports success has put a lease in its slot that is     *)
(* there and above the floor at that moment: a trip, a RevokeAll and a     *)
(* re-arm since the epoch was taken show in the gate's epoch or in the     *)
(* seqlock (issueLocked's second look, slot.go).                           *)
THEOREM GrantsAreEffective == ControlSpec /\ []NoWrap => GrantIsEffective
<1>1. Init => Typed /\ RefInv /\ HandShapes /\ GrantInv
  BY InitTyped, RefInit, EndInit, GrantInit DEF EndInv
<1>2. Typed /\ RefInv /\ HandShapes /\ GrantInv /\ NoWrap /\ [Next]_controlAll
        => (Typed /\ RefInv /\ HandShapes /\ GrantInv)'
  <2> SUFFICES ASSUME Typed, RefInv, HandShapes, GrantInv, NoWrap,
                      [Next]_controlAll
               PROVE  (Typed /\ RefInv /\ HandShapes /\ GrantInv)'
    OBVIOUS
  <2>1. Typed' /\ RefInv' /\ HandShapes'
    BY TypedStep, RefStep, HandStep DEF Next, AnyNext
  <2>2. GrantInv'
    BY <2>1, HaltsOlderStep, SeqStep DEF GrantInv, RefInv
  <2> QED
    BY <2>1, <2>2
<1>3. Typed /\ RefInv /\ GrantInv /\ [Next]_controlAll
        => [op.pc = "recheck" /\ op' = NoOp =>
               Effective(op.res) /\ SlotHolds(op.res, op)]_controlAll
  <2> SUFFICES ASSUME Typed, RefInv, GrantInv, Next, op.pc = "recheck", op' = NoOp
               PROVE  Effective(op.res) /\ SlotHolds(op.res, op)
    OBVIOUS
  <2>1. Recheck
    <3>1. op'.pc = "idle" /\ op' # op
      BY DEF NoOp
    <3> QED
      BY <3>1, WhoGrants DEF RefInv
  <2>2. StillCurrent
    BY <2>1 DEF Recheck, NoOp, Typed, OpTyped, OpType
  <2>3. SlotHolds(op.res, op)
    BY <2>2 DEF StillCurrent, GrantInv, SeqUntouched
  <2>4. safetyFloor < op.epoch
    BY <2>2 DEF StillCurrent, GrantInv, HaltsOlder, Halts, Granting
  <2> QED
    BY <2>2, <2>3, <2>4 DEF Effective, StillCurrent, SlotHolds
<1> QED
  BY <1>1, <1>2, <1>3, PTL DEF ControlSpec, GrantIsEffective

----------------------------------------------------------------------------
(***************************************************************************)
(* The composition.                                                        *)
(***************************************************************************)

SP == INSTANCE SafetySupervisorProofs

(* An assumption about the Operator's side: no lock of module.go's Rearm   *)
(* keeps two of its callers apart.                                         *)
OneRearmer == \A t, u \in Rearmer : t = u

(* The composition leaves each half's Stop to that half.                   *)
Unstopped == life = "running" /\ op.by # "stop"

----------------------------------------------------------------------------
(* What no step of control disturbs. *)
LEMMA KeepsRunning ==
    ASSUME Typed, Unstopped, ControlStep PROVE Unstopped'
<1> USE DEF slotVars, revokeVars, historyVars, Unstopped
<1>1. NoOp.by = "caller" /\ NoOp \in OpType /\ op \in OpType
  BY IdleTyped DEF NoOp, Typed, OpTyped
<1>2. CASE \/ \E q \in Request : Acquire(q)
           \/ \E r \in Resource :
                 \/ RenewBegin(r) \/ Release(r)
                 \/ \E g \in Generation : RevokeResource(r, g)
           \/ \E c \in Conn : RevokeConn(c)
           \/ \E p \in Package : RevokeByPackage(p)
  <2>1. life' = life
    BY <1>2 DEF Acquire, RenewBegin, Release, RevokeResource, RevokeConn,
       RevokeByPackage
  <2>2. op'.by = NoOp.by
    <3>1. CASE \E q \in Request : Acquire(q)
      BY <3>1 DEF Acquire, Begin, NoOp
    <3>2. CASE \E r \in Resource : RenewBegin(r)
      BY <3>2 DEF RenewBegin, Begin, NoOp
    <3>3. CASE \E r \in Resource : DropBegin(r)
      BY <3>3 DEF DropBegin, Begin, NoOp
    <3>4. CASE \E conns : SweepBegin(conns)
      BY <3>4 DEF SweepBegin, Begin, NoOp
    <3> QED
      BY <1>2, <3>1, <3>2, <3>3, <3>4
         DEF Release, RevokeResource, RevokeConn, RevokeByPackage
  <2> QED
    BY <1>1, <2>1, <2>2
<1>3. CASE Flush \/ Admit \/ Inspect \/ Preempt \/ Bump \/ Sequence
  <2>1. CASE Flush \/ Preempt
    BY <1>1, <2>1 DEF Go, Flush, Preempt, OpType
  <2>2. CASE Admit
    BY <1>1, <2>2 DEF Admit, OpType
  <2>3. CASE Inspect
    BY <1>1, <2>3 DEF Inspect, OpType
  <2>4. CASE Bump \/ Sequence
    BY <1>1, <2>4 DEF Bump, Sequence, OpType
  <2> QED
    BY <1>3, <2>1, <2>2, <2>3, <2>4
<1>4. CASE Freshen \/ Publish \/ Recheck \/ Undo \/ Renew \/ Renewed \/ Expire
  BY <1>1, <1>4 DEF Go, Freshen, Publish, Recheck, Undo, Renew, Renewed, Expire, OpType
<1>5. CASE Settle
  BY <1>1, <1>5 DEF Settle, OpType
<1>6. CASE Drop
  BY <1>1, <1>6 DEF Drop, Take, Go, OpType
<1>7. CASE \E r \in Resource : Sweep(r)
  BY <1>1, <1>7 DEF Sweep, Take, OpType
<1>8. CASE \/ \E r \in Resource : DrainSlot(r) \/ LaneScan(r)
           \/ DrainTell \/ DrainCount \/ LaneDrain \/ LaneExit
           \/ StopLock \/ Tick \/ RevokeWork
  BY <1>8 DEF DrainSlot, LaneScan, DrainTell, DrainCount, LaneDrain, LaneExit,
     StopLock, Tick, RevokeWork, RevokeEnter, RevokeFloor, RevokeCount,
     RevokePark, RevokeSwap
<1>9. CASE DrainEnd
  BY <1>1, <1>9 DEF DrainEnd, DrainDone, OpType
<1>10. CASE LaneLock
  BY <1>10 DEF LaneLock, NoOp
<1>11. CASE \E k \in Caller :
                 \/ CallJudge(k) \/ CallConfirm(k) \/ CallMark(k)
                 \/ CallReturn(k)
                 \/ \E r \in Resource : CallLoad(k, r)
  BY <1>11 DEF CallJudge, CallConfirm, CallMark, CallReturn, CallLoad
<1> QED
  BY <1>2, <1>3, <1>4, <1>5, <1>6, <1>7, <1>8, <1>9, <1>10, <1>11 DEF ControlStep

(* Control only bumps the epoch of a Normal gate. *)
LEMMA ControlBumps ==
    ASSUME ControlStep PROVE BumpEpochIfNormal \/ UNCHANGED gate
<1> USE DEF slotVars, revokeVars, historyVars
<1>1. CASE Bump \/ Settle
  BY <1>1 DEF Bump, Settle
<1>2. CASE \/ \E q \in Request : Acquire(q)
           \/ Flush \/ Admit \/ Inspect \/ Preempt \/ Sequence
           \/ Freshen \/ Publish \/ Recheck \/ Undo
  BY <1>2 DEF Acquire, Flush, Admit, Inspect, Preempt, Sequence,
     Freshen, Publish, Recheck, Undo
<1>3. CASE \/ \E r \in Resource :
                 \/ RenewBegin(r) \/ Release(r) \/ Sweep(r)
                 \/ \E g \in Generation : RevokeResource(r, g)
           \/ \E c \in Conn : RevokeConn(c)
           \/ \E p \in Package : RevokeByPackage(p)
           \/ Renew \/ Renewed \/ Drop \/ Expire
  BY <1>3 DEF RenewBegin, Release, Sweep, RevokeResource, RevokeConn,
     RevokeByPackage, Renew, Renewed, Drop, Expire
<1>4. CASE \/ \E r \in Resource : DrainSlot(r) \/ LaneScan(r)
           \/ DrainTell \/ DrainCount \/ DrainEnd
           \/ LaneDrain \/ LaneLock \/ LaneExit
           \/ StopLock \/ Tick
  BY <1>4 DEF DrainSlot, LaneScan, DrainTell, DrainCount, DrainEnd, LaneDrain,
     LaneLock, LaneExit, StopLock, Tick
<1>5. CASE \E k \in Caller :
                 \/ CallJudge(k) \/ CallConfirm(k) \/ CallMark(k)
                 \/ CallReturn(k)
                 \/ \E r \in Resource : CallLoad(k, r)
  BY <1>5 DEF CallJudge, CallConfirm, CallMark, CallReturn, CallLoad
<1>6. CASE RevokeWork
  BY <1>6 DEF RevokeWork, RevokeEnter, RevokeFloor, RevokeCount, RevokePark, RevokeSwap
<1> QED
  BY <1>1, <1>2, <1>3, <1>4, <1>5, <1>6 DEF ControlStep

LEMMA UnstoppedStep ==
    ASSUME Typed, Unstopped, [AuthorityNext]_authorityVars PROVE Unstopped'
<1>1. CASE ControlActs
  BY <1>1, KeepsRunning DEF ControlActs
<1>2. CASE TripActs \/ SafetyActs \/ RevokeCalled \/ RevokeReturned
           \/ UNCHANGED authorityVars
  <2>1. UNCHANGED <<life, op>>
    BY <1>2 DEF TripActs, SafetyTrips, SafetyActs, RevokeCalled, RevokeAll,
       RevokeReturned, RevokeReturn, authorityVars, controlAll, controlVars
  <2> QED
    BY <2>1 DEF Unstopped
<1> QED
  BY <1>1, <1>2 DEF AuthorityNext

----------------------------------------------------------------------------
(* Each step of the composition is one of SafetySupervisor. *)
LEMMA CallsAreSafetys ==
    ASSUME NEW t \in Thread,
           \/ S!WakeStop(t) \/ S!WakeSuper(t)
           \/ S!RequestRecovery(t) \/ S!RequireExplicitRearm(t)
           \/ S!RearmLoad(t) \/ S!RearmJudge(t) \/ S!RearmSwap(t)
    PROVE  SP!Next
<1> USE DEF S!wakeVars, SP!wakeVars, S!haltVars, SP!haltVars, S!latchVars,
        SP!latchVars, S!NoThread, SP!NoThread
<1>1. CASE S!WakeStop(t) \/ S!WakeSuper(t)
  <2>1. SP!WakeStop(t) \/ SP!WakeSuper(t)
    BY <1>1 DEF S!WakeStop, SP!WakeStop, S!WakeSuper, SP!WakeSuper
  <2> QED
    BY <2>1 DEF SP!Next, SP!ThreadStep
<1>2. CASE S!RequestRecovery(t) \/ S!RequireExplicitRearm(t)
  <2>1. SP!RequestRecovery(t) \/ SP!RequireExplicitRearm(t)
    BY <1>2 DEF S!RequestRecovery, SP!RequestRecovery, S!RequireExplicitRearm,
       SP!RequireExplicitRearm, S!Call, SP!Call, S!BeginRecovery, SP!BeginRecovery,
       S!RequireRearm, SP!RequireRearm
  <2> QED
    BY <2>1 DEF SP!Next
<1>3. CASE S!RearmLoad(t)
  <2>1. SP!RearmLoad(t)
    BY <1>3 DEF S!RearmLoad, SP!RearmLoad
  <2> QED
    BY <2>1 DEF SP!Next
<1>4. CASE S!RearmJudge(t)
  <2>1. S!MayRearm(phase, thread[t].epoch) <=> SP!MayRearm(phase, thread[t].epoch)
    BY DEF S!MayRearm, SP!MayRearm, S!RearmSettled, SP!RearmSettled, S!Rank,
       SP!Rank, S!Fault, SP!Fault, S!OutputDisabled, SP!OutputDisabled,
       S!DeliveryFault, SP!DeliveryFault, S!StandstillTimedOut,
       SP!StandstillTimedOut
  <2>2. SP!RearmJudge(t)
    BY <1>4, <2>1 DEF S!RearmJudge, SP!RearmJudge
  <2> QED
    BY <2>2 DEF SP!Next, SP!ThreadStep
<1>5. CASE S!RearmSwap(t)
  <2>1. SP!RearmSwap(t)
    BY <1>5 DEF S!RearmSwap, SP!RearmSwap, S!RearmGate, SP!RearmGate, S!IncEpoch,
       SP!IncEpoch
  <2> QED
    BY <2>1 DEF SP!Next, SP!ThreadStep
<1> QED
  BY <1>1, <1>2, <1>3, <1>4, <1>5

LEMMA LanesAreSafetys ==
    ASSUME \/ S!DeliverHalt \/ S!Reconcile \/ S!BeginHalt \/ S!Revoked
           \/ S!OnTick \/ S!Elapse
           \/ \E epoch \in sent, to \in ReportPhase : S!OnReport(epoch, to)
    PROVE  SP!Next
<1> USE DEF S!wakeVars, SP!wakeVars, S!haltVars, SP!haltVars, S!latchVars,
        SP!latchVars
<1>1. S!DeliverHalt => SP!DeliverHalt
  BY DEF S!DeliverHalt, SP!DeliverHalt
<1>2. S!Reconcile => SP!Reconcile
  BY DEF S!Reconcile, SP!Reconcile, S!NewHalt, SP!NewHalt, S!Normal, SP!Normal,
     S!SetPhase, SP!SetPhase, S!Unspecified, SP!Unspecified
<1>3. S!BeginHalt => SP!BeginHalt
  BY DEF S!BeginHalt, SP!BeginHalt, S!SetPhase, SP!SetPhase, S!Requested,
     SP!Requested
<1>4. S!Revoked => SP!Revoked
  BY DEF S!Revoked, SP!Revoked, S!LatchServed, SP!LatchServed
<1>5. S!Elapse => SP!Elapse
  BY DEF S!Elapse, SP!Elapse
<1>6. ASSUME NEW to, NEW esc, S!Advance(to, esc) PROVE SP!Advance(to, esc)
  BY <1>6 DEF S!Advance, SP!Advance, S!Advances, SP!Advances, S!Reaches, SP!Reaches,
     S!Rank, SP!Rank, S!Fault, SP!Fault, S!SetPhase, SP!SetPhase,
     S!OutputDisabled, SP!OutputDisabled, S!StandstillConfirmed,
     SP!StandstillConfirmed, S!DeliveryFault, SP!DeliveryFault,
     S!StandstillTimedOut, SP!StandstillTimedOut
<1>7. S!OnTick => SP!OnTick
  <2>1. S!Due = SP!Due /\ (S!Escalates <=> SP!Escalates)
        /\ S!StandstillTimedOut = SP!StandstillTimedOut
    BY DEF S!Due, SP!Due, S!Rank, SP!Rank, S!ProviderAccepted, SP!ProviderAccepted,
       S!OutputDisabled, SP!OutputDisabled, S!StandstillConfirmed,
       SP!StandstillConfirmed, S!Escalates, SP!Escalates, S!StandstillTimedOut,
       SP!StandstillTimedOut
  <2> QED
    BY <1>6, <2>1 DEF S!OnTick, SP!OnTick
<1>8. ASSUME NEW epoch \in sent, NEW to \in ReportPhase, S!OnReport(epoch, to)
      PROVE  SP!OnReport(epoch, to)
  BY <1>6, <1>8 DEF S!OnReport, SP!OnReport, S!Believes, SP!Believes, S!Rank, SP!Rank,
     S!OutputDisabled, SP!OutputDisabled
<1> QED
  BY <1>1, <1>2, <1>3, <1>4, <1>5, <1>7, <1>8 DEF SP!Next

LEMMA StepIsSafetys ==
    ASSUME [AuthorityNext]_authorityVars PROVE [SP!AnyNext]_(SP!safetyAll)
<1> USE DEF SP!safetyAll, SP!safetyVars
<1>1. CASE UNCHANGED authorityVars
  BY <1>1 DEF authorityVars, supervisorVars, controlAll, controlVars
<1>2. CASE ControlActs
  <2>1. UNCHANGED <<latchVars, supervisorVars>>
    BY <1>2 DEF ControlActs
  <2>2. BumpEpochIfNormal \/ UNCHANGED gate
    BY <1>2, ControlBumps DEF ControlActs
  <2>3. CASE UNCHANGED gate
    BY <2>1, <2>3 DEF latchVars, supervisorVars
  <2>4. CASE Normal /\ BumpEpoch
    BY <2>1, <2>4 DEF SP!AnyNext, SP!Bumps, SP!Normal, SP!BumpEpoch, SP!IncEpoch,
       Normal, BumpEpoch, IncEpoch, latchVars, supervisorVars
  <2> QED
    BY <2>2, <2>3, <2>4 DEF BumpEpochIfNormal
<1>3. CASE TripActs
  <2>1. PICK t \in Thread : S!Trip(t)
    BY <1>3 DEF TripActs
  <2>2. SP!Trip(t)
    BY <2>1 DEF S!Trip, SP!Trip, S!LatchTrip, SP!LatchTrip, S!TripGate, SP!TripGate,
       S!IncEpoch, SP!IncEpoch, S!Normal, SP!Normal, S!Call, SP!Call, S!wakeVars,
       SP!wakeVars, S!haltVars, SP!haltVars
  <2> QED
    BY <2>2 DEF SP!AnyNext, SP!Next
<1>4. CASE SafetyActs
  BY <1>4, CallsAreSafetys, LanesAreSafetys DEF SafetyActs, SP!AnyNext
<1>5. CASE RevokeCalled \/ RevokeReturned
  BY <1>5, LanesAreSafetys DEF RevokeCalled, RevokeReturned, SP!AnyNext
<1> QED
  BY <1>1, <1>2, <1>3, <1>4, <1>5 DEF AuthorityNext

(* The leases leave internal/safety as it is: on one gate with them it     *)
(* behaves as SafetySupervisor does, whatever control grants, ends and     *)
(* bumps (control/slot.go's use of BumpEpochIfNormal is all that safety    *)
(* sees of it).                                                            *)
THEOREM CompositionIsSafety == AuthoritySpec => SP!AnySpec
<1>1. AuthorityInit => SP!Init
  BY DEF AuthorityInit, Init, LatchInit, GateInit, S!SafetyInit, SP!Init, SP!LatchInit,
     SP!GateInit, SP!SafetyInit, S!NoThread, SP!NoThread, S!Unspecified,
     SP!Unspecified
<1>2. [AuthorityNext]_authorityVars => [SP!AnyNext]_(SP!safetyAll)
  BY StepIsSafetys
<1> QED
  BY <1>1, <1>2, PTL DEF AuthoritySpec, SP!AnySpec

----------------------------------------------------------------------------
(* Each step of the composition is one of ControlLease. *)
LEMMA StepIsControls ==
    ASSUME Unstopped, SP!HaltInv, [AuthorityNext]_authorityVars
    PROVE  [Next]_controlAll
<1> USE DEF slotVars, revokeVars, controlVars, controlAll
<1>1. CASE UNCHANGED authorityVars
  BY <1>1 DEF authorityVars
<1>2. CASE ControlActs \/ TripActs \/ RevokeReturned
  BY <1>2 DEF ControlActs, TripActs, RevokeReturned, Next, NextButRearm
<1>3. CASE RevokeCalled
  <2>1. sup.next \in awaiting
    BY <1>3 DEF RevokeCalled, S!BeginHalt, SP!HaltInv, SP!BeginIsOwed
  <2> QED
    BY <1>3, <2>1 DEF RevokeCalled, Unstopped, SafetyRevokes, Next, NextButRearm
<1>4. CASE SafetyActs
  <2>1. ASSUME NEW t \in Thread, gate.epoch < MaxEpoch, S!RearmSwap(t)
        PROVE  [Next]_controlAll
    <3>1. LatchRevoked
      BY <2>1 DEF S!RearmSwap, SP!HaltInv, SP!RearmIsJust, SP!LatchRevoked,
         LatchRevoked
    <3>2. UNCHANGED gate \/ RearmGate
      BY <2>1 DEF S!RearmSwap, S!RearmGate, RearmGate, S!IncEpoch, IncEpoch
    <3> QED
      BY <1>4, <2>1, <3>1, <3>2 DEF SafetyActs, S!RearmSwap, S!latchVars,
         SafetyRearms, Next
  <2>2. ASSUME NEW t \in Thread, S!RequestRecovery(t) \/ S!RequireExplicitRearm(t)
        PROVE  [Next]_controlAll
    <3>1. UNCHANGED gate \/ BeginRecovery \/ RequireRearm
      BY <2>2 DEF S!RequestRecovery, S!RequireExplicitRearm, S!BeginRecovery,
         S!RequireRearm, BeginRecovery, RequireRearm
    <3> QED
      BY <1>4, <2>2, <3>1 DEF SafetyActs, S!RequestRecovery, S!RequireExplicitRearm,
         S!latchVars, SafetyRecovers, Next, NextButRearm
  <2>3. CASE \/ S!DeliverHalt \/ S!Reconcile \/ S!OnTick \/ S!Elapse
             \/ \E epoch \in sent, to \in ReportPhase : S!OnReport(epoch, to)
             \/ \E t \in Thread : \/ S!WakeStop(t) \/ S!WakeSuper(t)
                                  \/ S!RearmLoad(t) \/ S!RearmJudge(t)
    BY <1>4, <2>3 DEF SafetyActs, S!DeliverHalt, S!Reconcile, S!OnTick, S!Elapse,
       S!OnReport, S!WakeStop, S!WakeSuper, S!RearmLoad, S!RearmJudge, S!latchVars
  <2> QED
    BY <1>4, <2>1, <2>2, <2>3 DEF SafetyActs
<1> QED
  BY <1>1, <1>2, <1>3, <1>4 DEF AuthorityNext

(* The environment ControlLease assumes is the one internal/safety is:     *)
(* with one caller of Rearm and before the epoch wraps, the real           *)
(* Supervisor keeps all that the leases rely on (module.go's Rearm,        *)
(* supervisor.go's beginHalt).                                             *)
THEOREM CompositionIsControl ==
    S!SafetyAssumption /\ OneRearmer /\ AuthoritySpec /\ []NoWrap => ControlSpec
<1>1. AuthorityInit => Init /\ Typed /\ Unstopped
  BY InitTyped DEF AuthorityInit, Init, ControlInit, NoOp, Unstopped
<1>2. Unstopped /\ SP!HaltInv /\ [AuthorityNext]_authorityVars => [Next]_controlAll
  BY StepIsControls
<1>3. Typed /\ [Next]_controlAll => Typed'
  BY TypedStep DEF Next, AnyNext
<1>4. Typed /\ Unstopped /\ [AuthorityNext]_authorityVars => Unstopped'
  BY UnstoppedStep
<1>5. OneRearmer <=> SP!OneRearmer
  BY DEF OneRearmer, SP!OneRearmer
<1>6. NoWrap <=> SP!NoWrap
  BY DEF NoWrap, SP!NoWrap
<1>7. S!SafetyAssumption /\ SP!OneRearmer /\ SP!AnySpec /\ []SP!NoWrap
        => [](SP!TypeOK /\ SP!PhaseInv /\ SP!LaneInv /\ SP!HaltInv)
  BY SP!HaltsAreServed, MaxEpochAssumption, EpochMaskAssumption DEF S!SafetyAssumption
<1> QED
  BY <1>1, <1>2, <1>3, <1>4, <1>5, <1>6, <1>7, CompositionIsSafety, PTL
     DEF AuthoritySpec, ControlSpec

(* The end to end promise: through any halt, report, timeout and re-arm no *)
(* lease from before a trip is ever effective after it, a grant or a check *)
(* that is answered holds, the end of each lease is told once, and the     *)
(* leases are the one authority per Resource that the rest of the program  *)
(* sees (control/slot.go under safety/supervisor.go).                      *)
THEOREM MotionSafe ==
    S!SafetyAssumption /\ OneRearmer /\ AuthoritySpec /\ []NoWrap
        => /\ []NoLeaseOutlivesTrip /\ []CheckAtomic /\ []EndToldOnce
           /\ GrantIsEffective /\ ImplementsAuthority
BY CompositionIsControl, ControlSafe, ChecksAreAtomic, EndsToldOnce, GrantsAreEffective,
   ControlImplements, PTL

=============================================================================
