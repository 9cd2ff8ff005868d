---------------------------- MODULE ControlLease ----------------------------
(***************************************************************************)
(* internal/control: the exclusive control leases, one slot per Resource.  *)
(*                                                                         *)
(* Four kinds of threads meet on the slots:                                *)
(*   - callers that change leases under mu (`op' is the one that holds it);*)
(*   - the Control Lane, which expires leases and drains revocations;      *)
(*   - the Safety Supervisor inside RevokeAll, which never takes mu        *)
(*     (`rev' is its progress);                                            *)
(*   - callers of Check and Refresh, which take no lock (`call').          *)
(* Every step below is one atomic access of the code, or several that      *)
(* touch nothing another thread writes. The judgement of a lease (gate,    *)
(* safety floor, heartbeat) is one step too: the floor and the heartbeat   *)
(* only grow, so the lease a split reading accepts was acceptable at the   *)
(* instant the gate was read, or has a later heartbeat.                    *)
(*                                                                         *)
(* The epoch a lease is issued with is unique (each issue bumps it), so it *)
(* stands for the lease's random ID as well.                               *)
(***************************************************************************)
EXTENDS MotionLatch, FiniteSets

CONSTANTS
    Conn,           \* connections
    Package,        \* PackageOf[c] is the package that c's caller belongs to
    PackageOf,
    Resource,       \* exclusive-control handles
    BaseResource,   \* the one whose slot New creates
    MaxSlots,       \* maxResourceSlots
    Generation,     \* generations a handle is published under
    TTL, Deadman,   \* per class: the policy's budgets
    Budget,         \* the durations callers ask for
    Caller,         \* lock-free callers of Check and Refresh
    None,           \* the nil pointer
    MaxTime         \* bound: the last instant of the clock

Class == {"HUMAN", "AI"}

ASSUME ControlAssumption ==
    /\ PackageOf \in [Conn -> Package]
    /\ BaseResource \in Resource
    /\ MaxSlots \in Nat /\ MaxTime \in Nat
    /\ TTL \in [Class -> Nat] /\ Deadman \in [Class -> Nat]
    /\ Generation \subseteq Nat /\ Budget \subseteq Nat

(* resolve: no duration may exceed its class's policy, a class with a      *)
(* deadman budget gets a deadman, and a deadman outlasts no deadline.      *)
Resolves(q) ==
    /\ 0 < q.ttl /\ q.ttl <= TTL[q.class]
    /\ Deadman[q.class] > 0 => q.deadman \in 1 .. Deadman[q.class]
    /\ q.deadman <= q.ttl

(* An acquire request as it leaves resolveRequest.                         *)
Request == {q \in [conn: Conn, class: Class, res: Resource, gen: Generation,
                   ttl: Budget, deadman: Budget] : Resolves(q)}
Lease == [conn: Conn, class: Class, gen: Generation, ttl: Budget,
          deadman: Budget, issued: Nat, deadline: Nat, epoch: Nat]
LeaseOrNone == Lease \cup {None}

ASSUME NoneAssumption == None \notin Lease /\ None \notin Request

VARIABLES
    slots,        \* the Resources that have a slot (the copy-on-write index)
    cur,          \* slot.cur
    fresh,        \* slot.fresh
    parked,       \* slot.revoked: taken by RevokeAll, its end not yet told
    safetyFloor,
    revokeSeq,
    revPending,
    rev,          \* RevokeAll in progress
    op,           \* the operation that holds mu
    drain,        \* drainRevoked in progress: revDrainMu and its holder
    lane,         \* the Control Lane between its check and its lock
    call,         \* per lock-free caller: Check or Refresh in progress
    life,         \* the module: running, closing (stopCh closed), stopping
                  \* (Stop holds mu), stopped
    clock,
    (* history, read by properties only *)
    published,    \* <<resource, epoch>> of the leases ever effective
    told,         \* the epochs of those whose end the observer has been told,
                  \* or that were withdrawn before anyone was granted them
    late          \* the epochs of those that a RevokeAll took although the
                  \* latch that took control away had been answered before

controlVars == <<slots, cur, fresh, parked, safetyFloor, revokeSeq,
                 revPending, rev, op, drain, lane, call, life, clock,
                 published, told, late, latchEpoch, awaiting>>
slotVars == <<slots, cur, fresh, parked>>
revokeVars == <<safetyFloor, revokeSeq, revPending, rev>>
historyVars == <<published, told, late, latchEpoch, awaiting>>

----------------------------------------------------------------------------
NoOp == [pc |-> "idle", by |-> "caller", next |-> "idle", q |-> None,
         res |-> None, now |-> 0, old |-> None, epoch |-> 0, seq |-> 0,
         todo |-> {}, match |-> {}, dropped |-> {}]
NoRev == [pc |-> "idle", epoch |-> 0, todo |-> {}, res |-> None,
          lease |-> None]
NoDrain == [by |-> "none", pc |-> "scan", todo |-> {}, lease |-> None]
NoLane == [pc |-> "idle", res |-> None, lease |-> None, now |-> 0]
NoCall == [pc |-> "idle", res |-> None, lease |-> None,
           now |-> 0, held |-> FALSE]

ControlInit ==
    /\ slots = {BaseResource}
    /\ cur = [r \in Resource |-> None]
    /\ fresh = [r \in Resource |-> 0]
    /\ parked = [r \in Resource |-> None]
    /\ safetyFloor = 0 /\ revokeSeq = 0 /\ revPending = 0
    /\ rev = NoRev /\ op = NoOp /\ drain = NoDrain /\ lane = NoLane
    /\ call = [k \in Caller |-> NoCall]
    /\ life = "running" /\ clock = 0
    /\ published = {} /\ told = {} /\ late = {}

----------------------------------------------------------------------------
(* Judging a lease: leaseStateAt, in the code's order of precedence.       *)
Lapse(r, l, now) ==
    CASE now > l.deadline -> "expired"
      [] now <= l.deadline /\ l.deadman > 0 /\ now > fresh[r] + l.deadman
            -> "deadman"
      [] OTHER -> "none"

LeaseState(r, l, now) ==
    CASE ~Normal -> "latched"
      [] Normal /\ l.epoch <= safetyFloor -> "stale"
      [] OTHER -> Lapse(r, l, now)

Lapsed_DeadmanOnly(r, l, now) == LeaseState(r, l, now) = "deadman"
Lapsed(r, l, now) == LeaseState(r, l, now) \in {"expired", "deadman"}
Valid(r, l, now) == LeaseState(r, l, now) = "none"

(* slotHolds: the same lease, perhaps since renewed.                       *)
SlotHolds(r, l) == cur[r] # None /\ cur[r].epoch = l.epoch

CanPreempt(want, held) == want = "HUMAN" /\ held = "AI"

(* markFresh: an atomic maximum.                                           *)
MarkFresh(r, now) ==
    fresh' = [fresh EXCEPT ![r] = IF now > @ THEN now ELSE @]

----------------------------------------------------------------------------
(* The operation that holds mu.                                            *)

Begin(o) ==
    /\ op = NoOp /\ gate.epoch < MaxEpoch
    /\ op' = o

Go(pc) == op' = [op EXCEPT !.pc = pc]

(* Acquire: take mu, and tell the ends RevokeAll left before going on.     *)
Acquire(q) ==
    /\ Begin([NoOp EXCEPT !.pc = "flush", !.next = "admit", !.q = q,
                          !.res = q.res])
    /\ UNCHANGED <<gate, slotVars, revokeVars, drain, lane, call, life, clock,
                   historyVars>>

(* `if m.revPending.Load() != 0 { m.drainRevoked() }', at the start of     *)
(* Acquire and again in issueLocked. Stop drains without looking.          *)
Flush ==
    /\ op.pc \in {"flush", "force"}
    /\ IF op.pc = "flush" /\ revPending = 0
       THEN op' = [op EXCEPT !.pc = op.next] /\ UNCHANGED drain
       ELSE /\ drain.by = "none"
            /\ drain' = [NoDrain EXCEPT !.by = "op", !.todo = slots]
            /\ Go("draining")
    /\ UNCHANGED <<gate, slotVars, revokeVars, lane, call, life, clock,
                   historyVars>>

(* The refusals up to the slot lookup: stopping, gate, slot capacity.      *)
Admit ==
    /\ op.pc = "admit"
    /\ IF life = "running" /\ Normal
          /\ (op.res \in slots \/ Cardinality(slots) < MaxSlots)
       THEN /\ slots' = slots \cup {op.res}
            /\ op' = [op EXCEPT !.pc = "inspect", !.now = clock]
       ELSE UNCHANGED slots /\ op' = NoOp
    /\ UNCHANGED <<gate, cur, fresh, parked, revokeVars, drain, lane, call,
                   life, clock, historyVars>>

(* What Acquire does about the lease it finds in the slot.                 *)
Verdict(old, q, now) ==
    CASE old = None -> "bump"
      [] old # None /\ (old.gen # q.gen \/ ~Valid(q.res, old, now)) -> "drop"
      [] old # None /\ old.gen = q.gen /\ Valid(q.res, old, now) ->
            CASE old.conn = q.conn /\ old.class = q.class -> "renew"
              [] ~(old.conn = q.conn /\ old.class = q.class)
                 /\ CanPreempt(q.class, old.class) -> "preempt"
              [] OTHER -> "refuse"

Inspect ==
    /\ op.pc = "inspect"
    /\ LET old == cur[op.res]  v == Verdict(old, op.q, op.now)
       IN  op' = IF v = "refuse" THEN NoOp
                 ELSE [op EXCEPT !.pc = v, !.old = old, !.next = "bump"]
    /\ UNCHANGED <<gate, slotVars, revokeVars, drain, lane, call, life, clock,
                   historyVars>>

(* HUMAN over AI: the old lease goes without a bump of its own, and its    *)
(* observer is told only by whoever took it out of the slot.               *)
Preempt ==
    /\ op.pc = "preempt"
    /\ IF cur[op.res] = op.old
       THEN /\ cur' = [cur EXCEPT ![op.res] = None]
            /\ told' = told \cup {op.old.epoch}
       ELSE UNCHANGED <<cur, told>>
    /\ Go("bump")
    /\ UNCHANGED <<gate, slots, fresh, parked, revokeVars, drain, lane, call,
                   life, clock, published, late, latchEpoch, awaiting>>

(* issueLocked: bump and check in one swap, flush again, read the seqlock, *)
(* freshness first, publish, then look again at gate and seqlock.          *)
Bump ==
    /\ op.pc = "bump"
    /\ BumpEpochIfNormal
    /\ op' = IF Normal THEN [op EXCEPT !.pc = "flush", !.next = "sequence",
                                       !.epoch = gate'.epoch]
             ELSE NoOp
    /\ UNCHANGED <<slotVars, revokeVars, drain, lane, call, life, clock,
                   historyVars>>

MayPublish == revokeSeq % 2 = 0 /\ parked[op.res] = None

Sequence ==
    /\ op.pc = "sequence"
    /\ op' = IF MayPublish THEN [op EXCEPT !.pc = "freshen", !.seq = revokeSeq]
             ELSE NoOp
    /\ UNCHANGED <<gate, slotVars, revokeVars, drain, lane, call, life, clock,
                   historyVars>>

Freshen ==
    /\ op.pc = "freshen"
    /\ MarkFresh(op.res, op.now)
    /\ Go("publish")
    /\ UNCHANGED <<gate, slots, cur, parked, revokeVars, drain, lane, call,
                   life, clock, historyVars>>

NewLease == [conn |-> op.q.conn, class |-> op.q.class, gen |-> op.q.gen,
             ttl |-> op.q.ttl, deadman |-> op.q.deadman, issued |-> op.now,
             deadline |-> op.now + op.q.ttl, epoch |-> op.epoch]

Publish ==
    /\ op.pc = "publish"
    /\ cur' = [cur EXCEPT ![op.res] = NewLease]
    /\ published' = published \cup {<<op.res, op.epoch>>}
    /\ Go("recheck")
    /\ UNCHANGED <<gate, slots, fresh, parked, revokeVars, drain, lane, call,
                   life, clock, told, late, latchEpoch, awaiting>>

StillCurrent_GateOnly == Normal /\ gate.epoch = op.epoch
StillCurrent == Normal /\ gate.epoch = op.epoch /\ revokeSeq = op.seq

Recheck ==
    /\ op.pc = "recheck"
    /\ op' = IF StillCurrent THEN NoOp ELSE [op EXCEPT !.pc = "undo"]
    /\ UNCHANGED <<gate, slotVars, revokeVars, drain, lane, call, life, clock,
                   historyVars>>

(* The refused publication leaves the slot again, unless RevokeAll has it. *)
Undo ==
    /\ op.pc = "undo" /\ op' = NoOp
    /\ IF cur[op.res] # None
       THEN /\ cur' = [cur EXCEPT ![op.res] = None]
            /\ told' = told \cup {op.epoch}
       ELSE UNCHANGED <<cur, told>>
    /\ UNCHANGED <<gate, slots, fresh, parked, revokeVars, drain, lane, call,
                   life, clock, published, late, latchEpoch, awaiting>>

----------------------------------------------------------------------------
(* Renew, and Acquire by the holder itself: a new value of the same lease. *)
RenewBegin(r) ==
    /\ cur[r] # None /\ Valid(r, cur[r], clock)
    /\ Begin([NoOp EXCEPT !.pc = "renew", !.res = r, !.old = cur[r],
                          !.now = clock])
    /\ UNCHANGED <<gate, slotVars, revokeVars, drain, lane, call, life, clock,
                   historyVars>>

Renew ==
    /\ op.pc = "renew"
    /\ IF cur[op.res] = op.old
       THEN /\ cur' = [cur EXCEPT ![op.res].deadline = op.now + op.old.ttl]
            /\ Go("renewed")
       ELSE op' = NoOp /\ UNCHANGED cur
    /\ UNCHANGED <<gate, slots, fresh, parked, revokeVars, drain, lane, call,
                   life, clock, historyVars>>

Renewed ==
    /\ op.pc = "renewed" /\ op' = NoOp
    /\ MarkFresh(op.res, op.now)
    /\ UNCHANGED <<gate, slots, cur, parked, revokeVars, drain, lane, call,
                   life, clock, historyVars>>

----------------------------------------------------------------------------
(* Ordinary ends. Release and RevokeResource aim at the lease they loaded; *)
(* RevokeConn, RevokeByPackage and Stop sweep every slot for a set of      *)
(* connections. Whatever was taken is one epoch boundary.                  *)
DropBegin(r) ==
    Begin([NoOp EXCEPT !.pc = "drop", !.res = r, !.old = cur[r]])

SweepBegin(conns) ==
    Begin([NoOp EXCEPT !.pc = "sweep", !.todo = slots, !.match = conns])

Release(r) ==
    /\ cur[r] # None /\ DropBegin(r)
    /\ UNCHANGED <<gate, slotVars, revokeVars, drain, lane, call, life, clock,
                   historyVars>>
RevokeResource(r, g) ==
    /\ cur[r] # None /\ cur[r].gen = g /\ DropBegin(r)
    /\ UNCHANGED <<gate, slotVars, revokeVars, drain, lane, call, life, clock,
                   historyVars>>
RevokeConn(c) ==
    /\ SweepBegin({c})
    /\ UNCHANGED <<gate, slotVars, revokeVars, drain, lane, call, life, clock,
                   historyVars>>
RevokeByPackage(p) ==
    /\ SweepBegin({c \in Conn : PackageOf[c] = p})
    /\ UNCHANGED <<gate, slotVars, revokeVars, drain, lane, call, life, clock,
                   historyVars>>

Take(r) ==
    /\ cur' = [cur EXCEPT ![r] = None]
    /\ op' = [op EXCEPT !.pc = IF @ = "drop" THEN "settle" ELSE @,
                        !.todo = @ \ {r},
                        !.dropped = @ \cup {<<r, cur[r].epoch>>}]

(* dropLocked's swap: it yields to RevokeAll.                              *)
Drop_Store ==
    /\ op.pc = "drop"
    /\ cur' = [cur EXCEPT ![op.res] = None]
    /\ op' = [op EXCEPT !.pc = "settle",
                        !.dropped = {<<op.res, op.old.epoch>>}]
    /\ UNCHANGED <<gate, slots, fresh, parked, revokeVars, drain, lane, call,
                   life, clock, historyVars>>
Drop ==
    /\ op.pc = "drop"
    /\ IF cur[op.res] = op.old THEN Take(op.res)
       ELSE Go("settle") /\ UNCHANGED cur
    /\ UNCHANGED <<gate, slots, fresh, parked, revokeVars, drain, lane, call,
                   life, clock, historyVars>>

(* dropMatchingLocked, one slot at a time.                                 *)
Sweep(r) ==
    /\ op.pc = "sweep" /\ r \in op.todo
    /\ IF cur[r] # None /\ cur[r].conn \in op.match THEN Take(r)
       ELSE op' = [op EXCEPT !.todo = @ \ {r}] /\ UNCHANGED cur
    /\ UNCHANGED <<gate, slots, fresh, parked, revokeVars, drain, lane, call,
                   life, clock, historyVars>>

(* One bump for all that was taken, then the observer; then Acquire goes   *)
(* on to issue, and every other operation is done.                         *)
Settle ==
    /\ op.pc = "settle" \/ (op.pc = "sweep" /\ op.todo = {})
    /\ IF op.dropped = {} THEN UNCHANGED gate ELSE BumpEpochIfNormal
    /\ told' = told \cup {d[2] : d \in op.dropped}
    /\ op' = IF op.next = "bump" THEN [op EXCEPT !.pc = "bump", !.dropped = {}]
             ELSE NoOp
    /\ life' = IF op.by = "stop" THEN "stopped" ELSE life
    /\ UNCHANGED <<slotVars, revokeVars, drain, lane, call, clock, published,
                   late, latchEpoch, awaiting>>

----------------------------------------------------------------------------
(* drainRevoked, under revDrainMu. A parked lease is taken, its observer   *)
(* told, and only then does the pending count come down.                   *)
DrainDone ==
    IF drain.by = "op" THEN op' = [op EXCEPT !.pc = op.next] ELSE UNCHANGED op

DrainSlot(r) ==
    /\ drain.by # "none" /\ drain.pc = "scan" /\ r \in drain.todo
    /\ drain' = [drain EXCEPT !.todo = @ \ {r},
                              !.pc = IF parked[r] = None THEN "scan" ELSE "tell",
                              !.lease = parked[r]]
    /\ parked' = [parked EXCEPT ![r] = None]
    /\ UNCHANGED <<gate, slots, cur, fresh, revokeVars, op, lane, call, life,
                   clock, historyVars>>

DrainTell ==
    /\ drain.pc = "tell"
    /\ told' = told \cup {drain.lease.epoch}
    /\ drain' = [drain EXCEPT !.pc = "count", !.lease = None]
    /\ UNCHANGED <<gate, slotVars, revokeVars, op, lane, call, life, clock,
                   published, late, latchEpoch, awaiting>>

DrainCount ==
    /\ drain.pc = "count"
    /\ revPending' = revPending - 1
    /\ drain' = [drain EXCEPT !.pc = "scan"]
    /\ UNCHANGED <<gate, slotVars, safetyFloor, revokeSeq, rev, op, lane, call,
                   life, clock, historyVars>>

DrainEnd ==
    /\ drain.by # "none" /\ drain.pc = "scan" /\ drain.todo = {}
    /\ drain' = NoDrain /\ DrainDone
    /\ UNCHANGED <<gate, slotVars, revokeVars, lane, call, life, clock,
                   historyVars>>

----------------------------------------------------------------------------
(* The Control Lane: onTick. It is one thread, so it starts nothing while  *)
(* it drains, waits for mu or holds it.                                    *)
LaneFree == lane.pc = "idle" /\ op.by # "lane" /\ drain.by # "lane"

LaneDrain ==
    /\ LaneFree /\ revPending # 0 /\ drain.by = "none"
    /\ drain' = [NoDrain EXCEPT !.by = "lane", !.todo = slots]
    /\ UNCHANGED <<gate, slotVars, revokeVars, op, lane, call, life, clock,
                   historyVars>>

(* The lock-free look at one slot. Latched and stale leases are Safety's.  *)
LaneScan(r) ==
    /\ LaneFree /\ r \in slots /\ cur[r] # None
    /\ Lapsed(r, cur[r], clock)
    /\ lane' = [pc |-> "lock", res |-> r, lease |-> cur[r], now |-> clock]
    /\ UNCHANGED <<gate, slotVars, revokeVars, op, drain, call, life, clock,
                   historyVars>>

LaneLock ==
    /\ lane.pc = "lock" /\ op = NoOp
    /\ op' = [NoOp EXCEPT !.pc = "expire", !.by = "lane", !.res = lane.res,
                          !.old = lane.lease, !.now = lane.now]
    /\ lane' = NoLane
    /\ UNCHANGED <<gate, slotVars, revokeVars, drain, call, life, clock,
                   historyVars>>

(* Under mu: same pointer, and still lapsed at the tick's own time.        *)
StillLapsed == cur[op.res] = op.old /\ Lapsed(op.res, op.old, op.now)

Expire ==
    /\ op.pc = "expire"
    /\ IF StillLapsed THEN Go("drop") ELSE op' = NoOp
    /\ UNCHANGED <<gate, slotVars, revokeVars, drain, lane, call, life, clock,
                   historyVars>>

LaneExit ==
    /\ LaneFree /\ life # "running"
    /\ lane' = [NoLane EXCEPT !.pc = "exited"]
    /\ UNCHANGED <<gate, slotVars, revokeVars, op, drain, call, life, clock,
                   historyVars>>

----------------------------------------------------------------------------
(* Stop: close stopCh; once the lane is gone or has been waited for long   *)
(* enough, take mu, drain, and sweep every slot. The kernel stops modules  *)
(* in reverse order of registration, so the Supervisor is gone by then.    *)
CloseStop ==
    /\ life = "running" /\ rev = NoRev /\ life' = "closing"
    /\ UNCHANGED <<gate, slotVars, revokeVars, op, drain, lane, call, clock,
                   historyVars>>

StopLock ==
    /\ life = "closing" /\ op = NoOp
    /\ life' = "stopping"
    /\ op' = [NoOp EXCEPT !.pc = "force", !.by = "stop", !.next = "sweep",
                          !.match = Conn, !.todo = slots]
    /\ UNCHANGED <<gate, slotVars, revokeVars, drain, lane, call, clock,
                   historyVars>>

----------------------------------------------------------------------------
(* RevokeAll: one producer, no lock, no bump. The seqlock is odd while it  *)
(* runs, the floor goes up first, and each lease it swaps out is counted   *)
(* and then parked for the drain.                                          *)
RevokeAll(epoch) ==
    /\ rev.pc = "idle"
    /\ rev' = [NoRev EXCEPT !.pc = "enter", !.epoch = epoch]
    /\ UNCHANGED <<gate, slotVars, safetyFloor, revokeSeq, revPending, op,
                   drain, lane, call, life, clock, historyVars>>

RevokeEnter ==
    /\ rev.pc = "enter"
    /\ revokeSeq' = revokeSeq + 1
    /\ rev' = [rev EXCEPT !.pc = "floor"]
    /\ UNCHANGED <<gate, slotVars, safetyFloor, revPending, op, drain, lane,
                   call, life, clock, historyVars>>

RevokeFloor_Skipped ==
    /\ rev.pc = "floor"
    /\ rev' = [rev EXCEPT !.pc = "swap", !.todo = slots]
    /\ UNCHANGED <<gate, slotVars, safetyFloor, revokeSeq, revPending, op,
                   drain, lane, call, life, clock, historyVars>>
RevokeFloor ==
    /\ rev.pc = "floor"
    /\ safetyFloor' = IF rev.epoch > safetyFloor THEN rev.epoch ELSE safetyFloor
    /\ rev' = [rev EXCEPT !.pc = "swap", !.todo = slots]
    /\ UNCHANGED <<gate, slotVars, revokeSeq, revPending, op, drain, lane, call,
                   life, clock, historyVars>>

RevokeSwap(r) ==
    /\ rev.pc = "swap" /\ r \in rev.todo
    /\ cur' = [cur EXCEPT ![r] = None]
    /\ rev' = [rev EXCEPT !.todo = @ \ {r}, !.res = r, !.lease = cur[r],
                          !.pc = IF cur[r] = None THEN "swap" ELSE "count"]
    /\ late' = late \cup (IF cur[r] # None /\ LatchRevoked THEN {cur[r].epoch}
                         ELSE {})
    /\ UNCHANGED <<gate, slots, fresh, parked, safetyFloor, revokeSeq,
                   revPending, op, drain, lane, call, life, clock, published,
                   told, latchEpoch, awaiting>>

RevokeCount ==
    /\ rev.pc = "count"
    /\ revPending' = revPending + 1
    /\ rev' = [rev EXCEPT !.pc = "park"]
    /\ UNCHANGED <<gate, slotVars, safetyFloor, revokeSeq, op, drain, lane,
                   call, life, clock, historyVars>>

(* The compare-and-swap into slot.revoked; were the place taken, the count *)
(* would be returned and the new end never told.                           *)
RevokePark ==
    /\ rev.pc = "park"
    /\ IF parked[rev.res] = None
       THEN /\ parked' = [parked EXCEPT ![rev.res] = rev.lease]
            /\ UNCHANGED revPending
       ELSE revPending' = revPending - 1 /\ UNCHANGED parked
    /\ rev' = [rev EXCEPT !.pc = "swap", !.res = None, !.lease = None]
    /\ UNCHANGED <<gate, slots, cur, fresh, safetyFloor, revokeSeq, op, drain,
                   lane, call, life, clock, historyVars>>

RevokeReturn ==
    /\ rev.pc = "swap" /\ rev.todo = {}
    /\ revokeSeq' = revokeSeq + 1
    /\ LatchServed(rev.epoch)
    /\ rev' = NoRev
    /\ UNCHANGED <<gate, slotVars, safetyFloor, revPending, op, drain, lane,
                   call, life, clock, published, told, late, latchEpoch>>

RevokeWork ==
    \/ RevokeEnter \/ RevokeFloor \/ RevokeCount \/ RevokePark
    \/ \E r \in Resource : RevokeSwap(r)

----------------------------------------------------------------------------
(* Check (CheckLease, CheckResource) and Refresh, with no lock: load the   *)
(* slot, judge the lease, look at the slot again; which of the two a call  *)
(* is shows from here on. Refresh then marks (a last look at the slot only *)
(* decides what it returns). `held' records whether the lease was still in *)
(* its slot when it was judged valid.                                      *)
CallLoad(k, r) ==
    /\ call[k].pc = "idle" /\ cur[r] # None
    /\ call' = [call EXCEPT ![k] = [pc |-> "judge", res |-> r, lease |-> cur[r],
                                    now |-> clock, held |-> FALSE]]
    /\ UNCHANGED <<gate, slotVars, revokeVars, op, drain, lane, life, clock,
                   historyVars>>

CallJudge(k) ==
    /\ call[k].pc = "judge"
    /\ LET c == call[k]
       IN  call' = [call EXCEPT ![k] =
                     IF Valid(c.res, c.lease, c.now)
                     THEN [c EXCEPT !.pc = "confirm",
                                    !.held = SlotHolds(c.res, c.lease)]
                     ELSE NoCall]
    /\ UNCHANGED <<gate, slotVars, revokeVars, op, drain, lane, life, clock,
                   historyVars>>

Confirmed_Unchecked(c) == TRUE
Confirmed(c) == SlotHolds(c.res, c.lease)

CallConfirm(k) ==
    /\ call[k].pc = "confirm"
    /\ LET c == call[k]
           proof == [NoCall EXCEPT !.pc = "proved", !.held = c.held]
           mark == [NoCall EXCEPT !.pc = "mark", !.res = c.res, !.now = c.now]
       IN  \E next \in IF Confirmed(c) THEN {proof, mark} ELSE {NoCall} :
              call' = [call EXCEPT ![k] = next]
    /\ UNCHANGED <<gate, slotVars, revokeVars, op, drain, lane, life, clock,
                   historyVars>>

CallMark(k) ==
    /\ call[k].pc = "mark"
    /\ MarkFresh(call[k].res, call[k].now)
    /\ call' = [call EXCEPT ![k] = NoCall]
    /\ UNCHANGED <<gate, slots, cur, parked, revokeVars, op, drain, lane, life,
                   clock, historyVars>>

CallReturn(k) ==
    /\ call[k].pc = "proved"
    /\ call' = [call EXCEPT ![k] = NoCall]
    /\ UNCHANGED <<gate, slotVars, revokeVars, op, drain, lane, life, clock,
                   historyVars>>

----------------------------------------------------------------------------
Tick ==
    /\ clock < MaxTime /\ clock' = clock + 1
    /\ UNCHANGED <<gate, slotVars, revokeVars, op, drain, lane, call, life,
                   historyVars>>

ControlStep ==
    \/ \E q \in Request : Acquire(q)
    \/ \E r \in Resource :
          \/ RenewBegin(r) \/ Release(r) \/ Sweep(r) \/ DrainSlot(r)
          \/ LaneScan(r)
          \/ \E g \in Generation : RevokeResource(r, g)
    \/ \E c \in Conn : RevokeConn(c)
    \/ \E p \in Package : RevokeByPackage(p)
    \/ Flush \/ Admit \/ Inspect \/ Preempt
    \/ Bump \/ Sequence \/ Freshen \/ Publish \/ Recheck \/ Undo
    \/ Renew \/ Renewed \/ Drop \/ Settle \/ Expire
    \/ DrainTell \/ DrainCount \/ DrainEnd
    \/ LaneDrain \/ LaneLock \/ LaneExit
    \/ StopLock
    \/ RevokeWork
    \/ \E k \in Caller :
          \/ CallJudge(k) \/ CallConfirm(k) \/ CallMark(k) \/ CallReturn(k)
          \/ \E r \in Resource : CallLoad(k, r)
    \/ Tick

----------------------------------------------------------------------------
(* What internal/safety does to control: it moves the gate, and its        *)
(* Supervisor calls RevokeAll with the epoch of the halt it has seen.      *)
SafetyTrips ==
    /\ gate.epoch < MaxEpoch
    /\ LatchTrip
    /\ UNCHANGED <<slotVars, revokeVars, op, drain, lane, call, life, clock,
                   published, told, late>>

SafetyRecovers ==
    /\ BeginRecovery \/ RequireRearm
    /\ UNCHANGED controlVars

SafetyRearms ==
    /\ gate.epoch < MaxEpoch
    /\ RearmGate
    /\ UNCHANGED controlVars

SafetyRevokes ==
    /\ life = "running"
    /\ \E epoch \in awaiting : RevokeAll(epoch)

(* The process is through with Stop. *)
Exit ==
    /\ life = "stopped" /\ op = NoOp /\ drain = NoDrain /\ rev = NoRev
    /\ UNCHANGED <<gate, controlVars>>

NextButRearm ==
    \/ ControlStep \/ CloseStop \/ RevokeReturn
    \/ SafetyTrips \/ SafetyRecovers \/ SafetyRevokes \/ Exit
Next == NextButRearm \/ (LatchRevoked /\ SafetyRearms)

controlAll == <<gate, controlVars>>

Init == LatchInit /\ ControlInit

ControlSpec == Init /\ [][Next]_controlAll

(* Threads keep running: a goroutine that can step does, the lane ticks,   *)
(* the Supervisor answers a latch. mu and revDrainMu are sync.Mutex, whose *)
(* starvation mode hands the lock to whoever has waited longest, so a      *)
(* thread that keeps asking for one gets it.                               *)
OpStep ==
    \/ Flush \/ Admit \/ Inspect \/ Preempt \/ Bump \/ Sequence \/ Freshen
    \/ Publish \/ Recheck \/ Undo \/ Renew \/ Renewed \/ Drop \/ Settle
    \/ Expire \/ \E r \in Resource : Sweep(r)
DrainStep ==
    DrainTell \/ DrainCount \/ DrainEnd \/ \E r \in Resource : DrainSlot(r)
ControlFairness ==
    /\ SF_controlAll(OpStep) /\ WF_controlAll(DrainStep)
    /\ WF_controlAll(RevokeWork \/ RevokeReturn) /\ WF_controlAll(SafetyRevokes)
    /\ SF_controlAll(LaneDrain) /\ SF_controlAll(LaneLock)
    /\ SF_controlAll(\E r \in Resource : LaneScan(r))
    /\ SF_controlAll(StopLock)
FairSpec == ControlSpec /\ ControlFairness

----------------------------------------------------------------------------
TypeOK ==
    /\ gate \in [state: GateStates, epoch: Nat]
    /\ slots \subseteq Resource
    /\ cur \in [Resource -> LeaseOrNone]
    /\ fresh \in [Resource -> Nat]
    /\ parked \in [Resource -> LeaseOrNone]
    /\ safetyFloor \in Nat /\ revokeSeq \in Nat /\ revPending \in Nat
    /\ rev \in [pc: {"idle", "enter", "floor", "swap", "count", "park"},
               epoch: Nat, todo: SUBSET Resource, res: Resource \cup {None},
               lease: LeaseOrNone]
    /\ op \in [pc: {"idle", "flush", "force", "draining", "admit", "inspect",
                   "preempt", "bump", "sequence", "freshen", "publish",
                   "recheck", "undo", "renew", "renewed", "drop", "sweep",
                   "settle", "expire"},
              by: {"caller", "lane", "stop"},
              next: {"idle", "admit", "bump", "sequence", "sweep"},
              q: Request \cup {None}, res: Resource \cup {None}, now: Nat,
              old: LeaseOrNone, epoch: Nat, seq: Nat, todo: SUBSET Resource,
              match: SUBSET Conn, dropped: SUBSET (Resource \X Nat)]
    /\ drain \in [by: {"none", "op", "lane"}, pc: {"scan", "tell", "count"},
                 todo: SUBSET Resource, lease: LeaseOrNone]
    /\ lane \in [pc: {"idle", "lock", "exited"}, res: Resource \cup {None},
                lease: LeaseOrNone, now: Nat]
    /\ call \in [Caller -> [pc: {"idle", "judge", "confirm", "proved", "mark"},
                           res: Resource \cup {None}, lease: LeaseOrNone,
                           now: Nat, held: BOOLEAN]]
    /\ life \in {"running", "closing", "stopping", "stopped"}
    /\ clock \in Nat
    /\ published \subseteq Resource \X Nat
    /\ told \subseteq Nat /\ late \subseteq Nat
    /\ latchEpoch \in Nat /\ awaiting \subseteq Nat

(* A lease that could be exercised now was issued after the last Safety    *)
(* trip: neither a publication that raced the trip nor a re-arm brings an  *)
(* older lease back (doc.go: the floor and every lease before it is void). *)
Effective(r) == Normal /\ cur[r] # None /\ cur[r].epoch > safetyFloor
NoLeaseOutlivesTrip ==
    \A r \in Resource :
        Effective(r) => cur[r].epoch > latchEpoch

(* Where the end of a published lease is still owed to the observer.       *)
Custody(r, e) ==
    (IF cur[r] # None /\ cur[r].epoch = e THEN {"slot"} ELSE {})
    \cup (IF parked[r] # None /\ parked[r].epoch = e THEN {"parked"} ELSE {})
    \cup (IF rev.lease # None /\ rev.lease.epoch = e THEN {"safety"} ELSE {})
    \cup (IF drain.lease # None /\ drain.lease.epoch = e THEN {"drain"} ELSE {})
    \cup (IF <<r, e>> \in op.dropped THEN {"op"} ELSE {})

(* RevokeAll always finds the slot's one parking place free (the swap can  *)
(* fail only if an internal invariant is already broken), and revPending   *)
(* counts exactly the ends between RevokeAll and the observer: it never    *)
(* wraps below zero and never reads 0 while one is parked.                 *)
ParkingFree == rev.pc = "park" => parked[rev.res] = None
PendingCount ==
    /\ ParkingFree
    /\ revPending = Cardinality({r \in Resource : parked[r] # None})
                      + (IF rev.pc = "park" THEN 1 ELSE 0)
                      + (IF drain.pc # "scan" THEN 1 ELSE 0)

(* No lease is published in a slot while the end of an earlier lease of    *)
(* that slot is untold: a late ControlLeaseEnded would hit the new holder  *)
(* (slot.go 56-62, 180-184). But for the leases that a RevokeAll takes     *)
(* under a gate re-armed already: between the two looks at revPending and  *)
(* at the seqlock it may count, park and return, and the lane be telling.  *)
EndToldBeforeNext ==
    \A r \in Resource : cur[r] # None =>
        \A p \in published :
            p[1] = r /\ p[2] # cur[r].epoch => p[2] \in told \cup late

(* Stop leaves nothing behind: nobody holds control, no acquire gets in    *)
(* afterwards, and every end has been told, those of RevokeAll included.   *)
StopIsFinal ==
    life = "stopped" =>
        /\ \A r \in Resource : cur[r] = None
        /\ \A p \in published : p[2] \in told

(* The end of every lease that took effect is told exactly once, whichever *)
(* of release, preemption, expiry, RevokeAll and Stop ended it: until told *)
(* it is in exactly one place that will tell it, and afterwards in none    *)
(* (notifyLeaseEnded; doc.go: every boundary notifies only once). It is    *)
(* told before the next lease of the slot, and before Stop is through.     *)
InOnePlace ==
    \A p \in published :
        Cardinality(Custody(p[1], p[2])) = IF p[2] \in told THEN 0 ELSE 1
EndToldOnce == InOnePlace /\ PendingCount /\ EndToldBeforeNext /\ StopIsFinal

(* An Acquire that reports success has handed out a lease that is in its   *)
(* slot and above the floor at that moment, not one that a trip, RevokeAll *)
(* and re-arm in between have voided (issueLocked's second look).          *)
GrantIsEffective ==
    [][op.pc = "recheck" /\ op' = NoOp =>
          Effective(op.res) /\ SlotHolds(op.res, op)]_controlAll

(* A lease never counts its deadman from an earlier lease's last input     *)
(* (slot.go 201: freshness first, then publish).                           *)
FreshFromBirth ==
    \A r \in Resource : cur[r] # None => fresh[r] >= cur[r].issued

(* A proof Check hands out was true at one instant inside the call: the    *)
(* lease was valid, its deadman counted from its own input, and in its     *)
(* slot at once.                                                           *)
CheckAtomic ==
    /\ \A k \in Caller : call[k].pc = "proved" => call[k].held
    /\ FreshFromBirth

(* A lease past its deadline or its deadman does not stay in its slot      *)
(* (unless it is heard from after all): lane or Supervisor collect it. And *)
(* the end of a lease reaches the observer, whoever took it from its slot. *)
Overdue(r) == cur[r] # None /\ Lapse(r, cur[r], clock) # "none"
Owed(r) == {p \in published : /\ p[1] = r /\ p[2] \notin told
                              /\ ~(cur[r] # None /\ cur[r].epoch = p[2])}
LapsedLeaseGoes == \A r \in Resource : Overdue(r) ~> ~Overdue(r)
EndIsTold == \A r \in Resource : Owed(r) # {} ~> Owed(r) = {}
LeasesEnd == LapsedLeaseGoes /\ EndIsTold

(* To the rest of the program the leases are the authority that            *)
(* ControlAuthority specifies; a published lease counts while the gate is  *)
(* Normal and its epoch is above the safety floor.                         *)
Authority == INSTANCE ControlAuthority WITH
    latched <- ~Normal,
    holder <- [r \in Resource |-> IF Effective(r) THEN cur[r].epoch ELSE 0],
    used <- {p[2] : p \in published}
ImplementsAuthority == Authority!Spec

=============================================================================
