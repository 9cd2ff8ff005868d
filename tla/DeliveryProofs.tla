--------------------------- MODULE DeliveryProofs ---------------------------
(***************************************************************************)
(* What reaches a client.  First the streams: what a withdrawal of         *)
(* authority and the end of a request promise about those they carried,    *)
(* and that the budget behind them is always what is there, for any        *)
(* routes, transfers and limits.  Then the events: that a client is told   *)
(* of every one it does not get, and of none after the end, for any        *)
(* clients, publishers, events and queues.                                 *)
(***************************************************************************)
EXTENDS TransferSession, EventFanout, FiniteSetTheorems, TLAPS

\* What the steps below need of the types: the shape of the functions.
Shape == [state : Phase, provider : BOOLEAN, caller : BOOLEAN, unattended : BOOLEAN,
          running : Int, leaving : Int,
          buffered : BOOLEAN]

ShapeOK ==
    /\ blamed \subseteq Route
    /\ route \in [Route -> {"open", "result", "reaped", "done"} \cup Withdrawal]
    /\ refs \in [Route -> SUBSET Transfer]
    /\ record \in [Transfer -> Shape]
    /\ withdrawal \in [Withdrawal -> {"idle", "sweep", "returned"}]
    /\ attempt \in [Attempt -> [pc : {"idle", "pending", "admitted", "attached",
                                      "replied", "gone"},
                                of : Transfer \cup {"-"}]]
    /\ \A a \in Attempt :
          attempt[a].pc \in {"attached", "replied"} => attempt[a].of \in Transfer

\* A withdrawal that has begun leaves no token open that it is about.
TakenIsShut ==
    \A w \in Withdrawal : withdrawal[w] # "idle" =>
        \A r \in About[w] : route[r] # "open"

\* A Provider is blamed by the step that ends the route.
BlamedIsDone == \A r \in blamed : route[r] = "done"

TransferInv ==
    /\ ShapeOK /\ TakenIsShut /\ BlamedIsDone
    /\ RevokedIsClosed /\ NothingOutlivesRoute

(***************************************************************************)
(* What every step keeps: no stream comes to life except by Prepare.       *)
(***************************************************************************)
NoneRevived == \A t \in Transfer : Live(t)' => Live(t)

\* The parts a step of the data plane leaves alone.
control == <<route, refs, withdrawal, blamed>>

LEMMA QuietStep ==
    ASSUME TransferInv, ShapeOK', NoneRevived, UNCHANGED control
    PROVE  TransferInv'
BY DEF TransferInv, TakenIsShut, BlamedIsDone, RevokedIsClosed,
       NothingOutlivesRoute, NoneRevived, control, Live

LEMMA CloseEffect ==
    ASSUME ShapeOK, NEW T \in SUBSET Transfer, Close(T)
    PROVE  /\ record' \in [Transfer -> Shape]
           /\ NoneRevived
           /\ \A t \in T : ~Live(t)'
<1> DEFINE S == {t \in T : Live(t)}
<1>1. record' = [t \in Transfer |-> IF t \in S THEN Closed(t) ELSE record[t]]
  BY DEF Close
<1>2. \A t \in Transfer : record[t] \in Shape
  BY DEF ShapeOK
<1>3. \A t \in Transfer : Closed(t) \in Shape /\ Closed(t).state = "closed"
  BY <1>2 DEF Closed, Shape, Phase
<1>4. record' \in [Transfer -> Shape]
  BY <1>1, <1>2, <1>3
<1>5. \A t \in S : record'[t].state = "closed"
  BY <1>1, <1>3
<1>6. \A t \in Transfer \ S : record'[t] = record[t]
  BY <1>1
<1> QED
  BY <1>4, <1>5, <1>6 DEF NoneRevived, Live, LivePhase

LEMMA OneRecord ==
    ASSUME ShapeOK, NEW t \in Transfer, NEW x \in Shape,
           record' = [record EXCEPT ![t] = x], x.state \in LivePhase => Live(t)
    PROVE  record' \in [Transfer -> Shape] /\ NoneRevived
BY DEF ShapeOK, NoneRevived, Live

LEMMA InitInv == Init => TransferInv
BY TransferConstants
   DEF Init, TransferInv, ShapeOK, Shape, NoRecord, Phase, TakenIsShut, BlamedIsDone,
       RevokedIsClosed, NothingOutlivesRoute, Live, LivePhase

LEMMA PrepareKeeps ==
    ASSUME TransferInv, NEW t \in Transfer, Prepare(t)
    PROVE  TransferInv'
<1>1. record[t] \in Shape /\ RouteOf[t] \in Route
  BY TransferConstants DEF TransferInv, ShapeOK
<1>2. ShapeOK'
  <2>1. [record[t] EXCEPT !.state = "prepared", !.buffered = TRUE] \in Shape
    BY <1>1 DEF Shape, Phase
  <2>2. [record[t] EXCEPT !.state = "forgotten"] \in Shape
    BY <1>1 DEF Shape, Phase
  <2>3. \/ record' = [record EXCEPT ![t] = [record[t] EXCEPT !.state = "prepared",
                                                             !.buffered = TRUE]]
        \/ record' = [record EXCEPT ![t] = [record[t] EXCEPT !.state = "forgotten"]]
    BY DEF Prepare, TransferInv, ShapeOK
  <2>4. record' \in [Transfer -> Shape]
    BY <2>1, <2>2, <2>3 DEF TransferInv, ShapeOK
  <2> QED
    BY <2>4 DEF Prepare, TransferInv, ShapeOK
<1>3. UNCHANGED control
  BY DEF Prepare, control
<1>4. \A u \in Transfer \ {t} : record'[u] = record[u]
  BY DEF Prepare, TransferInv, ShapeOK
<1>5. Live(t)' => route[RouteOf[t]] = "open"
  <2>1. CASE StillOpen(t)
    BY <2>1 DEF StillOpen, TokenOpen
  <2>2. CASE ~StillOpen(t)
    <3>1. record' = [record EXCEPT ![t].state = "forgotten"]
      BY <2>2 DEF Prepare
    <3>2. record'[t].state = "forgotten"
      BY <1>1, <3>1 DEF Shape, TransferInv, ShapeOK
    <3> QED
      BY <3>2 DEF Live, LivePhase
  <2> QED
    BY <2>1, <2>2
<1>6. RevokedIsClosed' /\ NothingOutlivesRoute'
  BY <1>3, <1>4, <1>5
     DEF RevokedIsClosed, NothingOutlivesRoute, TransferInv, TakenIsShut, control, Live
<1> QED
  BY <1>2, <1>3, <1>6 DEF TransferInv, TakenIsShut, BlamedIsDone, control

\* The steps that change one record, to a state no more alive.
LEMMA RecordStep ==
    ASSUME TransferInv, NEW t \in Transfer,
           \/ Begin(t) \/ Commit(t) \/ Abort(t) \/ RelayFails(t) \/ RelayDone(t)
           \/ Unattended(t) \/ Reap(t) \/ Forget(t)
    PROVE  TransferInv'
<1> USE DEF TransferInv
<1>1. record[t] \in Shape
  BY DEF ShapeOK
<1>2. /\ UNCHANGED <<route, refs, withdrawal, blamed, attempt>>
  BY DEF Begin, Commit, Abort, RelayFails, RelayDone, Unattended, Reap, Forget
<1>3. record' \in [Transfer -> Shape] /\ NoneRevived
  <2>1. CASE (Commit(t) /\ CommitExpired(t)) \/ Reap(t)
    BY <2>1, CloseEffect, {t} \in SUBSET Transfer DEF Commit, Reap
  <2>2. CASE Commit(t) /\ ~CommitExpired(t)
    <3>1. [record[t] EXCEPT !.state = "committed"] \in Shape
      BY <1>1 DEF Shape, Phase
    <3>2. record' = [record EXCEPT ![t] = [record[t] EXCEPT !.state = "committed"]]
      BY <2>2 DEF Commit, ShapeOK
    <3> QED
      BY <2>2, <3>1, <3>2, OneRecord DEF Commit, Live, LivePhase
  <2>3. CASE Begin(t) \/ Forget(t)
    <3>1. \A p \in {"asked", "forgotten"} :
             [record[t] EXCEPT !.state = p] \in Shape
      BY <1>1 DEF Shape, Phase
    <3>2. \E p \in {"asked", "forgotten"} :
             record' = [record EXCEPT ![t] = [record[t] EXCEPT !.state = p]]
      BY <2>3 DEF Begin, Forget, ShapeOK
    <3>3. PICK p \in {"asked", "forgotten"} :
             record' = [record EXCEPT ![t] = [record[t] EXCEPT !.state = p]]
      BY <3>2
    <3>4. [record[t] EXCEPT !.state = p].state \notin LivePhase
      BY <1>1 DEF Shape, LivePhase
    <3> QED
      BY <3>1, <3>3, <3>4, OneRecord
  <2>4. CASE Abort(t)
    <3>1. Closed(t) \in Shape /\ Closed(t).state \notin LivePhase
      BY <1>1 DEF Closed, Shape, Phase, LivePhase
    <3> QED
      BY <2>4, <3>1, OneRecord DEF Abort
  <2>5. CASE RelayFails(t)
    <3> DEFINE left(rec) == [rec EXCEPT !.running = @ - 1, !.leaving = @ + 1]
    <3>1. Closed(t) \in Shape /\ Closed(t).state = "closed"
      BY <1>1 DEF Closed, Shape, Phase
    <3>2. ASSUME NEW rec \in Shape
          PROVE  left(rec) \in Shape /\ left(rec).state = rec.state
      <4>1. rec.running - 1 \in Int /\ rec.leaving + 1 \in Int
        BY DEF Shape
      <4>2. \A i, j \in Int :
               /\ [rec EXCEPT !.running = i, !.leaving = j] \in Shape
               /\ [rec EXCEPT !.running = i, !.leaving = j].state = rec.state
        BY DEF Shape
      <4> QED
        BY <4>1, <4>2
    <3>3. \/ Live(t) /\ record' = [record EXCEPT ![t] = left(Closed(t))]
          \/ record' = [record EXCEPT ![t] = left(record[t])]
      BY <2>5 DEF RelayFails
    <3>4. left(Closed(t)) \in Shape /\ left(Closed(t)).state \notin LivePhase
      BY <3>1, <3>2 DEF LivePhase
    <3>5. left(record[t]) \in Shape /\ left(record[t]).state = record[t].state
      BY <1>1, <3>2
    <3> HIDE DEF left
    <3>6. CASE record' = [record EXCEPT ![t] = left(Closed(t))]
      BY <3>4, <3>6, OneRecord
    <3>7. CASE record' = [record EXCEPT ![t] = left(record[t])]
      BY <3>5, <3>7, OneRecord DEF Live
    <3> QED
      BY <3>3, <3>6, <3>7
  <2>6. CASE Unattended(t) \/ RelayDone(t)
    <3>1. \A b \in BOOLEAN, n \in Int :
             /\ [record[t] EXCEPT !.leaving = n, !.buffered = b] \in Shape
             /\ [record[t] EXCEPT !.leaving = n, !.buffered = b].state = record[t].state
             /\ [record[t] EXCEPT !.unattended = TRUE] \in Shape
             /\ [record[t] EXCEPT !.unattended = TRUE].state = record[t].state
      BY <1>1 DEF Shape
    <3>2. /\ record[t].leaving - 1 \in Int
          /\ (record[t].buffered /\ ~LastOut(t)) \in BOOLEAN
      BY <1>1 DEF Shape
    <3>3. CASE Unattended(t)
      <4>1. record' = [record EXCEPT ![t] = [record[t] EXCEPT !.unattended = TRUE]]
        BY <3>3 DEF Unattended, ShapeOK
      <4> QED
        BY <3>1, <3>2, <4>1, OneRecord DEF Live
    <3>4. CASE RelayDone(t)
      <4>1. record' = [record EXCEPT ![t] = [record[t] EXCEPT !.leaving = @ - 1,
                                              !.buffered = @ /\ ~LastOut(t)]]
        BY <3>4 DEF RelayDone, ShapeOK
      <4> QED
        BY <3>1, <3>2, <4>1, OneRecord DEF Live
    <3> QED
      BY <2>6, <3>3, <3>4
  <2> QED
    BY <2>1, <2>2, <2>3, <2>4, <2>5, <2>6
<1> QED
  BY <1>2, <1>3, QuietStep DEF ShapeOK, control

LEMMA AttemptKeeps ==
    ASSUME TransferInv, NEW a \in Attempt, AttemptStep(a)
    PROVE  TransferInv'
<1> USE DEF TransferInv
<1>1. attempt[a] \in [pc : {"idle", "pending", "admitted", "attached", "replied", "gone"},
                      of : Transfer \cup {"-"}]
  BY DEF ShapeOK
<1>2. UNCHANGED control
  BY DEF AttemptStep, Accept, Admit, Refuse, Attach, Reply, ReplyFails, Handed, control
<1>3. ShapeOK' /\ NoneRevived
  <2>1. CASE Accept(a) \/ Admit(a) \/ Refuse(a) \/ Reply(a)
    BY <1>1, <2>1 DEF Accept, Admit, Refuse, Reply, Goes, ShapeOK, NoneRevived, Live
  <2>2. CASE \E t \in Transfer : Attach(a, t)
    <3> PICK t \in Transfer : Attach(a, t)
      BY <2>2
    <3>1. record[t] \in Shape
      BY DEF ShapeOK
    <3>2. CASE Close({t})
      <4>1. record' \in [Transfer -> Shape] /\ NoneRevived
        BY <3>2, CloseEffect, {t} \in SUBSET Transfer
      <4>2. CASE Goes(a, "gone")
        BY <1>1, <1>2, <4>1, <4>2 DEF Goes, ShapeOK, control
      <4>3. CASE ~Goes(a, "gone")
        BY <1>1, <1>2, <4>1, <4>3 DEF Attach, ShapeOK, control
      <4> QED
        BY <4>2, <4>3
    <3>3. CASE UNCHANGED record
      BY <1>1, <3>3 DEF Attach, Goes, ShapeOK, NoneRevived, Live
    <3>4. CASE /\ attempt' = [attempt EXCEPT ![a] = [pc |-> "attached", of |-> t]]
               /\ record' = [record EXCEPT ![t].provider = @ \/ Dialler[a] = "provider",
                               ![t].caller = @ \/ Dialler[a] = "caller",
                               ![t].state = IF Dialler[a] = "caller" THEN "active" ELSE @]
      <4> DEFINE new == [record[t] EXCEPT !.provider = @ \/ Dialler[a] = "provider",
                               !.caller = @ \/ Dialler[a] = "caller",
                               !.state = IF Dialler[a] = "caller" THEN "active" ELSE @]
      <4>1. new \in Shape
        BY <3>1 DEF Shape, Phase
      <4>2. record' = [record EXCEPT ![t] = new]
        BY <3>4 DEF ShapeOK
      <4>3. Live(t)
        BY DEF Attach
      <4>4. record' \in [Transfer -> Shape] /\ NoneRevived
        BY <4>1, <4>2, <4>3, OneRecord
      <4> QED
        BY <1>1, <3>4, <4>4 DEF Attach, ShapeOK
    <3> QED
      BY <3>2, <3>3, <3>4 DEF Attach
  <2>3. CASE ReplyFails(a)
    <3>1. {attempt[a].of} \in SUBSET Transfer
      BY <2>3 DEF ReplyFails, ShapeOK
    <3> QED
      BY <1>1, <2>3, <3>1, CloseEffect DEF ReplyFails, Goes, ShapeOK
  <2>4. CASE Handed(a)
    <3>1. attempt' \in [Attempt -> [pc : {"idle", "pending", "admitted", "attached",
                                          "replied", "gone"}, of : Transfer \cup {"-"}]]
      BY <1>1, <2>4 DEF Handed, Goes, ShapeOK
    <3>2. record' \in [Transfer -> Shape] /\ NoneRevived
      <4> DEFINE t == attempt[a].of
      <4>1. t \in Transfer /\ record[t] \in Shape
        BY <2>4 DEF Handed, ShapeOK
      <4>2. CASE UNCHANGED record
        BY <4>2 DEF ShapeOK, NoneRevived, Live
      <4>3. CASE record' = [record EXCEPT ![t].running = Directions(t)]
        <5>1. [record[t] EXCEPT !.running = Directions(t)] \in Shape
          BY <4>1 DEF Shape, Directions
        <5>2. record' = [record EXCEPT ![t] = [record[t] EXCEPT !.running = Directions(t)]]
          BY <4>1, <4>3 DEF ShapeOK
        <5>3. [record[t] EXCEPT !.running = Directions(t)].state = record[t].state
          BY <4>1 DEF Shape
        <5> QED
          BY <4>1, <5>1, <5>2, <5>3, OneRecord DEF Live
      <4>4. UNCHANGED record \/ record' = [record EXCEPT ![t].running = Directions(t)]
        BY <2>4 DEF Handed
      <4> QED
        BY <4>2, <4>3, <4>4
    <3>3. \A b \in Attempt : attempt'[b].pc \in {"attached", "replied"} =>
                              attempt'[b] = attempt[b]
      BY <1>1, <2>4 DEF Handed, Goes, ShapeOK
    <3>4. UNCHANGED <<route, refs, withdrawal, blamed>>
      BY <2>4 DEF Handed
    <3> QED
      BY <3>1, <3>2, <3>3, <3>4 DEF ShapeOK
  <2> QED
    BY <2>1, <2>2, <2>3, <2>4 DEF AttemptStep
<1> QED
  BY <1>2, <1>3, QuietStep

\* The steps that only move a route, or the clock, or Stop's first half.
LEMMA RouteKeeps ==
    ASSUME TransferInv, NEW r \in Route, Result(r) \/ RouteExpires(r) \/ Tick(r)
    PROVE  TransferInv'
<1> USE DEF TransferInv
<1>1. UNCHANGED <<record, attempt, withdrawal, blamed>>
  BY DEF Result, RouteExpires, Tick
<1>2. CASE Tick(r)
  BY <1>1, <1>2, QuietStep DEF Tick, control, ShapeOK, NoneRevived, Live
<1>3. CASE Result(r) \/ RouteExpires(r)
  <2>1. /\ route[r] = "open"
        /\ \E to \in {"result", "reaped"} : route' = [route EXCEPT ![r] = to]
    BY <1>3 DEF Result, RouteExpires, TokenOpen
  <2>2. refs' \in [Route -> SUBSET Transfer] /\ \A q \in Route \ {r} : refs'[q] = refs[q]
    BY <1>3 DEF Result, RouteExpires, ShapeOK
  <2>3. ShapeOK'
    BY <1>1, <2>1, <2>2 DEF ShapeOK
  <2>4. TakenIsShut' /\ BlamedIsDone'
    BY <1>1, <2>1, TransferConstants DEF TakenIsShut, BlamedIsDone, ShapeOK
  <2>5. RevokedIsClosed'
    BY <1>1 DEF RevokedIsClosed, Live
  <2>6. NothingOutlivesRoute'
    BY <1>1, <2>1, <2>2, TransferConstants DEF NothingOutlivesRoute, Live, ShapeOK
  <2> QED
    BY <2>3, <2>4, <2>5, <2>6
<1> QED
  BY <1>2, <1>3

\* The steps that end a route close what it must not leave.
LEMMA EndKeeps ==
    ASSUME TransferInv, NEW r \in Route,
           FinishRoute(r) \/ CloseReaped(r) \/ \E w \in Withdrawal : Sweep(w, r)
    PROVE  TransferInv'
<1> USE DEF TransferInv
<1> DEFINE T == IF FinishRoute(r) THEN Dropped(r) ELSE OnRoute(r)
<1>1. T \in SUBSET Transfer
  BY DEF Dropped, OnRoute
<1>2. Close(T)
  BY DEF FinishRoute, CloseReaped, Sweep, CloseRoute
<1>3. record' \in [Transfer -> Shape] /\ NoneRevived /\ \A t \in T : ~Live(t)'
  BY <1>1, <1>2, CloseEffect
<1> HIDE DEF T
<1>4. /\ route' = [route EXCEPT ![r] = "done"]
      /\ UNCHANGED <<refs, attempt, withdrawal>>
  BY DEF FinishRoute, CloseReaped, Sweep, CloseRoute
<1>5. route[r] # "done"
  BY TransferConstants DEF FinishRoute, CloseReaped, Sweep
<1>6. blamed' \in {blamed, blamed \cup {r}}
  BY DEF FinishRoute, CloseReaped, Sweep
<1>7. ShapeOK'
  BY <1>3, <1>4, <1>6 DEF ShapeOK
<1>8. TakenIsShut' /\ BlamedIsDone'
  BY <1>4, <1>6, TransferConstants DEF TakenIsShut, BlamedIsDone, ShapeOK
<1>9. RevokedIsClosed'
  BY <1>3, <1>4 DEF RevokedIsClosed, NoneRevived
<1>10. \A t \in OnRoute(r) : Live(t)' => t \in refs[r] /\ r \notin blamed'
  <2>1. CASE FinishRoute(r) /\ Valid(r)
    BY <1>3, <1>5, <2>1 DEF T, FinishRoute, Dropped, BlamedIsDone
  <2>2. CASE FinishRoute(r) /\ ~Valid(r)
    BY <1>3, <2>2 DEF T, Dropped
  <2>3. CASE ~FinishRoute(r)
    BY <1>3, <2>3 DEF T
  <2> QED
    BY <2>1, <2>2, <2>3
<1>11. NothingOutlivesRoute'
  BY <1>3, <1>4, <1>6, <1>10, TransferConstants
     DEF NothingOutlivesRoute, NoneRevived, OnRoute, ShapeOK
<1> QED
  BY <1>7, <1>8, <1>9, <1>11

LEMMA TakeKeeps ==
    ASSUME TransferInv, NEW w \in Withdrawal, Take(w)
    PROVE  TransferInv'
<1>1. ShapeOK'
  BY DEF Take, TransferInv, ShapeOK
<1>2. \A r \in Route : /\ route'[r] \in {route[r], w}
                       /\ r \in About[w] => route'[r] # "open"
  BY TransferConstants DEF Take, Matches, TokenOpen
<1>3. w \notin {"open", "done"}
  BY TransferConstants
<1>4. \A r \in Route : route[r] # "open" => route'[r] = route[r]
  BY DEF Take, Matches, TokenOpen
<1>5. \A v \in Withdrawal : About[v] \subseteq Route
  BY TransferConstants
<1>6. TakenIsShut'
  <2> SUFFICES ASSUME NEW v \in Withdrawal, withdrawal'[v] # "idle", NEW r \in About[v]
               PROVE  route'[r] # "open"
    BY DEF TakenIsShut
  <2>1. r \in Route
    BY <1>5
  <2>2. CASE v = w
    BY <1>2, <2>1, <2>2
  <2>3. CASE v # w
    <3>1. route[r] # "open"
      BY <2>3 DEF Take, TransferInv, TakenIsShut, ShapeOK
    <3> QED
      BY <1>4, <2>1, <3>1
  <2> QED
    BY <2>2, <2>3
<1>7. BlamedIsDone'
  BY <1>4 DEF Take, TransferInv, ShapeOK, BlamedIsDone
<1>8. RevokedIsClosed'
  BY DEF Take, TransferInv, RevokedIsClosed, Live, ShapeOK
<1>9. NothingOutlivesRoute'
  BY <1>2, <1>3, TransferConstants DEF Take, TransferInv, NothingOutlivesRoute, Live
<1> QED
  BY <1>1, <1>6, <1>7, <1>8, <1>9 DEF TransferInv

LEMMA ScanKeeps ==
    ASSUME TransferInv, NEW w \in Withdrawal, Scan(w)
    PROVE  TransferInv'
<1> USE DEF TransferInv
<1>1. /\ record' \in [Transfer -> Shape] /\ NoneRevived
      /\ \A t \in Scanned(w) : ~Live(t)'
  BY CloseEffect, Scanned(w) \in SUBSET Transfer DEF Scan, Scanned
<1>2. UNCHANGED <<route, refs, attempt, blamed>>
  BY DEF Scan
<1>3. /\ withdrawal' = [withdrawal EXCEPT ![w] = "returned"]
      /\ withdrawal[w] = "sweep"
  BY DEF Scan
<1>4. ShapeOK'
  <2>1. withdrawal' \in [Withdrawal -> {"idle", "sweep", "returned"}]
    BY <1>3 DEF ShapeOK
  <2> QED
    BY <1>1, <1>2, <2>1 DEF ShapeOK
<1>5. TakenIsShut' /\ BlamedIsDone'
  BY <1>2, <1>3 DEF ShapeOK, TakenIsShut, BlamedIsDone
<1>6. RevokedIsClosed'
  <2> SUFFICES ASSUME NEW v \in Withdrawal, NEW t \in Transfer,
                      withdrawal'[v] = "returned", RouteOf[t] \in About[v]
               PROVE  ~Live(t)'
    BY DEF RevokedIsClosed
  <2>1. CASE v = w
    BY <1>1, <2>1 DEF Scanned, Matches
  <2>2. CASE v # w
    BY <1>1, <1>3, <2>2 DEF RevokedIsClosed, NoneRevived, ShapeOK
  <2> QED
    BY <2>1, <2>2
<1>7. NothingOutlivesRoute'
  BY <1>1, <1>2 DEF NothingOutlivesRoute, NoneRevived
<1> QED
  BY <1>4, <1>5, <1>6, <1>7

LEMMA StopKeeps ==
    ASSUME TransferInv, Stop \/ StopCloses
    PROVE  TransferInv'
<1> USE DEF TransferInv
<1>1. record' \in [Transfer -> Shape] /\ NoneRevived
  <2>1. CASE Stop
    BY <2>1 DEF Stop, ShapeOK, NoneRevived, Live
  <2>2. CASE StopCloses
    BY <2>2, CloseEffect, Transfer \in SUBSET Transfer DEF StopCloses
  <2> QED
    BY <2>1, <2>2
<1>2. UNCHANGED control
  BY DEF Stop, StopCloses, control
<1>3. ShapeOK'
  <2>1. \A a \in Attempt : [attempt[a] EXCEPT !.pc = "gone"] \in
           [pc : {"idle", "pending", "admitted", "attached", "replied", "gone"},
            of : Transfer \cup {"-"}]
    BY DEF ShapeOK
  <2>2. \A a \in Attempt : [attempt[a] EXCEPT !.pc = "gone"].pc = "gone"
    BY DEF ShapeOK
  <2>3. CASE Stop
    BY <1>1, <1>2, <2>3 DEF Stop, ShapeOK, control
  <2>4. CASE StopCloses
    BY <1>1, <1>2, <2>1, <2>2, <2>4 DEF StopCloses, ShapeOK, control
  <2> QED
    BY <2>3, <2>4
<1> QED
  BY <1>1, <1>2, <1>3, QuietStep

(***************************************************************************)
(* A withdrawal that has returned leaves no stream open, and a stream      *)
(* outlives its request only in its caller's hands, whatever crosses what. *)
(***************************************************************************)
LEMMA NextKeeps == TransferInv /\ [Next]_vars => TransferInv'
<1> SUFFICES ASSUME TransferInv, [Next]_vars PROVE TransferInv'
  OBVIOUS
<1>1. ASSUME NEW t \in Transfer, TransferStep(t) PROVE TransferInv'
  BY <1>1, PrepareKeeps, RecordStep DEF TransferStep
<1>2. ASSUME NEW r \in Route, RouteStep(r) PROVE TransferInv'
  <2>1. CASE Result(r) \/ RouteExpires(r) \/ Tick(r)
    BY <2>1, RouteKeeps
  <2>2. CASE FinishRoute(r) \/ CloseReaped(r)
    BY <2>2, EndKeeps
  <2> QED
    BY <1>2, <2>1, <2>2 DEF RouteStep
<1>3. ASSUME NEW w \in Withdrawal, WithdrawalStep(w) PROVE TransferInv'
  BY <1>3, TakeKeeps, ScanKeeps, EndKeeps DEF WithdrawalStep
<1>4. ASSUME NEW a \in Attempt, AttemptStep(a) PROVE TransferInv'
  BY <1>4, AttemptKeeps
<1>5. CASE UNCHANGED vars
  BY <1>5 DEF vars, TransferInv, ShapeOK, TakenIsShut, BlamedIsDone, RevokedIsClosed,
              NothingOutlivesRoute, Live
<1> QED
  BY <1>1, <1>2, <1>3, <1>4, <1>5, StopKeeps DEF Next

\* Whatever the limits, the withdrawals and the interleaving of Begin, Commit,
\* attach, the relay and FinishRoute with the sweeps: once a withdrawal has
\* returned, no stream that rests on what it took is open.
THEOREM AuthorityEndsStreams == Spec => []RevokedIsClosed
<1>1. TransferInv => RevokedIsClosed
  BY DEF TransferInv
<1> QED
  BY InitInv, NextKeeps, <1>1, PTL DEF Spec

\* A stream is open after its request's end only if the request's result
\* succeeded and named it; FinishRoute, the reaper and CloseRoute see to that.
THEOREM RequestsEndStreams == Spec => []NothingOutlivesRoute
<1>1. TransferInv => NothingOutlivesRoute
  BY DEF TransferInv
<1> QED
  BY InitInv, NextKeeps, <1>1, PTL DEF Spec

----------------------------------------------------------------------------
(* The budget.                                                             *)

KnownSet == {t \in Transfer : Known(t)}
LiveSet == {t \in Transfer : Live(t)}
ClosedSet == {t \in Transfer : record[t].state = "closed"}
BufferedSet == {t \in Transfer : record[t].buffered}

\* A worker that leaves belongs to a closed record, and one that runs to a
\* record that is or was active; a buffer is held for whatever still needs it.
RecordOK(x) ==
    /\ x.running >= 0 /\ x.leaving >= 0
    /\ x.leaving > 0 => x.state = "closed"
    /\ x.running > 0 => x.state \in {"active", "closed"}
    /\ x.buffered <=> x.state \in LivePhase \/ x.running + x.leaving > 0

BudgetInv ==
    /\ IsFiniteSet(KnownSet)
    /\ \A t \in Transfer : RecordOK(record[t])
    /\ live = Cardinality(LiveSet)
    /\ tombstones = Cardinality(ClosedSet)
    /\ buffers = Reserved(BufferedSet)
    /\ live + tombstones < MaxTransfers + MaxTombstones
    /\ buffers <= MaxRelayBuffers

Bit(b) == IF b THEN 1 ELSE 0

\* R is S with t put in or taken out.
Differ(R, S, t) == \A u : u # t => (u \in R <=> u \in S)

LEMMA CountOne ==
    ASSUME NEW S, IsFiniteSet(S), NEW R, NEW t, Differ(R, S, t)
    PROVE  /\ IsFiniteSet(R) /\ Cardinality(R) \in Nat /\ Cardinality(S) \in Nat
           /\ Cardinality(R) = Cardinality(S) + Bit(t \in R) - Bit(t \in S)
<1>1. Cardinality(S) \in Nat
  BY FS_CardinalityType
<1>2. CASE t \in R
  <2>1. R = S \cup {t}
    BY <1>2 DEF Differ
  <2> QED
    BY <1>1, <1>2, <2>1, FS_AddElement DEF Bit
<1>3. CASE t \notin R
  <2>1. R = S \ {t}
    BY <1>3 DEF Differ
  <2>2. IsFiniteSet(R) /\ Cardinality(R) = Cardinality(S) - Bit(t \in S)
    BY <1>1, <2>1, FS_RemoveElement DEF Bit
  <2> QED
    BY <1>1, <1>3, <2>2, FS_CardinalityType DEF Bit
<1> QED
  BY <1>2, <1>3

LEMMA LimitsAre ==
    /\ MaxTransfers \in Nat \ {0} /\ MaxTombstones \in Nat \ {0}
    /\ MaxRelayBuffers \in Nat
BY TransferConstants

LEMMA DirectionsAre == \A t : Directions(t) \in {1, 2}
BY DEF Directions

Duplex(S) == {u \in S : Mode[u] = "duplex"}

LEMMA ReserveOne ==
    ASSUME NEW S, IsFiniteSet(S), NEW R, NEW t, Differ(R, S, t)
    PROVE  /\ Reserved(S) \in Nat
           /\ Reserved(R) = Reserved(S) + (IF t \in R THEN Directions(t) ELSE 0)
                                        - (IF t \in S THEN Directions(t) ELSE 0)
<1>1. IsFiniteSet(Duplex(S)) /\ Duplex(S) \in SUBSET S
  BY FS_Subset, Duplex(S) \in SUBSET S DEF Duplex
<1>2. Differ(Duplex(R), Duplex(S), t)
  BY DEF Differ, Duplex
<1>3. /\ Cardinality(Duplex(R)) = Cardinality(Duplex(S)) + Bit(t \in Duplex(R))
                                    - Bit(t \in Duplex(S))
      /\ Cardinality(Duplex(R)) \in Nat /\ Cardinality(Duplex(S)) \in Nat
  BY <1>1, <1>2, CountOne
<1>4. /\ Cardinality(R) = Cardinality(S) + Bit(t \in R) - Bit(t \in S)
      /\ Cardinality(R) \in Nat /\ Cardinality(S) \in Nat
  BY CountOne
<1>5. /\ Reserved(R) = Cardinality(R) + Cardinality(Duplex(R))
      /\ Reserved(S) = Cardinality(S) + Cardinality(Duplex(S))
  BY DEF Reserved, Duplex
<1>6. \A U : t \in Duplex(U) <=> t \in U /\ Mode[t] = "duplex"
  BY DEF Duplex
<1>7. CASE Mode[t] = "duplex"
  <2>1. Directions(t) = 2 /\ Bit(t \in Duplex(R)) = Bit(t \in R)
        /\ Bit(t \in Duplex(S)) = Bit(t \in S)
    BY <1>6, <1>7 DEF Directions, Bit
  <2> QED
    BY <1>3, <1>4, <1>5, <2>1 DEF Bit
<1>8. CASE Mode[t] # "duplex"
  <2>1. Directions(t) = 1 /\ Bit(t \in Duplex(R)) = 0 /\ Bit(t \in Duplex(S)) = 0
    BY <1>6, <1>8 DEF Directions, Bit
  <2> QED
    BY <1>3, <1>4, <1>5, <2>1 DEF Bit
<1> QED
  BY <1>7, <1>8

LEMMA ReserveLess ==
    ASSUME NEW S, IsFiniteSet(S), NEW R \in SUBSET S
    PROVE  /\ Reserved(R) \in Nat /\ Reserved(S) \in Nat
           /\ Reserved(S \ R) = Reserved(S) - Reserved(R)
<1>1. /\ IsFiniteSet(Duplex(S)) /\ IsFiniteSet(R) /\ IsFiniteSet(Duplex(R))
      /\ Duplex(R) \in SUBSET Duplex(S)
  <2>1. Duplex(S) \in SUBSET S /\ Duplex(R) \in SUBSET S
        /\ Duplex(R) \in SUBSET Duplex(S)
    BY DEF Duplex
  <2> QED
    BY <2>1, FS_Subset
<1>2. S \cap R = R /\ Duplex(S) \cap Duplex(R) = Duplex(R)
      /\ Duplex(S \ R) = Duplex(S) \ Duplex(R)
  BY <1>1 DEF Duplex
<1>3. /\ Cardinality(S \ R) = Cardinality(S) - Cardinality(R)
      /\ Cardinality(Duplex(S \ R)) = Cardinality(Duplex(S)) - Cardinality(Duplex(R))
  <2>1. Cardinality(S \ R) = Cardinality(S) - Cardinality(S \cap R)
    BY FS_Difference
  <2>2. Cardinality(Duplex(S) \ Duplex(R)) =
           Cardinality(Duplex(S)) - Cardinality(Duplex(S) \cap Duplex(R))
    BY <1>1, FS_Difference
  <2> QED
    BY <1>2, <2>1, <2>2
<1>4. /\ Cardinality(S) \in Nat /\ Cardinality(R) \in Nat
      /\ Cardinality(Duplex(S)) \in Nat /\ Cardinality(Duplex(R)) \in Nat
  BY <1>1, FS_CardinalityType
<1>5. \A U : Reserved(U) = Cardinality(U) + Cardinality(Duplex(U))
  BY DEF Reserved, Duplex
<1> QED
  BY <1>3, <1>4, <1>5

LEMMA BudgetFinite ==
    ASSUME ShapeOK, BudgetInv
    PROVE  /\ IsFiniteSet(LiveSet) /\ IsFiniteSet(ClosedSet) /\ IsFiniteSet(BufferedSet)
           /\ live \in Nat /\ tombstones \in Nat /\ buffers \in Nat
<1>1. \A t \in Transfer : record[t] \in Shape /\ RecordOK(record[t])
  BY DEF ShapeOK, BudgetInv
<1>2. /\ LiveSet \in SUBSET KnownSet /\ ClosedSet \in SUBSET KnownSet
  BY DEF LiveSet, ClosedSet, KnownSet, Known
<1>3. BufferedSet \in SUBSET KnownSet
  <2>1. ASSUME NEW t \in Transfer, record[t].buffered
        PROVE  Known(t)
    BY <1>1, <2>1 DEF RecordOK, Known, Live, LivePhase, Shape
  <2> QED
    BY <2>1 DEF BufferedSet, KnownSet
<1>4. IsFiniteSet(KnownSet)
  BY DEF BudgetInv
<1>5. IsFiniteSet(LiveSet) /\ IsFiniteSet(ClosedSet) /\ IsFiniteSet(BufferedSet)
  BY <1>2, <1>3, <1>4, FS_Subset
<1>6. BufferedSet \in SUBSET BufferedSet
  OBVIOUS
<1> QED
  BY <1>5, <1>6, FS_CardinalityType, ReserveLess DEF BudgetInv

\* One record becomes x, and the counters follow it.
LEMMA OneBudget ==
    ASSUME ShapeOK, BudgetInv, NEW t \in Transfer, NEW x \in Shape, RecordOK(x),
           record' = [record EXCEPT ![t] = x],
           live' = live + Bit(x.state \in LivePhase) - Bit(Live(t)),
           tombstones' = tombstones + Bit(x.state = "closed")
                                    - Bit(record[t].state = "closed"),
           buffers' = buffers + (IF x.buffered THEN Directions(t) ELSE 0)
                              - (IF record[t].buffered THEN Directions(t) ELSE 0),
           live' + tombstones' < MaxTransfers + MaxTombstones,
           buffers' <= MaxRelayBuffers
    PROVE  BudgetInv'
<1>1. record'[t] = x /\ \A u \in Transfer \ {t} : record'[u] = record[u]
  BY DEF ShapeOK
<1>2. /\ IsFiniteSet(LiveSet) /\ IsFiniteSet(ClosedSet) /\ IsFiniteSet(BufferedSet)
  BY BudgetFinite
<1>3. /\ Differ(LiveSet', LiveSet, t) /\ Differ(ClosedSet', ClosedSet, t)
      /\ Differ(BufferedSet', BufferedSet, t) /\ Differ(KnownSet', KnownSet, t)
  BY <1>1 DEF Differ, LiveSet, ClosedSet, BufferedSet, KnownSet, Known, Live
<1>4. /\ t \in LiveSet' <=> x.state \in LivePhase
      /\ t \in LiveSet <=> Live(t)
      /\ t \in ClosedSet' <=> x.state = "closed"
      /\ t \in ClosedSet <=> record[t].state = "closed"
      /\ t \in BufferedSet' <=> x.buffered
      /\ t \in BufferedSet <=> record[t].buffered
  BY <1>1 DEF LiveSet, ClosedSet, BufferedSet, Live
<1>5. live' = Cardinality(LiveSet')
  BY <1>2, <1>3, <1>4, CountOne DEF BudgetInv, Bit
<1>6. tombstones' = Cardinality(ClosedSet')
  BY <1>2, <1>3, <1>4, CountOne DEF BudgetInv, Bit
<1>7. buffers' = Reserved(BufferedSet')
  BY <1>2, <1>3, <1>4, ReserveOne DEF BudgetInv
<1>8. IsFiniteSet(KnownSet')
  BY <1>3, CountOne DEF BudgetInv
<1>9. \A u \in Transfer : RecordOK(record[u])'
  BY <1>1 DEF BudgetInv, RecordOK
<1>10. Reserved(BufferedSet)' = Reserved(BufferedSet')
  BY DEF Reserved
<1> QED
  BY <1>5, <1>6, <1>7, <1>8, <1>9, <1>10 DEF BudgetInv

\* closeLocked, on any number of records at once.
LEMMA CloseBudget ==
    ASSUME ShapeOK, BudgetInv, NEW T \in SUBSET Transfer, Close(T)
    PROVE  BudgetInv'
<1> DEFINE S == {t \in T : Live(t)}
           Unworked == {t \in S : Workers(t) = 0}
<1>1. /\ record' = [t \in Transfer |-> IF t \in S THEN Closed(t) ELSE record[t]]
      /\ live' = live - Cardinality(S)
      /\ tombstones' = tombstones + Cardinality(S)
      /\ buffers' = buffers - Reserved(Unworked)
  BY DEF Close, Returned
<1>2. /\ S \subseteq Transfer /\ S \in SUBSET LiveSet /\ Unworked \in SUBSET BufferedSet
      /\ \A t \in S : Live(t) /\ record[t].state # "closed"
  <2>1. \A t \in S : t \in Transfer /\ Live(t) /\ record[t].state # "closed"
    BY DEF Live, LivePhase
  <2>2. \A t \in S : record[t].buffered
    BY <2>1 DEF BudgetInv, RecordOK, Live
  <2> QED
    BY <2>1, <2>2 DEF LiveSet, BufferedSet
<1>3. ASSUME NEW t \in S
      PROVE  /\ record'[t].state = "closed"
             /\ record'[t].running = record[t].running
             /\ record'[t].leaving = record[t].leaving
             /\ record'[t].buffered <=> Workers(t) > 0
             /\ RecordOK(record[t])'
  <2>1. record[t] \in Shape /\ RecordOK(record[t]) /\ Live(t)
    BY <1>2 DEF ShapeOK, BudgetInv
  <2>2. PICK b \in BOOLEAN : b = (record[t].buffered /\ Workers(t) > 0)
    OBVIOUS
  <2>3. record'[t] = [record[t] EXCEPT !.state = "closed", !.unattended = FALSE,
                         !.provider = FALSE, !.caller = FALSE, !.buffered = b]
    BY <1>1, <1>2, <2>2 DEF Closed
  <2>4. /\ record'[t].state = "closed" /\ record'[t].running = record[t].running
        /\ record'[t].leaving = record[t].leaving /\ record'[t].buffered = b
    BY <2>1, <2>3 DEF Shape
  <2>5. b <=> Workers(t) > 0
    BY <2>1, <2>2 DEF RecordOK, Live
  <2> QED
    BY <2>1, <2>4, <2>5 DEF RecordOK, Live, LivePhase, Workers
<1>4. \A t \in Transfer \ S : record'[t] = record[t]
  BY <1>1
<1> HIDE DEF S
<1>5. LiveSet' = LiveSet \ S
  <2>1. \A t \in Transfer : Live(t)' <=> Live(t) /\ t \notin S
    BY <1>3, <1>4 DEF Live, LivePhase
  <2> QED
    BY <2>1 DEF LiveSet
<1>6. ClosedSet' = ClosedSet \cup S /\ ClosedSet \cap S = {}
  BY <1>2, <1>3, <1>4 DEF ClosedSet
<1>7. KnownSet' = KnownSet
  <2>1. \A t \in Transfer : Known(t)' <=> Known(t)
    BY <1>2, <1>3, <1>4 DEF Known, Live, LivePhase
  <2> QED
    BY <2>1 DEF KnownSet
<1>8. BufferedSet' = BufferedSet \ Unworked
  <2>1. \A t \in S : record'[t].buffered <=> t \notin Unworked
    <3>1. \A t \in S : Workers(t) \in Nat
      BY <1>2 DEF BudgetInv, RecordOK, ShapeOK, Shape, Workers
    <3> QED
      BY <1>3, <3>1
  <2>2. \A t \in S : record[t].buffered
    BY <1>2 DEF BudgetInv, RecordOK, Live
  <2>3. \A t \in Transfer : record'[t].buffered <=> record[t].buffered /\ t \notin Unworked
    BY <1>4, <2>1, <2>2
  <2> QED
    BY <2>3 DEF BufferedSet
<1> HIDE DEF Unworked
<1>9. /\ IsFiniteSet(LiveSet) /\ IsFiniteSet(ClosedSet) /\ IsFiniteSet(BufferedSet)
      /\ live \in Nat /\ tombstones \in Nat /\ buffers \in Nat
  BY BudgetFinite
<1>10. IsFiniteSet(S) /\ Cardinality(S) \in Nat /\ LiveSet \cap S = S
  BY <1>2, <1>9, FS_Subset, FS_CardinalityType
<1>11. live' = Cardinality(LiveSet')
  <2>1. Cardinality(LiveSet \ S) = Cardinality(LiveSet) - Cardinality(LiveSet \cap S)
    BY <1>9, FS_Difference
  <2> QED
    BY <1>1, <1>5, <1>10, <2>1 DEF BudgetInv
<1>12. tombstones' = Cardinality(ClosedSet')
  <2>1. Cardinality(ClosedSet \cup S) =
           Cardinality(ClosedSet) + Cardinality(S) - Cardinality(ClosedSet \cap S)
    BY <1>9, <1>10, FS_Union
  <2>2. Cardinality(ClosedSet \cap S) = 0 /\ Cardinality(ClosedSet) \in Nat
    BY <1>6, <1>9, FS_EmptySet, FS_CardinalityType
  <2> QED
    BY <1>1, <1>6, <1>10, <2>1, <2>2 DEF BudgetInv
<1>13. buffers' = Reserved(BufferedSet') /\ buffers' <= buffers
  <2>1. /\ Reserved(BufferedSet \ Unworked) = Reserved(BufferedSet) - Reserved(Unworked)
        /\ Reserved(Unworked) \in Nat
    BY <1>2, <1>9, ReserveLess
  <2> QED
    BY <1>1, <1>8, <1>9, <2>1 DEF BudgetInv
<1>14. Reserved(BufferedSet)' = Reserved(BufferedSet')
  BY DEF Reserved
<1>15. \A t \in Transfer : RecordOK(record[t])'
  BY <1>3, <1>4 DEF BudgetInv, RecordOK
<1>16. live' + tombstones' = live + tombstones /\ buffers' <= MaxRelayBuffers
  <2>1. live' + tombstones' = live + tombstones
    BY <1>1, <1>9, <1>10
  <2>2. buffers' \in Int /\ buffers <= MaxRelayBuffers
    <3>1. Reserved(Unworked) \in Nat
      BY <1>2, <1>9, ReserveLess
    <3> QED
      BY <1>1, <1>9, <3>1 DEF BudgetInv
  <2> QED
    BY <1>9, <1>13, <2>1, <2>2, LimitsAre
<1> QED
  BY <1>7, <1>11, <1>12, <1>13, <1>14, <1>15, <1>16 DEF BudgetInv

\* A step that changes nothing the counters count.
LEMMA SameBudget ==
    ASSUME ShapeOK, BudgetInv, NEW t \in Transfer, NEW x \in Shape, RecordOK(x),
           record' = [record EXCEPT ![t] = x], UNCHANGED budget,
           x.state \in LivePhase <=> Live(t),
           x.state = "closed" <=> record[t].state = "closed",
           x.buffered = record[t].buffered
    PROVE  BudgetInv'
<1>1. /\ live \in Nat /\ tombstones \in Nat /\ buffers \in Nat
      /\ live + tombstones < MaxTransfers + MaxTombstones /\ buffers <= MaxRelayBuffers
      /\ live' = live /\ tombstones' = tombstones /\ buffers' = buffers
  BY BudgetFinite DEF BudgetInv, budget
<1>2. /\ Bit(x.state \in LivePhase) = Bit(Live(t)) /\ Bit(Live(t)) \in Int
      /\ Bit(x.state = "closed") = Bit(record[t].state = "closed")
      /\ Bit(record[t].state = "closed") \in Int
  BY DEF Bit
<1>3. Directions(t) \in Int
  BY DirectionsAre
<1>4. live' = live + Bit(x.state \in LivePhase) - Bit(Live(t))
  BY <1>1, <1>2
<1>5. tombstones' = tombstones + Bit(x.state = "closed") - Bit(record[t].state = "closed")
  BY <1>1, <1>2
<1>6. buffers' = buffers + (IF x.buffered THEN Directions(t) ELSE 0)
                         - (IF record[t].buffered THEN Directions(t) ELSE 0)
  BY <1>1, <1>3
<1> QED
  BY <1>1, <1>4, <1>5, <1>6, OneBudget

LEMMA PrepareBudget ==
    ASSUME ShapeOK, BudgetInv, NEW t \in Transfer, Prepare(t)
    PROVE  BudgetInv'
<1> DEFINE rec == record[t]
<1>1. /\ rec \in Shape /\ RecordOK(rec) /\ rec.state = "asked" /\ ~Live(t)
      /\ rec.running = 0 /\ rec.leaving = 0 /\ ~rec.buffered
      /\ live \in Nat /\ tombstones \in Nat /\ buffers \in Nat
  BY BudgetFinite DEF Prepare, ShapeOK, BudgetInv, RecordOK, Shape, Live, LivePhase
<1>2. Bit(TRUE) = 1 /\ Bit(FALSE) = 0 /\ Directions(t) \in Nat
  BY DirectionsAre DEF Bit
<1>3. CASE stopping = "no" /\ StillOpen(t) /\ Admissible(t)
  <2>1. PICK x : x = [rec EXCEPT !.state = "prepared", !.buffered = TRUE]
    OBVIOUS
  <2>2. /\ record' = [record EXCEPT ![t] = x]
        /\ live' = live + 1 /\ tombstones' = tombstones
        /\ buffers' = buffers + Directions(t)
        /\ live < MaxTransfers /\ tombstones < MaxTombstones
        /\ buffers + Directions(t) <= MaxRelayBuffers
    BY <1>3, <2>1 DEF Prepare, Admissible
  <2>3. /\ x \in Shape /\ x.state = "prepared" /\ x.buffered
        /\ x.running = rec.running /\ x.leaving = rec.leaving
    BY <1>1, <2>1 DEF Shape, Phase
  <2>4. RecordOK(x) /\ x.state \in LivePhase /\ x.state # "closed"
    BY <1>1, <2>3 DEF RecordOK, LivePhase
  <2>5. live' + tombstones' < MaxTransfers + MaxTombstones /\ buffers' <= MaxRelayBuffers
    BY <1>1, <1>2, <2>2, LimitsAre
  <2>6. /\ live' = live + Bit(x.state \in LivePhase) - Bit(Live(t))
        /\ tombstones' = tombstones + Bit(x.state = "closed") - Bit(rec.state = "closed")
    BY <1>1, <1>2, <2>2, <2>4 DEF Bit
  <2>7. buffers' = buffers + (IF x.buffered THEN Directions(t) ELSE 0)
                           - (IF rec.buffered THEN Directions(t) ELSE 0)
    BY <1>1, <1>2, <2>2, <2>3
  <2> QED
    BY <2>2, <2>3, <2>4, <2>5, <2>6, <2>7, OneBudget
<1>4. CASE ~(stopping = "no" /\ StillOpen(t) /\ Admissible(t))
  <2>1. PICK x : x = [rec EXCEPT !.state = "forgotten"]
    OBVIOUS
  <2>2. record' = [record EXCEPT ![t] = x] /\ UNCHANGED budget
    BY <1>4, <2>1 DEF Prepare, budget
  <2>3. /\ x \in Shape /\ x.state = "forgotten" /\ x.buffered = rec.buffered
        /\ x.running = rec.running /\ x.leaving = rec.leaving
    BY <1>1, <2>1 DEF Shape, Phase
  <2>4. RecordOK(x) /\ x.state \notin LivePhase
    BY <1>1, <2>3 DEF RecordOK, LivePhase
  <2> QED
    BY <1>1, <2>2, <2>3, <2>4, SameBudget
<1> QED
  BY <1>3, <1>4

LEMMA ControlBudget ==
    ASSUME ShapeOK, BudgetInv, NEW t \in Transfer,
           Begin(t) \/ Commit(t) \/ Abort(t) \/ Unattended(t) \/ Reap(t)
    PROVE  BudgetInv'
<1> DEFINE rec == record[t]
<1>1. rec \in Shape /\ RecordOK(rec)
  BY DEF ShapeOK, BudgetInv
<1>2. CASE (Commit(t) /\ CommitExpired(t)) \/ Reap(t)
  BY <1>2, CloseBudget, {t} \in SUBSET Transfer DEF Commit, Reap
<1>3. CASE Abort(t)
  <2>1. Close({t})
    <3>1. {u \in {t} : Live(u)} = {t}
      BY <1>3 DEF Abort
    <3>2. Cardinality({t}) = 1
      BY FS_Singleton
    <3>3. record' = [u \in Transfer |-> IF u \in {t} THEN Closed(u) ELSE record[u]]
      BY <1>3 DEF Abort, ShapeOK
    <3> QED
      BY <1>3, <3>1, <3>2, <3>3 DEF Abort, Close
  <2> QED
    BY <2>1, CloseBudget, {t} \in SUBSET Transfer
<1>4. CASE Begin(t) \/ (Commit(t) /\ ~CommitExpired(t)) \/ Unattended(t)
  <2>1. PICK p \in {"asked", "committed", "prepared"}, b \in BOOLEAN :
           /\ record' = [record EXCEPT ![t] = [rec EXCEPT !.state = p, !.unattended = b]]
           /\ \/ p = "asked" /\ rec.state = "none"
              \/ p # "asked" /\ rec.state = "prepared"
           /\ UNCHANGED budget
    <3>1. /\ \A p : [rec EXCEPT !.state = p] =
                       [rec EXCEPT !.state = p, !.unattended = rec.unattended]
          /\ rec.unattended \in BOOLEAN
      BY <1>1 DEF Shape
    <3>2. CASE Begin(t)
      BY <3>1, <3>2 DEF Begin
    <3>3. CASE Commit(t) /\ ~CommitExpired(t)
      BY <3>1, <3>3 DEF Commit
    <3>4. CASE Unattended(t)
      <4>1. rec.state = "prepared"
        BY <3>4 DEF Unattended
      <4>2. [rec EXCEPT !.unattended = TRUE] =
               [rec EXCEPT !.state = "prepared", !.unattended = TRUE]
        BY <1>1, <4>1 DEF Shape
      <4> QED
        BY <3>4, <4>1, <4>2 DEF Unattended
    <3> QED
      BY <1>4, <3>2, <3>3, <3>4
  <2>2. PICK x : x = [rec EXCEPT !.state = p, !.unattended = b]
    OBVIOUS
  <2>3. /\ x \in Shape /\ x.state = p /\ x.buffered = rec.buffered
        /\ x.running = rec.running /\ x.leaving = rec.leaving
    BY <1>1, <2>2 DEF Shape, Phase
  <2>4. /\ RecordOK(x) /\ x.state # "closed" /\ rec.state # "closed"
        /\ x.state \in LivePhase <=> Live(t)
    BY <1>1, <2>1, <2>3 DEF RecordOK, LivePhase, Live
  <2> QED
    BY <2>1, <2>2, <2>3, <2>4, SameBudget
<1> QED
  BY <1>2, <1>3, <1>4

LEMMA ForgetBudget ==
    ASSUME ShapeOK, BudgetInv, NEW t \in Transfer, Forget(t)
    PROVE  BudgetInv'
<1> DEFINE rec == record[t]
<1>1. /\ rec \in Shape /\ RecordOK(rec) /\ rec.state = "closed" /\ ~Live(t)
      /\ rec.running = 0 /\ rec.leaving = 0 /\ ~rec.buffered
      /\ live \in Nat /\ tombstones \in Nat /\ buffers \in Nat
      /\ live + tombstones < MaxTransfers + MaxTombstones /\ buffers <= MaxRelayBuffers
  BY BudgetFinite
     DEF Forget, Workers, ShapeOK, BudgetInv, RecordOK, Shape, Live, LivePhase
<1>2. Bit(TRUE) = 1 /\ Bit(FALSE) = 0
  BY DEF Bit
<1>3. PICK x : x = [rec EXCEPT !.state = "forgotten"]
  OBVIOUS
<1>4. /\ record' = [record EXCEPT ![t] = x]
      /\ live' = live /\ tombstones' = tombstones - 1 /\ buffers' = buffers
  BY <1>3 DEF Forget
<1>5. /\ x \in Shape /\ x.state = "forgotten" /\ x.buffered = rec.buffered
      /\ x.running = rec.running /\ x.leaving = rec.leaving
  BY <1>1, <1>3 DEF Shape, Phase
<1>6. RecordOK(x) /\ x.state \notin LivePhase /\ ~x.buffered
  BY <1>1, <1>5 DEF RecordOK, LivePhase
<1>7. /\ live' = live + Bit(x.state \in LivePhase) - Bit(Live(t))
      /\ tombstones' = tombstones + Bit(x.state = "closed") - Bit(rec.state = "closed")
  BY <1>1, <1>2, <1>4, <1>5, <1>6 DEF Bit
<1>8. buffers' = buffers + (IF x.buffered THEN Directions(t) ELSE 0)
                         - (IF rec.buffered THEN Directions(t) ELSE 0)
  BY <1>1, <1>4, <1>6
<1>9. live' + tombstones' < MaxTransfers + MaxTombstones
  BY <1>1, <1>4, LimitsAre
<1> QED
  BY <1>1, <1>4, <1>5, <1>6, <1>7, <1>8, <1>9, OneBudget

LEMMA RelayFailsBudget ==
    ASSUME ShapeOK, BudgetInv, NEW t \in Transfer, RelayFails(t)
    PROVE  BudgetInv'
<1> DEFINE rec == record[t]
<1>1. /\ rec \in Shape /\ RecordOK(rec) /\ rec.running > 0 /\ rec.leaving >= 0
      /\ rec.buffered = TRUE /\ rec.running \in Int /\ rec.leaving \in Int
      /\ rec.state \in {"active", "closed"}
      /\ Live(t) <=> rec.state # "closed"
      /\ live \in Nat /\ tombstones \in Nat /\ buffers \in Nat
      /\ live + tombstones < MaxTransfers + MaxTombstones /\ buffers <= MaxRelayBuffers
  BY BudgetFinite DEF RelayFails, ShapeOK, BudgetInv, RecordOK, Shape, Live, LivePhase
<1>2. /\ Bit(TRUE) = 1 /\ Bit(FALSE) = 0 /\ Directions(t) \in Int
  BY DirectionsAre DEF Bit
<1>3. CASE Live(t)
  <2>1. PICK y : y = Closed(t)
    OBVIOUS
  <2>2. /\ y \in Shape /\ y.state = "closed" /\ y.buffered = TRUE
        /\ y.running = rec.running /\ y.leaving = rec.leaving
    <3>1. Workers(t) > 0
      BY <1>1 DEF Workers
    <3>2. PICK b \in BOOLEAN : b = (rec.buffered /\ Workers(t) > 0)
      OBVIOUS
    <3>3. y = [rec EXCEPT !.state = "closed", !.unattended = FALSE,
                          !.provider = FALSE, !.caller = FALSE, !.buffered = b]
      BY <2>1, <3>2 DEF Closed
    <3>4. /\ y \in Shape /\ y.state = "closed" /\ y.buffered = b
          /\ y.running = rec.running /\ y.leaving = rec.leaving
      BY <1>1, <3>3 DEF Shape, Phase
    <3> QED
      BY <1>1, <3>1, <3>2, <3>4
  <2>3. PICK x : x = [y EXCEPT !.running = y.running - 1, !.leaving = y.leaving + 1]
    OBVIOUS
  <2>4. /\ record' = [record EXCEPT ![t] = x]
        /\ live' = live - 1 /\ tombstones' = tombstones + 1 /\ buffers' = buffers
    BY <1>3, <2>1, <2>3 DEF RelayFails
  <2>5. /\ x \in Shape /\ x.state = "closed" /\ x.buffered = TRUE
        /\ x.running = rec.running - 1 /\ x.leaving = rec.leaving + 1
    <3>1. PICK i \in Int, j \in Int : i = y.running - 1 /\ j = y.leaving + 1
      BY <1>1, <2>2
    <3>2. x = [y EXCEPT !.running = i, !.leaving = j]
      BY <2>3, <3>1
    <3>3. /\ x \in Shape /\ x.state = y.state /\ x.buffered = y.buffered
          /\ x.running = i /\ x.leaving = j
      BY <2>2, <3>2 DEF Shape
    <3> QED
      BY <2>2, <3>1, <3>3
  <2>6. RecordOK(x)
    BY <1>1, <2>5 DEF RecordOK
  <2>7. /\ live' = live + Bit(x.state \in LivePhase) - Bit(Live(t))
        /\ tombstones' = tombstones + Bit(x.state = "closed") - Bit(rec.state = "closed")
    BY <1>1, <1>2, <1>3, <2>4, <2>5 DEF Bit, LivePhase
  <2>8. buffers' = buffers + (IF x.buffered THEN Directions(t) ELSE 0)
                           - (IF rec.buffered THEN Directions(t) ELSE 0)
    BY <1>1, <1>2, <2>4, <2>5
  <2>9. live' + tombstones' < MaxTransfers + MaxTombstones
    BY <1>1, <2>4, LimitsAre
  <2> QED
    BY <1>1, <2>4, <2>5, <2>6, <2>7, <2>8, <2>9, OneBudget
<1>4. CASE ~Live(t)
  <2>1. PICK x : x = [rec EXCEPT !.running = rec.running - 1, !.leaving = rec.leaving + 1]
    OBVIOUS
  <2>2. record' = [record EXCEPT ![t] = x] /\ UNCHANGED budget
    BY <1>4, <2>1 DEF RelayFails, budget
  <2>3. /\ x \in Shape /\ x.state = rec.state /\ x.buffered = rec.buffered
        /\ x.running = rec.running - 1 /\ x.leaving = rec.leaving + 1
    <3>1. rec.running - 1 \in Int /\ rec.leaving + 1 \in Int
      BY <1>1
    <3>2. \A i, j \in Int :
             /\ [rec EXCEPT !.running = i, !.leaving = j] \in Shape
             /\ [rec EXCEPT !.running = i, !.leaving = j].state = rec.state
             /\ [rec EXCEPT !.running = i, !.leaving = j].buffered = rec.buffered
             /\ [rec EXCEPT !.running = i, !.leaving = j].running = i
             /\ [rec EXCEPT !.running = i, !.leaving = j].leaving = j
      BY <1>1 DEF Shape
    <3> QED
      BY <2>1, <3>1, <3>2
  <2>4. RecordOK(x) /\ (x.state \in LivePhase <=> Live(t))
    BY <1>1, <1>4, <2>3 DEF RecordOK, LivePhase, Live
  <2> QED
    BY <2>2, <2>3, <2>4, SameBudget
<1> QED
  BY <1>3, <1>4

LEMMA RelayDoneBudget ==
    ASSUME ShapeOK, BudgetInv, NEW t \in Transfer, RelayDone(t)
    PROVE  BudgetInv'
<1> DEFINE rec == record[t]
<1>1. /\ rec \in Shape /\ RecordOK(rec) /\ rec.leaving > 0 /\ rec.running >= 0
      /\ rec.buffered = TRUE /\ rec.running \in Int /\ rec.leaving \in Int
      /\ rec.state = "closed" /\ ~Live(t)
      /\ live \in Nat /\ tombstones \in Nat /\ buffers \in Nat
      /\ live + tombstones < MaxTransfers + MaxTombstones /\ buffers <= MaxRelayBuffers
  BY BudgetFinite DEF RelayDone, ShapeOK, BudgetInv, RecordOK, Shape, Live, LivePhase
<1>2. /\ Bit(TRUE) = 1 /\ Bit(FALSE) = 0 /\ Directions(t) \in Nat
  BY DirectionsAre DEF Bit
<1>3. PICK b \in BOOLEAN : b = (rec.buffered /\ ~LastOut(t))
  OBVIOUS
<1>4. PICK x : x = [rec EXCEPT !.leaving = rec.leaving - 1, !.buffered = b]
  OBVIOUS
<1>5. /\ record' = [record EXCEPT ![t] = x]
      /\ live' = live /\ tombstones' = tombstones
      /\ buffers' = buffers - IF LastOut(t) /\ rec.buffered THEN Directions(t) ELSE 0
  BY <1>3, <1>4 DEF RelayDone
<1>6. /\ x \in Shape /\ x.state = "closed" /\ x.buffered = b
      /\ x.running = rec.running /\ x.leaving = rec.leaving - 1
  <2>1. rec.leaving - 1 \in Int
    BY <1>1
  <2>2. \A i \in Int :
           /\ [rec EXCEPT !.leaving = i, !.buffered = b] \in Shape
           /\ [rec EXCEPT !.leaving = i, !.buffered = b].state = rec.state
           /\ [rec EXCEPT !.leaving = i, !.buffered = b].buffered = b
           /\ [rec EXCEPT !.leaving = i, !.buffered = b].running = rec.running
           /\ [rec EXCEPT !.leaving = i, !.buffered = b].leaving = i
    BY <1>1 DEF Shape
  <2> QED
    BY <1>1, <1>4, <2>1, <2>2
<1>7. b <=> ~LastOut(t)
  BY <1>1, <1>3
<1>8. LastOut(t) <=> rec.running + rec.leaving = 1
  BY DEF LastOut, Workers
<1>9. RecordOK(x)
  BY <1>1, <1>6, <1>7, <1>8 DEF RecordOK, LivePhase
<1>10. /\ live' = live + Bit(x.state \in LivePhase) - Bit(Live(t))
       /\ tombstones' = tombstones + Bit(x.state = "closed") - Bit(rec.state = "closed")
  BY <1>1, <1>2, <1>5, <1>6 DEF Bit, LivePhase
<1>11. /\ buffers' = buffers + (IF x.buffered THEN Directions(t) ELSE 0)
                             - (IF rec.buffered THEN Directions(t) ELSE 0)
       /\ buffers' <= buffers /\ buffers' \in Int
  BY <1>1, <1>2, <1>5, <1>6, <1>7
<1>12. buffers' <= MaxRelayBuffers
  BY <1>1, <1>11, LimitsAre
<1>13. live' + tombstones' < MaxTransfers + MaxTombstones
  BY <1>1, <1>5
<1> QED
  BY <1>5, <1>6, <1>9, <1>10, <1>11, <1>12, <1>13, OneBudget

LEMMA IdleBudget ==
    ASSUME BudgetInv, UNCHANGED <<record, live, tombstones, buffers>>
    PROVE  BudgetInv'
<1>1. /\ LiveSet' = LiveSet /\ ClosedSet' = ClosedSet /\ KnownSet' = KnownSet
      /\ BufferedSet' = BufferedSet
  BY DEF LiveSet, ClosedSet, KnownSet, Known, Live, BufferedSet
<1>2. Reserved(BufferedSet)' = Reserved(BufferedSet)
  BY <1>1 DEF Reserved
<1> QED
  BY <1>1, <1>2 DEF BudgetInv, RecordOK

LEMMA AttemptBudget ==
    ASSUME ShapeOK, BudgetInv, NEW a \in Attempt, AttemptStep(a)
    PROVE  BudgetInv'
<1>1. CASE UNCHANGED <<record, live, tombstones, buffers>>
  BY <1>1, IdleBudget
<1>2. CASE Accept(a) \/ Admit(a) \/ Refuse(a) \/ Reply(a)
  BY <1>1, <1>2 DEF Accept, Admit, Refuse, Reply, budget
<1>3. CASE ReplyFails(a)
  <2>1. {attempt[a].of} \in SUBSET Transfer
    BY <1>3 DEF ReplyFails, ShapeOK
  <2> QED
    BY <1>3, <2>1, CloseBudget DEF ReplyFails
<1>4. ASSUME NEW t \in Transfer, Attach(a, t)
      PROVE  BudgetInv'
  <2> DEFINE rec == record[t]
  <2>1. rec \in Shape /\ RecordOK(rec) /\ Live(t)
    BY <1>4 DEF ShapeOK, BudgetInv, Attach
  <2>2. CASE Close({t})
    BY <2>2, CloseBudget, {t} \in SUBSET Transfer
  <2>3. CASE UNCHANGED record /\ UNCHANGED budget
    BY <1>1, <2>3 DEF budget
  <2>4. CASE /\ MayAttach(t, Dialler[a])
             /\ record' = [record EXCEPT ![t].provider = @ \/ Dialler[a] = "provider",
                               ![t].caller = @ \/ Dialler[a] = "caller",
                               ![t].state = IF Dialler[a] = "caller" THEN "active" ELSE @]
             /\ UNCHANGED budget
    <3>1. PICK p \in BOOLEAN, q \in BOOLEAN, s \in Phase :
             /\ p = (rec.provider \/ Dialler[a] = "provider")
             /\ q = (rec.caller \/ Dialler[a] = "caller")
             /\ s = IF Dialler[a] = "caller" THEN "active" ELSE rec.state
      BY <2>1 DEF Shape, Phase
    <3>2. PICK x : x = [rec EXCEPT !.provider = p, !.caller = q, !.state = s]
      OBVIOUS
    <3>3. record' = [record EXCEPT ![t] = x]
      BY <2>4, <3>1, <3>2
    <3>4. /\ x \in Shape /\ x.state = s /\ x.buffered = rec.buffered
          /\ x.running = rec.running /\ x.leaving = rec.leaving
      BY <2>1, <3>2 DEF Shape
    <3>5. s \in LivePhase /\ s # "closed" /\ rec.state # "closed"
          /\ (s = rec.state \/ s = "active")
      BY <2>1, <3>1 DEF Live, LivePhase
    <3>6. RecordOK(x)
      BY <2>1, <3>4, <3>5 DEF RecordOK, Live
    <3> QED
      BY <2>1, <2>4, <3>3, <3>4, <3>5, <3>6, SameBudget
  <2> QED
    BY <1>4, <2>2, <2>3, <2>4 DEF Attach
<1>5. CASE Handed(a)
  <2>1. PICK t \in Transfer : t = attempt[a].of
    BY <1>5 DEF Handed, ShapeOK
  <2> DEFINE rec == record[t]
  <2>2. UNCHANGED budget /\ rec \in Shape /\ RecordOK(rec)
    BY <1>5 DEF Handed, ShapeOK, BudgetInv
  <2>3. CASE UNCHANGED record
    BY <1>1, <2>2, <2>3 DEF budget
  <2>4. CASE rec.state = "active" /\ record' = [record EXCEPT ![t].running = Directions(t)]
    <3>1. PICK x : x = [rec EXCEPT !.running = Directions(t)]
      OBVIOUS
    <3>2. Directions(t) \in {1, 2}
      BY DirectionsAre
    <3>3. /\ x \in Shape /\ x.state = "active" /\ x.buffered = rec.buffered
          /\ x.running \in {1, 2} /\ x.leaving = rec.leaving
      BY <2>2, <2>4, <3>1, <3>2 DEF Shape
    <3>4. RecordOK(x) /\ (x.state \in LivePhase <=> Live(t))
      BY <2>2, <2>4, <3>3 DEF RecordOK, LivePhase, Live, Shape
    <3> QED
      BY <2>2, <2>4, <3>1, <3>3, <3>4, SameBudget
  <2> QED
    BY <1>5, <2>1, <2>3, <2>4 DEF Handed, Relayable
<1> QED
  BY <1>2, <1>3, <1>4, <1>5 DEF AttemptStep

LEMMA BudgetKept == Spec => [](TransferInv /\ BudgetInv)
<1>1. Init => BudgetInv
  <2> SUFFICES ASSUME Init
               PROVE  BudgetInv
    OBVIOUS
  <2>1. \A t \in Transfer : record[t] = NoRecord
    BY DEF Init
  <2>2. /\ KnownSet = {} /\ LiveSet = {} /\ ClosedSet = {} /\ BufferedSet = {}
    BY <2>1 DEF KnownSet, Known, LiveSet, ClosedSet, BufferedSet, Live, LivePhase, NoRecord
  <2>3. \A t \in Transfer : RecordOK(record[t])
    BY <2>1 DEF RecordOK, NoRecord, LivePhase
  <2>4. Reserved({}) = 0
    <3>1. Duplex({}) = {}
      BY DEF Duplex
    <3> QED
      BY <3>1, FS_EmptySet DEF Reserved, Duplex
  <2> QED
    BY <2>2, <2>3, <2>4, FS_EmptySet, LimitsAre DEF Init, BudgetInv
<1>2. TransferInv /\ BudgetInv /\ [Next]_vars => BudgetInv'
  <2> SUFFICES ASSUME TransferInv, BudgetInv, [Next]_vars
               PROVE  BudgetInv'
    OBVIOUS
  <2>1. ShapeOK
    BY DEF TransferInv
  <2>2. ASSUME NEW t \in Transfer, TransferStep(t)
        PROVE  BudgetInv'
    BY <2>1, <2>2, PrepareBudget, ControlBudget, ForgetBudget, RelayFailsBudget,
       RelayDoneBudget DEF TransferStep
  <2>3. ASSUME NEW T \in SUBSET Transfer, Close(T)
        PROVE  BudgetInv'
    BY <2>1, <2>3, CloseBudget
  <2>4. ASSUME NEW r \in Route, RouteStep(r)
        PROVE  BudgetInv'
    <3>1. OnRoute(r) \in SUBSET Transfer /\ Dropped(r) \in SUBSET Transfer
      BY DEF OnRoute, Dropped
    <3>2. CASE FinishRoute(r) \/ CloseReaped(r)
      BY <2>3, <3>1, <3>2 DEF FinishRoute, CloseReaped, CloseRoute
    <3>3. CASE Result(r) \/ RouteExpires(r) \/ Tick(r)
      BY <3>3, IdleBudget DEF Result, RouteExpires, Tick, budget
    <3> QED
      BY <2>4, <3>2, <3>3 DEF RouteStep
  <2>5. ASSUME NEW w \in Withdrawal, WithdrawalStep(w)
        PROVE  BudgetInv'
    <3>1. CASE Take(w)
      BY <3>1, IdleBudget DEF Take, budget
    <3>2. CASE Scan(w)
      BY <2>3, <3>2, Scanned(w) \in SUBSET Transfer DEF Scan, Scanned
    <3>3. ASSUME NEW r \in Route, Sweep(w, r)
          PROVE  BudgetInv'
      BY <2>3, <3>3, OnRoute(r) \in SUBSET Transfer DEF Sweep, CloseRoute, OnRoute
    <3> QED
      BY <2>5, <3>1, <3>2, <3>3 DEF WithdrawalStep
  <2>6. CASE Stop \/ UNCHANGED vars
    BY <2>6, IdleBudget DEF Stop, vars, budget
  <2>7. CASE StopCloses
    BY <2>3, <2>7, Transfer \in SUBSET Transfer DEF StopCloses
  <2> QED
    BY <2>1, <2>2, <2>4, <2>5, <2>6, <2>7, AttemptBudget DEF Next
<1> QED
  BY <1>1, <1>2, InitInv, NextKeeps, PTL DEF Spec

\* Manager.closeLocked, relayDone and the reaper between them return what Begin
\* reserved, once and never too early: the counters that admit transfers are
\* always what is there, and the memory behind them never passes its limits.
THEOREM BudgetNeverDrifts == Spec => []BudgetExact
<1>1. TransferInv /\ BudgetInv => BudgetExact
  <2> SUFFICES ASSUME TransferInv, BudgetInv
               PROVE  BudgetExact
    OBVIOUS
  <2>1. \A t \in Transfer : Workers(t) > 0 => record[t].buffered
    BY DEF BudgetInv, RecordOK, Workers
  <2> QED
    BY <2>1 DEF BudgetInv, BudgetExact, LiveSet, ClosedSet, BufferedSet
<1> QED
  BY <1>1, BudgetKept, PTL

(***************************************************************************)
(* Events: what is sent, and the functions.                                *)
(***************************************************************************)
LEMMA WithoutEffect ==
    ASSUME NEW K
    PROVE  /\ DOMAIN Without(K) = DOMAIN subs \ K
           /\ \A k \in DOMAIN subs \ K : Without(K)[k] = subs[k]
BY DEF Without, Restrict

LEMMA ReleasedEffect ==
    ASSUME NEW K
    PROVE  /\ DOMAIN Released(K) = DOMAIN owner \ K
           /\ \A k \in DOMAIN owner \ K : Released(K)[k] = owner[k]
BY DEF Released, Restrict

LEMMA PutEffect ==
    ASSUME NEW f, NEW x, NEW v
    PROVE  /\ DOMAIN Put(f, x, v) = DOMAIN f \cup {x}
           /\ \A y \in DOMAIN f : y # x => Put(f, x, v)[y] = f[y]
           /\ Put(f, x, v)[x] = v
BY DEF Put

LEMMA Appended ==
    ASSUME NEW s \in Seq(Message), NEW m \in Message
    PROVE  /\ Append(s, m) \in Seq(Message) /\ Len(s) \in Nat
           /\ DOMAIN s = 1..Len(s)
           /\ DOMAIN Append(s, m) = 1..Len(s) + 1 /\ Len(Append(s, m)) = Len(s) + 1
           /\ \A i \in 1..Len(s) : Append(s, m)[i] = s[i]
           /\ Append(s, m)[Len(s) + 1] = m
OBVIOUS

LEMMA MessageShape ==
    ASSUME NEW m \in Message
    PROVE  /\ m.id \in Handle
           /\ m.kind = "event" => m.sequence \in Nat /\ m.dropped \in Nat
                                  /\ m.event \in Event \cup {Changed}
BY DEF Message, Answers

LEMMA SentShape ==
    ASSUME EventTypeOK, NEW c \in Conn
    PROVE  /\ outbox[c].sent \in Seq(Message) /\ Len(outbox[c].sent) \in Nat
           /\ DOMAIN outbox[c].sent = 1..Len(outbox[c].sent)
           /\ \A i \in DOMAIN outbox[c].sent : outbox[c].sent[i] \in Message
BY DEF EventTypeOK, Box

\* The last number depends on what was sent before...
LEMMA LastKept ==
    ASSUME NEW s, NEW t, NEW id, NEW i \in Nat, NEW n,
           \A j \in 1..i - 1 : s[j] = t[j]
    PROVE  LastNumber(s, id, i, n) <=> LastNumber(t, id, i, n)
<1>1. Earlier(s, id, i) = Earlier(t, id, i)
  BY DEF Earlier
<1>2. \A j \in Earlier(s, id, i) : s[j] = t[j]
  BY DEF Earlier
<1> QED
  BY <1>1, <1>2 DEF LastNumber

LEMMA AllKept ==
    ASSUME NEW s, NEW t, NEW id, NEW l \in Nat, NEW n, \A j \in 1..l : s[j] = t[j]
    PROVE  LastNumber(s, id, l + 1, n) <=> LastNumber(t, id, l + 1, n)
<1>1. l + 1 \in Nat /\ l + 1 - 1 = l
  OBVIOUS
<1> QED
  BY <1>1, LastKept

\* ...and on no message that is not the subscription's...
LEMMA LastSkips ==
    ASSUME NEW s, NEW id, NEW i \in Nat \ {0}, NEW n, ~IsEvent(s[i], id)
    PROVE  LastNumber(s, id, i + 1, n) <=> LastNumber(s, id, i, n)
<1>1. Earlier(s, id, i + 1) = Earlier(s, id, i)
  BY DEF Earlier
<1> QED
  BY <1>1 DEF LastNumber

\* ...and is that of the last one.
LEMMA LastIsNewest ==
    ASSUME NEW s, NEW id, NEW i \in Nat \ {0}, IsEvent(s[i], id)
    PROVE  LastNumber(s, id, i + 1, s[i].sequence)
<1>1. i \in Earlier(s, id, i + 1)
  BY DEF Earlier
<1>2. \A j \in Earlier(s, id, i + 1) : j \in 1..i /\ (i <= j => j = i)
  BY DEF Earlier
<1> QED
  BY <1>1, <1>2 DEF LastNumber

LEMMA LastOfNone ==
    ASSUME NEW s, NEW id, NEW i \in Nat, \A j \in 1..i - 1 : ~IsEvent(s[j], id)
    PROVE  LastNumber(s, id, i, 0)
BY DEF LastNumber, Earlier

\* A queue takes a message at its end, or nothing.
LEMMA PushEffect ==
    ASSUME EventTypeOK, NEW c \in Conn, NEW m \in Message
    PROVE  /\ Push(outbox[c], m) \in Box
           /\ Fits(outbox[c], m) =>
                 Push(outbox[c], m).sent = Append(outbox[c].sent, m)
           /\ ~Fits(outbox[c], m) => Push(outbox[c], m) = outbox[c]
<1>1. outbox[c] \in Box
  BY DEF EventTypeOK
<1>2. Append(outbox[c].sent, m) \in Seq(Message)
  BY <1>1, Appended DEF Box
<1> QED
  BY <1>1, <1>2 DEF Push, Box

(***************************************************************************)
(* The invariant of the events.  Each part is about what a publication, a  *)
(* closeSubscriptions or a request may be in the middle of.                *)
(***************************************************************************)
\* What is in none of the closeSubscriptions under way.
Running(k) == \A w \in Publisher : k \notin work[w].todo \cup work[w].told

\* A number that some subscription had is never one of a later subscription:
\* whatever is under way or was said is about numbers already given.
NumbersGiven ==
    /\ \A k \in DOMAIN subs : k[2] <= nextID[k[1]]
    /\ \A w \in Publisher : \A k \in work[w].todo \cup work[w].told : k[2] <= nextID[k[1]]
    /\ \A c \in Conn : \A i \in DOMAIN outbox[c].sent : outbox[c].sent[i].id <= nextID[c]
    /\ \A c \in Conn : handler[c].op = "reply" => handler[c].message.id <= nextID[c]
    /\ \A c \in Conn : handler[c].op = "subscribe" => nextID[c] < MaxSubscribe

\* What a publication still has to deliver to and to close.
WorkInv ==
    \A w \in Publisher :
        /\ work[w].deliver # {} => work[w].size \in Size
        /\ \A k \in work[w].deliver :
               k \in DOMAIN subs /\ subs[k].key.provider = w /\ Running(k)
        /\ \A k \in work[w].todo \cup work[w].told :
               k \in DOMAIN subs => subs[k].key.provider = w

\* A subscription counts what its client got and what it lost.
CountInv ==
    \A k \in DOMAIN subs :
        /\ Reliable(subs[k].key.event) => subs[k].dropped = 0
        /\ Running(k) =>
               LastNumber(outbox[k[1]].sent, k[2], Len(outbox[k[1]].sent) + 1,
                          subs[k].sequence - subs[k].dropped)

\* An event says what is lost only where something may be.
ReliableLosesNone ==
    \A c \in Conn : \A i \in DOMAIN outbox[c].sent :
        LET m == outbox[c].sent[i]
        IN  m.kind = "event" /\ Reliable(m.event) => m.dropped = 0

IsEnd(m) == m.kind \in {"unsubscribed", "closed"}

\* The client of a subscription that is still there was told of its end by a
\* closeSubscriptions that is about to remove it, or not at all.
EndInv ==
    /\ \A k \in DOMAIN subs : \A i \in DOMAIN outbox[k[1]].sent :
          IsEnd(outbox[k[1]].sent[i]) /\ outbox[k[1]].sent[i].id = k[2] =>
              \E w \in Publisher : k \in work[w].told
    /\ \A c \in Conn : handler[c].op = "reply" /\ IsEnd(handler[c].message) =>
          <<c, handler[c].message.id>> \notin DOMAIN subs

NoneAfterEnd ==
    \A c \in Conn : \A i, j \in DOMAIN outbox[c].sent :
        LET m == outbox[c].sent[i]
            later == outbox[c].sent[j]
        IN  IsEnd(m) /\ j > i => ~(later.kind = "event" /\ later.id = m.id)

\* What the teardown of a connection has reached.
TeardownInv ==
    \A c \in Conn :
        /\ stage[c] > 0 => handler[c] = Nothing
        /\ stage[c] >= 2 => \A k \in DOMAIN owner : k[1] # c
        /\ stage[c] >= 3 => \A k \in DOMAIN subs : k[1] # c
        /\ stage[c] >= 4 => c \notin serving

Mail ==
    /\ NumbersGiven /\ WorkInv /\ CountInv /\ EndInv
    /\ ReliableLosesNone /\ NoneAfterEnd /\ GapIsCounted

EventInv == EventTypeOK /\ Mail /\ TeardownInv

(***************************************************************************)
(* The types.                                                              *)
(***************************************************************************)
LEMMA ControlShape ==
    ASSUME NEW id \in Handle
    PROVE  /\ Control("subscribed", id) \in Answers /\ Control("unsubscribed", id) \in Answers
           /\ Control("closed", id) \in Message
BY DEF Control, Answers, Message

LEMMA RestShape == Rest \in Work /\ Nothing \in Doing
BY DEF Rest, Work, Doing

LEMMA EventInitTyped == EventInit => EventTypeOK
<1> SUFFICES ASSUME EventInit PROVE EventTypeOK
  OBVIOUS
<1>1. /\ DOMAIN owner = {} /\ DOMAIN subs = {}
  BY DEF EventInit
<1>2. /\ work \in [Publisher -> Work] /\ handler \in [Conn -> Doing]
  BY RestShape DEF EventInit
<1>3. outbox \in [Conn -> Box]
  BY DEF EventInit, Box
<1>4. nextID \in [Conn -> 0..MaxSubscribe] /\ stage \in [Conn -> 0..5]
  BY EventAssumption DEF EventInit
<1>5. /\ serving \subseteq Provider /\ operation \in [Operation -> {"running", "ended"}]
      /\ published \in Nat
  BY DEF EventInit
<1> QED
  BY <1>1, <1>2, <1>3, <1>4, <1>5 DEF EventTypeOK

LEMMA KeyTyped ==
    /\ \A p \in Provider, e \in Event, s \in Instance \cup {None} : Key(p, e, s) \in Keys
    /\ \A o \in Operation : Key(Manager, Changed, o) \in Keys
BY DEF Key, Keys, Publisher

LEMMA HandlerTyped ==
    ASSUME EventTypeOK, NEW c \in Conn
    PROVE  /\ handler[c] \in Doing
           /\ handler[c].op = "subscribe" => handler[c].key \in Keys
           /\ handler[c].op = "reply" => handler[c].message \in Answers
           /\ handler[c].op = "bind" =>
                 handler[c].scope \in Instance /\ handler[c].owner \in Conn
<1>1. handler[c] \in Doing
  BY DEF EventTypeOK
<1> QED
  BY <1>1 DEF Doing, Nothing

LEMMA AnswersSent == Answers \subseteq Message
BY DEF Message

LEMMA WithoutTyped ==
    ASSUME EventTypeOK, NEW K, subs' = Without(K)
    PROVE  DOMAIN subs' \subseteq Conn \X Handle /\ \A k \in DOMAIN subs' : subs'[k] \in Subscription
BY WithoutEffect DEF EventTypeOK

LEMMA ReleasedTyped ==
    ASSUME EventTypeOK, NEW K, owner' = Released(K)
    PROVE  DOMAIN owner' \subseteq Provider \X Instance /\ \A x \in DOMAIN owner' : owner'[x] \in Conn
BY ReleasedEffect DEF EventTypeOK


LEMMA SubscriberTyped ==
    ASSUME EventTypeOK, NumbersGiven, NEW c \in Conn, Subscriber(c)
    PROVE  EventTypeOK'
<1>1. ASSUME NEW key \in Keys, AdmitSubscription(c, key)
      PROVE  EventTypeOK'
  <2>1. [op |-> "subscribe", key |-> key] \in Doing
    BY DEF Doing
  <2>2. handler' \in [Conn -> Doing]
    BY <1>1, <2>1 DEF EventTypeOK, AdmitSubscription
  <2> QED
    BY <1>1, <2>2 DEF EventTypeOK, AdmitSubscription, scopes
<1>2. CASE Subscribe(c)
  <2> DEFINE v == [key |-> handler[c].key, sequence |-> 0, dropped |-> 0]
             x == <<c, nextID[c] + 1>>
             a == [op |-> "reply", message |-> Control("subscribed", nextID[c] + 1)]
  <2>1. nextID[c] + 1 \in 0..MaxSubscribe /\ nextID[c] + 1 \in Handle
    BY <1>2, EventAssumption DEF EventTypeOK, Subscribe, NumbersGiven, Handle
  <2>2. nextID' \in [Conn -> 0..MaxSubscribe]
    BY <1>2, <2>1 DEF EventTypeOK, Subscribe
  <2>3. v \in Subscription /\ x \in Conn \X Handle
    BY <1>2, <2>1, HandlerTyped DEF Subscribe, Subscription
  <2>4. subs' = Put(subs, x, v)
    BY <1>2 DEF Subscribe
  <2>5. DOMAIN subs' \subseteq Conn \X Handle /\ \A k \in DOMAIN subs' : subs'[k] \in Subscription
    <3> HIDE DEF v, x
    <3>1. DOMAIN subs' = DOMAIN subs \cup {x}
      BY <2>4, PutEffect
    <3>2. subs'[x] = v /\ \A k \in DOMAIN subs : k # x => subs'[k] = subs[k]
      BY <2>4 DEF Put
    <3> QED
      BY <2>3, <3>1, <3>2 DEF EventTypeOK
  <2>6. a \in Doing
    BY <2>1, ControlShape DEF Doing
  <2>7. handler' \in [Conn -> Doing]
    BY <1>2, <2>6 DEF EventTypeOK, Subscribe
  <2> QED
    BY <1>2, <2>2, <2>5, <2>7 DEF EventTypeOK, Subscribe, scopes
<1>3. CASE Answer(c)
  <2> DEFINE m == handler[c].message
             b == IF Fits(outbox[c], m) THEN Push(outbox[c], m)
                  ELSE [outbox[c] EXCEPT !.closed = TRUE]
  <2>1. m \in Message
    BY <1>3, HandlerTyped, AnswersSent DEF Answer
  <2>2. outbox[c] \in Box
    BY DEF EventTypeOK
  <2>3. [outbox[c] EXCEPT !.closed = TRUE] \in Box
    BY <2>2 DEF Box
  <2>4. Push(outbox[c], m) \in Box
    BY <2>1, PushEffect DEF Box
  <2>5. outbox' \in [Conn -> Box]
    BY <1>3, <2>3, <2>4 DEF EventTypeOK, Answer
  <2>6. handler' \in [Conn -> Doing]
    BY <1>3, RestShape DEF EventTypeOK, Answer
  <2> QED
    BY <1>3, <2>5, <2>6 DEF EventTypeOK, Answer, scopes
<1>4. CASE Write(c)
  <2>1. outbox[c] \in Box
    BY DEF EventTypeOK
  <2>2. [outbox[c] EXCEPT !.closed = TRUE] \in Box
    BY <2>1 DEF Box
  <2>0. [outbox[c] EXCEPT !.taken = @ + 1] \in Box
    <3>1. outbox[c].taken + 1 \in Nat
      BY <2>1 DEF Box
    <3> QED
      BY <2>1, <3>1 DEF Box
  <2>3. \/ outbox' = [outbox EXCEPT ![c] = [outbox[c] EXCEPT !.taken = @ + 1]]
        \/ outbox' = [outbox EXCEPT ![c] = [outbox[c] EXCEPT !.closed = TRUE]]
    BY <1>4 DEF Write
  <2>4. outbox' \in [Conn -> Box]
    BY <2>0, <2>2, <2>3 DEF EventTypeOK
  <2> QED
    BY <1>4, <2>4 DEF EventTypeOK, Write, scopes
<1>5. ASSUME NEW id \in Handle, Unsubscribe(c, id)
      PROVE  EventTypeOK'
  <2> DEFINE a == [op |-> "reply", message |-> Control("unsubscribed", id)]
  <2>1. a \in Doing
    BY ControlShape DEF Doing
  <2>2. handler' \in [Conn -> Doing]
    BY <1>5, <2>1 DEF EventTypeOK, Unsubscribe
  <2>3. subs' = Without({<<c, id>>})
    BY <1>5 DEF Unsubscribe
  <2> QED
    BY <1>5, <2>2, <2>3, WithoutTyped DEF EventTypeOK, Unsubscribe, scopes
<1> QED
  BY <1>1, <1>2, <1>3, <1>4, <1>5, KeyTyped DEF Subscriber

LEMMA PublishTyped ==
    ASSUME EventTypeOK, NEW w \in Publisher, NEW key, NEW size \in Size,
           NEW ends \in SUBSET Operation, Publish(w, key, size, ends)
    PROVE  work' \in [Publisher -> Work] /\ published' \in Nat
<1> DEFINE D == {k \in DOMAIN subs : subs[k].key = key}
<1>1. D \in SUBSET (Conn \X Handle)
  BY DEF EventTypeOK
<1>2. [Rest EXCEPT !.size = size, !.ends = ends, !.deliver = D] \in Work
  BY <1>1 DEF Rest, Work
<1> QED
  BY <1>2 DEF EventTypeOK, Publish

LEMMA WorkShape ==
    ASSUME EventTypeOK, NEW w \in Publisher
    PROVE  /\ work[w] \in Work /\ work[w].deliver \subseteq Conn \X Handle
           /\ work[w].todo \subseteq Conn \X Handle /\ work[w].told \subseteq Conn \X Handle
BY DEF EventTypeOK, Work

\* An event as Registry.Publish builds it.
EventOf(k, size) ==
    [kind |-> "event", id |-> k[2], event |-> subs[k].key.event,
     sequence |-> subs[k].sequence + 1, dropped |-> subs[k].dropped, size |-> size]

LEMMA DeliverEffect ==
    ASSUME EventTypeOK, WorkInv, NEW w \in Publisher, NEW k \in Conn \X Handle, Deliver(w, k)
    PROVE  LET m == EventOf(k, work[w].size)
               fits == Fits(outbox[k[1]], m)
           IN  /\ k \in DOMAIN subs /\ subs[k] \in Subscription /\ m \in Message
               /\ k[1] \in Conn /\ k[2] \in Handle /\ fits \in BOOLEAN
               /\ outbox' = [outbox EXCEPT ![k[1]] = Push(outbox[k[1]], m)]
               /\ subs' = [subs EXCEPT ![k] = AfterDelivery(subs[k], fits)]
               /\ AfterDelivery(subs[k], fits) \in Subscription
               /\ work' = [work EXCEPT ![w] = [work[w] EXCEPT
                     !.deliver = @ \ {k},
                     !.todo = IF Ends(subs[k], fits) THEN @ \cup {k} ELSE @]]
<1> DEFINE m == EventOf(k, work[w].size)
           fits == Fits(outbox[k[1]], m)
<1>1. k \in DOMAIN subs /\ work[w].size \in Size
  BY DEF WorkInv, Deliver
<1>2. subs[k] \in Subscription
  BY <1>1 DEF EventTypeOK
<1>3. k[1] \in Conn /\ k[2] \in Handle
  OBVIOUS
<1>4. subs[k].key.event \in Event \cup {Changed}
  BY <1>2 DEF Subscription, Keys
<1>5. m \in Message
  <2>1. subs[k].sequence + 1 \in Nat /\ subs[k].dropped \in Nat
    BY <1>2 DEF Subscription
  <2> QED
    BY <1>1, <1>3, <1>4, <2>1 DEF EventOf, Message
<1>6. fits \in BOOLEAN
  BY DEF Fits
<1>7. AfterDelivery(subs[k], fits) \in Subscription
  <2> DEFINE d == IF fits THEN 0
                  ELSE IF Reliable(subs[k].key.event) THEN subs[k].dropped
                       ELSE subs[k].dropped + 1
  <2>1. subs[k].sequence + 1 \in Nat /\ subs[k].dropped + 1 \in Nat /\ subs[k].dropped \in Nat
    BY <1>2 DEF Subscription
  <2>2. d \in Nat
    BY <2>1
  <2>3. AfterDelivery(subs[k], fits)
          = [subs[k] EXCEPT !.sequence = subs[k].sequence + 1, !.dropped = d]
    BY <1>2 DEF AfterDelivery, Subscription
  <2> QED
    BY <1>2, <2>1, <2>2, <2>3 DEF Subscription
<1>8. /\ outbox' = [outbox EXCEPT ![k[1]] = Push(outbox[k[1]], m)]
      /\ subs' = [subs EXCEPT ![k] = AfterDelivery(subs[k], fits)]
      /\ work' = [work EXCEPT ![w] = [work[w] EXCEPT
                     !.deliver = @ \ {k},
                     !.todo = IF Ends(subs[k], fits) THEN @ \cup {k} ELSE @]]
  BY WorkShape DEF Deliver, EventOf, Work
<1> QED
  BY <1>1, <1>2, <1>3, <1>5, <1>6, <1>7, <1>8

LEMMA PublishingTyped ==
    ASSUME EventTypeOK, WorkInv, NEW w \in Publisher, Publishing(w)
    PROVE  EventTypeOK'
<1>1. ASSUME NEW k \in Conn \X Handle, Deliver(w, k)
      PROVE  EventTypeOK'
  <2> DEFINE m == EventOf(k, work[w].size)
             fits == Fits(outbox[k[1]], m)
             v == [work[w] EXCEPT !.deliver = @ \ {k},
                     !.todo = IF Ends(subs[k], fits) THEN @ \cup {k} ELSE @]
  <2>1. /\ k \in DOMAIN subs /\ k[1] \in Conn /\ m \in Message
        /\ outbox' = [outbox EXCEPT ![k[1]] = Push(outbox[k[1]], m)]
        /\ subs' = [subs EXCEPT ![k] = AfterDelivery(subs[k], fits)]
        /\ AfterDelivery(subs[k], fits) \in Subscription
        /\ work' = [work EXCEPT ![w] = v]
    BY <1>1, DeliverEffect
  <2>2. outbox' \in [Conn -> Box]
    BY <2>1, PushEffect DEF EventTypeOK, Box
  <2>3. DOMAIN subs' \subseteq Conn \X Handle /\ \A x \in DOMAIN subs' : subs'[x] \in Subscription
    BY <2>1 DEF EventTypeOK
  <2>4. v \in Work
    BY WorkShape DEF Work
  <2>5. work' \in [Publisher -> Work]
    BY <2>1, <2>4 DEF EventTypeOK
  <2> QED
    BY <1>1, <2>2, <2>3, <2>5 DEF EventTypeOK, Deliver, scopes
<1>2. ASSUME NEW k \in Conn \X Handle, Tell(w, k)
      PROVE  EventTypeOK'
  <2>1. k[1] \in Conn /\ k[2] \in Handle
    OBVIOUS
  <2>2. outbox' \in [Conn -> Box]
    BY <1>2, <2>1, ControlShape, PushEffect DEF EventTypeOK, Tell, Box
  <2>3. work' = [work EXCEPT ![w] = [work[w] EXCEPT !.todo = @ \ {k}, !.told = {k}]]
    BY <1>2, WorkShape DEF Tell, Work
  <2>4. [work[w] EXCEPT !.todo = @ \ {k}, !.told = {k}] \in Work
    BY WorkShape DEF Work
  <2>5. work' \in [Publisher -> Work]
    BY <2>3, <2>4 DEF EventTypeOK
  <2> QED
    BY <1>2, <2>2, <2>5 DEF EventTypeOK, Tell, scopes
<1>3. CASE Drop(w)
  <2>1. [work[w] EXCEPT !.told = {}] \in Work
    BY WorkShape DEF Work
  <2>2. work' = [work EXCEPT ![w] = [work[w] EXCEPT !.told = {}]]
    BY <1>3 DEF Drop
  <2>3. work' \in [Publisher -> Work]
    BY <2>1, <2>2 DEF EventTypeOK
  <2> QED
    BY <1>3, <2>3, WithoutTyped DEF EventTypeOK, Drop, scopes
<1>4. CASE CloseScope(w)
  <2>1. PICK of \in SUBSET DOMAIN subs :
           /\ work' = [work EXCEPT ![w] = [work[w] EXCEPT !.todo = of, !.ends = {}]]
           /\ subs' = Without(of)
    BY <1>4, WorkShape DEF CloseScope, Work
  <2>2. of \subseteq Conn \X Handle
    BY DEF EventTypeOK
  <2>3. [work[w] EXCEPT !.todo = of, !.ends = {}] \in Work
    BY <2>2, WorkShape DEF Work
  <2>4. work' \in [Publisher -> Work]
    BY <2>1, <2>3 DEF EventTypeOK
  <2> QED
    BY <1>4, <2>1, <2>4, WithoutTyped DEF EventTypeOK, CloseScope, scopes
<1> QED
  BY <1>1, <1>2, <1>3, <1>4 DEF Publishing

LEMMA ProvidingTyped ==
    ASSUME EventTypeOK, NEW p \in Provider, Providing(p)
    PROVE  EventTypeOK'
<1>0. p \in Conn /\ p \in Publisher
  BY EventAssumption DEF Publisher
<1>1. ASSUME NEW e \in Event, NEW size \in Size, PublishEvent(p, e, size)
      PROVE  EventTypeOK'
  <2>1. Publish(p, Key(p, e, None), size, {})
    BY <1>1 DEF PublishEvent
  <2>2. work' \in [Publisher -> Work] /\ published' \in Nat
    BY <1>0, <2>1, PublishTyped
  <2> QED
    BY <1>1, <2>1, <2>2 DEF EventTypeOK, PublishEvent, Publish, scopes
<1>2. ASSUME NEW s \in Instance, NEW c \in Conn, FindOrigin(p, s, c)
      PROVE  EventTypeOK'
  <2>1. [op |-> "bind", scope |-> s, owner |-> c] \in Doing
    BY DEF Doing
  <2> QED
    BY <1>0, <1>2, <2>1 DEF EventTypeOK, FindOrigin, scopes
<1>3. ASSUME NEW s \in Instance, Release(p, s)
      PROVE  EventTypeOK'
  BY <1>3, ReleasedTyped DEF EventTypeOK, Release
<1>4. CASE Bind(p)
  <2>1. handler[p].scope \in Instance /\ handler[p].owner \in Conn
    BY <1>0, <1>4, HandlerTyped DEF Bind
  <2>2. owner' = Put(owner, <<p, handler[p].scope>>, handler[p].owner)
    BY <1>4 DEF Bind
  <2> DEFINE x == <<p, handler[p].scope>>
  <2>6. DOMAIN owner' = DOMAIN owner \cup {x} /\ owner'[x] = handler[p].owner
    BY <2>2 DEF Put
  <2>7. \A y \in DOMAIN owner : y # x => owner'[y] = owner[y]
    BY <2>2 DEF Put
  <2>3. DOMAIN owner' \subseteq Provider \X Instance
    BY <2>1, <2>6 DEF EventTypeOK
  <2>4. \A y \in DOMAIN owner' : owner'[y] \in Conn
    BY <2>1, <2>6, <2>7 DEF EventTypeOK
  <2>5. handler' \in [Conn -> Doing]
    BY <1>4, RestShape DEF EventTypeOK, Bind
  <2> QED
    BY <1>4, <2>3, <2>4, <2>5 DEF EventTypeOK, Bind
<1>5. CASE UnregisterEndpoint(p)
  BY <1>5 DEF EventTypeOK, UnregisterEndpoint
<1> QED
  BY <1>1, <1>2, <1>3, <1>4, <1>5 DEF Providing

LEMMA OperationTyped ==
    ASSUME EventTypeOK, OperationEvents
    PROVE  EventTypeOK'
<1>1. PICK o \in Operation, size \in Size : Progress(o, size) \/ End(o, size)
  BY DEF OperationEvents
<1>2. PICK ends \in SUBSET Operation : Publish(Manager, Key(Manager, Changed, o), size, ends)
  BY <1>1 DEF Progress, End
<1>3. work' \in [Publisher -> Work] /\ published' \in Nat
  BY <1>2, PublishTyped DEF Publisher
<1>4. operation' \in [Operation -> {"running", "ended"}]
  BY <1>1 DEF EventTypeOK, Progress, End
<1> QED
  BY <1>1, <1>2, <1>3, <1>4 DEF EventTypeOK, Progress, End, Publish, scopes

LEMMA CloseStepTyped ==
    ASSUME EventTypeOK, NEW c \in Conn, CloseStep(c)
    PROVE  EventTypeOK'
<1>1. stage' \in [Conn -> 0..5]
  BY DEF EventTypeOK, CloseStep, Idle
<1>2. DOMAIN owner' \subseteq Provider \X Instance /\ \A x \in DOMAIN owner' : owner'[x] \in Conn
  BY ReleasedTyped DEF EventTypeOK, CloseStep, Teardown, scopes
<1>3. DOMAIN subs' \subseteq Conn \X Handle /\ \A k \in DOMAIN subs' : subs'[k] \in Subscription
  BY WithoutTyped DEF EventTypeOK, CloseStep, Teardown
<1>4. outbox' \in [Conn -> Box]
  <2>1. [outbox[c] EXCEPT !.closed = TRUE] \in Box
    BY DEF EventTypeOK, Box
  <2>2. \/ outbox' = outbox
        \/ outbox' = [outbox EXCEPT ![c] = [outbox[c] EXCEPT !.closed = TRUE]]
    BY DEF CloseStep, Teardown
  <2> QED
    BY <2>1, <2>2 DEF EventTypeOK
<1>5. serving' \subseteq Provider
  BY DEF EventTypeOK, CloseStep, Teardown, scopes
<1> QED
  BY <1>1, <1>2, <1>3, <1>4, <1>5 DEF EventTypeOK, CloseStep

LEMMA EventNextTyped ==
    ASSUME EventTypeOK, NumbersGiven, WorkInv, EventNext
    PROVE  EventTypeOK'
BY SubscriberTyped, CloseStepTyped, ProvidingTyped, OperationTyped, PublishingTyped,
   EventAssumption DEF EventNext

(***************************************************************************)
(* Steps that send nothing.                                                *)
(***************************************************************************)
SameMail == \A c \in Conn : outbox'[c].sent = outbox[c].sent

LEMMA MailKept ==
    ASSUME SameMail, ReliableLosesNone, NoneAfterEnd, GapIsCounted
    PROVE  ReliableLosesNone' /\ NoneAfterEnd' /\ GapIsCounted'
<1>1. ReliableLosesNone'
  BY DEF SameMail, ReliableLosesNone
<1>2. NoneAfterEnd'
  BY DEF SameMail, NoneAfterEnd
<1>3. GapIsCounted'
  BY DEF SameMail, GapIsCounted
<1> QED
  BY <1>1, <1>2, <1>3

LEMMA QuietMail ==
    ASSUME EventTypeOK, Mail, SameMail, UNCHANGED <<subs, work, nextID>>,
           \A c \in Conn : handler'[c].op = "reply" => handler'[c] = handler[c],
           \A c \in Conn : handler'[c].op = "subscribe" => nextID[c] < MaxSubscribe
    PROVE  Mail'
<1> USE DEF Mail
<1>1. NumbersGiven'
  BY DEF NumbersGiven, SameMail
<1>2. WorkInv'
  BY DEF WorkInv, Running
<1>3. CountInv'
  <2>1. \A k \in DOMAIN subs : k[1] \in Conn
    BY DEF EventTypeOK
  <2> QED
    BY <2>1 DEF CountInv, Running, SameMail
<1>4. EndInv'
  <2>1. \A k \in DOMAIN subs : k[1] \in Conn
    BY DEF EventTypeOK
  <2> QED
    BY <2>1 DEF EndInv, SameMail
<1> QED
  BY <1>1, <1>2, <1>3, <1>4, MailKept

\* A publication begins: it delivers to subscriptions that nobody is closing.
LEMMA PublishStep ==
    ASSUME EventTypeOK, Mail, NEW w \in Publisher, NEW key, key.provider = w,
           NEW size \in Size, NEW ends, Publish(w, key, size, ends),
           UNCHANGED <<nextID, handler>>
    PROVE  Mail'
<1> DEFINE D == {k \in DOMAIN subs : subs[k].key = key}
           v == [Rest EXCEPT !.size = size, !.ends = ends, !.deliver = D]
<1>1. work' = [work EXCEPT ![w] = v] /\ UNCHANGED <<subs, outbox>> /\ ~Busy(w) /\ Unlocked
  BY DEF Publish
<1>2. v.todo = {} /\ v.told = {} /\ v.size = size /\ v.deliver = D
  BY DEF Rest
<1>3. work[w].todo = {} /\ work[w].told = {}
  BY <1>1 DEF Busy
<1>4. work'[w] = v /\ \A u \in Publisher \ {w} : work'[u] = work[u]
  BY <1>1 DEF EventTypeOK
<1>5. \A u \in Publisher : work'[u].todo = work[u].todo /\ work'[u].told = work[u].told
  BY <1>2, <1>3, <1>4
<1>6. SameMail
  BY <1>1 DEF SameMail
<1>7. NumbersGiven'
  BY <1>1, <1>5 DEF Mail, NumbersGiven
<1>8. \A k : Running(k)' <=> Running(k)
  BY <1>5 DEF Running
<1>9. \A u \in Publisher : u # w => work'[u].deliver = {}
  BY <1>1, <1>4 DEF Unlocked
<1>10. \A k \in D : Running(k)
  <2> SUFFICES ASSUME NEW k \in D, NEW u \in Publisher, k \in work[u].todo \cup work[u].told
               PROVE  FALSE
    BY DEF Running
  <2>1. subs[k].key.provider = u /\ subs[k].key.provider = w
    BY DEF Mail, WorkInv
  <2> QED
    BY <1>3, <2>1
<1>11. WorkInv'
  <2> SUFFICES ASSUME NEW u \in Publisher
               PROVE  /\ work'[u].deliver # {} => work'[u].size \in Size
                      /\ \A k \in work'[u].deliver :
                            k \in DOMAIN subs' /\ subs'[k].key.provider = u /\ Running(k)'
                      /\ \A k \in work'[u].todo \cup work'[u].told :
                            k \in DOMAIN subs' => subs'[k].key.provider = u
    BY DEF WorkInv
  <2>1. \A k \in work'[u].todo \cup work'[u].told :
            k \in DOMAIN subs' => subs'[k].key.provider = u
    BY <1>1, <1>5 DEF Mail, WorkInv
  <2>2. CASE u = w
    BY <1>1, <1>2, <1>4, <1>8, <1>10, <2>1, <2>2
  <2>3. CASE u # w
    BY <1>9, <2>1, <2>3
  <2> QED
    BY <2>2, <2>3
<1>12. CountInv'
  BY <1>1, <1>8 DEF Mail, CountInv
<1>13. EndInv'
  BY <1>1, <1>5 DEF Mail, EndInv
<1> QED
  BY <1>6, <1>7, <1>11, <1>12, <1>13, MailKept DEF Mail

\* A new subscription: its number is not in anything.
LEMMA SubscribeStep ==
    ASSUME EventTypeOK, EventTypeOK', Mail, NEW c \in Conn, Subscribe(c)
    PROVE  Mail'
<1> DEFINE x == <<c, nextID[c] + 1>>
           v == [key |-> handler[c].key, sequence |-> 0, dropped |-> 0]
<1>1. nextID[c] \in Nat /\ nextID' = [nextID EXCEPT ![c] = nextID[c] + 1]
  BY EventAssumption DEF EventTypeOK, Subscribe
<1>2. \A d \in Conn : nextID[d] \in Nat /\ nextID'[d] \in Nat /\ nextID'[d] >= nextID[d]
  BY <1>1, EventAssumption DEF EventTypeOK
<1>3. DOMAIN subs' = DOMAIN subs \cup {x} /\ subs'[x] = v
  BY DEF Subscribe, Put
<1>4. \A k \in DOMAIN subs : subs'[k] = subs[k]
  <2>1. x \notin DOMAIN subs
    <3>1. x[1] = c /\ x[2] = nextID[c] + 1
      OBVIOUS
    <3> QED
      BY <1>1, <3>1 DEF Mail, NumbersGiven
  <2> QED
    BY <2>1 DEF Subscribe, Put
<1>5. UNCHANGED <<outbox, work>> /\ SameMail
  BY DEF Subscribe, SameMail
<1>6. /\ handler'[c] = [op |-> "reply", message |-> Control("subscribed", nextID[c] + 1)]
      /\ \A d \in Conn \ {c} : handler'[d] = handler[d]
  BY DEF Subscribe, EventTypeOK
<1>7. handler'[c].op = "reply" /\ handler'[c].message.id = nextID[c] + 1
      /\ handler'[c].message.kind = "subscribed"
  BY <1>6 DEF Control
<1>8. \A d \in Conn : \A i \in DOMAIN outbox[d].sent :
         outbox[d].sent[i].id \in Nat /\ outbox[d].sent[i].id <= nextID[d]
  BY SentShape, MessageShape DEF Mail, NumbersGiven, Handle
<1>9. \A k \in DOMAIN subs : k[1] \in Conn /\ k[2] \in Nat
  BY DEF EventTypeOK, Handle
<1>10. \A u \in Publisher : \A k \in work[u].todo \cup work[u].told :
          k[1] \in Conn /\ k[2] \in Nat /\ k[2] <= nextID[k[1]]
  BY WorkShape DEF Mail, NumbersGiven, Handle
<1>11. \A d \in Conn : handler[d].op = "reply" => handler[d].message.id \in Nat
  BY HandlerTyped DEF Answers, Handle
<1>12. NumbersGiven'
  <2>1. \A k \in DOMAIN subs' : k[2] <= nextID'[k[1]]
    BY <1>1, <1>2, <1>3, <1>9 DEF Mail, NumbersGiven, EventTypeOK
  <2>2. \A u \in Publisher : \A k \in work'[u].todo \cup work'[u].told : k[2] <= nextID'[k[1]]
    BY <1>2, <1>5, <1>10
  <2>3. \A d \in Conn : \A i \in DOMAIN outbox'[d].sent : outbox'[d].sent[i].id <= nextID'[d]
    BY <1>2, <1>5, <1>8
  <2>4. \A d \in Conn : handler'[d].op = "reply" => handler'[d].message.id <= nextID'[d]
    BY <1>1, <1>2, <1>6, <1>7, <1>11 DEF Mail, NumbersGiven, EventTypeOK
  <2>5. \A d \in Conn : handler'[d].op = "subscribe" => nextID'[d] < MaxSubscribe
    BY <1>1, <1>6, <1>7 DEF Mail, NumbersGiven, EventTypeOK
  <2> QED
    BY <2>1, <2>2, <2>3, <2>4, <2>5 DEF NumbersGiven
<1>13. \A k : Running(k)' <=> Running(k)
  BY <1>5 DEF Running
<1>14. \A u \in Publisher : x \notin work[u].todo \cup work[u].told
  <2>1. x[1] = c /\ x[2] = nextID[c] + 1
    OBVIOUS
  <2> QED
    BY <1>1, <1>10, <2>1
<1>15. WorkInv'
  BY <1>3, <1>4, <1>5, <1>13, <1>14 DEF Mail, WorkInv
<1>16. CountInv'
  <2>1. LastNumber(outbox[c].sent, nextID[c] + 1, Len(outbox[c].sent) + 1, 0)
    <3>1. \A j \in 1..Len(outbox[c].sent) + 1 - 1 :
              ~IsEvent(outbox[c].sent[j], nextID[c] + 1)
      BY <1>1, <1>8, SentShape DEF IsEvent
    <3>2. Len(outbox[c].sent) + 1 \in Nat
      BY SentShape
    <3> QED
      BY <3>1, <3>2, LastOfNone
  <2>2. x[1] = c /\ x[2] = nextID[c] + 1 /\ v.dropped = 0 /\ v.sequence - v.dropped = 0
    OBVIOUS
  <2>3. \A k \in DOMAIN subs :
           /\ Reliable(subs'[k].key.event) => subs'[k].dropped = 0
           /\ Running(k)' => LastNumber(outbox'[k[1]].sent, k[2], Len(outbox'[k[1]].sent) + 1,
                                        subs'[k].sequence - subs'[k].dropped)
    BY <1>4, <1>5, <1>13 DEF Mail, CountInv
  <2>4. /\ Reliable(subs'[x].key.event) => subs'[x].dropped = 0
        /\ LastNumber(outbox'[x[1]].sent, x[2], Len(outbox'[x[1]].sent) + 1,
                      subs'[x].sequence - subs'[x].dropped)
    BY <1>3, <1>5, <2>1, <2>2
  <2> QED
    BY <1>3, <2>3, <2>4 DEF CountInv
<1>17. EndInv'
  <2>1. \A k \in DOMAIN subs : \A i \in DOMAIN outbox[k[1]].sent :
           IsEnd(outbox[k[1]].sent[i]) /\ outbox[k[1]].sent[i].id = k[2] =>
              \E u \in Publisher : k \in work[u].told
    BY DEF Mail, EndInv
  <2>2. \A i \in DOMAIN outbox[c].sent : outbox[c].sent[i].id # nextID[c] + 1
    BY <1>1, <1>8
  <2>3. x[1] = c /\ x[2] = nextID[c] + 1
    OBVIOUS
  <2>4. \A d \in Conn : handler'[d].op = "reply" /\ IsEnd(handler'[d].message) => d # c
    BY <1>7 DEF IsEnd
  <2>5. \A d \in Conn : handler'[d].op = "reply" /\ IsEnd(handler'[d].message) =>
           <<d, handler'[d].message.id>> \notin DOMAIN subs /\ <<d, handler'[d].message.id>> # x
    BY <1>6, <2>4 DEF Mail, EndInv
  <2>6. \A k \in DOMAIN subs' : \A i \in DOMAIN outbox[k[1]].sent :
           IsEnd(outbox[k[1]].sent[i]) /\ outbox[k[1]].sent[i].id = k[2] =>
              \E u \in Publisher : k \in work[u].told
    BY <1>3, <2>1, <2>2, <2>3
  <2> QED
    BY <1>3, <1>5, <2>5, <2>6 DEF EndInv
<1> QED
  BY <1>5, <1>12, <1>15, <1>16, <1>17, MailKept DEF Mail

\* Subscriptions go while no publication delivers: nothing is said of one that
\* is still there, and what is being closed of those goes on being closed.
LEMMA RemovalStep ==
    ASSUME EventTypeOK, EventTypeOK', Mail, SameMail, NEW K, subs' = Without(K),
           nextID' = nextID,
           \A u \in Publisher : work'[u].deliver = {},
           \A u \in Publisher : \A k \in work'[u].todo \cup work'[u].told :
              k \in work[u].todo \cup work[u].told \/ k \in DOMAIN subs \cap K,
           \A u \in Publisher : \A k \in DOMAIN subs \ K :
              /\ k \in work[u].told => k \in work'[u].told
              /\ k \in work[u].todo => k \in work'[u].todo,
           \A c \in Conn : handler'[c].op = "reply" =>
              \/ handler'[c] = handler[c]
              \/ <<c, handler'[c].message.id>> \in DOMAIN subs \cap K,
           \A c \in Conn : handler'[c].op = "subscribe" => handler'[c] = handler[c]
    PROVE  Mail'
<1>1. DOMAIN subs' = DOMAIN subs \ K
  BY WithoutEffect
<1>2. \A k \in DOMAIN subs' : subs'[k] = subs[k]
  BY WithoutEffect
<1>3. \A k \in DOMAIN subs' : k[1] \in Conn
  BY DEF EventTypeOK
<1>4. NumbersGiven'
  <2>1. \A k \in DOMAIN subs' : k[2] <= nextID'[k[1]]
    BY <1>1 DEF Mail, NumbersGiven
  <2>2. \A u \in Publisher : \A k \in work'[u].todo \cup work'[u].told : k[2] <= nextID'[k[1]]
    BY DEF Mail, NumbersGiven
  <2>3. \A d \in Conn : \A i \in DOMAIN outbox'[d].sent : outbox'[d].sent[i].id <= nextID'[d]
    BY DEF Mail, NumbersGiven, SameMail
  <2>4. \A d \in Conn : handler'[d].op = "reply" => handler'[d].message.id <= nextID'[d]
    <3> SUFFICES ASSUME NEW d \in Conn, handler'[d].op = "reply"
                 PROVE  handler'[d].message.id <= nextID[d]
      OBVIOUS
    <3>1. CASE handler'[d] = handler[d]
      BY <3>1 DEF Mail, NumbersGiven
    <3>2. CASE <<d, handler'[d].message.id>> \in DOMAIN subs
      <4> DEFINE k == <<d, handler'[d].message.id>>
      <4>1. k[1] = d /\ k[2] = handler'[d].message.id
        OBVIOUS
      <4>2. k[2] <= nextID[k[1]]
        BY <3>2 DEF Mail, NumbersGiven
      <4> QED
        BY <4>1, <4>2
    <3> QED
      BY <3>1, <3>2
  <2>5. \A d \in Conn : handler'[d].op = "subscribe" => nextID'[d] < MaxSubscribe
    BY DEF Mail, NumbersGiven
  <2> QED
    BY <2>1, <2>2, <2>3, <2>4, <2>5 DEF NumbersGiven
<1>5. \A k \in DOMAIN subs' : Running(k)' => Running(k)
  BY <1>1 DEF Running
<1>6. WorkInv'
  <2>1. \A u \in Publisher : \A k \in work'[u].todo \cup work'[u].told :
           k \in DOMAIN subs' => subs'[k].key.provider = u
    BY <1>1, <1>2 DEF Mail, WorkInv
  <2> QED
    BY <2>1 DEF WorkInv
<1>7. CountInv'
  BY <1>1, <1>2, <1>3, <1>5 DEF Mail, CountInv, SameMail
<1>8. EndInv'
  <2>1. \A k \in DOMAIN subs' : \A i \in DOMAIN outbox'[k[1]].sent :
           IsEnd(outbox'[k[1]].sent[i]) /\ outbox'[k[1]].sent[i].id = k[2] =>
              \E u \in Publisher : k \in work'[u].told
    BY <1>1, <1>3 DEF Mail, EndInv, SameMail
  <2>2. \A c \in Conn : handler'[c].op = "reply" /\ IsEnd(handler'[c].message) =>
           <<c, handler'[c].message.id>> \notin DOMAIN subs'
    BY <1>1 DEF Mail, EndInv
  <2> QED
    BY <2>1, <2>2 DEF EndInv
<1> QED
  BY <1>4, <1>6, <1>7, <1>8, MailKept DEF Mail

(***************************************************************************)
(* Steps that send a message.                                              *)
(***************************************************************************)
\* A connection's queue gets one message more, the others none.
Sends(c, m) ==
    /\ outbox'[c].sent = Append(outbox[c].sent, m)
    /\ \A d \in Conn \ {c} : outbox'[d].sent = outbox[d].sent

LEMMA SendsEffect ==
    ASSUME EventTypeOK, NEW c \in Conn, NEW m \in Message, Sends(c, m)
    PROVE  /\ Len(outbox[c].sent) \in Nat /\ Len(outbox'[c].sent) = Len(outbox[c].sent) + 1
           /\ DOMAIN outbox[c].sent = 1..Len(outbox[c].sent)
           /\ DOMAIN outbox'[c].sent = 1..Len(outbox[c].sent) + 1
           /\ \A i \in 1..Len(outbox[c].sent) : outbox'[c].sent[i] = outbox[c].sent[i]
           /\ outbox'[c].sent[Len(outbox[c].sent) + 1] = m
BY SentShape, Appended DEF Sends

\* What is sent afterwards was sent before, or is the message.
LEMMA SendsSplit ==
    ASSUME EventTypeOK, NEW c \in Conn, NEW m \in Message, Sends(c, m),
           NEW d \in Conn, NEW i \in DOMAIN outbox'[d].sent
    PROVE  \/ /\ i \in DOMAIN outbox[d].sent
              /\ outbox'[d].sent[i] = outbox[d].sent[i]
           \/ /\ d = c /\ i = Len(outbox[d].sent) + 1
              /\ outbox'[d].sent[i] = m /\ \A j \in DOMAIN outbox[d].sent : j < i
<1>1. CASE d # c
  BY <1>1 DEF Sends
<1>2. CASE d = c
  <2>0. /\ i \in 1..Len(outbox[c].sent) + 1 /\ Len(outbox[c].sent) \in Nat
        /\ DOMAIN outbox[c].sent = 1..Len(outbox[c].sent)
    BY <1>2, SendsEffect
  <2>1. CASE i \in 1..Len(outbox[c].sent)
    BY <1>2, <2>1, SendsEffect
  <2>2. CASE i = Len(outbox[c].sent) + 1
    <3>1. \A j \in DOMAIN outbox[c].sent : j < i
      BY <2>2, SendsEffect
    <3>2. outbox'[c].sent[i] = m
      BY <2>2, SendsEffect
    <3> QED
      BY <1>2, <2>2, <3>1, <3>2
  <2> QED
    BY <2>0, <2>1, <2>2
<1> QED
  BY <1>1, <1>2

\* What was sent before counts as it did.
LEMMA EarlierGaps ==
    ASSUME EventTypeOK, GapIsCounted, NEW c \in Conn, NEW m \in Message, Sends(c, m),
           NEW id \in Handle, NEW i \in DOMAIN outbox[c].sent,
           IsEvent(outbox'[c].sent[i], id)
    PROVE  LastNumber(outbox'[c].sent, id, i,
                      outbox'[c].sent[i].sequence - outbox'[c].sent[i].dropped - 1)
<1> DEFINE s == outbox[c].sent
           t == outbox'[c].sent
           n == s[i].sequence - s[i].dropped - 1
<1>1. i \in Nat /\ t[i] = s[i] /\ \A j \in 1..i - 1 : s[j] = t[j]
  BY SendsEffect
<1>2. LastNumber(s, id, i, n)
  BY <1>1 DEF GapIsCounted
<1>3. LastNumber(t, id, i, n)
  <2> HIDE DEF s, t, n
  <2> QED
    BY <1>1, <1>2, LastKept
<1> QED
  BY <1>1, <1>3

\* An answer or a notice of an end is no event.
LEMMA NoticeKept ==
    ASSUME EventTypeOK, GapIsCounted, ReliableLosesNone, NoneAfterEnd,
           NEW c \in Conn, NEW m \in Message, Sends(c, m), m.kind # "event"
    PROVE  /\ GapIsCounted' /\ ReliableLosesNone' /\ NoneAfterEnd'
           /\ \A id \in Handle : \A n :
                 LastNumber(outbox[c].sent, id, Len(outbox[c].sent) + 1, n) =>
                    LastNumber(outbox'[c].sent, id, Len(outbox'[c].sent) + 1, n)
<1> DEFINE s == outbox[c].sent
           t == outbox'[c].sent
           l == Len(s)
<1>1. /\ l \in Nat /\ DOMAIN s = 1..l /\ DOMAIN t = 1..l + 1
      /\ \A i \in 1..l : t[i] = s[i]
      /\ t[l + 1] = m /\ Len(t) = l + 1
  BY SendsEffect
<1>2. \A d \in Conn \ {c} : outbox'[d].sent = outbox[d].sent
  BY DEF Sends
<1>3. GapIsCounted'
  <2> SUFFICES ASSUME NEW d \in Conn, NEW id \in Handle, NEW i \in DOMAIN outbox'[d].sent,
                      IsEvent(outbox'[d].sent[i], id)
               PROVE  LastNumber(outbox'[d].sent, id, i,
                         outbox'[d].sent[i].sequence - outbox'[d].sent[i].dropped - 1)
    BY DEF GapIsCounted
  <2>1. CASE d # c
    BY <1>2, <2>1 DEF GapIsCounted
  <2>2. CASE d = c
    <3>1. i \in DOMAIN s
      BY <1>1, <2>2 DEF IsEvent
    <3> QED
      BY <2>2, <3>1, EarlierGaps
  <2> QED
    BY <2>1, <2>2
<1>4. ReliableLosesNone'
  <2> SUFFICES ASSUME NEW d \in Conn, NEW i \in DOMAIN outbox'[d].sent,
                      outbox'[d].sent[i].kind = "event",
                      Reliable(outbox'[d].sent[i].event)
               PROVE  outbox'[d].sent[i].dropped = 0
    BY DEF ReliableLosesNone
  <2>1. i \in DOMAIN outbox[d].sent /\ outbox'[d].sent[i] = outbox[d].sent[i]
    BY SendsSplit
  <2> QED
    BY <2>1 DEF ReliableLosesNone
<1>5. NoneAfterEnd'
  <2> SUFFICES ASSUME NEW d \in Conn, NEW i \in DOMAIN outbox'[d].sent,
                      NEW j \in DOMAIN outbox'[d].sent,
                      IsEnd(outbox'[d].sent[i]), j > i,
                      outbox'[d].sent[j].kind = "event",
                      outbox'[d].sent[j].id = outbox'[d].sent[i].id
               PROVE  FALSE
    BY DEF NoneAfterEnd
  <2>1. j \in DOMAIN outbox[d].sent /\ outbox'[d].sent[j] = outbox[d].sent[j]
    BY SendsSplit
  <2>2. i \in DOMAIN outbox[d].sent /\ outbox'[d].sent[i] = outbox[d].sent[i]
    <3>1. i \in Nat /\ j \in Nat
      BY <2>1, SentShape, SendsSplit
    <3> QED
      BY <2>1, <3>1, SendsSplit
  <2> QED
    BY <2>1, <2>2 DEF NoneAfterEnd
<1>6. ASSUME NEW id \in Handle, NEW n, LastNumber(s, id, l + 1, n)
      PROVE  LastNumber(t, id, Len(t) + 1, n)
  <2>1. LastNumber(t, id, l + 1, n)
    <3>1. l \in Nat /\ \A j \in 1..l : s[j] = t[j]
      BY <1>1
    <3>2. LastNumber(s, id, l + 1, n)
      BY <1>6
    <3> HIDE DEF s, t, l
    <3> QED
      BY <3>1, <3>2, AllKept
  <2>2. ~IsEvent(t[l + 1], id)
    BY <1>1 DEF IsEvent
  <2>3. LastNumber(t, id, l + 1 + 1, n)
    <3>1. l + 1 \in Nat \ {0}
      BY <1>1
    <3> HIDE DEF s, t, l
    <3> QED
      BY <2>1, <2>2, <3>1, LastSkips
  <2> QED
    BY <1>1, <2>3
<1> QED
  BY <1>3, <1>4, <1>5, <1>6

\* The answer to a request, if it fits.
LEMMA AnswerStep ==
    ASSUME EventTypeOK, EventTypeOK', Mail, NEW c \in Conn, Answer(c)
    PROVE  Mail'
<1> DEFINE m == handler[c].message
<1>0. handler[c].op = "reply"
  BY DEF Answer
<1>1. m \in Answers /\ m \in Message /\ m.id \in Handle /\ m.kind # "event"
      /\ m.kind # "closed"
  BY <1>0, HandlerTyped, AnswersSent DEF Answers
<1>2. handler'[c] = Nothing /\ (\A d \in Conn \ {c} : handler'[d] = handler[d])
      /\ Nothing.op = "idle"
  BY DEF Answer, EventTypeOK, Nothing
<1>3. UNCHANGED <<subs, work, nextID>>
  BY DEF Answer
<1>4. \A d \in Conn : handler'[d].op \in {"reply", "subscribe"} => d # c /\ handler'[d] = handler[d]
  BY <1>2
<1>5. SameMail \/ Sends(c, m)
  <2>1. CASE Fits(outbox[c], m)
    <3>1. Push(outbox[c], m).sent = Append(outbox[c].sent, m)
      BY <1>1, <2>1, PushEffect
    <3>2. outbox' = [outbox EXCEPT ![c] = Push(outbox[c], m)]
      BY <2>1 DEF Answer
    <3> QED
      BY <3>1, <3>2 DEF Sends, EventTypeOK
  <2>2. CASE ~Fits(outbox[c], m)
    <3>1. outbox' = [outbox EXCEPT ![c] = [outbox[c] EXCEPT !.closed = TRUE]]
      BY <2>2 DEF Answer
    <3> QED
      BY <3>1 DEF SameMail, EventTypeOK, Box
  <2> QED
    BY <2>1, <2>2
<1>6. CASE SameMail
  <2>1. \A d \in Conn : handler'[d].op = "subscribe" => nextID[d] < MaxSubscribe
    BY <1>4 DEF Mail, NumbersGiven
  <2> QED
    BY <1>3, <1>4, <1>6, <2>1, QuietMail
<1>7. CASE Sends(c, m)
  <2>1. GapIsCounted' /\ ReliableLosesNone' /\ NoneAfterEnd'
    BY <1>1, <1>7, NoticeKept DEF Mail
  <2>2. /\ DOMAIN outbox[c].sent = 1..Len(outbox[c].sent) /\ Len(outbox[c].sent) \in Nat
        /\ DOMAIN outbox'[c].sent = 1..Len(outbox[c].sent) + 1
        /\ \A i \in 1..Len(outbox[c].sent) : outbox'[c].sent[i] = outbox[c].sent[i]
        /\ outbox'[c].sent[Len(outbox[c].sent) + 1] = m
    BY <1>1, <1>7, SendsEffect
  <2>3. \A d \in Conn \ {c} : outbox'[d].sent = outbox[d].sent
    BY <1>7 DEF Sends
  <2>4. m.id <= nextID[c]
    BY <1>0 DEF Mail, NumbersGiven
  <2>5. NumbersGiven'
    <3>1. \A d \in Conn : \A i \in DOMAIN outbox'[d].sent : outbox'[d].sent[i].id <= nextID[d]
      <4> SUFFICES ASSUME NEW d \in Conn, NEW i \in DOMAIN outbox'[d].sent
                   PROVE  outbox'[d].sent[i].id <= nextID[d]
        OBVIOUS
      <4>1. \/ i \in DOMAIN outbox[d].sent /\ outbox'[d].sent[i] = outbox[d].sent[i]
            \/ d = c /\ outbox'[d].sent[i] = m
        BY <1>1, <1>7, SendsSplit
      <4>2. \A j \in DOMAIN outbox[d].sent : outbox[d].sent[j].id <= nextID[d]
        BY DEF Mail, NumbersGiven
      <4> QED
        BY <2>4, <4>1, <4>2
    <3> QED
      BY <1>3, <1>4, <3>1 DEF Mail, NumbersGiven
  <2>6. WorkInv'
    BY <1>3 DEF Mail, WorkInv, Running
  <2>7. CountInv'
    <3> SUFFICES ASSUME NEW k \in DOMAIN subs
                 PROVE  /\ Reliable(subs[k].key.event) => subs[k].dropped = 0
                        /\ Running(k) =>
                             LastNumber(outbox'[k[1]].sent, k[2], Len(outbox'[k[1]].sent) + 1,
                                        subs[k].sequence - subs[k].dropped)
      BY <1>3 DEF CountInv, Running
    <3>1. k[1] \in Conn /\ k[2] \in Handle
      BY DEF EventTypeOK
    <3>2. /\ Reliable(subs[k].key.event) => subs[k].dropped = 0
          /\ Running(k) => LastNumber(outbox[k[1]].sent, k[2], Len(outbox[k[1]].sent) + 1,
                                      subs[k].sequence - subs[k].dropped)
      BY DEF Mail, CountInv
    <3>3. CASE k[1] # c
      BY <2>3, <3>1, <3>2, <3>3
    <3>4. CASE k[1] = c
      <4>1. \A n : LastNumber(outbox[c].sent, k[2], Len(outbox[c].sent) + 1, n) =>
                      LastNumber(outbox'[c].sent, k[2], Len(outbox'[c].sent) + 1, n)
        BY <1>1, <1>7, <3>1, NoticeKept DEF Mail
      <4> QED
        BY <3>2, <3>4, <4>1
    <3> QED
      BY <3>3, <3>4
  <2>8. EndInv'
    <3>1. IsEnd(m) => <<c, m.id>> \notin DOMAIN subs
      BY <1>0 DEF Mail, EndInv
    <3>2. ASSUME NEW k \in DOMAIN subs, NEW i \in DOMAIN outbox'[k[1]].sent,
                 IsEnd(outbox'[k[1]].sent[i]), outbox'[k[1]].sent[i].id = k[2]
          PROVE  \E u \in Publisher : k \in work[u].told
      <4>1. k[1] \in Conn /\ k = <<k[1], k[2]>>
        BY DEF EventTypeOK
      <4>2. CASE k[1] # c
        BY <2>3, <3>2, <4>1, <4>2 DEF Mail, EndInv
      <4>3. CASE k[1] = c /\ i \in 1..Len(outbox[c].sent)
        BY <2>2, <3>2, <4>3 DEF Mail, EndInv
      <4>4. CASE k[1] = c /\ i = Len(outbox[c].sent) + 1
        BY <2>2, <3>1, <3>2, <4>1, <4>4
      <4> QED
        BY <2>2, <4>2, <4>3, <4>4
    <3>3. \A d \in Conn : handler'[d].op = "reply" /\ IsEnd(handler'[d].message) =>
             <<d, handler'[d].message.id>> \notin DOMAIN subs
      BY <1>4 DEF Mail, EndInv
    <3> QED
      BY <1>3, <3>2, <3>3 DEF EndInv
  <2> QED
    BY <2>1, <2>5, <2>6, <2>7, <2>8 DEF Mail
<1> QED
  BY <1>5, <1>6, <1>7

\* closeSubscriptions tells a client, if that fits, before it removes the
\* subscription.
LEMMA TellStep ==
    ASSUME EventTypeOK, EventTypeOK', Mail, NEW w \in Publisher, NEW k \in Conn \X Handle,
           Tell(w, k)
    PROVE  Mail'
<1> DEFINE c == k[1]
           m == Control("closed", k[2])
<1>1. c \in Conn /\ k[2] \in Handle /\ k = <<c, k[2]>>
  OBVIOUS
<1>2. m \in Message /\ m.kind = "closed" /\ m.id = k[2]
  BY <1>1, ControlShape DEF Control
<1>3. UNCHANGED <<subs, handler, nextID>>
  BY DEF Tell
<1>4. /\ k \in work[w].todo /\ work[w].told = {}
      /\ work'[w].deliver = work[w].deliver /\ work'[w].size = work[w].size
      /\ work'[w].todo = work[w].todo \ {k} /\ work'[w].told = {k}
  BY WorkShape DEF Tell, EventTypeOK, Work
<1>5. \A u \in Publisher \ {w} : work'[u] = work[u]
  BY DEF Tell, EventTypeOK
<1>6. \A u \in Publisher :
         /\ work'[u].todo \cup work'[u].told = work[u].todo \cup work[u].told
         /\ work'[u].deliver = work[u].deliver /\ work'[u].size = work[u].size
         /\ work[u].told \subseteq work'[u].told
  BY <1>4, <1>5
<1>7. \A x : Running(x)' <=> Running(x)
  BY <1>6 DEF Running
<1>8. WorkInv'
  BY <1>3, <1>6, <1>7 DEF Mail, WorkInv
<1>9. k[2] <= nextID[c]
  BY <1>4 DEF Mail, NumbersGiven
<1>10. SameMail \/ Sends(c, m)
  <2>1. outbox' = [outbox EXCEPT ![c] = Push(outbox[c], m)]
    BY DEF Tell
  <2>2. CASE Fits(outbox[c], m)
    BY <1>1, <1>2, <2>1, <2>2, PushEffect DEF Sends, EventTypeOK
  <2>3. CASE ~Fits(outbox[c], m)
    BY <1>1, <1>2, <2>1, <2>3, PushEffect DEF SameMail, EventTypeOK
  <2> QED
    BY <2>2, <2>3
<1>11. \A u \in Publisher : \A x \in work'[u].todo \cup work'[u].told : x[2] <= nextID'[x[1]]
  BY <1>3, <1>6 DEF Mail, NumbersGiven
<1>12. \A d \in Conn : \A i \in DOMAIN outbox[d].sent : outbox[d].sent[i].id <= nextID[d]
  BY DEF Mail, NumbersGiven
<1>13. \A x \in DOMAIN subs : x[1] \in Conn /\ x[2] \in Handle
  BY DEF EventTypeOK
<1>14. \A x \in DOMAIN subs : \A i \in DOMAIN outbox[x[1]].sent :
          IsEnd(outbox[x[1]].sent[i]) /\ outbox[x[1]].sent[i].id = x[2] =>
             \E u \in Publisher : x \in work'[u].told
  BY <1>6 DEF Mail, EndInv
<1>15. \A d \in Conn : handler'[d].op = "reply" /\ IsEnd(handler'[d].message) =>
          <<d, handler'[d].message.id>> \notin DOMAIN subs'
  BY <1>3 DEF Mail, EndInv
<1>16. CASE SameMail
  <2>1. NumbersGiven'
    BY <1>3, <1>11, <1>16 DEF Mail, NumbersGiven, SameMail
  <2>2. CountInv'
    BY <1>3, <1>7, <1>13, <1>16 DEF Mail, CountInv, SameMail
  <2>3. EndInv'
    BY <1>3, <1>13, <1>14, <1>15, <1>16 DEF EndInv, SameMail
  <2> QED
    BY <1>8, <1>16, <2>1, <2>2, <2>3, MailKept DEF Mail
<1>17. CASE Sends(c, m)
  <2>1. GapIsCounted' /\ ReliableLosesNone' /\ NoneAfterEnd'
    BY <1>1, <1>2, <1>17, NoticeKept DEF Mail
  <2>2. NumbersGiven'
    <3>1. \A d \in Conn : \A i \in DOMAIN outbox'[d].sent : outbox'[d].sent[i].id <= nextID[d]
      <4> SUFFICES ASSUME NEW d \in Conn, NEW i \in DOMAIN outbox'[d].sent
                   PROVE  outbox'[d].sent[i].id <= nextID[d]
        OBVIOUS
      <4>1. \/ i \in DOMAIN outbox[d].sent /\ outbox'[d].sent[i] = outbox[d].sent[i]
            \/ d = c /\ outbox'[d].sent[i] = m
        BY <1>1, <1>2, <1>17, SendsSplit
      <4> QED
        BY <1>2, <1>9, <1>12, <4>1
    <3> QED
      BY <1>3, <1>11, <3>1 DEF Mail, NumbersGiven
  <2>3. CountInv'
    <3> SUFFICES ASSUME NEW x \in DOMAIN subs
                 PROVE  /\ Reliable(subs[x].key.event) => subs[x].dropped = 0
                        /\ Running(x) =>
                             LastNumber(outbox'[x[1]].sent, x[2], Len(outbox'[x[1]].sent) + 1,
                                        subs[x].sequence - subs[x].dropped)
      BY <1>3, <1>7 DEF CountInv
    <3>1. /\ Reliable(subs[x].key.event) => subs[x].dropped = 0
          /\ Running(x) => LastNumber(outbox[x[1]].sent, x[2], Len(outbox[x[1]].sent) + 1,
                                      subs[x].sequence - subs[x].dropped)
      BY DEF Mail, CountInv
    <3>2. CASE x[1] # c
      BY <1>13, <1>17, <3>1, <3>2 DEF Sends
    <3>3. CASE x[1] = c
      <4>1. \A n : LastNumber(outbox[c].sent, x[2], Len(outbox[c].sent) + 1, n) =>
                      LastNumber(outbox'[c].sent, x[2], Len(outbox'[c].sent) + 1, n)
        BY <1>1, <1>2, <1>13, <1>17, NoticeKept DEF Mail
      <4> QED
        BY <3>1, <3>3, <4>1
    <3> QED
      BY <3>2, <3>3
  <2>4. EndInv'
    <3>1. ASSUME NEW x \in DOMAIN subs, NEW i \in DOMAIN outbox'[x[1]].sent,
                 IsEnd(outbox'[x[1]].sent[i]), outbox'[x[1]].sent[i].id = x[2]
          PROVE  \E u \in Publisher : x \in work'[u].told
      <4>1. x[1] \in Conn /\ x = <<x[1], x[2]>>
        BY DEF EventTypeOK
      <4>2. \/ /\ i \in DOMAIN outbox[x[1]].sent
               /\ outbox'[x[1]].sent[i] = outbox[x[1]].sent[i]
            \/ x[1] = c /\ outbox'[x[1]].sent[i] = m
        BY <1>1, <1>2, <1>17, <4>1, SendsSplit
      <4>3. CASE x[1] = c /\ outbox'[x[1]].sent[i] = m
        <5>1. x = k
          BY <1>1, <1>2, <3>1, <4>1, <4>3
        <5> QED
          BY <1>4, <5>1
      <4> QED
        BY <1>14, <3>1, <4>2, <4>3
    <3> QED
      BY <1>3, <1>15, <3>1 DEF EndInv
  <2> QED
    BY <1>8, <2>1, <2>2, <2>3, <2>4 DEF Mail
<1> QED
  BY <1>10, <1>16, <1>17

\* An event: it is numbered whether it fits or not.
LEMMA DeliverStep ==
    ASSUME EventTypeOK, EventTypeOK', Mail, NEW w \in Publisher, NEW k \in Conn \X Handle,
           Deliver(w, k)
    PROVE  Mail'
<1> DEFINE c == k[1]
           sub == subs[k]
           m == EventOf(k, work[w].size)
           fits == Fits(outbox[c], m)
           s == outbox[c].sent
           t == outbox'[c].sent
           l == Len(s)
<1>1. /\ k \in DOMAIN subs /\ sub \in Subscription /\ m \in Message
      /\ c \in Conn /\ k[2] \in Handle /\ fits \in BOOLEAN
      /\ outbox' = [outbox EXCEPT ![c] = Push(outbox[c], m)]
      /\ subs' = [subs EXCEPT ![k] = AfterDelivery(sub, fits)]
      /\ work' = [work EXCEPT ![w] = [work[w] EXCEPT
            !.deliver = @ \ {k}, !.todo = IF Ends(sub, fits) THEN @ \cup {k} ELSE @]]
  BY DeliverEffect DEF Mail
<1>2. k = <<c, k[2]>> /\ sub.sequence \in Nat /\ sub.dropped \in Nat
  BY <1>1 DEF Subscription
<1>3. UNCHANGED <<nextID, handler>> /\ k \in work[w].deliver
  BY DEF Deliver
<1>4. /\ sub.key.provider = w /\ Running(k)
      /\ Reliable(sub.key.event) => sub.dropped = 0
      /\ LastNumber(s, k[2], l + 1, sub.sequence - sub.dropped)
  BY <1>1, <1>3 DEF Mail, WorkInv, CountInv
<1>5. /\ m.kind = "event" /\ m.id = k[2] /\ m.event = sub.key.event
      /\ m.sequence = sub.sequence + 1 /\ m.dropped = sub.dropped
  BY DEF EventOf
<1>6. /\ DOMAIN subs' = DOMAIN subs
      /\ \A x \in DOMAIN subs : x # k => subs'[x] = subs[x]
      /\ subs'[k].key = sub.key /\ subs'[k].sequence = sub.sequence + 1
      /\ fits => subs'[k].dropped = 0
      /\ ~fits /\ Reliable(sub.key.event) => subs'[k].dropped = sub.dropped
      /\ ~fits /\ ~Reliable(sub.key.event) => subs'[k].dropped = sub.dropped + 1
  <2>1. subs'[k] = AfterDelivery(sub, fits)
    BY <1>1
  <2>2. /\ AfterDelivery(sub, fits).key = sub.key
        /\ AfterDelivery(sub, fits).sequence = sub.sequence + 1
        /\ AfterDelivery(sub, fits).dropped =
              IF fits THEN 0 ELSE IF Reliable(sub.key.event) THEN sub.dropped
              ELSE sub.dropped + 1
    BY <1>1 DEF AfterDelivery, Subscription
  <2>3. DOMAIN subs' = DOMAIN subs /\ \A x \in DOMAIN subs : x # k => subs'[x] = subs[x]
    BY <1>1
  <2> QED
    BY <2>1, <2>2, <2>3
<1>7. \A x \in DOMAIN subs : subs'[x].key = subs[x].key
  BY <1>6
<1>8. /\ work'[w].deliver = work[w].deliver \ {k} /\ work'[w].size = work[w].size
      /\ work'[w].told = work[w].told
      /\ work'[w].todo = IF ~fits /\ Reliable(sub.key.event) THEN work[w].todo \cup {k}
                         ELSE work[w].todo
  BY <1>1, WorkShape DEF EventTypeOK, Work, Ends
<1>9. \A u \in Publisher \ {w} : work'[u] = work[u]
  BY <1>1 DEF EventTypeOK
<1>10. \A u \in Publisher :
          /\ work[u].todo \subseteq work'[u].todo
          /\ work'[u].todo \subseteq work[u].todo \cup {k}
          /\ work'[u].told = work[u].told
  BY <1>8, <1>9
<1>11. \A x : Running(x)' => Running(x)
  BY <1>10 DEF Running
<1>12. \A x : x # k /\ Running(x) => Running(x)'
  BY <1>10 DEF Running
<1>13. fits => Sends(c, m)
  BY <1>1, PushEffect DEF Sends, EventTypeOK
<1>14. ~fits => SameMail
  BY <1>1, PushEffect DEF SameMail, EventTypeOK
<1>15. \A x \in DOMAIN subs : x[1] \in Conn /\ x[2] \in Handle /\ x = <<x[1], x[2]>>
  BY DEF EventTypeOK
<1>16. k[2] <= nextID[c]
  BY <1>1 DEF Mail, NumbersGiven
<1>17. ASSUME NEW d \in Conn, NEW i \in DOMAIN outbox'[d].sent
       PROVE  \/ i \in DOMAIN outbox[d].sent /\ outbox'[d].sent[i] = outbox[d].sent[i]
              \/ d = c /\ i = l + 1 /\ outbox'[d].sent[i] = m /\ fits
  <2>1. CASE fits
    BY <1>1, <1>13, <2>1, SendsSplit
  <2>2. CASE ~fits
    BY <1>14, <2>2 DEF SameMail
  <2> QED
    BY <1>1, <2>1, <2>2
<1>18. NumbersGiven'
  <2>1. \A x \in DOMAIN subs' : x[2] <= nextID'[x[1]]
    BY <1>3, <1>6 DEF Mail, NumbersGiven
  <2>2. \A u \in Publisher : \A x \in work'[u].todo \cup work'[u].told : x[2] <= nextID'[x[1]]
    BY <1>3, <1>10, <1>16 DEF Mail, NumbersGiven
  <2>3. \A d \in Conn : \A i \in DOMAIN outbox'[d].sent : outbox'[d].sent[i].id <= nextID'[d]
    <3> SUFFICES ASSUME NEW d \in Conn, NEW i \in DOMAIN outbox'[d].sent
                 PROVE  outbox'[d].sent[i].id <= nextID[d]
      BY <1>3
    <3>1. \A j \in DOMAIN outbox[d].sent : outbox[d].sent[j].id <= nextID[d]
      BY DEF Mail, NumbersGiven
    <3> QED
      BY <1>5, <1>16, <1>17, <3>1
  <2> QED
    BY <1>3, <2>1, <2>2, <2>3 DEF Mail, NumbersGiven
<1>19. WorkInv'
  <2> SUFFICES ASSUME NEW u \in Publisher
               PROVE  /\ work'[u].deliver # {} => work'[u].size \in Size
                      /\ \A x \in work'[u].deliver :
                            x \in DOMAIN subs' /\ subs'[x].key.provider = u /\ Running(x)'
                      /\ \A x \in work'[u].todo \cup work'[u].told :
                            x \in DOMAIN subs' => subs'[x].key.provider = u
    BY DEF WorkInv
  <2>1. /\ work[u].deliver # {} => work[u].size \in Size
        /\ \A x \in work[u].deliver :
              x \in DOMAIN subs /\ subs[x].key.provider = u /\ Running(x)
        /\ \A x \in work[u].todo \cup work[u].told :
              x \in DOMAIN subs => subs[x].key.provider = u
    BY DEF Mail, WorkInv
  <2>2. work'[u].deliver \subseteq work[u].deliver /\ k \notin work'[u].deliver
        /\ work'[u].size = work[u].size
    <3>1. CASE u = w
      BY <1>8, <3>1
    <3>2. CASE u # w
      BY <1>4, <1>9, <2>1, <3>2
    <3> QED
      BY <3>1, <3>2
  <2>3. \A x \in work'[u].todo \cup work'[u].told :
           x \in DOMAIN subs' => subs'[x].key.provider = u
    <3>1. CASE u = w
      BY <1>4, <1>6, <1>7, <1>10, <2>1, <3>1
    <3>2. CASE u # w
      BY <1>6, <1>7, <1>9, <2>1, <3>2
    <3> QED
      BY <3>1, <3>2
  <2> QED
    BY <1>6, <1>7, <1>12, <2>1, <2>2, <2>3
<1>20. EndInv'
  <2>1. ASSUME NEW x \in DOMAIN subs, NEW i \in DOMAIN outbox'[x[1]].sent,
               IsEnd(outbox'[x[1]].sent[i]), outbox'[x[1]].sent[i].id = x[2]
        PROVE  \E u \in Publisher : x \in work'[u].told
    <3>1. ~IsEnd(m)
      BY <1>5 DEF IsEnd
    <3>2. i \in DOMAIN outbox[x[1]].sent /\ outbox'[x[1]].sent[i] = outbox[x[1]].sent[i]
      BY <1>15, <1>17, <2>1, <3>1
    <3>3. \E u \in Publisher : x \in work[u].told
      BY <2>1, <3>2 DEF Mail, EndInv
    <3> QED
      BY <1>10, <3>3
  <2>2. \A d \in Conn : handler'[d].op = "reply" /\ IsEnd(handler'[d].message) =>
           <<d, handler'[d].message.id>> \notin DOMAIN subs'
    BY <1>3, <1>6 DEF Mail, EndInv
  <2> QED
    BY <1>6, <2>1, <2>2 DEF EndInv
<1>21. CountInv'
  <2>1. ASSUME NEW x \in DOMAIN subs, x # k
        PROVE  /\ Reliable(subs'[x].key.event) => subs'[x].dropped = 0
               /\ Running(x)' =>
                    LastNumber(outbox'[x[1]].sent, x[2], Len(outbox'[x[1]].sent) + 1,
                               subs'[x].sequence - subs'[x].dropped)
    <3> DEFINE n == subs[x].sequence - subs[x].dropped
    <3>1. /\ Reliable(subs[x].key.event) => subs[x].dropped = 0
          /\ Running(x) => LastNumber(outbox[x[1]].sent, x[2], Len(outbox[x[1]].sent) + 1, n)
      BY <2>1 DEF Mail, CountInv
    <3>2. subs'[x] = subs[x]
      BY <1>6, <2>1
    <3>3. CASE ~fits \/ x[1] # c
      <4>1. outbox'[x[1]].sent = outbox[x[1]].sent
        BY <1>1, <1>13, <1>14, <1>15, <3>3 DEF SameMail, Sends
      <4> QED
        BY <1>11, <3>1, <3>2, <4>1
    <3>4. CASE fits /\ x[1] = c
      <4>1. /\ l \in Nat /\ Len(t) = l + 1 /\ t[l + 1] = m
            /\ \A j \in 1..l : s[j] = t[j]
        BY <1>1, <1>13, <3>4, SendsEffect
      <4>2. ~IsEvent(t[l + 1], x[2])
        BY <1>2, <1>5, <1>15, <2>1, <3>4, <4>1 DEF IsEvent
      <4>3. ASSUME LastNumber(s, x[2], l + 1, n)
            PROVE  LastNumber(t, x[2], l + 1 + 1, n)
        <5>1. l + 1 \in Nat \ {0}
          BY <4>1
        <5> HIDE DEF s, t, l, n
        <5>2. LastNumber(t, x[2], l + 1, n)
          BY <4>1, <4>3, AllKept
        <5> QED
          BY <4>2, <5>1, <5>2, LastSkips
      <4> QED
        BY <1>11, <3>1, <3>2, <3>4, <4>1, <4>3
    <3> QED
      BY <1>1, <3>3, <3>4
  <2>2. Reliable(subs'[k].key.event) => subs'[k].dropped = 0
    BY <1>1, <1>4, <1>6
  <2>3. ASSUME Running(k)'
        PROVE  LastNumber(t, k[2], Len(t) + 1, subs'[k].sequence - subs'[k].dropped)
    <3>1. CASE fits
      <4>1. l \in Nat /\ Len(t) = l + 1 /\ t[l + 1] = m
        BY <1>1, <1>13, <3>1, SendsEffect
      <4>2. IsEvent(t[l + 1], k[2]) /\ l + 1 \in Nat \ {0}
        BY <1>5, <4>1 DEF IsEvent
      <4>3. LastNumber(t, k[2], l + 1 + 1, t[l + 1].sequence)
        <5> HIDE DEF t, l
        <5> QED
          BY <4>2, LastIsNewest
      <4>4. subs'[k].sequence - subs'[k].dropped = t[l + 1].sequence
        BY <1>2, <1>5, <1>6, <3>1, <4>1
      <4> QED
        BY <4>1, <4>3, <4>4
    <3>2. CASE ~fits
      <4>1. ~Reliable(sub.key.event)
        BY <1>8, <2>3, <3>2 DEF Running
      <4>2. subs'[k].sequence - subs'[k].dropped = sub.sequence - sub.dropped
        BY <1>2, <1>6, <3>2, <4>1
      <4>3. t = s
        BY <1>1, <1>14, <3>2 DEF SameMail
      <4> QED
        BY <1>4, <4>2, <4>3
    <3> QED
      BY <1>1, <3>1, <3>2
  <2> QED
    BY <1>6, <2>1, <2>2, <2>3 DEF CountInv
<1>22. CASE ~fits
  BY <1>14, <1>18, <1>19, <1>20, <1>21, <1>22, MailKept DEF Mail
<1>23. CASE fits
  <2>1. GapIsCounted'
    <3> SUFFICES ASSUME NEW d \in Conn, NEW id \in Handle, NEW i \in DOMAIN outbox'[d].sent,
                        IsEvent(outbox'[d].sent[i], id)
                 PROVE  LastNumber(outbox'[d].sent, id, i,
                           outbox'[d].sent[i].sequence - outbox'[d].sent[i].dropped - 1)
      BY DEF GapIsCounted
    <3>1. CASE d # c
      <4>1. outbox'[d].sent = outbox[d].sent
        BY <1>13, <1>23, <3>1 DEF Sends
      <4> QED
        BY <4>1 DEF Mail, GapIsCounted
    <3>2. CASE d = c /\ i \in DOMAIN s
      BY <1>1, <1>13, <1>23, <3>2, EarlierGaps DEF Mail
    <3>3. CASE d = c /\ i = l + 1 /\ outbox'[d].sent[i] = m
      <4>1. id = k[2]
        BY <1>5, <3>3 DEF IsEvent
      <4>2. m.sequence - m.dropped - 1 = sub.sequence - sub.dropped
        BY <1>2, <1>5
      <4>3. l \in Nat /\ \A j \in 1..l : s[j] = t[j]
        BY <1>1, <1>13, <1>23, SendsEffect
      <4>4. LastNumber(t, k[2], l + 1, sub.sequence - sub.dropped)
        <5> DEFINE n == sub.sequence - sub.dropped
                   q == k[2]
        <5>1. LastNumber(s, q, l + 1, n)
          BY <1>4
        <5>2. LastNumber(t, q, l + 1, n)
          <6> HIDE DEF s, t, l, n, q
          <6> QED
            BY <4>3, <5>1, AllKept
        <5> QED
          BY <5>2
      <4> QED
        BY <3>3, <4>1, <4>2, <4>4
    <3> QED
      BY <1>17, <3>1, <3>2, <3>3
  <2>2. ReliableLosesNone'
    <3> SUFFICES ASSUME NEW d \in Conn, NEW i \in DOMAIN outbox'[d].sent,
                        outbox'[d].sent[i].kind = "event",
                        Reliable(outbox'[d].sent[i].event)
                 PROVE  outbox'[d].sent[i].dropped = 0
      BY DEF ReliableLosesNone
    <3>1. CASE outbox'[d].sent[i] = m
      BY <1>4, <1>5, <3>1
    <3>2. CASE i \in DOMAIN outbox[d].sent /\ outbox'[d].sent[i] = outbox[d].sent[i]
      BY <3>2 DEF Mail, ReliableLosesNone
    <3> QED
      BY <1>17, <3>1, <3>2
  <2>3. NoneAfterEnd'
    <3> SUFFICES ASSUME NEW d \in Conn, NEW i \in DOMAIN outbox'[d].sent,
                        NEW j \in DOMAIN outbox'[d].sent,
                        IsEnd(outbox'[d].sent[i]), j > i,
                        outbox'[d].sent[j].kind = "event",
                        outbox'[d].sent[j].id = outbox'[d].sent[i].id
                 PROVE  FALSE
      BY DEF NoneAfterEnd
    <3>1. outbox'[d].sent[i] # m
      BY <1>5 DEF IsEnd
    <3>2. i \in DOMAIN outbox[d].sent /\ outbox'[d].sent[i] = outbox[d].sent[i]
      BY <1>17, <3>1
    <3>3. CASE j \in DOMAIN outbox[d].sent /\ outbox'[d].sent[j] = outbox[d].sent[j]
      BY <3>2, <3>3 DEF Mail, NoneAfterEnd
    <3>4. CASE d = c /\ outbox'[d].sent[j] = m
      <4>1. \E u \in Publisher : k \in work[u].told
        BY <1>1, <1>5, <3>2, <3>4 DEF Mail, EndInv
      <4> QED
        BY <1>4, <4>1 DEF Running
    <3> QED
      BY <1>17, <3>3, <3>4
  <2> QED
    BY <1>18, <1>19, <1>20, <1>21, <2>1, <2>2, <2>3 DEF Mail
<1> QED
  BY <1>1, <1>22, <1>23

(***************************************************************************)
(* Every step.                                                             *)
(***************************************************************************)
LEMMA OneHandler ==
    ASSUME EventTypeOK, NEW c \in Conn, NEW v, handler' = [handler EXCEPT ![c] = v]
    PROVE  handler'[c] = v /\ \A d \in Conn \ {c} : handler'[d] = handler[d]
BY DEF EventTypeOK

LEMMA OneBox ==
    ASSUME EventTypeOK, NEW c \in Conn, NEW b, b.sent = outbox[c].sent,
           outbox' = [outbox EXCEPT ![c] = b]
    PROVE  SameMail
BY DEF EventTypeOK, SameMail

LEMMA QuietBox ==
    ASSUME EventTypeOK, NEW c \in Conn
    PROVE  /\ [outbox[c] EXCEPT !.closed = TRUE].sent = outbox[c].sent
           /\ [outbox[c] EXCEPT !.taken = @ + 1].sent = outbox[c].sent
BY DEF EventTypeOK, Box

LEMMA SubscriberMail ==
    ASSUME EventTypeOK, EventTypeOK', Mail, NEW c \in Conn, Subscriber(c)
    PROVE  Mail'
<1>1. ASSUME NEW key, AdmitSubscription(c, key)
      PROVE  Mail'
  <2>1. handler' = [handler EXCEPT ![c] = [op |-> "subscribe", key |-> key]]
        /\ nextID[c] < MaxSubscribe /\ UNCHANGED <<subs, work, nextID, outbox>>
    BY <1>1 DEF AdmitSubscription
  <2>2. handler'[c].op = "subscribe" /\ \A d \in Conn \ {c} : handler'[d] = handler[d]
    BY <2>1 DEF EventTypeOK
  <2>3. \A d \in Conn : handler'[d].op = "subscribe" => nextID[d] < MaxSubscribe
    BY <2>1, <2>2 DEF Mail, NumbersGiven
  <2>4. \A d \in Conn : handler'[d].op = "reply" => handler'[d] = handler[d]
    BY <2>2
  <2> QED
    BY <2>1, <2>3, <2>4, QuietMail DEF SameMail
<1>2. CASE Write(c)
  <2>1. UNCHANGED <<subs, work, nextID, handler>>
    BY <1>2 DEF Write
  <2>4. \/ outbox' = [outbox EXCEPT ![c] = [outbox[c] EXCEPT !.taken = @ + 1]]
        \/ outbox' = [outbox EXCEPT ![c] = [outbox[c] EXCEPT !.closed = TRUE]]
    BY <1>2 DEF Write
  <2>2. SameMail
    BY <2>4, QuietBox, OneBox
  <2>3. \A d \in Conn : handler'[d].op = "subscribe" => nextID[d] < MaxSubscribe
    BY <2>1 DEF Mail, NumbersGiven
  <2> QED
    BY <2>1, <2>2, <2>3, QuietMail
<1>3. ASSUME NEW id \in Handle, Unsubscribe(c, id)
      PROVE  Mail'
  <2> DEFINE K == {<<c, id>>}
  <2>1. /\ handler' = [handler EXCEPT ![c] =
              [op |-> "reply", message |-> Control("unsubscribed", id)]]
        /\ Unlocked /\ <<c, id>> \in DOMAIN subs
        /\ subs' = Without(K) /\ UNCHANGED <<work, nextID, outbox>>
    BY <1>3 DEF Unsubscribe
  <2>2. /\ handler'[c].op = "reply" /\ handler'[c].message.id = id
        /\ \A d \in Conn \ {c} : handler'[d] = handler[d]
    BY <2>1 DEF EventTypeOK, Control
  <2>3. \A d \in Conn : handler'[d].op = "reply" =>
           \/ handler'[d] = handler[d]
           \/ <<d, handler'[d].message.id>> \in DOMAIN subs \cap K
    BY <2>1, <2>2
  <2>4. \A d \in Conn : handler'[d].op = "subscribe" => handler'[d] = handler[d]
    BY <2>2
  <2>5. SameMail
    BY <2>1 DEF SameMail
  <2>6. \A u \in Publisher : work'[u].deliver = {}
    BY <2>1 DEF Unlocked
  <2> QED
    BY <2>1, <2>3, <2>4, <2>5, <2>6, RemovalStep
<1> QED
  BY <1>1, <1>2, <1>3, SubscribeStep, AnswerStep DEF Subscriber

LEMMA PublishingMail ==
    ASSUME EventTypeOK, EventTypeOK', Mail, NEW w \in Publisher, Publishing(w)
    PROVE  Mail'
<1>1. CASE Drop(w)
  <2> DEFINE K == work[w].told
  <2>1. /\ work' = [work EXCEPT ![w] = [work[w] EXCEPT !.told = {}]]
        /\ Unlocked /\ subs' = Without(K) /\ UNCHANGED <<handler, nextID, outbox>>
    BY <1>1 DEF Drop
  <2>2. work'[w].told = {} /\ work'[w].todo = work[w].todo
        /\ work'[w].deliver = work[w].deliver
    BY <2>1, WorkShape DEF EventTypeOK, Work
  <2>3. \A u \in Publisher \ {w} : work'[u] = work[u]
    BY <2>1 DEF EventTypeOK
  <2>4. \A u \in Publisher : work'[u].deliver = {}
    BY <2>1, <2>2, <2>3 DEF Unlocked
  <2>5. \A u \in Publisher : \A k \in work'[u].todo \cup work'[u].told :
           k \in work[u].todo \cup work[u].told
    BY <2>2, <2>3
  <2>6. \A u \in Publisher : \A k \in DOMAIN subs \ K :
           /\ k \in work[u].told => k \in work'[u].told
           /\ k \in work[u].todo => k \in work'[u].todo
    BY <2>2, <2>3
  <2>7. SameMail
    BY <2>1 DEF SameMail
  <2> QED
    BY <2>1, <2>4, <2>5, <2>6, <2>7, RemovalStep
<1>2. CASE CloseScope(w)
  <2>1. PICK of \in SUBSET DOMAIN subs :
           /\ work' = [work EXCEPT ![w] = [work[w] EXCEPT !.todo = of, !.ends = {}]]
           /\ subs' = Without(of)
    BY <1>2, WorkShape DEF CloseScope, Work
  <2>2. /\ Unlocked /\ work[w].todo = {} /\ work[w].told = {}
        /\ UNCHANGED <<handler, nextID, outbox>>
    BY <1>2 DEF CloseScope
  <2>3. work'[w].told = {} /\ work'[w].todo = of /\ work'[w].deliver = work[w].deliver
    BY <2>1, <2>2, WorkShape DEF EventTypeOK, Work
  <2>4. \A u \in Publisher \ {w} : work'[u] = work[u]
    BY <2>1 DEF EventTypeOK
  <2>5. \A u \in Publisher : work'[u].deliver = {}
    BY <2>2, <2>3, <2>4 DEF Unlocked
  <2>6. \A u \in Publisher : \A k \in work'[u].todo \cup work'[u].told :
           k \in work[u].todo \cup work[u].told \/ k \in DOMAIN subs \cap of
    BY <2>3, <2>4
  <2>7. \A u \in Publisher : \A k \in DOMAIN subs \ of :
           /\ k \in work[u].told => k \in work'[u].told
           /\ k \in work[u].todo => k \in work'[u].todo
    BY <2>2, <2>4
  <2>8. SameMail
    BY <2>2 DEF SameMail
  <2> QED
    BY <2>1, <2>2, <2>5, <2>6, <2>7, <2>8, RemovalStep
<1> QED
  BY <1>1, <1>2, DeliverStep, TellStep DEF Publishing

LEMMA ProvidingMail ==
    ASSUME EventTypeOK, EventTypeOK', Mail, NEW p \in Provider, Providing(p)
    PROVE  Mail'
<1>0. p \in Conn /\ p \in Publisher
  BY EventAssumption DEF Publisher
<1>1. ASSUME NEW e \in Event, NEW size \in Size, PublishEvent(p, e, size)
      PROVE  Mail'
  <2>1. Publish(p, Key(p, e, None), size, {}) /\ UNCHANGED <<nextID, handler>>
    BY <1>1 DEF PublishEvent
  <2>2. Key(p, e, None).provider = p
    BY DEF Key
  <2> QED
    BY <1>0, <2>1, <2>2, PublishStep
<1>2. ASSUME UNCHANGED <<subs, work, nextID, outbox>>,
             NEW v, v.op \notin {"reply", "subscribe"},
             handler' = handler \/ handler' = [handler EXCEPT ![p] = v]
      PROVE  Mail'
  <2>1. \A d \in Conn : handler'[d].op \in {"reply", "subscribe"} => handler'[d] = handler[d]
    BY <1>0, <1>2, OneHandler
  <2>2. \A d \in Conn : handler'[d].op = "subscribe" => nextID[d] < MaxSubscribe
    BY <2>1 DEF Mail, NumbersGiven
  <2>3. SameMail
    BY <1>2 DEF SameMail
  <2> QED
    BY <1>2, <2>1, <2>2, <2>3, QuietMail
<1>3. ASSUME NEW s \in Instance, NEW c \in Conn, FindOrigin(p, s, c)
      PROVE  Mail'
  <2>1. [op |-> "bind", scope |-> s, owner |-> c].op = "bind"
    OBVIOUS
  <2> QED
    BY <1>2, <1>3, <2>1 DEF FindOrigin
<1>4. CASE Bind(p) \/ UnregisterEndpoint(p) \/ \E s \in Instance : Release(p, s)
  <2>1. Nothing.op = "idle"
    BY DEF Nothing
  <2> QED
    BY <1>2, <1>4, <2>1 DEF Bind, UnregisterEndpoint, Release
<1> QED
  BY <1>1, <1>3, <1>4 DEF Providing

LEMMA OperationMail ==
    ASSUME EventTypeOK, EventTypeOK', Mail, OperationEvents
    PROVE  Mail'
<1>1. PICK o \in Operation, size \in Size : Progress(o, size) \/ End(o, size)
  BY DEF OperationEvents
<1>2. PICK ends : Publish(Manager, Key(Manager, Changed, o), size, ends)
  BY <1>1 DEF Progress, End
<1>3. UNCHANGED <<nextID, handler>> /\ Manager \in Publisher
  BY <1>1 DEF Progress, End, Publisher
<1>4. Key(Manager, Changed, o).provider = Manager
  BY DEF Key
<1> QED
  BY <1>2, <1>3, <1>4, PublishStep

LEMMA CloseStepMail ==
    ASSUME EventTypeOK, EventTypeOK', Mail, NEW c \in Conn, CloseStep(c)
    PROVE  Mail'
<1>1. UNCHANGED <<nextID, handler, work>>
  BY DEF CloseStep
<1>2. SameMail
  <2>1. \/ outbox' = outbox
        \/ outbox' = [outbox EXCEPT ![c] = [outbox[c] EXCEPT !.closed = TRUE]]
    BY DEF CloseStep, Teardown
  <2> QED
    BY <2>1, QuietBox, OneBox DEF SameMail
<1>3. CASE subs' = subs
  <2>1. \A d \in Conn : handler'[d].op = "subscribe" => nextID[d] < MaxSubscribe
    BY <1>1 DEF Mail, NumbersGiven
  <2> QED
    BY <1>1, <1>2, <1>3, <2>1, QuietMail
<1>4. CASE Unlocked /\ subs' = Without({k \in DOMAIN subs : k[1] = c})
  <2> DEFINE K == {k \in DOMAIN subs : k[1] = c}
  <2>1. \A u \in Publisher : work'[u].deliver = {}
    BY <1>1, <1>4 DEF Unlocked
  <2>2. subs' = Without(K)
    BY <1>4
  <2> HIDE DEF K
  <2> QED
    BY <1>1, <1>2, <2>1, <2>2, RemovalStep
<1> QED
  BY <1>3, <1>4 DEF CloseStep, Teardown

LEMMA EventNextMail ==
    ASSUME EventTypeOK, EventTypeOK', Mail, EventNext
    PROVE  Mail'
BY SubscriberMail, CloseStepMail, ProvidingMail, OperationMail, PublishingMail,
   EventAssumption DEF EventNext

(***************************************************************************)
(* The end of a connection.                                                *)
(***************************************************************************)
\* A request at work keeps its connection from being torn down, and what is
\* taken away is not given again.
LEMMA NothingGiven ==
    ASSUME EventTypeOK, TeardownInv, stage' = stage,
           \A c \in Conn : stage[c] > 0 => handler'[c] = handler[c],
           \A x \in DOMAIN owner' : x \in DOMAIN owner \/ (x[1] \in Conn /\ stage[x[1]] = 0),
           \A k \in DOMAIN subs' : k \in DOMAIN subs \/ (k[1] \in Conn /\ stage[k[1]] = 0),
           serving' \subseteq serving
    PROVE  TeardownInv'
<1> SUFFICES ASSUME NEW c \in Conn
             PROVE  /\ stage[c] > 0 => handler'[c] = Nothing
                    /\ stage[c] >= 2 => \A k \in DOMAIN owner' : k[1] # c
                    /\ stage[c] >= 3 => \A k \in DOMAIN subs' : k[1] # c
                    /\ stage[c] >= 4 => c \notin serving'
  BY DEF TeardownInv
<1>1. stage[c] \in 0..5
  BY DEF EventTypeOK
<1>2. /\ stage[c] > 0 => handler[c] = Nothing
      /\ stage[c] >= 2 => \A k \in DOMAIN owner : k[1] # c
      /\ stage[c] >= 3 => \A k \in DOMAIN subs : k[1] # c
      /\ stage[c] >= 4 => c \notin serving
  BY DEF TeardownInv
<1>3. stage[c] > 0 => handler'[c] = Nothing
  BY <1>2
<1>4. stage[c] >= 2 => \A k \in DOMAIN owner' : k[1] # c
  BY <1>1, <1>2
<1>5. stage[c] >= 3 => \A k \in DOMAIN subs' : k[1] # c
  BY <1>1, <1>2
<1>6. stage[c] >= 4 => c \notin serving'
  BY <1>2
<1> QED
  BY <1>3, <1>4, <1>5, <1>6

LEMMA AtWork ==
    ASSUME EventTypeOK, TeardownInv, NEW c \in Conn, handler[c].op # "idle"
    PROVE  stage[c] = 0
<1>1. Nothing.op = "idle" /\ stage[c] \in 0..5
  BY DEF Nothing, EventTypeOK
<1> QED
  BY <1>1 DEF TeardownInv

LEMMA SubscriberTeardown ==
    ASSUME EventTypeOK, TeardownInv, NEW c \in Conn, Subscriber(c)
    PROVE  TeardownInv'
<1>1. stage' = stage /\ owner' = owner /\ serving' = serving
  BY DEF Subscriber, AdmitSubscription, Subscribe, Answer, Write, Unsubscribe, scopes
<1>2. handler' = handler \/ (stage[c] = 0 /\ \E v : handler' = [handler EXCEPT ![c] = v])
  <2>1. CASE Subscribe(c) \/ Answer(c)
    BY <2>1, AtWork DEF Subscribe, Answer
  <2>2. CASE Write(c)
    BY <2>2 DEF Write
  <2>3. CASE \/ \E key : AdmitSubscription(c, key)
             \/ \E id \in Handle : Unsubscribe(c, id)
    BY <2>3 DEF AdmitSubscription, Unsubscribe, Idle
  <2> QED
    BY <2>1, <2>2, <2>3 DEF Subscriber
<1>3. \A d \in Conn : stage[d] > 0 => handler'[d] = handler[d]
  BY <1>2, OneHandler
<1>4. \A k \in DOMAIN subs' : k \in DOMAIN subs \/ (k[1] \in Conn /\ stage[k[1]] = 0)
  <2>1. CASE Subscribe(c)
    <3>1. stage[c] = 0
      BY <2>1, AtWork DEF Subscribe
    <3>2. DOMAIN subs' = DOMAIN subs \cup {<<c, nextID[c] + 1>>}
      BY <2>1 DEF Subscribe, Put
    <3> QED
      BY <3>1, <3>2
  <2>2. CASE \E id \in Handle : Unsubscribe(c, id)
    BY <2>2, WithoutEffect DEF Unsubscribe
  <2>3. CASE subs' = subs
    BY <2>3
  <2> QED
    BY <2>1, <2>2, <2>3 DEF Subscriber, AdmitSubscription, Answer, Write
<1> QED
  BY <1>1, <1>3, <1>4, NothingGiven

LEMMA ProvidingTeardown ==
    ASSUME EventTypeOK, TeardownInv, NEW p \in Provider, Providing(p)
    PROVE  TeardownInv'
<1>0. p \in Conn
  BY EventAssumption
<1>1. stage' = stage /\ subs' = subs /\ serving' \subseteq serving
  BY DEF Providing, PublishEvent, Publish, FindOrigin, Release, Bind, UnregisterEndpoint, scopes
<1>2. handler' = handler \/ (stage[p] = 0 /\ \E v : handler' = [handler EXCEPT ![p] = v])
  <2>1. CASE Bind(p)
    BY <1>0, <2>1, AtWork DEF Bind
  <2>2. CASE \E s \in Instance, c \in Conn : FindOrigin(p, s, c)
    BY <2>2 DEF FindOrigin, Owns, Idle
  <2>3. CASE handler' = handler
    BY <2>3
  <2> QED
    BY <2>1, <2>2, <2>3 DEF Providing, PublishEvent, Release, UnregisterEndpoint
<1>3. \A d \in Conn : stage[d] > 0 => handler'[d] = handler[d]
  BY <1>0, <1>2, OneHandler
<1>4. \A x \in DOMAIN owner' : x \in DOMAIN owner \/ (x[1] \in Conn /\ stage[x[1]] = 0)
  <2>1. CASE Bind(p)
    <3>1. stage[p] = 0
      BY <1>0, <2>1, AtWork DEF Bind
    <3>2. DOMAIN owner' = DOMAIN owner \cup {<<p, handler[p].scope>>}
      BY <2>1 DEF Bind, Put
    <3> QED
      BY <1>0, <3>1, <3>2
  <2>2. CASE \E s \in Instance : Release(p, s)
    BY <2>2, ReleasedEffect DEF Release
  <2>3. CASE owner' = owner
    BY <2>3
  <2> QED
    BY <2>1, <2>2, <2>3 DEF Providing, PublishEvent, FindOrigin, UnregisterEndpoint, scopes
<1> QED
  BY <1>1, <1>3, <1>4, NothingGiven

LEMMA PublishingTeardown ==
    ASSUME EventTypeOK, WorkInv, TeardownInv, NEW w \in Publisher, Publishing(w)
    PROVE  TeardownInv'
<1>1. stage' = stage /\ owner' = owner /\ serving' = serving /\ handler' = handler
  BY DEF Publishing, Deliver, Tell, Drop, CloseScope, scopes
<1>2. DOMAIN subs' \subseteq DOMAIN subs
  <2>1. CASE \E k \in Conn \X Handle : Deliver(w, k)
    BY <2>1, DeliverEffect
  <2>2. CASE \E k \in Conn \X Handle : Tell(w, k)
    BY <2>2 DEF Tell
  <2>3. CASE Drop(w) \/ CloseScope(w)
    BY <2>3, WithoutEffect DEF Drop, CloseScope
  <2> QED
    BY <2>1, <2>2, <2>3 DEF Publishing
<1> QED
  BY <1>1, <1>2, NothingGiven

LEMMA OperationTeardown ==
    ASSUME EventTypeOK, TeardownInv, OperationEvents
    PROVE  TeardownInv'
<1>1. UNCHANGED <<stage, owner, serving, handler, subs>>
  BY DEF OperationEvents, Progress, End, Publish, scopes
<1> QED
  BY <1>1, NothingGiven

LEMMA CloseStepTeardown ==
    ASSUME EventTypeOK, TeardownInv, NEW c \in Conn, CloseStep(c)
    PROVE  TeardownInv'
<1> DEFINE n == stage[c] + 1
<1>1. /\ stage' = [stage EXCEPT ![c] = n] /\ handler' = handler
      /\ Idle(c) \/ stage[c] \in 1..4
  BY DEF CloseStep
<1>2. stage[c] \in 0..4 /\ handler[c] = Nothing
  BY <1>1 DEF EventTypeOK, TeardownInv, Idle
<1>3. /\ DOMAIN owner' \subseteq DOMAIN owner /\ DOMAIN subs' \subseteq DOMAIN subs
      /\ serving' \subseteq serving
  BY ReleasedEffect, WithoutEffect DEF CloseStep, Teardown, scopes
<1>4. /\ n = 2 => \A k \in DOMAIN owner' : k[1] # c
      /\ n = 3 => \A k \in DOMAIN subs' : k[1] # c
      /\ n = 4 => c \notin serving'
  <2>1. n = 2 => owner' = Released({k \in DOMAIN owner : k[1] = c})
    BY <1>2 DEF CloseStep, Teardown
  <2>2. n = 3 => subs' = Without({k \in DOMAIN subs : k[1] = c})
    BY <1>2 DEF CloseStep, Teardown
  <2>3. n = 4 => serving' = serving \ {c}
    BY <1>2 DEF CloseStep, Teardown
  <2>4. n = 2 => \A k \in DOMAIN owner' : k[1] # c
    BY <2>1 DEF Released, Restrict
  <2>5. n = 3 => \A k \in DOMAIN subs' : k[1] # c
    BY <2>2 DEF Without, Restrict
  <2> QED
    BY <2>3, <2>4, <2>5
<1> SUFFICES ASSUME NEW d \in Conn
             PROVE  /\ stage'[d] > 0 => handler'[d] = Nothing
                    /\ stage'[d] >= 2 => \A k \in DOMAIN owner' : k[1] # d
                    /\ stage'[d] >= 3 => \A k \in DOMAIN subs' : k[1] # d
                    /\ stage'[d] >= 4 => d \notin serving'
  BY DEF TeardownInv
<1>5. /\ stage[d] > 0 => handler[d] = Nothing
      /\ stage[d] >= 2 => \A k \in DOMAIN owner : k[1] # d
      /\ stage[d] >= 3 => \A k \in DOMAIN subs : k[1] # d
      /\ stage[d] >= 4 => d \notin serving
  BY DEF TeardownInv
<1>6. CASE d # c
  <2>1. stage'[d] = stage[d]
    BY <1>1, <1>6 DEF EventTypeOK
  <2> QED
    BY <1>1, <1>3, <1>5, <2>1
<1>7. CASE d = c
  <2>1. stage'[d] = n
    BY <1>1, <1>7 DEF EventTypeOK
  <2>2. n >= 2 => n = 2 \/ stage[c] >= 2
    BY <1>2
  <2>3. n >= 3 => n = 3 \/ stage[c] >= 3
    BY <1>2
  <2>4. n >= 4 => n = 4 \/ stage[c] >= 4
    BY <1>2
  <2> HIDE DEF n
  <2> QED
    BY <1>1, <1>2, <1>3, <1>4, <1>5, <1>7, <2>1, <2>2, <2>3, <2>4
<1> QED
  BY <1>6, <1>7

LEMMA EventNextTeardown ==
    ASSUME EventTypeOK, WorkInv, TeardownInv, EventNext
    PROVE  TeardownInv'
BY SubscriberTeardown, CloseStepTeardown, ProvidingTeardown, OperationTeardown,
   PublishingTeardown, EventAssumption DEF EventNext

LEMMA EventInitInv == EventInit => EventInv
<1> SUFFICES ASSUME EventInit PROVE EventInv
  OBVIOUS
<1>1. EventTypeOK
  BY EventInitTyped
<1>2. /\ DOMAIN subs = {} /\ DOMAIN owner = {} /\ \A c \in Conn : DOMAIN outbox[c].sent = {}
  BY DEF EventInit
<1>3. \A c \in Conn : handler[c] = Nothing /\ Nothing.op = "idle" /\ stage[c] = 0
  BY DEF EventInit, Nothing
<1>4. \A w \in Publisher : work[w].deliver = {} /\ work[w].todo = {} /\ work[w].told = {}
  BY DEF EventInit, Rest
<1>5. NumbersGiven /\ WorkInv
  BY <1>2, <1>3, <1>4 DEF NumbersGiven, WorkInv
<1>6. CountInv /\ EndInv /\ ReliableLosesNone /\ NoneAfterEnd /\ GapIsCounted
  BY <1>2, <1>3 DEF CountInv, EndInv, ReliableLosesNone, NoneAfterEnd, GapIsCounted
<1>7. TeardownInv
  BY <1>2, <1>3 DEF TeardownInv
<1> QED
  BY <1>1, <1>5, <1>6, <1>7 DEF EventInv, Mail

LEMMA EventInvariant == EventSpec => []EventInv
<1>1. EventInit => EventInv
  BY EventInitInv
<1>2. EventInv /\ [EventNext]_eventVars => EventInv'
  <2> SUFFICES ASSUME EventInv, [EventNext]_eventVars PROVE EventInv'
    OBVIOUS
  <2>1. CASE EventNext
    <3>1. EventTypeOK'
      BY <2>1, EventNextTyped DEF EventInv, Mail
    <3>2. Mail'
      BY <2>1, <3>1, EventNextMail DEF EventInv
    <3>3. TeardownInv'
      BY <2>1, EventNextTeardown DEF EventInv, Mail
    <3> QED
      BY <3>1, <3>2, <3>3 DEF EventInv
  <2>2. CASE UNCHANGED eventVars
    <3> USE <2>2 DEF eventVars, scopes
    <3>1. EventTypeOK'
      BY DEF EventInv, EventTypeOK
    <3>2. Mail'
      <4>1. SameMail
        BY DEF SameMail
      <4>2. \A c \in Conn : handler'[c].op = "subscribe" => nextID[c] < MaxSubscribe
        BY DEF EventInv, Mail, NumbersGiven
      <4> QED
        BY <4>1, <4>2, QuietMail DEF EventInv
    <3>3. TeardownInv'
      BY DEF EventInv, TeardownInv
    <3> QED
      BY <3>1, <3>2, <3>3 DEF EventInv
  <2> QED
    BY <2>1, <2>2
<1> QED
  BY <1>1, <1>2, PTL DEF EventSpec

\* The types, whatever the connections, events and bounds are.
THEOREM EventTypeCorrect == EventSpec => []EventTypeOK
BY EventInvariant, PTL DEF EventInv

\* What a client that may lose events is told it has lost is what it has lost,
\* for any clients, publishers, events and queue (Registry.Publish).
THEOREM GapCounted == EventSpec => []GapIsCounted
<1>1. EventInv => GapIsCounted
  BY DEF EventInv, Mail
<1> QED
  BY <1>1, EventInvariant, PTL

\* A reliable subscription's client gets every event up to its last, for any
\* clients, publishers, events and queue.
THEOREM ReliableGapless == EventSpec => []ReliableHasNoGap
<1>1. EventInv => ReliableHasNoGap
  <2> SUFFICES ASSUME EventInv, NEW c \in Conn, NEW id \in Handle,
                      NEW i \in DOMAIN outbox[c].sent,
                      IsEvent(outbox[c].sent[i], id), Reliable(outbox[c].sent[i].event)
               PROVE  LastNumber(outbox[c].sent, id, i, outbox[c].sent[i].sequence - 1)
    BY DEF ReliableHasNoGap
  <2> DEFINE m == outbox[c].sent[i]
  <2>1. LastNumber(outbox[c].sent, id, i, m.sequence - m.dropped - 1)
    BY DEF EventInv, Mail, GapIsCounted
  <2>2. m.dropped = 0
    BY DEF EventInv, Mail, ReliableLosesNone, IsEvent
  <2>3. m.sequence \in Nat
    BY SentShape, MessageShape DEF EventInv, IsEvent
  <2>4. m.sequence - m.dropped - 1 = m.sequence - 1
    BY <2>2, <2>3
  <2> QED
    BY <2>1, <2>4
<1> QED
  BY <1>1, EventInvariant, PTL

\* No event follows the end of a subscription, and a connection that is gone
\* holds nothing, for any clients, publishers, events and queue.
THEOREM EndedIsSilent == EventSpec => []NothingAfterEnd
<1>1. EventInv => NothingAfterEnd
  <2> SUFFICES ASSUME EventInv PROVE NothingAfterEnd
    OBVIOUS
  <2>1. \A c \in Conn : \A i, j \in DOMAIN outbox[c].sent :
          LET m == outbox[c].sent[i]
              later == outbox[c].sent[j]
          IN  m.kind \in {"unsubscribed", "closed"} /\ j > i =>
                  ~(later.kind = "event" /\ later.id = m.id)
    BY DEF EventInv, Mail, NoneAfterEnd, IsEnd
  <2>2. DeadHoldsNothing
    BY DEF EventInv, TeardownInv, DeadHoldsNothing
  <2> QED
    BY <2>1, <2>2 DEF NothingAfterEnd
<1> QED
  BY <1>1, EventInvariant, PTL
=============================================================================
