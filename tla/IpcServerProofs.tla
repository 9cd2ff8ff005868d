-------------------------- MODULE IpcServerProofs --------------------------
(***************************************************************************)
(* Three promises of the IPC server, for any number of processes, users,   *)
(* connections and generations: a listener is never unlinked under its     *)
(* feet, a frame that came from a replaced package is never acted on, and  *)
(* what Stop waits for ends by itself and is all there was.                *)
(***************************************************************************)
EXTENDS IpcServer, FiniteSetTheorems, TLAPS

\* What the steps below need of the types.
Acceptors == {"none", "accept", "backoff"} \cup Conn

ServerShape == [
    pc : {"off", "start", "locked", "cleared", "bound", "serving",
          "quit", "snapped", "closed", "exit"},
    listening : BOOLEAN, quit : BOOLEAN,
    acceptor : Acceptors, failures : Int,
    conns : SUBSET Conn, perUID : [UID -> Int], snapshot : SUBSET Conn, wg : Int]

ShapeOK == server \in [Kernel -> ServerShape]

\* From the lock to its release; and while the listener is up.
Holding == {"locked", "cleared", "bound", "serving", "quit", "snapped", "closed"}
Listening == {"bound", "serving", "quit", "snapped"}

\* The lock is what makes the removal of a socket file safe: whoever removes
\* one holds it, and so does whoever listens.
NamesInv ==
    /\ ShapeOK
    /\ \A k \in Kernel : server[k].pc \in Holding => lock = k
    /\ \A k \in Kernel : server[k].listening =>
          server[k].pc \in Listening /\ path = k

LEMMA NamesGive == NamesInv => OneListener
BY DEF NamesInv, OneListener, Holding, Listening

LEMMA AcceptorKinds ==
    /\ "none" \in Acceptors /\ "accept" \in Acceptors /\ "backoff" \in Acceptors
    /\ Conn \subseteq Acceptors
BY DEF Acceptors

LEMMA OffShape == Off \in ServerShape /\ Off.pc = "off" /\ ~Off.listening
BY AcceptorKinds DEF Off, ServerShape

\* The fields that move without the names.
LEMMA FieldsShape ==
    ASSUME NEW s \in ServerShape
    PROVE  /\ \A a \in Acceptors : [s EXCEPT !.acceptor = a] \in ServerShape
           /\ \A i \in Int : [s EXCEPT !.failures = i] \in ServerShape
           /\ \A i \in Int : [s EXCEPT !.wg = i] \in ServerShape
           /\ \A C \in SUBSET Conn : [s EXCEPT !.conns = C] \in ServerShape
           /\ \A C \in SUBSET Conn : [s EXCEPT !.snapshot = C] \in ServerShape
           /\ \A f \in [UID -> Int] : [s EXCEPT !.perUID = f] \in ServerShape
           /\ s.wg \in Int /\ s.failures \in Int /\ s.acceptor \in Acceptors
           /\ s.conns \in SUBSET Conn /\ s.perUID \in [UID -> Int]
           /\ s.snapshot \in SUBSET Conn
BY DEF ServerShape

\* s differs from S in none of the fields the names depend on.
Alike(s, S) == s \in ServerShape /\ s.pc = S.pc /\ s.listening = S.listening

LEMMA FieldsAlike ==
    ASSUME NEW S \in ServerShape, NEW s, Alike(s, S)
    PROVE  /\ \A a \in Acceptors : Alike([s EXCEPT !.acceptor = a], S)
           /\ \A i \in Int : Alike([s EXCEPT !.failures = i], S)
           /\ \A i \in Int : Alike([s EXCEPT !.wg = i], S)
           /\ \A C \in SUBSET Conn : Alike([s EXCEPT !.conns = C], S)
           /\ \A C \in SUBSET Conn : Alike([s EXCEPT !.snapshot = C], S)
           /\ \A f \in [UID -> Int] : Alike([s EXCEPT !.perUID = f], S)
<1> USE DEF Alike
<1>1. \A a \in Acceptors : Alike([s EXCEPT !.acceptor = a], S)
  BY FieldsShape DEF ServerShape
<1>2. \A i \in Int : Alike([s EXCEPT !.failures = i], S)
  BY FieldsShape DEF ServerShape
<1>3. \A i \in Int : Alike([s EXCEPT !.wg = i], S)
  BY FieldsShape DEF ServerShape
<1>4. \A C \in SUBSET Conn : Alike([s EXCEPT !.conns = C], S)
  BY FieldsShape DEF ServerShape
<1>5. \A C \in SUBSET Conn : Alike([s EXCEPT !.snapshot = C], S)
  BY FieldsShape DEF ServerShape
<1>6. \A f \in [UID -> Int] : Alike([s EXCEPT !.perUID = f], S)
  BY FieldsShape DEF ServerShape
<1> HIDE DEF Alike
<1> QED
  BY <1>1, <1>2, <1>3, <1>4, <1>5, <1>6

\* One process moves to s: what has to hold of s and of the names.
LEMMA ServerMoves ==
    ASSUME NamesInv, NEW k \in Kernel, NEW s \in ServerShape,
           server' = [server EXCEPT ![k] = s],
           s.pc \in Holding => lock' = k,
           s.listening => s.pc \in Listening /\ path' = k,
           \/ lock' = lock
           \/ lock' = None /\ lock = k
           \/ lock = None,
           path' = path \/ lock = k \/ path = k
    PROVE  NamesInv'
<1>1. ShapeOK'
  BY DEF NamesInv, ShapeOK
<1>2. server'[k] = s /\ \A j \in Kernel \ {k} : server'[j] = server[j]
  BY DEF NamesInv, ShapeOK
<1>3. ASSUME NEW j \in Kernel \ {k}, server[j].pc \in Holding
      PROVE  lock' = j
  BY <1>3, ServerAssumption DEF NamesInv
<1>4. ASSUME NEW j \in Kernel \ {k}, server[j].listening
      PROVE  server[j].pc \in Listening /\ path' = j
  <2>1. server[j].pc \in Listening /\ path = j /\ lock = j
    BY <1>4 DEF NamesInv, Holding, Listening
  <2> QED
    BY <2>1, ServerAssumption
<1> QED
  BY <1>1, <1>2, <1>3, <1>4 DEF NamesInv

\* The steps that leave a process where it is in Start and Stop.
LEMMA ServerStays ==
    ASSUME NamesInv, UNCHANGED names, NEW k \in Kernel, NEW s \in ServerShape,
           server' = [server EXCEPT ![k] = s],
           s.pc = server[k].pc, s.listening = server[k].listening
    PROVE  NamesInv'
BY ServerMoves DEF NamesInv, names

LEMMA CountShape ==
    ASSUME NEW f \in [UID -> Int], NEW u, NEW n \in Int
    PROVE  Count(f, u, n) \in [UID -> Int]
<1>1. CASE u \in UID
  BY <1>1 DEF Count
<1>2. CASE u \notin UID
  BY <1>2 DEF Count
<1> QED
  BY <1>1, <1>2

LEMMA TakenSteps ==
    ASSUME NEW S, NEW c, NEW u
    PROVE  Taken(S, c, u) =
                 [[[[S EXCEPT !.acceptor = "accept"]
                       EXCEPT !.conns = S.conns \cup {c}]
                       EXCEPT !.perUID = Count(S.perUID, u, 1)]
                       EXCEPT !.wg = S.wg + 1]
BY DEF Taken

LEMMA ReturnedSteps ==
    ASSUME NEW S, NEW c, NEW u
    PROVE  Returned(S, c, u) =
                 [[[[S EXCEPT !.conns = S.conns \ {c}]
                       EXCEPT !.perUID = Count(S.perUID, u, -1)]
                       EXCEPT !.snapshot = S.snapshot \ {c}]
                       EXCEPT !.wg = S.wg - 1]
BY DEF Returned

LEMMA SlotShape ==
    ASSUME NEW S \in ServerShape, NEW c \in Conn, NEW u
    PROVE  Alike(Taken(S, c, u), S) /\ Alike(Returned(S, c, u), S)
<1>1. S.perUID \in [UID -> Int] /\ S.wg \in Int
  BY FieldsShape
<1>2. /\ Count(S.perUID, u, 1) \in [UID -> Int]
      /\ Count(S.perUID, u, -1) \in [UID -> Int]
  BY <1>1, CountShape
<1>3. /\ S.conns \cup {c} \in SUBSET Conn /\ S.conns \ {c} \in SUBSET Conn
      /\ S.snapshot \ {c} \in SUBSET Conn
  BY FieldsShape
<1>4. S.wg + 1 \in Int /\ S.wg - 1 \in Int
  BY <1>1
<1>5. Alike(S, S)
  BY DEF Alike
<1>6. Alike(Taken(S, c, u), S)
  <2> DEFINE s1 == [S EXCEPT !.acceptor = "accept"]
             s2 == [s1 EXCEPT !.conns = S.conns \cup {c}]
             s3 == [s2 EXCEPT !.perUID = Count(S.perUID, u, 1)]
  <2>1. Taken(S, c, u) = [s3 EXCEPT !.wg = S.wg + 1]
    BY TakenSteps
  <2>2. Alike(s1, S)
    BY <1>5, FieldsAlike, AcceptorKinds
  <2> HIDE DEF s1
  <2>3. Alike(s2, S)
    BY <1>3, <2>2, FieldsAlike
  <2> HIDE DEF s2
  <2>4. Alike(s3, S)
    BY <1>2, <2>3, FieldsAlike
  <2> HIDE DEF s3
  <2> QED
    BY <1>4, <2>1, <2>4, FieldsAlike
<1>7. Alike(Returned(S, c, u), S)
  <2> DEFINE s1 == [S EXCEPT !.conns = S.conns \ {c}]
             s2 == [s1 EXCEPT !.perUID = Count(S.perUID, u, -1)]
             s3 == [s2 EXCEPT !.snapshot = S.snapshot \ {c}]
  <2>1. Returned(S, c, u) = [s3 EXCEPT !.wg = S.wg - 1]
    BY ReturnedSteps
  <2>2. Alike(s1, S)
    BY <1>3, <1>5, FieldsAlike
  <2> HIDE DEF s1
  <2>3. Alike(s2, S)
    BY <1>2, <2>2, FieldsAlike
  <2> HIDE DEF s2
  <2>4. Alike(s3, S)
    BY <1>3, <2>3, FieldsAlike
  <2> HIDE DEF s3
  <2> QED
    BY <1>4, <2>1, <2>4, FieldsAlike
<1> QED
  BY <1>6, <1>7

LEMMA ProcessKeepsNames ==
    ASSUME NamesInv, NEW k \in Kernel, Process(k)
    PROVE  NamesInv'
<1> DEFINE S == server[k]
<1>1. S \in ServerShape
  BY DEF NamesInv, ShapeOK
<1>2. S.listening => S.pc \in Listening /\ lock = k /\ path = k
  <2>1. Listening \subseteq Holding
    BY DEF Listening, Holding
  <2>2. S.listening => S.pc \in Listening /\ path = k
    BY DEF NamesInv
  <2>3. S.pc \in Holding => lock = k
    BY DEF NamesInv, Holding
  <2> QED
    BY <2>1, <2>2, <2>3
<1>3. ASSUME NEW pc \in {"start", "locked", "cleared", "quit", "exit"}
      PROVE  /\ [S EXCEPT !.pc = pc] \in ServerShape
             /\ [S EXCEPT !.pc = pc].pc = pc
             /\ [S EXCEPT !.pc = pc].listening = S.listening
  BY <1>1 DEF ServerShape
<1>4. CASE Launch(k)
  <2>1. /\ server' = [server EXCEPT ![k] = [S EXCEPT !.pc = "start"]]
        /\ ~S.listening /\ UNCHANGED names
    BY <1>2, <1>4 DEF Launch, Listening
  <2> QED
    BY <1>3, <2>1, ServerMoves DEF names, Holding
<1>5. CASE AcquireSingletonLock(k)
  <2>1. ~S.listening /\ UNCHANGED path
    BY <1>2, <1>5 DEF AcquireSingletonLock, Listening
  <2>2. CASE lock = None
    <3>1. lock' = k /\ server' = [server EXCEPT ![k] = [S EXCEPT !.pc = "locked"]]
      BY <1>5, <2>2 DEF AcquireSingletonLock
    <3> QED
      BY <1>3, <2>1, <2>2, <3>1, ServerMoves
  <2>3. CASE lock # None
    <3>1. lock' = lock /\ server' = [server EXCEPT ![k] = Off]
      BY <1>5, <2>3 DEF AcquireSingletonLock
    <3> QED
      BY <2>1, <3>1, OffShape, ServerMoves DEF Holding
  <2> QED
    BY <2>2, <2>3
<1>6. CASE ClearStaleSocket(k)
  <2>1. /\ server' = [server EXCEPT ![k] = [S EXCEPT !.pc = "cleared"]]
        /\ ~S.listening /\ lock = k /\ lock' = lock
    BY <1>2, <1>6 DEF ClearStaleSocket, Listening, Holding, NamesInv
  <2> QED
    BY <1>3, <2>1, ServerMoves
<1>7. CASE Listen(k)
  <2> DEFINE s == [S EXCEPT !.pc = "bound", !.listening = TRUE]
  <2>1. s \in ServerShape /\ s.pc = "bound" /\ s.listening
    BY <1>1 DEF ServerShape
  <2>2. server' = [server EXCEPT ![k] = s] /\ path' = k /\ lock = k /\ lock' = lock
    BY <1>7 DEF Listen, Holding, NamesInv
  <2> HIDE DEF s
  <2> QED
    BY <2>1, <2>2, ServerMoves DEF Listening
<1>8. CASE StartFails(k) \/ Crash(k) \/ Exit(k)
  <2>1. /\ server' = [server EXCEPT ![k] = Off]
        /\ lock' = lock \/ (lock' = None /\ lock = k)
        /\ path' = path \/ lock = k \/ path = k
    BY <1>8, <1>2 DEF StartFails, Crash, Exit, names, Holding, NamesInv
  <2> QED
    BY <2>1, OffShape, ServerMoves DEF Holding
<1>9. CASE Serve(k)
  <2> DEFINE s == [S EXCEPT !.pc = "serving", !.acceptor = "accept", !.wg = 1]
  <2>1. s \in ServerShape /\ s.pc = "serving" /\ s.listening = S.listening
    <3> DEFINE s1 == [S EXCEPT !.pc = "serving"]
               s2 == [s1 EXCEPT !.acceptor = "accept"]
    <3>1. s1 \in ServerShape /\ s1.pc = "serving" /\ s1.listening = S.listening
      BY <1>1 DEF ServerShape
    <3>2. s = [s2 EXCEPT !.wg = 1]
      OBVIOUS
    <3> HIDE DEF s1
    <3>3. Alike(s1, s1)
      BY <3>1 DEF Alike
    <3>4. Alike(s2, s1)
      BY <3>1, <3>3, FieldsAlike, AcceptorKinds
    <3> HIDE DEF s2
    <3>5. Alike(s, s1)
      <4>1. 1 \in Int
        OBVIOUS
      <4> QED
        BY <3>1, <3>2, <3>4, <4>1, FieldsAlike
    <3> QED
      BY <3>1, <3>5 DEF Alike
  <2>2. /\ server' = [server EXCEPT ![k] = s]
        /\ S.pc = "bound" /\ lock = k /\ UNCHANGED names
    BY <1>9 DEF Serve, Holding, NamesInv
  <2> HIDE DEF s
  <2> QED
    BY <1>2, <2>1, <2>2, ServerMoves DEF Listening, names
<1>10. CASE Quit(k)
  <2> DEFINE s == [S EXCEPT !.pc = "quit", !.quit = TRUE]
  <2>1. s \in ServerShape /\ s.pc = "quit" /\ s.listening = S.listening
    BY <1>1 DEF ServerShape
  <2>2. /\ server' = [server EXCEPT ![k] = s]
        /\ S.pc = "serving" /\ lock = k /\ UNCHANGED names
    BY <1>10 DEF Quit, Holding, NamesInv
  <2> HIDE DEF s
  <2> QED
    BY <1>2, <2>1, <2>2, ServerMoves DEF Listening, names
<1>11. CASE Snapshot(k)
  <2> DEFINE s == [S EXCEPT !.pc = "snapped", !.snapshot = S.conns]
  <2>1. s \in ServerShape /\ s.pc = "snapped" /\ s.listening = S.listening
    BY <1>1 DEF ServerShape
  <2>2. /\ server' = [server EXCEPT ![k] = s]
        /\ S.pc = "quit" /\ lock = k /\ UNCHANGED names
    BY <1>11 DEF Snapshot, Holding, NamesInv
  <2> HIDE DEF s
  <2> QED
    BY <1>2, <2>1, <2>2, ServerMoves DEF Listening, names
<1>12. CASE CloseAll(k)
  <2> DEFINE s == [S EXCEPT !.pc = "closed", !.listening = FALSE, !.snapshot = {}]
  <2>1. s \in ServerShape /\ s.pc = "closed" /\ ~s.listening
    BY <1>1 DEF ServerShape
  <2>2. server' = [server EXCEPT ![k] = s] /\ lock = k /\ lock' = lock
    BY <1>12 DEF CloseAll, Holding, NamesInv
  <2> HIDE DEF s
  <2> QED
    BY <2>1, <2>2, ServerMoves
<1>13. CASE Drained(k) \/ Abandoned(k)
  <2>1. /\ server' = [server EXCEPT ![k] = [S EXCEPT !.pc = "exit"]]
        /\ ~S.listening /\ lock = k /\ lock' = None /\ path' = path
    BY <1>2, <1>13 DEF Drained, Abandoned, ReleaseLock, Listening, Holding, NamesInv
  <2> QED
    BY <1>3, <2>1, ServerMoves DEF Holding
<1> QED
  BY <1>4, <1>5, <1>6, <1>7, <1>8, <1>9, <1>10, <1>11, <1>12, <1>13 DEF Process

\* Acceptors and goroutines change neither the names nor the phase of Stop.
LEMMA OthersKeepNames ==
    ASSUME NamesInv, UNCHANGED names,
           \/ UNCHANGED server
           \/ \E k \in Kernel, s \in ServerShape :
                 /\ server' = [server EXCEPT ![k] = s]
                 /\ s.pc = server[k].pc /\ s.listening = server[k].listening
    PROVE  NamesInv'
BY ServerStays DEF NamesInv, ShapeOK, names

\* A record of the server with the fields an acceptor or a goroutine moves.
LEMMA AcceptorKeepsNames ==
    ASSUME NamesInv, NEW k \in Kernel, Acceptor(k)
    PROVE  NamesInv'
<1> DEFINE S == server[k]
           Moves(s) == server' = [server EXCEPT ![k] = s]
<1>1. S \in ServerShape /\ Alike(S, S) /\ UNCHANGED names
  BY DEF NamesInv, ShapeOK, Alike, Acceptor, Accept, Admit, AcceptFails,
         AcceptorEnds, BackoffEnds
<1> SUFFICES \E s : Alike(s, S) /\ Moves(s)
  BY <1>1, OthersKeepNames DEF Alike
<1>2. ASSUME NEW c \in Conn, NEW u \in UID, Accept(k, c, u)
      PROVE  \E s : Alike(s, S) /\ Moves(s)
  <2> DEFINE s1 == [S EXCEPT !.acceptor = c]
  <2>1. Alike(s1, S)
    BY <1>1, FieldsAlike, AcceptorKinds
  <2>2. Moves([s1 EXCEPT !.failures = 0]) \/ Moves([S EXCEPT !.failures = 0])
    BY <1>2 DEF Accept
  <2>3. 0 \in Int
    OBVIOUS
  <2> HIDE DEF s1
  <2>4. Alike([s1 EXCEPT !.failures = 0], S) /\ Alike([S EXCEPT !.failures = 0], S)
    BY <1>1, <2>1, <2>3, FieldsAlike
  <2> QED
    BY <2>2, <2>4
<1>3. ASSUME NEW c \in Conn, Admit(k, c)
      PROVE  \E s : Alike(s, S) /\ Moves(s)
  <2> DEFINE s1 == [S EXCEPT !.acceptor = "accept"]
  <2>1. Alike(s1, S)
    BY <1>1, FieldsAlike, AcceptorKinds
  <2>2. Moves(s1) \/ Moves(Taken(S, c, conn[c].uid))
    BY <1>3 DEF Admit
  <2> QED
    BY <1>1, <2>1, <2>2, SlotShape
<1>4. ASSUME AcceptFails(k) \/ BackoffEnds(k)
      PROVE  \E s : Alike(s, S) /\ Moves(s)
  <2> DEFINE none == [S EXCEPT !.acceptor = "none"]
             back == [S EXCEPT !.acceptor = "backoff"]
             again == [S EXCEPT !.acceptor = "accept"]
             left == [none EXCEPT !.wg = S.wg - 1]
  <2>1. Alike(none, S) /\ Alike(back, S) /\ Alike(again, S)
    BY <1>1, FieldsAlike, AcceptorKinds
  <2>2. /\ S.wg - 1 \in Int /\ S.failures + 1 \in Int
        /\ S.failures \in Int /\ AcceptFailureLimit \in Int
    BY <1>1, FieldsShape, ServerAssumption
  <2>3. \/ \E f \in {S.failures, AcceptFailureLimit} :
              Moves([left EXCEPT !.failures = f])
        \/ Moves([back EXCEPT !.failures = S.failures + 1])
        \/ Moves(again)
    BY <1>4 DEF AcceptFails, BackoffEnds, AcceptorEnds
  <2> HIDE DEF none, back, again
  <2>4. Alike(left, S) /\ Alike([back EXCEPT !.failures = S.failures + 1], S)
    BY <1>1, <2>1, <2>2, FieldsAlike
  <2> HIDE DEF left
  <2>5. \A f \in {S.failures, AcceptFailureLimit} :
            Alike([left EXCEPT !.failures = f], S)
    BY <1>1, <2>2, <2>4, FieldsAlike
  <2> HIDE DEF Moves
  <2> QED
    BY <2>1, <2>3, <2>4, <2>5
<1> QED
  BY <1>2, <1>3, <1>4 DEF Acceptor

LEMMA ConnKeepsNames ==
    ASSUME NamesInv, NEW c \in Conn, Deliver(c) \/ WriterStep(c) \/ ServeStep(c)
    PROVE  NamesInv'
<1> DEFINE k == conn[c].kernel
<1>1. UNCHANGED names
  BY DEF Deliver, WriterStep, ServeStep, Turn, WriterPops, WriterWakes, Written,
         WriteFails, WriterDrained, WriterEnds, StartServe, CheckQuit, ReadFails,
         FrameArrives, CheckFrame, HandleHandshake, HandleReady, Teardown, Release
<1>2. \/ UNCHANGED server
      \/ server' = [server EXCEPT ![k].wg = @ + 1]
      \/ server' = [server EXCEPT ![k].wg = @ - 1]
      \/ server' = [server EXCEPT ![k] = Returned(@, c, conn[c].uid)]
  <2>1. CASE WriteFails(c) \/ WriterDrained(c)
    <3>1. [Shut(conn[c]) EXCEPT !.open = FALSE].kernel = k
      BY DEF Shut
    <3> QED
      BY <2>1, <3>1 DEF WriteFails, WriterDrained, WriterEnds
  <2>2. CASE Deliver(c) \/ ServeStep(c) \/ WriterPops(c) \/ WriterWakes(c) \/ Written(c)
    BY <2>2 DEF Deliver, ServeStep, Turn, WriterPops, WriterWakes, Written,
         StartServe, CheckQuit, ReadFails, FrameArrives, CheckFrame,
         HandleHandshake, HandleReady, Teardown, Release
  <2> QED
    BY <2>1, <2>2 DEF WriterStep
<1>3. CASE k \in Kernel
  <2> DEFINE S == server[k]
  <2>1. S \in ServerShape /\ Alike(S, S) /\ S.wg + 1 \in Int /\ S.wg - 1 \in Int
    BY <1>3, FieldsShape DEF NamesInv, ShapeOK, Alike
  <2>2. /\ Alike([S EXCEPT !.wg = S.wg + 1], S)
        /\ Alike([S EXCEPT !.wg = S.wg - 1], S)
        /\ Alike(Returned(S, c, conn[c].uid), S)
    BY <2>1, FieldsAlike, SlotShape
  <2> QED
    BY <1>1, <1>2, <1>3, <2>2, OthersKeepNames DEF Alike
<1>4. CASE k \notin Kernel
  <2>1. UNCHANGED server
    BY <1>2, <1>4 DEF NamesInv, ShapeOK
  <2> QED
    BY <1>1, <2>1, OthersKeepNames
<1> QED
  BY <1>3, <1>4

LEMMA NamesKept == Spec => []NamesInv
<1>1. Init => NamesInv
  BY OffShape DEF Init, NamesInv, ShapeOK, Holding
<1>2. NamesInv /\ [Next]_vars => NamesInv'
  <2> SUFFICES ASSUME NamesInv, [Next]_vars
               PROVE  NamesInv'
    OBVIOUS
  <2>1. CASE Environment \/ UNCHANGED vars
    <3>1. UNCHANGED <<names, server>>
      BY <2>1 DEF Environment, Commit, Uninstall, vars, names
    <3> QED
      BY <3>1, OthersKeepNames
  <2> QED
    BY <2>1, ProcessKeepsNames, AcceptorKeepsNames, ConnKeepsNames DEF Next
<1> QED
  BY <1>1, <1>2, PTL DEF Spec

\* A listener is never unlinked: the lock is held from before the first look
\* at the file until after the listener has closed (Start and Stop, ipc.go).
THEOREM ListenerKeepsItsName == Spec => []OneListener
BY NamesKept, NamesGive, PTL

----------------------------------------------------------------------------
(* The sender of a frame.                                                  *)

ConnShape == [
    kernel : Kernel, uid : UID,
    pc : {"resolved", "admitted", "loop", "read", "frame", "handle",
          "teardown", "drain"},
    open : BOOLEAN, caller : Int, ready : BOOLEAN, items : Int,
    shut : BOOLEAN, wake : BOOLEAN,
    writer : {"none", "run", "sleep", "write", "done"}, readAs : BOOLEAN]

\* Generations are never given twice, so one that was replaced before the
\* frame came in is not the owner's when the frame is checked either.
Sound(co) ==
    /\ co \in ConnShape
    /\ co.caller >= 1 /\ co.caller <= lastGeneration
    /\ co.pc = "frame" /\ ~co.readAs => owner[co.uid] # co.caller
    /\ co.pc = "handle" => co.readAs

SenderInv ==
    /\ lastGeneration \in Nat
    /\ owner \in [UID -> Int]
    /\ \A u \in UID : owner[u] >= 0 /\ owner[u] <= lastGeneration
    /\ DOMAIN conn = Conn
    /\ \A c \in Conn : conn[c] # NoConn => Sound(conn[c])

LEMMA SenderGives == SenderInv => RevokedIsNotServed
BY DEF SenderInv, RevokedIsNotServed, Live, Sound

\* One connection moves, and the registry does not.
LEMMA ConnMoves ==
    ASSUME SenderInv, NEW c \in Conn, NEW co, UNCHANGED environment,
           conn' = [conn EXCEPT ![c] = co], co = NoConn \/ Sound(co)
    PROVE  SenderInv'
BY DEF SenderInv, Sound, environment

LEMMA ConnsGo ==
    ASSUME SenderInv, NEW C, UNCHANGED environment, conn' = Gone(C)
    PROVE  SenderInv'
BY DEF SenderInv, Sound, environment, Gone

\* co is x moved to a place where no frame is in hand.
Kin(co, x) ==
    /\ co \in ConnShape
    /\ co.caller = x.caller /\ co.uid = x.uid
    /\ co.pc = x.pc /\ co.readAs = x.readAs

LEMMA OutboxKin ==
    ASSUME NEW x \in ConnShape
    PROVE  /\ Kin(x, x) /\ Kin(Shut(x), x) /\ Kin(Enqueue(x), x)
           /\ Kin([x EXCEPT !.open = FALSE], x)
           /\ Kin([Shut(x) EXCEPT !.open = FALSE], x)
           /\ \A w \in {"run", "sleep", "write", "done"} :
                 Kin([x EXCEPT !.writer = w], x)
<1>1. Kin(x, x)
  BY DEF Kin
<1>2. Kin(Shut(x), x)
  BY DEF Kin, Shut, ConnShape
<1>3. Kin([Shut(x) EXCEPT !.open = FALSE], x)
  BY <1>2 DEF Kin, ConnShape
<1>4. Kin([x EXCEPT !.items = x.items + 1, !.wake = TRUE], x)
  <2> DEFINE y == [x EXCEPT !.items = x.items + 1]
  <2>1. Kin(y, x)
    BY DEF Kin, ConnShape
  <2> HIDE DEF y
  <2>2. Kin([y EXCEPT !.wake = TRUE], x)
    BY <2>1 DEF Kin, ConnShape
  <2> QED
    BY <2>2 DEF y
<1>5. Kin(Enqueue(x), x)
  BY <1>3, <1>4 DEF Enqueue
<1>6. Kin([x EXCEPT !.open = FALSE], x)
  BY DEF Kin, ConnShape
<1>7. \A w \in {"run", "sleep", "write", "done"} : Kin([x EXCEPT !.writer = w], x)
  BY DEF Kin, ConnShape
<1> QED
  BY <1>1, <1>2, <1>3, <1>5, <1>6, <1>7

LEMMA KinSound ==
    ASSUME NEW x, Sound(x), NEW co, Kin(co, x)
    PROVE  Sound(co)
BY DEF Kin, Sound

LEMMA MovedSound ==
    ASSUME NEW x, Sound(x), NEW co, Kin(co, x),
           NEW pc \in {"admitted", "loop", "read", "teardown", "drain"}
    PROVE  Sound([co EXCEPT !.pc = pc])
BY DEF Kin, Sound, ConnShape

\* The steps of the writer and of the goroutines that only queue.
LEMMA WriterKeepsSender ==
    ASSUME SenderInv, NEW c \in Conn, Deliver(c) \/ WriterStep(c)
    PROVE  SenderInv'
<1> DEFINE x == conn[c]
<1>1. x # NoConn /\ Sound(x) /\ x \in ConnShape /\ UNCHANGED environment
  BY DEF SenderInv, Sound, environment, Deliver, WriterStep, Turn, WriterPops,
         WriterWakes, Written, WriteFails, WriterDrained, WriterEnds
<1> SUFFICES \E co : Kin(co, x) /\ conn' = [conn EXCEPT ![c] = co]
  BY <1>1, KinSound, ConnMoves
<1>2. CASE Deliver(c)
  BY <1>1, <1>2, OutboxKin DEF Deliver, Turn
<1>3. CASE WriterPops(c)
  <2>1. Kin([x EXCEPT !.items = x.items - 1, !.writer = "write"], x)
    <3> DEFINE y == [x EXCEPT !.items = x.items - 1]
    <3>1. Kin(y, x)
      BY <1>1 DEF Kin, ConnShape
    <3> HIDE DEF y
    <3>2. Kin([y EXCEPT !.writer = "write"], x)
      BY <3>1 DEF Kin, ConnShape
    <3> QED
      BY <3>2 DEF y
  <2>2. Kin([x EXCEPT !.writer = "sleep"], x)
    BY <1>1, OutboxKin
  <2> QED
    BY <1>3, <2>1, <2>2 DEF WriterPops, Turn
<1>4. CASE WriterWakes(c)
  <2>1. Kin([x EXCEPT !.writer = "run", !.wake = FALSE], x)
    BY <1>1 DEF Kin, ConnShape
  <2> QED
    BY <1>4, <2>1 DEF WriterWakes, Turn
<1>5. CASE Written(c)
  BY <1>1, <1>5, OutboxKin DEF Written, Turn
<1>6. CASE WriteFails(c)
  <2> DEFINE y == [Shut(x) EXCEPT !.open = FALSE]
  <2>1. Kin(y, x) /\ y \in ConnShape
    BY <1>1, OutboxKin DEF Kin
  <2>2. conn' = [conn EXCEPT ![c] = [y EXCEPT !.writer = "done"]]
    BY <1>6 DEF WriteFails, WriterEnds
  <2> HIDE DEF y
  <2>3. Kin([y EXCEPT !.writer = "done"], x)
    BY <2>1 DEF Kin, ConnShape
  <2> QED
    BY <2>2, <2>3
<1>7. CASE WriterDrained(c)
  BY <1>1, <1>7, OutboxKin DEF WriterDrained, WriterEnds
<1> QED
  BY <1>2, <1>3, <1>4, <1>5, <1>6, <1>7 DEF WriterStep

LEMMA ServeKeepsSender ==
    ASSUME SenderInv, NEW c \in Conn, ServeStep(c)
    PROVE  SenderInv'
<1> DEFINE x == conn[c]
           Moves(co) == conn' = [conn EXCEPT ![c] = co]
<1>1. x # NoConn /\ Sound(x) /\ x \in ConnShape /\ UNCHANGED environment
  BY DEF SenderInv, Sound, environment, ServeStep, At, Turn, StartServe, CheckQuit,
         ReadFails, FrameArrives, CheckFrame, HandleHandshake, HandleReady,
         Teardown, Release
<1>2. ASSUME NEW co, Kin(co, x),
             NEW pc \in {"admitted", "loop", "read", "teardown", "drain"},
             Moves([co EXCEPT !.pc = pc])
      PROVE  SenderInv'
  BY <1>1, <1>2, MovedSound, ConnMoves
<1>3. Kin(x, x) /\ Kin(Shut(x), x) /\ Kin(Enqueue(x), x)
  BY <1>1, OutboxKin
<1>4. CASE StartServe(c)
  <2> DEFINE y == [x EXCEPT !.writer = "run"]
  <2>1. Kin(y, x)
    BY <1>1, OutboxKin
  <2>2. Moves([y EXCEPT !.pc = "loop"])
    BY <1>4 DEF StartServe
  <2> HIDE DEF y, Moves
  <2> QED
    BY <1>2, <2>1, <2>2
<1>5. CASE CheckQuit(c) \/ ReadFails(c)
  BY <1>2, <1>3, <1>5 DEF CheckQuit, ReadFails, Turn
<1>6. CASE FrameArrives(c)
  <2> DEFINE b == owner[x.uid] = x.caller
             co == [x EXCEPT !.pc = "frame", !.readAs = b]
  <2>1. b \in BOOLEAN
    OBVIOUS
  <2>2. co \in ConnShape /\ co.caller = x.caller /\ co.uid = x.uid
        /\ co.pc = "frame" /\ co.readAs = b
    <3> HIDE DEF b
    <3> QED
      BY <1>1, <2>1 DEF ConnShape
  <2>3. Moves(co)
    BY <1>6 DEF FrameArrives, Turn
  <2> HIDE DEF co
  <2>4. Sound(co)
    BY <1>1, <2>2 DEF Sound
  <2> QED
    BY <1>1, <2>3, <2>4, ConnMoves
<1>7. CASE CheckFrame(c)
  <2>1. CASE Moves([x EXCEPT !.pc = "teardown"])
    BY <1>2, <1>3, <2>1
  <2>2. CASE IdentityStillValid(x) /\ Moves([x EXCEPT !.pc = "handle"])
    <3>1. x.pc = "frame" /\ x.readAs
      BY <1>1, <1>7, <2>2 DEF CheckFrame, At, Sound, IdentityStillValid, ConnShape
    <3>2. Sound([x EXCEPT !.pc = "handle"])
      BY <1>1, <3>1 DEF Sound, ConnShape
    <3> QED
      BY <1>1, <2>2, <3>2, ConnMoves
  <2> QED
    BY <1>7, <2>1, <2>2 DEF CheckFrame, Turn
<1>8. CASE HandleHandshake(c)
  <2> DEFINE y == [Enqueue(x) EXCEPT !.ready = TRUE]
  <2>1. Kin(y, x)
    BY <1>3 DEF Kin, ConnShape
  <2>2. \/ Moves([x EXCEPT !.pc = "teardown"])
        \/ Moves([Enqueue(x) EXCEPT !.pc = "teardown"])
        \/ Moves([y EXCEPT !.pc = "loop"])
    BY <1>8 DEF HandleHandshake, Failed, Turn
  <2> HIDE DEF y, Moves
  <2> QED
    BY <1>2, <1>3, <2>1, <2>2
<1>9. CASE HandleReady(c) \/ Teardown(c)
  <2>1. \/ Moves([x EXCEPT !.pc = "loop"])
        \/ Moves([x EXCEPT !.pc = "teardown"])
        \/ Moves([Enqueue(x) EXCEPT !.pc = "loop"])
        \/ Moves([Shut(x) EXCEPT !.pc = "drain"])
    BY <1>9 DEF HandleReady, Teardown, Turn
  <2> HIDE DEF Moves
  <2> QED
    BY <1>2, <1>3, <2>1
<1>10. CASE Release(c)
  BY <1>1, <1>10, ConnsGo DEF Release
<1> QED
  BY <1>4, <1>5, <1>6, <1>7, <1>8, <1>9, <1>10 DEF ServeStep

LEMMA AcceptorKeepsSender ==
    ASSUME SenderInv, NEW k \in Kernel, Acceptor(k)
    PROVE  SenderInv'
<1>1. ASSUME NEW c \in Conn, NEW u \in UID, Accept(k, c, u)
      PROVE  SenderInv'
  <2>1. CASE u \in AppUID /\ owner[u] # 0
    <3>1. Accepted(k, u) \in ConnShape
      BY DEF Accepted, ConnShape, SenderInv
    <3>2. Sound(Accepted(k, u))
      BY <2>1, <3>1 DEF Accepted, Sound, SenderInv
    <3> QED
      BY <1>1, <2>1, <3>2, ConnMoves DEF Accept
  <2>2. CASE ~(u \in AppUID /\ owner[u] # 0)
    BY <1>1, <2>2 DEF Accept, SenderInv, Sound, environment
  <2> QED
    BY <2>1, <2>2
<1>2. ASSUME NEW c \in Conn, Admit(k, c)
      PROVE  SenderInv'
  <2>1. CASE ~WithinLimits(k, conn[c].uid)
    BY <1>2, <2>1, ConnsGo DEF Admit
  <2>2. CASE WithinLimits(k, conn[c].uid)
    <3>1. /\ conn' = [conn EXCEPT ![c] = [conn[c] EXCEPT !.pc = "admitted"]]
          /\ UNCHANGED environment
      BY <1>2, <2>2 DEF Admit
    <3>2. conn[c] # NoConn
      BY <1>2 DEF Admit, At
    <3> QED
      BY <3>1, <3>2, MovedSound, OutboxKin, ConnMoves DEF SenderInv, Sound
  <2> QED
    BY <2>1, <2>2
<1>3. CASE AcceptFails(k) \/ BackoffEnds(k)
  BY <1>3 DEF AcceptFails, BackoffEnds, SenderInv, Sound, environment
<1> QED
  BY <1>1, <1>2, <1>3 DEF Acceptor

LEMMA ProcessKeepsSender ==
    ASSUME SenderInv, NEW k \in Kernel, Process(k)
    PROVE  SenderInv'
<1>1. UNCHANGED environment
  BY DEF Process, Launch, AcquireSingletonLock, ClearStaleSocket, Listen, StartFails,
         Serve, Crash, Quit, Snapshot, CloseAll, Drained, Abandoned, ReleaseLock, Exit
<1>2. CASE conn' = Gone(Of(k)) \/ UNCHANGED conn
  BY <1>1, <1>2, ConnsGo DEF SenderInv, Sound, environment
<1>3. CASE CloseAll(k)
  <2>1. \A c \in Conn : conn[c] # NoConn => Sound([conn[c] EXCEPT !.open = FALSE])
    BY OutboxKin, KinSound DEF SenderInv, Sound
  <2>2. [NoConn EXCEPT !.open = FALSE] = NoConn
    BY DEF NoConn
  <2>3. \A c \in Conn : conn'[c] \in {conn[c], [conn[c] EXCEPT !.open = FALSE]}
    BY <1>3 DEF CloseAll
  <2>4. DOMAIN conn' = Conn
    BY <1>3 DEF CloseAll
  <2>5. \A c \in Conn : conn'[c] # NoConn => Sound(conn'[c])
    BY <2>1, <2>2, <2>3 DEF SenderInv
  <2> QED
    BY <1>1, <2>4, <2>5 DEF SenderInv, Sound, environment
<1> QED
  BY <1>2, <1>3
     DEF Process, Launch, AcquireSingletonLock, ClearStaleSocket, Listen, StartFails,
         Serve, Crash, Quit, Snapshot, Drained, Abandoned, ReleaseLock, Exit

LEMMA SenderKept == Spec => []SenderInv
<1>1. Init => SenderInv
  BY DEF Init, SenderInv
<1>2. SenderInv /\ [Next]_vars => SenderInv'
  <2> SUFFICES ASSUME SenderInv, [Next]_vars
               PROVE  SenderInv'
    OBVIOUS
  <2>1. ASSUME NEW u \in UID, Commit(u) \/ Uninstall(u)
        PROVE  SenderInv'
    <3>1. /\ lastGeneration' \in Nat /\ lastGeneration' >= lastGeneration
          /\ owner'[u] = 0 \/ owner'[u] = lastGeneration + 1
          /\ owner'[u] >= 0 /\ owner'[u] <= lastGeneration'
          /\ owner' \in [UID -> Int]
          /\ \A v \in UID \ {u} : owner'[v] = owner[v]
          /\ UNCHANGED conn
      BY <2>1 DEF Commit, Uninstall, SenderInv
    <3>2. \A c \in Conn : conn[c] # NoConn => Sound(conn[c])'
      BY <3>1 DEF SenderInv, Sound, ConnShape
    <3> QED
      BY <3>1, <3>2 DEF SenderInv
  <2>2. CASE UNCHANGED vars
    BY <2>2 DEF SenderInv, Sound, vars
  <2> QED
    BY <2>1, <2>2, ProcessKeepsSender, AcceptorKeepsSender, WriterKeepsSender,
       ServeKeepsSender DEF Next, Environment
<1> QED
  BY <1>1, <1>2, PTL DEF Spec

\* serve checks a frame's sender after it has come in (ipc.go:870): what came
\* from a package already replaced is dropped, whatever is committed meanwhile.
THEOREM StaleFramesDropped == Spec => []RevokedIsNotServed
BY SenderKept, SenderGives, PTL

----------------------------------------------------------------------------
(* Whom Stop waits for.                                                    *)

Running(x) == x.writer \in {"run", "sleep", "write"}
Writing(k) == {c \in Of(k) : Running(conn[c])}

\* No frame was ever taken from it, and nothing queued for it: what a
\* connection is that was admitted after the snapshot.
Untouched(x) ==
    /\ x.pc \in {"resolved", "admitted", "loop", "teardown", "drain"}
    /\ ~x.ready /\ x.items = 0 /\ x.writer # "write"

\* A writer sleeps only on an outbox that has nothing for it.
ConnOK(x) ==
    /\ x.writer = "sleep" /\ (x.shut \/ x.items > 0) => x.wake
    /\ x.pc \in {"resolved", "admitted"} => Untouched(x) /\ x.writer = "none"

Bit(b) == IF b THEN 1 ELSE 0

\* wg is the acceptor, the slots and the writers: each is one goroutine.
Counted(k) ==
    /\ IsFiniteSet(server[k].conns) /\ IsFiniteSet(Writing(k))
    /\ server[k].wg = Bit(server[k].acceptor # "none")
                        + Cardinality(server[k].conns) + Cardinality(Writing(k))

\* A connection has a slot, or is the one the acceptor has in hand.
Slotted(k) ==
    /\ server[k].conns = {c \in Of(k) : conn[c].pc # "resolved"}
    /\ \A c \in Conn :
          server[k].acceptor = c <=> c \in Of(k) /\ conn[c].pc = "resolved"

Staged(k) ==
    /\ server[k].pc \in {"off", "start", "locked", "cleared", "bound"} =>
          server[k].acceptor = "none" /\ Of(k) = {}
    /\ server[k].pc \in {"quit", "snapped", "closed", "exit"} => server[k].quit

\* What Stop has not closed, it will, or it has nothing to wait for.
Closing(k) ==
    /\ server[k].snapshot \subseteq server[k].conns
    /\ server[k].pc # "snapped" => server[k].snapshot = {}
    /\ server[k].pc \in {"snapped", "closed"} =>
          \A c \in Of(k) :
             c \in server[k].snapshot \/ ~conn[c].open \/ Untouched(conn[c])

KernelOK(k) == Counted(k) /\ Slotted(k) /\ Staged(k) /\ Closing(k)

StopInv ==
    /\ \A c \in Live : ConnOK(conn[c])
    /\ \A k \in Kernel : KernelOK(k)

\* What the two invariants above say of the types.
Typed ==
    /\ ShapeOK
    /\ DOMAIN conn = Conn
    /\ \A c \in Live : conn[c] \in ConnShape

LEMMA InvariantsType == NamesInv /\ SenderInv => Typed
BY DEF NamesInv, SenderInv, Sound, Typed, Live

\* A Stop that has closed the listener, and whose wait ends, has left nothing.
LEMMA StopGives ==
    ASSUME NamesInv, Typed, StopInv
    PROVE  StopWaitsForNoPeer
<1>1. ASSUME NEW k \in Kernel, server[k].pc = "closed"
      PROVE  /\ ~server[k].listening
             /\ \A c \in Of(k) :
                   /\ conn[c].open => conn[c].pc # "read" /\ conn[c].writer # "write"
                   /\ conn[c].writer = "sleep" /\ (conn[c].shut \/ conn[c].items > 0)
                         => conn[c].wake
  <2>1. ~server[k].listening
    BY <1>1 DEF NamesInv, Listening
  <2>2. ASSUME NEW c \in Of(k)
        PROVE  ConnOK(conn[c]) /\ (~conn[c].open \/ Untouched(conn[c]))
    <3>1. c \in Live
      BY <2>2 DEF Of
    <3> QED
      BY <1>1, <2>2, <3>1 DEF StopInv, KernelOK, Closing
  <2> QED
    BY <2>1, <2>2 DEF ConnOK, Untouched
<1>2. ASSUME NEW k \in Kernel, server[k].pc \in {"closed", "exit"}, server[k].wg = 0
      PROVE  Quiet(k)
  <2>1. /\ IsFiniteSet(server[k].conns) /\ IsFiniteSet(Writing(k))
        /\ 0 = Bit(server[k].acceptor # "none")
                 + Cardinality(server[k].conns) + Cardinality(Writing(k))
    BY <1>2 DEF StopInv, KernelOK, Counted
  <2>2. Cardinality(server[k].conns) \in Nat /\ Cardinality(Writing(k)) \in Nat
    BY <2>1, FS_CardinalityType
  <2>3. server[k].acceptor = "none" /\ Cardinality(server[k].conns) = 0
    <3> DEFINE b == server[k].acceptor # "none"
               m == Cardinality(server[k].conns)
               n == Cardinality(Writing(k))
    <3>1. b \in BOOLEAN /\ m \in Nat /\ n \in Nat /\ 0 = Bit(b) + m + n
      BY <2>1, <2>2
    <3> HIDE DEF b, m, n
    <3>2. ~b /\ m = 0
      BY <3>1 DEF Bit
    <3> QED
      BY <3>2 DEF b, m
  <2>4. server[k].conns = {}
    BY <2>1, <2>3, FS_EmptySet
  <2>5. \A c \in Conn : server[k].acceptor # c
    BY <2>3, ServerAssumption
  <2>6. Of(k) = {}
    BY <2>4, <2>5 DEF StopInv, KernelOK, Slotted, Of, Live
  <2> QED
    BY <2>3, <2>4, <2>6 DEF Quiet
<1> QED
  BY <1>1, <1>2 DEF StopWaitsForNoPeer, DrainedIsQuiet

LEMMA NoConnShape == NoConn \notin ConnShape
<1>1. DOMAIN NoConn = {"pc"}
  BY DEF NoConn
<1>2. \A x \in ConnShape : "kernel" \in DOMAIN x
  BY DEF ConnShape
<1> QED
  BY <1>1, <1>2

\* A process that neither moves nor sees one of its connections move.
LEMMA OtherKernel ==
    ASSUME NEW k \in Kernel, KernelOK(k), server'[k] = server[k],
           Of(k)' = Of(k), \A c \in Of(k) : conn'[c] = conn[c]
    PROVE  KernelOK(k)'
<1>1. Writing(k)' = Writing(k)
  BY DEF Writing
<1>2. \A c \in Of(k) : Untouched(conn[c])' = Untouched(conn[c])
  BY DEF Untouched
<1>3. Counted(k)'
  BY <1>1 DEF KernelOK, Counted
<1>4. Slotted(k)' /\ Staged(k)'
  BY DEF KernelOK, Slotted, Staged
<1>5. Closing(k)'
  BY <1>2 DEF KernelOK, Closing
<1> QED
  BY <1>3, <1>4, <1>5 DEF KernelOK

\* One connection moves and stays where it belongs.
LEMMA OneConn ==
    ASSUME Typed, NEW c \in Live, NEW y \in ConnShape,
           conn' = [conn EXCEPT ![c] = y], y.kernel = conn[c].kernel
    PROVE  /\ conn'[c] = y /\ Live' = Live
           /\ \A d \in Conn \ {c} : conn'[d] = conn[d]
           /\ \A k \in Kernel : Of(k)' = Of(k)
           /\ c \in Of(y.kernel)
           /\ \A k \in Kernel \ {y.kernel} : c \notin Of(k)
<1>1. conn'[c] = y /\ \A d \in Conn \ {c} : conn'[d] = conn[d]
  BY DEF Typed, Live
<1>2. Live' = Live
  BY <1>1, NoConnShape DEF Live
<1>3. \A k \in Kernel : Of(k)' = Of(k)
  BY <1>1, <1>2 DEF Of, Live
<1> QED
  BY <1>1, <1>2, <1>3 DEF Of

\* y is x after a step of a goroutine that neither starts nor ends one.
Follows(y, x) ==
    /\ y \in ConnShape /\ y.kernel = x.kernel
    /\ Running(y) <=> Running(x)
    /\ y.pc = "resolved" <=> x.pc = "resolved"
    /\ y.open => x.open

LEMMA ConnTurns ==
    ASSUME Typed, StopInv, NEW c \in Live, NEW y, Follows(y, conn[c]), ConnOK(y),
           server[conn[c].kernel].quit /\ Untouched(conn[c]) => Untouched(y),
           Turn(c, y)
    PROVE  StopInv'
<1> DEFINE x == conn[c]
<1>0. PICK k \in Kernel : k = conn[c].kernel
  BY DEF Typed, ConnShape
<1>1. /\ x \in ConnShape /\ k = x.kernel /\ y \in ConnShape /\ y.kernel = k
      /\ conn' = [conn EXCEPT ![c] = y] /\ UNCHANGED server /\ c \in Conn
  BY <1>0 DEF Typed, Live, Turn, Follows
<1>2. /\ conn'[c] = y /\ Live' = Live
      /\ \A d \in Conn \ {c} : conn'[d] = conn[d]
      /\ \A j \in Kernel : Of(j)' = Of(j)
      /\ c \in Of(k) /\ \A j \in Kernel \ {k} : c \notin Of(j)
  BY <1>1, OneConn
<1>3. ASSUME NEW d \in Live'
      PROVE  ConnOK(conn[d])'
  <2>1. CASE d = c
    BY <1>2, <2>1 DEF ConnOK, Untouched
  <2>2. CASE d # c
    <3>1. d \in Live /\ conn'[d] = conn[d]
      BY <1>2, <1>3, <2>2 DEF Live
    <3>2. ConnOK(conn[d])
      BY <3>1 DEF StopInv
    <3> QED
      BY <3>1, <3>2 DEF ConnOK, Untouched
  <2> QED
    BY <2>1, <2>2
<1>4. ASSUME NEW j \in Kernel \ {k}
      PROVE  KernelOK(j)'
  <2>1. \A d \in Of(j) : d \in Conn \ {c}
    BY <1>2 DEF Of, Live
  <2> QED
    BY <1>1, <1>2, <2>1, OtherKernel DEF StopInv
<1>5. KernelOK(k)'
  <2>1. KernelOK(k) /\ Of(k)' = Of(k) /\ server'[k] = server[k]
    BY <1>1, <1>2 DEF StopInv
  <2>2. Writing(k)' = Writing(k)
    <3>1. \A d \in Of(k) : Running(conn[d])' <=> Running(conn[d])
      <4>1. ASSUME NEW d \in Of(k)
            PROVE  Running(conn[d])' <=> Running(conn[d])
        <5>1. CASE d = c
          BY <1>2, <5>1 DEF Follows, Running
        <5>2. CASE d # c
          BY <1>2, <4>1, <5>2 DEF Running, Of, Live
        <5> QED
          BY <5>1, <5>2
      <4> QED
        BY <4>1
    <3> QED
      BY <2>1, <3>1 DEF Writing
  <2>3. Counted(k)'
    BY <2>1, <2>2 DEF KernelOK, Counted
  <2>4. Slotted(k)'
    <3>1. \A d \in Of(k) : conn'[d].pc = "resolved" <=> conn[d].pc = "resolved"
      BY <1>2 DEF Follows, Of, Live
    <3> QED
      BY <2>1, <3>1 DEF KernelOK, Slotted
  <2>5. Staged(k)'
    BY <2>1 DEF KernelOK, Staged
  <2>6. Closing(k)'
    <3>1. ASSUME NEW d \in Of(k), server[k].pc \in {"snapped", "closed"}
          PROVE  (d \in server[k].snapshot \/ ~conn[d].open \/ Untouched(conn[d]))'
      <4>1. d \in server[k].snapshot \/ ~conn[d].open \/ Untouched(conn[d])
        BY <2>1, <3>1 DEF KernelOK, Closing
      <4>2. CASE d = c
        <5>1. server[k].quit
          BY <2>1, <3>1 DEF KernelOK, Staged
        <5>2. y.open => x.open
          BY DEF Follows
        <5>3. Untouched(x) => Untouched(y)
          BY <1>1, <5>1
        <5> QED
          BY <1>1, <1>2, <4>1, <4>2, <5>2, <5>3 DEF Untouched
      <4>3. CASE d # c
        BY <1>1, <1>2, <4>1, <4>3 DEF Untouched, Of, Live
      <4> QED
        BY <4>2, <4>3
    <3> QED
      BY <2>1, <3>1 DEF KernelOK, Closing
  <2> QED
    BY <2>3, <2>4, <2>5, <2>6 DEF KernelOK
<1> QED
  BY <1>3, <1>4, <1>5 DEF StopInv

\* What the outbox does to a connection, field by field.
Queued(y, x) ==
    /\ y \in ConnShape
    /\ y.kernel = x.kernel /\ y.pc = x.pc /\ y.ready = x.ready /\ y.writer = x.writer
    /\ y.open => x.open
    /\ y.wake \/ (y.shut = x.shut /\ y.items = x.items /\ y.wake = x.wake)

LEMMA OutboxFields ==
    ASSUME NEW x \in ConnShape
    PROVE  /\ Queued(x, x) /\ Queued(Shut(x), x) /\ Queued(Enqueue(x), x)
           /\ Shut(x).items = x.items
<1>1. /\ Shut(x) \in ConnShape /\ Enqueue(x) \in ConnShape
      /\ [Shut(x) EXCEPT !.open = FALSE] \in ConnShape
  BY OutboxKin DEF Kin
<1>2. Queued(x, x)
  BY DEF Queued
<1>3. Queued(Shut(x), x) /\ Shut(x).items = x.items
  <2> DEFINE y == Shut(x)
  <2>1. y = [x EXCEPT !.shut = TRUE, !.wake = IF x.shut THEN x.wake ELSE TRUE]
    BY DEF Shut
  <2> HIDE DEF y
  <2>2. /\ y.kernel = x.kernel /\ y.pc = x.pc /\ y.ready = x.ready
        /\ y.writer = x.writer /\ y.open = x.open /\ y.items = x.items
        /\ y.shut /\ y.wake = IF x.shut THEN x.wake ELSE TRUE
    BY <2>1 DEF ConnShape
  <2>3. x.shut \in BOOLEAN /\ x.wake \in BOOLEAN
    BY DEF ConnShape
  <2>4. Queued(y, x)
    BY <1>1, <2>2, <2>3 DEF Queued, y
  <2> QED
    BY <2>2, <2>4 DEF y
<1>4. Queued([Shut(x) EXCEPT !.open = FALSE], x)
  BY <1>1, <1>3 DEF Queued, ConnShape
<1>5. CASE Fits(x)
  <2> DEFINE y == Enqueue(x)
  <2>1. y = [x EXCEPT !.items = x.items + 1, !.wake = TRUE]
    BY <1>5 DEF Enqueue
  <2> HIDE DEF y
  <2>2. /\ y.kernel = x.kernel /\ y.pc = x.pc /\ y.ready = x.ready
        /\ y.writer = x.writer /\ y.open = x.open /\ y.wake
    BY <2>1 DEF ConnShape
  <2>3. Queued(y, x)
    BY <1>1, <2>2 DEF Queued, y
  <2> QED
    BY <1>2, <1>3, <2>3 DEF y
<1>6. CASE ~Fits(x)
  BY <1>2, <1>3, <1>4, <1>6 DEF Enqueue
<1> QED
  BY <1>5, <1>6, <1>2, <1>3

LEMMA QueuedIsSafe ==
    ASSUME NEW x \in ConnShape, ConnOK(x), NEW y, Queued(y, x),
           x.pc \notin {"resolved", "admitted"},
           NEW pc \in {x.pc, "loop", "read", "frame", "handle", "teardown", "drain"}
    PROVE  /\ Follows([y EXCEPT !.pc = pc], x) /\ ConnOK([y EXCEPT !.pc = pc])
           /\ Follows([y EXCEPT !.pc = pc, !.ready = TRUE], x)
           /\ ConnOK([y EXCEPT !.pc = pc, !.ready = TRUE])
<1> DEFINE z == [y EXCEPT !.pc = pc]
<1>1. z \in ConnShape /\ z.pc = pc /\ z.open = y.open /\ z.kernel = x.kernel
      /\ z.writer = x.writer /\ z.shut = y.shut /\ z.items = y.items
      /\ z.wake = y.wake
  BY DEF Queued, ConnShape
<1> HIDE DEF z
<1>2. Follows(z, x) /\ ConnOK(z)
  BY <1>1 DEF Follows, ConnOK, Queued, Running, ConnShape
<1>3. Follows([z EXCEPT !.ready = TRUE], x) /\ ConnOK([z EXCEPT !.ready = TRUE])
  <2> DEFINE r == [z EXCEPT !.ready = TRUE]
  <2>1. /\ r.kernel = z.kernel /\ r.pc = z.pc /\ r.open = z.open
        /\ r.writer = z.writer /\ r.shut = z.shut /\ r.items = z.items
        /\ r.wake = z.wake
    BY <1>1 DEF ConnShape
  <2>2. r \in ConnShape
    BY <1>1 DEF ConnShape
  <2> HIDE DEF r
  <2> QED
    BY <1>1, <1>2, <2>1, <2>2 DEF Follows, ConnOK, Running, r
<1> QED
  BY <1>2, <1>3 DEF z

\* A connection that was never read from.
LEMMA UntouchedStays ==
    ASSUME NEW x \in ConnShape, Untouched(x), NEW y \in ConnShape,
           y.ready = x.ready, y.items = x.items, y.writer # "write",
           y.pc \in {x.pc, "teardown", "drain"}
    PROVE  Untouched(y)
BY DEF Untouched

LEMMA WriterTurns ==
    ASSUME Typed, StopInv, NEW c \in Conn,
           Deliver(c) \/ WriterPops(c) \/ WriterWakes(c) \/ Written(c)
    PROVE  StopInv'
<1> DEFINE x == conn[c]
<1>1. x # NoConn /\ c \in Live /\ x \in ConnShape /\ ConnOK(x)
  BY DEF Deliver, WriterPops, WriterWakes, Written, Live, Typed, StopInv
<1>2. \/ Running(x) \/ Deliver(c)
  BY DEF WriterPops, WriterWakes, Written, Running
<1>3. CASE Deliver(c)
  <2>1. /\ x.pc \notin {"resolved", "admitted"} /\ ~Untouched(x)
        /\ Turn(c, Enqueue(x))
    BY <1>1, <1>3 DEF Deliver, ConnOK, Untouched
  <2>2. Queued(Enqueue(x), x)
    BY <1>1, OutboxFields
  <2>3. Follows(Enqueue(x), x) /\ ConnOK(Enqueue(x))
    BY <1>1, <2>1, <2>2 DEF Queued, Follows, ConnOK, Running
  <2> QED
    BY <1>1, <2>1, <2>3, ConnTurns
<1>4. ASSUME WriterPops(c) \/ WriterWakes(c) \/ Written(c)
      PROVE  x.pc \notin {"resolved", "admitted"}
  BY <1>1, <1>4 DEF WriterPops, WriterWakes, Written, ConnOK
<1>5. CASE x.items > 0 /\ x.writer = "run"
           /\ Turn(c, [x EXCEPT !.items = x.items - 1, !.writer = "write"])
  <2> DEFINE y == [x EXCEPT !.items = x.items - 1, !.writer = "write"]
  <2>1. y \in ConnShape /\ y.kernel = x.kernel /\ y.pc = x.pc /\ y.open = x.open
        /\ y.writer = "write"
    <3> DEFINE z == [x EXCEPT !.items = x.items - 1]
    <3>1. z \in ConnShape /\ z.kernel = x.kernel /\ z.pc = x.pc /\ z.open = x.open
      BY <1>1 DEF ConnShape
    <3> HIDE DEF z
    <3>2. /\ [z EXCEPT !.writer = "write"] \in ConnShape
          /\ [z EXCEPT !.writer = "write"].kernel = x.kernel
          /\ [z EXCEPT !.writer = "write"].pc = x.pc
          /\ [z EXCEPT !.writer = "write"].open = x.open
          /\ [z EXCEPT !.writer = "write"].writer = "write"
      BY <3>1 DEF ConnShape
    <3> QED
      BY <3>2 DEF z
  <2> HIDE DEF y
  <2>2. x.pc \notin {"resolved", "admitted"} /\ ~Untouched(x)
    BY <1>1, <1>5 DEF ConnOK, Untouched
  <2>3. Follows(y, x) /\ ConnOK(y)
    BY <1>5, <2>1, <2>2 DEF Follows, ConnOK, Running
  <2> QED
    BY <1>1, <1>5, <2>2, <2>3, ConnTurns DEF y
<1>6. ASSUME NEW w \in {"run", "sleep"}, NEW b \in {x.wake, FALSE}, Running(x),
             w = "sleep" => ~x.shut /\ ~(x.items > 0),
             x.pc \notin {"resolved", "admitted"},
             Turn(c, [x EXCEPT !.writer = w, !.wake = b])
      PROVE  StopInv'
  <2> DEFINE y == [x EXCEPT !.writer = w, !.wake = b]
  <2>1. /\ y \in ConnShape /\ y.kernel = x.kernel /\ y.pc = x.pc /\ y.open = x.open
        /\ y.writer = w /\ y.shut = x.shut /\ y.items = x.items /\ y.ready = x.ready
    BY <1>1, <1>6 DEF ConnShape
  <2> HIDE DEF y
  <2>2. Follows(y, x) /\ ConnOK(y)
    BY <1>6, <2>1 DEF Follows, ConnOK, Running
  <2>3. Untouched(x) => Untouched(y)
    BY <2>1 DEF Untouched
  <2> QED
    BY <1>1, <1>6, <2>2, <2>3, ConnTurns DEF y
<1>7. \A w : [x EXCEPT !.writer = w] = [x EXCEPT !.writer = w, !.wake = x.wake]
  BY <1>1 DEF ConnShape
<1>8. CASE WriterPops(c)
  <2>1. Running(x) /\ x.pc \notin {"resolved", "admitted"}
    BY <1>4, <1>8 DEF WriterPops, Running
  <2>2. CASE x.items = 0 /\ ~x.shut /\ Turn(c, [x EXCEPT !.writer = "sleep"])
    <3>1. Turn(c, [x EXCEPT !.writer = "sleep", !.wake = x.wake])
      BY <1>7, <2>2
    <3>2. "sleep" = "sleep" => ~x.shut /\ ~(x.items > 0)
      BY <2>2
    <3> QED
      BY <1>6, <2>1, <3>1, <3>2
  <2> QED
    BY <1>5, <1>8, <2>2 DEF WriterPops
<1>9. CASE WriterWakes(c)
  <2>1. Running(x) /\ x.pc \notin {"resolved", "admitted"}
        /\ Turn(c, [x EXCEPT !.writer = "run", !.wake = FALSE])
    BY <1>4, <1>9 DEF WriterWakes, Running
  <2> QED
    BY <1>6, <2>1
<1>10. CASE Written(c)
  <2>1. Running(x) /\ x.pc \notin {"resolved", "admitted"}
        /\ Turn(c, [x EXCEPT !.writer = "run", !.wake = x.wake])
    BY <1>4, <1>7, <1>10 DEF Written, Running
  <2> QED
    BY <1>6, <2>1
<1> QED
  BY <1>3, <1>8, <1>9, <1>10

LEMMA ServeTurns ==
    ASSUME Typed, StopInv, NEW c \in Conn,
           \/ CheckQuit(c) \/ ReadFails(c) \/ FrameArrives(c) \/ CheckFrame(c)
           \/ HandleHandshake(c) \/ HandleReady(c) \/ Teardown(c)
    PROVE  StopInv'
<1> DEFINE x == conn[c]
<1>1. /\ x # NoConn /\ c \in Live /\ x \in ConnShape /\ ConnOK(x)
      /\ x.pc \in {"loop", "read", "frame", "handle", "teardown"}
  BY DEF CheckQuit, ReadFails, FrameArrives, CheckFrame, HandleHandshake,
         HandleReady, Teardown, At, Live, Typed, StopInv
<1>2. Queued(x, x) /\ Queued(Shut(x), x) /\ Queued(Enqueue(x), x)
      /\ Shut(x).items = x.items
  BY <1>1, OutboxFields
\* The steps of a connection that a frame was taken from.
<1>3. ASSUME NEW y, Queued(y, x), ~Untouched(x),
             NEW pc \in {"loop", "read", "frame", "handle", "teardown", "drain"},
             \/ Turn(c, [y EXCEPT !.pc = pc])
             \/ Turn(c, [y EXCEPT !.pc = pc, !.ready = TRUE])
      PROVE  StopInv'
  BY <1>1, <1>3, QueuedIsSafe, ConnTurns
\* And of one that has none, or whose server is not told to stop.
<1>4. ASSUME NEW pc \in {"read", "teardown", "drain"}, NEW y \in {x, Shut(x)},
             server[x.kernel].quit => pc # "read",
             Turn(c, [y EXCEPT !.pc = pc])
      PROVE  StopInv'
  <2> DEFINE z == [y EXCEPT !.pc = pc]
  <2>1. Queued(y, x) /\ y.items = x.items
    BY <1>2, <1>4
  <2>2. Follows(z, x) /\ ConnOK(z)
    BY <1>1, <2>1, QueuedIsSafe
  <2>3. z.ready = x.ready /\ z.items = x.items /\ z.writer = x.writer /\ z.pc = pc
        /\ z \in ConnShape
    BY <2>1, <2>2 DEF Queued, Follows, ConnShape
  <2> HIDE DEF z
  <2>4. server[x.kernel].quit /\ Untouched(x) => Untouched(z)
    BY <1>4, <2>3 DEF Untouched
  <2> QED
    BY <1>1, <1>4, <2>2, <2>4, ConnTurns DEF z
<1>5. CASE CheckQuit(c)
  <2>1. CASE server[x.kernel].quit
    BY <1>4, <1>5, <2>1 DEF CheckQuit
  <2>2. CASE ~server[x.kernel].quit
    BY <1>4, <1>5, <2>2 DEF CheckQuit
  <2> QED
    BY <2>1, <2>2
<1>6. CASE ReadFails(c) \/ Teardown(c)
  BY <1>4, <1>6 DEF ReadFails, Teardown
<1>7. ASSUME x.pc \in {"read", "frame", "handle"}
      PROVE  ~Untouched(x)
  BY <1>7 DEF Untouched
<1>8. CASE FrameArrives(c)
  <2> DEFINE y == [x EXCEPT !.readAs = owner[x.uid] = x.caller]
  <2>1. Turn(c, [y EXCEPT !.pc = "frame"]) /\ ~Untouched(x)
    <3>1. [y EXCEPT !.pc = "frame"] =
             [x EXCEPT !.pc = "frame", !.readAs = owner[x.uid] = x.caller]
      BY <1>1 DEF ConnShape
    <3> QED
      BY <1>7, <1>8, <3>1 DEF FrameArrives, At
  <2>2. Queued(y, x)
    <3> DEFINE b == owner[x.uid] = x.caller
    <3>1. b \in BOOLEAN
      OBVIOUS
    <3> HIDE DEF b
    <3>2. Queued([x EXCEPT !.readAs = b], x)
      BY <1>1, <3>1 DEF Queued, ConnShape
    <3> QED
      BY <3>2 DEF b
  <2> HIDE DEF y
  <2> QED
    BY <1>3, <2>1, <2>2
<1>9. CASE CheckFrame(c)
  BY <1>2, <1>3, <1>7, <1>9 DEF CheckFrame, At
<1>10. CASE HandleHandshake(c)
  BY <1>2, <1>3, <1>7, <1>10 DEF HandleHandshake, Failed, At
<1>11. CASE HandleReady(c)
  BY <1>2, <1>3, <1>7, <1>11 DEF HandleReady, At
<1> QED
  BY <1>5, <1>6, <1>8, <1>9, <1>10, <1>11

\* One process moves, and of the connections only its own.
LEMMA KernelMoves ==
    ASSUME Typed, StopInv, NEW k \in Kernel, NEW s,
           server' = [server EXCEPT ![k] = s],
           \A c \in Conn : \/ conn'[c] = conn[c]
                           \/ /\ c \in Of(k) \/ conn[c] = NoConn
                              /\ conn'[c] = NoConn \/ conn'[c].kernel = k,
           \A c \in Of(k)' : ConnOK(conn[c])',
           KernelOK(k)'
    PROVE  StopInv'
<1>1. \A j \in Kernel \ {k} : server'[j] = server[j]
  BY DEF Typed, ShapeOK
<1>2. ASSUME NEW j \in Kernel \ {k}
      PROVE  Of(j)' = Of(j) /\ \A c \in Of(j) : conn'[c] = conn[c]
  BY <1>2 DEF Of, Live
<1>3. \A j \in Kernel : KernelOK(j)'
  BY <1>1, <1>2, OtherKernel DEF StopInv
<1>4. ASSUME NEW c \in Live', c \notin Of(k)'
      PROVE  ConnOK(conn[c])'
  <2>1. c \in Live /\ conn'[c] = conn[c]
    BY <1>4 DEF Of, Live
  <2>2. ConnOK(conn[c])
    BY <2>1 DEF StopInv
  <2> QED
    BY <2>1, <2>2 DEF ConnOK, Untouched
<1> QED
  BY <1>3, <1>4 DEF StopInv

\* A goroutine of c starts or ends; no slot changes hands.
LEMMA SlotsStay ==
    ASSUME NEW k \in Kernel, Slotted(k), Staged(k), Closing(k), NEW c \in Of(k), NEW y,
           Of(k)' = Of(k), conn'[c] = y, \A d \in Of(k) \ {c} : conn'[d] = conn[d],
           y.pc = "resolved" <=> conn[c].pc = "resolved",
           y.open => conn[c].open, Untouched(conn[c]) => Untouched(y),
           server'[k].pc = server[k].pc, server'[k].quit = server[k].quit,
           server'[k].acceptor = server[k].acceptor,
           server'[k].conns = server[k].conns,
           server'[k].snapshot = server[k].snapshot
    PROVE  Slotted(k)' /\ Staged(k)' /\ Closing(k)'
<1>1. \A d \in Of(k) : conn'[d].pc = "resolved" <=> conn[d].pc = "resolved"
  OBVIOUS
<1>2. \A d \in Of(k) : /\ conn'[d].open => conn[d].open
                       /\ Untouched(conn[d]) => Untouched(conn[d])'
  BY DEF Untouched
<1>3. Slotted(k)'
  BY <1>1 DEF Slotted
<1>4. Staged(k)'
  BY DEF Staged
<1>5. Closing(k)'
  BY <1>2 DEF Closing
<1> QED
  BY <1>3, <1>4, <1>5

LEMMA WriterCounted ==
    ASSUME Typed, StopInv, NEW k \in Kernel, NEW c \in Of(k), NEW y \in ConnShape,
           conn' = [conn EXCEPT ![c] = y], y.kernel = k, ConnOK(y),
           y.pc = "resolved" <=> conn[c].pc = "resolved",
           y.open => conn[c].open, Untouched(conn[c]) => Untouched(y),
           \/ /\ Running(y) /\ ~Running(conn[c])
              /\ server' = [server EXCEPT ![k].wg = @ + 1]
           \/ /\ ~Running(y) /\ Running(conn[c])
              /\ server' = [server EXCEPT ![k].wg = @ - 1]
    PROVE  StopInv'
<1> DEFINE S == server[k]
<1>0. S \in ServerShape /\ S.wg \in Int /\ KernelOK(k) /\ c \in Live
      /\ conn[c].kernel = k
  BY DEF Typed, ShapeOK, ServerShape, StopInv, Of
<1>1. /\ conn'[c] = y /\ Of(k)' = Of(k)
      /\ \A d \in Conn \ {c} : conn'[d] = conn[d]
  BY <1>0, OneConn
<1>2. PICK n \in Int :
         /\ server' = [server EXCEPT ![k] = [S EXCEPT !.wg = n]]
         /\ \/ n = S.wg + 1 /\ Running(y) /\ ~Running(conn[c])
            \/ n = S.wg - 1 /\ ~Running(y) /\ Running(conn[c])
  <2>1. S.wg + 1 \in Int /\ S.wg - 1 \in Int
    BY <1>0
  <2>2. CASE Running(y) /\ ~Running(conn[c])
    BY <2>1, <2>2
  <2>3. CASE ~Running(y) /\ Running(conn[c])
    BY <2>1, <2>3
  <2> QED
    BY <2>2, <2>3
<1> DEFINE s == [S EXCEPT !.wg = n]
<1>3. /\ s.pc = S.pc /\ s.quit = S.quit /\ s.acceptor = S.acceptor
      /\ s.conns = S.conns /\ s.snapshot = S.snapshot /\ s.wg = n
  BY <1>0 DEF ServerShape
<1>4. server'[k] = s
  BY <1>2 DEF Typed, ShapeOK
<1>5. \A d \in Of(k) \ {c} : conn'[d] = conn[d]
  BY <1>1 DEF Of, Live
<1>6. Slotted(k)' /\ Staged(k)' /\ Closing(k)'
  <2>1. /\ server'[k].pc = S.pc /\ server'[k].quit = S.quit
        /\ server'[k].acceptor = S.acceptor /\ server'[k].conns = S.conns
        /\ server'[k].snapshot = S.snapshot
    BY <1>3, <1>4
  <2>2. Slotted(k) /\ Staged(k) /\ Closing(k)
    BY <1>0 DEF KernelOK
  <2> QED
    BY <1>1, <1>5, <2>1, <2>2, SlotsStay
<1>7. Counted(k)'
  <2> DEFINE W == Writing(k)
  <2>0. /\ IsFiniteSet(S.conns) /\ IsFiniteSet(W)
        /\ S.wg = Bit(S.acceptor # "none") + Cardinality(S.conns) + Cardinality(W)
    BY <1>0 DEF KernelOK, Counted
  <2>1. Cardinality(S.conns) \in Nat /\ Cardinality(W) \in Nat
    BY <2>0, FS_CardinalityType
  <2>2. \A d \in Of(k) \ {c} : Running(conn[d])' <=> Running(conn[d])
    BY <1>5 DEF Running
  <2>3. Running(conn[c])' <=> Running(y)
    BY <1>1 DEF Running
  <2>4. CASE Running(y)
    <3>1. Writing(k)' = W \cup {c} /\ c \notin W
      BY <1>1, <1>2, <2>2, <2>3, <2>4 DEF Writing
    <3>2. IsFiniteSet(Writing(k)') /\ Cardinality(Writing(k)') = Cardinality(W) + 1
      BY <2>0, <3>1, FS_AddElement
    <3>3. n = S.wg + 1
      BY <1>2, <2>4
    <3> HIDE DEF W
    <3> QED
      BY <1>3, <1>4, <2>0, <2>1, <3>2, <3>3 DEF Counted, Bit
  <2>5. CASE ~Running(y)
    <3>1. Writing(k)' = W \ {c} /\ c \in W
      BY <1>1, <1>2, <2>2, <2>3, <2>5 DEF Writing
    <3>2. IsFiniteSet(Writing(k)') /\ Cardinality(Writing(k)') = Cardinality(W) - 1
      BY <2>0, <3>1, FS_RemoveElement
    <3>3. n = S.wg - 1
      BY <1>2, <2>5
    <3> HIDE DEF W
    <3> QED
      BY <1>3, <1>4, <2>0, <2>1, <3>2, <3>3 DEF Counted, Bit
  <2> QED
    BY <2>4, <2>5
<1>8. \A d \in Of(k)' : ConnOK(conn[d])'
  <2>1. ASSUME NEW d \in Of(k)
        PROVE  ConnOK(conn[d])'
    <3>1. ConnOK(conn[d])
      BY DEF StopInv, Of
    <3> QED
      BY <1>1, <1>5, <3>1 DEF ConnOK, Untouched
  <2> QED
    BY <1>1, <2>1
<1>9. KernelOK(k)'
  BY <1>6, <1>7 DEF KernelOK
<1>10. \A d \in Conn : \/ conn'[d] = conn[d]
                       \/ /\ d \in Of(k) \/ conn[d] = NoConn
                          /\ conn'[d] = NoConn \/ conn'[d].kernel = k
  BY <1>1
<1> HIDE DEF s
<1> QED
  BY <1>2, <1>8, <1>9, <1>10, KernelMoves

LEMMA GoroutineSteps ==
    ASSUME Typed, StopInv, NEW c \in Conn,
           StartServe(c) \/ WriteFails(c) \/ WriterDrained(c)
    PROVE  StopInv'
<1> DEFINE x == conn[c]
<1>0. PICK k \in Kernel : k = conn[c].kernel
  BY DEF StartServe, WriteFails, WriterDrained, At, Typed, Live, ConnShape
<1>1. /\ x # NoConn /\ c \in Live /\ x \in ConnShape /\ ConnOK(x) /\ c \in Of(k)
      /\ x.kernel = k
  BY <1>0 DEF StartServe, WriteFails, WriterDrained, At, Live, Typed, StopInv, Of
<1>2. CASE StartServe(c)
  <2> DEFINE y == [x EXCEPT !.pc = "loop", !.writer = "run"]
  <2>1. /\ y \in ConnShape /\ y.kernel = k /\ y.pc = "loop" /\ y.open = x.open
        /\ y.writer = "run" /\ y.ready = x.ready /\ y.items = x.items
    BY <1>1 DEF ConnShape
  <2>2. /\ conn' = [conn EXCEPT ![c] = y]
        /\ server' = [server EXCEPT ![k].wg = @ + 1]
        /\ x.pc = "admitted" /\ ~Running(x)
    BY <1>1, <1>2 DEF StartServe, At, ConnOK, Running
  <2> HIDE DEF y
  <2>3. ConnOK(y) /\ (Untouched(x) => Untouched(y)) /\ Running(y)
    BY <2>1 DEF ConnOK, Untouched, Running
  <2> QED
    BY <1>1, <2>1, <2>2, <2>3, WriterCounted
<1>3. ASSUME NEW y, Queued(y, x), Running(x), y.items = x.items,
             conn' = [conn EXCEPT ![c] = [y EXCEPT !.writer = "done"]],
             server' = [server EXCEPT ![y.kernel].wg = @ - 1]
      PROVE  StopInv'
  <2> DEFINE z == [y EXCEPT !.writer = "done"]
  <2>1. /\ z \in ConnShape /\ z.kernel = k /\ z.pc = x.pc /\ (z.open => x.open)
        /\ z.writer = "done" /\ z.ready = x.ready /\ z.items = x.items
    BY <1>1, <1>3 DEF Queued, ConnShape
  <2>2. /\ conn' = [conn EXCEPT ![c] = z]
        /\ server' = [server EXCEPT ![k].wg = @ - 1]
    BY <1>1, <1>3 DEF Queued
  <2> HIDE DEF z
  <2>3. ConnOK(z) /\ (Untouched(x) => Untouched(z)) /\ ~Running(z)
    BY <1>1, <1>3, <2>1 DEF ConnOK, Untouched, Running
  <2>4. /\ z \in ConnShape /\ z.kernel = k /\ (z.open => x.open)
        /\ z.pc = "resolved" <=> x.pc = "resolved"
    BY <2>1
  <2>5. c \in Of(k) /\ Running(x)
    BY <1>1, <1>3
  <2>6. \/ Running(z) /\ ~Running(x) /\ server' = [server EXCEPT ![k].wg = @ + 1]
        \/ ~Running(z) /\ Running(x) /\ server' = [server EXCEPT ![k].wg = @ - 1]
    BY <2>2, <2>3, <2>5
  <2> QED
    BY <2>2, <2>3, <2>4, <2>5, <2>6, WriterCounted
<1>4. CASE WriterDrained(c)
  <2>1. Queued(x, x) /\ x.items = x.items
    BY <1>1, OutboxFields
  <2>2. /\ conn' = [conn EXCEPT ![c] = [x EXCEPT !.writer = "done"]]
        /\ server' = [server EXCEPT ![x.kernel].wg = @ - 1]
        /\ Running(x)
    BY <1>4 DEF WriterDrained, WriterEnds, Running
  <2> QED
    BY <1>3, <2>1, <2>2
<1>5. CASE WriteFails(c)
  <2> DEFINE y == [Shut(x) EXCEPT !.open = FALSE]
  <2>1. Queued(Shut(x), x) /\ Shut(x).items = x.items
    BY <1>1, OutboxFields
  <2>2. Queued(y, x) /\ y.items = x.items
    <3> DEFINE z == Shut(x)
    <3>1. Queued(z, x) /\ z.items = x.items
      BY <2>1
    <3> HIDE DEF z
    <3>2. Queued([z EXCEPT !.open = FALSE], x)
      BY <3>1 DEF Queued, ConnShape
    <3>3. [z EXCEPT !.open = FALSE].items = x.items
      BY <3>1 DEF Queued, ConnShape
    <3> QED
      BY <3>2, <3>3 DEF z
  <2>3. /\ conn' = [conn EXCEPT ![c] = [y EXCEPT !.writer = "done"]]
        /\ server' = [server EXCEPT ![y.kernel].wg = @ - 1]
        /\ Running(x)
    BY <1>5 DEF WriteFails, WriterEnds, Running
  <2> HIDE DEF y
  <2> QED
    BY <1>3, <2>2, <2>3
<1> QED
  BY <1>2, <1>4, <1>5

\* A connection of k goes.
LEMMA OneGoes ==
    ASSUME NEW k \in Kernel, NEW c \in Of(k), conn' = Gone({c})
    PROVE  /\ Of(k)' = Of(k) \ {c}
           /\ \A d \in Of(k) \ {c} : conn'[d] = conn[d]
           /\ \A d \in Conn : \/ conn'[d] = conn[d]
                              \/ d \in Of(k) /\ conn'[d] = NoConn
<1>1. \A d \in Conn : conn'[d] = IF d = c THEN NoConn ELSE conn[d]
  BY DEF Gone
<1>2. c \in Conn /\ Of(k) \subseteq Conn
  BY DEF Of, Live
<1> QED
  BY <1>1, <1>2 DEF Of, Live

\* The connections of k that stay are as they were.
LEMMA StayOK ==
    ASSUME StopInv, NEW k \in Kernel, NEW c \in Of(k), conn'[c] = conn[c]
    PROVE  ConnOK(conn[c])' /\ (Untouched(conn[c])' <=> Untouched(conn[c]))
<1>1. ConnOK(conn[c])
  BY DEF StopInv, Of
<1> QED
  BY <1>1 DEF ConnOK, Untouched

LEMMA ReleaseKeepsStop ==
    ASSUME Typed, StopInv, NEW c \in Conn, Release(c)
    PROVE  StopInv'
<1> DEFINE x == conn[c]
<1>0. PICK k \in Kernel : k = conn[c].kernel
  BY DEF Release, At, Typed, Live, ConnShape
<1> DEFINE S == server[k]
           W == Writing(k)
<1>1. /\ c \in Of(k) /\ x.pc = "drain" /\ x.writer = "done" /\ x \in ConnShape
      /\ conn' = Gone({c}) /\ S \in ServerShape /\ KernelOK(k)
  BY <1>0 DEF Release, At, Live, Of, Typed, ShapeOK, StopInv
<1>2. PICK s : s = Returned(S, c, x.uid)
  OBVIOUS
<1>3. /\ server' = [server EXCEPT ![k] = s]
      /\ server'[k] = s
  BY <1>0, <1>2 DEF Release, Typed, ShapeOK
<1>4. /\ s.pc = S.pc /\ s.quit = S.quit /\ s.acceptor = S.acceptor
      /\ s.conns = S.conns \ {c} /\ s.snapshot = S.snapshot \ {c} /\ s.wg = S.wg - 1
      /\ S.wg \in Int
  BY <1>1, <1>2 DEF Returned, ServerShape
<1>5. /\ Of(k)' = Of(k) \ {c}
      /\ \A d \in Of(k) \ {c} : conn'[d] = conn[d]
      /\ \A d \in Conn : \/ conn'[d] = conn[d]
                         \/ d \in Of(k) /\ conn'[d] = NoConn
  BY <1>1, OneGoes
<1>6. \A d \in Of(k)' : ConnOK(conn[d])' /\ (Untouched(conn[d])' <=> Untouched(conn[d]))
  BY <1>5, StayOK
<1>7. Writing(k)' = W
  BY <1>1, <1>5 DEF Writing, Running
<1>8. Counted(k)'
  <2>1. /\ IsFiniteSet(S.conns) /\ IsFiniteSet(W) /\ c \in S.conns
        /\ S.wg = Bit(S.acceptor # "none") + Cardinality(S.conns) + Cardinality(W)
    BY <1>1 DEF KernelOK, Counted, Slotted
  <2>2. Cardinality(S.conns) \in Nat /\ Cardinality(W) \in Nat
    BY <2>1, FS_CardinalityType
  <2>3. /\ IsFiniteSet(S.conns \ {c})
        /\ Cardinality(S.conns \ {c}) = Cardinality(S.conns) - 1
    BY <2>1, FS_RemoveElement
  <2>4. Bit(S.acceptor # "none") \in Int
    BY DEF Bit
  <2>5. s.wg = Bit(s.acceptor # "none") + Cardinality(s.conns) + Cardinality(W)
    BY <1>4, <2>1, <2>2, <2>3, <2>4
  <2> QED
    BY <1>3, <1>4, <1>7, <2>1, <2>3, <2>5 DEF Counted
<1>9. Slotted(k)'
  <2>1. /\ S.conns = {d \in Of(k) : conn[d].pc # "resolved"}
        /\ \A d \in Conn : S.acceptor = d <=> d \in Of(k) /\ conn[d].pc = "resolved"
    BY <1>1 DEF KernelOK, Slotted
  <2>2. s.conns = {d \in Of(k)' : conn'[d].pc # "resolved"}
    BY <1>4, <1>5, <2>1
  <2>3. \A d \in Conn : s.acceptor = d <=> d \in Of(k)' /\ conn'[d].pc = "resolved"
    BY <1>1, <1>4, <1>5, <2>1
  <2> QED
    BY <1>3, <2>2, <2>3 DEF Slotted
<1>10. Staged(k)'
  BY <1>1, <1>3, <1>4, <1>5 DEF KernelOK, Staged
<1>11. Closing(k)'
  BY <1>1, <1>3, <1>4, <1>5, <1>6 DEF KernelOK, Closing
<1>12. KernelOK(k)'
  BY <1>8, <1>9, <1>10, <1>11 DEF KernelOK
<1> QED
  BY <1>3, <1>5, <1>6, <1>12, KernelMoves

\* A step of the acceptor: it starts and ends no writer.
LEMMA AcceptorKeepsStop ==
    ASSUME Typed, StopInv, NEW k \in Kernel, Acceptor(k)
    PROVE  StopInv'
<1> DEFINE S == server[k]
           W == Writing(k)
           A == Bit(S.acceptor # "none")
<1>0. /\ S \in ServerShape /\ S.wg \in Int /\ KernelOK(k)
      /\ S.conns = {d \in Of(k) : conn[d].pc # "resolved"}
      /\ \A d \in Conn : S.acceptor = d <=> d \in Of(k) /\ conn[d].pc = "resolved"
      /\ IsFiniteSet(S.conns) /\ IsFiniteSet(W)
      /\ S.wg = A + Cardinality(S.conns) + Cardinality(W)
      /\ Cardinality(S.conns) \in Nat /\ Cardinality(W) \in Nat
  <2>1. S \in ServerShape /\ S.wg \in Int /\ KernelOK(k)
    BY DEF Typed, ShapeOK, StopInv, ServerShape
  <2>2. IsFiniteSet(S.conns) /\ IsFiniteSet(W)
    BY <2>1 DEF KernelOK, Counted
  <2> QED
    BY <2>1, <2>2, FS_CardinalityType DEF KernelOK, Counted, Slotted
<1>1. /\ \A d \in Conn : d # "none" /\ d # "accept" /\ d # "backoff"
      /\ Bit(TRUE) = 1 /\ Bit(FALSE) = 0
  BY ServerAssumption DEF Bit
<1>2. ASSUME NEW s, server' = [server EXCEPT ![k] = s]
      PROVE  server'[k] = s
  BY <1>2 DEF Typed, ShapeOK
<1>3. S.acceptor # "none" => S.pc \notin {"off", "start", "locked", "cleared", "bound"}
  BY <1>0 DEF KernelOK, Staged
\* No connection moves.
<1>4. ASSUME NEW s, UNCHANGED conn, server' = [server EXCEPT ![k] = s],
             s.pc = S.pc, s.quit = S.quit, s.conns = S.conns, s.snapshot = S.snapshot,
             \/ s.acceptor = S.acceptor /\ s.wg = S.wg
             \/ /\ S.acceptor \in {"accept", "backoff"}
                /\ \/ s.acceptor \in {"accept", "backoff"} /\ s.wg = S.wg
                   \/ s.acceptor = "none" /\ s.wg = S.wg - 1
      PROVE  StopInv'
  <2>1. Of(k)' = Of(k) /\ Writing(k)' = W
    BY <1>4 DEF Of, Live, Writing
  <2>2. \A d \in Of(k) : ConnOK(conn[d])' /\ (Untouched(conn[d])' <=> Untouched(conn[d]))
    BY <1>4, StayOK DEF Of, Live
  <2>3. server'[k] = s
    BY <1>2, <1>4
  <2>4. Counted(k)'
    <3>1. s.wg = Bit(s.acceptor # "none") + Cardinality(S.conns) + Cardinality(W)
      BY <1>0, <1>1, <1>4 DEF Bit
    <3> QED
      BY <1>0, <1>4, <2>1, <2>3, <3>1 DEF Counted
  <2>5. Slotted(k)'
    <3>1. \A d \in Conn : s.acceptor = d <=> S.acceptor = d
      BY <1>1, <1>4
    <3> QED
      BY <1>0, <1>4, <2>1, <2>3, <3>1 DEF Slotted
  <2>6. Staged(k)'
    BY <1>0, <1>3, <1>4, <2>1, <2>3 DEF KernelOK, Staged
  <2>7. Closing(k)'
    BY <1>0, <1>4, <2>1, <2>2, <2>3 DEF KernelOK, Closing
  <2> QED
    BY <1>4, <2>1, <2>2, <2>4, <2>5, <2>6, <2>7, KernelMoves DEF KernelOK
<1>5. CASE AcceptFails(k) \/ BackoffEnds(k)
  <2>1. PICK s : /\ server' = [server EXCEPT ![k] = s]
                 /\ s.pc = S.pc /\ s.quit = S.quit /\ s.conns = S.conns
                 /\ s.snapshot = S.snapshot
                 /\ S.acceptor \in {"accept", "backoff"}
                 /\ \/ s.acceptor \in {"accept", "backoff"} /\ s.wg = S.wg
                    \/ s.acceptor = "none" /\ s.wg = S.wg - 1
    <3>1. PICK n : \/ server' = [server EXCEPT ![k].acceptor = "none",
                                               ![k].wg = @ - 1, ![k].failures = n]
                   \/ server' = [server EXCEPT ![k].acceptor = "backoff",
                                               ![k].failures = n]
                   \/ server' = [server EXCEPT ![k].acceptor = "accept"]
      BY <1>5 DEF AcceptFails, BackoffEnds, AcceptorEnds
    <3>2. S.acceptor \in {"accept", "backoff"}
      BY <1>5 DEF AcceptFails, BackoffEnds
    <3> DEFINE s1 == [S EXCEPT !.acceptor = "none", !.wg = S.wg - 1, !.failures = n]
               s2 == [S EXCEPT !.acceptor = "backoff", !.failures = n]
               s3 == [S EXCEPT !.acceptor = "accept"]
    <3>3. \/ server' = [server EXCEPT ![k] = s1]
          \/ server' = [server EXCEPT ![k] = s2]
          \/ server' = [server EXCEPT ![k] = s3]
      BY <3>1
    <3>4. \A s \in {s1, s2, s3} :
             /\ s.pc = S.pc /\ s.quit = S.quit /\ s.conns = S.conns
             /\ s.snapshot = S.snapshot
      <4>1. /\ s1.pc = S.pc /\ s1.quit = S.quit /\ s1.conns = S.conns
            /\ s1.snapshot = S.snapshot
        BY <1>0 DEF ServerShape
      <4>2. /\ s2.pc = S.pc /\ s2.quit = S.quit /\ s2.conns = S.conns
            /\ s2.snapshot = S.snapshot
        BY <1>0 DEF ServerShape
      <4>3. /\ s3.pc = S.pc /\ s3.quit = S.quit /\ s3.conns = S.conns
            /\ s3.snapshot = S.snapshot
        BY <1>0 DEF ServerShape
      <4> HIDE DEF s1, s2, s3, S
      <4> QED
        BY <4>1, <4>2, <4>3
    <3>5. /\ s1.acceptor = "none" /\ s1.wg = S.wg - 1
          /\ s2.acceptor = "backoff" /\ s2.wg = S.wg
          /\ s3.acceptor = "accept" /\ s3.wg = S.wg
      BY <1>0 DEF ServerShape
    <3> HIDE DEF s1, s2, s3, S
    <3> QED
      BY <3>2, <3>3, <3>4, <3>5
  <2>2. UNCHANGED conn
    BY <1>5 DEF AcceptFails, BackoffEnds
  <2> QED
    BY <1>4, <2>1, <2>2
<1>6. ASSUME NEW c \in Conn, NEW u \in UID, Accept(k, c, u)
      PROVE  StopInv'
  <2>1. S.acceptor = "accept" /\ conn[c] = NoConn
    BY <1>6 DEF Accept
  <2>2. CASE ~(u \in AppUID /\ owner[u] # 0)
    <3> DEFINE s == [S EXCEPT !.failures = 0]
    <3>1. server' = [server EXCEPT ![k] = s] /\ UNCHANGED conn
      BY <1>6, <2>2 DEF Accept
    <3>2. /\ s.pc = S.pc /\ s.quit = S.quit /\ s.conns = S.conns
          /\ s.snapshot = S.snapshot /\ s.acceptor = S.acceptor /\ s.wg = S.wg
      BY <1>0 DEF ServerShape
    <3> HIDE DEF s
    <3> QED
      BY <1>4, <3>1, <3>2
  <2>3. CASE u \in AppUID /\ owner[u] # 0
    <3>1. PICK y : y = Accepted(k, u)
      OBVIOUS
    <3>2. /\ y.kernel = k /\ y.pc = "resolved" /\ y.writer = "none" /\ y # NoConn
          /\ ~y.ready /\ y.items = 0
      <4>1. "kernel" \in DOMAIN y /\ DOMAIN NoConn = {"pc"}
        BY <3>1 DEF Accepted, NoConn
      <4>2. y # NoConn
        BY <4>1
      <4> QED
        BY <3>1, <4>2 DEF Accepted
    <3>3. ConnOK(y) /\ Untouched(y) /\ ~Running(y)
      BY <3>2 DEF ConnOK, Untouched, Running
    <3>4. PICK s : s = [S EXCEPT !.acceptor = c, !.failures = 0]
      OBVIOUS
    <3>5. /\ server' = [server EXCEPT ![k] = s] /\ server'[k] = s
          /\ conn' = [conn EXCEPT ![c] = y]
      <4>1. /\ server' = [server EXCEPT ![k].acceptor = c, ![k].failures = 0]
            /\ conn' = [conn EXCEPT ![c] = y]
        BY <1>6, <2>3, <3>1 DEF Accept
      <4>2. server' = [server EXCEPT ![k] = s]
        BY <3>4, <4>1
      <4> QED
        BY <1>2, <4>1, <4>2
    <3>6. /\ s.pc = S.pc /\ s.quit = S.quit /\ s.conns = S.conns
          /\ s.snapshot = S.snapshot /\ s.acceptor = c /\ s.wg = S.wg
      BY <1>0, <3>4 DEF ServerShape
    <3>7. /\ conn'[c] = y /\ \A d \in Conn \ {c} : conn'[d] = conn[d]
          /\ c \notin Of(k) /\ Of(k) \subseteq Conn /\ Of(k)' = Of(k) \cup {c}
      BY <2>1, <3>2, <3>5 DEF Typed, Of, Live
    <3>8. \A d \in Of(k) : ConnOK(conn[d])' /\ (Untouched(conn[d])' <=> Untouched(conn[d]))
      BY <3>7, StayOK
    <3>9. ConnOK(conn[c])' /\ Untouched(conn[c])'
      BY <3>3, <3>7 DEF ConnOK, Untouched
    <3>10. Writing(k)' = W
      BY <3>3, <3>7 DEF Writing, Running
    <3>11. Counted(k)'
      <4>1. s.wg = Bit(s.acceptor # "none") + Cardinality(S.conns) + Cardinality(W)
        BY <1>0, <1>1, <2>1, <3>6 DEF Bit
      <4> QED
        BY <1>0, <3>5, <3>6, <3>10, <4>1 DEF Counted
    <3>12. Slotted(k)'
      <4>1. S.conns = {d \in Of(k)' : conn'[d].pc # "resolved"}
        BY <1>0, <3>2, <3>7
      <4>2. \A d \in Conn : s.acceptor = d <=> d \in Of(k)' /\ conn'[d].pc = "resolved"
        BY <1>0, <1>1, <2>1, <3>2, <3>6, <3>7
      <4> QED
        BY <3>5, <3>6, <4>1, <4>2 DEF Slotted
    <3>13. Staged(k)' /\ Closing(k)'
      <4>1. Staged(k)'
        BY <1>0, <1>3, <2>1, <3>5, <3>6 DEF KernelOK, Staged
      <4>2. Closing(k)'
        BY <1>0, <3>5, <3>6, <3>7, <3>8, <3>9 DEF KernelOK, Closing
      <4> QED
        BY <4>1, <4>2
    <3>14. KernelOK(k)'
      BY <3>11, <3>12, <3>13 DEF KernelOK
    <3>15. \A d \in Of(k)' : ConnOK(conn[d])'
      BY <3>7, <3>8, <3>9
    <3> QED
      BY <2>1, <3>2, <3>5, <3>7, <3>14, <3>15, KernelMoves
  <2> QED
    BY <2>2, <2>3
<1>7. ASSUME NEW c \in Conn, Admit(k, c)
      PROVE  StopInv'
  <2>1. /\ S.acceptor = c /\ c \in Of(k) /\ conn[c].pc = "resolved"
        /\ conn[c] \in ConnShape /\ conn[c].kernel = k /\ c \notin S.conns
        /\ c \in Live
    BY <1>0, <1>7 DEF Admit, At, Typed, Of
  <2>2. Untouched(conn[c]) /\ conn[c].writer = "none" /\ c \notin W
    BY <2>1 DEF StopInv, ConnOK, Writing, Running
  <2>3. CASE ~WithinLimits(k, conn[c].uid)
    <3>1. PICK s : s = [S EXCEPT !.acceptor = "accept"]
      OBVIOUS
    <3>2. /\ server' = [server EXCEPT ![k] = s] /\ server'[k] = s
          /\ conn' = Gone({c})
      BY <1>2, <1>7, <2>3, <3>1 DEF Admit
    <3>3. /\ s.pc = S.pc /\ s.quit = S.quit /\ s.conns = S.conns
          /\ s.snapshot = S.snapshot /\ s.acceptor = "accept" /\ s.wg = S.wg
      BY <1>0, <3>1 DEF ServerShape
    <3>4. /\ Of(k)' = Of(k) \ {c}
          /\ \A d \in Of(k) \ {c} : conn'[d] = conn[d]
          /\ \A d \in Conn : \/ conn'[d] = conn[d]
                             \/ d \in Of(k) /\ conn'[d] = NoConn
      BY <2>1, <3>2, OneGoes
    <3>5. \A d \in Of(k)' :
             ConnOK(conn[d])' /\ (Untouched(conn[d])' <=> Untouched(conn[d]))
      BY <3>4, StayOK
    <3>6. Writing(k)' = W
      BY <2>2, <3>4 DEF Writing, Running
    <3>7. Counted(k)'
      <4>1. s.wg = Bit(s.acceptor # "none") + Cardinality(S.conns) + Cardinality(W)
        BY <1>0, <1>1, <2>1, <3>3 DEF Bit
      <4> QED
        BY <1>0, <3>2, <3>3, <3>6, <4>1 DEF Counted
    <3>8. Slotted(k)'
      <4>1. S.conns = {d \in Of(k)' : conn'[d].pc # "resolved"}
        BY <1>0, <2>1, <3>4
      <4>2. \A d \in Conn : s.acceptor = d <=> d \in Of(k)' /\ conn'[d].pc = "resolved"
        BY <1>0, <1>1, <2>1, <3>3, <3>4
      <4> QED
        BY <3>2, <3>3, <4>1, <4>2 DEF Slotted
    <3>9. Staged(k)'
      BY <1>0, <1>1, <1>3, <2>1, <3>2, <3>3 DEF KernelOK, Staged
    <3>10. Closing(k)'
      <4>1. /\ S.snapshot \subseteq S.conns
            /\ S.pc # "snapped" => S.snapshot = {}
            /\ S.pc \in {"snapped", "closed"} =>
                  \A d \in Of(k) :
                     d \in S.snapshot \/ ~conn[d].open \/ Untouched(conn[d])
        BY <1>0 DEF KernelOK, Closing
      <4>2. ASSUME NEW d \in Of(k)', S.pc \in {"snapped", "closed"}
            PROVE  d \in S.snapshot \/ ~conn'[d].open \/ Untouched(conn[d])'
        <5>1. d \in Of(k) /\ conn'[d] = conn[d]
          BY <3>4, <4>2
        <5>2. d \in S.snapshot \/ ~conn[d].open \/ Untouched(conn[d])
          BY <4>1, <4>2, <5>1
        <5> QED
          BY <3>5, <4>2, <5>1, <5>2
      <4> QED
        BY <3>2, <3>3, <4>1, <4>2 DEF Closing
    <3>11. KernelOK(k)'
      BY <3>7, <3>8, <3>9, <3>10 DEF KernelOK
    <3> QED
      BY <3>2, <3>4, <3>5, <3>11, KernelMoves
  <2>4. CASE WithinLimits(k, conn[c].uid)
    <3>1. PICK s : s = Taken(S, c, conn[c].uid)
      OBVIOUS
    <3>2. PICK y : y = [conn[c] EXCEPT !.pc = "admitted"]
      OBVIOUS
    <3>3. /\ server' = [server EXCEPT ![k] = s] /\ server'[k] = s
          /\ conn' = [conn EXCEPT ![c] = y]
      BY <1>2, <1>7, <2>4, <3>1, <3>2 DEF Admit
    <3>4. /\ s.pc = S.pc /\ s.quit = S.quit /\ s.conns = S.conns \cup {c}
          /\ s.snapshot = S.snapshot /\ s.acceptor = "accept" /\ s.wg = S.wg + 1
      BY <1>0, <3>1 DEF Taken, ServerShape
    <3>5. /\ y \in ConnShape /\ y.kernel = k /\ y.pc = "admitted" /\ y.writer = "none"
          /\ y.ready = conn[c].ready /\ y.items = conn[c].items
      BY <2>1, <2>2, <3>2 DEF ConnShape
    <3>6. ConnOK(y) /\ Untouched(y) /\ ~Running(y)
      BY <2>2, <3>5 DEF ConnOK, Untouched, Running
    <3>7. /\ conn'[c] = y /\ \A d \in Conn \ {c} : conn'[d] = conn[d]
          /\ Of(k)' = Of(k) /\ Of(k) \subseteq Conn
      BY <2>1, <3>3, <3>5, OneConn DEF Of, Live
    <3>8. \A d \in Of(k) \ {c} :
             ConnOK(conn[d])' /\ (Untouched(conn[d])' <=> Untouched(conn[d]))
      BY <3>7, StayOK
    <3>9. ConnOK(conn[c])' /\ Untouched(conn[c])'
      BY <3>6, <3>7 DEF ConnOK, Untouched
    <3>10. Writing(k)' = W
      BY <2>2, <3>6, <3>7 DEF Writing, Running
    <3>11. Counted(k)'
      <4>1. /\ IsFiniteSet(S.conns \cup {c})
            /\ Cardinality(S.conns \cup {c}) = Cardinality(S.conns) + 1
        BY <1>0, <2>1, FS_AddElement
      <4>2. s.wg = Bit(s.acceptor # "none") + Cardinality(s.conns) + Cardinality(W)
        BY <1>0, <1>1, <2>1, <3>4, <4>1 DEF Bit
      <4> QED
        BY <1>0, <3>3, <3>4, <3>10, <4>1, <4>2 DEF Counted
    <3>12. Slotted(k)'
      <4>1. s.conns = {d \in Of(k)' : conn'[d].pc # "resolved"}
        BY <1>0, <2>1, <3>4, <3>5, <3>7
      <4>2. \A d \in Conn : s.acceptor = d <=> d \in Of(k)' /\ conn'[d].pc = "resolved"
        BY <1>0, <1>1, <2>1, <3>4, <3>5, <3>7
      <4> QED
        BY <3>3, <4>1, <4>2 DEF Slotted
    <3>13. Staged(k)'
      BY <1>0, <1>1, <1>3, <2>1, <3>3, <3>4 DEF KernelOK, Staged
    <3>14. Closing(k)'
      BY <1>0, <3>3, <3>4, <3>7, <3>8, <3>9 DEF KernelOK, Closing
    <3>15. KernelOK(k)'
      BY <3>11, <3>12, <3>13, <3>14 DEF KernelOK
    <3>16. \A d \in Of(k)' : ConnOK(conn[d])'
      BY <3>7, <3>8, <3>9
    <3>17. \A d \in Conn : \/ conn'[d] = conn[d]
                           \/ d \in Of(k) /\ conn'[d].kernel = k
      BY <2>1, <3>5, <3>7
    <3> QED
      BY <3>3, <3>15, <3>16, <3>17, KernelMoves
  <2> QED
    BY <2>3, <2>4
<1> QED
  BY <1>5, <1>6, <1>7 DEF Acceptor

\* A process ends, with all its connections.
LEMMA EndKeepsStop ==
    ASSUME Typed, StopInv, NEW k \in Kernel,
           server' = [server EXCEPT ![k] = Off],
           \A c \in Conn : conn'[c] = IF c \in Of(k) THEN NoConn ELSE conn[c]
    PROVE  StopInv'
<1>1. server'[k] = Off
  BY DEF Typed, ShapeOK
<1>2. /\ Of(k)' = {}
      /\ \A d \in Conn : \/ conn'[d] = conn[d]
                         \/ d \in Of(k) /\ conn'[d] = NoConn
  BY DEF Of, Live
<1>3. Writing(k)' = {}
  BY <1>2 DEF Writing
<1>4. Counted(k)'
  BY <1>1, <1>3, FS_EmptySet DEF Counted, Off, Bit
<1>5. Slotted(k)'
  BY <1>1, <1>2, ServerAssumption DEF Slotted, Off
<1>6. Staged(k)' /\ Closing(k)'
  BY <1>1, <1>2 DEF Staged, Closing, Off
<1> QED
  BY <1>1, <1>2, <1>4, <1>5, <1>6, KernelMoves DEF KernelOK

LEMMA ProcessKeepsStop ==
    ASSUME Typed, NamesInv, StopInv, NEW k \in Kernel, Process(k)
    PROVE  StopInv'
<1> DEFINE S == server[k]
           Early == {"off", "start", "locked", "cleared", "bound"}
           Late == {"quit", "snapped", "closed", "exit"}
<1>1. S \in ServerShape /\ KernelOK(k)
  BY DEF Typed, ShapeOK, StopInv
<1>2. ASSUME NEW s, server' = [server EXCEPT ![k] = s]
      PROVE  server'[k] = s
  BY <1>2 DEF Typed, ShapeOK
<1>3. S.pc \in Early => Of(k) = {} /\ S.acceptor = "none"
  BY <1>1 DEF KernelOK, Staged
\* No connection moves, and neither do the slots.
<1>4. ASSUME NEW s, UNCHANGED conn, server' = [server EXCEPT ![k] = s],
             s.conns = S.conns, s.acceptor = S.acceptor, s.wg = S.wg,
             s.pc \in Early => S.pc \in Early,
             s.pc \in Late => s.quit,
             s.snapshot \subseteq S.conns,
             s.pc # "snapped" => s.snapshot = {},
             s.pc \in {"snapped", "closed"} =>
                \A d \in Of(k) : d \in s.snapshot \/ ~conn[d].open \/ Untouched(conn[d])
      PROVE  StopInv'
  <2>1. Of(k)' = Of(k) /\ Writing(k)' = Writing(k)
    BY <1>4 DEF Of, Live, Writing
  <2>2. \A d \in Of(k) : ConnOK(conn[d])' /\ (Untouched(conn[d])' <=> Untouched(conn[d]))
    BY <1>4, StayOK DEF Of, Live
  <2>3. server'[k] = s
    BY <1>2, <1>4
  <2>4. Counted(k)'
    BY <1>1, <1>4, <2>1, <2>3 DEF KernelOK, Counted
  <2>5. Slotted(k)'
    BY <1>1, <1>4, <2>1, <2>3 DEF KernelOK, Slotted
  <2>6. Staged(k)'
    BY <1>3, <1>4, <2>1, <2>3 DEF Staged
  <2>7. Closing(k)'
    BY <1>4, <2>1, <2>2, <2>3 DEF Closing
  <2> QED
    BY <1>4, <2>1, <2>2, <2>4, <2>5, <2>6, <2>7, KernelMoves DEF KernelOK
<1>5. /\ S.snapshot \subseteq S.conns
      /\ S.pc # "snapped" => S.snapshot = {}
      /\ S.pc \in Late => S.quit
  BY <1>1 DEF KernelOK, Closing, Staged
<1>6. CASE Launch(k) \/ ClearStaleSocket(k) \/ Listen(k)
           \/ (AcquireSingletonLock(k) /\ lock = None)
  <2>1. PICK s : /\ server' = [server EXCEPT ![k] = s] /\ UNCHANGED conn
                 /\ s.conns = S.conns /\ s.acceptor = S.acceptor /\ s.wg = S.wg
                 /\ s.pc \in Early \ {"off"} /\ S.pc \in Early
                 /\ s.snapshot = S.snapshot
    <3> DEFINE s1(pc) == [S EXCEPT !.pc = pc]
               s2 == [S EXCEPT !.pc = "bound", !.listening = TRUE]
    <3>1. /\ UNCHANGED conn /\ S.pc \in Early
          /\ \/ \E pc \in {"start", "cleared", "locked"} :
                   server' = [server EXCEPT ![k] = s1(pc)]
             \/ server' = [server EXCEPT ![k] = s2]
      BY <1>6 DEF Launch, ClearStaleSocket, Listen, AcquireSingletonLock
    <3>2. ASSUME NEW pc \in {"start", "cleared", "locked"}, NEW s \in {s1(pc), s2}
          PROVE  /\ s.conns = S.conns /\ s.acceptor = S.acceptor /\ s.wg = S.wg
                 /\ s.pc \in Early \ {"off"} /\ s.snapshot = S.snapshot
      BY <1>1, <3>2 DEF ServerShape
    <3> HIDE DEF s1, s2, S
    <3> QED
      BY <3>1, <3>2
  <2> QED
    BY <1>4, <1>5, <2>1
<1>7. CASE Exit(k) \/ Crash(k) \/ StartFails(k)
           \/ (AcquireSingletonLock(k) /\ lock # None)
  <2>1. /\ server' = [server EXCEPT ![k] = Off]
        /\ \/ conn' = Gone(Of(k))
           \/ UNCHANGED conn /\ S.pc = "start"
    BY <1>7 DEF Exit, Crash, StartFails, AcquireSingletonLock
  <2>2. CASE UNCHANGED conn /\ S.pc = "start"
    <3>1. Of(k) = {}
      BY <1>3, <2>2
    <3> QED
      BY <2>1, <2>2, <3>1, EndKeepsStop
  <2>3. CASE conn' = Gone(Of(k))
    <3>1. \A d \in Conn : conn'[d] = IF d \in Of(k) THEN NoConn ELSE conn[d]
      BY <2>3 DEF Gone
    <3> QED
      BY <2>1, <3>1, EndKeepsStop
  <2> QED
    BY <2>1, <2>2, <2>3
<1>8. CASE Drained(k) \/ Abandoned(k) \/ Quit(k)
  <2>1. PICK s : /\ server' = [server EXCEPT ![k] = s] /\ UNCHANGED conn
                 /\ s.conns = S.conns /\ s.acceptor = S.acceptor /\ s.wg = S.wg
                 /\ s.pc \in {"quit", "exit"} /\ s.quit
                 /\ s.snapshot = S.snapshot /\ S.pc # "snapped"
    <3> DEFINE s1 == [S EXCEPT !.pc = "exit"]
               s2 == [S EXCEPT !.pc = "quit", !.quit = TRUE]
    <3>1. /\ UNCHANGED conn
          /\ \/ server' = [server EXCEPT ![k] = s1] /\ S.pc = "closed"
             \/ server' = [server EXCEPT ![k] = s2] /\ S.pc = "serving"
      BY <1>8 DEF Drained, Abandoned, ReleaseLock, Quit
    <3>2. S.pc = "closed" => S.quit
      BY <1>5
    <3>3. \A s \in {s1, s2} : /\ s.conns = S.conns /\ s.acceptor = S.acceptor
                              /\ s.wg = S.wg /\ s.snapshot = S.snapshot
                              /\ s.pc \in {"quit", "exit"}
      BY <1>1 DEF ServerShape
    <3>4. s1.quit = S.quit /\ s2.quit
      BY <1>1 DEF ServerShape
    <3> HIDE DEF s1, s2, S
    <3> QED
      BY <3>1, <3>2, <3>3, <3>4
  <2> QED
    BY <1>4, <1>5, <2>1
<1>9. CASE Snapshot(k)
  <2> DEFINE s == [S EXCEPT !.pc = "snapped", !.snapshot = S.conns]
  <2>1. server' = [server EXCEPT ![k] = s] /\ UNCHANGED conn /\ S.pc = "quit"
    BY <1>9 DEF Snapshot
  <2>2. /\ s.conns = S.conns /\ s.acceptor = S.acceptor /\ s.wg = S.wg
        /\ s.pc = "snapped" /\ s.quit = S.quit /\ s.snapshot = S.conns
    BY <1>1 DEF ServerShape
  <2>3. \A d \in Of(k) : d \in S.conns \/ Untouched(conn[d])
    BY <1>1 DEF KernelOK, Slotted, StopInv, ConnOK, Of
  <2> HIDE DEF s
  <2> QED
    BY <1>4, <1>5, <2>1, <2>2, <2>3
<1>10. CASE Serve(k)
  <2>1. PICK s : s = [S EXCEPT !.pc = "serving", !.acceptor = "accept", !.wg = 1]
    OBVIOUS
  <2>2. /\ server' = [server EXCEPT ![k] = s] /\ server'[k] = s
        /\ UNCHANGED conn /\ S.pc = "bound"
    <3>1. server' = [server EXCEPT ![k] = s] /\ UNCHANGED conn /\ S.pc = "bound"
      BY <1>10, <2>1 DEF Serve
    <3> QED
      BY <1>2, <3>1
  <2>3. /\ s.conns = S.conns /\ s.acceptor = "accept" /\ s.wg = 1
        /\ s.pc = "serving" /\ s.snapshot = S.snapshot
    BY <1>1, <2>1 DEF ServerShape
  <2>4. Of(k)' = {} /\ Writing(k)' = {} /\ S.conns = {} /\ S.snapshot = {}
    BY <1>1, <1>3, <1>5, <2>2 DEF KernelOK, Slotted, Writing, Of, Live
  <2>5. Counted(k)'
    BY <2>2, <2>3, <2>4, FS_EmptySet DEF Counted, Bit
  <2>6. Slotted(k)'
    BY <2>2, <2>3, <2>4, ServerAssumption DEF Slotted
  <2>7. Staged(k)' /\ Closing(k)'
    BY <2>2, <2>3, <2>4 DEF Staged, Closing
  <2> QED
    BY <2>2, <2>4, <2>5, <2>6, <2>7, KernelMoves DEF KernelOK
<1>11. CASE CloseAll(k)
  <2>1. PICK s : s = [S EXCEPT !.pc = "closed", !.listening = FALSE, !.snapshot = {}]
    OBVIOUS
  <2>2. /\ server' = [server EXCEPT ![k] = s] /\ server'[k] = s /\ S.pc = "snapped"
        /\ conn' = [d \in Conn |-> IF d \in S.snapshot THEN [conn[d] EXCEPT !.open = FALSE]
                                   ELSE conn[d]]
    <3>1. /\ server' = [server EXCEPT ![k].pc = "closed", ![k].listening = FALSE,
                                      ![k].snapshot = {}]
          /\ S.pc = "snapped"
          /\ conn' = [d \in Conn |-> IF d \in S.snapshot
                                     THEN [conn[d] EXCEPT !.open = FALSE]
                                     ELSE conn[d]]
      BY <1>11 DEF CloseAll
    <3>2. server' = [server EXCEPT ![k] = s]
      BY <2>1, <3>1
    <3> QED
      BY <1>2, <3>1, <3>2
  <2>3. /\ s.conns = S.conns /\ s.acceptor = S.acceptor /\ s.wg = S.wg
        /\ s.pc = "closed" /\ s.quit = S.quit /\ s.snapshot = {}
    BY <1>1, <2>1 DEF ServerShape
  <2>4. S.snapshot \subseteq Of(k) /\ Of(k) \subseteq Conn
    BY <1>1, <1>5 DEF KernelOK, Slotted, Of, Live
  <2>5. ASSUME NEW d \in Of(k)
        PROVE  /\ conn'[d].kernel = k /\ conn'[d] # NoConn
               /\ conn'[d].pc = conn[d].pc
               /\ Running(conn[d])' <=> Running(conn[d])
               /\ ConnOK(conn[d])'
               /\ ~conn'[d].open \/ Untouched(conn[d])'
    <3>1. /\ d \in Conn /\ conn[d] \in ConnShape /\ ConnOK(conn[d])
          /\ conn[d].kernel = k
          /\ d \in S.snapshot \/ ~conn[d].open \/ Untouched(conn[d])
      BY <1>1, <2>2, <2>4 DEF Typed, StopInv, Of, KernelOK, Closing
    <3>2. CASE d \in S.snapshot
      <4>1. PICK y : y = [conn[d] EXCEPT !.open = FALSE]
        OBVIOUS
      <4>2. conn'[d] = y
        BY <2>2, <3>1, <3>2, <4>1
      <4>3. /\ y \in ConnShape /\ y.kernel = k /\ y.pc = conn[d].pc
            /\ y.writer = conn[d].writer /\ y.shut = conn[d].shut
            /\ y.items = conn[d].items /\ y.wake = conn[d].wake
            /\ y.ready = conn[d].ready /\ ~y.open
        BY <3>1, <4>1 DEF ConnShape
      <4> QED
        BY <3>1, <4>2, <4>3, NoConnShape DEF ConnOK, Untouched, Running
    <3>3. CASE d \notin S.snapshot
      <4>1. conn'[d] = conn[d]
        BY <2>2, <3>1, <3>3
      <4>2. ~conn[d].open \/ Untouched(conn[d])
        BY <3>1, <3>3
      <4>3. ConnOK(conn[d])' /\ (Untouched(conn[d])' <=> Untouched(conn[d]))
        BY <4>1, StayOK
      <4> QED
        BY <3>1, <4>1, <4>2, <4>3, NoConnShape DEF Running
    <3> QED
      BY <3>2, <3>3
  <2>6. \A d \in Conn \ Of(k) : conn'[d] = conn[d]
    BY <2>2, <2>4
  <2>7. Of(k)' = Of(k)
    BY <2>4, <2>5, <2>6 DEF Of, Live
  <2>8. Writing(k)' = Writing(k)
    <3>1. \A d \in Of(k) : Running(conn[d])' <=> Running(conn[d])
      BY <2>5
    <3> QED
      BY <2>7, <3>1 DEF Writing
  <2>9. Counted(k)'
    BY <1>1, <2>2, <2>3, <2>8 DEF KernelOK, Counted
  <2>10. Slotted(k)'
    <3>1. /\ S.conns = {d \in Of(k) : conn[d].pc # "resolved"}
          /\ \A d \in Conn :
                S.acceptor = d <=> d \in Of(k) /\ conn[d].pc = "resolved"
      BY <1>1 DEF KernelOK, Slotted
    <3>2. \A d \in Of(k) : conn'[d].pc = conn[d].pc
      BY <2>5
    <3>3. S.conns = {d \in Of(k)' : conn'[d].pc # "resolved"}
      BY <2>7, <3>1, <3>2
    <3>4. \A d \in Conn : S.acceptor = d <=> d \in Of(k)' /\ conn'[d].pc = "resolved"
      BY <2>7, <3>1, <3>2
    <3> QED
      BY <2>2, <2>3, <3>3, <3>4 DEF Slotted
  <2>11. Staged(k)' /\ Closing(k)'
    <3>1. s.quit
      BY <1>5, <2>2, <2>3
    <3> QED
      BY <2>2, <2>3, <2>5, <2>7, <3>1 DEF Staged, Closing
  <2>12. \A d \in Conn : \/ conn'[d] = conn[d]
                         \/ d \in Of(k) /\ conn'[d].kernel = k
    BY <2>5, <2>6
  <2> QED
    BY <2>2, <2>5, <2>7, <2>9, <2>10, <2>11, <2>12, KernelMoves DEF KernelOK
<1> QED
  BY <1>6, <1>7, <1>8, <1>9, <1>10, <1>11 DEF Process

LEMMA StopKept == Spec => [](NamesInv /\ SenderInv /\ StopInv)
<1>1. Init => StopInv
  <2> SUFFICES ASSUME Init
               PROVE  StopInv
    OBVIOUS
  <2>1. /\ \A k \in Kernel : server[k] = Off
        /\ Live = {}
    BY DEF Init, Live
  <2>2. \A k \in Kernel : Of(k) = {} /\ Writing(k) = {}
    BY <2>1 DEF Of, Writing
  <2>3. ASSUME NEW k \in Kernel
        PROVE  KernelOK(k)
    <3>1. Counted(k)
      BY <2>1, <2>2, FS_EmptySet DEF Counted, Off, Bit
    <3>2. Slotted(k)
      BY <2>1, <2>2, ServerAssumption DEF Slotted, Off
    <3>3. Staged(k) /\ Closing(k)
      BY <2>1, <2>2 DEF Staged, Closing, Off
    <3> QED
      BY <3>1, <3>2, <3>3 DEF KernelOK
  <2> QED
    BY <2>1, <2>3 DEF StopInv
<1>2. NamesInv /\ SenderInv /\ StopInv /\ [Next]_vars => StopInv'
  <2> SUFFICES ASSUME NamesInv, SenderInv, StopInv, [Next]_vars
               PROVE  StopInv'
    OBVIOUS
  <2>1. Typed
    BY InvariantsType
  <2>2. CASE Environment \/ UNCHANGED vars
    <3>1. UNCHANGED <<server, conn>>
      BY <2>2 DEF Environment, Commit, Uninstall, vars
    <3>2. \A k \in Kernel : Of(k)' = Of(k)
      BY <3>1 DEF Of, Live
    <3>3. \A k \in Kernel : KernelOK(k)'
      BY <3>1, <3>2, OtherKernel DEF StopInv
    <3>4. \A c \in Live' : ConnOK(conn[c])'
      BY <3>1 DEF Live, StopInv, ConnOK, Untouched
    <3> QED
      BY <3>3, <3>4 DEF StopInv
  <2>3. ASSUME NEW c \in Conn, Deliver(c) \/ WriterStep(c) \/ ServeStep(c)
        PROVE  StopInv'
    BY <2>1, <2>3, WriterTurns, ServeTurns, GoroutineSteps, ReleaseKeepsStop
       DEF WriterStep, ServeStep
  <2> QED
    BY <2>1, <2>2, <2>3, ProcessKeepsStop, AcceptorKeepsStop DEF Next
<1> QED
  BY <1>1, <1>2, NamesKept, SenderKept, PTL DEF Spec

\* Stop closes what it knows of, and a connection admitted meanwhile looks at
\* quit before it reads (ipc.go:837): whatever Stop's wait waits for ends by
\* itself, and a wait that ends has left no goroutine and no slot.
THEOREM StopNeedsNoPeer == Spec => []StopWaitsForNoPeer
<1>1. NamesInv /\ SenderInv /\ StopInv => StopWaitsForNoPeer
  BY InvariantsType, StopGives
<1> QED
  BY <1>1, StopKept, PTL
=============================================================================
