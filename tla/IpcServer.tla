------------------------------ MODULE IpcServer ------------------------------
(***************************************************************************)
(* internal/ipc's Server: how nervud comes to own its socket and gives it  *)
(* up, whom it admits, and the life of one connection from its accept to   *)
(* the return of its slot.                                                 *)
(*                                                                         *)
(* Kernel is the nervud processes of one machine, in the order they start: *)
(* a restart by hand or by systemd overlaps an old one that drains, or     *)
(* follows one that died and left its socket behind. They share two names: *)
(*   lock  the abstract socket that only one process can hold and that the *)
(*         machine frees when its holder dies;                             *)
(*   path  the socket file, which whoever may write the directory can      *)
(*         remove, a live listener's included.                             *)
(* A connection is served by one goroutine (conn[c].pc) and written by     *)
(* another (conn[c].writer), which an outbox joins. What a frame makes the *)
(* server do, and what the end of a connection makes its registries do,    *)
(* are RequestRouting's, EventFanout's, EndpointRegistry's,                *)
(* TransferSession's and ControlLease's: a frame is handled here with at   *)
(* most one answer.                                                        *)
(***************************************************************************)
EXTENDS Integers, FiniteSets

CONSTANTS
    Conn,               \* the connections that can exist at one time
    UID,                \* the user ids that connect
    AppUID,             \* those in the range of the apps
    MaxConns, MaxConnsPerUID,   \* Limits of ipc.go
    AcceptFailureLimit,         \* consecutive failures that end the acceptor
    QueueLimit,         \* the envelopes an outbox holds
    MaxGeneration,      \* bound: the package generations handed out
    MaxLaunch,          \* bound: the nervud processes started
    Busy,               \* bound: those of them that peers connect to
    None, Dead          \* Dead: a socket file that no process listens on

Kernel == 1..MaxLaunch

ASSUME ServerAssumption ==
    /\ AppUID \subseteq UID
    /\ MaxConns \in Nat \ {0} /\ MaxConnsPerUID \in Nat \ {0}
    /\ AcceptFailureLimit \in Nat \ {0} /\ QueueLimit \in Nat \ {0}
    /\ MaxLaunch \in Nat /\ Busy \subseteq Kernel
    /\ None \notin Kernel \cup Conn /\ Dead \notin Kernel \cup {None}
    /\ Conn \cap {"none", "accept", "backoff"} = {}

VARIABLES
    lock, path,         \* the two names above
    server,             \* [Kernel -> ServerState]
    conn,               \* [Conn -> ConnState], or NoConn
    owner,              \* [UID -> generation of the package it is], 0 for none
    lastGeneration, launches

vars == <<lock, path, server, conn, owner, lastGeneration, launches>>
environment == <<owner, lastGeneration>>
names == <<lock, path>>

Generation == 0..MaxGeneration

ServerState == [
    pc : {"off", "start", "locked", "cleared", "bound", "serving",
          "quit", "snapped", "closed", "exit"},
    listening : BOOLEAN,        \* ln accepts
    quit : BOOLEAN,             \* the channel quit is closed
    acceptor : {"none", "accept", "backoff"} \cup Conn,   \* or admits this one
    failures : 0..AcceptFailureLimit,   \* at the limit, fatal holds the error
    conns : SUBSET Conn,
    perUID : [UID -> Nat],
    snapshot : SUBSET Conn,     \* what Stop is going to close
    wg : Nat]                   \* the count of the WaitGroup

ConnState == [
    kernel : Kernel, uid : UID,
    pc : {"resolved", "admitted", "loop", "read", "frame", "handle",
          "teardown", "drain"},
    open : BOOLEAN,             \* this end of the socket
    caller : Generation,        \* caller.Generation
    ready : BOOLEAN,            \* phaseReady
    items : 0..QueueLimit, shut : BOOLEAN, wake : BOOLEAN,      \* outbox
    writer : {"none", "run", "sleep", "write", "done"},
    readAs : BOOLEAN]           \* the identity held when the frame came in

Off == [pc |-> "off", listening |-> FALSE, quit |-> FALSE, acceptor |-> "none",
        failures |-> 0, conns |-> {},
        perUID |-> [u \in UID |-> 0], snapshot |-> {}, wg |-> 0]

NoConn == [pc |-> None]

Live == {c \in Conn : conn[c] # NoConn}
At(c, pc) == conn[c] # NoConn /\ conn[c].pc = pc
Of(k) == {c \in Live : conn[c].kernel = k}

TypeOK ==
    /\ lock \in Kernel \cup {None}
    /\ path \in Kernel \cup {None, Dead}
    /\ server \in [Kernel -> ServerState]
    /\ conn \in [Conn -> ConnState \cup {NoConn}]
    /\ owner \in [UID -> Generation]
    /\ lastGeneration \in Generation /\ launches \in 0..MaxLaunch

Init ==
    /\ lock = None /\ path = None
    /\ server = [k \in Kernel |-> Off]
    /\ conn = [c \in Conn |-> NoConn]
    /\ owner = [u \in UID |-> 0]
    /\ lastGeneration = 0 /\ launches = 0

Gone(S) == [c \in Conn |-> IF c \in S THEN NoConn ELSE conn[c]]

----------------------------------------------------------------------------
(* Start and the process around it.                                        *)

Launch(k) ==
    /\ server[k].pc = "off" /\ k = launches + 1
    /\ launches' = k
    /\ server' = [server EXCEPT ![k].pc = "start"]
    /\ UNCHANGED <<names, conn, environment>>

AcquireSingletonLock(k) ==
    /\ server[k].pc = "start"
    /\ IF lock = None
       THEN lock' = k /\ server' = [server EXCEPT ![k].pc = "locked"]
       ELSE server' = [server EXCEPT ![k] = Off] /\ UNCHANGED lock
    /\ UNCHANGED <<path, conn, environment, launches>>

(* Whatever socket is there goes, looked at only through the lock.         *)
ClearStaleSocket(k) ==
    /\ server[k].pc = "locked"
    /\ path' = None
    /\ server' = [server EXCEPT ![k].pc = "cleared"]
    /\ UNCHANGED <<lock, conn, environment, launches>>

Listen(k) ==
    /\ server[k].pc = "cleared" /\ path = None
    /\ path' = k
    /\ server' = [server EXCEPT ![k].pc = "bound", ![k].listening = TRUE]
    /\ UNCHANGED <<lock, conn, environment, launches>>

(* A step of Start fails (the directory, a file that is no socket, bind,   *)
(* chmod): the listener goes, and its file with it, and then the lock.     *)
StartFails(k) ==
    /\ server[k].pc \in {"locked", "cleared", "bound"}
    /\ path' = IF server[k].listening THEN None ELSE path
    /\ lock' = None
    /\ server' = [server EXCEPT ![k] = Off]
    /\ conn' = Gone(Of(k))
    /\ UNCHANGED <<environment, launches>>

Serve(k) ==
    /\ server[k].pc = "bound"
    /\ server' = [server EXCEPT ![k].pc = "serving", ![k].acceptor = "accept",
                                ![k].wg = 1]
    /\ UNCHANGED <<names, conn, environment, launches>>

(* The process dies, wherever it is: its sockets close and its file stays. *)
Crash(k) ==
    /\ server[k].pc # "off"
    /\ lock' = IF lock = k THEN None ELSE lock
    /\ path' = IF path = k THEN Dead ELSE path
    /\ server' = [server EXCEPT ![k] = Off]
    /\ conn' = Gone(Of(k))
    /\ UNCHANGED <<environment, launches>>

----------------------------------------------------------------------------
(* Stop.                                                                   *)

(* A signal, or the error the acceptor left.                               *)
Quit(k) ==
    /\ server[k].pc = "serving"
    /\ server' = [server EXCEPT ![k].pc = "quit", ![k].quit = TRUE]
    /\ UNCHANGED <<names, conn, environment, launches>>

Snapshot_LockFirst(k) ==        \* gives the lock up before the listener
    /\ server[k].pc = "quit"
    /\ lock' = None
    /\ server' = [server EXCEPT ![k].pc = "snapped",
                                ![k].snapshot = server[k].conns]
    /\ UNCHANGED <<path, conn, environment, launches>>

Snapshot(k) ==
    /\ server[k].pc = "quit"
    /\ server' = [server EXCEPT ![k].pc = "snapped",
                                ![k].snapshot = server[k].conns]
    /\ UNCHANGED <<names, conn, environment, launches>>

(* The listener closes, which removes its file, and so does every          *)
(* connection of the snapshot.                                             *)
CloseAll(k) ==
    /\ server[k].pc = "snapped"
    /\ path' = None
    /\ server' = [server EXCEPT ![k].pc = "closed", ![k].listening = FALSE,
                                ![k].snapshot = {}]
    /\ conn' = [c \in Conn |->
          IF c \in server[k].snapshot THEN [conn[c] EXCEPT !.open = FALSE]
          ELSE conn[c]]
    /\ UNCHANGED <<lock, environment, launches>>

ReleaseLock(k) ==
    /\ server[k].pc = "closed"
    /\ lock' = None
    /\ server' = [server EXCEPT ![k].pc = "exit"]
    /\ UNCHANGED <<path, conn, environment, launches>>

Drained(k) == server[k].wg = 0 /\ ReleaseLock(k)

(* ctx is done first: the goroutines are left to the end of the process,   *)
(* and the lock is given up all the same.                                  *)
Abandoned(k) == server[k].wg # 0 /\ ReleaseLock(k)

Exit(k) ==
    /\ server[k].pc = "exit"
    /\ server' = [server EXCEPT ![k] = Off]
    /\ conn' = Gone(Of(k))
    /\ UNCHANGED <<names, environment, launches>>

----------------------------------------------------------------------------
(* The acceptor.                                                           *)

Accepted(k, u) ==
    [kernel |-> k, uid |-> u, pc |-> "resolved", open |-> TRUE,
     caller |-> owner[u], ready |-> FALSE, items |-> 0, shut |-> FALSE,
     wake |-> FALSE, writer |-> "none", readAs |-> FALSE]

(* A peer of user u has reached the listener whose file is at the path: it *)
(* is accepted and resolved, before the lock, or closed at once.           *)
Accept(k, c, u) ==
    /\ k \in Busy
    /\ server[k].acceptor = "accept" /\ server[k].listening /\ path = k
    /\ conn[c] = NoConn
    /\ IF u \in AppUID /\ owner[u] # 0
       THEN /\ conn' = [conn EXCEPT ![c] = Accepted(k, u)]
            /\ server' = [server EXCEPT ![k].acceptor = c, ![k].failures = 0]
       ELSE /\ server' = [server EXCEPT ![k].failures = 0]
            /\ UNCHANGED conn
    /\ UNCHANGED <<names, environment, launches>>

WithinLimits(k, u) ==
    /\ Cardinality(server[k].conns) < MaxConns
    /\ server[k].perUID[u] < MaxConnsPerUID

Count(f, u, n) == [f EXCEPT ![u] = @ + n]

Taken(s, c, u) ==
    [s EXCEPT !.acceptor = "accept", !.conns = @ \cup {c},
              !.perUID = Count(@, u, 1), !.wg = @ + 1]

(* The limits are checked, and the slot taken, under one lock; quit is not *)
(* looked at, so a connection may be admitted after Stop's snapshot.       *)
Admit(k, c) ==
    /\ server[k].acceptor = c /\ At(c, "resolved")
    /\ LET u == conn[c].uid
       IN IF WithinLimits(k, u)
          THEN /\ conn' = [conn EXCEPT ![c].pc = "admitted"]
               /\ server' = [server EXCEPT ![k] = Taken(@, c, u)]
          ELSE /\ conn' = Gone({c})
               /\ server' = [server EXCEPT ![k].acceptor = "accept"]
    /\ UNCHANGED <<names, environment, launches>>

AcceptorEnds(k, failures) ==
    server' = [server EXCEPT ![k].acceptor = "none", ![k].wg = @ - 1,
                             ![k].failures = failures]

(* Accept fails: descriptors run out, or Stop closed the listener.         *)
AcceptFails(k) ==
    /\ server[k].acceptor = "accept"
    /\ IF server[k].quit THEN AcceptorEnds(k, server[k].failures)
       ELSE IF server[k].failures + 1 = AcceptFailureLimit
            THEN AcceptorEnds(k, AcceptFailureLimit)
            ELSE server' = [server EXCEPT ![k].acceptor = "backoff",
                                           ![k].failures = @ + 1]
    /\ UNCHANGED <<names, conn, environment, launches>>

BackoffEnds(k) ==
    /\ server[k].acceptor = "backoff"
    /\ \/ server' = [server EXCEPT ![k].acceptor = "accept"]
       \/ server[k].quit /\ AcceptorEnds(k, server[k].failures)
    /\ UNCHANGED <<names, conn, environment, launches>>

----------------------------------------------------------------------------
(* The outbox of a connection, and its writer.                             *)

Shut(co) == [co EXCEPT !.shut = TRUE, !.wake = IF co.shut THEN @ ELSE TRUE]

Fits(co) == ~co.shut /\ co.items < QueueLimit

(* enqueue: what does not fit closes the connection.                       *)
Enqueue(co) ==
    IF Fits(co) THEN [co EXCEPT !.items = @ + 1, !.wake = TRUE]
    ELSE [Shut(co) EXCEPT !.open = FALSE]

Turn(c, co) ==
    /\ conn' = [conn EXCEPT ![c] = co]
    /\ UNCHANGED <<names, server, environment, launches>>

(* Another goroutine answers or dispatches to this connection.             *)
Deliver(c) ==
    /\ conn[c] # NoConn
    /\ conn[c].writer # "none" /\ conn[c].ready
    /\ Turn(c, Enqueue(conn[c]))

WriterPops(c) ==
    /\ conn[c] # NoConn /\ conn[c].writer = "run"
    /\ \/ /\ conn[c].items > 0
          /\ Turn(c, [conn[c] EXCEPT !.items = @ - 1, !.writer = "write"])
       \/ /\ conn[c].items = 0 /\ ~conn[c].shut
          /\ Turn(c, [conn[c] EXCEPT !.writer = "sleep"])

WriterWakes(c) ==
    /\ conn[c] # NoConn /\ conn[c].writer = "sleep" /\ conn[c].wake
    /\ Turn(c, [conn[c] EXCEPT !.writer = "run", !.wake = FALSE])

(* The peer takes what is written, or does not until the deadline passes.  *)
Written(c) ==
    /\ conn[c] # NoConn /\ conn[c].writer = "write" /\ conn[c].open
    /\ Turn(c, [conn[c] EXCEPT !.writer = "run"])

WriterEnds(c, co) ==
    /\ conn' = [conn EXCEPT ![c] = [co EXCEPT !.writer = "done"]]
    /\ server' = [server EXCEPT ![co.kernel].wg = @ - 1]
    /\ UNCHANGED <<names, environment, launches>>

WriteFails(c) ==
    /\ conn[c] # NoConn /\ conn[c].writer = "write"
    /\ WriterEnds(c, [Shut(conn[c]) EXCEPT !.open = FALSE])

WriterDrained(c) ==
    /\ conn[c] # NoConn /\ conn[c].writer = "run"
    /\ conn[c].items = 0 /\ conn[c].shut
    /\ WriterEnds(c, conn[c])

----------------------------------------------------------------------------
(* The goroutine that serves a connection.                                 *)

StartServe(c) ==
    /\ At(c, "admitted")
    /\ conn' = [conn EXCEPT ![c].pc = "loop", ![c].writer = "run"]
    /\ server' = [server EXCEPT ![conn[c].kernel].wg = @ + 1]
    /\ UNCHANGED <<names, environment, launches>>

CheckQuit_Skipped(c) ==         \* reads on without a look at quit
    At(c, "loop") /\ Turn(c, [conn[c] EXCEPT !.pc = "read"])

CheckQuit(c) ==
    /\ At(c, "loop")
    /\ Turn(c, [conn[c] EXCEPT !.pc =
                   IF server[conn[c].kernel].quit THEN "teardown" ELSE "read"])

(* One deadline for the header (HandshakeTimeout, then IdleTimeout) and    *)
(* one for the body bound the wait; the socket may also be closed at either*)
(* end, or the frame be no frame.                                          *)
ReadFails(c) == At(c, "read") /\ Turn(c, [conn[c] EXCEPT !.pc = "teardown"])

IdentityStillValid(co) == owner[co.uid] # 0 /\ owner[co.uid] = co.caller

FrameArrives(c) ==
    /\ At(c, "read") /\ conn[c].open
    /\ Turn(c, [conn[c] EXCEPT !.pc = "frame",
                               !.readAs = owner[conn[c].uid] = conn[c].caller])

CheckFrame_Package(c) ==        \* any generation of the package will do
    /\ At(c, "frame")
    /\ \/ /\ owner[conn[c].uid] # 0
          /\ Turn(c, [conn[c] EXCEPT !.pc = "handle"])
       \/ Turn(c, [conn[c] EXCEPT !.pc = "teardown"])

(* The rate, the identity and the envelope are checked for every frame.    *)
CheckFrame(c) ==
    /\ At(c, "frame")
    /\ \/ /\ IdentityStillValid(conn[c])
          /\ Turn(c, [conn[c] EXCEPT !.pc = "handle"])
       \/ Turn(c, [conn[c] EXCEPT !.pc = "teardown"])

Failed(co) == [Enqueue(co) EXCEPT !.pc = "teardown"]

(* Whether the Hello's version is one of ours and the peer's unit is a     *)
(* component of the caller's package and generation is the peer's and the  *)
(* service manager's to say.                                               *)
HandleHandshake(c) ==
    /\ At(c, "handle") /\ ~conn[c].ready
    /\ \/ Turn(c, [conn[c] EXCEPT !.pc = "teardown"])       \* not a Hello
       \/ Turn(c, Failed(conn[c]))      \* the version, or verifyComponent
       \/ Turn(c, IF Fits(conn[c])
                  THEN [Enqueue(conn[c]) EXCEPT !.pc = "loop", !.ready = TRUE]
                  ELSE Failed(conn[c]))

(* A frame of a ready connection: no answer, one answer, or a violation.   *)
HandleReady(c) ==
    /\ At(c, "handle") /\ conn[c].ready
    /\ \/ Turn(c, [conn[c] EXCEPT !.pc = "loop"])
       \/ Turn(c, [Enqueue(conn[c]) EXCEPT !.pc = "loop"])
       \/ Turn(c, [conn[c] EXCEPT !.pc = "teardown"])

(* The deferred calls, last of them the outbox's close.                    *)
Teardown(c) ==
    /\ At(c, "teardown")
    /\ Turn(c, [Shut(conn[c]) EXCEPT !.pc = "drain"])

Returned(s, c, u) ==
    [s EXCEPT !.conns = @ \ {c}, !.perUID = Count(@, u, -1),
              !.snapshot = @ \ {c}, !.wg = @ - 1]

(* The writer is done; the socket closes and the slot goes back.           *)
Release(c) ==
    /\ At(c, "drain") /\ conn[c].writer = "done"
    /\ conn' = Gone({c})
    /\ server' = [server EXCEPT ![conn[c].kernel] =
                      Returned(@, c, conn[c].uid)]
    /\ UNCHANGED <<names, environment, launches>>

----------------------------------------------------------------------------
(* The package registry, as the server sees it: a commit gives a package a *)
(* generation that was never given before.                                 *)

Commit(u) ==
    /\ u \in AppUID /\ lastGeneration < MaxGeneration
    /\ lastGeneration' = lastGeneration + 1
    /\ owner' = [owner EXCEPT ![u] = lastGeneration + 1]
    /\ UNCHANGED <<names, server, conn, launches>>

Uninstall(u) ==
    /\ owner[u] # 0
    /\ owner' = [owner EXCEPT ![u] = 0]
    /\ UNCHANGED <<names, server, conn, lastGeneration, launches>>

----------------------------------------------------------------------------
Environment == \E u \in UID : Commit(u) \/ Uninstall(u)

Process(k) ==
    \/ Launch(k) \/ AcquireSingletonLock(k) \/ ClearStaleSocket(k) \/ Listen(k)
    \/ StartFails(k) \/ Serve(k) \/ Crash(k)
    \/ Quit(k) \/ Snapshot(k) \/ CloseAll(k) \/ Drained(k) \/ Abandoned(k)
    \/ Exit(k)

Acceptor(k) ==
    \/ \E c \in Conn : Admit(k, c) \/ \E u \in UID : Accept(k, c, u)
    \/ AcceptFails(k) \/ BackoffEnds(k)

WriterStep(c) ==
    WriterPops(c) \/ WriterWakes(c) \/ Written(c) \/ WriteFails(c)
        \/ WriterDrained(c)

ServeStep(c) ==
    StartServe(c) \/ CheckQuit(c) \/ ReadFails(c) \/ FrameArrives(c)
        \/ CheckFrame(c) \/ HandleHandshake(c) \/ HandleReady(c)
        \/ Teardown(c) \/ Release(c)

Next ==
    \/ Environment
    \/ \E k \in Kernel : Process(k) \/ Acceptor(k)
    \/ \E c \in Conn :
          Deliver(c) \/ WriterStep(c) \/ ServeStep(c)

Spec == Init /\ [][Next]_vars

----------------------------------------------------------------------------
(* A process that listens holds the lock, and the file at the path is its  *)
(* own: no restart, failed start, late Stop or removal of a stale socket   *)
(* unlinks a listener that lives, which clients then could not reach.      *)
OneListener ==
    \A k \in Kernel : server[k].listening => lock = k /\ path = k

(* No frame is acted on that came in when its sender's package was already *)
(* uninstalled or replaced, whatever was committed since.                  *)
RevokedIsNotServed ==
    \A c \in Live : conn[c].pc = "handle" => conn[c].readAs

Quiet(k) ==
    server[k].acceptor = "none" /\ server[k].conns = {} /\ Of(k) = {}

(* wg counts what runs: a Stop whose wait ends has left no goroutine and no*)
(* slot taken, whatever ended or was admitted while it waited. And nothing *)
(* that Stop waits for waits for a peer or for a deadline: when it has      *)
(* closed what it knew of, no goroutine of the server, not even of a       *)
(* connection admitted meanwhile, is blocked on a socket that is open, and *)
(* no writer sleeps through an outbox that has something for it or is shut.*)
DrainedIsQuiet ==
    \A k \in Kernel :
        server[k].pc \in {"closed", "exit"} /\ server[k].wg = 0 => Quiet(k)
StopWaitsForNoPeer ==
    /\ \A k \in Kernel : server[k].pc = "closed" =>
          /\ ~server[k].listening
          /\ \A c \in Of(k) :
                /\ conn[c].open => conn[c].pc # "read" /\ conn[c].writer # "write"
                /\ conn[c].writer = "sleep" /\ (conn[c].shut \/ conn[c].items > 0)
                      => conn[c].wake
    /\ DrainedIsQuiet
=============================================================================
