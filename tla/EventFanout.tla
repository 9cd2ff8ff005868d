----------------------------- MODULE EventFanout -----------------------------
(***************************************************************************)
(* Subscriptions and their events: subscription.Registry, the scopes that  *)
(* bind one instance of a provider's state to the connection that created  *)
(* it, the events of long-running operations, and the outbound queue of    *)
(* each connection, which may be full.                                     *)
(*                                                                         *)
(* A connection's requests are handled one after the other by its own      *)
(* goroutine, which is also where a provider publishes; the operation      *)
(* manager publishes from any goroutine, under its lock.  A publication    *)
(* holds the registry's lock for as long as it delivers, one subscription  *)
(* after the other; the queues it delivers to have their own locks.  A     *)
(* refused request changes nothing but its own answer, and is left out.    *)
(***************************************************************************)
EXTENDS Integers, SequencesExt

CONSTANTS
    Conn,          \* connections
    Client,        \* those that subscribe
    Provider,      \* those of components that provide an interface with events
    Operation,     \* long-running operations
    Sees,          \* connection |-> operations of its own package
    Instance,      \* a provider's instances, the scopes of its scoped events
    Event,         \* events of the providers' interface
    Scoped,        \* those whose subscription names an instance
    Manager,       \* the operation manager, a publisher as the providers are
    Changed,       \* its event, scoped by the operation
    Class,         \* event |-> the delivery class its schema declares
    Size,          \* bound: sizes of a payload
    MaxBytes,      \* maxOutboundBytes: of one connection's queue
    MaxSubscribe,  \* bound: subscriptions of one connection
    MaxPublish,    \* bound: events
    None

ASSUME EventAssumption ==
    /\ Provider \cup Client \subseteq Conn /\ Scoped \subseteq Event /\ Manager \notin Conn
    /\ Changed \notin Event /\ MaxSubscribe \in Nat
    /\ Class \in [Event \cup {Changed} -> {"unspecified", "reliable", "state", "lossy"}]
    /\ Size \subseteq Nat \ {0} /\ MaxBytes \in Nat

VARIABLES
    stage,      \* connection |-> teardown steps done
    serving,    \* providers whose endpoint is registered
    owner,      \* eventScopes: <<provider, instance>> |-> connection
    operation,  \* "running" or "ended"
    subs,       \* Registry: <<connection, id>> |-> subscription
    nextID,     \* connection |-> subscriptions so far
    outbox,     \* connection |-> all that was queued, how much of it is written
    handler,    \* connection |-> what its goroutine is in the middle of
    work,       \* publisher |-> its publication and closeSubscriptions
    published   \* events so far

scopes == <<serving, owner>>
eventVars == <<stage, scopes, operation, subs, nextID, outbox, handler, work, published>>

Handle == 1..MaxSubscribe
Publisher == Provider \cup {Manager}

Nothing == [op |-> "idle"]
Rest == [size |-> 0, deliver |-> {}, todo |-> {}, told |-> {}, ends |-> {}]

\* A publication is over when nothing of it is left.
Busy(w) ==
    \/ work[w].deliver # {} \/ work[w].todo # {} \/ work[w].told # {} \/ work[w].ends # {}

\* Registry.mu, which Publish holds while it delivers.
Unlocked == \A w \in Publisher : work[w].deliver = {}
Idle(c) == /\ stage[c] = 0 /\ handler[c] = Nothing
           /\ c \in Provider => ~Busy(c)

\* The two indexes of Registry, which are changed together.
Put(f, k, v) == [x \in DOMAIN f \cup {k} |-> IF x = k THEN v ELSE f[x]]
Without(keys) == Restrict(subs, DOMAIN subs \ keys)

Waiting(box) == SubSeq(box.sent, box.taken + 1, Len(box.sent))
Bytes(messages) == FoldLeft(LAMBDA n, m : n + m.size, 0, messages)

\* Messages to a connection.
Control(kind, id) == [kind |-> kind, id |-> id, size |-> 1]
Answers == [kind : {"subscribed", "unsubscribed"}, id : Handle, size : {1}]
Message ==
    [kind : {"event"}, id : Handle, event : Event \cup {Changed}, sequence : Nat,
     dropped : Nat, size : Size]
    \cup Answers \cup [kind : {"closed"}, id : Handle, size : {1}]

Keys == [provider : Publisher, event : Event \cup {Changed},
         scope : Instance \cup Operation \cup {None}]

Subscription == [key : Keys, sequence : Nat, dropped : Nat]
Box == [sent : Seq(Message), taken : Nat, closed : BOOLEAN]
Doing == {Nothing} \cup [op : {"subscribe"}, key : Keys]
         \cup [op : {"reply"}, message : Answers]
         \cup [op : {"bind"}, scope : Instance, owner : Conn]
Work == [size : Size \cup {0}, deliver : SUBSET (Conn \X Handle),
         todo : SUBSET (Conn \X Handle), told : SUBSET (Conn \X Handle),
         ends : SUBSET Operation]

EventTypeOK ==
    /\ stage \in [Conn -> 0..5] /\ serving \subseteq Provider
    /\ DOMAIN owner \subseteq Provider \X Instance
    /\ \A x \in DOMAIN owner : owner[x] \in Conn
    /\ operation \in [Operation -> {"running", "ended"}]
    /\ DOMAIN subs \subseteq Conn \X Handle
    /\ \A k \in DOMAIN subs : subs[k] \in Subscription
    /\ nextID \in [Conn -> 0..MaxSubscribe]
    /\ outbox \in [Conn -> Box] /\ handler \in [Conn -> Doing]
    /\ work \in [Publisher -> Work] /\ published \in Nat

EventInit ==
    /\ stage = [c \in Conn |-> 0] /\ serving = Provider /\ owner = <<>>
    /\ operation = [o \in Operation |-> "running"]
    /\ subs = <<>> /\ nextID = [c \in Conn |-> 0]
    /\ outbox = [c \in Conn |-> [sent |-> <<>>, taken |-> 0, closed |-> FALSE]]
    /\ handler = [c \in Conn |-> Nothing] /\ work = [w \in Publisher |-> Rest]
    /\ published = 0

----------------------------------------------------------------------------
(***************************************************************************)
(* The outbound queue.                                                     *)
(***************************************************************************)
Fits(box, m) == ~box.closed /\ Bytes(Waiting(box)) + m.size <= MaxBytes
Push(box, m) == IF Fits(box, m) THEN [box EXCEPT !.sent = Append(@, m)] ELSE box

\* enqueue: whoever does not fit an answer of its own loses the connection.
Answer(c) ==
    /\ handler[c].op = "reply"
    /\ LET m == handler[c].message
       IN  outbox' = [outbox EXCEPT ![c] =
               IF Fits(@, m) THEN Push(@, m) ELSE [@ EXCEPT !.closed = TRUE]]
    /\ handler' = [handler EXCEPT ![c] = Nothing]
    /\ UNCHANGED <<stage, scopes, operation, subs, nextID, work, published>>

\* runWriter, whose socket may fail.
Write(c) ==
    /\ stage[c] < 5
    /\ \/ Waiting(outbox[c]) # <<>> /\ outbox' = [outbox EXCEPT ![c].taken = @ + 1]
       \/ ~outbox[c].closed /\ outbox' = [outbox EXCEPT ![c].closed = TRUE]
    /\ UNCHANGED <<stage, scopes, operation, subs, nextID, handler, work, published>>

----------------------------------------------------------------------------
(***************************************************************************)
(* Subscribers.                                                            *)
(***************************************************************************)
Key(p, e, s) == [provider |-> p, event |-> e, scope |-> s]

\* OperationSubscribeAdmitter: an operation of the client's package.  The
\* operation manager's lock, which a publication holds, is taken to look.
Follows(c, o) == ~Busy(Manager) /\ o \in Sees[c]

\* admitSubscription: an event without a scope is open to all, an instance of
\* a scoped one to its owner.
Admitted(c, key) ==
    IF key.provider = Manager THEN key.event = Changed /\ Follows(c, key.scope)
    ELSE IF key.event \in Scoped
         THEN /\ <<key.provider, key.scope>> \in DOMAIN owner
              /\ owner[<<key.provider, key.scope>>] = c
         ELSE key.scope = None

\* handleSubscribe up to the registry: RouteEvent has found the endpoint.
AdmitSubscription(c, key) ==
    /\ Idle(c) /\ nextID[c] < MaxSubscribe
    /\ key.provider \in serving \cup {Manager} /\ Admitted(c, key)
    /\ handler' = [handler EXCEPT ![c] = [op |-> "subscribe", key |-> key]]
    /\ UNCHANGED <<stage, scopes, operation, subs, nextID, outbox, work, published>>

Subscribe(c) ==
    /\ handler[c].op = "subscribe" /\ Unlocked
    /\ nextID' = [nextID EXCEPT ![c] = @ + 1]
    /\ subs' = Put(subs, <<c, nextID[c] + 1>>,
                   [key |-> handler[c].key, sequence |-> 0, dropped |-> 0])
    /\ handler' = [handler EXCEPT ![c] =
          [op |-> "reply", message |-> Control("subscribed", nextID[c] + 1)]]
    /\ UNCHANGED <<stage, scopes, operation, outbox, work, published>>

\* Mutant: the client is told, the registry is not.
Unsubscribe_Told(c, id) ==
    /\ Idle(c) /\ Unlocked /\ <<c, id>> \in DOMAIN subs
    /\ handler' = [handler EXCEPT ![c] =
          [op |-> "reply", message |-> Control("unsubscribed", id)]]
    /\ UNCHANGED <<stage, scopes, operation, subs, nextID, outbox, work, published>>

Unsubscribe(c, id) ==
    /\ Idle(c) /\ Unlocked /\ <<c, id>> \in DOMAIN subs
    /\ subs' = Without({<<c, id>>})
    /\ handler' = [handler EXCEPT ![c] =
          [op |-> "reply", message |-> Control("unsubscribed", id)]]
    /\ UNCHANGED <<stage, scopes, operation, nextID, outbox, work, published>>

----------------------------------------------------------------------------
(***************************************************************************)
(* Publishers.                                                             *)
(***************************************************************************)
\* DeliveryClassOf: what declares nothing is reliable.
Reliable(e) == Class[e] \in {"unspecified", "reliable"}

\* Mutant: what is lost has no number.
AfterDelivery_Unnumbered(s, fits) ==
    [s EXCEPT !.sequence = IF fits THEN @ + 1 ELSE @,
              !.dropped = IF fits THEN 0 ELSE IF Reliable(s.key.event) THEN @ ELSE @ + 1]

AfterDelivery(s, fits) ==
    [s EXCEPT !.sequence = @ + 1,
              !.dropped = IF fits THEN 0 ELSE IF Reliable(s.key.event) THEN @ ELSE @ + 1]

\* Mutant: a reliable subscription goes on after a loss.
Ends_Never(s, fits) == FALSE

\* A reliable subscription ends with its first loss.
Ends(s, fits) == ~fits /\ Reliable(s.key.event)

\* Registry.Publish: it takes the lock...
Publish(w, key, size, ends) ==
    /\ Unlocked /\ ~Busy(w)
    /\ published < MaxPublish /\ published' = published + 1
    /\ work' = [work EXCEPT ![w] =
          [Rest EXCEPT !.size = size, !.ends = ends,
                       !.deliver = {k \in DOMAIN subs : subs[k].key = key}]]
    /\ UNCHANGED <<subs, outbox>>

\* ...and delivers to the subscriptions of the key, in the order of their
\* registration; here in any.
Deliver(w, k) ==
    /\ k \in work[w].deliver
    /\ LET s == subs[k]
           box == outbox[k[1]]
           m == [kind |-> "event", id |-> k[2], event |-> s.key.event,
                 sequence |-> s.sequence + 1, dropped |-> s.dropped, size |-> work[w].size]
           fits == Fits(box, m)
       IN  /\ outbox' = [outbox EXCEPT ![k[1]] = Push(box, m)]
           /\ subs' = [subs EXCEPT ![k] = AfterDelivery(s, fits)]
           /\ work' = [work EXCEPT ![w].deliver = @ \ {k},
                                    ![w].todo = IF Ends(s, fits) THEN @ \cup {k} ELSE @]
    /\ UNCHANGED <<stage, scopes, operation, nextID, handler, published>>

\* LookupProviderEvent and OwnsEndpoint: its own, and registered.
Owns(p) == Idle(p) /\ p \in serving

\* handlePublishEvent.  It publishes without a scope.
PublishEvent(p, e, size) ==
    /\ Owns(p)
    /\ Publish(p, Key(p, e, None), size, {})
    /\ UNCHANGED <<stage, scopes, operation, nextID, handler>>

\* publishOperationEvent, within the operation manager's lock.
Progress(o, size) ==
    /\ operation[o] = "running"
    /\ Publish(Manager, Key(Manager, Changed, o), size, {})
    /\ UNCHANGED <<stage, scopes, operation, nextID, handler>>

End(o, size) ==
    /\ operation[o] = "running"
    /\ operation' = [operation EXCEPT ![o] = "ended"]
    /\ Publish(Manager, Key(Manager, Changed, o), size, {o})
    /\ UNCHANGED <<stage, scopes, nextID, handler>>

\* closeSubscriptions: first the client is told, if that fits...
Tell(w, k) ==
    /\ work[w].deliver = {} /\ work[w].told = {} /\ k \in work[w].todo
    /\ outbox' = [outbox EXCEPT ![k[1]] = Push(@, Control("closed", k[2]))]
    /\ work' = [work EXCEPT ![w].todo = @ \ {k}, ![w].told = {k}]
    /\ UNCHANGED <<stage, scopes, operation, subs, nextID, handler, published>>

\* ...then the subscription goes, if it is still there.
Drop(w) ==
    /\ work[w].told # {} /\ Unlocked
    /\ subs' = Without(work[w].told)
    /\ work' = [work EXCEPT ![w].told = {}]
    /\ UNCHANGED <<stage, scopes, operation, nextID, outbox, handler, published>>

\* With all told, the scope of an operation that has ended is closed.
CloseScope(w) ==
    /\ work[w].ends # {} /\ Unlocked /\ work[w].todo = {} /\ work[w].told = {}
    /\ LET of == {k \in DOMAIN subs : \E o \in work[w].ends :
                       subs[k].key = Key(Manager, Changed, o)}
       IN  /\ work' = [work EXCEPT ![w].todo = of, ![w].ends = {}]
           /\ subs' = Without(of)
    /\ UNCHANGED <<stage, scopes, operation, nextID, outbox, handler, published>>

----------------------------------------------------------------------------
(***************************************************************************)
(* Scopes, and the end of a connection.                                    *)
(***************************************************************************)
\* handleBindEventScope: the instance belongs to the caller of a call of
\* the provider's that is still open (RequestRouting has the calls)...
FindOrigin(p, s, c) ==
    /\ Owns(p) /\ c # p /\ stage[c] = 0
    /\ handler' = [handler EXCEPT ![p] = [op |-> "bind", scope |-> s, owner |-> c]]
    /\ UNCHANGED <<stage, scopes, operation, subs, nextID, outbox, work, published>>

\* ...when it is looked up.
Bind(p) ==
    /\ handler[p].op = "bind"
    /\ owner' = Put(owner, <<p, handler[p].scope>>, handler[p].owner)
    /\ handler' = [handler EXCEPT ![p] = Nothing]
    /\ UNCHANGED <<stage, serving, operation, subs, nextID, outbox, work, published>>

Released(keys) == Restrict(owner, DOMAIN owner \ keys)
Release(p, s) ==
    /\ Owns(p)
    /\ owner' = Released({<<p, s>>})
    /\ UNCHANGED <<stage, serving, operation, subs, nextID, outbox, handler, work,
                   published>>

UnregisterEndpoint(p) ==
    /\ Idle(p) /\ serving' = serving \ {p}
    /\ UNCHANGED <<stage, owner, operation, subs, nextID, outbox, handler, work,
                   published>>

\* The deferred calls of serve, in the order they run: closeOwner,
\* closeProvider, CloseConn, ConnClosed, and the queue.
Teardown(c, n) ==
    \/ /\ n = 1 /\ owner' = Released({k \in DOMAIN owner : owner[k] = c})
       /\ UNCHANGED <<serving, subs, outbox>>
    \/ /\ n = 2 /\ owner' = Released({k \in DOMAIN owner : k[1] = c})
       /\ UNCHANGED <<serving, subs, outbox>>
    \/ /\ n = 3 /\ Unlocked /\ subs' = Without({k \in DOMAIN subs : k[1] = c})
       /\ UNCHANGED <<scopes, outbox>>
    \/ /\ n = 4 /\ serving' = serving \ {c} /\ UNCHANGED <<owner, subs, outbox>>
    \/ /\ n = 5 /\ outbox' = [outbox EXCEPT ![c].closed = TRUE] /\ UNCHANGED <<scopes, subs>>

CloseStep(c) ==
    /\ Idle(c) \/ stage[c] \in 1..4
    /\ stage' = [stage EXCEPT ![c] = @ + 1]
    /\ Teardown(c, stage[c] + 1)
    /\ UNCHANGED <<operation, nextID, handler, work, published>>

----------------------------------------------------------------------------
Subscriber(c) ==
    \/ \E p \in Provider, e \in Event, s \in Instance \cup {None} :
          AdmitSubscription(c, Key(p, e, s))
    \/ \E o \in Operation : AdmitSubscription(c, Key(Manager, Changed, o))
    \/ Subscribe(c) \/ Answer(c) \/ Write(c)
    \/ \E id \in Handle : Unsubscribe(c, id)
Providing(p) ==
    \/ \E e \in Event, size \in Size : PublishEvent(p, e, size)
    \/ \E s \in Instance, c \in Conn : FindOrigin(p, s, c)
    \/ \E s \in Instance : Release(p, s)
    \/ Bind(p) \/ UnregisterEndpoint(p)
OperationEvents ==
    \E o \in Operation, size \in Size : Progress(o, size) \/ End(o, size)
Publishing(w) ==
    \/ \E k \in Conn \X Handle : Deliver(w, k) \/ Tell(w, k)
    \/ Drop(w) \/ CloseScope(w)

EventNext ==
    \/ \E c \in Client : Subscriber(c)
    \/ \E c \in Conn : CloseStep(c)
    \/ \E p \in Provider : Providing(p)
    \/ OperationEvents
    \/ \E w \in Publisher : Publishing(w)

EventSpec == EventInit /\ [][EventNext]_eventVars

----------------------------------------------------------------------------
IsEvent(m, id) == m.kind = "event" /\ m.id = id

\* The events of a subscription among what its client was sent before the
\* i-th message...
Earlier(sent, id, i) == {j \in 1..i - 1 : IsEvent(sent[j], id)}

\* ...and the number of the last of them.
LastNumber(sent, id, i, n) ==
    LET before == Earlier(sent, id, i)
    IN  IF before = {} THEN n = 0
        ELSE \A j \in before : (\A h \in before : h <= j) => n = sent[j].sequence

\* A reliable subscription gets every event from its first on, or ends: what
\* its client sees has no gap, whatever the queue does and whoever publishes
\* (Registry.Publish leaves the subscription in place until
\* closeSubscriptions has removed it, outside its lock).
ReliableHasNoGap ==
    \A c \in Conn, id \in Handle : \A i \in DOMAIN outbox[c].sent :
        LET sent == outbox[c].sent
        IN  IsEvent(sent[i], id) /\ Reliable(sent[i].event) =>
                LastNumber(sent, id, i, sent[i].sequence - 1)

\* Any other subscription's client knows what it has missed: between an event
\* and the one before it lie exactly as many as it says were dropped.
GapIsCounted ==
    \A c \in Conn, id \in Handle : \A i \in DOMAIN outbox[c].sent :
        LET sent == outbox[c].sent
        IN  IsEvent(sent[i], id) =>
                LastNumber(sent, id, i, sent[i].sequence - sent[i].dropped - 1)

\* After a client has been told that a subscription is over, by the answer to
\* its Unsubscribe or by SubscriptionClosed, no event of it follows. And a
\* connection that has been torn down is in no subscription, provides nothing
\* and owns no provider's side of a scope, whatever the publishers, the
\* providers and its own last request were in the middle of.
DeadHoldsNothing ==
    \A c \in Conn : stage[c] = 5 =>
        /\ c \notin serving /\ \A k \in DOMAIN owner : k[1] # c
        /\ \A k \in DOMAIN subs : k[1] # c
NothingAfterEnd ==
    /\ \A c \in Conn : \A i, j \in DOMAIN outbox[c].sent :
          LET m == outbox[c].sent[i]
              later == outbox[c].sent[j]
          IN  m.kind \in {"unsubscribed", "closed"} /\ j > i =>
                  ~(later.kind = "event" /\ later.id = m.id)
    /\ DeadHoldsNothing
=============================================================================
