------------------------------- MODULE EventApi -------------------------------
(***************************************************************************)
(* The event REST API, scray-ledger-rest-api/event-api: a POST creates a   *)
(* subscription to the events of a contract and answers its id, a          *)
(* GET with the id answers the last events.  Requests run in threads of    *)
(* their own over shared objects without a lock: the static field          *)
(* RestApplication.subscriptions, created by the first POST that finds it  *)
(* empty, and the two HashMaps of the Subscriptions object in it.          *)
(*                                                                         *)
(* A POST is named by its request, and so are the subscription it adds and *)
(* the Subscriptions object it may create.  The gateway delivers the       *)
(* events of the channel from block 1 on, in order, to each client.        *)
(***************************************************************************)
EXTENDS SequencesExt

CONSTANTS
    Request,    \* the POST requests
    NoRequest,
    Cap,        \* the size of an event buffer (10 in EventBuffer.java)
    MaxEvents   \* bound: the contract events of the channel

ASSUME ConstantAssumption ==
    NoRequest \notin Request /\ Cap \in Nat \ {0} /\ MaxEvents \in Nat

VARIABLES
    registry,       \* RestApplication.subscriptions: who created it, or NoRequest
    subscriptions,  \* the keys of the first HashMap of every Subscriptions object
    connections,    \* and of the second
    pc,             \* where every POST is
    object,         \* the Subscriptions object it works on
    raced,          \* its HashMap.put overlaps another put to the same map
    listening,      \* the clients whose listener is registered
    events,         \* how many contract events the channel has
    delivered,      \* how many of them every client received
    buffer,         \* its EvictingQueue
    get,            \* a GET for the subscription: "none", "reading", or "disturbed"
    got,            \* the events the GETs for a subscription answered
    overlapped      \* auxiliary: two POSTs have been in progress together

requests == <<registry, subscriptions, connections, pc, object, raced, overlapped>>
gateway == <<events, delivered, buffer>>
polls == <<get, got>>
vars == <<requests, listening, gateway, polls>>

-----------------------------------------------------------------------------
(* createSubscription, a POST.                                             *)

InProgress(r) == pc[r] \notin {"new", "answered", "failed"}

Goto(r, label) == pc' = [pc EXCEPT ![r] = label]

\* Mutants: every POST makes a Subscriptions object; none does.
BeginCreating(r) ==
    /\ pc[r] = "new"
    /\ Goto(r, "create")
    /\ overlapped' = (overlapped \/ \E q \in Request : InProgress(q))
    /\ UNCHANGED <<registry, subscriptions, connections, object, raced, listening, gateway, polls>>

BeginAdding(r) ==
    /\ pc[r] = "new"
    /\ Goto(r, "add")
    /\ overlapped' = (overlapped \/ \E q \in Request : InProgress(q))
    /\ UNCHANGED <<registry, subscriptions, connections, object, raced, listening, gateway, polls>>

Begin(r) ==
    /\ pc[r] = "new"
    /\ Goto(r, IF registry = NoRequest THEN "create" ELSE "add")
    /\ overlapped' = (overlapped \/ \E q \in Request : InProgress(q))
    /\ UNCHANGED <<registry, subscriptions, connections, object, raced, listening, gateway, polls>>

Create(r) ==
    /\ pc[r] = "create"
    /\ registry' = r
    /\ Goto(r, "add")
    /\ UNCHANGED <<subscriptions, connections, object, raced, overlapped,
                   listening, gateway, polls>>

\* HashMap.put is not atomic.  Two puts that overlap may each lose the other's
\* entry, and one that grows the table older ones.
BeginPut(r, label, o) ==
    LET others == {q \in Request \ {r} : pc[q] = label /\ object[q] = o} IN
    /\ Goto(r, label)
    /\ object' = [object EXCEPT ![r] = o]
    /\ raced' = [q \in Request |-> IF q = r THEN others # {}
                                   ELSE raced[q] \/ q \in others]

PutOutcomes(r, map) == IF raced[r] THEN SUBSET (map \union {r}) ELSE {map \union {r}}

BeginAdd(r) ==
    /\ pc[r] = "add"
    /\ BeginPut(r, "adding", registry)
    /\ UNCHANGED <<registry, subscriptions, connections, overlapped, listening, gateway, polls>>

EndAdd(r) ==
    /\ pc[r] = "adding"
    /\ \E map \in PutOutcomes(r, subscriptions[object[r]]) :
          subscriptions' = [subscriptions EXCEPT ![object[r]] = map]
    /\ Goto(r, "connect")
    /\ UNCHANGED <<registry, connections, object, raced, overlapped, listening, gateway, polls>>

\* connect reads the static field again, and a HashMap that others may be
\* putting to.  A subscription it does not find ends the request with an error,
\* and so does one without wallet or connection profile.
Found(r) ==
    {r \in subscriptions[registry]}
      \union {FALSE : q \in {q \in Request : pc[q] = "adding" /\ object[q] = registry}}

\* Mutant: it waits for the subscription to appear.
BeginConnectWaiting(r) ==
    /\ pc[r] = "connect"
    /\ TRUE \in Found(r)
    /\ BeginPut(r, "connecting", registry)
    /\ UNCHANGED <<registry, subscriptions, connections, overlapped, listening, gateway, polls>>

BeginConnect(r) ==
    /\ pc[r] = "connect"
    /\ \E found \in Found(r), complete \in BOOLEAN :
          IF found /\ complete THEN BeginPut(r, "connecting", registry)
          ELSE Goto(r, "failed") /\ UNCHANGED <<object, raced>>
    /\ UNCHANGED <<registry, subscriptions, connections, overlapped, listening, gateway, polls>>

EndConnect(r) ==
    /\ pc[r] = "connecting"
    /\ \E map \in PutOutcomes(r, connections[object[r]]) :
          connections' = [connections EXCEPT ![object[r]] = map]
    /\ Goto(r, "run")
    /\ UNCHANGED <<registry, subscriptions, object, raced, overlapped, listening, gateway, polls>>

\* client.run registers the listener; addEventListener swallows the exception of
\* a connection that fails, and the request is answered all the same.
Run(r) ==
    /\ pc[r] = "run"
    /\ listening' \in {listening \union {r}, listening}
    /\ Goto(r, "answered")
    /\ UNCHANGED <<registry, subscriptions, connections, object, raced, overlapped, gateway, polls>>

-----------------------------------------------------------------------------
(* The channel, the gateway's thread of a client, and eventsGet.           *)

Emit ==
    /\ events < MaxEvents
    /\ events' = events + 1
    /\ UNCHANGED <<requests, listening, delivered, buffer, polls>>

\* Mutants: a full queue refuses the new event; is cleared for it.
EnqueuedIfRoom(queue, e) == IF Len(queue) = Cap THEN queue ELSE Append(queue, e)
EnqueuedAfterClear(queue, e) == Append(IF Len(queue) = Cap THEN <<>> ELSE queue, e)

\* EvictingQueue.add
Enqueued(queue, e) == Append(IF Len(queue) = Cap THEN Tail(queue) ELSE queue, e)

Disturb(r) == get' = [get EXCEPT ![r] = IF @ = "none" THEN "none" ELSE "disturbed"]

\* Mutant: the listener blocks on a full buffer.
DeliverIfRoom(r) ==
    /\ r \in listening
    /\ delivered[r] < events
    /\ Len(buffer[r]) < Cap
    /\ delivered' = [delivered EXCEPT ![r] = @ + 1]
    /\ buffer' = [buffer EXCEPT ![r] = Enqueued(@, delivered[r] + 1)]
    /\ Disturb(r)
    /\ UNCHANGED <<requests, listening, events, got>>

Deliver(r) ==
    /\ r \in listening
    /\ delivered[r] < events
    /\ delivered' = [delivered EXCEPT ![r] = @ + 1]
    /\ buffer' = [buffer EXCEPT ![r] = Enqueued(@, delivered[r] + 1)]
    /\ Disturb(r)
    /\ UNCHANGED <<requests, listening, events, got>>

\* The id leads to a client; otherwise the GET fails.
Usable(r) == registry # NoRequest /\ r \in connections[registry]

\* eventsGet streams a queue that the gateway's thread may be adding to.
BeginGet(r) ==
    /\ pc[r] = "answered"
    /\ Usable(r)
    /\ get[r] = "none"
    /\ get' = [get EXCEPT ![r] = "reading"]
    /\ UNCHANGED <<requests, listening, gateway, got>>

\* A disturbed GET fails, or answers some of the events that were delivered.
Answers(r) == IF get[r] = "reading" THEN {ToSet(buffer[r])} ELSE SUBSET (1..delivered[r])

EndGet(r) ==
    /\ get[r] # "none"
    /\ get' = [get EXCEPT ![r] = "none"]
    /\ \E answer \in Answers(r) : got' = [got EXCEPT ![r] = @ \union answer]
    /\ UNCHANGED <<requests, listening, gateway>>

-----------------------------------------------------------------------------

Init ==
    /\ registry = NoRequest
    /\ subscriptions = [o \in Request |-> {}]
    /\ connections = [o \in Request |-> {}]
    /\ pc = [r \in Request |-> "new"]
    /\ object = [r \in Request |-> NoRequest]
    /\ raced = [r \in Request |-> FALSE]
    /\ overlapped = FALSE
    /\ listening = {}
    /\ events = 0
    /\ delivered = [r \in Request |-> 0]
    /\ buffer = [r \in Request |-> <<>>]
    /\ get = [r \in Request |-> "none"]
    /\ got = [r \in Request |-> {}]

Continue(r) ==
    \/ Create(r) \/ BeginAdd(r) \/ EndAdd(r)
    \/ BeginConnect(r) \/ EndConnect(r) \/ Run(r)

Next ==
    \/ Emit
    \/ \E r \in Request : Begin(r) \/ Continue(r) \/ Deliver(r) \/ BeginGet(r) \/ EndGet(r)

\* A request that started runs on, and the gateway's threads deliver.  Nobody
\* has to send a request, and no contract has to emit an event.
Fairness == \A r \in Request : WF_vars(Continue(r)) /\ WF_vars(Deliver(r))

Spec == Init /\ [][Next]_vars /\ Fairness

-----------------------------------------------------------------------------
(* Properties.                                                             *)

\* A Subscriptions object is worked on only after it was published, and the two
\* maps hold requests.
TypeOK ==
    /\ registry \in Request \union {NoRequest}
    /\ subscriptions \in [Request -> SUBSET Request]
    /\ connections \in [Request -> SUBSET Request]
    /\ \A r \in Request : pc[r] \in {"add", "adding", "connect", "connecting", "run", "answered"}
                             => registry # NoRequest
    /\ raced \in [Request -> BOOLEAN]
    /\ listening \subseteq Request
    /\ \A r \in Request : delivered[r] \in 0..events

\* Subscriptions get lost by races only: as long as no two POSTs were in progress
\* together, every id that was answered keeps leading to its client.
UsableUnlessOverlapped ==
    ~overlapped => \A r \in Request : pc[r] = "answered" => Usable(r)

\* "Create event subscription" answers an id to consume events with: it is not
\* only usable when no other client subscribes at the same time.
AnsweredIsUsable == \A r \in Request : pc[r] = "answered" => Usable(r)

\* A client's buffer holds the last events it received, up to ten, in the order
\* of the channel and from the first on.
BufferIsWindow ==
    \A r \in Request :
        buffer[r] = [i \in 1..(IF delivered[r] < Cap THEN delivered[r] ELSE Cap) |->
                        (IF delivered[r] < Cap THEN 0 ELSE delivered[r] - Cap) + i]

\* A client that polls often enough misses nothing: when a GET that no delivery
\* disturbed has ended, whatever earlier GETs failed or lost, the events missing
\* are older than the Cap last ones that were delivered.
PollsMissNothing ==
    [][\A r \in Request :
         get[r] = "reading" /\ get'[r] = "none" =>
            \A e \in 1..delivered[r] : e \notin got'[r] => e + Cap <= delivered[r]]_vars

\* A client that listens receives every event of the channel, those from before
\* it subscribed too.
AllDelivered == \A r \in Request : \A e \in 1..MaxEvents :
    r \in listening /\ events >= e ~> delivered[r] >= e

\* Every POST is answered or fails, whatever the others do.
EveryRequestEnds == \A r \in Request : InProgress(r) ~> pc[r] \in {"answered", "failed"}
==============================================================================
