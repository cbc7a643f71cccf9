---------------------------- MODULE EventApiProof ----------------------------
(***************************************************************************)
(* Proofs about EventApi, for any requests, buffer size and number of      *)
(* events.                                                                 *)
(***************************************************************************)
EXTENDS EventApi, TLAPS

-----------------------------------------------------------------------------
(* The inductive invariant.                                                *)

\* The ranges of the variables TypeOK says too little of.
Ranges ==
    /\ pc \in [Request -> {"new", "create", "add", "adding", "connect", "connecting",
                           "run", "answered", "failed"}]
    /\ object \in [Request -> Request \union {NoRequest}]
    /\ \A r \in Request : pc[r] \in {"adding", "connecting"} => object[r] \in Request
    /\ overlapped \in BOOLEAN
    /\ events \in Nat
    /\ delivered \in [Request -> Nat]
    /\ DOMAIN buffer = Request
    /\ get \in [Request -> {"none", "reading", "disturbed"}]
    /\ DOMAIN got = Request

\* While no two POSTs were ever in progress together: no put was disturbed, the
\* object a POST works on is the published one, nobody creates a second one, and
\* a POST that has put its connection finds it there.
Alone ==
    ~overlapped =>
        /\ \A q, r \in Request : InProgress(q) /\ InProgress(r) => q = r
        /\ \A r \in Request :
              /\ ~raced[r]
              /\ pc[r] = "create" => registry = NoRequest
              /\ pc[r] \in {"adding", "connecting"} => object[r] = registry
              /\ pc[r] \in {"run", "answered"} => Usable(r)

IInv ==
    /\ TypeOK
    /\ Ranges
    /\ Alone
    /\ BufferIsWindow

-----------------------------------------------------------------------------
(* The requests.                                                           *)

\* Before the first POST.
LEMMA InitInv == Init => IInv
<1> SUFFICES ASSUME Init PROVE IInv
  OBVIOUS
<1>1. \A r \in Request : delivered[r] \in 0..events
  BY DEF Init
<1>2. TypeOK
  BY <1>1 DEF Init, TypeOK
<1>3. Ranges
  BY ConstantAssumption DEF Init, Ranges
<1>4. Alone
  BY DEF Init, Alone, InProgress
<1>5. BufferIsWindow
  <2> SUFFICES ASSUME NEW r \in Request
               PROVE  buffer[r] = [i \in 1..(IF delivered[r] < Cap THEN delivered[r] ELSE Cap) |->
                                     (IF delivered[r] < Cap THEN 0 ELSE delivered[r] - Cap) + i]
    BY DEF BufferIsWindow
  <2>1. delivered[r] = 0 /\ buffer[r] = <<>> /\ 0 < Cap
    BY ConstantAssumption DEF Init
  <2>2. <<>> = [i \in 1..0 |-> 0 + i]
    OBVIOUS
  <2> QED
    BY <2>1, <2>2
<1> QED
  BY <1>2, <1>3, <1>4, <1>5 DEF IInv

\* No request touches what the gateway delivers into.
LEMMA GatewayKept ==
    ASSUME IInv, UNCHANGED <<gateway, polls>>
    PROVE  /\ BufferIsWindow'
           /\ \A r \in Request : (delivered[r] \in 0..events)'
BY DEF IInv, TypeOK, BufferIsWindow, gateway, polls

\* A POST begins beside others or alone; alone it looks for an object to work on.
LEMMA BeginInv == ASSUME IInv, NEW r \in Request, Begin(r) PROVE IInv'
<1>1. /\ pc[r] = "new"
      /\ pc' = [pc EXCEPT ![r] = IF registry = NoRequest THEN "create" ELSE "add"]
      /\ overlapped' = (overlapped \/ \E q \in Request : InProgress(q))
      /\ UNCHANGED <<registry, subscriptions, connections, object, raced, listening>>
      /\ UNCHANGED <<gateway, polls>>
  BY DEF Begin, Goto
<1>2. TypeOK'
  BY <1>1, GatewayKept DEF IInv, TypeOK, Ranges
<1>3. Ranges'
  BY <1>1 DEF IInv, Ranges, gateway, polls
<1>4. Alone'
  <2> SUFFICES ASSUME ~overlapped' PROVE Alone'
    BY DEF Alone
  <2>1. ~overlapped /\ \A q \in Request : ~InProgress(q)
    BY <1>1
  <2>2. \A q \in Request \ {r} : pc'[q] = pc[q]
    BY <1>1 DEF IInv, Ranges
  <2>3. pc'[r] = IF registry = NoRequest THEN "create" ELSE "add"
    BY <1>1 DEF IInv, Ranges
  <2> QED
    BY <1>1, <2>1, <2>2, <2>3 DEF IInv, Alone, InProgress, Usable
<1> QED
  BY <1>1, <1>2, <1>3, <1>4, GatewayKept DEF IInv

\* Alone, a POST publishes its object where there was none: no connection is lost.
LEMMA CreateInv == ASSUME IInv, NEW r \in Request, Create(r) PROVE IInv'
<1>1. /\ pc[r] = "create"
      /\ registry' = r
      /\ pc' = [pc EXCEPT ![r] = "add"]
      /\ UNCHANGED <<subscriptions, connections, object, raced, overlapped, listening>>
      /\ UNCHANGED <<gateway, polls>>
  BY DEF Create, Goto
<1>2. r # NoRequest
  BY ConstantAssumption
<1>3. TypeOK'
  BY <1>1, <1>2, GatewayKept DEF IInv, TypeOK, Ranges
<1>4. Ranges'
  BY <1>1 DEF IInv, Ranges, gateway, polls
<1>5. Alone'
  <2> SUFFICES ASSUME ~overlapped PROVE Alone'
    BY <1>1 DEF Alone
  <2>1. registry = NoRequest
    BY <1>1 DEF IInv, Alone
  <2>2. \A q \in Request \ {r} : pc'[q] = pc[q] /\ pc[q] \in {"new", "failed"}
    BY <1>1, <2>1 DEF IInv, TypeOK, Ranges, Alone, InProgress
  <2>3. pc'[r] = "add"
    BY <1>1 DEF IInv, Ranges
  <2> QED
    BY <1>1, <2>2, <2>3 DEF IInv, Alone, InProgress
<1> QED
  BY <1>1, <1>3, <1>4, <1>5, GatewayKept DEF IInv

\* What holds after a put was begun; alone, nobody else is putting.
LEMMA BeginPutInv ==
    ASSUME IInv, NEW r \in Request, NEW label \in {"adding", "connecting"},
           InProgress(r), registry # NoRequest,
           BeginPut(r, label, registry),
           UNCHANGED <<registry, subscriptions, connections, overlapped, listening>>,
           UNCHANGED <<gateway, polls>>
    PROVE  IInv'
<1> DEFINE others == {q \in Request \ {r} : pc[q] = label /\ object[q] = registry}
<1>1. /\ pc' = [pc EXCEPT ![r] = label]
      /\ object' = [object EXCEPT ![r] = registry]
      /\ raced' = [q \in Request |-> IF q = r THEN others # {} ELSE raced[q] \/ q \in others]
  BY DEF BeginPut, Goto
<1>2. registry \in Request
  BY DEF IInv, TypeOK
<1>3. TypeOK'
  <2>1. raced' \in [Request -> BOOLEAN]
    BY <1>1 DEF IInv, TypeOK
  <2>2. \A q \in Request : pc'[q] \in {"add", "adding", "connect", "connecting", "run", "answered"}
                             => registry' # NoRequest
    OBVIOUS
  <2> QED
    BY <2>1, <2>2, GatewayKept DEF IInv, TypeOK
<1>4. Ranges'
  BY <1>1, <1>2 DEF IInv, Ranges, gateway, polls
<1>5. Alone'
  <2> SUFFICES ASSUME ~overlapped PROVE Alone'
    BY DEF Alone
  <2>1. \A q \in Request \ {r} : ~InProgress(q)
    BY DEF IInv, Alone
  <2>2. others = {}
    BY <2>1 DEF InProgress
  <2>3. \A q \in Request : ~raced'[q]
    BY <1>1, <2>2 DEF IInv, Alone
  <2>4. \A q \in Request \ {r} : pc'[q] = pc[q] /\ object'[q] = object[q]
    BY <1>1 DEF IInv, Ranges
  <2>5. pc'[r] = label /\ object'[r] = registry
    BY <1>1 DEF IInv, Ranges
  <2> QED
    BY <1>1, <2>1, <2>3, <2>4, <2>5 DEF IInv, Alone, InProgress, Usable
<1> QED
  BY <1>3, <1>4, <1>5, GatewayKept DEF IInv

\* The put of the subscription begins.
LEMMA BeginAddInv == ASSUME IInv, NEW r \in Request, BeginAdd(r) PROVE IInv'
<1>1. /\ pc[r] = "add"
      /\ BeginPut(r, "adding", registry)
      /\ UNCHANGED <<registry, subscriptions, connections, overlapped, listening>>
      /\ UNCHANGED <<gateway, polls>>
  BY DEF BeginAdd
<1>2. registry # NoRequest /\ InProgress(r)
  BY <1>1 DEF IInv, TypeOK, InProgress
<1> QED
  BY <1>1, <1>2, BeginPutInv

\* A put nobody disturbed keeps what is in the map and adds its own entry.
LEMMA PutKeeps ==
    ASSUME NEW r, NEW map, NEW new \in PutOutcomes(r, map), ~raced[r]
    PROVE  new = map \union {r}
BY DEF PutOutcomes

\* Whatever a race loses, the map holds requests only.
LEMMA PutOutcomesTyped ==
    ASSUME NEW r \in Request, NEW map \in SUBSET Request, NEW new \in PutOutcomes(r, map)
    PROVE  new \in SUBSET Request
BY DEF PutOutcomes

\* The put of the subscription ends.
LEMMA EndAddInv == ASSUME IInv, NEW r \in Request, EndAdd(r) PROVE IInv'
<1>1. PICK map \in PutOutcomes(r, subscriptions[object[r]]) :
         subscriptions' = [subscriptions EXCEPT ![object[r]] = map]
  BY DEF EndAdd
<1>2. /\ pc[r] = "adding"
      /\ pc' = [pc EXCEPT ![r] = "connect"]
      /\ UNCHANGED <<registry, connections, object, raced, overlapped, listening>>
      /\ UNCHANGED <<gateway, polls>>
  BY DEF EndAdd, Goto
<1>3. TypeOK'
  <2>1. object[r] \in Request
    BY <1>2 DEF IInv, Ranges
  <2>2. map \in SUBSET Request
    BY <2>1, PutOutcomesTyped DEF IInv, TypeOK
  <2>3. subscriptions' \in [Request -> SUBSET Request]
    BY <1>1, <2>2 DEF IInv, TypeOK
  <2>4. registry # NoRequest
    BY <1>2 DEF IInv, TypeOK
  <2> QED
    BY <1>2, <2>3, <2>4, GatewayKept DEF IInv, TypeOK
<1>4. Ranges'
  BY <1>2 DEF IInv, Ranges, gateway, polls
<1>5. Alone'
  BY <1>2 DEF IInv, Ranges, Alone, InProgress, Usable
<1> QED
  BY <1>2, <1>3, <1>4, <1>5, GatewayKept DEF IInv

\* A subscription that is not found ends the request.
LEMMA BeginConnectInv == ASSUME IInv, NEW r \in Request, BeginConnect(r) PROVE IInv'
<1>1. /\ pc[r] = "connect"
      /\ \/ BeginPut(r, "connecting", registry)
         \/ pc' = [pc EXCEPT ![r] = "failed"] /\ UNCHANGED <<object, raced>>
      /\ UNCHANGED <<registry, subscriptions, connections, overlapped, listening>>
      /\ UNCHANGED <<gateway, polls>>
  BY DEF BeginConnect, Goto
<1>2. registry # NoRequest /\ InProgress(r)
  BY <1>1 DEF IInv, TypeOK, InProgress
<1>3. CASE BeginPut(r, "connecting", registry)
  BY <1>1, <1>2, <1>3, BeginPutInv
<1>4. CASE pc' = [pc EXCEPT ![r] = "failed"] /\ UNCHANGED <<object, raced>>
  <2>1. TypeOK'
    BY <1>1, <1>2, <1>4, GatewayKept DEF IInv, TypeOK, Ranges
  <2>2. Ranges'
    BY <1>1, <1>4 DEF IInv, Ranges, gateway, polls
  <2>3. Alone'
    BY <1>1, <1>4 DEF IInv, Ranges, Alone, InProgress, Usable
  <2> QED
    BY <1>1, <2>1, <2>2, <2>3, GatewayKept DEF IInv
<1> QED
  BY <1>1, <1>3, <1>4

\* The put of the connection ends.
LEMMA EndConnectInv == ASSUME IInv, NEW r \in Request, EndConnect(r) PROVE IInv'
<1>1. PICK map \in PutOutcomes(r, connections[object[r]]) :
         connections' = [connections EXCEPT ![object[r]] = map]
  BY DEF EndConnect
<1>2. /\ pc[r] = "connecting"
      /\ pc' = [pc EXCEPT ![r] = "run"]
      /\ UNCHANGED <<registry, subscriptions, object, raced, overlapped, listening>>
      /\ UNCHANGED <<gateway, polls>>
  BY DEF EndConnect, Goto
<1>3. registry # NoRequest /\ object[r] \in Request
  BY <1>2 DEF IInv, TypeOK, Ranges
<1>4. TypeOK'
  <2>1. map \in SUBSET Request
    BY <1>3, PutOutcomesTyped DEF IInv, TypeOK
  <2>2. connections' \in [Request -> SUBSET Request]
    BY <1>1, <2>1 DEF IInv, TypeOK
  <2> QED
    BY <1>2, <1>3, <2>2, GatewayKept DEF IInv, TypeOK
<1>5. Ranges'
  BY <1>2 DEF IInv, Ranges, gateway, polls
<1>6. Alone'
  <2> SUFFICES ASSUME ~overlapped PROVE Alone'
    BY <1>2 DEF Alone
  <2>1. ~raced[r] /\ object[r] = registry
    BY <1>2 DEF IInv, Alone
  <2>2. map = connections[registry] \union {r}
    <3>1. map \in PutOutcomes(r, connections[registry])
      BY <2>1
    <3> QED
      BY <2>1, <3>1, PutKeeps
  <2>3. connections'[registry] = connections[registry] \union {r}
    BY <1>1, <1>3, <2>1, <2>2 DEF IInv, TypeOK
  <2>4. \A q \in Request : Usable(q) \/ q = r => Usable(q)'
    BY <1>2, <1>3, <2>3 DEF Usable
  <2> QED
    BY <1>2, <2>4 DEF IInv, Ranges, Alone, InProgress
<1> QED
  BY <1>2, <1>4, <1>5, <1>6, GatewayKept DEF IInv

\* The listener is registered or not, and the POST is answered.
LEMMA RunInv == ASSUME IInv, NEW r \in Request, Run(r) PROVE IInv'
<1>1. /\ pc[r] = "run"
      /\ listening' \in {listening \union {r}, listening}
      /\ pc' = [pc EXCEPT ![r] = "answered"]
      /\ UNCHANGED <<registry, subscriptions, connections, object, raced, overlapped>>
      /\ UNCHANGED <<gateway, polls>>
  BY DEF Run, Goto
<1>2. TypeOK'
  <2>1. listening' \subseteq Request
    BY <1>1 DEF IInv, TypeOK
  <2>2. registry # NoRequest
    BY <1>1 DEF IInv, TypeOK
  <2> QED
    BY <1>1, <2>1, <2>2, GatewayKept DEF IInv, TypeOK
<1>3. Ranges'
  BY <1>1 DEF IInv, Ranges, gateway, polls
<1>4. Alone'
  BY <1>1 DEF IInv, Ranges, Alone, InProgress, Usable
<1> QED
  BY <1>1, <1>2, <1>3, <1>4, GatewayKept DEF IInv

-----------------------------------------------------------------------------
(* The channel, the gateway and the polls.                                 *)

\* The last Cap of the first n events.
Window(n) == [i \in 1..(IF n < Cap THEN n ELSE Cap) |-> (IF n < Cap THEN 0 ELSE n - Cap) + i]

\* BufferIsWindow, with Window for the queue it describes.
LEMMA WindowIsBuffer == BufferIsWindow <=> \A r \in Request : buffer[r] = Window(delivered[r])
BY DEF BufferIsWindow, Window

\* A queue that holds the last Cap of n events holds the last Cap of n + 1 when the
\* next one has been enqueued.
LEMMA EnqueuedWindow ==
    ASSUME NEW n \in Nat
    PROVE  Enqueued(Window(n), n + 1) = Window(n + 1)
<1>1. Cap \in Nat /\ Cap > 0
  BY ConstantAssumption
<1>2. CASE n < Cap
  <2>1. Window(n) = [i \in 1..n |-> 0 + i]
    BY <1>2 DEF Window
  <2>2. Window(n) \in Seq(Nat) /\ Len(Window(n)) = n
    BY <2>1
  <2>3. Enqueued(Window(n), n + 1) = Append(Window(n), n + 1)
    BY <1>1, <1>2, <2>2 DEF Enqueued
  <2>4. Append(Window(n), n + 1) = [i \in 1..(n + 1) |-> 0 + i]
    BY <2>1, <2>2
  <2>5. Window(n + 1) = [i \in 1..(n + 1) |-> 0 + i]
    BY <1>1, <1>2 DEF Window
  <2> QED
    BY <2>3, <2>4, <2>5
<1>3. CASE n >= Cap
  <2>1. Window(n) = [i \in 1..Cap |-> n - Cap + i]
    BY <1>1, <1>3 DEF Window
  <2>2. Window(n) \in Seq(Nat) /\ Len(Window(n)) = Cap
    BY <1>1, <1>3, <2>1
  <2>3. Enqueued(Window(n), n + 1) = Append(Tail(Window(n)), n + 1)
    BY <2>2 DEF Enqueued
  <2>4. Tail(Window(n)) = [i \in 1..(Cap - 1) |-> n - Cap + (i + 1)]
    BY <1>1, <1>3, <2>1, <2>2
  <2>5. /\ Tail(Window(n)) \in Seq(Nat) /\ Len(Tail(Window(n))) = Cap - 1
        /\ \A i \in 1..(Cap - 1) : Tail(Window(n))[i] = n + 1 - Cap + i
    <3>1. \A i \in 1..(Cap - 1) : n - Cap + (i + 1) = n + 1 - Cap + i
      BY <1>1
    <3>2. Len(Window(n)) > 0
      BY <1>1, <2>2
    <3>3. Tail(Window(n)) \in Seq(Nat)
      BY <2>2, <3>2
    <3>4. Len(Tail(Window(n))) = Cap - 1
      BY <1>1, <2>2, <3>2
    <3>5. \A i \in 1..(Cap - 1) : Tail(Window(n))[i] = n + 1 - Cap + i
      BY <2>4, <3>1
    <3> QED
      BY <3>3, <3>4, <3>5
  <2>6. Append(Tail(Window(n)), n + 1) = [i \in 1..Cap |-> n + 1 - Cap + i]
    <3> DEFINE tail == Tail(Window(n))
    <3>1. Append(tail, n + 1) = [i \in 1..(Len(tail) + 1) |-> IF i \in 1..Len(tail) THEN tail[i] ELSE n + 1]
      BY <2>5
    <3>2. Len(tail) + 1 = Cap
      BY <1>1, <2>5
    <3>3. \A i \in 1..Cap : (IF i \in 1..(Cap - 1) THEN n + 1 - Cap + i ELSE n + 1) = n + 1 - Cap + i
      BY <1>1
    <3> QED
      BY <2>5, <3>1, <3>2, <3>3
  <2>7. Window(n + 1) = [i \in 1..Cap |-> n + 1 - Cap + i]
    BY <1>1, <1>3 DEF Window
  <2> QED
    BY <2>3, <2>6, <2>7
<1> QED
  BY <1>1, <1>2, <1>3

\* Nothing the requests know changes.
LEMMA RequestsKept ==
    ASSUME IInv, UNCHANGED <<requests, listening>>
    PROVE  /\ Alone'
           /\ (\A r \in Request : pc[r] \in {"add", "adding", "connect", "connecting", "run",
                                             "answered"} => registry # NoRequest)'
BY DEF IInv, TypeOK, Alone, InProgress, Usable, requests

\* The channel grows by an event.
LEMMA EmitInv == ASSUME IInv, Emit PROVE IInv'
<1>1. /\ events' = events + 1
      /\ UNCHANGED <<requests, listening>>
      /\ UNCHANGED <<delivered, buffer>>
      /\ UNCHANGED polls
  BY DEF Emit
<1>2. events \in Nat /\ 0..events \subseteq 0..(events + 1)
  BY DEF IInv, Ranges
<1>3. \A r \in Request : delivered'[r] \in 0..events'
  BY <1>1, <1>2 DEF IInv, TypeOK
<1>4. TypeOK'
  BY <1>1, <1>3, RequestsKept DEF IInv, TypeOK, requests
<1>5. Ranges'
  BY <1>1, <1>2 DEF IInv, Ranges, requests, polls
<1>6. BufferIsWindow'
  BY <1>1 DEF IInv, BufferIsWindow
<1> QED
  BY <1>1, <1>4, <1>5, <1>6, RequestsKept DEF IInv

\* The next event goes to the end of the queue, and the oldest one out of a full one.
LEMMA DeliverInv == ASSUME IInv, NEW r \in Request, Deliver(r) PROVE IInv'
<1>1. /\ delivered[r] < events
      /\ delivered' = [delivered EXCEPT ![r] = delivered[r] + 1]
      /\ buffer' = [buffer EXCEPT ![r] = Enqueued(buffer[r], delivered[r] + 1)]
      /\ get' = [get EXCEPT ![r] = IF get[r] = "none" THEN "none" ELSE "disturbed"]
      /\ UNCHANGED <<requests, listening>>
      /\ UNCHANGED <<events, got>>
  BY DEF Deliver, Disturb
<1>2. delivered[r] \in Nat /\ events \in Nat
  BY DEF IInv, Ranges
<1>3. delivered[r] + 1 \in 0..events /\ delivered[r] + 1 \in Nat
  BY <1>1, <1>2
<1>4. TypeOK'
  <2>1. \A q \in Request : delivered'[q] \in 0..events
    BY <1>1, <1>3 DEF IInv, TypeOK, Ranges
  <2> QED
    BY <1>1, <2>1, RequestsKept DEF IInv, TypeOK, requests
<1>5. Ranges'
  BY <1>1, <1>3 DEF IInv, Ranges, requests
<1>6. BufferIsWindow'
  <2>1. \A q \in Request : buffer[q] = Window(delivered[q])
    BY WindowIsBuffer DEF IInv
  <2>2. Enqueued(buffer[r], delivered[r] + 1) = Window(delivered[r] + 1)
    BY <1>2, <2>1, EnqueuedWindow
  <2>3. \A q \in Request : buffer'[q] = Window(delivered'[q])
    BY <1>1, <2>1, <2>2 DEF IInv, Ranges
  <2> QED
    BY <2>3 DEF BufferIsWindow, Window
<1> QED
  BY <1>1, <1>4, <1>5, <1>6, RequestsKept DEF IInv

\* A GET begins to read the queue.
LEMMA BeginGetInv == ASSUME IInv, NEW r \in Request, BeginGet(r) PROVE IInv'
<1>1. /\ get' = [get EXCEPT ![r] = "reading"]
      /\ UNCHANGED <<requests, listening>>
      /\ UNCHANGED <<gateway, got>>
  BY DEF BeginGet
<1>2. TypeOK'
  BY <1>1, RequestsKept DEF IInv, TypeOK, requests, gateway
<1>3. Ranges'
  BY <1>1 DEF IInv, Ranges, requests, gateway
<1>4. BufferIsWindow'
  BY <1>1 DEF IInv, BufferIsWindow, gateway
<1> QED
  BY <1>1, <1>2, <1>3, <1>4, RequestsKept DEF IInv

\* A GET ends with what it read.
LEMMA EndGetInv == ASSUME IInv, NEW r \in Request, EndGet(r) PROVE IInv'
<1>1. /\ get' = [get EXCEPT ![r] = "none"]
      /\ UNCHANGED <<requests, listening>>
      /\ UNCHANGED gateway
  BY DEF EndGet
<1>2. DOMAIN got' = Request
  BY DEF EndGet, IInv, Ranges
<1>3. TypeOK'
  BY <1>1, RequestsKept DEF IInv, TypeOK, requests, gateway
<1>4. Ranges'
  BY <1>1, <1>2 DEF IInv, Ranges, requests, gateway
<1>5. BufferIsWindow'
  BY <1>1 DEF IInv, BufferIsWindow, gateway
<1> QED
  BY <1>1, <1>3, <1>4, <1>5, RequestsKept DEF IInv

-----------------------------------------------------------------------------
(* The theorems.                                                           *)

\* The invariant holds in every reachable state.
THEOREM Inductive == Spec => []IInv
<1>1. Init => IInv
  BY InitInv
<1>2. IInv /\ [Next]_vars => IInv'
  <2> SUFFICES ASSUME IInv, [Next]_vars PROVE IInv'
    OBVIOUS
  <2>1. CASE UNCHANGED vars
    <3>1. UNCHANGED <<requests, listening, gateway, polls>>
      BY <2>1 DEF vars
    <3> QED
      BY <3>1, RequestsKept, GatewayKept
         DEF IInv, TypeOK, Ranges, requests, gateway, polls
  <2>2. CASE Next
    <3>1. ASSUME NEW r \in Request, Continue(r) PROVE IInv'
      BY <3>1, CreateInv, BeginAddInv, EndAddInv, BeginConnectInv, EndConnectInv, RunInv
         DEF Continue
    <3>2. ASSUME NEW r \in Request, Begin(r) \/ Deliver(r) \/ BeginGet(r) \/ EndGet(r)
          PROVE  IInv'
      BY <3>2, BeginInv, DeliverInv, BeginGetInv, EndGetInv
    <3> QED
      BY <2>2, <3>1, <3>2, EmitInv DEF Next
  <2> QED
    BY <2>1, <2>2
<1> QED
  BY <1>1, <1>2, PTL DEF Spec

\* Nobody works on a Subscriptions object before one was published.
THEOREM TypeCorrect == Spec => []TypeOK
<1>1. IInv => TypeOK
  BY DEF IInv
<1> QED
  BY <1>1, Inductive, PTL

\* An id that was answered leads to its client, unless POSTs overlapped.
THEOREM UsableAlone == Spec => []UsableUnlessOverlapped
<1>1. IInv => UsableUnlessOverlapped
  BY DEF IInv, Alone, UsableUnlessOverlapped
<1> QED
  BY <1>1, Inductive, PTL

\* A buffer holds the last events that were delivered, in order, and no others.
THEOREM BuffersAreWindows == Spec => []BufferIsWindow
<1>1. IInv => BufferIsWindow
  BY DEF IInv
<1> QED
  BY <1>1, Inductive, PTL

\* What a poll that nothing disturbed leaves unanswered is older than the window.
THEOREM PollsAnswerWindow == Spec => PollsMissNothing
<1> DEFINE Missing(r) == \A e \in 1..delivered[r] : e \notin got'[r] => e + Cap <= delivered[r]
<1> DEFINE P == \A r \in Request : get[r] = "reading" /\ get'[r] = "none" => Missing(r)
<1>1. ASSUME IInv, [Next]_vars, NEW r \in Request, get[r] = "reading", get'[r] = "none"
      PROVE  Missing(r)
  <2>1. got'[r] = got[r] \union ToSet(buffer[r])
    <3>1. EndGet(r)
      <4>1. ~UNCHANGED vars
        BY <1>1 DEF vars, polls
      <4>2. \A q \in Request : Deliver(q) => get'[r] = "reading" \/ get'[r] = "disturbed"
        BY <1>1 DEF Deliver, Disturb, IInv, Ranges
      <4>3. \A q \in Request : BeginGet(q) => get'[r] = "reading"
        BY <1>1 DEF BeginGet, IInv, Ranges
      <4>4. \A q \in Request : EndGet(q) => q = r
        BY <1>1 DEF EndGet, IInv, Ranges
      <4>5. ~Emit /\ \A q \in Request : ~Begin(q) /\ ~Continue(q)
        BY <1>1 DEF Emit, Begin, Continue, Create, BeginAdd, EndAdd, BeginConnect, EndConnect,
                    Run, polls
      <4> QED
        BY <1>1, <4>1, <4>2, <4>3, <4>4, <4>5 DEF Next
    <3>2. PICK answer \in Answers(r) : got' = [got EXCEPT ![r] = got[r] \union answer]
      BY <3>1 DEF EndGet
    <3>3. answer = ToSet(buffer[r])
      BY <1>1, <3>2 DEF Answers
    <3> QED
      BY <1>1, <3>2, <3>3 DEF IInv, Ranges
  <2>2. delivered[r] \in Nat /\ Cap \in Nat
    BY <1>1, ConstantAssumption DEF IInv, Ranges
  <2>3. buffer[r] = Window(delivered[r])
    BY <1>1, WindowIsBuffer DEF IInv
  <2>4. ASSUME NEW e \in 1..delivered[r], ~(e + Cap <= delivered[r])
        PROVE  e \in ToSet(buffer[r])
    <3>1. CASE delivered[r] < Cap
      <4>1. buffer[r] = [i \in 1..delivered[r] |-> 0 + i]
        BY <2>3, <3>1 DEF Window
      <4>2. e \in DOMAIN buffer[r] /\ buffer[r][e] = e
        BY <2>2, <4>1
      <4> QED
        BY <4>2 DEF ToSet
    <3>2. CASE ~(delivered[r] < Cap)
      <4>1. buffer[r] = [i \in 1..Cap |-> delivered[r] - Cap + i]
        BY <2>3, <3>2 DEF Window
      <4>2. e - (delivered[r] - Cap) \in 1..Cap
        BY <2>2, <2>4, <3>2
      <4>3. buffer[r][e - (delivered[r] - Cap)] = e
        BY <2>2, <4>1, <4>2
      <4> QED
        BY <4>1, <4>2, <4>3 DEF ToSet
    <3> QED
      BY <3>1, <3>2
  <2> QED
    BY <2>1, <2>4
<1>2. IInv /\ [Next]_vars => [P]_vars
  BY <1>1
<1>3. Spec => [][P]_vars
  BY <1>2, Inductive, PTL DEF Spec
<1> QED
  BY <1>3 DEF PollsMissNothing
==============================================================================
