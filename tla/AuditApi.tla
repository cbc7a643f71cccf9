------------------------------ MODULE AuditApi ------------------------------
(***************************************************************************)
(* The audit REST API, scray-ledger-rest-api/audit-api: a GET with a       *)
(* channel and a block number answers the block.  Requests run in threads  *)
(* of their own; they share the static HashMap RestApplication.blockClients*)
(* with one client of every channel that was asked for, and no lock.       *)
(***************************************************************************)
EXTENDS Naturals

CONSTANTS
    Request,
    Channel,
    Peer,           \* the peers, which all have joined every channel
    BlockNumber,    \* the blocks that are asked for
    MaxHeight       \* bound: the blocks of a channel

ASSUME ConstantAssumption ==
    Channel # {} /\ BlockNumber \subseteq Nat /\ MaxHeight \in Nat \ {0}

VARIABLES
    height,         \* the number of blocks of every channel that a peer has
    blockClients,   \* the channels with an entry in the map
    pc,             \* where every request is
    channel,        \* the block it asks for
    number,
    raced,          \* its HashMap.put overlaps another put
    answer,         \* the channelHeight in its answer; 0 in one without a block
    everywhere,     \* auxiliary: every peer had its block when it was read
    overlapped      \* auxiliary: two requests have been in progress together

vars == <<height, blockClients, pc, channel, number, raced, answer, everywhere, overlapped>>

InProgress(r) == pc[r] \in {"start", "put", "putting", "get", "query", "height"}

Goto(r, label) == pc' = [pc EXCEPT ![r] = label]

-----------------------------------------------------------------------------
(* glockGet                                                                *)

\* A reader of the map finds the entry, or, while another puts, perhaps not.
Found(r) ==
    {channel[r] \in blockClients}
      \union {FALSE : q \in {q \in Request \ {r} : pc[q] = "putting"}}

Begin(r) ==
    /\ pc[r] = "new"
    /\ \E c \in Channel, n \in BlockNumber :
          channel' = [channel EXCEPT ![r] = c] /\ number' = [number EXCEPT ![r] = n]
    /\ Goto(r, "start")
    /\ overlapped' = (overlapped \/ \E q \in Request : InProgress(q))
    /\ UNCHANGED <<height, blockClients, raced, answer, everywhere>>

\* Mutant: only the first request creates a client.
TestEmpty(r) ==
    /\ pc[r] = "start"
    /\ Goto(r, IF blockClients # {} THEN "get" ELSE "put")
    /\ UNCHANGED <<height, blockClients, channel, number, raced, answer, everywhere, overlapped>>

Test(r) ==
    /\ pc[r] = "start"
    /\ \E found \in Found(r) : Goto(r, IF found THEN "get" ELSE "put")
    /\ UNCHANGED <<height, blockClients, channel, number, raced, answer, everywhere, overlapped>>

BeginPut(r) ==
    LET others == {q \in Request \ {r} : pc[q] = "putting"} IN
    /\ pc[r] = "put"
    /\ Goto(r, "putting")
    /\ raced' = [q \in Request |-> IF q = r THEN others # {} ELSE raced[q] \/ q \in others]
    /\ UNCHANGED <<height, blockClients, channel, number, answer, everywhere, overlapped>>

\* Mutant: the entry goes under another key than the one that is tested.
EndPutElsewhere(r) ==
    /\ pc[r] = "putting"
    /\ blockClients' = blockClients \union {r}
    /\ Goto(r, "get")
    /\ UNCHANGED <<height, channel, number, raced, answer, everywhere, overlapped>>

\* Two puts that overlap may each lose the other's entry, or older ones.
EndPut(r) ==
    /\ pc[r] = "putting"
    /\ LET map == blockClients \union {channel[r]} IN
       blockClients' \in (IF raced[r] THEN SUBSET map ELSE {map})
    /\ Goto(r, "get")
    /\ UNCHANGED <<height, channel, number, raced, answer, everywhere, overlapped>>

\* A client that is not found is a null reference: the request fails.
Get(r) ==
    /\ pc[r] = "get"
    /\ \E found \in Found(r) : Goto(r, IF found THEN "query" ELSE "failed")
    /\ UNCHANGED <<height, blockClients, channel, number, raced, answer, everywhere, overlapped>>

-----------------------------------------------------------------------------
(* getBlock of the client, with a connection of its own for each request.  *)
(* Each of its two queries goes to any peer of the channel; some lag.      *)

HasBlock(r, p) == number[r] < height[channel[r]][p]

\* The block is answered: the height is asked for next.
AskHeight(r) ==
    /\ Goto(r, "height")
    /\ everywhere' = [everywhere EXCEPT ![r] = \A p \in Peer : HasBlock(r, p)]

\* Mutants: the exception is caught around the first query only; a block to come
\* is waited for.
QueryBlockGoingOn(r) ==
    /\ pc[r] = "query"
    /\ AskHeight(r)
    /\ UNCHANGED <<height, blockClients, channel, number, raced, answer, overlapped>>

QueryBlockWaiting(r) ==
    /\ pc[r] = "query"
    /\ \E p \in Peer : HasBlock(r, p)
    /\ AskHeight(r)
    /\ UNCHANGED <<height, blockClients, channel, number, raced, answer, overlapped>>

\* queryBlockByNumber.  The exception of a block that this peer does not have, like
\* that of a connection that fails, is swallowed: the answer is empty.
QueryBlock(r) ==
    /\ pc[r] = "query"
    /\ \/ (\E p \in Peer : HasBlock(r, p)) /\ AskHeight(r)
       \/ Goto(r, "answered") /\ UNCHANGED everywhere
    /\ UNCHANGED <<height, blockClients, channel, number, raced, answer, overlapped>>

\* queryBlockchainInfo, a second query; where it fails, the block is dropped, too.
QueryHeight(r) ==
    /\ pc[r] = "height"
    /\ \/ \E p \in Peer : answer' = [answer EXCEPT ![r] = height[channel[r]][p]]
       \/ UNCHANGED answer
    /\ Goto(r, "answered")
    /\ UNCHANGED <<height, blockClients, channel, number, raced, everywhere, overlapped>>

\* The channel goes on meanwhile: a peer receives the next block.
AppendBlock(c, p) ==
    /\ height[c][p] < MaxHeight
    /\ height' = [height EXCEPT ![c][p] = @ + 1]
    /\ UNCHANGED <<blockClients, pc, channel, number, raced, answer, everywhere, overlapped>>

-----------------------------------------------------------------------------

Init ==
    /\ height = [c \in Channel |-> [p \in Peer |-> 1]]
    /\ blockClients = {}
    /\ pc = [r \in Request |-> "new"]
    /\ channel = [r \in Request |-> CHOOSE c \in Channel : TRUE]
    /\ number = [r \in Request |-> 0]
    /\ raced = [r \in Request |-> FALSE]
    /\ answer = [r \in Request |-> 0]
    /\ everywhere = [r \in Request |-> FALSE]
    /\ overlapped = FALSE

Continue(r) ==
    \/ Test(r) \/ BeginPut(r) \/ EndPut(r) \/ Get(r)
    \/ QueryBlock(r) \/ QueryHeight(r)

Next ==
    \/ \E r \in Request : Begin(r) \/ Continue(r)
    \/ \E c \in Channel, p \in Peer : AppendBlock(c, p)

\* A request that started runs on.  Nobody has to send one, and no channel grows
\* because it is asked for.
Spec == Init /\ [][Next]_vars /\ \A r \in Request : WF_vars(Continue(r))

-----------------------------------------------------------------------------
(* Properties.                                                             *)

\* The map has clients only of channels somebody asked for.
TypeOK ==
    /\ height \in [Channel -> [Peer -> 0 .. MaxHeight]]
    /\ blockClients \subseteq {channel[r] : r \in {r \in Request : pc[r] # "new"}}
    /\ pc \in [Request -> {"new", "start", "put", "putting", "get", "query", "height",
                           "answered", "failed"}]
    /\ channel \in [Request -> Channel]
    /\ number \in [Request -> BlockNumber \union {0}]
    /\ raced \in [Request -> BOOLEAN]
    /\ answer \in [Request -> 0 .. MaxHeight]
    /\ everywhere \in [Request -> BOOLEAN]
    /\ overlapped \in BOOLEAN

\* glockGet reads the client back from the map it has just put it in: requests
\* that come one after the other always find theirs, whatever channels were
\* asked for before, and only those that overlap can run into a null reference.
FailsOnlyByRace == (\E r \in Request : pc[r] = "failed") => overlapped

\* A block and the channelHeight beside it come from two queries, which two peers
\* may answer while the chain grows: block and height are some peer's, the height
\* none that the channel has not reached.  It may be too low for the block, but
\* only if a peer did not have the block yet when it was read.
AnswerIsOnChain ==
    \A r \in Request : answer[r] > 0 =>
        /\ \E p \in Peer : HasBlock(r, p)
        /\ \E p \in Peer : answer[r] <= height[channel[r]][p]
        /\ everywhere[r] => number[r] < answer[r]

\* Every GET is answered or fails, also one for a block that never comes.
EveryRequestEnds == \A r \in Request : InProgress(r) ~> pc[r] \in {"answered", "failed"}
=============================================================================
