--------------------------- MODULE AuditApiProof ---------------------------
(***************************************************************************)
(* Proofs about AuditApi, for any requests, channels, peers and blocks.    *)
(***************************************************************************)
EXTENDS AuditApi, TLAPS

-----------------------------------------------------------------------------
(* The inductive invariant.                                                *)

\* A request carries no height before its second query has answered, and makes
\* that query only for a block that a peer has; if all had it, they have it still.
HeightAfterBlock ==
    \A r \in Request :
        /\ answer[r] > 0 => pc[r] = "answered"
        /\ pc[r] = "height" =>
              /\ \E p \in Peer : HasBlock(r, p)
              /\ everywhere[r] => \A p \in Peer : HasBlock(r, p)

\* While no two requests were ever in progress together, no put was disturbed, a
\* request that has put its client still finds it, and none has failed.
Alone ==
    ~overlapped =>
        /\ \A q, r \in Request : InProgress(q) /\ InProgress(r) => q = r
        /\ \A r \in Request : /\ ~raced[r]
                              /\ pc[r] # "failed"
                              /\ pc[r] = "get" => channel[r] \in blockClients

IInv ==
    /\ TypeOK
    /\ HeightAfterBlock
    /\ AnswerIsOnChain
    /\ Alone

-----------------------------------------------------------------------------
(* One lemma per step.                                                     *)

\* A step that leaves the chains, the questions and the answers alone, and does
\* not ask for a height.
LEMMA Untouched ==
    ASSUME IInv, NEW r \in Request, NEW label,
           pc[r] \notin {"height", "answered"}, label # "height",
           pc' = [pc EXCEPT ![r] = label],
           UNCHANGED <<height, channel, number, answer, everywhere>>
    PROVE  HeightAfterBlock' /\ AnswerIsOnChain'
<1>1. \A q \in Request, p \in Peer : HasBlock(q, p)' <=> HasBlock(q, p)
  BY DEF HasBlock
<1>2. AnswerIsOnChain'
  BY <1>1 DEF IInv, AnswerIsOnChain
<1>3. \A q \in Request : pc'[q] = IF q = r THEN label ELSE pc[q]
  BY DEF IInv, TypeOK
<1>4. HeightAfterBlock'
  BY <1>1, <1>3 DEF IInv, HeightAfterBlock
<1> QED
  BY <1>2, <1>4

\* What the steps need of the numbers: a chain only grows, and stays in its bound.
LEMMA Heights ==
    ASSUME IInv
    PROVE  /\ \A c \in Channel, p \in Peer : height[c][p] \in Nat /\ height[c][p] <= MaxHeight
           /\ \A r \in Request : /\ number[r] \in Nat
                                 /\ answer[r] \in Nat
                                 /\ channel[r] \in Channel
<1>1. /\ \A c \in Channel, p \in Peer : height[c][p] \in 0..MaxHeight
      /\ \A r \in Request : /\ number[r] \in BlockNumber \union {0}
                            /\ answer[r] \in 0..MaxHeight
                            /\ channel[r] \in Channel
  BY DEF IInv, TypeOK
<1>2. MaxHeight \in Nat /\ BlockNumber \union {0} \subseteq Nat
  BY ConstantAssumption
<1>3. \A n \in 0..MaxHeight : n \in Nat /\ n <= MaxHeight
  BY <1>2
<1> QED
  BY <1>1, <1>2, <1>3

\* A request in progress that goes on alone, and leaves the map as it is.
LEMMA StillAlone ==
    ASSUME IInv, NEW r \in Request, InProgress(r), NEW label,
           pc' = [pc EXCEPT ![r] = label],
           ~overlapped => label # "failed",
           ~overlapped /\ label = "get" => channel[r] \in blockClients,
           UNCHANGED <<blockClients, channel, raced, overlapped>>
    PROVE  Alone'
<1> SUFFICES ASSUME ~overlapped
             PROVE  /\ \A q, p \in Request : (InProgress(q) /\ InProgress(p))' => q = p
                    /\ \A q \in Request : /\ ~raced[q]
                                          /\ pc'[q] # "failed"
                                          /\ pc'[q] = "get" => channel[q] \in blockClients
  BY DEF Alone
<1>1. \A q \in Request : pc'[q] = IF q = r THEN label ELSE pc[q]
  BY DEF IInv, TypeOK
<1>2. \A q \in Request : InProgress(q)' => InProgress(q)
  BY <1>1 DEF InProgress
<1> QED
  BY <1>1, <1>2 DEF IInv, Alone

\* Before the first request.
LEMMA InitInv == Init => IInv
<1> SUFFICES ASSUME Init PROVE IInv
  OBVIOUS
<1>1. TypeOK
  <2>1. 1 \in 0..MaxHeight /\ 0 \in 0..MaxHeight
    BY ConstantAssumption
  <2>2. (CHOOSE c \in Channel : TRUE) \in Channel
    BY ConstantAssumption
  <2> QED
    BY <2>1, <2>2 DEF Init, TypeOK
<1>2. HeightAfterBlock /\ AnswerIsOnChain
  BY DEF Init, HeightAfterBlock, AnswerIsOnChain
<1>3. Alone
  BY DEF Init, Alone, InProgress
<1> QED
  BY <1>1, <1>2, <1>3 DEF IInv

\* A request may begin beside others; that is what overlapped then says.
LEMMA BeginInv == ASSUME IInv, NEW r \in Request, Begin(r) PROVE IInv'
<1>1. PICK c \in Channel, n \in BlockNumber :
         /\ pc[r] = "new"
         /\ channel' = [channel EXCEPT ![r] = c]
         /\ number' = [number EXCEPT ![r] = n]
         /\ pc' = [pc EXCEPT ![r] = "start"]
         /\ overlapped' = (overlapped \/ \E q \in Request : InProgress(q))
         /\ UNCHANGED <<height, blockClients, raced, answer, everywhere>>
  BY DEF Begin, Goto
<1>2. TypeOK'
  BY <1>1 DEF IInv, TypeOK
<1>3. HeightAfterBlock'
  BY <1>1 DEF IInv, TypeOK, HeightAfterBlock, HasBlock
<1>4. AnswerIsOnChain'
  <2>1. answer[r] = 0
    BY <1>1, Heights DEF IInv, HeightAfterBlock
  <2> QED
    BY <1>1, <2>1 DEF IInv, TypeOK, AnswerIsOnChain, HasBlock
<1>5. Alone'
  <2> SUFFICES ASSUME ~overlapped'
               PROVE  /\ \A q, p \in Request : (InProgress(q) /\ InProgress(p))' => q = p
                      /\ \A q \in Request : /\ ~raced'[q]
                                            /\ pc'[q] # "failed"
                                            /\ pc'[q] = "get" => channel'[q] \in blockClients'
    BY DEF Alone
  <2>1. ~overlapped /\ \A q \in Request : ~InProgress(q)
    BY <1>1
  <2>2. \A q \in Request \ {r} : pc'[q] = pc[q] /\ channel'[q] = channel[q]
    BY <1>1 DEF IInv, TypeOK
  <2>3. pc'[r] = "start"
    BY <1>1 DEF IInv, TypeOK
  <2> QED
    BY <1>1, <2>1, <2>2, <2>3 DEF IInv, Alone, InProgress
<1> QED
  BY <1>2, <1>3, <1>4, <1>5 DEF IInv

\* The test of the map, and the fetching of the client, change nothing else.
LEMMA TestInv == ASSUME IInv, NEW r \in Request, Test(r) PROVE IInv'
<1>1. /\ pc[r] = "start"
      /\ pc' = [pc EXCEPT ![r] = "get"] \/ pc' = [pc EXCEPT ![r] = "put"]
      /\ UNCHANGED <<height, blockClients, channel, number, raced, answer, everywhere, overlapped>>
  BY DEF Test, Goto
<1>2. TypeOK'
  BY <1>1 DEF IInv, TypeOK
<1>3. HeightAfterBlock' /\ AnswerIsOnChain'
  BY <1>1, Untouched
<1>4. ASSUME ~overlapped, pc'[r] = "get" PROVE channel[r] \in blockClients
  <2>1. \A q \in Request \ {r} : pc[q] # "putting"
    BY <1>1, <1>4 DEF IInv, Alone, InProgress
  <2>2. Found(r) = {channel[r] \in blockClients}
    BY <2>1 DEF Found
  <2>3. PICK found \in Found(r) : pc' = [pc EXCEPT ![r] = IF found THEN "get" ELSE "put"]
    BY DEF Test, Goto
  <2> QED
    BY <1>4, <2>2, <2>3 DEF IInv, TypeOK
<1>5. Alone'
  <2>1. pc' = [pc EXCEPT ![r] = "get"] => pc'[r] = "get"
    BY DEF IInv, TypeOK
  <2>2. InProgress(r)
    BY <1>1 DEF InProgress
  <2> QED
    BY <1>1, <1>4, <2>1, <2>2, StillAlone
<1> QED
  BY <1>2, <1>3, <1>5 DEF IInv

\* glockGet finds the client, or fails: then another request overlapped.
LEMMA GetInv == ASSUME IInv, NEW r \in Request, Get(r) PROVE IInv'
<1>1. /\ pc[r] = "get"
      /\ pc' = [pc EXCEPT ![r] = "query"] \/ pc' = [pc EXCEPT ![r] = "failed"]
      /\ UNCHANGED <<height, blockClients, channel, number, raced, answer, everywhere, overlapped>>
  BY DEF Get, Goto
<1>2. TypeOK'
  BY <1>1 DEF IInv, TypeOK
<1>3. HeightAfterBlock' /\ AnswerIsOnChain'
  BY <1>1, Untouched
<1>4. ASSUME ~overlapped PROVE pc' = [pc EXCEPT ![r] = "query"]
  <2>1. \A q \in Request \ {r} : pc[q] # "putting"
    BY <1>1, <1>4 DEF IInv, Alone, InProgress
  <2>2. Found(r) = {TRUE}
    BY <1>1, <1>4, <2>1 DEF Found, IInv, Alone
  <2> QED
    BY <2>2 DEF Get, Goto
<1>5. Alone'
  <2>1. InProgress(r)
    BY <1>1 DEF InProgress
  <2> QED
    BY <1>1, <1>4, <2>1, StillAlone
<1> QED
  BY <1>2, <1>3, <1>5 DEF IInv

\* A put is disturbed only by another request in progress.
LEMMA BeginPutInv == ASSUME IInv, NEW r \in Request, BeginPut(r) PROVE IInv'
<1> DEFINE others == {q \in Request \ {r} : pc[q] = "putting"}
<1>1. /\ pc[r] = "put"
      /\ pc' = [pc EXCEPT ![r] = "putting"]
      /\ raced' = [q \in Request |-> IF q = r THEN others # {} ELSE raced[q] \/ q \in others]
      /\ UNCHANGED <<height, blockClients, channel, number, answer, everywhere, overlapped>>
  BY DEF BeginPut, Goto
<1>2. TypeOK'
  <2>1. raced' \in [Request -> BOOLEAN]
    BY <1>1 DEF IInv, TypeOK
  <2> QED
    BY <1>1, <2>1 DEF IInv, TypeOK
<1>3. HeightAfterBlock' /\ AnswerIsOnChain'
  BY <1>1, Untouched
<1>4. ASSUME ~overlapped PROVE others = {}
  BY <1>1, <1>4 DEF IInv, Alone, InProgress
<1>5. Alone'
  <2> SUFFICES ASSUME ~overlapped PROVE Alone'
    BY <1>1 DEF Alone
  <2>1. \A q \in Request : ~raced'[q]
    BY <1>1, <1>4 DEF IInv, Alone
  <2> QED
    BY <1>1, <2>1 DEF IInv, TypeOK, Alone, InProgress
<1> QED
  BY <1>2, <1>3, <1>5 DEF IInv

\* A put that nobody disturbed adds its entry and loses none.
LEMMA EndPutInv == ASSUME IInv, NEW r \in Request, EndPut(r) PROVE IInv'
<1> DEFINE map == blockClients \union {channel[r]}
<1>1. /\ pc[r] = "putting"
      /\ blockClients' \in (IF raced[r] THEN SUBSET map ELSE {map})
      /\ pc' = [pc EXCEPT ![r] = "get"]
      /\ UNCHANGED <<height, channel, number, raced, answer, everywhere, overlapped>>
  BY DEF EndPut, Goto
<1>2. TypeOK'
  <2>1. blockClients' \subseteq blockClients \union {channel[r]}
    BY <1>1
  <2>2. \A q \in Request : pc[q] # "new" => pc'[q] # "new"
    BY <1>1 DEF IInv, TypeOK
  <2>3. blockClients' \subseteq {channel[q] : q \in {q \in Request : pc'[q] # "new"}}
    BY <1>1, <2>1, <2>2 DEF IInv, TypeOK
  <2> QED
    BY <1>1, <2>3 DEF IInv, TypeOK
<1>3. HeightAfterBlock' /\ AnswerIsOnChain'
  BY <1>1, Untouched
<1>4. Alone'
  <2> SUFFICES ASSUME ~overlapped PROVE Alone'
    BY <1>1 DEF Alone
  <2>1. blockClients' = blockClients \union {channel[r]}
    BY <1>1 DEF IInv, Alone
  <2> QED
    BY <1>1, <2>1 DEF IInv, TypeOK, Alone, InProgress
<1> QED
  BY <1>2, <1>3, <1>4 DEF IInv

\* The block is looked for at one of the peers, as they are now.
LEMMA QueryBlockInv == ASSUME IInv, NEW r \in Request, QueryBlock(r) PROVE IInv'
<1>1. /\ pc[r] = "query"
      /\ \/ /\ \E p \in Peer : HasBlock(r, p)
            /\ pc' = [pc EXCEPT ![r] = "height"]
            /\ everywhere' = [everywhere EXCEPT ![r] = \A p \in Peer : HasBlock(r, p)]
         \/ pc' = [pc EXCEPT ![r] = "answered"] /\ UNCHANGED everywhere
      /\ UNCHANGED <<height, blockClients, channel, number, raced, answer, overlapped>>
  BY DEF QueryBlock, AskHeight, Goto
<1>2. everywhere' \in [Request -> BOOLEAN]
  BY <1>1 DEF IInv, TypeOK
<1>10. /\ pc' = [pc EXCEPT ![r] = "height"] \/ pc' = [pc EXCEPT ![r] = "answered"]
       /\ UNCHANGED <<height, blockClients, channel, number, raced, answer, overlapped>>
  BY <1>1
<1>3. TypeOK'
  <2>1. pc' \in [Request -> {"new", "start", "put", "putting", "get", "query", "height",
                             "answered", "failed"}]
    BY <1>10 DEF IInv, TypeOK
  <2>2. \A q \in Request : pc[q] # "new" => pc'[q] # "new"
    BY <1>10 DEF IInv, TypeOK
  <2>3. blockClients' \subseteq {channel[q] : q \in {q \in Request : pc'[q] # "new"}}
    BY <1>10, <2>2 DEF IInv, TypeOK
  <2> QED
    BY <1>10, <1>2, <2>1, <2>3 DEF IInv, TypeOK
<1>4. answer[r] = 0
  BY <1>1, Heights DEF IInv, HeightAfterBlock
<1>5. \A q \in Request \ {r} : pc'[q] = pc[q] /\ everywhere'[q] = everywhere[q]
  BY <1>1 DEF IInv, TypeOK
<1>6. \A q \in Request, p \in Peer : HasBlock(q, p)' <=> HasBlock(q, p)
  BY <1>1 DEF HasBlock
<1>7. HeightAfterBlock'
  <2> SUFFICES ASSUME NEW q \in Request
               PROVE  /\ answer[q] > 0 => pc'[q] = "answered"
                      /\ pc'[q] = "height" =>
                            /\ \E p \in Peer : HasBlock(q, p)
                            /\ everywhere'[q] => \A p \in Peer : HasBlock(q, p)
    BY <1>1, <1>6 DEF HeightAfterBlock
  <2>1. CASE q # r
    BY <1>5, <2>1 DEF IInv, HeightAfterBlock
  <2>2. CASE q = r
    <3>1. ~(answer[q] > 0)
      BY <1>4, <2>2
    <3>2. pc'[r] = "height" =>
             /\ \E p \in Peer : HasBlock(r, p)
             /\ everywhere'[r] = (\A p \in Peer : HasBlock(r, p))
      BY <1>1 DEF IInv, TypeOK
    <3> QED
      BY <2>2, <3>1, <3>2
  <2> QED
    BY <2>1, <2>2
<1>8. AnswerIsOnChain'
  <2> SUFFICES ASSUME NEW q \in Request, answer[q] > 0
               PROVE  /\ \E p \in Peer : HasBlock(q, p)
                      /\ \E p \in Peer : answer[q] <= height[channel[q]][p]
                      /\ everywhere'[q] => number[q] < answer[q]
    BY <1>1, <1>6 DEF AnswerIsOnChain
  <2>1. q # r
    BY <1>4
  <2> QED
    BY <1>5, <2>1 DEF IInv, AnswerIsOnChain
<1>9. Alone'
  <2>1. InProgress(r)
    BY <1>1 DEF InProgress
  <2> QED
    BY <1>10, <2>1, StillAlone
<1> QED
  BY <1>3, <1>7, <1>8, <1>9 DEF IInv

\* The height that is answered is read after the block, of the same channel but
\* perhaps of another peer.
LEMMA QueryHeightInv == ASSUME IInv, NEW r \in Request, QueryHeight(r) PROVE IInv'
<1>1. /\ pc[r] = "height"
      /\ \/ \E p \in Peer : answer' = [answer EXCEPT ![r] = height[channel[r]][p]]
         \/ answer' = answer
      /\ pc' = [pc EXCEPT ![r] = "answered"]
      /\ UNCHANGED <<height, blockClients, channel, number, raced, everywhere, overlapped>>
  BY DEF QueryHeight, Goto
<1>2. TypeOK'
  <2>1. answer' \in [Request -> 0..MaxHeight]
    <3>1. \A p \in Peer : height[channel[r]][p] \in 0..MaxHeight
      BY DEF IInv, TypeOK
    <3>2. answer \in [Request -> 0..MaxHeight]
      BY DEF IInv, TypeOK
    <3> QED
      BY <1>1, <3>1, <3>2
  <2> QED
    BY <1>1, <2>1 DEF IInv, TypeOK
<1>3. HeightAfterBlock'
  <2>1. \A q \in Request, p \in Peer : HasBlock(q, p)' <=> HasBlock(q, p)
    BY <1>1 DEF HasBlock
  <2>2. pc'[r] = "answered" /\ \A q \in Request \ {r} : pc'[q] = pc[q] /\ answer'[q] = answer[q]
    BY <1>1 DEF IInv, TypeOK
  <2> QED
    BY <1>1, <2>1, <2>2 DEF IInv, HeightAfterBlock
<1>4. AnswerIsOnChain'
  <2> SUFFICES ASSUME NEW q \in Request, answer'[q] > 0
               PROVE  /\ \E p \in Peer : HasBlock(q, p)
                      /\ \E p \in Peer : answer'[q] <= height[channel[q]][p]
                      /\ everywhere[q] => number[q] < answer'[q]
    BY <1>1 DEF AnswerIsOnChain, HasBlock
  <2>1. CASE answer'[q] = answer[q]
    BY <2>1 DEF IInv, AnswerIsOnChain
  <2>2. CASE answer'[q] # answer[q]
    <3>1. PICK p \in Peer : answer' = [answer EXCEPT ![r] = height[channel[r]][p]]
      BY <1>1, <2>2
    <3>2. q = r /\ answer'[q] = height[channel[q]][p]
      BY <2>2, <3>1 DEF IInv, TypeOK
    <3>3. /\ \E x \in Peer : HasBlock(q, x)
          /\ everywhere[q] => HasBlock(q, p)
      BY <1>1, <3>2 DEF IInv, HeightAfterBlock
    <3>4. height[channel[q]][p] \in Nat
      BY Heights
    <3> QED
      BY <3>2, <3>3, <3>4 DEF HasBlock
  <2> QED
    BY <2>1, <2>2
<1>5. Alone'
  <2>1. InProgress(r)
    BY <1>1 DEF InProgress
  <2> QED
    BY <1>1, <2>1, StillAlone
<1> QED
  BY <1>2, <1>3, <1>4, <1>5 DEF IInv

\* A peer that receives a block takes no answer back.
LEMMA AppendBlockInv ==
    ASSUME IInv, NEW c \in Channel, NEW p \in Peer, AppendBlock(c, p)
    PROVE  IInv'
<1>1. /\ height[c][p] < MaxHeight
      /\ height' = [height EXCEPT ![c][p] = height[c][p] + 1]
      /\ UNCHANGED <<blockClients, pc, channel, number, raced, answer, everywhere, overlapped>>
  BY DEF AppendBlock
<1>2. \A d \in Channel, x \in Peer :
         height'[d][x] = height[d][x] \/ height'[d][x] = height[d][x] + 1
  BY <1>1 DEF IInv, TypeOK
<1>3. height[c][p] + 1 \in 0..MaxHeight
  BY <1>1, Heights, ConstantAssumption
<1>4. TypeOK'
  BY <1>1, <1>3 DEF IInv, TypeOK
<1>5. \A r \in Request, x \in Peer : HasBlock(r, x) => HasBlock(r, x)'
  <2> SUFFICES ASSUME NEW r \in Request, NEW x \in Peer, number[r] < height[channel[r]][x]
               PROVE  number[r] < height'[channel[r]][x]
    BY <1>1 DEF HasBlock
  <2> QED
    BY <1>2, Heights
<1>6. HeightAfterBlock'
  BY <1>1, <1>5 DEF IInv, HeightAfterBlock
<1>7. AnswerIsOnChain'
  <2> SUFFICES ASSUME NEW r \in Request, answer[r] > 0
               PROVE  /\ \E x \in Peer : HasBlock(r, x)'
                      /\ \E x \in Peer : answer[r] <= height'[channel[r]][x]
                      /\ everywhere[r] => number[r] < answer[r]
    BY <1>1 DEF AnswerIsOnChain
  <2>1. PICK x \in Peer : answer[r] <= height[channel[r]][x]
    BY DEF IInv, AnswerIsOnChain
  <2>2. answer[r] <= height'[channel[r]][x]
    BY <1>2, <2>1, Heights
  <2> QED
    BY <1>5, <2>2 DEF IInv, AnswerIsOnChain
<1>8. Alone'
  BY <1>1 DEF IInv, Alone, InProgress
<1> QED
  BY <1>4, <1>6, <1>7, <1>8 DEF IInv

-----------------------------------------------------------------------------
(* The theorems.                                                           *)

\* The invariant holds in every reachable state.
THEOREM Inductive == Spec => []IInv
<1>1. Init => IInv
  BY InitInv
<1>2. IInv /\ [Next]_vars => IInv'
  <2> SUFFICES ASSUME IInv, [Next]_vars PROVE IInv'
    OBVIOUS
  <2>1. CASE UNCHANGED vars
    BY <2>1 DEF vars, IInv, TypeOK, HeightAfterBlock, AnswerIsOnChain, HasBlock, Alone, InProgress
  <2>2. CASE Next
    <3>1. ASSUME NEW r \in Request, Begin(r) PROVE IInv'
      BY <3>1, BeginInv
    <3>2. ASSUME NEW r \in Request, Continue(r) PROVE IInv'
      BY <3>2, TestInv, BeginPutInv, EndPutInv, GetInv, QueryBlockInv, QueryHeightInv
         DEF Continue
    <3>3. ASSUME NEW c \in Channel, NEW p \in Peer, AppendBlock(c, p) PROVE IInv'
      BY <3>3, AppendBlockInv
    <3> QED
      BY <2>2, <3>1, <3>2, <3>3 DEF Next
  <2> QED
    BY <2>1, <2>2
<1> QED
  BY <1>1, <1>2, PTL DEF Spec

\* The map never has a client of a channel nobody asked for.
THEOREM TypeCorrect == Spec => []TypeOK
<1>1. IInv => TypeOK
  BY DEF IInv
<1> QED
  BY <1>1, Inductive, PTL

\* Requests that do not overlap find the client they put into the map; none of
\* them runs into a null reference.
THEOREM NoFailureAlone == Spec => []FailsOnlyByRace
<1>1. IInv => FailsOnlyByRace
  BY DEF IInv, Alone, FailsOnlyByRace
<1> QED
  BY <1>1, Inductive, PTL

\* Block and height are some peer's, and a block that every peer had when it was
\* read is below the height beside it.
THEOREM AnswersAreTrue == Spec => []AnswerIsOnChain
<1>1. IInv => AnswerIsOnChain
  BY DEF IInv
<1> QED
  BY <1>1, Inductive, PTL
=============================================================================
