------------------------------- MODULE ERC1155 -------------------------------
(***************************************************************************)
(* The multi-token contract, chaincode/erc-1155/chaincode/contract.go (and *)
(* its copy in chaincode/utxo).  An account's balance of a token is spread *)
(* over one key per SENDER it was received from, so that payments from     *)
(* different senders do not conflict; a withdrawal collects as many of     *)
(* those keys as it needs, in key order, and keeps the remainder under the *)
(* account's own name.                                                     *)
(*                                                                         *)
(* World-state keys:  account~tokenId~sender    part of a balance          *)
(*                    account~operator          an approval                *)
(*                    name, symbol, uri                                    *)
(***************************************************************************)
EXTENDS FabricLedger, SequencesExt

CONSTANTS
    Client,     \* the accounts
    KeyOrder,   \* the clients as a sequence, in the byte order of their ids
    Minter,     \* the clients of the MSP that mints and burns
    Token,      \* token ids
    Zero,       \* "0x0"
    Amount,     \* the amounts a call may name, out of uint64
    Option,     \* values of name, symbol and uri, "" among them
    MaxInt,     \* the largest uint64
    MaxBatch    \* bound: the length of a batch

Account == Client \union {Zero}

BalanceKey(a, t, sender) == <<"balance", <<a, t, sender>>>>
ApprovalKey(a, op)       == <<"approval", <<a, op>>>>
OptionKey(k)             == <<"option", k>>

BalanceKeys  == {BalanceKey(a, t, s) : a \in Account, t \in Token, s \in Client}
ApprovalKeys == {ApprovalKey(a, op) : a \in Client, op \in Client}
OptionKeys   == {OptionKey(k) : k \in {"name", "symbol", "uri"}}

ASSUME KeyAssumption == Key = BalanceKeys \union ApprovalKeys \union OptionKeys
ASSUME ConstantAssumption ==
    /\ Minter \subseteq Client /\ Zero \notin Client
    /\ KeyOrder \in Seq(Client) /\ IsInjective(KeyOrder) /\ ToSet(KeyOrder) = Client
    /\ MaxInt \in Nat /\ MaxBatch \in Nat /\ Amount \subseteq 0..MaxInt
    /\ Absent \notin Nat /\ Absent \notin BOOLEAN /\ Absent \notin Option

VARIABLES
    seenBalance,    \* what a listener that applies the events in commit order
    seenOperators   \* believes: the balance of every client, the approvals

vars == <<world, version, height, pool, seenBalance, seenOperators>>
observer == <<seenBalance, seenOperators>>

-----------------------------------------------------------------------------
(* Balances.  Every sum that exceeds uint64 ends the call with an error.   *)

Fits(n) == n <= MaxInt

Part(a, t, sender) ==
    IF world[BalanceKey(a, t, sender)] = Absent THEN 0 ELSE world[BalanceKey(a, t, sender)]

\* What the range query account~tokenId~* iterates over, in key order; a key that
\* is absent counts as a part of 0 that is passed over.
RangeKeys(a, t) == {BalanceKey(a, t, s) : s \in Client}
Parts(a, t) == [i \in DOMAIN KeyOrder |-> Part(a, t, KeyOrder[i])]

Balance(a, t) == SumFunction(Parts(a, t))

\* What the loop of removeBalance has added up when it is past the first n keys.
Collected(a, t, n) == SumFunctionOnSet(Parts(a, t), 1..n)

\* How far it goes: until the needed amount is reached or the keys end.
Seen(a, t, need) ==
    CHOOSE n \in 0..Len(KeyOrder) :
        /\ Collected(a, t, n) >= need \/ n = Len(KeyOrder)
        /\ \A m \in 0..(n - 1) : Collected(a, t, m) < need

\* The keys it has seen, and deletes.
SeenKeys(a, t, need) ==
    {BalanceKey(a, t, KeyOrder[i]) : i \in 1..Seen(a, t, need)}
      \ {k \in RangeKeys(a, t) : world[k] = Absent}

\* Mutant: the own key is overwritten, reached or not.
RemainderOverwrites(a, t, need) == Collected(a, t, Seen(a, t, need)) - need

\* What is left under the account's own key: of what was collected or, if that
\* key was not reached, added to it (addBalance).
Remainder(a, t, need) ==
    Collected(a, t, Seen(a, t, need)) - need
      + IF BalanceKey(a, t, a) \in SeenKeys(a, t, need) THEN 0 ELSE Part(a, t, a)

\* Mutant: it asks for more than is needed.
CanRemoveStrict(a, t, need) ==
    LET n == Seen(a, t, need) IN
    /\ Fits(need)
    /\ Fits(Collected(a, t, n))
    /\ Collected(a, t, n) > need
    /\ Fits(Remainder(a, t, need))

\* removeBalance succeeds for one token.
CanRemove(a, t, need) ==
    LET n == Seen(a, t, need) IN
    /\ Fits(need)
    /\ Fits(Collected(a, t, n))
    /\ Collected(a, t, n) >= need
    /\ Collected(a, t, n) > need => Fits(Remainder(a, t, need))

RemoveWrites(a, t, need) ==
    LET seen == SeenKeys(a, t, need)
        own == BalanceKey(a, t, a)
    IN  IF Collected(a, t, Seen(a, t, need)) > need
        THEN [k \in seen \union {own} |-> IF k = own THEN Remainder(a, t, need) ELSE Absent]
        ELSE [k \in seen |-> Absent]

\* Mutant: the sum is not checked.
CanAddUnchecked(sender, to, t, amount) == TRUE

\* addBalance succeeds: the recipient's part from this sender.
CanAdd(sender, to, t, amount) == Fits(Part(to, t, sender) + amount)

-----------------------------------------------------------------------------
(* A call names its payments as a sequence of records [to, token, amount], *)
(* which it groups before it touches a key: a key is written at most once. *)

\* What the payments p take of a token, and what one recipient gets of it.
Need(p, t) ==
    SumFunction([i \in DOMAIN p |-> IF p[i].token = t THEN p[i].amount ELSE 0])
Share(p, to, t) ==
    SumFunction([i \in DOMAIN p |->
                    IF p[i].to = to /\ p[i].token = t THEN p[i].amount ELSE 0])

Tokens(p) == {p[i].token : i \in DOMAIN p}
Shares(p) == {<<p[i].to, p[i].token>> : i \in DOMAIN p}

CanRemoveAll(a, p) == \A t \in Tokens(p) : CanRemove(a, t, Need(p, t))
CanAddAll(sender, p) == \A s \in Shares(p) : CanAdd(sender, s[1], s[2], Share(p, s[1], s[2]))

AllRemoveWrites(a, p) ==
    [k \in UNION {DOMAIN RemoveWrites(a, t, Need(p, t)) : t \in Tokens(p)} |->
        RemoveWrites(a, k[2][2], Need(p, k[2][2]))[k]]

AllAddWrites(sender, p) ==
    [k \in {BalanceKey(s[1], s[2], sender) : s \in Shares(p)} |->
        Part(k[2][1], k[2][2], sender) + Share(p, k[2][1], k[2][2])]

\* Mutant: a query the committers do not repeat, of the account's own key.
RemoveReadsOwn(a, p) == {BalanceKey(a, t, a) : t \in Tokens(p)}

\* A transfer withdraws under the holder's keys and deposits under those of others.
AllWrites(sender, p) ==
    LET added == AllAddWrites(sender, p)
        removed == AllRemoveWrites(sender, p)
    IN  [k \in DOMAIN added \union DOMAIN removed |->
            IF k \in DOMAIN added THEN added[k] ELSE removed[k]]

RemoveReads(a, p) == UNION {RangeKeys(a, t) : t \in Tokens(p)}
AddReads(sender, p) == {BalanceKey(s[1], s[2], sender) : s \in Shares(p)}

TransferEvent(from, p) == [name |-> "Transfer", from |-> from, payments |-> p]
ApprovalForAllEvent(owner, operator, approved) ==
    [name |-> "ApprovalForAll", owner |-> owner, operator |-> operator, approved |-> approved]
NoEvent == [name |-> "none"]

NameKey == OptionKey("name")
Initialized == world[NameKey] # Absent
Put(k, v) == [x \in {k} |-> v]

-----------------------------------------------------------------------------
(* One action per contract function that writes: its simulation.           *)

OptionWrites(name, symbol) ==
    [k \in {NameKey, OptionKey("symbol")} |-> Stored(IF k = NameKey THEN name ELSE symbol)]

\* Mutant: Initialize without its look at the name.
InitializeUnchecked(id, sender, name, symbol) ==
    /\ sender \in Minter
    /\ Endorse(id, sender, {NameKey},
               OptionWrites(name, symbol), NoEvent)

\* A call with the empty name leaves the contract as uninitialized as it was.
Initialize(id, sender, name, symbol) ==
    /\ sender \in Minter
    /\ ~Initialized
    /\ Endorse(id, sender, {NameKey},
               OptionWrites(name, symbol), NoEvent)

\* Payments of a batch to one account.
To(account, batch) ==
    [i \in DOMAIN batch |-> [to |-> account, token |-> batch[i].token,
                             amount |-> batch[i].amount]]

MintBatch(id, operator, account, batch) ==
    LET p == To(account, batch) IN
    /\ Initialized
    /\ operator \in Minter
    /\ p # <<>> => account # Zero
    /\ \A t \in Tokens(p) : Need(p, t) > 0 /\ Fits(Need(p, t))
    /\ CanAddAll(operator, p)
    /\ Endorse(id, operator, {NameKey} \union AddReads(operator, p),
               AllAddWrites(operator, p), TransferEvent(Zero, p))

Mint(id, operator, account, t, amount) ==
    MintBatch(id, operator, account, <<[token |-> t, amount |-> amount]>>)

BurnBatch(id, operator, account, batch) ==
    LET p == To(Zero, batch) IN
    /\ Initialized
    /\ account # Zero
    /\ operator \in Minter
    /\ CanRemoveAll(account, p)
    /\ Endorse(id, operator, {NameKey} \union RemoveReads(account, p),
               AllRemoveWrites(account, p), TransferEvent(account, p))

Burn(id, operator, account, t, amount) ==
    BurnBatch(id, operator, account, <<[token |-> t, amount |-> amount]>>)

\* _isApprovedForAll: an absent approval is a refusal.
IsApprovedForAll(account, operator) == world[ApprovalKey(account, operator)] = TRUE

\* Mutant: the approval comes from a cache.
ApprovalReadsNone(account, operator) == {}

\* The owner needs no approval.
ApprovalReads(account, operator) ==
    IF operator = account THEN {} ELSE {ApprovalKey(account, operator)}

BatchTransferFromMultiRecipient(id, operator, sender, p) ==
    /\ Initialized
    /\ \A i \in DOMAIN p : p[i].to # sender /\ p[i].to # Zero
    /\ operator # sender => IsApprovedForAll(sender, operator)
    /\ CanRemoveAll(sender, p)
    /\ CanAddAll(sender, p)
    /\ Endorse(id, operator,
               {NameKey} \union RemoveReads(sender, p) \union AddReads(sender, p)
                 \union ApprovalReads(sender, operator),
               AllWrites(sender, p),
               TransferEvent(sender, p))

\* The checks of the recipient hold for an empty batch, too.
BatchTransferFrom(id, operator, sender, recipient, batch) ==
    /\ recipient # sender /\ recipient # Zero
    /\ BatchTransferFromMultiRecipient(id, operator, sender, To(recipient, batch))

TransferFrom(id, operator, sender, recipient, t, amount) ==
    BatchTransferFrom(id, operator, sender, recipient, <<[token |-> t, amount |-> amount]>>)

SetApprovalForAll(id, account, operator, approved) ==
    /\ Initialized
    /\ account # operator
    /\ Endorse(id, account, {NameKey}, Put(ApprovalKey(account, operator), approved),
               ApprovalForAllEvent(account, operator, approved))

SetURI(id, sender, uri) ==
    /\ Initialized
    /\ sender \in Minter
    /\ Endorse(id, sender, {NameKey}, Put(OptionKey("uri"), Stored(uri)), NoEvent)

\* An event and nothing else.
BroadcastTokenExistance(id, operator, t) ==
    /\ Initialized
    /\ operator \in Minter
    /\ Endorse(id, operator, {NameKey}, <<>>,
               TransferEvent(Zero, <<[to |-> Zero, token |-> t, amount |-> 0]>>))

-----------------------------------------------------------------------------
(* Commit, and a listener that receives the event of every valid           *)
(* transaction in commit order.                                            *)

Observe(event) ==
    /\ seenBalance' =
         IF event.name # "Transfer" THEN seenBalance
         ELSE [c \in Client |-> [t \in Token |->
                 seenBalance[c][t] + Share(event.payments, c, t)
                   - IF c = event.from THEN Need(event.payments, t) ELSE 0]]
    /\ seenOperators' =
         IF event.name # "ApprovalForAll" THEN seenOperators
         ELSE IF event.approved
              THEN seenOperators \union {<<event.owner, event.operator>>}
              ELSE seenOperators \ {<<event.owner, event.operator>>}

Commit(id) ==
    /\ CommitValid(id)
    /\ Observe(pool[id].event)

Init ==
    /\ LedgerInit
    /\ seenBalance = [c \in Client |-> [t \in Token |-> 0]]
    /\ seenOperators = {}

Item == [token : Token, amount : Amount]
Payment == [to : Account, token : Token, amount : Amount]

Simulate(id) ==
    CanEndorse(id) /\ \E sender \in Client :
        \/ \E name, symbol \in Option : Initialize(id, sender, name, symbol)
        \/ \E a \in Account :
              \/ \E t \in Token, n \in Amount : Mint(id, sender, a, t, n)
              \/ \E t \in Token, n \in Amount : Burn(id, sender, a, t, n)
              \/ \E batch \in BoundedSeq(Item, MaxBatch) : MintBatch(id, sender, a, batch)
              \/ \E batch \in BoundedSeq(Item, MaxBatch) : BurnBatch(id, sender, a, batch)
        \/ \E holder \in Client :
              \/ \E to \in Account, t \in Token, n \in Amount :
                    TransferFrom(id, sender, holder, to, t, n)
              \/ \E to \in Account, batch \in BoundedSeq(Item, MaxBatch) :
                    BatchTransferFrom(id, sender, holder, to, batch)
              \/ \E p \in BoundedSeq(Payment, MaxBatch) :
                    BatchTransferFromMultiRecipient(id, sender, holder, p)
        \/ \E operator \in Client, approved \in BOOLEAN :
              SetApprovalForAll(id, sender, operator, approved)
        \/ \E uri \in Option : SetURI(id, sender, uri)
        \/ \E t \in Token : BroadcastTokenExistance(id, sender, t)

Next ==
    \E id \in TxId :
        \/ Simulate(id) /\ UNCHANGED observer
        \/ Commit(id)
        \/ MarkInvalid(id) /\ UNCHANGED observer
        \/ Lose(id) /\ UNCHANGED observer

Spec == Init /\ [][Next]_vars

-----------------------------------------------------------------------------
(* Properties.                                                             *)

\* Every key holds a value of its kind: a part of a balance is a uint64, and no
\* part belongs to "0x0".
TypeOK ==
    /\ \A k \in BalanceKeys : world[k] # Absent => world[k] \in 0..MaxInt /\ k[2][1] # Zero
    /\ \A k \in ApprovalKeys : world[k] # Absent => world[k] \in BOOLEAN
    /\ \A k \in OptionKeys : world[k] \in Option \union {Absent}
    /\ height \in 0..MaxHeight
    /\ \A id \in InFlight : DOMAIN pool[id].reads \subseteq Key /\ DOMAIN pool[id].writes \subseteq Key
    /\ seenBalance \in [Client -> [Token -> Int]]
    /\ seenOperators \subseteq Client \X Client

\* The accounts and the approvals in the world state.
Balances == [c \in Client |-> [t \in Token |-> Balance(c, t)]]
Approvals == {p \in Client \X Client : IsApprovedForAll(p[1], p[2])}

\* What an event tells of the call: 0x0 stands for no payer and for no recipient.
Movement(event) ==
    IF event.payments = <<>> THEN "none"
    ELSE IF event.from = Zero THEN "Mint"
    ELSE IF \E i \in DOMAIN event.payments : event.payments[i].to = Zero THEN "Burn"
    ELSE "Transfer"

CallOf(tx) ==
    LET event == tx.event IN
    IF event.name = "Transfer"
    THEN [caller |-> tx.creator, function |-> Movement(event),
          from |-> event.from, payments |-> event.payments]
    ELSE IF event.name = "ApprovalForAll"
    THEN [caller |-> tx.creator, function |-> "SetApprovalForAll",
          operator |-> event.operator, approved |-> event.approved]
    ELSE [caller |-> tx.creator, function |-> "none"]

Calls == [id \in InFlight |-> CallOf(pool[id])]

Accounts == INSTANCE TokenAccounts WITH
    Request <- TxId, calls <- Calls, served <- height,
    balance <- Balances, operators <- Approvals

\* The keys of an account that received from several senders, and the transfers
\* that collect them while others are in flight, behave like one balance.  A
\* transaction that is committed moves exactly what its event says, from an
\* account that covers it at that moment, and its creator is then the owner of
\* that account, an operator whose approval is not withdrawn, or a minter.
AccountsSpec == Accounts!Spec

\* "The value argument MUST be the number of tokens the holder balance is
\* decreased by and match what the recipient balance is increased by": adding up
\* the events in commit order gives every balance and every approval.
ObserverAgrees ==
    /\ \A c \in Client, t \in Token : seenBalance[c][t] = Balance(c, t)
    /\ \A c, op \in Client : <<c, op>> \in seenOperators <=> IsApprovedForAll(c, op)

\* However payments and withdrawals have split a balance over keys, the account can
\* pay every amount up to its total.  When the parts together pass a uint64,
\* BalanceOf fails and so may a payment, but never every payment: what was
\* received can be moved on until the total fits again.
SplitBalanceIsSpendable ==
    \A c \in Client, t \in Token :
        LET total == Balance(c, t) IN
        IF Fits(total) THEN \A n \in 1..total : CanRemove(c, t, n)
        ELSE \E n \in 1..MaxInt : CanRemove(c, t, n)

\* Until the contract has a name nothing but name and symbol is stored, and when it
\* has one neither is written again, however many Initialize calls were endorsed.
InitializedOnce ==
    [][/\ Initialized =>
            \A k \in {"name", "symbol"} : version'[OptionKey(k)] = version[OptionKey(k)]
       /\ ~Initialized => \A k \in Key : world'[k] # Absent =>
                             k \in {OptionKey("name"), OptionKey("symbol")}]_vars
==============================================================================
