-------------------------------- MODULE ERC721 --------------------------------
(***************************************************************************)
(* The non-fungible token contract, chaincode/erc-721/chaincode, with      *)
(* every transaction split in its two steps: the call is simulated on the  *)
(* committed state (an action per contract function) and takes effect, if  *)
(* at all, when it is committed after any number of other transactions.    *)
(*                                                                         *)
(* World-state keys:  nft.<token>               the token record           *)
(*                    balance.<owner>.<token>   a marker, counted by       *)
(*                                              BalanceOf                  *)
(*                    approval.<owner>.<operator>                          *)
(*                    name, symbol                                         *)
(* A token's URI is left out: it is written once, by the mint, and copied. *)
(***************************************************************************)
EXTENDS FabricLedger, FiniteSets

CONSTANTS
    Client,     \* the client identities that submit transactions
    Minter,     \* those of the MSP that may mint
    Token,      \* token ids
    Zero,       \* "0x0", the address the events use for mint and burn
    NoOne,      \* "", the empty approved client
    Option      \* the values of name and symbol

Account == Client \union {Zero}     \* what a transfer may name as recipient

NftKey(t)          == <<"nft", t>>
BalanceKey(o, t)   == <<"balance", <<o, t>>>>
ApprovalKey(o, op) == <<"approval", <<o, op>>>>
OptionKey(k)       == <<"option", k>>

NftKeys      == {NftKey(t) : t \in Token}
BalanceKeys  == {BalanceKey(o, t) : o \in Account, t \in Token}
ApprovalKeys == {ApprovalKey(o, op) : o \in Account, op \in Client}
OptionKeys   == {OptionKey(k) : k \in {"name", "symbol"}}

ASSUME KeyAssumption ==
    Key = NftKeys \union BalanceKeys \union ApprovalKeys \union OptionKeys

Marker == "0"       \* the one byte under a balance key
NoEvent == [name |-> "none"]

Nft == [owner : Account, approved : Client \union {NoOne}]

ASSUME ConstantAssumption ==
    /\ Minter \subseteq Client
    /\ Zero \notin Client /\ NoOne \notin Account
    /\ Absent # Marker /\ Absent \notin BOOLEAN /\ Absent \notin Option
    /\ Absent \notin Nft

VARIABLES
    seenOwner,      \* what a listener that applies the events in commit order
    seenOperator    \* believes: the owner of each token, the operators

vars == <<world, version, height, pool, seenOwner, seenOperator>>
observer == <<seenOwner, seenOperator>>

-----------------------------------------------------------------------------
(* The guards of the contract, on the token record and the approval read.  *)

\* IsApprovedForAll: an absent approval is a refusal.
Grants(approval) == approval = TRUE

MayApprove(nft, approval, sender) ==
    /\ nft # Absent
    /\ nft.owner = sender \/ Grants(approval)

MayTransfer(nft, approval, sender, from) ==
    /\ nft # Absent
    /\ nft.owner = sender \/ nft.approved = sender \/ Grants(approval)
    /\ nft.owner = from

MayBurn(nft, sender) == nft # Absent /\ nft.owner = sender

(* The write sets.  In a transfer to the same owner the marker is deleted  *)
(* and put again: the last write of a key is the one that counts.          *)

Put(k, v) == [x \in {k} |-> v]

MintWrites(minter, t) ==
    [k \in {NftKey(t), BalanceKey(minter, t)} |->
        IF k = NftKey(t) THEN [owner |-> minter, approved |-> NoOne] ELSE Marker]

\* Mutant: the two fields of the record swapped.
ApproveWritesSwapped(nft, operator, t) ==
    Put(NftKey(t), [owner |-> operator, approved |-> nft.owner])

ApproveWrites(nft, operator, t) ==
    Put(NftKey(t), [owner |-> nft.owner, approved |-> operator])

\* Mutants: the old marker deleted after the new one is put; the approved
\* client not cleared.
TransferWritesDeletedLast(from, to, t) ==
    [k \in {NftKey(t), BalanceKey(from, t), BalanceKey(to, t)} |->
        IF k = NftKey(t) THEN [owner |-> to, approved |-> NoOne]
        ELSE IF k = BalanceKey(from, t) THEN Absent ELSE Marker]

TransferWritesKeepingApproved(from, to, t) ==
    [k \in {NftKey(t), BalanceKey(from, t), BalanceKey(to, t)} |->
        IF k = NftKey(t)
        THEN [owner |-> to, approved |-> world[NftKey(t)].approved]
        ELSE IF k = BalanceKey(to, t) THEN Marker ELSE Absent]

TransferWrites(from, to, t) ==
    [k \in {NftKey(t), BalanceKey(from, t), BalanceKey(to, t)} |->
        IF k = NftKey(t) THEN [owner |-> to, approved |-> NoOne]
        ELSE IF k = BalanceKey(to, t) THEN Marker ELSE Absent]

BurnWrites(owner, t) == [k \in {NftKey(t), BalanceKey(owner, t)} |-> Absent]

\* Mutant: sender and recipient reversed in the event.
TransferEventReversed(from, to, t) ==
    [name |-> "Transfer", from |-> to, to |-> from, token |-> t]

TransferEvent(from, to, t) ==
    [name |-> "Transfer", from |-> from, to |-> to, token |-> t]
ApprovalForAllEvent(owner, operator, approved) ==
    [name |-> "ApprovalForAll", owner |-> owner, operator |-> operator,
     approved |-> approved]

-----------------------------------------------------------------------------
(* One action per contract function that writes: its simulation.           *)

MintWithTokenURI(id, minter, t) ==
    /\ minter \in Minter
    /\ world[NftKey(t)] = Absent
    /\ Endorse(id, minter, {NftKey(t)}, MintWrites(minter, t),
               TransferEvent(Zero, minter, t))

Approve(id, sender, operator, t) ==
    LET nft == world[NftKey(t)] IN
    /\ nft # Absent
    /\ MayApprove(nft, world[ApprovalKey(nft.owner, sender)], sender)
    /\ Endorse(id, sender, {NftKey(t), ApprovalKey(nft.owner, sender)},
               ApproveWrites(nft, operator, t), NoEvent)

\* Mutant: the operator's approval taken from a cache, not from the ledger.
TransferFromCachedApproval(id, sender, from, to, t) ==
    LET nft == world[NftKey(t)] IN
    /\ nft # Absent
    /\ MayTransfer(nft, world[ApprovalKey(nft.owner, sender)], sender, from)
    /\ Endorse(id, sender, {NftKey(t)},
               TransferWrites(from, to, t), TransferEvent(from, to, t))

\* The approval is read whoever the sender is, so that a transfer by the owner
\* conflicts with a change of the owner's approval of itself.
TransferFrom(id, sender, from, to, t) ==
    LET nft == world[NftKey(t)] IN
    /\ nft # Absent
    /\ MayTransfer(nft, world[ApprovalKey(nft.owner, sender)], sender, from)
    /\ Endorse(id, sender, {NftKey(t), ApprovalKey(nft.owner, sender)},
               TransferWrites(from, to, t), TransferEvent(from, to, t))

Burn(id, sender, t) ==
    /\ MayBurn(world[NftKey(t)], sender)
    /\ Endorse(id, sender, {NftKey(t)}, BurnWrites(sender, t),
               TransferEvent(sender, Zero, t))

\* A blind write: it reads nothing and is never in conflict.
SetApprovalForAll(id, sender, operator, approved) ==
    Endorse(id, sender, {}, Put(ApprovalKey(sender, operator), approved),
            ApprovalForAllEvent(sender, operator, approved))

SetOption(id, sender, name, symbol) ==
    /\ sender \in Minter
    /\ Endorse(id, sender, {},
               [k \in OptionKeys |-> IF k = OptionKey("name") THEN name ELSE symbol],
               NoEvent)

-----------------------------------------------------------------------------
(* The query functions, on the committed state.                            *)

Minted == {t \in Token : world[NftKey(t)] # Absent}
OwnerOf(t) == world[NftKey(t)].owner
GetApproved(t) == world[NftKey(t)].approved
IsApprovedForAll(owner, operator) == Grants(world[ApprovalKey(owner, operator)])
BalanceOf(owner) == Cardinality({t \in Token : world[BalanceKey(owner, t)] # Absent})
TotalSupply == Cardinality(Minted)

-----------------------------------------------------------------------------
(* Commit, and a listener that receives the event of every valid           *)
(* transaction in commit order.                                            *)

Observe(event) ==
    /\ seenOwner' = IF event.name # "Transfer" THEN seenOwner
                    ELSE [seenOwner EXCEPT ![event.token] = event.to]
    /\ seenOperator' =
         IF event.name # "ApprovalForAll" THEN seenOperator
         ELSE IF event.approved
              THEN seenOperator \union {<<event.owner, event.operator>>}
              ELSE seenOperator \ {<<event.owner, event.operator>>}

Commit(id) ==
    /\ CommitValid(id)
    /\ Observe(pool[id].event)

Init ==
    /\ LedgerInit
    /\ seenOwner = [t \in Token |-> Zero]
    /\ seenOperator = {}

Simulate(id) ==
    CanEndorse(id) /\ \E sender \in Client :
        \/ \E t \in Token :
              \/ MintWithTokenURI(id, sender, t)
              \/ Burn(id, sender, t)
              \/ \E operator \in Client \union {NoOne} : Approve(id, sender, operator, t)
              \/ \E from, to \in Account : TransferFrom(id, sender, from, to, t)
        \/ \E operator \in Client, approved \in BOOLEAN :
              SetApprovalForAll(id, sender, operator, approved)
        \/ \E name, symbol \in Option : SetOption(id, sender, name, symbol)

Next ==
    \E id \in TxId :
        \/ Simulate(id) /\ UNCHANGED observer
        \/ Commit(id)
        \/ MarkInvalid(id) /\ UNCHANGED observer
        \/ Lose(id) /\ UNCHANGED observer

Spec == Init /\ [][Next]_vars

-----------------------------------------------------------------------------
(* Properties.                                                             *)

Tx(tx) ==
    /\ tx.creator \in Client
    /\ DOMAIN tx.reads \subseteq Key
    /\ \A k \in DOMAIN tx.reads :
          /\ tx.reads[k].version \in 0..height
          /\ (tx.reads[k].version = 0) <=> (tx.reads[k].value = Absent)
    /\ DOMAIN tx.writes \subseteq Key

\* Every variable keeps its type: each key holds a value of its kind, a version
\* of the ledger's past, or nothing (the world state of erc721-contract.go).
TypeOK ==
    /\ DOMAIN world = Key
    /\ \A t \in Token : world[NftKey(t)] = Absent \/ world[NftKey(t)] \in Nft
    /\ \A k \in BalanceKeys : world[k] \in {Marker, Absent}
    /\ \A k \in OptionKeys : world[k] \in Option \union {Absent}
    /\ \A k \in ApprovalKeys : world[k] = Absent \/ world[k] \in BOOLEAN
    /\ version \in [Key -> Nat]
    /\ \A k \in Key : version[k] <= height /\ (version[k] = 0 <=> world[k] = Absent)
    /\ height \in 0..MaxHeight
    /\ DOMAIN pool = TxId
    /\ \A id \in InFlight : Tx(pool[id])
    /\ seenOwner \in [Token -> Account]
    /\ seenOperator \subseteq Client \X Client

\* The balance markers, written blindly by transfers, mints and burns simulated
\* at different heights, are the inverse of the owner fields.
BalancesMatchOwners ==
    \A o \in Account, t \in Token :
        world[BalanceKey(o, t)] # Absent <=> t \in Minted /\ OwnerOf(t) = o

\* What the queries answer: BalanceOf counts the tokens OwnerOf gives to the
\* owner, and TotalSupply, which counts records, those that anyone's BalanceOf
\* counts.
QueriesAgree ==
    /\ \A o \in Account : BalanceOf(o) = Cardinality({t \in Minted : OwnerOf(t) = o})
    /\ TotalSupply = Cardinality({t \in Token : \E o \in Account :
                                                world[BalanceKey(o, t)] # Absent})

\* A listener that applies the Transfer and ApprovalForAll events in commit
\* order knows who owns what.  A token sent to "0x0" looks burnt to it.
ObserverAgrees ==
    /\ \A c \in Client, t \in Token :
          seenOwner[t] = c <=> t \in Minted /\ OwnerOf(t) = c
    /\ \A c, op \in Client : <<c, op>> \in seenOperator <=> IsApprovedForAll(c, op)

Authorised(t, sender) ==
    sender = OwnerOf(t) \/ IsApprovedForAll(OwnerOf(t), sender)

\* A token changes hands or is burnt only by a sender who is the owner, the
\* approved client or an operator at the moment of the COMMIT, not only when
\* TransferFrom or Burn checked; likewise a new approved client.
NoStaleAuthority ==
    [][\A id \in InFlight, t \in Minted :
         pool'[id] = Idle =>
           /\ world'[NftKey(t)] = Absent => pool[id].creator = OwnerOf(t)
           /\ world'[NftKey(t)] # Absent /\ world'[NftKey(t)] # world[NftKey(t)] =>
                 \/ Authorised(t, pool[id].creator)
                 \/ /\ pool[id].creator = GetApproved(t)
                    /\ world'[NftKey(t)].approved = NoOne]_vars

(* The abstract registry that a world state stands for.                    *)

RegisteredOwner == [t \in Token |-> IF t \in Minted THEN OwnerOf(t) ELSE NoOne]
RegisteredApproved == [t \in Token |-> IF t \in Minted THEN GetApproved(t) ELSE NoOne]
RegisteredOperators == {p \in Account \X Client : IsApprovedForAll(p[1], p[2])}

Registry == INSTANCE TokenRegistry WITH
    owner <- RegisteredOwner,
    approved <- RegisteredApproved,
    operators <- RegisteredOperators

\* What a transaction that reached the committers does is what the contract
\* function would do if it ran at that moment, all at once.
Serialisable == Registry!Spec

-----------------------------------------------------------------------------
(* The inductive invariant of the proofs: every transaction in flight is   *)
(* what a contract function made of the values it read.                    *)

\* The transaction read k and found v.
Found(tx, k, v) == k \in DOMAIN tx.reads /\ tx.reads[k].value = v

Minting(tx) ==
    \E t \in Token :
        /\ tx.creator \in Minter
        /\ Found(tx, NftKey(t), Absent)
        /\ tx.writes = MintWrites(tx.creator, t)
        /\ tx.event = TransferEvent(Zero, tx.creator, t)

Approving(tx) ==
    \E t \in Token, nft \in Nft, operator \in Client \union {NoOne} :
        LET key == ApprovalKey(nft.owner, tx.creator) IN
        /\ Found(tx, NftKey(t), nft)
        /\ key \in DOMAIN tx.reads
        /\ MayApprove(nft, tx.reads[key].value, tx.creator)
        /\ tx.writes = ApproveWrites(nft, operator, t)
        /\ tx.event = NoEvent

Transferring(tx) ==
    \E t \in Token, nft \in Nft, to \in Account :
        LET key == ApprovalKey(nft.owner, tx.creator) IN
        /\ Found(tx, NftKey(t), nft)
        /\ key \in DOMAIN tx.reads
        /\ MayTransfer(nft, tx.reads[key].value, tx.creator, nft.owner)
        /\ tx.writes = TransferWrites(nft.owner, to, t)
        /\ tx.event = TransferEvent(nft.owner, to, t)

Burning(tx) ==
    \E t \in Token, nft \in Nft :
        /\ Found(tx, NftKey(t), nft)
        /\ MayBurn(nft, tx.creator)
        /\ tx.writes = BurnWrites(tx.creator, t)
        /\ tx.event = TransferEvent(tx.creator, Zero, t)

SettingApproval(tx) ==
    \E operator \in Client, approved \in BOOLEAN :
        /\ tx.writes = Put(ApprovalKey(tx.creator, operator), approved)
        /\ tx.event = ApprovalForAllEvent(tx.creator, operator, approved)

SettingOption(tx) ==
    \E name, symbol \in Option :
        /\ tx.writes = [k \in OptionKeys |-> IF k = OptionKey("name") THEN name
                                             ELSE symbol]
        /\ tx.event = NoEvent

Simulated(tx) ==
    \/ Minting(tx) \/ Approving(tx) \/ Transferring(tx) \/ Burning(tx)
    \/ SettingApproval(tx) \/ SettingOption(tx)

PoolIsSimulated == \A id \in InFlight : Simulated(pool[id])

IInv ==
    /\ TypeOK
    /\ ReadsAreCurrent
    /\ PoolIsSimulated
    /\ BalancesMatchOwners
===============================================================================
