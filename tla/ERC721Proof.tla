----------------------------- MODULE ERC721Proof -----------------------------
(***************************************************************************)
(* Proofs about ERC721, for any clients, tokens, number of transactions in *)
(* flight and length of the ledger.                                        *)
(***************************************************************************)
EXTENDS ERC721, TLAPS

\* Keys of different object types differ, and a key determines its attributes.
LEMMA KeyFacts ==
    /\ \A t \in Token : NftKey(t) \in Key
    /\ \A o \in Account, t \in Token : BalanceKey(o, t) \in Key
    /\ \A o \in Account, op \in Client : ApprovalKey(o, op) \in Key
    /\ OptionKeys \subseteq Key
    /\ \A t, u : NftKey(t) = NftKey(u) => t = u
    /\ \A o, t, p, u : BalanceKey(o, t) = BalanceKey(p, u) => o = p /\ t = u
    /\ \A o, t, p, u : ApprovalKey(o, t) = ApprovalKey(p, u) => o = p /\ t = u
    /\ \A o, t, p, u : /\ NftKey(u) # BalanceKey(o, t)
                       /\ NftKey(u) # ApprovalKey(o, t)
                       /\ ApprovalKey(p, u) # BalanceKey(o, t)
    /\ \A k \in OptionKeys : \A o, t : /\ k # NftKey(t)
                                       /\ k # BalanceKey(o, t)
                                       /\ k # ApprovalKey(o, t)
<1>1. /\ \A t \in Token : NftKey(t) \in Key
      /\ \A o \in Account, t \in Token : BalanceKey(o, t) \in Key
      /\ \A o \in Account, op \in Client : ApprovalKey(o, op) \in Key
      /\ OptionKeys \subseteq Key
  BY KeyAssumption DEF NftKeys, BalanceKeys, ApprovalKeys
<1>2. \A t, u : NftKey(t) = NftKey(u) => t = u
  BY DEF NftKey
<1>3. \A o, t, p, u : BalanceKey(o, t) = BalanceKey(p, u) => o = p /\ t = u
  BY DEF BalanceKey
<1>4. \A o, t, p, u : ApprovalKey(o, t) = ApprovalKey(p, u) => o = p /\ t = u
  BY DEF ApprovalKey
<1>5. \A o, t, p, u : /\ NftKey(u) # BalanceKey(o, t)
                      /\ NftKey(u) # ApprovalKey(o, t)
                      /\ ApprovalKey(p, u) # BalanceKey(o, t)
  BY DEF NftKey, ApprovalKey, BalanceKey
<1>6. \A k \in OptionKeys : \A o, t : /\ k # NftKey(t)
                                      /\ k # BalanceKey(o, t)
                                      /\ k # ApprovalKey(o, t)
  BY DEF NftKey, ApprovalKey, BalanceKey, OptionKeys, OptionKey
<1> QED
  BY <1>1, <1>2, <1>3, <1>4, <1>5, <1>6

-----------------------------------------------------------------------------
(* What a write set may contain.                                           *)

WritesTyped(tx) ==
    /\ DOMAIN tx.writes \subseteq Key
    /\ \A t \in Token : NftKey(t) \in DOMAIN tx.writes =>
          tx.writes[NftKey(t)] = Absent \/ tx.writes[NftKey(t)] \in Nft
    /\ \A k \in BalanceKeys : k \in DOMAIN tx.writes => tx.writes[k] \in {Marker, Absent}
    /\ \A k \in ApprovalKeys : k \in DOMAIN tx.writes =>
          tx.writes[k] = Absent \/ tx.writes[k] \in BOOLEAN
    /\ \A k \in OptionKeys : k \in DOMAIN tx.writes => tx.writes[k] \in Option \union {Absent}

EventTyped(tx) ==
    /\ tx.event.name = "Transfer" => tx.event.token \in Token /\ tx.event.to \in Account
    /\ tx.event.name = "ApprovalForAll" =>
          tx.event.owner \in Client /\ tx.event.operator \in Client

\* Whatever a contract function wrote, each key gets a value of its kind.
LEMMA SimulatedTyped ==
    ASSUME NEW tx, tx.creator \in Client, Simulated(tx)
    PROVE  WritesTyped(tx) /\ EventTyped(tx)
<1>1. CASE Minting(tx)
  <2>1. PICK t \in Token : /\ tx.writes = MintWrites(tx.creator, t)
                           /\ tx.event = TransferEvent(Zero, tx.creator, t)
    BY <1>1 DEF Minting
  <2>2. [owner |-> tx.creator, approved |-> NoOne] \in Nft
    BY DEF Nft, Account
  <2>3. WritesTyped(tx)
    <3>1. /\ DOMAIN tx.writes = {NftKey(t), BalanceKey(tx.creator, t)}
          /\ tx.writes[NftKey(t)] \in Nft
          /\ tx.writes[BalanceKey(tx.creator, t)] = Marker
      BY <2>1, <2>2, KeyFacts DEF MintWrites
    <3>2. tx.creator \in Account
      BY DEF Account
    <3>3. DOMAIN tx.writes \subseteq Key
      BY <3>1, <3>2, KeyFacts
    <3>4. \A u \in Token : NftKey(u) \in DOMAIN tx.writes =>
             tx.writes[NftKey(u)] = Absent \/ tx.writes[NftKey(u)] \in Nft
      BY <3>1, KeyFacts
    <3>5. \A k \in BalanceKeys : k \in DOMAIN tx.writes => tx.writes[k] \in {Marker, Absent}
      BY <3>1, KeyFacts DEF BalanceKeys
    <3> QED
      BY <3>1, <3>3, <3>4, <3>5, KeyFacts DEF WritesTyped, ApprovalKeys
  <2> QED
    BY <2>1, <2>3 DEF EventTyped, TransferEvent, Account
<1>2. CASE Approving(tx)
  <2>1. PICK t \in Token, nft \in Nft, operator \in Client \union {NoOne} :
             /\ tx.writes = ApproveWrites(nft, operator, t)
             /\ tx.event = NoEvent
    BY <1>2 DEF Approving
  <2>2. [owner |-> nft.owner, approved |-> operator] \in Nft
    BY DEF Nft
  <2>3. WritesTyped(tx)
    <3>1. /\ DOMAIN tx.writes = {NftKey(t)}
          /\ tx.writes[NftKey(t)] \in Nft
      BY <2>1, <2>2 DEF ApproveWrites, Put
    <3>2. \A u \in Token : NftKey(u) \in DOMAIN tx.writes => u = t
      BY <3>1, KeyFacts
    <3>3. /\ \A k \in BalanceKeys : k # NftKey(t)
          /\ \A k \in ApprovalKeys : k # NftKey(t)
          /\ \A k \in OptionKeys : k # NftKey(t)
          /\ NftKey(t) \in Key
      BY KeyFacts DEF BalanceKeys, ApprovalKeys
    <3> QED
      BY <3>1, <3>2, <3>3 DEF WritesTyped
  <2> QED
    BY <2>1, <2>3 DEF EventTyped, NoEvent
<1>3. CASE Transferring(tx)
  <2>1. PICK t \in Token, nft \in Nft, to \in Account :
             /\ tx.writes = TransferWrites(nft.owner, to, t)
             /\ tx.event = TransferEvent(nft.owner, to, t)
    BY <1>3 DEF Transferring
  <2>2. [owner |-> to, approved |-> NoOne] \in Nft /\ nft.owner \in Account
    BY DEF Nft
  <2>3. WritesTyped(tx)
    BY <2>1, <2>2, KeyFacts DEF WritesTyped, TransferWrites, BalanceKeys, ApprovalKeys
  <2> QED
    BY <2>1, <2>3 DEF EventTyped, TransferEvent
<1>4. CASE Burning(tx)
  <2>1. PICK t \in Token : /\ tx.writes = BurnWrites(tx.creator, t)
                           /\ tx.event = TransferEvent(tx.creator, Zero, t)
    BY <1>4 DEF Burning
  <2>2. WritesTyped(tx)
    BY <2>1, KeyFacts DEF WritesTyped, BurnWrites, BalanceKeys, ApprovalKeys, Account
  <2> QED
    BY <2>1, <2>2 DEF EventTyped, TransferEvent, Account
<1>5. CASE SettingApproval(tx)
  <2>1. PICK operator \in Client, approved \in BOOLEAN :
             /\ tx.writes = Put(ApprovalKey(tx.creator, operator), approved)
             /\ tx.event = ApprovalForAllEvent(tx.creator, operator, approved)
    BY <1>5 DEF SettingApproval
  <2>2. WritesTyped(tx)
    BY <2>1, KeyFacts DEF WritesTyped, Put, BalanceKeys, ApprovalKeys, Account
  <2> QED
    BY <2>1, <2>2 DEF EventTyped, ApprovalForAllEvent
<1>6. CASE SettingOption(tx)
  <2>1. PICK name \in Option, symbol \in Option :
             /\ tx.writes = [k \in OptionKeys |-> IF k = OptionKey("name") THEN name
                                                  ELSE symbol]
             /\ tx.event = NoEvent
    BY <1>6 DEF SettingOption
  <2>2. WritesTyped(tx)
    BY <2>1, KeyFacts DEF WritesTyped, BalanceKeys, ApprovalKeys
  <2> QED
    BY <2>1, <2>2 DEF EventTyped, NoEvent
<1> QED
  BY <1>1, <1>2, <1>3, <1>4, <1>5, <1>6 DEF Simulated
-----------------------------------------------------------------------------
(* The invariant, first at the steps that only change the pool.            *)

\* A transaction endorsed on the current state may join the pool.
LEMMA EndorsedInv ==
    ASSUME IInv, NEW id \in TxId,
           UNCHANGED <<world, version, height, seenOwner, seenOperator>>,
           DOMAIN pool' = TxId,
           \A j \in TxId \ {id} : pool'[j] = pool[j],
           Tx(pool'[id]), Simulated(pool'[id]),
           \A k \in DOMAIN pool'[id].reads : pool'[id].reads[k].value = world[k]
    PROVE  IInv'
<1>1. \A j \in InFlight' : j # id => j \in InFlight /\ pool'[j] = pool[j]
  BY DEF InFlight
<1>2. TypeOK'
  <2>1. \A j \in InFlight' : Tx(pool[j])'
    <3>1. TAKE j \in InFlight'
    <3>2. CASE j = id
      BY <3>2 DEF Tx
    <3>3. CASE j # id
      BY <1>1, <3>3 DEF IInv, TypeOK, Tx
    <3> QED
      BY <3>2, <3>3
  <2> QED
    BY <2>1 DEF IInv, TypeOK
<1>3. ReadsAreCurrent'
  BY <1>1 DEF IInv, ReadsAreCurrent, InFlight
<1>4. PoolIsSimulated'
  BY <1>1 DEF IInv, PoolIsSimulated
<1>5. BalancesMatchOwners'
  BY DEF IInv, BalancesMatchOwners, Minted, OwnerOf
<1> QED
  BY <1>2, <1>3, <1>4, <1>5 DEF IInv

\* An invalid or a lost transaction leaves no trace.
LEMMA DroppedInv ==
    ASSUME IInv, NEW id \in TxId, pool' = [pool EXCEPT ![id] = Idle],
           UNCHANGED <<world, version, height, seenOwner, seenOperator>>
    PROVE  IInv'
<1>1. \A j \in InFlight' : j \in InFlight /\ pool'[j] = pool[j]
  BY DEF InFlight, IInv, TypeOK
<1>2. TypeOK'
  <2>1. \A j \in InFlight' : Tx(pool[j])'
    BY <1>1 DEF IInv, TypeOK, Tx
  <2> QED
    BY <2>1 DEF IInv, TypeOK
<1>3. ReadsAreCurrent'
  BY <1>1 DEF IInv, ReadsAreCurrent
<1>4. PoolIsSimulated'
  BY <1>1 DEF IInv, PoolIsSimulated
<1>5. BalancesMatchOwners'
  BY DEF IInv, BalancesMatchOwners, Minted, OwnerOf
<1> QED
  BY <1>2, <1>3, <1>4, <1>5 DEF IInv

-----------------------------------------------------------------------------
(* The simulation of each contract function.                               *)

\* What Endorse gives EndorsedInv, for a read set and a write set of keys.
LEMMA EndorseFacts ==
    ASSUME IInv, NEW id \in TxId, NEW creator \in Client,
           NEW K \in SUBSET Key, NEW writes, NEW event,
           Endorse(id, creator, K, writes, event)
    PROVE  /\ UNCHANGED <<world, version, height>>
           /\ DOMAIN pool' = TxId
           /\ \A j \in TxId \ {id} : pool'[j] = pool[j]
           /\ pool'[id].creator = creator
           /\ DOMAIN pool'[id].reads = K
           /\ \A k \in K : /\ pool'[id].reads[k].version = version[k]
                           /\ pool'[id].reads[k].value = world[k]
           /\ pool'[id].writes = writes
           /\ pool'[id].event = event
  BY DEF Endorse, ReadSet, IInv, TypeOK

\* The typing of an endorsed transaction.
LEMMA EndorsedTx ==
    ASSUME IInv, NEW tx, tx.creator \in Client, DOMAIN tx.reads \in SUBSET Key,
           \A k \in DOMAIN tx.reads : /\ tx.reads[k].version = version[k]
                                      /\ tx.reads[k].value = world[k],
           Simulated(tx)
    PROVE  Tx(tx)
<1>1. DOMAIN tx.writes \subseteq Key
  BY SimulatedTyped DEF WritesTyped
<1>2. /\ height \in Nat
      /\ \A k \in Key : version[k] \in Nat
      /\ \A k \in Key : version[k] <= height /\ ((version[k] = 0) <=> (world[k] = Absent))
  <2>1. TypeOK
    BY DEF IInv
  <2>2. height \in Nat
    BY <2>1, MaxHeightAssumption DEF TypeOK
  <2> QED
    BY <2>1, <2>2 DEF TypeOK
<1>3. ASSUME NEW k \in Key
      PROVE  version[k] \in 0..height
  <2>1. version[k] \in Nat /\ version[k] <= height /\ height \in Nat
    BY <1>2
  <2> QED
    BY <2>1
<1> QED
  BY <1>1, <1>2, <1>3 DEF Tx

\* MintWithTokenURI preserves the invariant.
LEMMA MintInv ==
    ASSUME IInv, NEW id \in TxId, NEW minter \in Client, NEW t \in Token,
           MintWithTokenURI(id, minter, t), UNCHANGED observer
    PROVE  IInv'
<1> DEFINE tx == pool'[id]
           K == {NftKey(t)}
<1>1. K \in SUBSET Key
  BY KeyFacts
<1>2. /\ UNCHANGED <<world, version, height>>
      /\ DOMAIN pool' = TxId
      /\ \A j \in TxId \ {id} : pool'[j] = pool[j]
      /\ tx.creator = minter
      /\ DOMAIN tx.reads = K
      /\ \A k \in K : /\ tx.reads[k].version = version[k]
                      /\ tx.reads[k].value = world[k]
      /\ tx.writes = MintWrites(minter, t)
      /\ tx.event = TransferEvent(Zero, minter, t)
  BY <1>1, EndorseFacts DEF MintWithTokenURI
<1>3. Minting(tx)
  BY <1>2 DEF Minting, MintWithTokenURI, Found
<1> HIDE DEF tx
<1>4. Simulated(tx)
  BY <1>3 DEF Simulated
<1>5. Tx(tx)
  BY <1>1, <1>2, <1>4, EndorsedTx
<1> QED
  BY <1>1, <1>2, <1>4, <1>5, EndorsedInv DEF tx, observer

\* Burn preserves the invariant.
LEMMA BurnInv ==
    ASSUME IInv, NEW id \in TxId, NEW sender \in Client, NEW t \in Token,
           Burn(id, sender, t), UNCHANGED observer
    PROVE  IInv'
<1> DEFINE tx == pool'[id]
           K == {NftKey(t)}
<1>1. K \in SUBSET Key
  BY KeyFacts
<1>2. /\ UNCHANGED <<world, version, height>>
      /\ DOMAIN pool' = TxId
      /\ \A j \in TxId \ {id} : pool'[j] = pool[j]
      /\ tx.creator = sender
      /\ DOMAIN tx.reads = K
      /\ \A k \in K : /\ tx.reads[k].version = version[k]
                      /\ tx.reads[k].value = world[k]
      /\ tx.writes = BurnWrites(sender, t)
      /\ tx.event = TransferEvent(sender, Zero, t)
  BY <1>1, EndorseFacts DEF Burn
<1>3. world[NftKey(t)] \in Nft
  BY DEF IInv, TypeOK, Burn, MayBurn
<1>4. Burning(tx)
  BY <1>2, <1>3 DEF Burning, Burn, Found
<1> HIDE DEF tx
<1>5. Simulated(tx)
  BY <1>4 DEF Simulated
<1>6. Tx(tx)
  BY <1>1, <1>2, <1>5, EndorsedTx
<1> QED
  BY <1>1, <1>2, <1>5, <1>6, EndorsedInv DEF tx, observer

\* Approve preserves the invariant.
LEMMA ApproveInv ==
    ASSUME IInv, NEW id \in TxId, NEW sender \in Client, NEW t \in Token,
           NEW operator \in Client \union {NoOne},
           Approve(id, sender, operator, t), UNCHANGED observer
    PROVE  IInv'
<1> DEFINE tx == pool'[id]
           nft == world[NftKey(t)]
           key == ApprovalKey(nft.owner, sender)
           K == {NftKey(t), key}
<1>1. nft \in Nft /\ nft.owner \in Account
  BY DEF IInv, TypeOK, Approve, Nft
<1>2. K \in SUBSET Key
  BY <1>1, KeyFacts
<1>3. /\ UNCHANGED <<world, version, height>>
      /\ DOMAIN pool' = TxId
      /\ \A j \in TxId \ {id} : pool'[j] = pool[j]
      /\ tx.creator = sender
      /\ DOMAIN tx.reads = K
      /\ \A k \in K : /\ tx.reads[k].version = version[k]
                      /\ tx.reads[k].value = world[k]
      /\ tx.writes = ApproveWrites(nft, operator, t)
      /\ tx.event = NoEvent
  BY <1>2, EndorseFacts DEF Approve
<1>4. MayApprove(nft, world[key], sender)
  BY DEF Approve
<1>5. Approving(tx)
  BY <1>1, <1>3, <1>4 DEF Approving, Found
<1> HIDE DEF tx
<1>6. Simulated(tx)
  BY <1>5 DEF Simulated
<1>7. Tx(tx)
  BY <1>2, <1>3, <1>6, EndorsedTx
<1> QED
  BY <1>2, <1>3, <1>6, <1>7, EndorsedInv DEF tx, observer

\* TransferFrom preserves the invariant.
LEMMA TransferInv ==
    ASSUME IInv, NEW id \in TxId, NEW sender \in Client, NEW t \in Token,
           NEW from \in Account, NEW to \in Account,
           TransferFrom(id, sender, from, to, t), UNCHANGED observer
    PROVE  IInv'
<1> DEFINE tx == pool'[id]
           nft == world[NftKey(t)]
           key == ApprovalKey(nft.owner, sender)
           K == {NftKey(t), key}
<1>1. nft \in Nft /\ nft.owner \in Account
  BY DEF IInv, TypeOK, TransferFrom, Nft
<1>2. K \in SUBSET Key
  BY <1>1, KeyFacts
<1>3. /\ UNCHANGED <<world, version, height>>
      /\ DOMAIN pool' = TxId
      /\ \A j \in TxId \ {id} : pool'[j] = pool[j]
      /\ tx.creator = sender
      /\ DOMAIN tx.reads = K
      /\ \A k \in K : /\ tx.reads[k].version = version[k]
                      /\ tx.reads[k].value = world[k]
      /\ tx.writes = TransferWrites(from, to, t)
      /\ tx.event = TransferEvent(from, to, t)
  <2>1. Endorse(id, sender, K, TransferWrites(from, to, t), TransferEvent(from, to, t))
    BY DEF TransferFrom
  <2> HIDE DEF K
  <2> QED
    BY <1>2, <2>1, EndorseFacts
<1>4. MayTransfer(nft, world[key], sender, from) /\ nft.owner = from
  BY DEF TransferFrom, MayTransfer
<1>5. Transferring(tx)
  BY <1>1, <1>3, <1>4 DEF Transferring, Found
<1> HIDE DEF tx
<1>6. Simulated(tx)
  BY <1>5 DEF Simulated
<1>7. Tx(tx)
  BY <1>2, <1>3, <1>6, EndorsedTx
<1> QED
  BY <1>2, <1>3, <1>6, <1>7, EndorsedInv DEF tx, observer

\* SetApprovalForAll and SetOption, which read nothing, preserve the invariant.
LEMMA BlindInv ==
    ASSUME IInv, NEW id \in TxId, NEW sender \in Client, UNCHANGED observer,
           \/ \E operator \in Client, approved \in BOOLEAN :
                 SetApprovalForAll(id, sender, operator, approved)
           \/ \E name, symbol \in Option : SetOption(id, sender, name, symbol)
    PROVE  IInv'
<1> DEFINE tx == pool'[id]
<1>1. /\ UNCHANGED <<world, version, height>>
      /\ DOMAIN pool' = TxId
      /\ \A j \in TxId \ {id} : pool'[j] = pool[j]
      /\ tx.creator = sender
      /\ DOMAIN tx.reads = {}
  <2>1. PICK writes, event : Endorse(id, sender, {}, writes, event)
    BY DEF SetApprovalForAll, SetOption
  <2> QED
    BY <2>1, EndorseFacts
<1>2. SettingApproval(tx) \/ SettingOption(tx)
  <2>1. CASE \E operator \in Client, approved \in BOOLEAN :
                SetApprovalForAll(id, sender, operator, approved)
    <3>1. PICK operator \in Client, approved \in BOOLEAN :
                  Endorse(id, sender, {}, Put(ApprovalKey(sender, operator), approved),
                          ApprovalForAllEvent(sender, operator, approved))
      BY <2>1 DEF SetApprovalForAll
    <3> QED
      BY <3>1, EndorseFacts DEF SettingApproval
  <2>2. CASE \E name, symbol \in Option : SetOption(id, sender, name, symbol)
    <3>1. PICK name \in Option, symbol \in Option : SetOption(id, sender, name, symbol)
      BY <2>2
    <3> DEFINE writes == [k \in OptionKeys |-> IF k = OptionKey("name") THEN name
                                               ELSE symbol]
    <3>2. Endorse(id, sender, {}, writes, NoEvent)
      BY <3>1 DEF SetOption
    <3>3. tx.writes = writes /\ tx.event = NoEvent
      <4> HIDE DEF writes
      <4> QED
        BY <3>2, EndorseFacts
    <3> QED
      BY <3>3 DEF SettingOption
  <2> QED
    BY <2>1, <2>2
<1> HIDE DEF tx
<1>3. Simulated(tx)
  BY <1>2 DEF Simulated
<1>4. Tx(tx)
  BY <1>1, <1>3, EndorsedTx
<1> QED
  BY <1>1, <1>3, <1>4, EndorsedInv DEF tx, observer

-----------------------------------------------------------------------------
(* The commit of a valid transaction.                                      *)

\* The version check is a value check: what the transaction read still holds.
LEMMA ValidReads ==
    ASSUME IInv, NEW id \in InFlight, Valid(pool[id])
    PROVE  \A k \in DOMAIN pool[id].reads : pool[id].reads[k].value = world[k]
  BY DEF IInv, ReadsAreCurrent, Valid

\* A commit changes exactly the keys written, and gives each one a version that
\* no earlier read has seen, or none.
LEMMA CommitFacts ==
    ASSUME IInv, NEW id \in TxId, CommitValid(id)
    PROVE  /\ id \in InFlight
           /\ Tx(pool[id]) /\ Simulated(pool[id])
           /\ WritesTyped(pool[id]) /\ EventTyped(pool[id])
           /\ \A j \in InFlight' : j \in InFlight /\ pool'[j] = pool[j]
           /\ \A k \in Key : world'[k] = IF k \in DOMAIN pool[id].writes
                                         THEN pool[id].writes[k] ELSE world[k]
<1>1. id \in InFlight /\ Tx(pool[id]) /\ Simulated(pool[id])
  BY DEF CommitValid, InFlight, IInv, TypeOK, PoolIsSimulated
<1>2. WritesTyped(pool[id]) /\ EventTyped(pool[id])
  BY <1>1, SimulatedTyped DEF Tx
<1>3. \A j \in InFlight' : j \in InFlight /\ pool'[j] = pool[j]
  BY DEF CommitValid, InFlight, IInv, TypeOK
<1>4. \A k \in Key : world'[k] = IF k \in DOMAIN pool[id].writes
                                 THEN pool[id].writes[k] ELSE world[k]
  BY DEF CommitValid, Applied
<1> QED
  BY <1>1, <1>2, <1>3, <1>4

\* A commit keeps the types: the writes were typed, and the height only grows.
LEMMA CommitType ==
    ASSUME IInv, NEW id \in TxId, Commit(id)
    PROVE  TypeOK'
<1> DEFINE tx == pool[id]
<1>1. CommitValid(id) /\ Observe(tx.event)
  BY DEF Commit
<1>2. /\ id \in InFlight /\ WritesTyped(tx) /\ EventTyped(tx)
      /\ \A j \in InFlight' : j \in InFlight /\ pool'[j] = pool[j]
      /\ \A k \in Key : world'[k] = IF k \in DOMAIN tx.writes
                                    THEN tx.writes[k] ELSE world[k]
  BY <1>1, CommitFacts
<1>3. height \in Nat /\ height' = height + 1 /\ height' \in 0..MaxHeight
  BY <1>1, MaxHeightAssumption DEF CommitValid, IInv, TypeOK
<1>4. DOMAIN world' = Key
  BY <1>1 DEF CommitValid, Applied
<1>5. \A t \in Token : world'[NftKey(t)] = Absent \/ world'[NftKey(t)] \in Nft
  BY <1>2, KeyFacts DEF WritesTyped, IInv, TypeOK
<1>6. \A k \in BalanceKeys : world'[k] \in {Marker, Absent}
  <2>1. BalanceKeys \subseteq Key
    BY KeyAssumption
  <2> QED
    BY <1>2, <2>1 DEF WritesTyped, IInv, TypeOK
<1>7. \A k \in OptionKeys : world'[k] \in Option \union {Absent}
  BY <1>2, KeyFacts DEF WritesTyped, IInv, TypeOK
<1>8. \A k \in ApprovalKeys : world'[k] = Absent \/ world'[k] \in BOOLEAN
  <2>1. ApprovalKeys \subseteq Key
    BY KeyAssumption
  <2> QED
    BY <1>2, <2>1 DEF WritesTyped, IInv, TypeOK
<1>9. /\ version' \in [Key -> Nat]
      /\ \A k \in Key : version'[k] <= height' /\ (version'[k] = 0 <=> world'[k] = Absent)
  <2>1. \A k \in Key : version'[k] = IF k \notin DOMAIN tx.writes THEN version[k]
                                     ELSE IF tx.writes[k] = Absent THEN 0 ELSE height + 1
    BY <1>1 DEF CommitValid, VersionAfter
  <2>2. version' = [k \in Key |-> version'[k]]
    BY <1>1 DEF CommitValid, VersionAfter
  <2>3. \A k \in Key : version[k] \in Nat /\ version[k] <= height
                       /\ (version[k] = 0 <=> world[k] = Absent)
    BY DEF IInv, TypeOK
  <2>4. \A k \in Key : version'[k] \in Nat
    BY <1>3, <2>1, <2>3
  <2>5. \A k \in Key : version'[k] <= height' /\ (version'[k] = 0 <=> world'[k] = Absent)
    BY <1>2, <1>3, <2>1, <2>3
  <2> QED
    BY <2>2, <2>4, <2>5
<1>10. DOMAIN pool' = TxId /\ \A j \in InFlight' : Tx(pool[j])'
  <2>1. DOMAIN pool' = TxId
    BY <1>1 DEF CommitValid, IInv, TypeOK
  <2>2. ASSUME NEW j \in InFlight'
        PROVE  Tx(pool[j])'
    BY <1>2, <1>3, <2>2 DEF IInv, TypeOK, Tx
  <2> QED
    BY <2>1, <2>2
<1>11. seenOwner' \in [Token -> Account] /\ seenOperator' \subseteq Client \X Client
  BY <1>1, <1>2 DEF Observe, EventTyped, IInv, TypeOK
<1> QED
  BY <1>3, <1>4, <1>5, <1>6, <1>7, <1>8, <1>9, <1>10, <1>11 DEF TypeOK

\* A commit gives the keys it writes a version no transaction in flight has read.
LEMMA CommitReads ==
    ASSUME IInv, NEW id \in TxId, CommitValid(id)
    PROVE  ReadsAreCurrent'
<1> SUFFICES ASSUME NEW j \in InFlight', NEW k \in DOMAIN pool'[j].reads,
                    pool'[j].reads[k].version = version'[k]
             PROVE  pool'[j].reads[k].value = world'[k]
  BY DEF ReadsAreCurrent
<1>1. /\ j \in InFlight /\ pool'[j] = pool[j]
      /\ k \in DOMAIN pool[j].reads /\ k \in Key /\ Tx(pool[j])
  <2>1. j \in InFlight /\ pool'[j] = pool[j]
    BY CommitFacts
  <2>2. Tx(pool[j])
    BY <2>1 DEF IInv, TypeOK
  <2> QED
    BY <2>1, <2>2 DEF Tx
<1>2. /\ pool[j].reads[k].version \in Nat /\ pool[j].reads[k].version <= height
      /\ (pool[j].reads[k].version = 0) <=> (pool[j].reads[k].value = Absent)
      /\ height \in Nat
  BY <1>1, MaxHeightAssumption DEF Tx, IInv, TypeOK
<1>3. CASE k \notin DOMAIN pool[id].writes
  <2>1. version'[k] = version[k] /\ world'[k] = world[k]
    BY <1>1, <1>3 DEF CommitValid, VersionAfter, Applied
  <2> QED
    BY <1>1, <2>1 DEF IInv, ReadsAreCurrent
<1>4. CASE k \in DOMAIN pool[id].writes /\ pool[id].writes[k] = Absent
  <2>1. version'[k] = 0 /\ world'[k] = Absent
    BY <1>1, <1>4 DEF CommitValid, VersionAfter, Applied
  <2> QED
    BY <1>1, <1>2, <2>1
<1>5. CASE k \in DOMAIN pool[id].writes /\ pool[id].writes[k] # Absent
  <2>1. version'[k] = height + 1
    BY <1>1, <1>5 DEF CommitValid, VersionAfter
  <2> QED
    BY <1>1, <1>2, <2>1
<1> QED
  BY <1>3, <1>4, <1>5

\* The token record and the balance markers change together.
LEMMA CommitBalances ==
    ASSUME IInv, NEW id \in TxId, CommitValid(id)
    PROVE  BalancesMatchOwners'
<1> DEFINE tx == pool[id]
<1>1. /\ id \in InFlight /\ Tx(tx) /\ Simulated(tx)
      /\ \A k \in Key : world'[k] = IF k \in DOMAIN tx.writes
                                    THEN tx.writes[k] ELSE world[k]
  BY CommitFacts
<1>2. \A k, v : Found(tx, k, v) => world[k] = v
  BY <1>1, ValidReads DEF Found, CommitValid
<1> SUFFICES ASSUME NEW o \in Account, NEW u \in Token
             PROVE  world'[BalanceKey(o, u)] # Absent
                       <=> world'[NftKey(u)] # Absent /\ world'[NftKey(u)].owner = o
  BY DEF BalancesMatchOwners, Minted, OwnerOf
<1>3. /\ world[BalanceKey(o, u)] # Absent
            <=> world[NftKey(u)] # Absent /\ world[NftKey(u)].owner = o
      /\ NftKey(u) \in Key /\ BalanceKey(o, u) \in Key
  BY KeyFacts DEF IInv, BalancesMatchOwners, Minted, OwnerOf
<1>4. CASE /\ NftKey(u) \notin DOMAIN tx.writes
           /\ BalanceKey(o, u) \notin DOMAIN tx.writes
  BY <1>1, <1>3, <1>4
<1>5. CASE Minting(tx)
  <2>1. PICK t \in Token : /\ Found(tx, NftKey(t), Absent)
                           /\ tx.writes = MintWrites(tx.creator, t)
    BY <1>5 DEF Minting
  <2>2. CASE u = t
    <3>1. /\ tx.writes[NftKey(t)] = [owner |-> tx.creator, approved |-> NoOne]
          /\ tx.writes[BalanceKey(tx.creator, t)] = Marker
          /\ DOMAIN tx.writes = {NftKey(t), BalanceKey(tx.creator, t)}
      BY <2>1, KeyFacts DEF MintWrites
    <3>2. [owner |-> tx.creator, approved |-> NoOne] \in Nft
      BY <1>1 DEF Nft, Account, Tx
    <3>3. world'[NftKey(u)] = [owner |-> tx.creator, approved |-> NoOne]
      BY <1>1, <1>3, <2>2, <3>1
    <3>4. world'[BalanceKey(o, u)] # Absent <=> o = tx.creator
      BY <1>1, <1>2, <1>3, <2>1, <2>2, <3>1, KeyFacts, ConstantAssumption
    <3> QED
      BY <3>2, <3>3, <3>4, ConstantAssumption
  <2>3. CASE u # t
    <3>1. DOMAIN tx.writes = {NftKey(t), BalanceKey(tx.creator, t)}
      BY <2>1 DEF MintWrites
    <3> QED
      BY <1>4, <2>3, <3>1, KeyFacts
  <2> QED
    BY <2>2, <2>3
<1>6. CASE Approving(tx)
  <2>1. PICK t \in Token, nft \in Nft, operator \in Client \union {NoOne} :
             /\ Found(tx, NftKey(t), nft)
             /\ tx.writes = ApproveWrites(nft, operator, t)
    BY <1>6 DEF Approving
  <2>2. /\ DOMAIN tx.writes = {NftKey(t)}
        /\ tx.writes[NftKey(t)] = [owner |-> nft.owner, approved |-> operator]
    BY <2>1 DEF ApproveWrites, Put
  <2>3. [owner |-> nft.owner, approved |-> operator] \in Nft
    BY DEF Nft
  <2>4. world'[BalanceKey(o, u)] = world[BalanceKey(o, u)]
    BY <1>1, <1>3, <2>2, KeyFacts
  <2>5. CASE u = t
    BY <1>1, <1>2, <1>3, <2>1, <2>2, <2>3, <2>4, <2>5, ConstantAssumption
  <2>6. CASE u # t
    BY <1>1, <1>3, <2>2, <2>4, <2>6, KeyFacts
  <2> QED
    BY <2>5, <2>6
<1>7. CASE Transferring(tx)
  <2>1. PICK t \in Token, nft \in Nft, to \in Account :
             /\ Found(tx, NftKey(t), nft)
             /\ tx.writes = TransferWrites(nft.owner, to, t)
    BY <1>7 DEF Transferring
  <2>2. CASE u = t
    <3>1. /\ DOMAIN tx.writes = {NftKey(t), BalanceKey(nft.owner, t), BalanceKey(to, t)}
          /\ tx.writes[NftKey(t)] = [owner |-> to, approved |-> NoOne]
          /\ tx.writes[BalanceKey(to, t)] = Marker
          /\ nft.owner # to => tx.writes[BalanceKey(nft.owner, t)] = Absent
      BY <2>1, KeyFacts DEF TransferWrites
    <3>2. [owner |-> to, approved |-> NoOne] \in Nft
      BY DEF Nft
    <3>3. world'[NftKey(u)] = [owner |-> to, approved |-> NoOne]
      BY <1>1, <1>3, <2>2, <3>1
    <3>4. world[NftKey(u)] = nft
      BY <1>2, <2>1, <2>2
    <3>5. CASE o = to
      BY <1>1, <1>3, <2>2, <3>1, <3>2, <3>3, <3>5, ConstantAssumption
    <3>6. CASE o # to /\ o = nft.owner
      BY <1>1, <1>3, <2>2, <3>1, <3>3, <3>6
    <3>7. CASE o # to /\ o # nft.owner
      <4>1. BalanceKey(o, u) \notin DOMAIN tx.writes
        BY <3>1, <3>7, KeyFacts
      <4> QED
        BY <1>1, <1>3, <3>3, <3>4, <3>7, <4>1
    <3> QED
      BY <3>5, <3>6, <3>7
  <2>3. CASE u # t
    <3>1. DOMAIN tx.writes = {NftKey(t), BalanceKey(nft.owner, t), BalanceKey(to, t)}
      BY <2>1 DEF TransferWrites
    <3> QED
      BY <1>4, <2>3, <3>1, KeyFacts
  <2> QED
    BY <2>2, <2>3
<1>8. CASE Burning(tx)
  <2>1. PICK t \in Token, nft \in Nft : /\ Found(tx, NftKey(t), nft)
                                        /\ nft.owner = tx.creator
                                        /\ tx.writes = BurnWrites(tx.creator, t)
    BY <1>8 DEF Burning, MayBurn
  <2>2. /\ DOMAIN tx.writes = {NftKey(t), BalanceKey(tx.creator, t)}
        /\ \A k \in DOMAIN tx.writes : tx.writes[k] = Absent
    BY <2>1 DEF BurnWrites
  <2>3. CASE u = t
    <3>1. world[NftKey(u)] = nft /\ world'[NftKey(u)] = Absent
      BY <1>1, <1>2, <1>3, <2>1, <2>2, <2>3
    <3>2. CASE o = tx.creator
      BY <1>1, <1>3, <2>2, <2>3, <3>1, <3>2
    <3>3. CASE o # tx.creator
      <4>1. BalanceKey(o, u) \notin DOMAIN tx.writes
        BY <2>2, <3>3, KeyFacts
      <4> QED
        BY <1>1, <1>3, <2>1, <3>1, <3>3, <4>1
    <3> QED
      BY <3>2, <3>3
  <2>4. CASE u # t
    BY <1>4, <2>2, <2>4, KeyFacts
  <2> QED
    BY <2>3, <2>4
<1>9. CASE SettingApproval(tx)
  <2>1. \E operator \in Client : DOMAIN tx.writes = {ApprovalKey(tx.creator, operator)}
    BY <1>9 DEF SettingApproval, Put
  <2> QED
    BY <1>4, <2>1, KeyFacts
<1>10. CASE SettingOption(tx)
  <2>1. DOMAIN tx.writes = OptionKeys
    BY <1>10 DEF SettingOption
  <2> QED
    BY <1>4, <2>1, KeyFacts
<1> QED
  BY <1>1, <1>5, <1>6, <1>7, <1>8, <1>9, <1>10 DEF Simulated

-----------------------------------------------------------------------------

\* The invariant holds on the empty ledger.
LEMMA InitInv == Init => IInv
<1> SUFFICES ASSUME Init PROVE IInv
  OBVIOUS
<1>1. InFlight = {} /\ \A k \in Key : world[k] = Absent /\ version[k] = 0
  BY DEF Init, LedgerInit, InFlight
<1>2. \A t \in Token : world[NftKey(t)] = Absent
  BY <1>1, KeyFacts
<1>3. BalanceKeys \subseteq Key /\ ApprovalKeys \subseteq Key /\ OptionKeys \subseteq Key
  BY KeyAssumption
<1>4. TypeOK
  <2>1. DOMAIN world = Key /\ version \in [Key -> Nat] /\ DOMAIN pool = TxId
    BY DEF Init, LedgerInit
  <2>2. height = 0 /\ height \in Nat /\ height \in 0..MaxHeight
    BY MaxHeightAssumption DEF Init, LedgerInit
  <2>3. seenOwner \in [Token -> Account] /\ seenOperator \subseteq Client \X Client
    BY DEF Init, Account
  <2>4. ASSUME NEW k \in Key
        PROVE  version[k] <= height /\ (version[k] = 0 <=> world[k] = Absent)
    <3>1. version[k] = 0 /\ world[k] = Absent
      BY <1>1
    <3> QED
      BY <2>2, <3>1
  <2>5. \A id \in InFlight : Tx(pool[id])
    BY <1>1
  <2>6. \A k \in BalanceKeys \union ApprovalKeys \union OptionKeys : world[k] = Absent
    BY <1>1, <1>3
  <2>7. /\ \A k \in BalanceKeys : world[k] \in {Marker, Absent}
        /\ \A k \in OptionKeys : world[k] \in Option \union {Absent}
        /\ \A k \in ApprovalKeys : world[k] = Absent \/ world[k] \in BOOLEAN
    BY <2>6
  <2> QED
    BY <1>2, <2>1, <2>2, <2>3, <2>4, <2>5, <2>7 DEF TypeOK
<1>5. ReadsAreCurrent /\ PoolIsSimulated
  BY <1>1 DEF ReadsAreCurrent, PoolIsSimulated
<1>6. BalancesMatchOwners
  BY <1>1, <1>2, KeyFacts DEF BalancesMatchOwners, Minted
<1> QED
  BY <1>4, <1>5, <1>6 DEF IInv

\* Every simulation preserves the invariant.
LEMMA SimulateInv ==
    ASSUME IInv, NEW id \in TxId, Simulate(id), UNCHANGED observer
    PROVE  IInv'
<1>1. PICK sender \in Client :
        \/ \E t \in Token :
              \/ MintWithTokenURI(id, sender, t)
              \/ Burn(id, sender, t)
              \/ \E operator \in Client \union {NoOne} : Approve(id, sender, operator, t)
              \/ \E from, to \in Account : TransferFrom(id, sender, from, to, t)
        \/ \E operator \in Client, approved \in BOOLEAN :
              SetApprovalForAll(id, sender, operator, approved)
        \/ \E name, symbol \in Option : SetOption(id, sender, name, symbol)
  BY DEF Simulate
<1> QED
  BY <1>1, MintInv, BurnInv, ApproveInv, TransferInv, BlindInv

\* Every commit preserves the invariant.
LEMMA CommitInv ==
    ASSUME IInv, NEW id \in TxId, Commit(id)
    PROVE  IInv'
<1>1. CommitValid(id)
  BY DEF Commit
<1>2. PoolIsSimulated'
  BY <1>1, CommitFacts DEF IInv, PoolIsSimulated
<1> QED
  BY <1>1, <1>2, CommitType, CommitReads, CommitBalances DEF IInv

\* The inductive invariant: transactions in flight are what the contract made
\* of the values they read, a valid one read what the ledger still holds, and
\* the balance markers are the inverse of the owner fields.
THEOREM Inductive == Spec => []IInv
<1>1. Init => IInv
  BY InitInv
<1>2. IInv /\ [Next]_vars => IInv'
  <2> SUFFICES ASSUME IInv, [Next]_vars PROVE IInv'
    OBVIOUS
  <2>1. ASSUME NEW id \in TxId, Simulate(id), UNCHANGED observer
        PROVE  IInv'
    BY <2>1, SimulateInv
  <2>2. ASSUME NEW id \in TxId, Commit(id)
        PROVE  IInv'
    BY <2>2, CommitInv
  <2>3. ASSUME NEW id \in TxId, MarkInvalid(id) \/ Lose(id), UNCHANGED observer
        PROVE  IInv'
    BY <2>3, DroppedInv DEF MarkInvalid, Lose, observer
  <2>4. CASE UNCHANGED vars
    BY <2>4 DEF vars, IInv, TypeOK, Tx, ReadsAreCurrent, PoolIsSimulated,
                BalancesMatchOwners, InFlight, Minted, OwnerOf
  <2> QED
    BY <2>1, <2>2, <2>3, <2>4 DEF Next
<1> QED
  BY <1>1, <1>2, PTL DEF Spec

\* Every variable keeps its type, for any constants.
THEOREM TypeCorrect == Spec => []TypeOK
<1>1. IInv => TypeOK
  BY DEF IInv
<1> QED
  BY <1>1, Inductive, PTL

\* A balance marker and an owner field never disagree, whatever was in flight
\* together.
THEOREM BalancesAreOwnership == Spec => []BalancesMatchOwners
<1>1. IInv => BalancesMatchOwners
  BY DEF IInv
<1> QED
  BY <1>1, Inductive, PTL

\* What BalanceOf and TotalSupply answer follows, for any number of tokens.
THEOREM Queries == Spec => []QueriesAgree
<1>1. ASSUME TypeOK, BalancesMatchOwners PROVE QueriesAgree
  <2>1. ASSUME NEW o \in Account
        PROVE  {t \in Token : world[BalanceKey(o, t)] # Absent}
                 = {t \in Minted : OwnerOf(t) = o}
    BY <1>1 DEF BalancesMatchOwners, Minted
  <2>2. \A t \in Minted : OwnerOf(t) \in Account
    BY <1>1 DEF TypeOK, Minted, OwnerOf, Nft
  <2>3. Minted = {t \in Token : \E o \in Account : world[BalanceKey(o, t)] # Absent}
    BY <1>1, <2>2 DEF BalancesMatchOwners, Minted
  <2> QED
    BY <2>1, <2>3 DEF QueriesAgree, BalanceOf, TotalSupply
<1> QED
  BY <1>1, TypeCorrect, BalancesAreOwnership, PTL

-----------------------------------------------------------------------------
(* The refinement: a commit is one step of the registry, every other step  *)
(* leaves the registry as it is.                                           *)

\* Which registry a world state stands for.
LEMMA RegistryFacts ==
    /\ DOMAIN RegisteredOwner = Token /\ DOMAIN RegisteredApproved = Token
    /\ \A t \in Token : world[NftKey(t)] = Absent =>
          RegisteredOwner[t] = NoOne /\ RegisteredApproved[t] = NoOne
    /\ \A t \in Token : world[NftKey(t)] # Absent =>
          /\ RegisteredOwner[t] = world[NftKey(t)].owner
          /\ RegisteredApproved[t] = world[NftKey(t)].approved
    /\ \A o \in Account, c \in Client :
          <<o, c>> \in RegisteredOperators <=> Grants(world[ApprovalKey(o, c)])
  BY DEF RegisteredOwner, RegisteredApproved, RegisteredOperators, Minted, OwnerOf,
         GetApproved, IsApprovedForAll

\* The same of the next state.
LEMMA RegistryFactsNext ==
    /\ DOMAIN RegisteredOwner' = Token /\ DOMAIN RegisteredApproved' = Token
    /\ \A t \in Token : world'[NftKey(t)] = Absent =>
          RegisteredOwner'[t] = NoOne /\ RegisteredApproved'[t] = NoOne
    /\ \A t \in Token : world'[NftKey(t)] # Absent =>
          /\ RegisteredOwner'[t] = world'[NftKey(t)].owner
          /\ RegisteredApproved'[t] = world'[NftKey(t)].approved
    /\ \A o \in Account, c \in Client :
          <<o, c>> \in RegisteredOperators' <=> Grants(world'[ApprovalKey(o, c)])
  BY DEF RegisteredOwner, RegisteredApproved, RegisteredOperators, Minted, OwnerOf,
         GetApproved, IsApprovedForAll

\* A commit that changes no approval leaves the operators as they were.
LEMMA OperatorsKept ==
    ASSUME \A o \in Account, c \in Client :
             world'[ApprovalKey(o, c)] = world[ApprovalKey(o, c)]
    PROVE  RegisteredOperators' = RegisteredOperators
  BY DEF RegisteredOperators, IsApprovedForAll

\* A commit that changes the record of token t changes that entry only.
LEMMA OneToken ==
    ASSUME NEW t \in Token,
           \A u \in Token \ {t} : world'[NftKey(u)] = world[NftKey(u)]
    PROVE  /\ RegisteredOwner' = [RegisteredOwner EXCEPT ![t] = RegisteredOwner'[t]]
           /\ RegisteredApproved' = [RegisteredApproved EXCEPT ![t] = RegisteredApproved'[t]]
           /\ RegisteredOwner'[t] = RegisteredOwner[t] => RegisteredOwner' = RegisteredOwner
           /\ RegisteredApproved'[t] = RegisteredApproved[t] =>
                 RegisteredApproved' = RegisteredApproved
  BY DEF RegisteredOwner, RegisteredApproved, Minted, OwnerOf, GetApproved

\* What ConstantAssumption says of token records.
LEMMA NftFacts ==
    ASSUME NEW nft \in Nft
    PROVE  nft # Absent /\ nft.owner \in Account /\ nft.owner # NoOne
  BY ConstantAssumption DEF Nft

\* A commit is one step of the abstract registry, or a stutter: one case per
\* contract function.
LEMMA CommitRefines ==
    ASSUME IInv, NEW id \in TxId, CommitValid(id)
    PROVE  Registry!Next \/ UNCHANGED Registry!vars
<1> DEFINE tx == pool[id]
           W == DOMAIN tx.writes
<1>1. /\ id \in InFlight /\ Tx(tx) /\ Simulated(tx)
      /\ \A k \in Key : world'[k] = IF k \in W THEN tx.writes[k] ELSE world[k]
      /\ \A k \in Key : k \notin W => world'[k] = world[k]
      /\ tx.creator \in Client
  BY CommitFacts DEF Tx
<1>2. \A k \in DOMAIN tx.reads : tx.reads[k].value = world[k]
  BY <1>1, ValidReads DEF CommitValid
<1>3. CASE Minting(tx)
  <2>1. PICK t \in Token : /\ tx.creator \in Minter
                           /\ Found(tx, NftKey(t), Absent)
                           /\ tx.writes = MintWrites(tx.creator, t)
    BY <1>3 DEF Minting
  <2>2. W = {NftKey(t), BalanceKey(tx.creator, t)}
    BY <2>1 DEF MintWrites
  <2>3. UNCHANGED RegisteredOperators
    <3>1. \A o \in Account, c \in Client :
             ApprovalKey(o, c) \in Key /\ ApprovalKey(o, c) \notin W
      <4>1. \A o, c : /\ ApprovalKey(o, c) # NftKey(t)
                      /\ ApprovalKey(o, c) # BalanceKey(tx.creator, t)
        BY KeyFacts
      <4>2. \A o \in Account, c \in Client : ApprovalKey(o, c) \in Key
        BY KeyFacts
      <4> QED
        BY <2>2, <4>1, <4>2
    <3> QED
      BY <1>1, <3>1, OperatorsKept
  <2>4. world[NftKey(t)] = Absent
    BY <1>2, <2>1 DEF Found
  <2>5. world'[NftKey(t)] = [owner |-> tx.creator, approved |-> NoOne]
    BY <1>1, <2>1, <2>2, KeyFacts DEF MintWrites
  <2>6. world'[NftKey(t)] \in Nft
    BY <1>1, <2>5 DEF Nft, Account
  <2>7. RegisteredOwner'[t] = tx.creator /\ RegisteredApproved'[t] = NoOne
    BY <2>5, <2>6, RegistryFactsNext, NftFacts
  <2>8. RegisteredOwner[t] = NoOne /\ RegisteredApproved[t] = NoOne
    BY <2>4, RegistryFacts
  <2>9. /\ RegisteredOwner' = [RegisteredOwner EXCEPT ![t] = tx.creator]
        /\ RegisteredApproved' = [RegisteredApproved EXCEPT ![t] = NoOne]
    <3>1. \A u \in Token \ {t} : world'[NftKey(u)] = world[NftKey(u)]
      BY <1>1, <2>2, KeyFacts
    <3> QED
      BY <2>7, <3>1, OneToken
  <2>10. RegisteredApproved' = RegisteredApproved
    <3>1. \A u \in Token \ {t} : world'[NftKey(u)] = world[NftKey(u)]
      BY <1>1, <2>2, KeyFacts
    <3> QED
      BY <2>7, <2>8, <3>1, OneToken
  <2>11. Registry!Mint(tx.creator, t)
    BY <2>1, <2>3, <2>8, <2>9, <2>10 DEF Registry!Mint, Registry!Exists
  <2> QED
    BY <1>1, <2>11 DEF Registry!Next
<1>4. CASE Approving(tx)
  <2>1. PICK t \in Token, nft \in Nft, operator \in Client \union {NoOne} :
          LET key == ApprovalKey(nft.owner, tx.creator) IN
          /\ Found(tx, NftKey(t), nft)
          /\ key \in DOMAIN tx.reads
          /\ MayApprove(nft, tx.reads[key].value, tx.creator)
          /\ tx.writes = ApproveWrites(nft, operator, t)
    BY <1>4 DEF Approving
  <2>2. W = {NftKey(t)}
    BY <2>1 DEF ApproveWrites, Put
  <2>3. UNCHANGED RegisteredOperators
    <3>1. \A o \in Account, c \in Client :
             ApprovalKey(o, c) \in Key /\ ApprovalKey(o, c) \notin W
      BY <2>2, KeyFacts
    <3> QED
      BY <1>1, <3>1, OperatorsKept
  <2>4. world[NftKey(t)] = nft /\ nft # Absent /\ nft.owner \in Account /\ nft.owner # NoOne
    BY <1>2, <2>1, NftFacts DEF Found
  <2>5. world'[NftKey(t)] = [owner |-> nft.owner, approved |-> operator]
    BY <1>1, <2>1, <2>2, KeyFacts DEF ApproveWrites, Put
  <2>6. world'[NftKey(t)] \in Nft
    BY <2>5 DEF Nft
  <2>7. RegisteredOwner'[t] = nft.owner /\ RegisteredApproved'[t] = operator
    BY <2>5, <2>6, RegistryFactsNext, NftFacts
  <2>8. RegisteredOwner[t] = nft.owner
    BY <2>4, RegistryFacts
  <2>9. /\ RegisteredOwner' = [RegisteredOwner EXCEPT ![t] = nft.owner]
        /\ RegisteredApproved' = [RegisteredApproved EXCEPT ![t] = operator]
    <3>1. \A u \in Token \ {t} : world'[NftKey(u)] = world[NftKey(u)]
      BY <1>1, <2>2, KeyFacts
    <3> QED
      BY <2>7, <3>1, OneToken
  <2>10. RegisteredOwner' = RegisteredOwner
    <3>1. \A u \in Token \ {t} : world'[NftKey(u)] = world[NftKey(u)]
      BY <1>1, <2>2, KeyFacts
    <3> QED
      BY <2>7, <2>8, <3>1, OneToken
  <2>11. \/ tx.creator = RegisteredOwner[t]
         \/ <<RegisteredOwner[t], tx.creator>> \in RegisteredOperators
    BY <1>1, <1>2, <2>1, <2>4, <2>8, RegistryFacts DEF MayApprove
  <2>12. Registry!Approve(tx.creator, operator, t)
    BY <2>3, <2>4, <2>8, <2>9, <2>10, <2>11
       DEF Registry!Approve, Registry!Exists, Registry!Manages
  <2> QED
    BY <1>1, <2>12 DEF Registry!Next
<1>5. CASE Transferring(tx)
  <2>1. PICK t \in Token, nft \in Nft, to \in Account :
          LET key == ApprovalKey(nft.owner, tx.creator) IN
          /\ Found(tx, NftKey(t), nft)
          /\ key \in DOMAIN tx.reads
          /\ MayTransfer(nft, tx.reads[key].value, tx.creator, nft.owner)
          /\ tx.writes = TransferWrites(nft.owner, to, t)
    BY <1>5 DEF Transferring
  <2>2. W = {NftKey(t), BalanceKey(nft.owner, t), BalanceKey(to, t)}
    BY <2>1 DEF TransferWrites
  <2>3. UNCHANGED RegisteredOperators
    <3>1. \A o \in Account, c \in Client :
             ApprovalKey(o, c) \in Key /\ ApprovalKey(o, c) \notin W
      BY <2>2, KeyFacts
    <3> QED
      BY <1>1, <3>1, OperatorsKept
  <2>4. world[NftKey(t)] = nft /\ nft # Absent /\ nft.owner \in Account /\ nft.owner # NoOne
    BY <1>2, <2>1, NftFacts DEF Found
  <2>5. world'[NftKey(t)] = [owner |-> to, approved |-> NoOne]
    BY <1>1, <2>1, <2>2, KeyFacts DEF TransferWrites
  <2>6. world'[NftKey(t)] \in Nft
    BY <2>5 DEF Nft
  <2>7. RegisteredOwner'[t] = to /\ RegisteredApproved'[t] = NoOne
    BY <2>5, <2>6, RegistryFactsNext, NftFacts
  <2>8. RegisteredOwner[t] = nft.owner /\ RegisteredApproved[t] = nft.approved
    BY <2>4, RegistryFacts
  <2>9. /\ RegisteredOwner' = [RegisteredOwner EXCEPT ![t] = to]
        /\ RegisteredApproved' = [RegisteredApproved EXCEPT ![t] = NoOne]
    <3>1. \A u \in Token \ {t} : world'[NftKey(u)] = world[NftKey(u)]
      BY <1>1, <2>2, KeyFacts
    <3> QED
      BY <2>7, <3>1, OneToken
  <2>10. \/ tx.creator = RegisteredOwner[t]
         \/ <<RegisteredOwner[t], tx.creator>> \in RegisteredOperators
         \/ tx.creator = RegisteredApproved[t]
    BY <1>1, <1>2, <2>1, <2>4, <2>8, RegistryFacts DEF MayTransfer
  <2>11. Registry!Transfer(tx.creator, to, t)
    BY <2>3, <2>4, <2>8, <2>9, <2>10
       DEF Registry!Transfer, Registry!Exists, Registry!Manages
  <2> QED
    BY <1>1, <2>11 DEF Registry!Next, Registry!Account, Account
<1>6. CASE Burning(tx)
  <2>1. PICK t \in Token, nft \in Nft : /\ Found(tx, NftKey(t), nft)
                                        /\ nft.owner = tx.creator
                                        /\ tx.writes = BurnWrites(tx.creator, t)
    BY <1>6 DEF Burning, MayBurn
  <2>2. W = {NftKey(t), BalanceKey(tx.creator, t)}
    BY <2>1 DEF BurnWrites
  <2>3. UNCHANGED RegisteredOperators
    <3>1. \A o \in Account, c \in Client :
             ApprovalKey(o, c) \in Key /\ ApprovalKey(o, c) \notin W
      <4>1. TAKE o \in Account, c \in Client
      <4>2. ApprovalKey(o, c) # NftKey(t) /\ ApprovalKey(o, c) # BalanceKey(tx.creator, t)
        BY KeyFacts
      <4>3. ApprovalKey(o, c) \in Key
        BY KeyFacts
      <4> QED
        BY <2>2, <4>2, <4>3
    <3> QED
      BY <1>1, <3>1, OperatorsKept
  <2>4. world[NftKey(t)] = nft /\ nft # Absent /\ nft.owner # NoOne
    BY <1>2, <2>1, NftFacts DEF Found
  <2>5. world'[NftKey(t)] = Absent
    BY <1>1, <2>1, <2>2, KeyFacts DEF BurnWrites
  <2>6. RegisteredOwner'[t] = NoOne /\ RegisteredApproved'[t] = NoOne
    BY <2>5, RegistryFactsNext
  <2>7. RegisteredOwner[t] = tx.creator
    BY <2>1, <2>4, RegistryFacts
  <2>8. /\ RegisteredOwner' = [RegisteredOwner EXCEPT ![t] = NoOne]
        /\ RegisteredApproved' = [RegisteredApproved EXCEPT ![t] = NoOne]
    <3>1. \A u \in Token \ {t} : world'[NftKey(u)] = world[NftKey(u)]
      BY <1>1, <2>2, KeyFacts
    <3> QED
      BY <2>6, <3>1, OneToken
  <2>9. Registry!Burn(tx.creator, t)
    BY <2>1, <2>3, <2>4, <2>7, <2>8 DEF Registry!Burn, Registry!Exists
  <2> QED
    BY <1>1, <2>9 DEF Registry!Next
<1>7. CASE SettingApproval(tx)
  <2>1. PICK operator \in Client, approved \in BOOLEAN :
             tx.writes = Put(ApprovalKey(tx.creator, operator), approved)
    BY <1>7 DEF SettingApproval
  <2>2. /\ W = {ApprovalKey(tx.creator, operator)}
        /\ tx.writes[ApprovalKey(tx.creator, operator)] = approved
    BY <2>1 DEF Put
  <2>3. \A u \in Token : world'[NftKey(u)] = world[NftKey(u)]
    <3>1. \A u \in Token : NftKey(u) \in Key
      BY KeyFacts
    <3>2. \A u \in Token : NftKey(u) # ApprovalKey(tx.creator, operator)
      BY KeyFacts
    <3> QED
      BY <1>1, <2>2, <3>1, <3>2
  <2>4. UNCHANGED <<RegisteredOwner, RegisteredApproved>>
    BY <2>3 DEF RegisteredOwner, RegisteredApproved, Minted, OwnerOf, GetApproved
  <2>5. tx.creator \in Account
    BY <1>1 DEF Account
  <2>6. \A o \in Account, c \in Client :
          world'[ApprovalKey(o, c)] = IF o = tx.creator /\ c = operator
                                      THEN approved ELSE world[ApprovalKey(o, c)]
    BY <1>1, <2>2, KeyFacts
  <2>7. RegisteredOperators' = IF approved
                               THEN RegisteredOperators \union {<<tx.creator, operator>>}
                               ELSE RegisteredOperators \ {<<tx.creator, operator>>}
    <3>1. RegisteredOperators \in SUBSET (Account \X Client)
          /\ RegisteredOperators' \in SUBSET (Account \X Client)
      BY DEF RegisteredOperators
    <3>2. \A o \in Account, c \in Client :
            <<o, c>> \in RegisteredOperators' <=>
              IF o = tx.creator /\ c = operator THEN approved
              ELSE <<o, c>> \in RegisteredOperators
      <4>1. TAKE o \in Account, c \in Client
      <4>2. CASE o = tx.creator /\ c = operator
        BY <2>6, <4>2, RegistryFactsNext DEF Grants
      <4>3. CASE ~(o = tx.creator /\ c = operator)
        BY <2>6, <4>3, RegistryFacts, RegistryFactsNext
      <4> QED
        BY <4>2, <4>3
    <3>3. CASE approved
      BY <2>5, <3>1, <3>2, <3>3
    <3>4. CASE ~approved
      BY <2>5, <3>1, <3>2, <3>4
    <3> QED
      BY <3>3, <3>4
  <2>8. Registry!SetApprovalForAll(tx.creator, operator, approved)
    BY <2>4, <2>7 DEF Registry!SetApprovalForAll
  <2> QED
    BY <1>1, <2>8 DEF Registry!Next
<1>8. CASE SettingOption(tx)
  <2>1. W = OptionKeys
    BY <1>8 DEF SettingOption
  <2>2. UNCHANGED RegisteredOperators
    <3>1. \A o \in Account, c \in Client :
             ApprovalKey(o, c) \in Key /\ ApprovalKey(o, c) \notin W
      BY <2>1, KeyFacts
    <3> QED
      BY <1>1, <3>1, OperatorsKept
  <2>3. \A u \in Token : world'[NftKey(u)] = world[NftKey(u)]
    BY <1>1, <2>1, KeyFacts
  <2>4. UNCHANGED <<RegisteredOwner, RegisteredApproved>>
    BY <2>3 DEF RegisteredOwner, RegisteredApproved, Minted, OwnerOf, GetApproved
  <2> QED
    BY <2>2, <2>4 DEF Registry!vars
<1> QED
  BY <1>1, <1>3, <1>4, <1>5, <1>6, <1>7, <1>8 DEF Simulated

\* Only a commit changes the world state.
LEMMA OnlyCommitWrites == Next => (\E id \in TxId : Commit(id)) \/ UNCHANGED world
<1>1. ASSUME NEW id \in TxId, Simulate(id)
      PROVE  UNCHANGED world
  <2>1. \A creator, K, writes, event :
           Endorse(id, creator, K, writes, event) => UNCHANGED world
    BY DEF Endorse
  <2>2. ASSUME NEW sender \in Client, NEW t \in Token,
               MintWithTokenURI(id, sender, t) \/ Burn(id, sender, t)
        PROVE  UNCHANGED world
    BY <2>1, <2>2 DEF MintWithTokenURI, Burn
  <2>3. ASSUME NEW sender \in Client, NEW t \in Token,
               NEW operator \in Client \union {NoOne}, Approve(id, sender, operator, t)
        PROVE  UNCHANGED world
    BY <2>1, <2>3 DEF Approve
  <2>4. ASSUME NEW sender \in Client, NEW t \in Token,
               NEW from \in Account, NEW to \in Account,
               TransferFrom(id, sender, from, to, t)
        PROVE  UNCHANGED world
    BY <2>1, <2>4 DEF TransferFrom
  <2>5. ASSUME NEW sender \in Client, NEW operator \in Client, NEW approved \in BOOLEAN,
               SetApprovalForAll(id, sender, operator, approved)
        PROVE  UNCHANGED world
    BY <2>1, <2>5 DEF SetApprovalForAll
  <2>6. ASSUME NEW sender \in Client, NEW name \in Option, NEW symbol \in Option,
               SetOption(id, sender, name, symbol)
        PROVE  UNCHANGED world
    BY <2>1, <2>6 DEF SetOption
  <2> QED
    BY <1>1, <2>2, <2>3, <2>4, <2>5, <2>6 DEF Simulate
<1>2. ASSUME NEW id \in TxId, MarkInvalid(id) \/ Lose(id)
      PROVE  UNCHANGED world
  BY <1>2 DEF MarkInvalid, Lose
<1> QED
  BY <1>1, <1>2 DEF Next

\* The contract on the ledger, with its transactions in flight, implements the
\* registry whose functions happen at once.
THEOREM Serialisability == Spec => Serialisable
<1>1. Init => Registry!Init
  <2> SUFFICES ASSUME Init PROVE Registry!Init
    OBVIOUS
  <2>1. \A k \in Key : world[k] = Absent
    BY DEF Init, LedgerInit
  <2>2. \A t \in Token : t \notin Minted
    BY <2>1, KeyFacts DEF Minted
  <2>3. \A o \in Account, c \in Client : ~IsApprovedForAll(o, c)
    BY <2>1, KeyFacts, ConstantAssumption DEF IsApprovedForAll, Grants
  <2> QED
    BY <2>2, <2>3 DEF Registry!Init, RegisteredOwner, RegisteredApproved,
                      RegisteredOperators
<1>2. IInv /\ [Next]_vars => [Registry!Next]_Registry!vars
  <2> SUFFICES ASSUME IInv, [Next]_vars
               PROVE  Registry!Next \/ UNCHANGED Registry!vars
    OBVIOUS
  <2>1. ASSUME NEW id \in TxId, Commit(id)
        PROVE  Registry!Next \/ UNCHANGED Registry!vars
    BY <2>1, CommitRefines DEF Commit
  <2>2. CASE UNCHANGED world
    BY <2>2 DEF Registry!vars, RegisteredOwner, RegisteredApproved,
                RegisteredOperators, Minted, OwnerOf, GetApproved, IsApprovedForAll
  <2>3. (\E id \in TxId : Commit(id)) \/ UNCHANGED world
    BY OnlyCommitWrites DEF vars
  <2> QED
    BY <2>1, <2>2, <2>3
<1> QED
  BY <1>1, <1>2, Inductive, PTL DEF Spec, Serialisable, Registry!Spec

-----------------------------------------------------------------------------
(* Authority at the moment of the commit.                                  *)

\* The step form of NoStaleAuthority, for the transaction that commits.
LEMMA CommitAuthority ==
    ASSUME IInv, NEW id \in TxId, CommitValid(id), NEW t \in Minted
    PROVE  /\ world'[NftKey(t)] = Absent => pool[id].creator = OwnerOf(t)
           /\ world'[NftKey(t)] # Absent /\ world'[NftKey(t)] # world[NftKey(t)] =>
                 \/ Authorised(t, pool[id].creator)
                 \/ /\ pool[id].creator = GetApproved(t)
                    /\ world'[NftKey(t)].approved = NoOne
<1> DEFINE tx == pool[id]
           W == DOMAIN tx.writes
<1>1. /\ id \in InFlight /\ Tx(tx) /\ Simulated(tx) /\ tx.creator \in Client
      /\ \A k \in Key : world'[k] = IF k \in W THEN tx.writes[k] ELSE world[k]
      /\ \A k \in Key : k \notin W => world'[k] = world[k]
  BY CommitFacts DEF Tx
<1>2. \A k \in DOMAIN tx.reads : tx.reads[k].value = world[k]
  BY <1>1, ValidReads DEF CommitValid
<1>3. t \in Token /\ world[NftKey(t)] # Absent /\ NftKey(t) \in Key
  BY KeyFacts DEF Minted
<1>4. CASE NftKey(t) \notin W
  BY <1>1, <1>3, <1>4
<1>5. CASE Minting(tx)
  <2>1. PICK u \in Token : /\ Found(tx, NftKey(u), Absent)
                           /\ tx.writes = MintWrites(tx.creator, u)
    BY <1>5 DEF Minting
  <2>2. u # t
    BY <1>2, <1>3, <2>1 DEF Found
  <2>3. W = {NftKey(u), BalanceKey(tx.creator, u)}
    BY <2>1 DEF MintWrites
  <2>4. NftKey(t) # NftKey(u) /\ NftKey(t) # BalanceKey(tx.creator, u)
    BY <2>2, KeyFacts
  <2> QED
    BY <1>4, <2>3, <2>4
<1>6. CASE Approving(tx)
  <2>1. PICK u \in Token, nft \in Nft, operator \in Client \union {NoOne} :
          LET key == ApprovalKey(nft.owner, tx.creator) IN
          /\ Found(tx, NftKey(u), nft)
          /\ key \in DOMAIN tx.reads
          /\ MayApprove(nft, tx.reads[key].value, tx.creator)
          /\ tx.writes = ApproveWrites(nft, operator, u)
    BY <1>6 DEF Approving
  <2>2. CASE u = t
    <3>1. world[NftKey(t)] = nft
      BY <1>2, <2>1, <2>2 DEF Found
    <3>2. Authorised(t, tx.creator)
      BY <1>2, <2>1, <3>1 DEF MayApprove, Authorised, OwnerOf, IsApprovedForAll
    <3>3. world'[NftKey(t)] = [owner |-> nft.owner, approved |-> operator]
      BY <1>1, <1>3, <2>1, <2>2, KeyFacts DEF ApproveWrites, Put
    <3>4. world'[NftKey(t)] \in Nft
      BY <3>3 DEF Nft
    <3> QED
      BY <3>2, <3>4, NftFacts
  <2>3. CASE u # t
    BY <1>4, <2>1, <2>3, KeyFacts DEF ApproveWrites, Put
  <2> QED
    BY <2>2, <2>3
<1>7. CASE Transferring(tx)
  <2>1. PICK u \in Token, nft \in Nft, to \in Account :
          LET key == ApprovalKey(nft.owner, tx.creator) IN
          /\ Found(tx, NftKey(u), nft)
          /\ key \in DOMAIN tx.reads
          /\ MayTransfer(nft, tx.reads[key].value, tx.creator, nft.owner)
          /\ tx.writes = TransferWrites(nft.owner, to, u)
    BY <1>7 DEF Transferring
  <2>2. CASE u = t
    <3>1. world[NftKey(t)] = nft
      BY <1>2, <2>1, <2>2 DEF Found
    <3>2. Authorised(t, tx.creator) \/ tx.creator = GetApproved(t)
      BY <1>2, <2>1, <3>1
         DEF MayTransfer, Authorised, OwnerOf, IsApprovedForAll, GetApproved
    <3>3. world'[NftKey(t)] = [owner |-> to, approved |-> NoOne]
      BY <1>1, <1>3, <2>1, <2>2, KeyFacts DEF TransferWrites
    <3>4. world'[NftKey(t)] \in Nft
      BY <3>3 DEF Nft
    <3> QED
      BY <3>2, <3>3, <3>4, NftFacts
  <2>3. CASE u # t
    <3>1. W = {NftKey(u), BalanceKey(nft.owner, u), BalanceKey(to, u)}
      BY <2>1 DEF TransferWrites
    <3>2. NftKey(t) \notin W
      BY <2>3, <3>1, KeyFacts
    <3> QED
      BY <1>4, <3>2
  <2> QED
    BY <2>2, <2>3
<1>8. CASE Burning(tx)
  <2>1. PICK u \in Token, nft \in Nft : /\ Found(tx, NftKey(u), nft)
                                        /\ nft.owner = tx.creator
                                        /\ tx.writes = BurnWrites(tx.creator, u)
    BY <1>8 DEF Burning, MayBurn
  <2>2. CASE u = t
    <3>1. tx.creator = OwnerOf(t)
      BY <1>2, <2>1, <2>2 DEF Found, OwnerOf
    <3> QED
      BY <3>1 DEF Authorised
  <2>3. CASE u # t
    <3>1. W = {NftKey(u), BalanceKey(tx.creator, u)}
      BY <2>1 DEF BurnWrites
    <3>2. NftKey(t) \notin W
      BY <2>3, <3>1, KeyFacts
    <3> QED
      BY <1>4, <3>2
  <2> QED
    BY <2>2, <2>3
<1>9. CASE SettingApproval(tx)
  <2>1. PICK operator \in Client : W = {ApprovalKey(tx.creator, operator)}
    BY <1>9 DEF SettingApproval, Put
  <2>2. NftKey(t) # ApprovalKey(tx.creator, operator)
    BY KeyFacts
  <2> QED
    BY <1>4, <2>1, <2>2
<1>10. CASE SettingOption(tx)
  <2>1. W = OptionKeys
    BY <1>10 DEF SettingOption
  <2> QED
    BY <1>4, <2>1, KeyFacts
<1> QED
  BY <1>1, <1>5, <1>6, <1>7, <1>8, <1>9, <1>10 DEF Simulated

\* Nobody acts on a token with an authority that was withdrawn, or that ended
\* with a change of owner, before the transaction was committed.
THEOREM Authority == Spec => NoStaleAuthority
<1> DEFINE Step == \A id \in InFlight, t \in Minted :
         pool'[id] = Idle =>
           /\ world'[NftKey(t)] = Absent => pool[id].creator = OwnerOf(t)
           /\ world'[NftKey(t)] # Absent /\ world'[NftKey(t)] # world[NftKey(t)] =>
                 \/ Authorised(t, pool[id].creator)
                 \/ /\ pool[id].creator = GetApproved(t)
                    /\ world'[NftKey(t)].approved = NoOne
<1>1. IInv /\ [Next]_vars => [Step]_vars
  <2> SUFFICES ASSUME IInv, Next PROVE Step
    OBVIOUS
  <2>1. ASSUME NEW i \in TxId, Commit(i)
        PROVE  Step
    <3>1. CommitValid(i)
      BY <2>1 DEF Commit
    <3>2. \A id \in InFlight : pool'[id] = Idle => id = i
      BY <3>1 DEF CommitValid, InFlight, IInv, TypeOK
    <3> QED
      BY <3>1, <3>2, CommitAuthority
  <2>2. CASE UNCHANGED world
    BY <2>2 DEF Minted
  <2>3. (\E id \in TxId : Commit(id)) \/ UNCHANGED world
    BY OnlyCommitWrites
  <2> QED
    BY <2>1, <2>2, <2>3
<1> QED
  BY <1>1, Inductive, PTL DEF Spec, NoStaleAuthority

-----------------------------------------------------------------------------
(* The events.                                                             *)

\* The event of a committed transaction tells a listener what it changed.
LEMMA CommitObserved ==
    ASSUME IInv, ObserverAgrees, NEW id \in TxId, Commit(id)
    PROVE  ObserverAgrees'
<1> DEFINE tx == pool[id]
           W == DOMAIN tx.writes
<1>1. /\ id \in InFlight /\ Tx(tx) /\ Simulated(tx) /\ tx.creator \in Client
      /\ \A k \in Key : world'[k] = IF k \in W THEN tx.writes[k] ELSE world[k]
      /\ \A k \in Key : k \notin W => world'[k] = world[k]
  BY CommitFacts DEF Tx, Commit
<1>2. \A k \in DOMAIN tx.reads : tx.reads[k].value = world[k]
  BY <1>1, ValidReads DEF CommitValid, Commit
<1>3. Observe(tx.event) /\ seenOwner \in [Token -> Account] /\ Zero \notin Client
  BY ConstantAssumption DEF Commit, IInv, TypeOK
<1>4. SUFFICES ASSUME NEW c \in Client
               PROVE  /\ \A u \in Token : seenOwner'[u] = c <=>
                            world'[NftKey(u)] # Absent /\ world'[NftKey(u)].owner = c
                      /\ \A op \in Client :
                            <<c, op>> \in seenOperator' <=> Grants(world'[ApprovalKey(c, op)])
  BY DEF ObserverAgrees, Minted, OwnerOf, IsApprovedForAll
<1>5. /\ c \in Account
      /\ \A u \in Token : seenOwner[u] = c <=>
            world[NftKey(u)] # Absent /\ world[NftKey(u)].owner = c
      /\ \A op \in Client : <<c, op>> \in seenOperator <=> Grants(world[ApprovalKey(c, op)])
  BY DEF ObserverAgrees, Minted, OwnerOf, IsApprovedForAll, Account
\* The approvals are seen unless a Transfer event or none comes with one.
<1>6. ASSUME tx.event.name # "ApprovalForAll",
             \A op \in Client : ApprovalKey(c, op) \notin W
      PROVE  \A op \in Client :
                <<c, op>> \in seenOperator' <=> Grants(world'[ApprovalKey(c, op)])
  <2>1. \A op \in Client : world'[ApprovalKey(c, op)] = world[ApprovalKey(c, op)]
    BY <1>1, <1>5, <1>6, KeyFacts
  <2>2. seenOperator' = seenOperator
    BY <1>3, <1>6 DEF Observe
  <2> QED
    BY <1>5, <2>1, <2>2
\* The owners are seen if the one record that changed is the event's token.
<1>7. ASSUME NEW t \in Token, NEW to \in Account,
             tx.event.name = "Transfer", tx.event.token = t, tx.event.to = to,
             \A u \in Token \ {t} : NftKey(u) \notin W,
             to = c <=> world'[NftKey(t)] # Absent /\ world'[NftKey(t)].owner = c
      PROVE  \A u \in Token : seenOwner'[u] = c <=>
                world'[NftKey(u)] # Absent /\ world'[NftKey(u)].owner = c
  <2>1. seenOwner' = [seenOwner EXCEPT ![t] = to]
    BY <1>3, <1>7 DEF Observe
  <2>2. \A u \in Token \ {t} : world'[NftKey(u)] = world[NftKey(u)]
    BY <1>1, <1>7, KeyFacts
  <2> QED
    BY <1>3, <1>5, <1>7, <2>1, <2>2
<1>8. ASSUME tx.event.name # "Transfer",
             \A u \in Token : NftKey(u) \in W =>
                /\ world'[NftKey(u)] # Absent /\ world[NftKey(u)] # Absent
                /\ world'[NftKey(u)].owner = world[NftKey(u)].owner
      PROVE  \A u \in Token : seenOwner'[u] = c <=>
                world'[NftKey(u)] # Absent /\ world'[NftKey(u)].owner = c
  <2>1. seenOwner' = seenOwner
    BY <1>3, <1>8 DEF Observe
  <2> QED
    BY <1>1, <1>5, <1>8, <2>1, KeyFacts
<1>9. CASE Minting(tx)
  <2>1. PICK t \in Token : /\ tx.writes = MintWrites(tx.creator, t)
                           /\ tx.event = TransferEvent(Zero, tx.creator, t)
    BY <1>9 DEF Minting
  <2>2. W = {NftKey(t), BalanceKey(tx.creator, t)}
    BY <2>1 DEF MintWrites
  <2>3. world'[NftKey(t)] = [owner |-> tx.creator, approved |-> NoOne]
    BY <1>1, <2>1, <2>2, KeyFacts DEF MintWrites
  <2>4. world'[NftKey(t)] \in Nft /\ tx.creator \in Account
    BY <1>1, <2>3 DEF Nft, Account
  <2>5. /\ tx.event.name = "Transfer" /\ tx.event.name # "ApprovalForAll"
        /\ tx.event.token = t /\ tx.event.to = tx.creator
    BY <2>1 DEF TransferEvent
  <2>6. \A op \in Client : ApprovalKey(c, op) \notin W
    BY <2>2, KeyFacts
  <2>7. \A u \in Token \ {t} : NftKey(u) \notin W
    BY <2>2, KeyFacts
  <2>8. world'[NftKey(t)] # Absent /\ world'[NftKey(t)].owner = tx.creator
    BY <2>3, <2>4, NftFacts
  <2> QED
    BY <1>6, <1>7, <2>4, <2>5, <2>6, <2>7, <2>8
<1>10. CASE Approving(tx)
  <2>1. PICK t \in Token, nft \in Nft, operator \in Client \union {NoOne} :
          /\ Found(tx, NftKey(t), nft)
          /\ tx.writes = ApproveWrites(nft, operator, t)
          /\ tx.event = NoEvent
    BY <1>10 DEF Approving
  <2>2. W = {NftKey(t)}
    BY <2>1 DEF ApproveWrites, Put
  <2>3. world[NftKey(t)] = nft
    BY <1>2, <2>1 DEF Found
  <2>4. world'[NftKey(t)] = [owner |-> nft.owner, approved |-> operator]
    BY <1>1, <2>1, <2>2, KeyFacts DEF ApproveWrites, Put
  <2>5. world'[NftKey(t)] \in Nft
    BY <2>4 DEF Nft
  <2>6. \A u \in Token : NftKey(u) \in W =>
           /\ world'[NftKey(u)] # Absent /\ world[NftKey(u)] # Absent
           /\ world'[NftKey(u)].owner = world[NftKey(u)].owner
    BY <2>2, <2>3, <2>4, <2>5, KeyFacts, NftFacts
  <2>7. \A op \in Client : ApprovalKey(c, op) \notin W
    BY <2>2, KeyFacts
  <2>8. tx.event.name # "Transfer" /\ tx.event.name # "ApprovalForAll"
    BY <2>1 DEF NoEvent
  <2> QED
    BY <1>6, <1>8, <2>6, <2>7, <2>8
<1>11. CASE Transferring(tx)
  <2>1. PICK t \in Token, nft \in Nft, to \in Account :
          /\ tx.writes = TransferWrites(nft.owner, to, t)
          /\ tx.event = TransferEvent(nft.owner, to, t)
    BY <1>11 DEF Transferring
  <2>2. W = {NftKey(t), BalanceKey(nft.owner, t), BalanceKey(to, t)}
    BY <2>1 DEF TransferWrites
  <2>3. world'[NftKey(t)] = [owner |-> to, approved |-> NoOne]
    BY <1>1, <2>1, <2>2, KeyFacts DEF TransferWrites
  <2>4. world'[NftKey(t)] \in Nft
    BY <2>3 DEF Nft
  <2>5. /\ tx.event.name = "Transfer" /\ tx.event.name # "ApprovalForAll"
        /\ tx.event.token = t /\ tx.event.to = to
    BY <2>1 DEF TransferEvent
  <2>6. \A op \in Client : ApprovalKey(c, op) \notin W
    <3>1. ASSUME NEW op \in Client
          PROVE  /\ ApprovalKey(c, op) # NftKey(t)
                 /\ ApprovalKey(c, op) # BalanceKey(nft.owner, t)
                 /\ ApprovalKey(c, op) # BalanceKey(to, t)
      BY KeyFacts
    <3> QED
      BY <2>2, <3>1
  <2>7. \A u \in Token \ {t} : NftKey(u) \notin W
    BY <2>2, KeyFacts
  <2>8. world'[NftKey(t)] # Absent /\ world'[NftKey(t)].owner = to
    BY <2>3, <2>4, NftFacts
  <2> QED
    BY <1>6, <1>7, <2>5, <2>6, <2>7, <2>8
<1>12. CASE Burning(tx)
  <2>1. PICK t \in Token : /\ tx.writes = BurnWrites(tx.creator, t)
                           /\ tx.event = TransferEvent(tx.creator, Zero, t)
    BY <1>12 DEF Burning
  <2>2. W = {NftKey(t), BalanceKey(tx.creator, t)}
    BY <2>1 DEF BurnWrites
  <2>3. world'[NftKey(t)] = Absent
    BY <1>1, <2>1, <2>2, KeyFacts DEF BurnWrites
  <2>4. /\ tx.event.name = "Transfer" /\ tx.event.name # "ApprovalForAll"
        /\ tx.event.token = t /\ tx.event.to = Zero /\ Zero \in Account
    BY <2>1 DEF TransferEvent, Account
  <2>5. \A op \in Client : ApprovalKey(c, op) \notin W
    BY <2>2, KeyFacts
  <2>6. \A u \in Token \ {t} : NftKey(u) \notin W
    BY <2>2, KeyFacts
  <2> QED
    BY <1>3, <1>6, <1>7, <2>3, <2>4, <2>5, <2>6
<1>13. CASE SettingApproval(tx)
  <2>1. PICK operator \in Client, approved \in BOOLEAN :
             /\ tx.writes = Put(ApprovalKey(tx.creator, operator), approved)
             /\ tx.event = ApprovalForAllEvent(tx.creator, operator, approved)
    BY <1>13 DEF SettingApproval
  <2>2. /\ W = {ApprovalKey(tx.creator, operator)}
        /\ tx.writes[ApprovalKey(tx.creator, operator)] = approved
    BY <2>1 DEF Put
  <2>3. \A u \in Token : NftKey(u) \notin W
    BY <2>2, KeyFacts
  <2>4. tx.event.name # "Transfer"
    BY <2>1 DEF ApprovalForAllEvent
  <2>5. \A op \in Client :
          world'[ApprovalKey(c, op)] = IF c = tx.creator /\ op = operator
                                       THEN approved ELSE world[ApprovalKey(c, op)]
    BY <1>1, <1>5, <2>2, KeyFacts
  <2>6. seenOperator' = IF approved THEN seenOperator \union {<<tx.creator, operator>>}
                        ELSE seenOperator \ {<<tx.creator, operator>>}
    BY <1>3, <2>1 DEF Observe, ApprovalForAllEvent
  <2>7. ASSUME NEW op \in Client
        PROVE  <<c, op>> \in seenOperator' <=> Grants(world'[ApprovalKey(c, op)])
    <3>1. CASE c = tx.creator /\ op = operator
      BY <2>5, <2>6, <3>1 DEF Grants
    <3>2. CASE ~(c = tx.creator /\ op = operator)
      BY <1>5, <2>5, <2>6, <3>2
    <3> QED
      BY <3>1, <3>2
  <2> QED
    BY <1>8, <2>3, <2>4, <2>7
<1>14. CASE SettingOption(tx)
  <2>1. W = OptionKeys /\ tx.event = NoEvent
    BY <1>14 DEF SettingOption
  <2>2. \A u \in Token : NftKey(u) \notin W
    BY <2>1, KeyFacts
  <2>3. \A op \in Client : ApprovalKey(c, op) \notin W
    BY <2>1, KeyFacts
  <2>4. tx.event.name # "Transfer" /\ tx.event.name # "ApprovalForAll"
    BY <2>1 DEF NoEvent
  <2> QED
    BY <1>6, <1>8, <2>2, <2>3, <2>4
<1> QED
  BY <1>1, <1>9, <1>10, <1>11, <1>12, <1>13, <1>14 DEF Simulated

\* A listener that applies the events in commit order always knows the owner of
\* every token and the operators of every client.
THEOREM EventsTellOwnership == Spec => []ObserverAgrees
<1>1. Init => ObserverAgrees
  <2> SUFFICES ASSUME Init PROVE ObserverAgrees
    OBVIOUS
  <2>1. \A k \in Key : world[k] = Absent
    BY DEF Init, LedgerInit
  <2>2. \A t \in Token : t \notin Minted
    BY <2>1, KeyFacts DEF Minted
  <2>3. \A o \in Account, c \in Client : ~IsApprovedForAll(o, c)
    BY <2>1, KeyFacts, ConstantAssumption DEF IsApprovedForAll, Grants
  <2> QED
    BY <2>2, <2>3, ConstantAssumption DEF Init, ObserverAgrees, Account
<1>2. IInv /\ ObserverAgrees /\ [Next]_vars => ObserverAgrees'
  <2> SUFFICES ASSUME IInv, ObserverAgrees, [Next]_vars PROVE ObserverAgrees'
    OBVIOUS
  <2>1. CASE UNCHANGED <<world, seenOwner, seenOperator>>
    BY <2>1 DEF ObserverAgrees, Minted, OwnerOf, IsApprovedForAll
  <2>2. (\E id \in TxId : Commit(id)) \/ UNCHANGED <<world, seenOwner, seenOperator>>
    BY OnlyCommitWrites DEF Next, vars, observer, MarkInvalid, Lose
  <2> QED
    BY <2>1, <2>2, CommitObserved
<1> QED
  BY <1>1, <1>2, Inductive, PTL DEF Spec
==============================================================================
