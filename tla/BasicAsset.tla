----------------------------- MODULE BasicAsset -----------------------------
(***************************************************************************)
(* The example contract in Go, chaincode/chaincode-external: an asset per  *)
(* id with an owner and a buyer.                                           *)
(***************************************************************************)
EXTENDS FabricLedger

CONSTANTS
    Client,     \* the identities that submit transactions
    NoOne,      \* "", an empty name
    Given,      \* the names given as buyer and new owner
    AssetId,
    Invoice1    \* "invoice1", the id InitLedger writes

AssetKey(i) == <<"basic", i>>
AssetKeys == {AssetKey(i) : i \in AssetId}

Asset == [owner : Given \union Client \union {NoOne},
          buyer : Given \union Client \union {NoOne}]

PutAsset(i, asset) == [k \in {AssetKey(i)} |-> asset]

\* The call a transaction answers, as in InvoiceNet.
Invocation(function, args) == [function |-> function, args |-> args]

-----------------------------------------------------------------------------

AssetExists(i) == world[AssetKey(i)] # Absent

\* ReadAsset answers the owner and the buyer only.
MayReadAsset(c, i) ==
    AssetExists(i) /\ c \in {world[AssetKey(i)].owner, world[AssetKey(i)].buyer}

\* A blind write, by anyone, who becomes owner and buyer.
InitLedger(id, sender) ==
    Endorse(id, sender, {}, PutAsset(Invoice1, [owner |-> sender, buyer |-> sender]),
            Invocation("Initialise", <<>>))

CreateAsset(id, sender, i, buyer) ==
    /\ ~AssetExists(i)
    /\ Endorse(id, sender, {AssetKey(i)}, PutAsset(i, [owner |-> sender, buyer |-> buyer]),
               Invocation("Create", <<i, buyer, FALSE, NoOne>>))

\* Of its arguments only the id is stored: the asset has no owner and no buyer
\* from then on, and can be deleted but not read or transferred.
UpdateAsset(id, sender, i) ==
    /\ AssetExists(i)
    /\ Endorse(id, sender, {AssetKey(i)}, PutAsset(i, [owner |-> NoOne, buyer |-> NoOne]),
               Invocation("Replace", <<i, NoOne, {}, NoOne>>))

\* Mutant: it puts an empty value and leaves the key.
DeleteAssetEmptied(id, sender, i) ==
    /\ AssetExists(i)
    /\ Endorse(id, sender, {AssetKey(i)}, PutAsset(i, NoOne), Invocation("Delete", <<i>>))

DeleteAsset(id, sender, i) ==
    /\ AssetExists(i)
    /\ Endorse(id, sender, {AssetKey(i)}, PutAsset(i, Absent), Invocation("Delete", <<i>>))

\* Mutant: it reads through a cache.
TransferAssetCached(id, sender, i, newOwner) ==
    /\ MayReadAsset(sender, i)
    /\ sender = world[AssetKey(i)].owner
    /\ Endorse(id, sender, {}, PutAsset(i, [world[AssetKey(i)] EXCEPT !.owner = newOwner]),
               Invocation("Transfer", <<i, newOwner>>))

TransferAsset(id, sender, i, newOwner) ==
    /\ MayReadAsset(sender, i)
    /\ sender = world[AssetKey(i)].owner
    /\ Endorse(id, sender, {AssetKey(i)},
               PutAsset(i, [world[AssetKey(i)] EXCEPT !.owner = newOwner]),
               Invocation("Transfer", <<i, newOwner>>))

SimulateAsset(id, sender) ==
    \/ InitLedger(id, sender)
    \/ \E i \in AssetId :
          \/ \E buyer \in Given : CreateAsset(id, sender, i, buyer)
          \/ UpdateAsset(id, sender, i)
          \/ DeleteAsset(id, sender, i)
          \/ \E newOwner \in Given : TransferAsset(id, sender, i, newOwner)

-----------------------------------------------------------------------------

\* The registry without marks, payers and roles that a world state stands for.
AsInvoice(asset) == [owner |-> asset.owner, buyer |-> asset.buyer, marks |-> {}, payer |-> NoOne]

CallOf(tx) ==
    [caller |-> tx.creator, function |-> tx.event.function, args |-> tx.event.args]
Calls == [id \in InFlight |-> CallOf(pool[id])]

Registry == INSTANCE InvoiceRegistry WITH
    Request <- TxId,
    calls <- Calls,
    served <- height,
    Id <- AssetId,
    NoInvoice <- Absent,
    First <- Invoice1,
    Initial <- [c \in Client |-> AsInvoice([owner |-> c, buyer |-> c])],
    Paid <- "claimPaid",
    RoleList <- [n \in {} |-> Invoice1],
    invoice <- [i \in AssetId |-> IF AssetExists(i) THEN AsInvoice(world[AssetKey(i)]) ELSE Absent],
    roles <- [n \in {} |-> {}]
=============================================================================
