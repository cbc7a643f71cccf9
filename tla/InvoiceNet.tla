----------------------------- MODULE InvoiceNet -----------------------------
(***************************************************************************)
(* The invoice contract in Go, chaincode/invoice-net/chaincode-external,   *)
(* on the ledger.  Its functions write under the id they are given, and    *)
(* AppendRole under "roles_" and a name, in one and the same key space: an *)
(* id may be any key, those of the roles included.                         *)
(*                                                                         *)
(* An invoice keeps its parties, the four marks that functions set after   *)
(* its creation, and the payer.  The other fields are written once from    *)
(* arguments and copied, and left out.                                     *)
(***************************************************************************)
EXTENDS FabricLedger

CONSTANTS
    Client,     \* the identities that submit transactions
    NoOne,      \* "", an empty name
    Company,    \* "company", the owner InitLedger names, and no client
    Id,         \* the ids of invoices that are no key of roles
    Asset1,     \* "asset1", the id InitLedger writes
    Role,       \* the roles AppendRole is called with
    Given,      \* the names given as owner and buyer
    Payer,      \* the names given as payer
    GivenMarks, \* the combinations of marks UpdateAsset is called with
    Holder      \* the names AppendRole is called with

Name == Client \union {NoOne, Company}
Mark == {"received", "receivedOrder", "claimPaid", "taxReceived"}

RolesKey(n) == <<"roles_", n>>
RolesKeys == {RolesKey(n) : n \in Holder}

Asset == [owner : Name, buyer : Name, marks : SUBSET Mark, payer : Name]
RoleResult2 == [name : Holder \union {NoOne}, roles : SUBSET Role]

ASSUME KeyAssumption == Key = Id \union RolesKeys /\ Id \intersect RolesKeys = {}

ASSUME ConstantAssumption ==
    /\ NoOne # Company /\ {NoOne, Company} \intersect Client = {}
    /\ Asset1 \in Id
    /\ Given \union Payer \subseteq Name /\ GivenMarks \subseteq SUBSET Mark
    /\ NoOne \notin Holder
    /\ Absent \notin Asset \union RoleResult2

vars == <<world, version, height, pool>>

Put(k, v) == [x \in {k} |-> v]
NoWrite == [x \in {} |-> Absent]

\* The call a transaction answers, by what it does in general (Create for
\* CreateInvoice and so on), and its arguments.
Invocation(function, args) == [function |-> function, args |-> args]

-----------------------------------------------------------------------------
(* Reading.  Unmarshalling a value of the other kind is no error: it       *)
(* leaves every field empty.                                               *)

AssetExists(k) == world[k] # Absent

GetEmptyInvoice == [owner |-> NoOne, buyer |-> NoOne, marks |-> {}, payer |-> NoOne]
ReadAssetTest(k) == IF world[k] \in Asset THEN world[k] ELSE GetEmptyInvoice

\* ListInvoice answers the owner and the buyer only.
MayListInvoice(c, k) ==
    AssetExists(k) /\ c \in {ReadAssetTest(k).owner, ReadAssetTest(k).buyer}

LocalGetRoles(n) ==
    IF world[RolesKey(n)] \in RoleResult2 THEN world[RolesKey(n)]
    ELSE [name |-> NoOne, roles |-> {}]

-----------------------------------------------------------------------------
(* One action per contract function that writes: its simulation.           *)

\* A blind write, by anyone, of what asset1 was at the beginning.
InitLedger(id, sender) ==
    Endorse(id, sender, {}, Put(Asset1, [GetEmptyInvoice EXCEPT !.owner = Company]),
            Invocation("Initialise", <<>>))

CreateInvoice(id, sender, k, buyer, paid, payer) ==
    /\ ~AssetExists(k)
    /\ Endorse(id, sender, {k},
               Put(k, [owner |-> sender, buyer |-> buyer,
                       marks |-> IF paid THEN {"claimPaid"} ELSE {}, payer |-> payer]),
               Invocation("Create", <<k, buyer, paid, payer>>))

\* The arguments have no buyer, so that the new invoice has none.
UpdateAsset(id, sender, k, owner, marks, payer) ==
    /\ AssetExists(k)
    /\ Endorse(id, sender, {k},
               Put(k, [owner |-> owner, buyer |-> NoOne, marks |-> marks, payer |-> payer]),
               Invocation("Replace", <<k, owner, marks, payer>>))

\* An invoice with one more mark and its payer.
Marked(invoice, mark, payer) ==
    [owner |-> invoice.owner, buyer |-> invoice.buyer,
     marks |-> invoice.marks \union {mark}, payer |-> payer]

\* Mutant: the invoice comes from a cache, not from the world state.
MarkCached(id, sender, k, mark, payer) ==
    /\ MayListInvoice(sender, k)
    /\ Endorse(id, sender, {}, Put(k, Marked(world[k], mark, payer)),
               Invocation("Record", <<k, mark, payer>>))

\* Only a payment is called with a payer.
MarkInvoice(id, sender, k, mark, payer) ==
    /\ MayListInvoice(sender, k)
    /\ Endorse(id, sender, {k}, Put(k, Marked(world[k], mark, payer)),
               Invocation("Record", <<k, mark, payer>>))

ReceivedInvoice(id, sender, k) ==
    MarkInvoice(id, sender, k, "received", ReadAssetTest(k).payer)

ReceivedOrder(id, sender, k) ==
    MarkInvoice(id, sender, k, "receivedOrder", ReadAssetTest(k).payer)

ReceivedPayment(id, sender, k, payer) == MarkInvoice(id, sender, k, "claimPaid", payer)

TaxReceived(id, sender, k) ==
    MarkInvoice(id, sender, k, "taxReceived", ReadAssetTest(k).payer)

DeleteAsset(id, sender, k) ==
    /\ AssetExists(k)
    /\ Endorse(id, sender, {k}, Put(k, Absent), Invocation("Delete", <<k>>))

TransferInvoice(id, sender, k, newOwner) ==
    /\ MayListInvoice(sender, k)
    /\ sender = ReadAssetTest(k).owner
    /\ Endorse(id, sender, {k}, Put(k, [world[k] EXCEPT !.owner = newOwner]),
               Invocation("Transfer", <<k, newOwner>>))

\* Mutants: the new role replaces the list; the list is put under the bare name.
AppendRoleReplacing(id, sender, n, role, read, stored) ==
    Endorse(id, sender, {RolesKey(n)},
            IF stored THEN Put(RolesKey(n), [name |-> n, roles |-> {role}]) ELSE NoWrite,
            Invocation("Append", <<n, role>>))

AppendRoleUnprefixed(id, sender, n, role, read, stored) ==
    Endorse(id, sender, {RolesKey(n)}, Put(n, [name |-> n, roles |-> {role}]),
            Invocation("Append", <<n, role>>))

\* An absent list and one that could not be read are taken for the empty list
\* of n; a list that cannot be stored is reported as success.  A role that is
\* in the list already writes nothing.
AppendRole(id, sender, n, role, read, stored) ==
    LET list == IF read /\ world[RolesKey(n)] # Absent THEN LocalGetRoles(n)
                ELSE [name |-> n, roles |-> {}]
    IN Endorse(id, sender, IF read THEN {RolesKey(n)} ELSE {},
               IF stored /\ role \notin list.roles
               THEN Put(RolesKey(n), [list EXCEPT !.roles = @ \union {role}])
               ELSE NoWrite, Invocation("Append", <<n, role>>))

-----------------------------------------------------------------------------

Init == LedgerInit

Simulate(id) ==
    CanEndorse(id) /\ \E sender \in Client :
        \/ InitLedger(id, sender)
        \/ \E k \in Key :
              \/ \E buyer \in Given, paid \in BOOLEAN, payer \in Payer :
                    CreateInvoice(id, sender, k, buyer, paid, payer)
              \/ \E owner \in Given, marks \in GivenMarks, payer \in Payer :
                    UpdateAsset(id, sender, k, owner, marks, payer)
              \/ ReceivedInvoice(id, sender, k)
              \/ ReceivedOrder(id, sender, k)
              \/ \E payer \in Payer : ReceivedPayment(id, sender, k, payer)
              \/ TaxReceived(id, sender, k)
              \/ DeleteAsset(id, sender, k)
              \/ \E newOwner \in Given : TransferInvoice(id, sender, k, newOwner)
        \/ \E n \in Holder, role \in Role, read, stored \in BOOLEAN :
              AppendRole(id, sender, n, role, read, stored)

Next ==
    \E id \in TxId :
        Simulate(id) \/ CommitValid(id) \/ MarkInvalid(id) \/ Lose(id)

Spec == Init /\ [][Next]_vars

-----------------------------------------------------------------------------
(* Properties.                                                             *)

\* A key of the plain ids holds an invoice; a key of roles may hold either.
TypeOK ==
    /\ \A k \in Key : world[k] # Absent =>
          world[k] \in Asset \/ (k \in RolesKeys /\ world[k] \in RoleResult2)
    /\ version \in [Key -> 0..height]
    /\ height \in 0..MaxHeight
    /\ \A id \in InFlight :
          /\ pool[id].creator \in Client
          /\ DOMAIN pool[id].reads \subseteq Key
          /\ DOMAIN pool[id].writes \subseteq Key

\* The registry that a world state stands for.
RegisteredInvoice == [k \in Key |-> IF world[k] \in Asset THEN world[k] ELSE Absent]
RegisteredRoles == [n \in Holder |-> LocalGetRoles(n).roles]
FirstInvoice == [c \in Client |-> [GetEmptyInvoice EXCEPT !.owner = Company]]
RoleList == [n \in Holder |-> RolesKey(n)]

CallOf(tx) ==
    [caller |-> tx.creator, function |-> tx.event.function, args |-> tx.event.args]
Calls == [id \in InFlight |-> CallOf(pool[id])]

\* What a transaction does that is committed is what its function would do, for
\* its creator and its arguments, if it ran at that moment: of two parties that
\* mark an invoice at a time neither undoes the other's mark, nobody marks who
\* is no longer a party, and nobody sells what he has sold.  (Replacing and
\* deleting are open to everybody.)
Registry == INSTANCE InvoiceRegistry WITH
    Request <- TxId,
    calls <- Calls,
    served <- height,
    Id <- Key,
    NoInvoice <- Absent,
    First <- Asset1,
    Initial <- FirstInvoice,
    Paid <- "claimPaid",
    invoice <- RegisteredInvoice,
    roles <- RegisteredRoles

RegistrySpec == Registry!Spec

\* Roles are lost only to a function that replaces or deletes what is stored
\* under their key, or to an AppendRole whose read failed.  The list loses the
\* name it belongs to only if it replaced an invoice of that key.
RolesKept ==
    [][\A n \in Holder :
         LET now == world[RolesKey(n)]
             next == world'[RolesKey(n)]
         IN next \in RoleResult2 =>
              /\ now \in RoleResult2 /\ ~(now.roles \subseteq next.roles) =>
                    \E id \in InFlight : pool'[id] = Idle /\ DOMAIN pool[id].reads = {}
              /\ next.name # n =>
                    now \in Asset \/ (now \in RoleResult2 /\ now.name # n)]_vars
==============================================================================
