--------------------------- MODULE InvoiceNetProof ---------------------------
(***************************************************************************)
(* Proofs about the contracts that promise InvoiceRegistry, for any        *)
(* clients, ids, roles, number of transactions in flight and length of the *)
(* ledger: InvoiceNet and, at the end, the example contract of Channel.    *)
(***************************************************************************)
EXTENDS InvoiceNet, TLAPS

-----------------------------------------------------------------------------
(* The inductive invariant.                                                *)

List(n, set) == [name |-> n, roles |-> set]

\* The invoice CreateInvoice makes, and the one UpdateAsset makes.
NewInvoice(creator, buyer, paid, payer) ==
    [owner |-> creator, buyer |-> buyer,
     marks |-> IF paid THEN {"claimPaid"} ELSE {}, payer |-> payer]
Replacement(owner, marks, payer) ==
    [owner |-> owner, buyer |-> NoOne, marks |-> marks, payer |-> payer]

\* An invoice with a new owner.
Owned(a, x) == [owner |-> x, buyer |-> a.buyer, marks |-> a.marks, payer |-> a.payer]

\* Transaction tx read the value v under k.
Found(tx, k, v) == k \in DOMAIN tx.reads /\ tx.reads[k].value = v

\* What each contract function leaves in the pool: what it read, and what it
\* made of it for its creator and the arguments of the call.
Initialising(tx) ==
    /\ tx.event = Invocation("Initialise", <<>>)
    /\ tx.writes = Put(Asset1, [GetEmptyInvoice EXCEPT !.owner = Company])

Creating(tx) ==
    \E k \in Key, buyer \in Given, paid \in BOOLEAN, payer \in Payer :
        /\ Found(tx, k, Absent)
        /\ tx.event = Invocation("Create", <<k, buyer, paid, payer>>)
        /\ tx.writes = Put(k, NewInvoice(tx.creator, buyer, paid, payer))

Updating(tx) ==
    \E k \in Key, owner \in Given, marks \in GivenMarks, payer \in Payer :
        /\ k \in DOMAIN tx.reads /\ tx.reads[k].value # Absent
        /\ tx.event = Invocation("Replace", <<k, owner, marks, payer>>)
        /\ tx.writes = Put(k, Replacement(owner, marks, payer))

Marking(tx) ==
    \E k \in Key, a \in Asset, mark \in Mark, payer \in Name :
        /\ Found(tx, k, a)
        /\ tx.creator \in {a.owner, a.buyer}
        /\ mark # "claimPaid" => payer = a.payer
        /\ tx.event = Invocation("Record", <<k, mark, payer>>)
        /\ tx.writes = Put(k, Marked(a, mark, payer))

Deleting(tx) ==
    \E k \in Key :
        /\ k \in DOMAIN tx.reads /\ tx.reads[k].value # Absent
        /\ tx.event = Invocation("Delete", <<k>>)
        /\ tx.writes = Put(k, Absent)

Transferring(tx) ==
    \E k \in Key, a \in Asset, x \in Name :
        /\ Found(tx, k, a)
        /\ tx.creator = a.owner
        /\ tx.event = Invocation("Transfer", <<k, x>>)
        /\ tx.writes = Put(k, Owned(a, x))

\* The list AppendRole extends: its name and its roles.
Extends(tx, n, m, old) ==
    \/ DOMAIN tx.reads = {} /\ m = n /\ old = {}
    \/ Found(tx, RolesKey(n), Absent) /\ m = n /\ old = {}
    \/ \E list \in RoleResult2 :
          Found(tx, RolesKey(n), list) /\ m = list.name /\ old = list.roles
    \/ \E a \in Asset : Found(tx, RolesKey(n), a) /\ m = NoOne /\ old = {}

Appending(tx) ==
    \E n \in Holder, m \in Holder \union {NoOne}, role \in Role, old \in SUBSET Role :
        /\ Extends(tx, n, m, old)
        /\ tx.event = Invocation("Append", <<n, role>>)
        /\ tx.writes = Put(RolesKey(n), List(m, old \union {role}))

\* The role is in the list already, or the list could not be stored.
AppendingNone(tx) ==
    \E n \in Holder, role \in Role :
        /\ tx.event = Invocation("Append", <<n, role>>)
        /\ tx.writes = NoWrite

Simulated(tx) ==
    \/ Initialising(tx) \/ Creating(tx) \/ Updating(tx) \/ Marking(tx)
    \/ Deleting(tx) \/ Transferring(tx) \/ Appending(tx) \/ AppendingNone(tx)

\* What a transaction read is of the past, and still there if its version is.
ReadsOK(tx) ==
    \A k \in DOMAIN tx.reads :
        /\ tx.reads[k].version \in 0..height
        /\ tx.reads[k].version = 0 <=> tx.reads[k].value = Absent
        /\ tx.reads[k].version = version[k] => tx.reads[k].value = world[k]

LedgerOK ==
    /\ DOMAIN world = Key /\ DOMAIN pool = TxId
    /\ \A k \in Key : version[k] = 0 <=> world[k] = Absent

\* A list of roles is stored with a role in it.
NoEmptyList == \A k \in Key : world[k] \in RoleResult2 => world[k].roles # {}

IInv ==
    /\ TypeOK
    /\ LedgerOK
    /\ \A id \in InFlight : ReadsOK(pool[id]) /\ Simulated(pool[id])
    /\ NoEmptyList

-----------------------------------------------------------------------------
(* Keys and values.                                                        *)

\* The keys of roles are keys, one for each name.
LEMMA KeyFacts ==
    /\ Asset1 \in Key
    /\ \A n \in Holder : RolesKey(n) \in Key /\ RolesKey(n) \in RolesKeys
    /\ \A n, m : RolesKey(n) = RolesKey(m) => n = m
<1>1. Asset1 \in Key
  BY KeyAssumption, ConstantAssumption
<1>2. \A n \in Holder : RolesKey(n) \in Key /\ RolesKey(n) \in RolesKeys
  BY KeyAssumption DEF RolesKeys
<1>3. \A n, m : RolesKey(n) = RolesKey(m) => n = m
  BY DEF RolesKey
<1> QED
  BY <1>1, <1>2, <1>3

\* An invoice is no list of roles and neither is absent.
LEMMA KindFacts ==
    /\ \A a \in Asset : a # Absent /\ a \notin RoleResult2
    /\ \A r \in RoleResult2 : r # Absent
    /\ Absent \notin Asset /\ Absent \notin RoleResult2
<1>1. Absent \notin Asset \union RoleResult2
  BY ConstantAssumption
<1>2. ASSUME NEW a \in Asset, NEW r \in RoleResult2
      PROVE  a # r
  <2>1. "owner" \in DOMAIN a
    BY DEF Asset
  <2>2. "owner" \notin DOMAIN r
    BY DEF RoleResult2
  <2> QED
    BY <2>1, <2>2
<1> QED
  BY <1>1, <1>2

\* The fields of an invoice, and what functions make of it.
LEMMA AssetFacts ==
    ASSUME NEW a \in Asset
    PROVE  /\ a.owner \in Name /\ a.buyer \in Name /\ a.payer \in Name
           /\ a.marks \in SUBSET Mark
           /\ \A mark \in Mark, payer \in Name : Marked(a, mark, payer) \in Asset
           /\ \A x \in Name : Owned(a, x) \in Asset /\ Owned(a, x) = [a EXCEPT !.owner = x]
<1>1. /\ a.owner \in Name /\ a.buyer \in Name /\ a.payer \in Name
      /\ a.marks \in SUBSET Mark
  BY DEF Asset
<1>2. \A mark \in Mark, payer \in Name : Marked(a, mark, payer) \in Asset
  BY <1>1 DEF Marked, Asset
<1>3. \A x \in Name : Owned(a, x) \in Asset
  BY <1>1 DEF Owned, Asset
<1>4. \A x \in Name : Owned(a, x) = [a EXCEPT !.owner = x]
  BY DEF Owned, Asset
<1> QED
  BY <1>1, <1>2, <1>3, <1>4

\* Invoices made of arguments.
LEMMA ArgumentFacts ==
    /\ Given \subseteq Name
    /\ \A creator \in Client, buyer \in Given, paid \in BOOLEAN, payer \in Payer :
          NewInvoice(creator, buyer, paid, payer) \in Asset
    /\ \A owner \in Given, marks \in GivenMarks, payer \in Payer :
          Replacement(owner, marks, payer) \in Asset
<1>1. /\ Client \union Given \union Payer \union {NoOne} \subseteq Name
      /\ GivenMarks \subseteq SUBSET Mark /\ "claimPaid" \in Mark
  BY ConstantAssumption DEF Name, Mark
<1>2. \A creator \in Client, buyer \in Given, paid \in BOOLEAN, payer \in Payer :
         NewInvoice(creator, buyer, paid, payer) \in Asset
  BY <1>1 DEF NewInvoice, Asset
<1>3. \A owner \in Given, marks \in GivenMarks, payer \in Payer :
         Replacement(owner, marks, payer) \in Asset
  BY <1>1 DEF Replacement, Asset
<1> QED
  BY <1>1, <1>2, <1>3

\* The empty invoice is an invoice, and so is the one InitLedger puts.
LEMMA EmptyFacts ==
    /\ GetEmptyInvoice \in Asset
    /\ [GetEmptyInvoice EXCEPT !.owner = Company] \in Asset
    /\ GetEmptyInvoice.owner = NoOne /\ GetEmptyInvoice.buyer = NoOne
  BY DEF GetEmptyInvoice, Asset, Name

\* The fields of a list of roles, and a list with one more role.
LEMMA ListFacts ==
    /\ \A r \in RoleResult2 : /\ r.name \in Holder \union {NoOne}
                              /\ r.roles \in SUBSET Role
    /\ \A r \in RoleResult2 : \A set :
          [r EXCEPT !.roles = set] = List(r.name, set)
    /\ \A m, old, set : [[name |-> m, roles |-> old] EXCEPT !.roles = set] = List(m, set)
    /\ \A m \in Holder \union {NoOne}, set \in SUBSET Role : List(m, set) \in RoleResult2
    /\ \A m, set : List(m, set).name = m /\ List(m, set).roles = set
  BY DEF RoleResult2, List

\* What is under the key of a name's roles, and how AppendRole reads it.
LEMMA RolesFacts ==
    ASSUME NEW n
    PROVE  /\ world[RolesKey(n)] \in RoleResult2 => LocalGetRoles(n) = world[RolesKey(n)]
           /\ world[RolesKey(n)] \notin RoleResult2 => LocalGetRoles(n) = List(NoOne, {})
  BY DEF LocalGetRoles, List

\* Every function writes one key or none, and a value of its kind.
LEMMA SimulatedTyped ==
    ASSUME NEW tx, tx.creator \in Client, Simulated(tx)
    PROVE  \/ tx.writes = NoWrite
           \/ \E k \in Key, v \in Asset \union {Absent} : tx.writes = Put(k, v)
           \/ \E n \in Holder, m \in Holder \union {NoOne}, set \in SUBSET Role :
                 set # {} /\ tx.writes = Put(RolesKey(n), List(m, set))
<1>1. CASE Initialising(tx)
  BY <1>1, KeyFacts, EmptyFacts DEF Initialising
<1>2. CASE Creating(tx) \/ Updating(tx)
  BY <1>2, ArgumentFacts DEF Creating, Updating
<1>3. CASE Marking(tx)
  BY <1>3, AssetFacts DEF Marking
<1>4. CASE Deleting(tx)
  BY <1>4 DEF Deleting
<1>5. CASE Transferring(tx)
  BY <1>5, AssetFacts DEF Transferring
<1>6. CASE Appending(tx)
  <2>1. PICK n \in Holder, m \in Holder \union {NoOne}, role \in Role, old \in SUBSET Role :
           tx.writes = Put(RolesKey(n), List(m, old \union {role}))
    BY <1>6 DEF Appending
  <2>2. old \union {role} \in SUBSET Role /\ old \union {role} # {}
    OBVIOUS
  <2> QED
    BY <2>1, <2>2
<1> QED
  BY <1>1, <1>2, <1>3, <1>4, <1>5, <1>6 DEF Simulated, AppendingNone

\* The domain of what it writes.
LEMMA WritesKeys ==
    ASSUME NEW tx, tx.creator \in Client, Simulated(tx)
    PROVE  DOMAIN tx.writes \subseteq Key
<1>1. \A k \in Key : \A v : DOMAIN Put(k, v) \subseteq Key
  BY DEF Put
<1>2. DOMAIN NoWrite \subseteq Key
  BY DEF NoWrite
<1> QED
  BY <1>1, <1>2, SimulatedTyped, KeyFacts

-----------------------------------------------------------------------------
(* The steps that only change the pool.                                    *)

\* A transaction endorsed on the current state may join the pool.
LEMMA EndorsedInv ==
    ASSUME IInv, NEW id \in TxId, NEW sender \in Client, NEW K \in SUBSET Key,
           NEW writes, NEW event, Endorse(id, sender, K, writes, event),
           \A tx : /\ tx.creator = sender /\ tx.writes = writes /\ tx.event = event
                   /\ DOMAIN tx.reads = K
                   /\ \A k \in K : tx.reads[k].value = world[k]
                   => Simulated(tx)
    PROVE  IInv'
<1> DEFINE tx == pool'[id]
<1>1. /\ UNCHANGED <<world, version, height>>
      /\ DOMAIN pool' = TxId
      /\ \A j \in TxId \ {id} : pool'[j] = pool[j]
      /\ tx.creator = sender
      /\ DOMAIN tx.reads = K
      /\ \A k \in K : tx.reads[k].version = version[k] /\ tx.reads[k].value = world[k]
      /\ tx.writes = writes /\ tx.event = event
  BY DEF Endorse, ReadSet, IInv, LedgerOK
<1>2. Simulated(tx)
  BY <1>1
<1> HIDE DEF tx
<1>3. DOMAIN tx.writes \subseteq Key
  BY <1>1, <1>2, WritesKeys
<1>4. \A k \in Key : version[k] \in 0..height /\ (version[k] = 0 <=> world[k] = Absent)
  BY DEF IInv, TypeOK, LedgerOK
<1>5. ReadsOK(pool[id])'
  BY <1>1, <1>4 DEF ReadsOK, tx
<1>6. \A j \in InFlight' : j = id \/ (j \in InFlight /\ pool'[j] = pool[j])
  BY <1>1 DEF InFlight
<1>7. ASSUME NEW j \in InFlight'
      PROVE  ReadsOK(pool[j])' /\ Simulated(pool'[j])
  <2>1. CASE j = id
    BY <1>2, <1>5, <2>1 DEF tx
  <2>2. CASE j # id
    <3>1. pool'[j] = pool[j] /\ ReadsOK(pool[j]) /\ Simulated(pool[j])
      BY <1>6, <2>2 DEF IInv
    <3> QED
      BY <1>1, <3>1 DEF ReadsOK
  <2> QED
    BY <2>1, <2>2
<1>8. ASSUME NEW j \in InFlight'
      PROVE  /\ pool'[j].creator \in Client
             /\ DOMAIN pool'[j].reads \subseteq Key
             /\ DOMAIN pool'[j].writes \subseteq Key
  <2>1. CASE j = id
    BY <1>1, <1>3, <2>1 DEF tx
  <2>2. CASE j # id
    BY <1>6, <2>2 DEF IInv, TypeOK
  <2> QED
    BY <2>1, <2>2
<1>9. TypeOK'
  BY <1>1, <1>8 DEF IInv, TypeOK
<1> QED
  BY <1>1, <1>7, <1>9 DEF IInv, LedgerOK, NoEmptyList

\* An invalid or a lost transaction leaves no trace.
LEMMA DroppedInv ==
    ASSUME IInv, NEW id \in TxId, pool' = [pool EXCEPT ![id] = Idle],
           UNCHANGED <<world, version, height>>
    PROVE  IInv'
<1>1. \A j \in InFlight' : j \in InFlight /\ pool'[j] = pool[j]
  BY DEF InFlight, IInv, LedgerOK
<1>2. TypeOK'
  BY <1>1 DEF IInv, TypeOK
<1>3. LedgerOK' /\ NoEmptyList'
  BY DEF IInv, LedgerOK, NoEmptyList
<1>4. \A j \in InFlight' : ReadsOK(pool[j])' /\ Simulated(pool'[j])
  BY <1>1 DEF IInv, ReadsOK
<1> QED
  BY <1>2, <1>3, <1>4 DEF IInv

-----------------------------------------------------------------------------
(* The simulation of each contract function.                               *)

\* A client who may list an invoice is its owner or its buyer, and what is
\* stored under the key is an invoice.
LEMMA PartyFacts ==
    ASSUME NEW c \in Client, NEW k \in Key, MayListInvoice(c, k)
    PROVE  /\ world[k] \in Asset /\ ReadAssetTest(k) = world[k]
           /\ c \in {world[k].owner, world[k].buyer}
<1>1. c # NoOne
  BY ConstantAssumption
<1>2. c \in {ReadAssetTest(k).owner, ReadAssetTest(k).buyer}
  BY DEF MayListInvoice
<1>3. world[k] \in Asset
  BY <1>1, <1>2, EmptyFacts DEF ReadAssetTest
<1> QED
  BY <1>2, <1>3 DEF ReadAssetTest

\* InitLedger, which reads nothing.
LEMMA InitLedgerInv ==
    ASSUME IInv, NEW id \in TxId, NEW sender \in Client, InitLedger(id, sender)
    PROVE  IInv'
<1>1. {} \in SUBSET Key
  OBVIOUS
<1> QED
  BY <1>1, EndorsedInv DEF InitLedger, Simulated, Initialising

\* The functions that look up one key and replace what is there.
LEMMA CreateInv ==
    ASSUME IInv, NEW id \in TxId, NEW sender \in Client, NEW k \in Key,
           NEW buyer \in Given, NEW paid \in BOOLEAN, NEW payer \in Payer,
           CreateInvoice(id, sender, k, buyer, paid, payer)
    PROVE  IInv'
<1> DEFINE a == NewInvoice(sender, buyer, paid, payer)
           call == Invocation("Create", <<k, buyer, paid, payer>>)
<1>1. world[k] = Absent /\ Endorse(id, sender, {k}, Put(k, a), call)
  BY DEF CreateInvoice, AssetExists, NewInvoice
<1>2. ASSUME NEW tx, tx.creator = sender, tx.writes = Put(k, a), tx.event = call,
             DOMAIN tx.reads = {k}, \A j \in {k} : tx.reads[j].value = world[j]
      PROVE  Simulated(tx)
  BY <1>1, <1>2 DEF Simulated, Creating, Found
<1> HIDE DEF a, call
<1> QED
  BY <1>1, <1>2, EndorsedInv

\* UpdateAsset.
LEMMA UpdateInv ==
    ASSUME IInv, NEW id \in TxId, NEW sender \in Client, NEW k \in Key,
           NEW owner \in Given, NEW marks \in GivenMarks, NEW payer \in Payer,
           UpdateAsset(id, sender, k, owner, marks, payer)
    PROVE  IInv'
<1> DEFINE a == Replacement(owner, marks, payer)
           call == Invocation("Replace", <<k, owner, marks, payer>>)
<1>1. world[k] # Absent /\ Endorse(id, sender, {k}, Put(k, a), call)
  BY DEF UpdateAsset, AssetExists, Replacement
<1>2. ASSUME NEW tx, tx.creator = sender, tx.writes = Put(k, a), tx.event = call,
             DOMAIN tx.reads = {k}, \A j \in {k} : tx.reads[j].value = world[j]
      PROVE  Simulated(tx)
  BY <1>1, <1>2 DEF Simulated, Updating
<1> HIDE DEF a, call
<1> QED
  BY <1>1, <1>2, EndorsedInv

\* ReceivedInvoice, ReceivedOrder, ReceivedPayment and TaxReceived.
LEMMA MarkInv ==
    ASSUME IInv, NEW id \in TxId, NEW sender \in Client, NEW k \in Key,
           NEW mark \in Mark, NEW payer, MarkInvoice(id, sender, k, mark, payer),
           IF mark = "claimPaid" THEN payer \in Payer ELSE payer = ReadAssetTest(k).payer
    PROVE  IInv'
<1> DEFINE a == world[k]
           call == Invocation("Record", <<k, mark, payer>>)
<1>1. /\ a \in Asset /\ ReadAssetTest(k) = a
      /\ sender \in {a.owner, a.buyer}
      /\ Endorse(id, sender, {k}, Put(k, Marked(a, mark, payer)), call)
  BY PartyFacts DEF MarkInvoice
<1>2. payer \in Name /\ (mark # "claimPaid" => payer = a.payer)
  BY <1>1, AssetFacts, ConstantAssumption
<1> HIDE DEF a
<1>3. ASSUME NEW tx, tx.creator = sender, tx.writes = Put(k, Marked(a, mark, payer)),
             tx.event = call,
             DOMAIN tx.reads = {k}, \A j \in {k} : tx.reads[j].value = world[j]
      PROVE  Simulated(tx)
  <2>1. Found(tx, k, a)
    BY <1>3 DEF Found, a
  <2> QED
    BY <1>1, <1>2, <1>3, <2>1 DEF Simulated, Marking
<1> HIDE DEF call
<1> QED
  BY <1>1, <1>3, EndorsedInv

\* DeleteAsset.
LEMMA DeleteInv ==
    ASSUME IInv, NEW id \in TxId, NEW sender \in Client, NEW k \in Key,
           DeleteAsset(id, sender, k)
    PROVE  IInv'
<1> DEFINE call == Invocation("Delete", <<k>>)
<1>1. world[k] # Absent /\ Endorse(id, sender, {k}, Put(k, Absent), call)
  BY DEF DeleteAsset, AssetExists
<1>2. ASSUME NEW tx, tx.creator = sender, tx.writes = Put(k, Absent), tx.event = call,
             DOMAIN tx.reads = {k}, \A j \in {k} : tx.reads[j].value = world[j]
      PROVE  Simulated(tx)
  BY <1>1, <1>2 DEF Simulated, Deleting
<1> HIDE DEF call
<1> QED
  BY <1>1, <1>2, EndorsedInv

\* TransferInvoice.
LEMMA TransferInv ==
    ASSUME IInv, NEW id \in TxId, NEW sender \in Client, NEW k \in Key,
           NEW newOwner \in Given, TransferInvoice(id, sender, k, newOwner)
    PROVE  IInv'
<1> DEFINE a == world[k]
           call == Invocation("Transfer", <<k, newOwner>>)
<1>1. /\ a \in Asset /\ sender = a.owner
      /\ Endorse(id, sender, {k}, Put(k, [a EXCEPT !.owner = newOwner]), call)
  BY PartyFacts DEF TransferInvoice
<1>2. newOwner \in Name
  BY ArgumentFacts
<1>3. [a EXCEPT !.owner = newOwner] = Owned(a, newOwner)
  BY <1>1, <1>2, AssetFacts
<1>4. Endorse(id, sender, {k}, Put(k, Owned(a, newOwner)), call)
  BY <1>1, <1>3
<1> HIDE DEF a
<1>5. ASSUME NEW tx, tx.creator = sender, tx.writes = Put(k, Owned(a, newOwner)),
             tx.event = call,
             DOMAIN tx.reads = {k}, \A j \in {k} : tx.reads[j].value = world[j]
      PROVE  Simulated(tx)
  <2>1. Found(tx, k, a)
    BY <1>5 DEF Found, a
  <2> QED
    BY <1>1, <1>2, <1>5, <2>1 DEF Simulated, Transferring
<1> HIDE DEF call
<1> QED
  BY <1>4, <1>5, EndorsedInv

\* AppendRole.
LEMMA AppendInv ==
    ASSUME IInv, NEW id \in TxId, NEW sender \in Client, NEW n \in Holder, NEW role \in Role,
           NEW read \in BOOLEAN, NEW stored \in BOOLEAN,
           AppendRole(id, sender, n, role, read, stored)
    PROVE  IInv'
<1> DEFINE list == IF read /\ world[RolesKey(n)] # Absent THEN LocalGetRoles(n)
                   ELSE [name |-> n, roles |-> {}]
           K == IF read THEN {RolesKey(n)} ELSE {}
           W == IF stored /\ role \notin list.roles
                THEN Put(RolesKey(n), [list EXCEPT !.roles = @ \union {role}])
                ELSE NoWrite
           call == Invocation("Append", <<n, role>>)
<1>1. Endorse(id, sender, K, W, call)
  BY DEF AppendRole
<1>2. K \in SUBSET Key
  BY KeyFacts
\* The list that was found, or the new one.
<1>3. PICK m \in Holder \union {NoOne}, old \in SUBSET Role :
        /\ list = List(m, old)
        /\ \/ ~read /\ m = n /\ old = {}
           \/ read /\ world[RolesKey(n)] = Absent /\ m = n /\ old = {}
           \/ /\ read /\ world[RolesKey(n)] \in RoleResult2
              /\ m = world[RolesKey(n)].name /\ old = world[RolesKey(n)].roles
           \/ read /\ world[RolesKey(n)] \in Asset /\ m = NoOne /\ old = {}
  <2>1. CASE ~read \/ world[RolesKey(n)] = Absent
    <3>1. list = List(n, {})
      BY <2>1 DEF List
    <3> QED
      BY <2>1, <3>1
  <2>2. CASE read /\ world[RolesKey(n)] \in RoleResult2
    <3>1. list = world[RolesKey(n)]
      BY <2>2, KindFacts, RolesFacts
    <3>2. world[RolesKey(n)] = List(world[RolesKey(n)].name, world[RolesKey(n)].roles)
      BY <2>2 DEF RoleResult2, List
    <3> QED
      BY <2>2, <3>1, <3>2, ListFacts
  <2>3. CASE read /\ world[RolesKey(n)] \in Asset
    <3>1. list = List(NoOne, {})
      BY <2>3, KindFacts, RolesFacts
    <3> QED
      BY <2>3, <3>1
  <2>4. world[RolesKey(n)] \in RoleResult2 \union Asset \union {Absent}
    BY KeyFacts DEF IInv, TypeOK
  <2> QED
    BY <2>1, <2>2, <2>3, <2>4
<1> HIDE DEF list
<1>4. W = NoWrite \/ W = Put(RolesKey(n), List(m, old \union {role}))
  <2>1. [List(m, old) EXCEPT !.roles = @ \union {role}] = List(m, old \union {role})
    BY DEF List
  <2> QED
    BY <1>3, <2>1
<1> HIDE DEF W
<1>5. ASSUME NEW tx, tx.creator = sender, tx.writes = W, tx.event = call,
             DOMAIN tx.reads = K, \A k \in K : tx.reads[k].value = world[k]
      PROVE  Simulated(tx)
  <2>1. Extends(tx, n, m, old)
    <3>1. CASE ~read
      BY <1>3, <1>5, <3>1 DEF Extends
    <3>2. CASE read
      <4>1. RolesKey(n) \in DOMAIN tx.reads /\ tx.reads[RolesKey(n)].value = world[RolesKey(n)]
        BY <1>5, <3>2
      <4> QED
        BY <1>3, <3>2, <4>1 DEF Extends, Found
    <3> QED
      BY <3>1, <3>2
  <2> QED
    BY <1>4, <1>5, <2>1 DEF Simulated, Appending, AppendingNone
<1> HIDE DEF K, call
<1> QED
  BY <1>1, <1>2, <1>5, EndorsedInv

-----------------------------------------------------------------------------
(* The commit.                                                             *)

\* What a commit does to the ledger and to the pool.
LEMMA CommitFacts ==
    ASSUME IInv, NEW id \in TxId, CommitValid(id)
    PROVE  /\ id \in InFlight /\ Simulated(pool[id]) /\ pool[id].creator \in Client
           /\ DOMAIN world' = Key /\ DOMAIN version' = Key /\ DOMAIN pool' = TxId
           /\ \A k \in Key : world'[k] = IF k \in DOMAIN pool[id].writes
                                         THEN pool[id].writes[k] ELSE world[k]
           /\ \A k \in Key : version'[k] = IF k \notin DOMAIN pool[id].writes THEN version[k]
                                           ELSE IF pool[id].writes[k] = Absent THEN 0
                                           ELSE height + 1
           /\ \A k \in DOMAIN pool[id].reads : pool[id].reads[k].value = world[k]
           /\ pool'[id] = Idle
           /\ \A j \in InFlight' : j \in InFlight /\ pool'[j] = pool[j]
<1>1. /\ id \in InFlight /\ Simulated(pool[id]) /\ pool[id].creator \in Client
      /\ ReadsOK(pool[id])
  BY DEF CommitValid, InFlight, IInv, TypeOK
<1>2. pool' = [pool EXCEPT ![id] = Idle] /\ DOMAIN pool = TxId
  BY DEF CommitValid, IInv, LedgerOK
<1>3. /\ pool'[id] = Idle /\ DOMAIN pool' = TxId
      /\ \A j \in InFlight' : j \in InFlight /\ pool'[j] = pool[j]
  BY <1>2 DEF InFlight
<1>4. /\ world' = Applied(pool[id].writes)
      /\ version' = VersionAfter(pool[id].writes)
      /\ Valid(pool[id])
  BY DEF CommitValid
<1>5. \A k \in DOMAIN pool[id].reads : pool[id].reads[k].value = world[k]
  BY <1>1, <1>4 DEF Valid, ReadsOK
<1>6. /\ DOMAIN world' = Key
      /\ \A k \in Key : world'[k] = IF k \in DOMAIN pool[id].writes
                                    THEN pool[id].writes[k] ELSE world[k]
  BY <1>4 DEF Applied
<1>7. /\ DOMAIN version' = Key
      /\ \A k \in Key : version'[k] = IF k \notin DOMAIN pool[id].writes THEN version[k]
                                      ELSE IF pool[id].writes[k] = Absent THEN 0
                                      ELSE height + 1
  BY <1>4 DEF VersionAfter
<1> QED
  BY <1>1, <1>3, <1>5, <1>6, <1>7

\* Heights, by themselves.
LEMMA Heights ==
    ASSUME IInv, NEW id \in TxId, CommitValid(id)
    PROVE  /\ height \in Nat /\ height' = height + 1 /\ height' \in 0..MaxHeight
           /\ \A n \in 0..height : n \in 0..height' /\ n # height'
           /\ 0 \in 0..height' /\ height' \in 0..height' /\ height' # 0
<1>1. height \in 0..MaxHeight /\ MaxHeight \in Nat
  BY MaxHeightAssumption DEF IInv, TypeOK
<1>2. height' = height + 1 /\ height < MaxHeight
  BY DEF CommitValid
<1> QED
  BY <1>1, <1>2

\* What one commit puts under one key, or nothing.
LEMMA CommitKinds ==
    ASSUME IInv, NEW id \in TxId, CommitValid(id), NEW k \in Key
    PROVE  \/ world'[k] = world[k]
           \/ world'[k] \in Asset \union {Absent}
           \/ k \in RolesKeys /\ world'[k] \in RoleResult2 /\ world'[k].roles # {}
<1> DEFINE W == pool[id].writes
<1>1. world'[k] = IF k \in DOMAIN W THEN W[k] ELSE world[k]
  BY CommitFacts
<1>2. CASE W = NoWrite
  BY <1>1, <1>2 DEF NoWrite
<1>3. ASSUME NEW j \in Key, NEW v \in Asset \union {Absent}, W = Put(j, v)
      PROVE  world'[k] = world[k] \/ world'[k] \in Asset \union {Absent}
  BY <1>1, <1>3 DEF Put
<1>4. ASSUME NEW n \in Holder, NEW m \in Holder \union {NoOne}, NEW set \in SUBSET Role,
             set # {}, W = Put(RolesKey(n), List(m, set))
      PROVE  \/ world'[k] = world[k]
             \/ k \in RolesKeys /\ world'[k] \in RoleResult2 /\ world'[k].roles # {}
  <2>1. List(m, set) \in RoleResult2 /\ List(m, set).roles # {}
    BY <1>4, ListFacts
  <2>2. CASE k = RolesKey(n)
    <3>1. world'[k] = List(m, set)
      BY <1>1, <1>4, <2>2 DEF Put
    <3> QED
      BY <2>1, <2>2, <3>1, KeyFacts
  <2>3. CASE k # RolesKey(n)
    BY <1>1, <1>4, <2>3 DEF Put
  <2> QED
    BY <2>2, <2>3
<1> HIDE DEF W
<1>5. \/ W = NoWrite
      \/ \E j \in Key, v \in Asset \union {Absent} : W = Put(j, v)
      \/ \E n \in Holder, m \in Holder \union {NoOne}, set \in SUBSET Role :
            set # {} /\ W = Put(RolesKey(n), List(m, set))
  BY CommitFacts, SimulatedTyped DEF W
<1> QED
  BY <1>2, <1>3, <1>4, <1>5

\* A commit preserves the invariant.
LEMMA CommitInv ==
    ASSUME IInv, NEW id \in TxId, CommitValid(id)
    PROVE  IInv'
<1> DEFINE W == pool[id].writes
<1>1. /\ DOMAIN world' = Key /\ DOMAIN version' = Key /\ DOMAIN pool' = TxId
      /\ \A k \in Key : world'[k] = IF k \in DOMAIN W THEN W[k] ELSE world[k]
      /\ \A k \in Key : version'[k] = IF k \notin DOMAIN W THEN version[k]
                                      ELSE IF W[k] = Absent THEN 0 ELSE height'
      /\ \A j \in InFlight' : j \in InFlight /\ pool'[j] = pool[j]
  BY CommitFacts, Heights
<1>2. \A k \in Key : version[k] \in 0..height /\ (version[k] = 0 <=> world[k] = Absent)
  BY DEF IInv, TypeOK, LedgerOK
<1> HIDE DEF W
<1>3. \A k \in Key : version'[k] \in 0..height'
  BY <1>1, <1>2, Heights
<1>4. LedgerOK'
  <2>1. \A k \in Key : version'[k] = 0 <=> world'[k] = Absent
    BY <1>1, <1>2, Heights
  <2> QED
    BY <1>1, <2>1 DEF LedgerOK
<1>5. TypeOK'
  <2>1. \A k \in Key : world'[k] # Absent =>
           world'[k] \in Asset \/ (k \in RolesKeys /\ world'[k] \in RoleResult2)
    BY CommitKinds DEF IInv, TypeOK
  <2>2. version' \in [Key -> 0..height']
    <3>1. version' = [k \in Key |-> version'[k]]
      <4>1. version' = VersionAfter(pool[id].writes)
        BY DEF CommitValid
      <4> QED
        BY <4>1 DEF VersionAfter
    <3> QED
      BY <1>3, <3>1
  <2>3. height' \in 0..MaxHeight
    BY Heights
  <2>4. \A j \in InFlight' :
          /\ pool'[j].creator \in Client
          /\ DOMAIN pool'[j].reads \subseteq Key
          /\ DOMAIN pool'[j].writes \subseteq Key
    BY <1>1 DEF IInv, TypeOK
  <2> QED
    BY <2>1, <2>2, <2>3, <2>4 DEF TypeOK
<1>6. NoEmptyList'
  <2> SUFFICES ASSUME NEW k \in Key, world'[k] \in RoleResult2
               PROVE  world'[k].roles # {}
    BY DEF NoEmptyList
  <2> QED
    BY CommitKinds, KindFacts DEF IInv, NoEmptyList
<1>7. ASSUME NEW j \in InFlight'
      PROVE  ReadsOK(pool[j])' /\ Simulated(pool'[j])
  <2>1. /\ pool'[j] = pool[j] /\ ReadsOK(pool[j]) /\ Simulated(pool[j])
        /\ DOMAIN pool[j].reads \subseteq Key
    BY <1>1 DEF IInv, TypeOK
  <2>2. ASSUME NEW k \in DOMAIN pool[j].reads
        PROVE  LET r == pool[j].reads[k] IN
               /\ r.version \in 0..height'
               /\ r.version = 0 <=> r.value = Absent
               /\ r.version = version'[k] => r.value = world'[k]
    <3> DEFINE r == pool[j].reads[k]
    <3>1. /\ k \in Key /\ r.version \in 0..height
          /\ r.version = 0 <=> r.value = Absent
          /\ r.version = version[k] => r.value = world[k]
      BY <2>1 DEF ReadsOK
    <3> HIDE DEF r
    <3>2. r.version \in 0..height' /\ r.version # height'
      BY <3>1, Heights
    <3>3. r.version = version'[k] => r.value = world'[k]
      BY <1>1, <3>1, <3>2
    <3> QED
      BY <3>1, <3>2, <3>3 DEF r
  <2> QED
    BY <2>1, <2>2 DEF ReadsOK
<1> QED
  BY <1>4, <1>5, <1>6, <1>7 DEF IInv

-----------------------------------------------------------------------------
(* The theorems.                                                           *)

\* The empty ledger satisfies the invariant.
LEMMA InitInv == Init => IInv
<1> SUFFICES ASSUME Init PROVE IInv
  OBVIOUS
<1>1. /\ world = [k \in Key |-> Absent] /\ version = [k \in Key |-> 0]
      /\ height = 0 /\ pool = [id \in TxId |-> Idle] /\ InFlight = {}
  BY DEF Init, LedgerInit, InFlight
<1>2. height \in 0..MaxHeight /\ 0 \in 0..height
  BY <1>1, MaxHeightAssumption
<1>3. version \in [Key -> 0..height]
  BY <1>1, <1>2
<1>4. TypeOK
  BY <1>1, <1>2, <1>3 DEF TypeOK
<1>5. LedgerOK
  BY <1>1 DEF LedgerOK
<1>6. NoEmptyList
  BY <1>1, KindFacts DEF NoEmptyList
<1> QED
  BY <1>1, <1>4, <1>5, <1>6 DEF IInv

\* Every simulation preserves the invariant.
LEMMA SimulateInv ==
    ASSUME IInv, NEW id \in TxId, Simulate(id)
    PROVE  IInv'
<1>1. PICK sender \in Client :
        \/ InitLedger(id, sender)
        \/ \E k \in Key :
              \/ \E buyer \in Given, paid \in BOOLEAN, payer \in Payer :
                    CreateInvoice(id, sender, k, buyer, paid, payer)
              \/ \E owner \in Given, marks \in GivenMarks, payer \in Payer :
                    UpdateAsset(id, sender, k, owner, marks, payer)
              \/ ReceivedInvoice(id, sender, k)
              \/ ReceivedOrder(id, sender, k)
              \/ \E payer \in Payer : ReceivedPayment(id, sender, k, payer)
              \/ TaxReceived(id, sender, k)
              \/ DeleteAsset(id, sender, k)
              \/ \E newOwner \in Given : TransferInvoice(id, sender, k, newOwner)
        \/ \E n \in Holder, role \in Role, read, stored \in BOOLEAN :
              AppendRole(id, sender, n, role, read, stored)
  BY DEF Simulate
<1>2. ASSUME NEW k \in Key,
             \/ ReceivedInvoice(id, sender, k)
             \/ ReceivedOrder(id, sender, k)
             \/ \E payer \in Payer : ReceivedPayment(id, sender, k, payer)
             \/ TaxReceived(id, sender, k)
      PROVE  IInv'
  <2>1. PICK mark \in Mark : \E payer :
           /\ MarkInvoice(id, sender, k, mark, payer)
           /\ IF mark = "claimPaid" THEN payer \in Payer ELSE payer = ReadAssetTest(k).payer
    BY <1>2 DEF ReceivedInvoice, ReceivedOrder, ReceivedPayment, TaxReceived, Mark
  <2> QED
    BY <2>1, MarkInv
<1> QED
  BY <1>1, <1>2, InitLedgerInv, CreateInv, UpdateInv, DeleteInv, TransferInv, AppendInv

\* The inductive invariant: a transaction in flight writes what its function made
\* of the values it read, and those are the ledger's while their versions are.
THEOREM Inductive == Spec => []IInv
<1>1. IInv /\ [Next]_vars => IInv'
  <2> SUFFICES ASSUME IInv, [Next]_vars PROVE IInv'
    OBVIOUS
  <2>1. ASSUME NEW id \in TxId, Simulate(id)
        PROVE  IInv'
    BY <2>1, SimulateInv
  <2>2. ASSUME NEW id \in TxId, CommitValid(id)
        PROVE  IInv'
    BY <2>2, CommitInv
  <2>3. ASSUME NEW id \in TxId, MarkInvalid(id) \/ Lose(id)
        PROVE  IInv'
    BY <2>3, DroppedInv DEF MarkInvalid, Lose
  <2>4. CASE UNCHANGED vars
    <3>1. TypeOK' /\ LedgerOK' /\ NoEmptyList'
      BY <2>4 DEF vars, IInv, TypeOK, LedgerOK, NoEmptyList, InFlight
    <3>2. \A id \in InFlight' : ReadsOK(pool[id])' /\ Simulated(pool'[id])
      BY <2>4 DEF vars, IInv, ReadsOK, InFlight
    <3> QED
      BY <3>1, <3>2 DEF IInv
  <2> QED
    BY <2>1, <2>2, <2>3, <2>4 DEF Next
<1> QED
  BY <1>1, InitInv, PTL DEF Spec

\* Every key holds a value of its kind, whatever id a function is given.
THEOREM TypeCorrect == Spec => []TypeOK
<1>1. IInv => TypeOK
  BY DEF IInv
<1> QED
  BY <1>1, Inductive, PTL

\* An endorsed transaction joins the pool under an id that was free, and a
\* simulation does no more than that.
Joins(id) ==
    /\ pool[id] = Idle
    /\ \E tx : pool' = [pool EXCEPT ![id] = tx]
    /\ UNCHANGED <<world, version, height>>

LEMMA OnlyJoins == ASSUME NEW id, Simulate(id) PROVE Joins(id)
<1>1. \A sender, K, writes, event : Endorse(id, sender, K, writes, event) => Joins(id)
  BY DEF Endorse, CanEndorse, Joins
<1>2. ASSUME NEW sender \in Client, NEW k \in Key, NEW mark, NEW payer,
             MarkInvoice(id, sender, k, mark, payer)
      PROVE  Joins(id)
  BY <1>1, <1>2 DEF MarkInvoice
<1>3. ASSUME NEW sender \in Client, NEW k \in Key,
             \/ ReceivedInvoice(id, sender, k)
             \/ ReceivedOrder(id, sender, k)
             \/ \E payer \in Payer : ReceivedPayment(id, sender, k, payer)
             \/ TaxReceived(id, sender, k)
      PROVE  Joins(id)
  BY <1>2, <1>3 DEF ReceivedInvoice, ReceivedOrder, ReceivedPayment, TaxReceived
<1>4. ASSUME NEW sender \in Client, NEW k \in Key,
             \/ \E buyer \in Given, paid \in BOOLEAN, payer \in Payer :
                   CreateInvoice(id, sender, k, buyer, paid, payer)
             \/ \E owner \in Given, marks \in GivenMarks, payer \in Payer :
                   UpdateAsset(id, sender, k, owner, marks, payer)
             \/ DeleteAsset(id, sender, k)
             \/ \E newOwner \in Given : TransferInvoice(id, sender, k, newOwner)
      PROVE  Joins(id)
  BY <1>1, <1>4 DEF CreateInvoice, UpdateAsset, DeleteAsset, TransferInvoice
<1>5. ASSUME NEW sender \in Client,
             \/ InitLedger(id, sender)
             \/ \E n \in Holder, role \in Role, read, stored \in BOOLEAN :
                   AppendRole(id, sender, n, role, read, stored)
      PROVE  Joins(id)
  BY <1>1, <1>5 DEF InitLedger, AppendRole
<1> QED
  BY <1>3, <1>4, <1>5 DEF Simulate

\* Only the commit of a valid transaction writes the world state.
LEMMA OnlyCommitWrites == Next => (\E id \in TxId : CommitValid(id)) \/ UNCHANGED world
  BY OnlyJoins DEF Next, MarkInvalid, Lose, Joins

-----------------------------------------------------------------------------
(* The refinement: a commit is one step of the registry.                   *)

\* The effects a function may have on the current state, storing v under k, for
\* the creator of its transaction tx and the arguments of the call.
InitialEffect(tx, k, v) ==
    /\ tx.event = Invocation("Initialise", <<>>)
    /\ k = Asset1 /\ v = [GetEmptyInvoice EXCEPT !.owner = Company]

CreateEffect(tx, k, v) ==
    /\ world[k] = Absent
    /\ \E buyer \in Given, paid \in BOOLEAN, payer \in Payer :
          /\ tx.event = Invocation("Create", <<k, buyer, paid, payer>>)
          /\ v = NewInvoice(tx.creator, buyer, paid, payer)

ReplaceEffect(tx, k, v) ==
    /\ world[k] # Absent
    /\ \E owner \in Given, marks \in GivenMarks, payer \in Payer :
          /\ tx.event = Invocation("Replace", <<k, owner, marks, payer>>)
          /\ v = Replacement(owner, marks, payer)

MarkEffect(tx, k, v) ==
    /\ world[k] \in Asset /\ tx.creator \in {world[k].owner, world[k].buyer}
    /\ \E mark \in Mark, payer \in Name :
          /\ mark # "claimPaid" => payer = world[k].payer
          /\ tx.event = Invocation("Record", <<k, mark, payer>>)
          /\ v = Marked(world[k], mark, payer)

DeleteEffect(tx, k, v) ==
    /\ world[k] # Absent
    /\ tx.event = Invocation("Delete", <<k>>)
    /\ v = Absent

TransferEffect(tx, k, v) ==
    /\ world[k] \in Asset /\ tx.creator = world[k].owner
    /\ \E x \in Name : tx.event = Invocation("Transfer", <<k, x>>) /\ v = Owned(world[k], x)

AppendEffect(tx, k, v) ==
    \E n \in Holder, m \in Holder \union {NoOne}, role \in Role, old \in SUBSET Role :
        /\ Extends(tx, n, m, old)
        /\ tx.event = Invocation("Append", <<n, role>>)
        /\ k = RolesKey(n) /\ v = List(m, old \union {role})

Effect(tx, k, v) ==
    \/ InitialEffect(tx, k, v)
    \/ CreateEffect(tx, k, v)
    \/ ReplaceEffect(tx, k, v)
    \/ MarkEffect(tx, k, v)
    \/ DeleteEffect(tx, k, v)
    \/ TransferEffect(tx, k, v)
    \/ AppendEffect(tx, k, v)

HasPut(k, v) == \A j \in Key : world'[j] = IF j = k THEN v ELSE world[j]

\* What the committers apply is what the function would do on the state it is
\* applied to: the writes are those of the values that are there now.
LEMMA CommitAsNow ==
    ASSUME IInv, NEW id \in TxId, CommitValid(id)
    PROVE  \/ AppendingNone(pool[id]) /\ \A k \in Key : world'[k] = world[k]
           \/ \E k \in Key : \E v : HasPut(k, v) /\ Effect(pool[id], k, v)
<1> DEFINE tx == pool[id]
<1>1. /\ Simulated(tx) /\ tx.creator \in Client
      /\ \A k \in Key : world'[k] = IF k \in DOMAIN tx.writes THEN tx.writes[k] ELSE world[k]
      /\ \A k \in DOMAIN tx.reads : tx.reads[k].value = world[k]
  BY CommitFacts
<1> HIDE DEF tx
<1>2. ASSUME NEW k \in Key, NEW v, tx.writes = Put(k, v)
      PROVE  HasPut(k, v)
  BY <1>1, <1>2 DEF Put, HasPut
<1>3. SUFFICES ASSUME ~AppendingNone(tx)
               PROVE  \E k \in Key : \E v : tx.writes = Put(k, v) /\ Effect(tx, k, v)
  <2>1. CASE AppendingNone(tx)
    BY <1>1, <2>1 DEF AppendingNone, NoWrite, tx
  <2> QED
    BY <1>2, <2>1 DEF tx
<1>4. CASE Initialising(tx)
  BY <1>4, KeyFacts DEF Initialising, Effect, InitialEffect
<1>5. CASE Creating(tx)
  BY <1>1, <1>5 DEF Creating, Found, Effect, CreateEffect
<1>6. CASE Updating(tx)
  BY <1>1, <1>6 DEF Updating, Effect, ReplaceEffect
<1>7. CASE Marking(tx)
  <2>1. PICK k \in Key, mark \in Mark, payer \in Name :
          /\ world[k] \in Asset
          /\ tx.creator \in {world[k].owner, world[k].buyer}
          /\ mark # "claimPaid" => payer = world[k].payer
          /\ tx.event = Invocation("Record", <<k, mark, payer>>)
          /\ tx.writes = Put(k, Marked(world[k], mark, payer))
    BY <1>1, <1>7 DEF Marking, Found
  <2> QED
    BY <2>1 DEF Effect, MarkEffect
<1>8. CASE Deleting(tx)
  BY <1>1, <1>8 DEF Deleting, Effect, DeleteEffect
<1>9. CASE Transferring(tx)
  <2>1. PICK k \in Key, x \in Name :
          /\ world[k] \in Asset /\ tx.creator = world[k].owner
          /\ tx.event = Invocation("Transfer", <<k, x>>)
          /\ tx.writes = Put(k, Owned(world[k], x))
    BY <1>1, <1>9 DEF Transferring, Found
  <2> QED
    BY <2>1 DEF Effect, TransferEffect
<1>10. CASE Appending(tx)
  <2>1. PICK n \in Holder, m \in Holder \union {NoOne}, role \in Role, old \in SUBSET Role :
          /\ Extends(tx, n, m, old)
          /\ tx.event = Invocation("Append", <<n, role>>)
          /\ tx.writes = Put(RolesKey(n), List(m, old \union {role}))
    BY <1>10 DEF Appending
  <2>2. AppendEffect(tx, RolesKey(n), List(m, old \union {role}))
    BY <2>1 DEF AppendEffect
  <2> QED
    BY <2>1, <2>2, KeyFacts DEF Effect
<1> QED
  BY <1>1, <1>3, <1>4, <1>5, <1>6, <1>7, <1>8, <1>9, <1>10 DEF Simulated

-----------------------------------------------------------------------------

\* The names and the keys of roles.
LEMMA ListKeys ==
    /\ Registry!RoleHolder = Holder
    /\ DOMAIN RoleList = Holder
    /\ \A n \in Holder : RoleList[n] = RolesKey(n)
  BY DEF RoleList, Registry!RoleHolder

\* An invoice or nothing, stored under a key: Registry!Store, for any key of
\* roles too.
LEMMA StoreRefines ==
    ASSUME IInv, NEW k \in Key, NEW v \in Asset \union {Absent}, HasPut(k, v)
    PROVE  /\ RegisteredInvoice' = [RegisteredInvoice EXCEPT ![k] = v]
           /\ RegisteredRoles' = [n \in Registry!RoleHolder |->
                                    IF RoleList[n] = k THEN {} ELSE RegisteredRoles[n]]
           /\ RegisteredInvoice'[k] = v
<1>1. \A j \in Key : world'[j] = IF j = k THEN v ELSE world[j]
  BY DEF HasPut
<1>2. RegisteredInvoice' = [RegisteredInvoice EXCEPT ![k] = v]
  BY <1>1, KindFacts DEF RegisteredInvoice
<1>3. ASSUME NEW n \in Holder
      PROVE  LocalGetRoles(n)'.roles = IF RolesKey(n) = k THEN {} ELSE LocalGetRoles(n).roles
  <2>1. CASE RolesKey(n) = k
    <3>1. world'[RolesKey(n)] \notin RoleResult2
      BY <1>1, <2>1, KindFacts
    <3> QED
      BY <2>1, <3>1 DEF LocalGetRoles
  <2>2. CASE RolesKey(n) # k
    <3>1. world'[RolesKey(n)] = world[RolesKey(n)]
      BY <1>1, <2>2, KeyFacts
    <3> QED
      BY <2>2, <3>1 DEF LocalGetRoles
  <2> QED
    BY <2>1, <2>2
<1>4. RegisteredRoles' = [n \in Holder |-> IF RolesKey(n) = k THEN {} ELSE RegisteredRoles[n]]
  BY <1>3 DEF RegisteredRoles
<1>5. RegisteredInvoice'[k] = v
  BY <1>1, KindFacts DEF RegisteredInvoice
<1> QED
  BY <1>2, <1>4, <1>5, ListKeys

\* What a registry id holds.
LEMMA RegistryFacts ==
    ASSUME IInv, NEW k \in Key
    PROVE  /\ Registry!Occupied(k) <=> world[k] # Absent
           /\ world[k] \in Asset => RegisteredInvoice[k] = world[k] /\ world[k] # Absent
           /\ world[k] \notin Asset => RegisteredInvoice[k] = Absent
<1>1. /\ world[k] \in Asset => RegisteredInvoice[k] = world[k] /\ world[k] # Absent
      /\ world[k] \notin Asset => RegisteredInvoice[k] = Absent
  BY KindFacts DEF RegisteredInvoice
<1>2. Registry!Occupied(k) <=> \/ RegisteredInvoice[k] # Absent
                               \/ \E n \in Holder : RolesKey(n) = k /\ RegisteredRoles[n] # {}
  BY ListKeys DEF Registry!Occupied
<1>3. ASSUME NEW n \in Holder, RolesKey(n) = k
      PROVE  RegisteredRoles[n] # {} <=> world[k] \in RoleResult2
  <2>1. RegisteredRoles[n] = LocalGetRoles(n).roles
    BY DEF RegisteredRoles
  <2>2. CASE world[k] \in RoleResult2
    BY <1>3, <2>1, <2>2 DEF LocalGetRoles, IInv, NoEmptyList
  <2>3. CASE world[k] \notin RoleResult2
    BY <1>3, <2>1, <2>3 DEF LocalGetRoles
  <2> QED
    BY <2>2, <2>3
<1>4. CASE world[k] = Absent
  BY <1>1, <1>2, <1>3, <1>4, KindFacts
<1>5. CASE world[k] \in Asset
  BY <1>1, <1>2, <1>5
<1>6. CASE k \in RolesKeys /\ world[k] \in RoleResult2
  <2>1. PICK n \in Holder : RolesKey(n) = k
    BY <1>6 DEF RolesKeys
  <2> QED
    BY <1>1, <1>2, <1>3, <1>6, <2>1, KindFacts
<1> QED
  BY <1>1, <1>4, <1>5, <1>6 DEF IInv, TypeOK

\* A list of roles stored under its key: Registry!Append.
LEMMA AppendRefines ==
    ASSUME IInv, NEW n \in Holder, NEW m \in Holder \union {NoOne}, NEW role \in Role,
           NEW old \in SUBSET Role, old \in {RegisteredRoles[n], {}},
           HasPut(RolesKey(n), List(m, old \union {role}))
    PROVE  Registry!Append(n, role)
<1> DEFINE k == RolesKey(n)
           v == List(m, old \union {role})
<1>1. /\ k \in Key /\ \A h \in Holder : h # n => RolesKey(h) # k
      /\ \A h \in Holder : RolesKey(h) \in Key
  BY KeyFacts
<1>2. v \in RoleResult2 /\ v \notin Asset /\ v.roles = old \union {role}
  BY ListFacts, KindFacts
<1> HIDE DEF v
<1>3. \A j \in Key : world'[j] = IF j = k THEN v ELSE world[j]
  BY DEF HasPut, v
<1> HIDE DEF k
<1>4. RegisteredInvoice' = [RegisteredInvoice EXCEPT ![k] = Absent]
  BY <1>1, <1>2, <1>3 DEF RegisteredInvoice
<1>5. ASSUME NEW h \in Holder
      PROVE  LocalGetRoles(h)'.roles = IF h = n THEN old \union {role} ELSE LocalGetRoles(h).roles
  <2>1. CASE h = n
    BY <1>1, <1>2, <1>3, <2>1 DEF LocalGetRoles, k
  <2>2. CASE h # n
    <3>1. world'[RolesKey(h)] = world[RolesKey(h)]
      BY <1>1, <1>3, <2>2
    <3> QED
      BY <2>2, <3>1 DEF LocalGetRoles
  <2> QED
    BY <2>1, <2>2
<1>6. RegisteredRoles' = [RegisteredRoles EXCEPT ![n] = old \union {role}]
  BY <1>5 DEF RegisteredRoles
<1>7. /\ \E o \in {RegisteredRoles[n], {}} :
            RegisteredRoles' = [RegisteredRoles EXCEPT ![n] = o \union {role}]
      /\ RegisteredInvoice' = [RegisteredInvoice EXCEPT ![RolesKey(n)] = Absent]
  BY <1>4, <1>6 DEF k
<1> QED
  BY <1>7, ListKeys DEF Registry!Append

\* What a call is made of.
LEMMA InvocationFacts ==
    \A function, args : /\ Invocation(function, args).function = function
                        /\ Invocation(function, args).args = args
  BY DEF Invocation

\* A commit does to the registry what the function that was called does for its
\* caller and arguments: one case per function.
LEMMA CommitRefines ==
    ASSUME IInv, NEW id \in TxId, CommitValid(id)
    PROVE  Registry!Run(pool[id].creator, pool[id].event.function, pool[id].event.args)
<1> DEFINE tx == pool[id]
           c == tx.creator
           function == tx.event.function
           args == tx.event.args
<1>1. /\ c \in Client
      /\ \A j \in DOMAIN tx.reads : tx.reads[j].value = world[j]
  BY CommitFacts
<1>2. CASE AppendingNone(tx) /\ \A k \in Key : world'[k] = world[k]
  <2>1. UNCHANGED <<RegisteredInvoice, RegisteredRoles>>
    BY <1>2, KeyFacts DEF RegisteredInvoice, RegisteredRoles, LocalGetRoles
  <2>2. function = "Append"
    BY <1>2, InvocationFacts DEF AppendingNone
  <2> HIDE DEF function, args
  <2>3. Registry!Append(args[1], args[2])
    BY <2>1 DEF Registry!Append
  <2> QED
    BY <2>2, <2>3 DEF Registry!Run, function, args
<1>3. SUFFICES ASSUME NEW k \in Key, NEW v, HasPut(k, v), Effect(tx, k, v)
               PROVE  Registry!Run(c, function, args)
  BY <1>2, CommitAsNow
<1> HIDE DEF tx
<1>4. /\ world[k] \in Asset => RegisteredInvoice[k] = world[k] /\ world[k] # Absent
      /\ Registry!Occupied(k) <=> world[k] # Absent
  BY RegistryFacts
<1>5. ASSUME v \in Asset \union {Absent}
      PROVE  Registry!Store(k, v)
  BY <1>3, <1>5, StoreRefines DEF Registry!Store
<1>6. CASE InitialEffect(tx, k, v)
  <2>1. k = Asset1 /\ v = FirstInvoice[c] /\ v \in Asset /\ function = "Initialise"
    BY <1>1, <1>6, EmptyFacts, InvocationFacts DEF InitialEffect, FirstInvoice
  <2>2. Registry!Initialise(c)
    BY <1>5, <2>1 DEF Registry!Initialise
  <2> QED
    BY <2>1, <2>2 DEF Registry!Run
<1>7. CASE CreateEffect(tx, k, v)
  <2>1. PICK buyer \in Given, paid \in BOOLEAN, payer \in Payer :
          /\ tx.event = Invocation("Create", <<k, buyer, paid, payer>>)
          /\ v = NewInvoice(c, buyer, paid, payer)
    BY <1>7 DEF CreateEffect
  <2>2. world[k] = Absent /\ v \in Asset
    BY <1>1, <1>7, <2>1, ArgumentFacts DEF CreateEffect
  <2>3. Registry!Create(c, k, buyer, paid, payer)
    BY <1>4, <1>5, <2>1, <2>2 DEF Registry!Create, NewInvoice
  <2>4. function = "Create" /\ args = <<k, buyer, paid, payer>>
    BY <2>1, InvocationFacts
  <2> HIDE DEF c, function, args
  <2> QED
    BY <2>3, <2>4 DEF Registry!Run
<1>8. CASE ReplaceEffect(tx, k, v)
  <2>1. PICK owner \in Given, marks \in GivenMarks, payer \in Payer :
          /\ tx.event = Invocation("Replace", <<k, owner, marks, payer>>)
          /\ v = Replacement(owner, marks, payer)
    BY <1>8 DEF ReplaceEffect
  <2>2. world[k] # Absent /\ v \in Asset
    BY <1>8, <2>1, ArgumentFacts DEF ReplaceEffect
  <2>3. Registry!Replace(k, owner, marks, payer)
    BY <1>4, <1>5, <2>1, <2>2 DEF Registry!Replace, Replacement
  <2>4. function = "Replace" /\ args = <<k, owner, marks, payer>>
    BY <2>1, InvocationFacts
  <2> HIDE DEF c, function, args
  <2> QED
    BY <2>3, <2>4 DEF Registry!Run
<1>9. CASE MarkEffect(tx, k, v)
  <2>1. PICK mark \in Mark, payer \in Name :
          /\ mark # "claimPaid" => payer = world[k].payer
          /\ tx.event = Invocation("Record", <<k, mark, payer>>)
          /\ v = Marked(world[k], mark, payer)
    BY <1>9 DEF MarkEffect
  <2>2. world[k] \in Asset /\ c \in {world[k].owner, world[k].buyer} /\ v \in Asset
    BY <1>9, <2>1, AssetFacts DEF MarkEffect
  <2>3. v = [owner |-> RegisteredInvoice[k].owner, buyer |-> RegisteredInvoice[k].buyer,
             marks |-> RegisteredInvoice[k].marks \union {mark},
             payer |-> IF mark = "claimPaid" THEN payer ELSE RegisteredInvoice[k].payer]
    BY <1>4, <2>1, <2>2 DEF Marked
  <2>4. Registry!IsParty(c, k)
    BY <1>4, <2>2 DEF Registry!IsParty
  <2>5. Registry!Record(c, k, mark, payer)
    BY <1>5, <2>2, <2>3, <2>4 DEF Registry!Record
  <2>6. function = "Record" /\ args = <<k, mark, payer>>
    BY <2>1, InvocationFacts
  <2> HIDE DEF c, function, args
  <2> QED
    BY <2>5, <2>6 DEF Registry!Run
<1>10. CASE DeleteEffect(tx, k, v)
  <2>1. Registry!Delete(k)
    BY <1>4, <1>5, <1>10 DEF DeleteEffect, Registry!Delete
  <2>2. function = "Delete" /\ args = <<k>>
    BY <1>10, InvocationFacts DEF DeleteEffect
  <2> HIDE DEF c, function, args
  <2> QED
    BY <2>1, <2>2 DEF Registry!Run
<1>11. CASE TransferEffect(tx, k, v)
  <2>1. PICK x \in Name : tx.event = Invocation("Transfer", <<k, x>>) /\ v = Owned(world[k], x)
    BY <1>11 DEF TransferEffect
  <2>2. /\ world[k] \in Asset /\ c = world[k].owner
        /\ v = [world[k] EXCEPT !.owner = x] /\ v \in Asset
    BY <1>11, <2>1, AssetFacts DEF TransferEffect
  <2>3. /\ c = RegisteredInvoice[k].owner
        /\ v = [RegisteredInvoice[k] EXCEPT !.owner = x]
    BY <1>4, <2>2
  <2>4. Registry!IsParty(c, k)
    BY <1>4, <2>2 DEF Registry!IsParty
  <2>5. Registry!Transfer(c, k, x)
    BY <1>5, <2>2, <2>3, <2>4 DEF Registry!Transfer
  <2>6. function = "Transfer" /\ args = <<k, x>>
    BY <2>1, InvocationFacts
  <2> HIDE DEF c, function, args
  <2> QED
    BY <2>5, <2>6 DEF Registry!Run
<1>12. CASE AppendEffect(tx, k, v)
  <2>1. PICK n \in Holder, m \in Holder \union {NoOne}, role \in Role, old \in SUBSET Role :
          /\ Extends(tx, n, m, old)
          /\ tx.event = Invocation("Append", <<n, role>>)
          /\ k = RolesKey(n) /\ v = List(m, old \union {role})
    BY <1>12 DEF AppendEffect
  <2>2. old = {} \/ (world[RolesKey(n)] \in RoleResult2 /\ old = world[RolesKey(n)].roles)
    BY <1>1, <2>1 DEF Extends, Found
  <2>3. old \in {RegisteredRoles[n], {}}
    BY <2>2 DEF RegisteredRoles, LocalGetRoles
  <2>4. Registry!Append(n, role)
    BY <1>3, <2>1, <2>3, AppendRefines
  <2>5. function = "Append" /\ args = <<n, role>>
    BY <2>1, InvocationFacts
  <2> HIDE DEF c, function, args
  <2> QED
    BY <2>4, <2>5 DEF Registry!Run
<1> QED
  BY <1>3, <1>6, <1>7, <1>8, <1>9, <1>10, <1>11, <1>12 DEF Effect

\* A transaction that joins the pool is a call that is made; one that leaves it
\* is served or refused.
LEMMA JoinRefines ==
    ASSUME DOMAIN pool = TxId, NEW id \in TxId, Joins(id)
    PROVE  Registry!Submit(id) \/ UNCHANGED <<Calls, height>>
<1>1. PICK tx : pool' = [pool EXCEPT ![id] = tx]
  BY DEF Joins
<1>2. CASE tx = Idle
  <2>1. \A j \in TxId : pool'[j] = pool[j]
    BY <1>1, <1>2 DEF Joins
  <2>2. UNCHANGED InFlight
    BY <2>1 DEF InFlight
  <2>3. UNCHANGED Calls
    BY <2>1, <2>2 DEF Calls, CallOf, InFlight
  <2> QED
    BY <2>3 DEF Joins
<1>3. CASE tx # Idle
  <2>1. /\ id \notin InFlight /\ InFlight' = InFlight \union {id}
        /\ \A j \in InFlight : pool'[j] = pool[j]
    BY <1>1, <1>3 DEF Joins, InFlight
  <2>2. DOMAIN Calls = InFlight /\ DOMAIN Calls' = InFlight'
    BY DEF Calls
  <2>3. \A j \in InFlight : Calls'[j] = Calls[j]
    BY <2>1 DEF Calls, CallOf
  <2> QED
    BY <2>1, <2>2, <2>3 DEF Joins, Registry!Submit, Registry!OthersWait
<1> QED
  BY <1>2, <1>3

LEMMA LeaveRefines ==
    ASSUME DOMAIN pool = TxId, NEW id \in InFlight, pool' = [pool EXCEPT ![id] = Idle]
    PROVE  /\ id \in DOMAIN Calls /\ DOMAIN Calls' = DOMAIN Calls \ {id}
           /\ Registry!OthersWait(id)
           /\ Calls[id] = CallOf(pool[id])
<1>1. /\ InFlight' = InFlight \ {id}
      /\ \A j \in InFlight' : pool'[j] = pool[j]
  BY DEF InFlight
<1>2. DOMAIN Calls = InFlight /\ DOMAIN Calls' = InFlight'
  BY DEF Calls
<1>3. \A j \in InFlight' : Calls'[j] = Calls[j]
  BY <1>1 DEF Calls, CallOf
<1>4. Calls[id] = CallOf(pool[id])
  BY DEF Calls
<1> QED
  BY <1>1, <1>2, <1>3, <1>4 DEF Registry!OthersWait

\* A commit serves the call of its transaction.
LEMMA ServeRefines ==
    ASSUME IInv, NEW id \in TxId, CommitValid(id)
    PROVE  Registry!Next
<1>1. id \in InFlight /\ pool' = [pool EXCEPT ![id] = Idle] /\ height' = height + 1
  BY DEF CommitValid, InFlight
<1>2. /\ id \in DOMAIN Calls /\ DOMAIN Calls' = DOMAIN Calls \ {id}
      /\ Registry!OthersWait(id)
      /\ Calls[id] = CallOf(pool[id])
  BY <1>1, LeaveRefines DEF IInv, LedgerOK
<1>3. Registry!Serve(id)
  BY <1>1, <1>2 DEF Registry!Serve
<1>4. Registry!Run(Calls[id].caller, Calls[id].function, Calls[id].args)
  <2>1. /\ Calls[id].caller = pool[id].creator
        /\ Calls[id].function = pool[id].event.function
        /\ Calls[id].args = pool[id].event.args
    BY <1>2 DEF CallOf
  <2> QED
    BY <2>1, CommitRefines
<1> QED
  BY <1>3, <1>4 DEF Registry!Next

\* A refused or lost transaction is a call that had no effect.
LEMMA RefuseRefines ==
    ASSUME IInv, NEW id \in TxId, MarkInvalid(id) \/ Lose(id)
    PROVE  Registry!Refuse(id)
<1>1. id \in InFlight /\ pool' = [pool EXCEPT ![id] = Idle] /\ height' = height
  BY DEF MarkInvalid, Lose, InFlight
<1> QED
  BY <1>1, LeaveRefines DEF Registry!Refuse, IInv, LedgerOK

\* The contract on the ledger, with any number of transactions in flight, is the
\* registry whose calls happen one at a time: a committed transaction does what
\* its function does for its creator and arguments on the state it is committed on.
THEOREM Serialisability == Spec => RegistrySpec
<1>1. Init => Registry!Init
  <2> SUFFICES ASSUME Init PROVE Registry!Init
    OBVIOUS
  <2>1. \A k \in Key : world[k] = Absent
    BY DEF Init, LedgerInit
  <2>2. RegisteredInvoice = [k \in Key |-> Absent]
    BY <2>1 DEF RegisteredInvoice
  <2>3. RegisteredRoles = [n \in Holder |-> {}]
    BY <2>1, KeyFacts, KindFacts DEF RegisteredRoles, LocalGetRoles
  <2>4. Registry!CallsInit
    BY DEF Init, LedgerInit, Calls, InFlight, Registry!CallsInit
  <2> QED
    BY <2>2, <2>3, <2>4, ListKeys DEF Registry!Init
<1>2. IInv /\ [Next]_vars => [Registry!Next]_(Registry!vars)
  <2> SUFFICES ASSUME IInv, [Next]_vars
               PROVE  \/ Registry!Next
                      \/ UNCHANGED <<RegisteredInvoice, RegisteredRoles, Calls, height>>
    BY DEF Registry!vars
  <2>1. ASSUME UNCHANGED world PROVE UNCHANGED <<RegisteredInvoice, RegisteredRoles>>
    BY <2>1 DEF RegisteredInvoice, RegisteredRoles, LocalGetRoles
  <2>2. CASE UNCHANGED vars
    BY <2>1, <2>2 DEF vars, Calls, CallOf, InFlight
  <2>3. ASSUME NEW id \in TxId, Simulate(id)
        PROVE  Registry!Next \/ UNCHANGED <<RegisteredInvoice, RegisteredRoles, Calls, height>>
    BY <2>1, <2>3, OnlyJoins, JoinRefines DEF Joins, Registry!Next, IInv, LedgerOK
  <2>4. ASSUME NEW id \in TxId, CommitValid(id) PROVE Registry!Next
    BY <2>4, ServeRefines
  <2>5. ASSUME NEW id \in TxId, MarkInvalid(id) \/ Lose(id) PROVE Registry!Next
    BY <2>1, <2>5, RefuseRefines DEF MarkInvalid, Lose, Registry!Next
  <2> QED
    BY <2>2, <2>3, <2>4, <2>5 DEF Next
<1> QED
  BY <1>1, <1>2, Inductive, PTL DEF Spec, RegistrySpec, Registry!Spec

\* A list of roles loses a role only to a call that could not read it, and names
\* somebody else only if it replaced an invoice or already did.
THEOREM RolesStay == Spec => RolesKept
<1> DEFINE P == \A n \in Holder :
                  LET now == world[RolesKey(n)]
                      next == world'[RolesKey(n)]
                  IN next \in RoleResult2 =>
                       /\ now \in RoleResult2 /\ ~(now.roles \subseteq next.roles) =>
                             \E id \in InFlight : pool'[id] = Idle /\ DOMAIN pool[id].reads = {}
                       /\ next.name # n =>
                             now \in Asset \/ (now \in RoleResult2 /\ now.name # n)
<1>1. IInv /\ [Next]_vars => [P]_vars
  <2> SUFFICES ASSUME IInv, Next, NEW n \in Holder, world'[RolesKey(n)] \in RoleResult2
               PROVE  LET now == world[RolesKey(n)]
                          next == world'[RolesKey(n)]
                      IN /\ now \in RoleResult2 /\ ~(now.roles \subseteq next.roles) =>
                               \E id \in InFlight : pool'[id] = Idle /\ DOMAIN pool[id].reads = {}
                         /\ next.name # n =>
                               now \in Asset \/ (now \in RoleResult2 /\ now.name # n)
    OBVIOUS
  <2> DEFINE now == world[RolesKey(n)]
             next == world'[RolesKey(n)]
  <2>1. CASE next = now
    BY <2>1
  <2>2. ASSUME NEW id \in TxId, CommitValid(id), next # now
        PROVE  /\ now \in RoleResult2 /\ ~(now.roles \subseteq next.roles) =>
                     \E i \in InFlight : pool'[i] = Idle /\ DOMAIN pool[i].reads = {}
               /\ next.name # n => now \in Asset \/ (now \in RoleResult2 /\ now.name # n)
    <3> DEFINE tx == pool[id]
    <3>0. PICK k \in Key : \E v : HasPut(k, v) /\ Effect(tx, k, v)
      BY <2>2, CommitAsNow, KeyFacts
    <3>1. PICK v : HasPut(k, v) /\ Effect(tx, k, v)
      BY <3>0
    <3>2. k = RolesKey(n) /\ v = next
      BY <2>2, <3>1, KeyFacts DEF HasPut
    <3>3. v \notin Asset \union {Absent}
      BY <3>2, KindFacts
    <3>4. AppendEffect(tx, k, v)
      <4>0. tx.creator \in Client
        BY <2>2, CommitFacts
      <4> HIDE DEF tx, now, next
      <4>1. ~InitialEffect(tx, k, v) /\ ~CreateEffect(tx, k, v)
        BY <3>3, <4>0, EmptyFacts, ArgumentFacts DEF InitialEffect, CreateEffect
      <4>2. ~ReplaceEffect(tx, k, v) /\ ~DeleteEffect(tx, k, v)
        BY <3>3, ArgumentFacts DEF ReplaceEffect, DeleteEffect
      <4>3. ~MarkEffect(tx, k, v)
        <5> SUFFICES ASSUME MarkEffect(tx, k, v) PROVE FALSE
          OBVIOUS
        <5>1. PICK mark \in Mark, payer \in Name : v = Marked(world[k], mark, payer)
          BY DEF MarkEffect
        <5> QED
          BY <3>3, <5>1, AssetFacts DEF MarkEffect
      <4>4. ~TransferEffect(tx, k, v)
        BY <3>3, AssetFacts DEF TransferEffect
      <4> QED
        BY <3>1, <4>1, <4>2, <4>3, <4>4 DEF Effect
    <3>5. PICK m \in Holder \union {NoOne}, role \in Role, old \in SUBSET Role :
             Extends(tx, n, m, old) /\ next = List(m, old \union {role})
      <4> HIDE DEF tx, next
      <4>1. \A h : RolesKey(n) = RolesKey(h) => n = h
        BY KeyFacts
      <4>2. PICK h \in Holder, m \in Holder \union {NoOne}, role \in Role, old \in SUBSET Role :
               /\ Extends(tx, h, m, old)
               /\ k = RolesKey(h) /\ v = List(m, old \union {role})
        BY <3>4 DEF AppendEffect
      <4>3. h = n
        BY <3>2, <4>1, <4>2
      <4> QED
        BY <3>2, <4>2, <4>3
    <3>6. next.name = m /\ next.roles = old \union {role}
      BY <3>5, ListFacts
    <3>7. /\ id \in InFlight /\ pool'[id] = Idle
          /\ \A j \in DOMAIN tx.reads : tx.reads[j].value = world[j]
      BY <2>2, CommitFacts
    <3>8. \/ DOMAIN tx.reads = {} /\ m = n
          \/ now = Absent /\ m = n
          \/ now \in RoleResult2 /\ m = now.name /\ old = now.roles
          \/ now \in Asset
      BY <3>5, <3>7 DEF Extends, Found
    <3> QED
      BY <3>6, <3>7, <3>8, KindFacts
  <2>3. (\E id \in TxId : CommitValid(id)) \/ next = now
    BY OnlyCommitWrites
  <2> QED
    BY <2>1, <2>2, <2>3
<1>2. Spec => [][P]_vars
  BY <1>1, Inductive, PTL DEF Spec
<1> QED
  BY <1>2 DEF RolesKept

-----------------------------------------------------------------------------
(* The other contract that promises InvoiceRegistry is the example         *)
(* contract of Channel, where it shares the ledger with the Java contract. *)
(* The channel has keys of its own; what a transaction read is judged as   *)
(* above (ReadsOK).                                                        *)
CONSTANTS ChannelKey, AssetId, Invoice1, InvoiceKey

Channel == INSTANCE Channel WITH Key <- ChannelKey

ChannelAssumption == Channel!KeyAssumption /\ Channel!ConstantAssumption

\* What the transaction found under a key it read.
ReadValue(tx, k) == tx.reads[k].value

Answers(tx, function, args) == tx.event = Channel!Invocation(function, args)

\* What a function of the example contract leaves in the pool: an asset, or none,
\* in place of what it found, as the call says.
AssetEffect(tx, i, v) ==
    LET k == Channel!AssetKey(i)
        found == ReadValue(tx, k)
    IN  \/ /\ Answers(tx, "Initialise", <<>>)
           /\ i = Invoice1 /\ v = [owner |-> tx.creator, buyer |-> tx.creator]
        \/ /\ k \in DOMAIN tx.reads
           /\ \/ \E x \in Given :
                    /\ Answers(tx, "Create", <<i, x, FALSE, NoOne>>)
                    /\ found = Absent /\ v = [owner |-> tx.creator, buyer |-> x]
              \/ /\ Answers(tx, "Delete", <<i>>)
                 /\ found # Absent /\ v = Absent
              \/ /\ Answers(tx, "Replace", <<i, NoOne, {}, NoOne>>)
                 /\ found # Absent /\ v = [owner |-> NoOne, buyer |-> NoOne]
              \/ \E x \in Given :
                    /\ Answers(tx, "Transfer", <<i, x>>)
                    /\ found # Absent /\ found.owner = tx.creator
                    /\ v = [found EXCEPT !.owner = x]

\* What a function of the Java contract leaves there.
InvoiceEffect(tx, k, v) ==
    LET found == ReadValue(tx, k)
    IN  /\ k \in DOMAIN tx.reads /\ tx.event = Channel!Silent
        /\ \/ found = Absent /\ \E received \in BOOLEAN : v = Channel!Invoice(received)
           \/ found # Absent /\ v \in {Channel!Invoice(TRUE),
                                       [found EXCEPT !.receivedOrder = TRUE]}

ChannelSimulated(tx) ==
    \/ \E i \in AssetId : \E v :
          tx.writes = Put(Channel!AssetKey(i), v) /\ AssetEffect(tx, i, v)
    \/ \E j \in InvoiceKey : \E v :
          tx.writes = Put(Channel!FabKey(j), v) /\ InvoiceEffect(tx, Channel!FabKey(j), v)

ChannelLedgerOK ==
    /\ DOMAIN world = ChannelKey /\ DOMAIN pool = TxId
    /\ \A k \in ChannelKey : version[k] = 0 <=> world[k] = Absent

ChannelInv ==
    /\ Channel!TypeOK
    /\ ChannelLedgerOK
    /\ \A id \in InFlight : /\ pool[id].creator \in Client
                            /\ ReadsOK(pool[id])
                            /\ ChannelSimulated(pool[id])

\* The keys of the two contracts, and the values each stores.
LEMMA ChannelFacts ==
    ASSUME ChannelAssumption
    PROVE  /\ \A i \in AssetId : Channel!AssetKey(i) \in ChannelKey
           /\ \A j \in InvoiceKey : Channel!FabKey(j) \in ChannelKey
           /\ \A i, j : Channel!AssetKey(i) = Channel!AssetKey(j) => i = j
           /\ \A i, j : Channel!FabKey(i) = Channel!FabKey(j) => i = j
           /\ \A i, j : Channel!AssetKey(i) # Channel!FabKey(j)
           /\ Invoice1 \in AssetId /\ NoOne \notin Client
           /\ \A v \in Channel!Asset \union Channel!Invoices : v # Absent
           /\ \A v \in Channel!Asset : Channel!AsInvoice(v) # Absent
<1>1. /\ \A i \in AssetId : Channel!AssetKey(i) \in ChannelKey
      /\ \A j \in InvoiceKey : Channel!FabKey(j) \in ChannelKey
  BY DEF ChannelAssumption, Channel!KeyAssumption, Channel!AssetKeys, Channel!FabKeys
<1>2. /\ \A i, j : Channel!AssetKey(i) = Channel!AssetKey(j) => i = j
      /\ \A i, j : Channel!FabKey(i) = Channel!FabKey(j) => i = j
      /\ \A i, j : Channel!AssetKey(i) # Channel!FabKey(j)
  BY DEF Channel!AssetKey, Channel!FabKey
<1>3. /\ Invoice1 \in AssetId /\ NoOne \notin Client
      /\ \A v \in Channel!Asset \union Channel!Invoices : v # Absent
      /\ \A v \in Channel!Asset : Channel!AsInvoice(v) # Absent
  BY DEF ChannelAssumption, Channel!ConstantAssumption
<1> QED
  BY <1>1, <1>2, <1>3

\* An effect on current values stores a value of the right kind.
LEMMA AssetTyped ==
    ASSUME ChannelAssumption, Channel!TypeOK, NEW tx, tx.creator \in Client,
           NEW i \in AssetId, NEW v, AssetEffect(tx, i, v),
           LET k == Channel!AssetKey(i) IN
           k \in DOMAIN tx.reads => ReadValue(tx, k) = world[k]
    PROVE  v # Absent => v \in Channel!Asset
<1>1. \A x, y \in Given \union Client \union {NoOne} :
         [owner |-> x, buyer |-> y] \in Channel!Asset
  BY DEF Channel!Asset
<1>2. \A a \in Channel!Asset : \A x \in Given : [a EXCEPT !.owner = x] \in Channel!Asset
  BY DEF Channel!Asset
<1>3. world[Channel!AssetKey(i)] # Absent => world[Channel!AssetKey(i)] \in Channel!Asset
  BY DEF Channel!TypeOK, Channel!AssetKeys
<1>4. \/ v = Absent
      \/ \E x, y \in Given \union Client \union {NoOne} : v = [owner |-> x, buyer |-> y]
      \/ \E x \in Given : /\ world[Channel!AssetKey(i)] # Absent
                          /\ v = [world[Channel!AssetKey(i)] EXCEPT !.owner = x]
  BY DEF AssetEffect
<1> QED
  BY <1>1, <1>2, <1>3, <1>4

LEMMA InvoiceTyped ==
    ASSUME ChannelAssumption, Channel!TypeOK, NEW tx,
           NEW j \in InvoiceKey, NEW v, InvoiceEffect(tx, Channel!FabKey(j), v),
           ReadValue(tx, Channel!FabKey(j)) = world[Channel!FabKey(j)]
    PROVE  v \in Channel!Invoices
<1>1. \A b \in BOOLEAN : Channel!Invoice(b) \in Channel!Invoices
  BY DEF Channel!Invoice, Channel!Invoices
<1>2. \A a \in Channel!Invoices : [a EXCEPT !.receivedOrder = TRUE] \in Channel!Invoices
  BY DEF Channel!Invoices
<1>3. world[Channel!FabKey(j)] # Absent => world[Channel!FabKey(j)] \in Channel!Invoices
  BY DEF Channel!TypeOK, Channel!FabKeys
<1> QED
  BY <1>1, <1>2, <1>3 DEF InvoiceEffect

\* A transaction endorsed on the current state may join the pool.
LEMMA ChannelEndorsed ==
    ASSUME ChannelAssumption, ChannelInv,
           NEW id \in TxId, NEW sender \in Client, NEW K \in SUBSET ChannelKey,
           NEW writes, NEW event, Channel!Endorse(id, sender, K, writes, event),
           DOMAIN writes \subseteq ChannelKey,
           \A tx : /\ tx.creator = sender /\ tx.writes = writes /\ tx.event = event
                   /\ DOMAIN tx.reads = K
                   /\ \A k \in K : ReadValue(tx, k) = world[k]
                   => ChannelSimulated(tx)
    PROVE  ChannelInv'
<1> DEFINE tx == pool'[id]
<1>1. /\ UNCHANGED <<world, version, height>>
      /\ DOMAIN pool' = TxId
      /\ \A j \in TxId \ {id} : pool'[j] = pool[j]
      /\ tx.creator = sender
      /\ DOMAIN tx.reads = K
      /\ \A k \in K : tx.reads[k].version = version[k] /\ tx.reads[k].value = world[k]
      /\ tx.writes = writes /\ tx.event = event
  BY DEF Channel!Endorse, Channel!ReadSet, ChannelInv, ChannelLedgerOK
<1>2. ChannelSimulated(tx)
  BY <1>1 DEF ReadValue
<1> HIDE DEF tx
<1>3. \A k \in ChannelKey : version[k] \in 0..height /\ (version[k] = 0 <=> world[k] = Absent)
  BY DEF ChannelInv, Channel!TypeOK, ChannelLedgerOK
<1>4. ReadsOK(pool[id])'
  BY <1>1, <1>3 DEF ReadsOK, tx
<1>5. \A j \in Channel!InFlight' : j = id \/ (j \in InFlight /\ pool'[j] = pool[j])
  BY <1>1 DEF InFlight, Channel!InFlight
<1>6. ASSUME NEW j \in Channel!InFlight'
      PROVE  /\ pool'[j].creator \in Client
             /\ ReadsOK(pool[j])'
             /\ ChannelSimulated(pool'[j])
             /\ DOMAIN pool'[j].reads \subseteq ChannelKey
             /\ DOMAIN pool'[j].writes \subseteq ChannelKey
  <2>1. CASE j = id
    BY <1>1, <1>2, <1>4, <2>1 DEF tx
  <2>2. CASE j # id
    <3>1. /\ pool'[j] = pool[j] /\ pool[j].creator \in Client
          /\ ReadsOK(pool[j]) /\ ChannelSimulated(pool[j])
          /\ DOMAIN pool[j].reads \subseteq ChannelKey
          /\ DOMAIN pool[j].writes \subseteq ChannelKey
      BY <1>5, <2>2 DEF ChannelInv, Channel!TypeOK, InFlight, Channel!InFlight
    <3> QED
      BY <1>1, <3>1 DEF ReadsOK
  <2> QED
    BY <2>1, <2>2
<1>7. Channel!TypeOK'
  BY <1>1, <1>6 DEF ChannelInv, Channel!TypeOK
<1> QED
  BY <1>1, <1>6, <1>7 DEF ChannelInv, ChannelLedgerOK, InFlight, Channel!InFlight

\* An invalid or a lost transaction leaves no trace.
LEMMA ChannelDropped ==
    ASSUME ChannelInv, NEW id \in TxId, pool' = [pool EXCEPT ![id] = Idle],
           UNCHANGED <<world, version, height>>
    PROVE  ChannelInv'
<1>1. \A j \in InFlight' : j \in InFlight /\ pool'[j] = pool[j]
  BY DEF InFlight, ChannelInv, ChannelLedgerOK
<1>2. InFlight = Channel!InFlight /\ InFlight' = Channel!InFlight'
  BY DEF InFlight, Channel!InFlight
<1>3. Channel!TypeOK'
  BY <1>1, <1>2 DEF ChannelInv, Channel!TypeOK
<1>4. ChannelLedgerOK'
  BY DEF ChannelInv, ChannelLedgerOK
<1>5. \A j \in InFlight' : /\ pool'[j].creator \in Client
                           /\ ReadsOK(pool[j])'
                           /\ ChannelSimulated(pool'[j])
  BY <1>1 DEF ChannelInv, ReadsOK
<1> QED
  BY <1>3, <1>4, <1>5 DEF ChannelInv

\* Every call of the example contract preserves the invariant.
LEMMA AssetCallInv ==
    ASSUME ChannelAssumption, ChannelInv, NEW id \in TxId, NEW sender \in Client,
           Channel!SimulateAsset(id, sender)
    PROVE  ChannelInv'
<1>1. ASSUME NEW i \in AssetId, NEW v, NEW event, NEW K \in SUBSET {Channel!AssetKey(i)},
             Channel!Endorse(id, sender, K, Channel!PutAsset(i, v), event),
             \A tx : /\ tx.creator = sender /\ tx.event = event /\ DOMAIN tx.reads = K
                     /\ \A k \in K : ReadValue(tx, k) = world[k]
                     => AssetEffect(tx, i, v)
      PROVE  ChannelInv'
  <2>1. Channel!PutAsset(i, v) = Put(Channel!AssetKey(i), v)
    BY DEF Channel!PutAsset, Put
  <2>2. K \in SUBSET ChannelKey /\ DOMAIN Channel!PutAsset(i, v) \subseteq ChannelKey
    BY ChannelFacts, <2>1 DEF Put
  <2>3. ASSUME NEW tx, tx.creator = sender, tx.writes = Channel!PutAsset(i, v),
               tx.event = event, DOMAIN tx.reads = K, \A k \in K : ReadValue(tx, k) = world[k]
        PROVE  ChannelSimulated(tx)
    BY <1>1, <2>1, <2>3 DEF ChannelSimulated
  <2> QED
    BY <1>1, <2>2, <2>3, ChannelEndorsed
<1>2. CASE Channel!InitLedger(id, sender)
  <2>1. {} \in SUBSET {Channel!AssetKey(Invoice1)} /\ Invoice1 \in AssetId
    BY ChannelFacts
  <2> QED
    BY <1>1, <1>2, <2>1 DEF Channel!InitLedger, AssetEffect, Answers
<1>3. ASSUME NEW i \in AssetId, NEW x \in Given, Channel!CreateAsset(id, sender, i, x)
      PROVE  ChannelInv'
  <2> DEFINE K == {Channel!AssetKey(i)}
             call == Channel!Invocation("Create", <<i, x, FALSE, NoOne>>)
             v == [owner |-> sender, buyer |-> x]
  <2>1. /\ world[Channel!AssetKey(i)] = Absent
        /\ Channel!Endorse(id, sender, K, Channel!PutAsset(i, v), call)
    BY <1>3 DEF Channel!CreateAsset, Channel!AssetExists
  <2>2. ASSUME NEW tx, tx.creator = sender, tx.event = call, DOMAIN tx.reads = K,
               \A k \in K : ReadValue(tx, k) = world[k]
        PROVE  AssetEffect(tx, i, v)
    BY <2>1, <2>2 DEF AssetEffect, Answers
  <2> QED
    BY <1>1, <2>1, <2>2
<1>4. ASSUME NEW i \in AssetId, Channel!UpdateAsset(id, sender, i) PROVE ChannelInv'
  <2> DEFINE K == {Channel!AssetKey(i)}
             call == Channel!Invocation("Replace", <<i, NoOne, {}, NoOne>>)
             v == [owner |-> NoOne, buyer |-> NoOne]
  <2>1. /\ world[Channel!AssetKey(i)] # Absent
        /\ Channel!Endorse(id, sender, K, Channel!PutAsset(i, v), call)
    BY <1>4 DEF Channel!UpdateAsset, Channel!AssetExists
  <2>2. ASSUME NEW tx, tx.creator = sender, tx.event = call, DOMAIN tx.reads = K,
               \A k \in K : ReadValue(tx, k) = world[k]
        PROVE  AssetEffect(tx, i, v)
    BY <2>1, <2>2 DEF AssetEffect, Answers
  <2> QED
    BY <1>1, <2>1, <2>2
<1>5. ASSUME NEW i \in AssetId, Channel!DeleteAsset(id, sender, i) PROVE ChannelInv'
  <2> DEFINE K == {Channel!AssetKey(i)}
             call == Channel!Invocation("Delete", <<i>>)
  <2>1. /\ world[Channel!AssetKey(i)] # Absent
        /\ Channel!Endorse(id, sender, K, Channel!PutAsset(i, Absent), call)
    BY <1>5 DEF Channel!DeleteAsset, Channel!AssetExists
  <2>2. ASSUME NEW tx, tx.creator = sender, tx.event = call, DOMAIN tx.reads = K,
               \A k \in K : ReadValue(tx, k) = world[k]
        PROVE  AssetEffect(tx, i, Absent)
    BY <2>1, <2>2 DEF AssetEffect, Answers
  <2> QED
    BY <1>1, <2>1, <2>2
<1>6. ASSUME NEW i \in AssetId, NEW x \in Given, Channel!TransferAsset(id, sender, i, x)
      PROVE  ChannelInv'
  <2> DEFINE K == {Channel!AssetKey(i)}
             call == Channel!Invocation("Transfer", <<i, x>>)
             a == world[Channel!AssetKey(i)]
             v == [a EXCEPT !.owner = x]
  <2>1. /\ a # Absent /\ a.owner = sender
        /\ Channel!Endorse(id, sender, K, Channel!PutAsset(i, v), call)
    BY <1>6 DEF Channel!TransferAsset, Channel!MayReadAsset, Channel!AssetExists
  <2>2. ASSUME NEW tx, tx.creator = sender, tx.event = call, DOMAIN tx.reads = K,
               \A k \in K : ReadValue(tx, k) = world[k]
        PROVE  AssetEffect(tx, i, v)
    <3>1. ReadValue(tx, Channel!AssetKey(i)) = a
      BY <2>2
    <3> QED
      BY <2>1, <2>2, <3>1 DEF AssetEffect, Answers
  <2> QED
    BY <1>1, <2>1, <2>2
<1> QED
  BY <1>2, <1>3, <1>4, <1>5, <1>6 DEF Channel!SimulateAsset

\* And every call of the Java contract.
LEMMA InvoiceCallInv ==
    ASSUME ChannelAssumption, ChannelInv, NEW id \in TxId, NEW sender \in Client,
           Channel!SimulateInvoice(id, sender)
    PROVE  ChannelInv'
<1>1. PICK j \in InvoiceKey :
         \/ \E received \in BOOLEAN : Channel!createInvoice(id, sender, j, received)
         \/ Channel!markAsReceived(id, sender, j)
         \/ Channel!markOrderReceived(id, sender, j)
  BY DEF Channel!SimulateInvoice
<1> DEFINE k0 == Channel!FabKey(j)
           found == world[k0]
<1>2. PICK v :
         /\ Channel!Endorse(id, sender, {k0}, Channel!PutInvoice(j, v), Channel!Silent)
         /\ \/ found = Absent /\ \E received \in BOOLEAN : v = Channel!Invoice(received)
            \/ found # Absent /\ v \in {Channel!Invoice(TRUE),
                                        [found EXCEPT !.receivedOrder = TRUE]}
  BY <1>1 DEF Channel!createInvoice, Channel!markAsReceived, Channel!markOrderReceived
<1>3. Channel!PutInvoice(j, v) = Put(k0, v)
  BY DEF Channel!PutInvoice, Put
<1>4. {k0} \in SUBSET ChannelKey /\ DOMAIN Channel!PutInvoice(j, v) \subseteq ChannelKey
  BY <1>3, ChannelFacts DEF Put
<1>5. ASSUME NEW tx, tx.creator = sender, tx.writes = Channel!PutInvoice(j, v),
             tx.event = Channel!Silent, DOMAIN tx.reads = {k0}, \A k \in {k0} : ReadValue(tx, k) = world[k]
      PROVE  ChannelSimulated(tx)
  <2>1. ReadValue(tx, k0) = found
    BY <1>5
  <2>2. InvoiceEffect(tx, k0, v)
    BY <1>2, <1>5, <2>1 DEF InvoiceEffect
  <2> QED
    BY <1>3, <1>5, <2>2 DEF ChannelSimulated
<1> QED
  BY <1>2, <1>4, <1>5, ChannelEndorsed

\* A commit writes one key, with the effect its function has on the present state.
LEMMA ChannelCommit ==
    ASSUME ChannelAssumption, ChannelInv, NEW id \in TxId, Channel!CommitValid(id)
    PROVE  \E k \in ChannelKey : \E v :
              /\ pool[id].writes = Put(k, v)
              /\ world' = [x \in ChannelKey |-> IF x = k THEN v ELSE world[x]]
              /\ \/ \E i \in AssetId :
                       /\ k = Channel!AssetKey(i) /\ AssetEffect(pool[id], i, v)
                       /\ k \in DOMAIN pool[id].reads => ReadValue(pool[id], k) = world[k]
                       /\ v # Absent => v \in Channel!Asset
                 \/ \E j \in InvoiceKey :
                       /\ k = Channel!FabKey(j) /\ InvoiceEffect(pool[id], k, v)
                       /\ ReadValue(pool[id], k) = world[k]
                       /\ v \in Channel!Invoices
<1> DEFINE tx == pool[id]
<1>1. id \in InFlight /\ world' = [k \in ChannelKey |-> IF k \in DOMAIN tx.writes
                                                        THEN tx.writes[k] ELSE world[k]]
  BY DEF Channel!CommitValid, Channel!Applied, InFlight
<1>2. /\ tx.creator \in Client /\ ChannelSimulated(tx)
      /\ \A k \in DOMAIN tx.reads : ReadValue(tx, k) = world[k]
  BY <1>1 DEF ChannelInv, ReadsOK, Channel!CommitValid, Channel!Valid, ReadValue
<1>3. Channel!TypeOK
  BY DEF ChannelInv
<1> HIDE DEF tx
<1>4. ASSUME NEW k, NEW v, tx.writes = Put(k, v)
      PROVE  world' = [x \in ChannelKey |-> IF x = k THEN v ELSE world[x]]
  BY <1>1, <1>4 DEF Put
<1>5. CASE \E i \in AssetId : \E v :
              tx.writes = Put(Channel!AssetKey(i), v) /\ AssetEffect(tx, i, v)
  <2>1. PICK i \in AssetId : \E v :
               tx.writes = Put(Channel!AssetKey(i), v) /\ AssetEffect(tx, i, v)
    BY <1>5
  <2>2. PICK v : tx.writes = Put(Channel!AssetKey(i), v) /\ AssetEffect(tx, i, v)
    BY <2>1
  <2>3. v # Absent => v \in Channel!Asset
    BY <1>2, <1>3, <2>2, AssetTyped
  <2> QED
    BY <1>2, <1>4, <2>2, <2>3, ChannelFacts DEF tx
<1>6. CASE \E j \in InvoiceKey : \E v :
              tx.writes = Put(Channel!FabKey(j), v) /\ InvoiceEffect(tx, Channel!FabKey(j), v)
  <2>1. PICK j \in InvoiceKey : \E v :
               tx.writes = Put(Channel!FabKey(j), v) /\ InvoiceEffect(tx, Channel!FabKey(j), v)
    BY <1>6
  <2>2. PICK v : tx.writes = Put(Channel!FabKey(j), v) /\ InvoiceEffect(tx, Channel!FabKey(j), v)
    BY <2>1
  <2>3. ReadValue(tx, Channel!FabKey(j)) = world[Channel!FabKey(j)]
    BY <1>2, <2>2 DEF InvoiceEffect
  <2>4. v \in Channel!Invoices
    BY <1>3, <2>2, <2>3, InvoiceTyped
  <2> QED
    BY <1>4, <2>2, <2>3, <2>4, ChannelFacts DEF tx
<1> QED
  BY <1>2, <1>5, <1>6 DEF ChannelSimulated

\* A commit preserves the invariant.
LEMMA ChannelCommitInv ==
    ASSUME ChannelAssumption, ChannelInv, NEW id \in TxId, Channel!CommitValid(id)
    PROVE  ChannelInv'
<1> DEFINE W == pool[id].writes
<1>1. PICK k0 \in ChannelKey : \E v :
         /\ W = Put(k0, v)
         /\ world' = [x \in ChannelKey |-> IF x = k0 THEN v ELSE world[x]]
         /\ \/ \E i \in AssetId : k0 = Channel!AssetKey(i) /\ (v # Absent => v \in Channel!Asset)
            \/ \E j \in InvoiceKey : k0 = Channel!FabKey(j) /\ v \in Channel!Invoices
  BY ChannelCommit
<1>2. PICK v :
         /\ W = Put(k0, v)
         /\ world' = [x \in ChannelKey |-> IF x = k0 THEN v ELSE world[x]]
         /\ \/ \E i \in AssetId : k0 = Channel!AssetKey(i) /\ (v # Absent => v \in Channel!Asset)
            \/ \E j \in InvoiceKey : k0 = Channel!FabKey(j) /\ v \in Channel!Invoices
  BY <1>1
<1>3. /\ height' = height + 1 /\ height < MaxHeight
      /\ version' = [k \in ChannelKey |-> IF k # k0 THEN version[k]
                                          ELSE IF v = Absent THEN 0 ELSE height']
      /\ pool' = [pool EXCEPT ![id] = Idle]
  BY <1>2 DEF Channel!CommitValid, Channel!VersionAfter, Put
<1>4. /\ height \in 0..MaxHeight /\ height \in Nat /\ MaxHeight \in Nat
      /\ \A k \in ChannelKey : version[k] \in 0..height /\ (version[k] = 0 <=> world[k] = Absent)
  BY MaxHeightAssumption DEF ChannelInv, Channel!TypeOK, ChannelLedgerOK
<1> HIDE DEF W
<1>5. height' \in 0..MaxHeight /\ height' # 0 /\ \A n \in 0..height : n \in 0..height' /\ n # height'
  BY <1>3, <1>4
<1>6. /\ DOMAIN pool' = TxId
      /\ \A j \in InFlight' : j \in InFlight /\ pool'[j] = pool[j]
  BY <1>3 DEF InFlight, ChannelInv, ChannelLedgerOK
<1>7. \A k \in ChannelKey : version'[k] \in 0..height' /\ (version'[k] = 0 <=> world'[k] = Absent)
  <2> SUFFICES ASSUME NEW k \in ChannelKey
               PROVE  version'[k] \in 0..height' /\ (version'[k] = 0 <=> world'[k] = Absent)
    OBVIOUS
  <2>1. 0 \in 0..height' /\ height' \in 0..height'
    BY <1>3, <1>4
  <2> QED
    BY <1>2, <1>3, <1>4, <1>5, <2>1
<1>8. Channel!TypeOK'
  <2>1. \A i \in AssetId : world'[Channel!AssetKey(i)] # Absent =>
                              world'[Channel!AssetKey(i)] \in Channel!Asset
    <3> SUFFICES ASSUME NEW i \in AssetId, world'[Channel!AssetKey(i)] # Absent
                 PROVE  world'[Channel!AssetKey(i)] \in Channel!Asset
      OBVIOUS
    <3>1. CASE Channel!AssetKey(i) = k0
      BY <1>2, <3>1, ChannelFacts
    <3>2. CASE Channel!AssetKey(i) # k0
      BY <1>2, <3>2, ChannelFacts DEF ChannelInv, Channel!TypeOK, Channel!AssetKeys
    <3> QED
      BY <3>1, <3>2
  <2>2. \A j \in InvoiceKey : world'[Channel!FabKey(j)] # Absent =>
                                 world'[Channel!FabKey(j)] \in Channel!Invoices
    <3> SUFFICES ASSUME NEW j \in InvoiceKey, world'[Channel!FabKey(j)] # Absent
                 PROVE  world'[Channel!FabKey(j)] \in Channel!Invoices
      OBVIOUS
    <3>1. CASE Channel!FabKey(j) = k0
      BY <1>2, <3>1, ChannelFacts
    <3>2. CASE Channel!FabKey(j) # k0
      BY <1>2, <3>2, ChannelFacts DEF ChannelInv, Channel!TypeOK, Channel!FabKeys
    <3> QED
      BY <3>1, <3>2
  <2>3. version' \in [ChannelKey -> 0..height']
    BY <1>3, <1>7
  <2>4. \A j \in Channel!InFlight' :
           DOMAIN pool'[j].reads \subseteq ChannelKey /\ DOMAIN pool'[j].writes \subseteq ChannelKey
    BY <1>6 DEF ChannelInv, Channel!TypeOK, InFlight, Channel!InFlight
  <2> QED
    BY <1>5, <2>1, <2>2, <2>3, <2>4 DEF Channel!TypeOK, Channel!AssetKeys, Channel!FabKeys
<1>9. ASSUME NEW j \in InFlight'
      PROVE  /\ pool'[j].creator \in Client
             /\ ReadsOK(pool[j])'
             /\ ChannelSimulated(pool'[j])
  <2>1. /\ pool'[j] = pool[j] /\ ReadsOK(pool[j]) /\ ChannelSimulated(pool[j])
        /\ pool[j].creator \in Client /\ DOMAIN pool[j].reads \subseteq ChannelKey
    BY <1>6 DEF ChannelInv, Channel!TypeOK, InFlight, Channel!InFlight
  <2>2. ASSUME NEW k \in DOMAIN pool[j].reads
        PROVE  LET r == pool[j].reads[k] IN
               /\ r.version \in 0..height'
               /\ r.version = 0 <=> r.value = Absent
               /\ r.version = version'[k] => r.value = world'[k]
    <3> DEFINE r == pool[j].reads[k]
    <3>1. /\ k \in ChannelKey /\ r.version \in 0..height
          /\ r.version = 0 <=> r.value = Absent
          /\ r.version = version[k] => r.value = world[k]
      BY <2>1 DEF ReadsOK
    <3> HIDE DEF r
    <3>2. r.version \in 0..height' /\ r.version # height'
      BY <1>5, <3>1
    <3>3. r.version = version'[k] => r.value = world'[k]
      BY <1>2, <1>3, <3>1, <3>2
    <3> QED
      BY <3>1, <3>2, <3>3 DEF r
  <2> QED
    BY <2>1, <2>2 DEF ReadsOK
<1> QED
  BY <1>2, <1>6, <1>7, <1>8, <1>9 DEF ChannelInv, ChannelLedgerOK

\* The empty ledger of the channel satisfies the invariant.
LEMMA ChannelInitInv == ASSUME ChannelAssumption, Channel!Init PROVE ChannelInv
<1>1. /\ world = [k \in ChannelKey |-> Absent] /\ version = [k \in ChannelKey |-> 0]
      /\ height = 0 /\ pool = [id \in TxId |-> Idle] /\ InFlight = {}
  BY DEF Channel!Init, Channel!LedgerInit, InFlight
<1>2. height \in 0..MaxHeight /\ 0 \in 0..height
  BY <1>1, MaxHeightAssumption
<1>3. version \in [ChannelKey -> 0..height]
  BY <1>1, <1>2
<1>4. Channel!TypeOK
  BY <1>1, <1>2, <1>3, ChannelFacts
     DEF Channel!TypeOK, InFlight, Channel!InFlight, Channel!AssetKeys, Channel!FabKeys
<1> QED
  BY <1>1, <1>4 DEF ChannelInv, ChannelLedgerOK

\* A simulation does no more than join the pool.
LEMMA ChannelOnlyJoins ==
    ASSUME NEW id, NEW sender,
           Channel!SimulateAsset(id, sender) \/ Channel!SimulateInvoice(id, sender)
    PROVE  Joins(id)
<1>1. \A K, writes, event : Channel!Endorse(id, sender, K, writes, event) => Joins(id)
  BY DEF Channel!Endorse, Channel!CanEndorse, Joins
<1>2. CASE Channel!SimulateAsset(id, sender)
  BY <1>1, <1>2 DEF Channel!SimulateAsset, Channel!InitLedger, Channel!CreateAsset,
                    Channel!UpdateAsset, Channel!DeleteAsset, Channel!TransferAsset
<1>3. CASE Channel!SimulateInvoice(id, sender)
  BY <1>1, <1>3 DEF Channel!SimulateInvoice, Channel!createInvoice, Channel!markAsReceived,
                    Channel!markOrderReceived
<1> QED
  BY <1>2, <1>3

\* A step commits a transaction or leaves the world state alone.
LEMMA ChannelOnlyCommitWrites ==
    Channel!Next => (\E id \in TxId : Channel!CommitValid(id)) \/ UNCHANGED world
  BY ChannelOnlyJoins DEF Channel!Next, Channel!MarkInvalid, Channel!Lose, Joins

\* The invariant of the channel with both contracts: every transaction in flight
\* has the effect of its function on the values it read.
THEOREM ChannelInductive == ASSUME ChannelAssumption PROVE Channel!Spec => []ChannelInv
<1>1. Channel!Init => ChannelInv
  BY ChannelInitInv
<1>2. ChannelInv /\ [Channel!Next]_(Channel!vars) => ChannelInv'
  <2> SUFFICES ASSUME ChannelInv, [Channel!Next]_(Channel!vars) PROVE ChannelInv'
    OBVIOUS
  <2>1. CASE UNCHANGED Channel!vars
    BY <2>1 DEF Channel!vars, ChannelInv, Channel!TypeOK, ChannelLedgerOK, ReadsOK,
                ChannelSimulated, InFlight, Channel!InFlight
  <2>2. ASSUME NEW id \in TxId, NEW sender \in Client, Channel!SimulateAsset(id, sender)
        PROVE  ChannelInv'
    BY <2>2, AssetCallInv
  <2>3. ASSUME NEW id \in TxId, NEW sender \in Client, Channel!SimulateInvoice(id, sender)
        PROVE  ChannelInv'
    BY <2>3, InvoiceCallInv
  <2>4. ASSUME NEW id \in TxId, Channel!CommitValid(id) PROVE ChannelInv'
    BY <2>4, ChannelCommitInv
  <2>5. ASSUME NEW id \in TxId, Channel!MarkInvalid(id) \/ Channel!Lose(id) PROVE ChannelInv'
    BY <2>5, ChannelDropped DEF Channel!MarkInvalid, Channel!Lose
  <2> QED
    BY <2>1, <2>2, <2>3, <2>4, <2>5 DEF Channel!Next
<1> QED
  BY <1>1, <1>2, PTL DEF Channel!Spec

\* Each contract finds values of its own under its keys (Channel's TypeOK).
THEOREM ChannelTypeCorrect == ASSUME ChannelAssumption PROVE Channel!Spec => []Channel!TypeOK
<1>1. ChannelInv => Channel!TypeOK
  BY DEF ChannelInv
<1> QED
  BY <1>1, ChannelInductive, PTL

\* What a committed call of the example contract does is what the registry does for
\* the same caller, function and arguments.
LEMMA AssetRefines ==
    ASSUME ChannelAssumption, ChannelInv, NEW i \in AssetId, NEW tx, tx.creator \in Client,
           NEW v, AssetEffect(tx, i, v), v # Absent => v \in Channel!Asset,
           LET k == Channel!AssetKey(i) IN
           k \in DOMAIN tx.reads => ReadValue(tx, k) = world[k],
           world' = [x \in ChannelKey |-> IF x = Channel!AssetKey(i) THEN v ELSE world[x]]
    PROVE  Channel!Registry!Run(tx.creator, tx.event.function, tx.event.args)
<1> DEFINE c == tx.creator
           function == tx.event.function
           args == tx.event.args
           now == [j \in AssetId |-> IF Channel!AssetExists(j)
                                     THEN Channel!AsInvoice(world[Channel!AssetKey(j)])
                                     ELSE Absent]
           stored == IF v # Absent THEN Channel!AsInvoice(v) ELSE Absent
           a == world[Channel!AssetKey(i)]
<1>1. /\ now[i] = (IF a # Absent THEN Channel!AsInvoice(a) ELSE Absent)
      /\ a # Absent => a \in Channel!Asset /\ now[i] # Absent
  BY ChannelFacts DEF Channel!AssetExists, ChannelInv, Channel!TypeOK, Channel!AssetKeys
<1>2. now' = [now EXCEPT ![i] = stored]
  <2>1. \A j \in AssetId : world'[Channel!AssetKey(j)] = IF j = i THEN v
                                                         ELSE world[Channel!AssetKey(j)]
    BY ChannelFacts
  <2>2. now' = [j \in AssetId |-> IF world'[Channel!AssetKey(j)] # Absent
                                  THEN Channel!AsInvoice(world'[Channel!AssetKey(j)])
                                  ELSE Absent]
    BY DEF Channel!AssetExists, Channel!AsInvoice
  <2>3. now = [j \in AssetId |-> IF world[Channel!AssetKey(j)] # Absent
                                 THEN Channel!AsInvoice(world[Channel!AssetKey(j)])
                                 ELSE Absent]
    BY DEF Channel!AssetExists
  <2>4. now' = [j \in AssetId |-> IF j = i THEN stored ELSE now[j]]
    BY <2>1, <2>2, <2>3
  <2> QED
    BY <2>4
<1>3. Channel!Registry!Store(i, stored)
  BY <1>2 DEF Channel!Registry!Store, Channel!Registry!RoleHolder
<1>4. Channel!Registry!Occupied(i) <=> a # Absent
  BY <1>1 DEF Channel!Registry!Occupied, Channel!Registry!RoleHolder
<1>5. now'[i] = stored
  BY <1>2
<1>6. \A f, g : Answers(tx, f, g) => function = f /\ args = g
  BY DEF Answers, Channel!Invocation
<1>7. CASE /\ Answers(tx, "Initialise", <<>>)
           /\ i = Invoice1 /\ v = [owner |-> c, buyer |-> c]
  <2>1. v # Absent
    BY <1>7, ChannelFacts DEF Channel!Asset
  <2>2. Channel!Registry!Initialise(c)
    BY <1>3, <1>7, <2>1 DEF Channel!Registry!Initialise
  <2>3. function = "Initialise"
    BY <1>6, <1>7
  <2> HIDE DEF c, function, args
  <2> QED
    BY <2>2, <2>3 DEF Channel!Registry!Run, c, function, args
<1>8. ASSUME NEW x \in Given, Answers(tx, "Create", <<i, x, FALSE, NoOne>>),
             a = Absent, v = [owner |-> c, buyer |-> x]
      PROVE  Channel!Registry!Run(c, function, args)
  <2>1. v # Absent
    BY <1>8, ChannelFacts DEF Channel!Asset
  <2>2. stored = [owner |-> c, buyer |-> x, marks |-> {}, payer |-> NoOne]
    BY <1>8, <2>1 DEF Channel!AsInvoice
  <2>3. Channel!Registry!Create(c, i, x, FALSE, NoOne)
    BY <1>3, <1>4, <1>8, <2>2 DEF Channel!Registry!Create
  <2> HIDE DEF now, stored, a, function, args
  <2>4. function = "Create" /\ args = <<i, x, FALSE, NoOne>>
    BY <1>6, <1>8
  <2> HIDE DEF c
  <2> QED
    BY <2>3, <2>4 DEF Channel!Registry!Run
<1>9. CASE Answers(tx, "Delete", <<i>>) /\ a # Absent /\ v = Absent
  <2>1. Channel!Registry!Delete(i)
    BY <1>3, <1>4, <1>9 DEF Channel!Registry!Delete
  <2>2. function = "Delete" /\ args = <<i>>
    BY <1>6, <1>9
  <2> HIDE DEF c, function, args
  <2> QED
    BY <2>1, <2>2 DEF Channel!Registry!Run, c, function, args
<1>10. CASE /\ Answers(tx, "Replace", <<i, NoOne, {}, NoOne>>)
            /\ a # Absent /\ v = [owner |-> NoOne, buyer |-> NoOne]
  <2>1. v # Absent
    BY <1>10, ChannelFacts DEF Channel!Asset
  <2>2. stored = [owner |-> NoOne, buyer |-> NoOne, marks |-> {}, payer |-> NoOne]
    BY <1>10, <2>1 DEF Channel!AsInvoice
  <2>3. Channel!Registry!Replace(i, NoOne, {}, NoOne)
    BY <1>3, <1>4, <1>10, <2>2 DEF Channel!Registry!Replace
  <2>4. function = "Replace" /\ args = <<i, NoOne, {}, NoOne>>
    BY <1>6, <1>10
  <2> HIDE DEF c, function, args
  <2> QED
    BY <2>3, <2>4 DEF Channel!Registry!Run, c, function, args
<1>11. ASSUME NEW x \in Given, Answers(tx, "Transfer", <<i, x>>),
              a # Absent, a.owner = c, v = [a EXCEPT !.owner = x]
       PROVE  Channel!Registry!Run(c, function, args)
  <2>1. /\ a \in Channel!Asset /\ v \in Channel!Asset /\ v # Absent
        /\ v.owner = x /\ v.buyer = a.buyer
    BY <1>1, <1>11, ChannelFacts DEF Channel!Asset
  <2>2. /\ now[i] = [owner |-> a.owner, buyer |-> a.buyer, marks |-> {}, payer |-> NoOne]
        /\ stored = [owner |-> x, buyer |-> a.buyer, marks |-> {}, payer |-> NoOne]
    BY <1>1, <1>11, <2>1 DEF Channel!AsInvoice
  <2>3. stored = [now[i] EXCEPT !.owner = x] /\ now[i].owner = c
    <3>1. \A o, p, b : LET r == [owner |-> o, buyer |-> b, marks |-> {}, payer |-> NoOne]
                     IN  /\ r.owner = o
                         /\ [r EXCEPT !.owner = p]
                              = [owner |-> p, buyer |-> b, marks |-> {}, payer |-> NoOne]
      OBVIOUS
    <3> HIDE DEF now, stored, a
    <3> QED
      BY <1>11, <2>2, <3>1
  <2>4. Channel!Registry!Transfer(c, i, x)
    BY <1>1, <1>3, <1>11, <2>3 DEF Channel!Registry!Transfer, Channel!Registry!IsParty
  <2>5. function = "Transfer" /\ args = <<i, x>>
    BY <1>6, <1>11
  <2> HIDE DEF c, function, args
  <2> QED
    BY <2>4, <2>5 DEF Channel!Registry!Run
<1> QED
  <2>1. \/ /\ Answers(tx, "Initialise", <<>>)
           /\ i = Invoice1 /\ v = [owner |-> c, buyer |-> c]
        \/ \E x \in Given : /\ Answers(tx, "Create", <<i, x, FALSE, NoOne>>)
                            /\ a = Absent /\ v = [owner |-> c, buyer |-> x]
        \/ Answers(tx, "Delete", <<i>>) /\ a # Absent /\ v = Absent
        \/ /\ Answers(tx, "Replace", <<i, NoOne, {}, NoOne>>)
           /\ a # Absent /\ v = [owner |-> NoOne, buyer |-> NoOne]
        \/ \E x \in Given : /\ Answers(tx, "Transfer", <<i, x>>)
                            /\ a # Absent /\ a.owner = c /\ v = [a EXCEPT !.owner = x]
    BY DEF AssetEffect
  <2> HIDE DEF now, stored, a, c, function, args
  <2> QED
    BY <1>7, <1>8, <1>9, <1>10, <1>11, <2>1 DEF c, function, args

\* The two contracts' calls wait in one pool, which is as that of InvoiceNet.
LEMMA ChannelCalls ==
    /\ Channel!InFlight = InFlight /\ Channel!InFlight' = InFlight'
    /\ Channel!Calls = Calls /\ Channel!Calls' = Calls'
  BY DEF Channel!InFlight, InFlight, Channel!Calls, Calls, Channel!CallOf, CallOf

LEMMA ChannelMoves ==
    ASSUME NEW id
    PROVE  /\ Registry!Submit(id) => Channel!Registry!Submit(id)
           /\ Registry!Serve(id) => Channel!Registry!Serve(id)
           /\ Registry!Refuse(id) => Channel!Registry!Refuse(id)
  BY ChannelCalls DEF Registry!Submit, Registry!Serve, Registry!Refuse, Registry!OthersWait,
                      Channel!Registry!Submit, Channel!Registry!Serve, Channel!Registry!Refuse,
                      Channel!Registry!OthersWait

\* With the world state the registered assets stay.
ChannelAssets == [i \in AssetId |-> IF Channel!AssetExists(i)
                                   THEN Channel!AsInvoice(world[Channel!AssetKey(i)])
                                   ELSE Absent]

LEMMA ChannelSame ==
    /\ (\A i \in AssetId : world'[Channel!AssetKey(i)] = world[Channel!AssetKey(i)])
          => UNCHANGED ChannelAssets
    /\ UNCHANGED world => UNCHANGED ChannelAssets
  BY DEF Channel!AssetExists, Channel!AsInvoice, ChannelAssets

\* A commit serves the call of its transaction.
LEMMA ChannelServe ==
    ASSUME ChannelAssumption, ChannelInv, NEW id \in TxId, Channel!CommitValid(id)
    PROVE  Channel!Registry!Next
<1>1. /\ id \in InFlight /\ pool' = [pool EXCEPT ![id] = Idle] /\ height' = height + 1
      /\ DOMAIN pool = TxId /\ pool[id].creator \in Client
  BY DEF Channel!CommitValid, InFlight, ChannelInv, ChannelLedgerOK
<1>2. Channel!Registry!Serve(id) /\ Calls[id] = CallOf(pool[id])
  BY <1>1, LeaveRefines, ChannelMoves DEF Registry!Serve
<1>3. Channel!Calls[id].caller = pool[id].creator
      /\ Channel!Calls[id].function = pool[id].event.function
      /\ Channel!Calls[id].args = pool[id].event.args
  BY <1>2, ChannelCalls DEF CallOf
<1> \A tx, k, v : InvoiceEffect(tx, k, v) => tx.event = Channel!Silent
  BY DEF InvoiceEffect
<1>4. PICK k \in ChannelKey : \E v :
          /\ world' = [x \in ChannelKey |-> IF x = k THEN v ELSE world[x]]
          /\ \/ \E i \in AssetId :
                   /\ k = Channel!AssetKey(i) /\ AssetEffect(pool[id], i, v)
                   /\ k \in DOMAIN pool[id].reads => ReadValue(pool[id], k) = world[k]
                   /\ v # Absent => v \in Channel!Asset
             \/ \E j \in InvoiceKey : k = Channel!FabKey(j) /\ pool[id].event = Channel!Silent
  BY ChannelCommit
<1>5. CASE (\E j \in InvoiceKey : k = Channel!FabKey(j)) /\ pool[id].event = Channel!Silent
  <2>1. \A i \in AssetId : world'[Channel!AssetKey(i)] = world[Channel!AssetKey(i)]
    BY <1>4, <1>5, ChannelFacts
  <2>2. UNCHANGED ChannelAssets
    BY <2>1, ChannelSame
  <2>3. Channel!Registry!Run(pool[id].creator, "none", pool[id].event.args)
    BY <2>2 DEF Channel!Registry!Run, ChannelAssets
  <2>4. pool[id].event.function = "none"
    BY <1>5 DEF Channel!Silent
  <2> QED
    BY <1>2, <1>3, <2>3, <2>4 DEF Channel!Registry!Next
<1>6. ASSUME NEW i \in AssetId, NEW v, k = Channel!AssetKey(i), AssetEffect(pool[id], i, v),
             k \in DOMAIN pool[id].reads => ReadValue(pool[id], k) = world[k],
             v # Absent => v \in Channel!Asset,
             world' = [x \in ChannelKey |-> IF x = k THEN v ELSE world[x]]
      PROVE  Channel!Registry!Next
  <2>1. Channel!Registry!Run(pool[id].creator, pool[id].event.function, pool[id].event.args)
    BY <1>1, <1>6, AssetRefines
  <2> QED
    BY <1>2, <1>3, <2>1 DEF Channel!Registry!Next
<1> QED
  BY <1>4, <1>5, <1>6

\* The example contract implements InvoiceRegistry, whatever the other contract of
\* the channel does in between (AssetsSpec): a committed call does what its function
\* does for its creator and arguments on the assets there are at the commit.
THEOREM AssetsSerialisability ==
    ASSUME ChannelAssumption PROVE Channel!Spec => Channel!AssetsSpec
<1>1. Channel!Init => Channel!Registry!Init
  <2> SUFFICES ASSUME Channel!Init PROVE Channel!Registry!Init
    OBVIOUS
  <2>1. Channel!Registry!CallsInit
    BY DEF Channel!Init, Channel!LedgerInit, Channel!Calls, Channel!InFlight,
           Channel!Registry!CallsInit
  <2> QED
    BY <2>1, ChannelFacts DEF Channel!Init, Channel!LedgerInit, Channel!Registry!Init,
                              Channel!Registry!RoleHolder, Channel!AssetExists
<1>2. ChannelInv /\ [Channel!Next]_(Channel!vars) =>
         [Channel!Registry!Next]_(Channel!Registry!vars)
  <2> SUFFICES ASSUME ChannelInv, [Channel!Next]_(Channel!vars)
               PROVE  Channel!Registry!Next \/ UNCHANGED Channel!Registry!vars
    OBVIOUS
  <2>0. DOMAIN pool = TxId
    BY DEF ChannelInv, ChannelLedgerOK
  <2>1. CASE UNCHANGED Channel!vars
    BY <2>1 DEF Channel!vars, Channel!Registry!vars, Channel!AssetExists, Channel!AsInvoice,
                Channel!Calls, Channel!CallOf, Channel!InFlight
  <2>2. ASSUME NEW id \in TxId, Channel!CommitValid(id)
        PROVE  Channel!Registry!Next
    BY <2>2, ChannelServe
  <2>3. ASSUME NEW id \in TxId, NEW sender \in Client,
               Channel!SimulateAsset(id, sender) \/ Channel!SimulateInvoice(id, sender)
        PROVE  Channel!Registry!Next \/ UNCHANGED Channel!Registry!vars
    <3>1. Joins(id)
      BY <2>3, ChannelOnlyJoins
    <3>2. Registry!Submit(id) \/ UNCHANGED <<Calls, height>>
      BY <2>0, <3>1, JoinRefines
    <3> QED
      BY <3>1, <3>2, ChannelSame, ChannelMoves, ChannelCalls
         DEF Joins, Channel!Registry!Next, Channel!Registry!vars, ChannelAssets
  <2>4. ASSUME NEW id \in TxId, Channel!MarkInvalid(id) \/ Channel!Lose(id)
        PROVE  Channel!Registry!Next
    <3>1. /\ id \in InFlight /\ pool' = [pool EXCEPT ![id] = Idle]
          /\ UNCHANGED <<world, height>>
      BY <2>4 DEF Channel!MarkInvalid, Channel!Lose, InFlight
    <3>2. Registry!Refuse(id)
      BY <2>0, <3>1, LeaveRefines DEF Registry!Refuse
    <3> QED
      BY <3>1, <3>2, ChannelSame, ChannelMoves DEF Channel!Registry!Next, ChannelAssets
  <2> QED
    BY <2>1, <2>2, <2>3, <2>4 DEF Channel!Next
<1> QED
  BY <1>1, <1>2, ChannelInductive, PTL DEF Channel!Spec, Channel!AssetsSpec, Channel!Registry!Spec

\* An invoice of the Java contract stays, stays received, and loses its order's mark
\* to a markAsReceived only, whatever copies of it are in flight.
THEOREM InvoicesStayMarked ==
    ASSUME ChannelAssumption PROVE Channel!Spec => Channel!InvoicesOnlyMarked
<1> DEFINE P == \A k \in InvoiceKey :
                  LET now == world[Channel!FabKey(k)] IN
                  now # Absent => world'[Channel!FabKey(k)] \in
                     {now, Channel!Invoice(TRUE), [now EXCEPT !.receivedOrder = TRUE]}
<1>1. ChannelInv /\ [Channel!Next]_(Channel!vars) => [P]_<<world>>
  <2> SUFFICES ASSUME ChannelInv, [Channel!Next]_(Channel!vars), world' # world,
                      NEW j0 \in InvoiceKey, world[Channel!FabKey(j0)] # Absent
               PROVE  world'[Channel!FabKey(j0)] \in
                        {world[Channel!FabKey(j0)], Channel!Invoice(TRUE),
                         [world[Channel!FabKey(j0)] EXCEPT !.receivedOrder = TRUE]}
    OBVIOUS
  <2>1. PICK id \in TxId : Channel!CommitValid(id)
    BY ChannelOnlyCommitWrites DEF Channel!vars
  <2>2. PICK k \in ChannelKey : \E v :
            /\ world' = [x \in ChannelKey |-> IF x = k THEN v ELSE world[x]]
            /\ \/ \E i \in AssetId : k = Channel!AssetKey(i)
               \/ /\ \E j \in InvoiceKey : k = Channel!FabKey(j)
                  /\ InvoiceEffect(pool[id], k, v)
                  /\ ReadValue(pool[id], k) = world[k]
    BY <2>1, ChannelCommit
  <2>3. Channel!FabKey(j0) \in ChannelKey
    BY ChannelFacts
  <2>4. CASE Channel!FabKey(j0) # k
    BY <2>2, <2>3, <2>4
  <2>5. CASE Channel!FabKey(j0) = k
    BY <2>2, <2>3, <2>5, ChannelFacts DEF InvoiceEffect
  <2> QED
    BY <2>4, <2>5
<1> QED
  BY <1>1, ChannelInductive, PTL DEF Channel!Spec, Channel!InvoicesOnlyMarked
==============================================================================
