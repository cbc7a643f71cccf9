--------------------------- MODULE InvoiceRegistry ---------------------------
(***************************************************************************)
(* What the invoice contracts promise, with no ledger under them: every    *)
(* call does what its function says, for its caller and its arguments, at  *)
(* once, on the state it finds.  It is the reading a user has of           *)
(* chaincode/invoice-net/chaincode-external/assetTransfer.go, and without  *)
(* roles and marks of chaincode/chaincode-external.                        *)
(*                                                                         *)
(* Invoices and lists of roles share one space of ids: what is stored      *)
(* under an id replaces whatever was there.                                *)
(*                                                                         *)
(* A call is a record of the caller, the function and its arguments.       *)
(***************************************************************************)
EXTENDS ContractCalls

CONSTANTS
    NoOne,          \* the empty name
    NoInvoice,
    Id,
    First, Initial, \* the id that is initialised; its invoice, by caller
    Paid,           \* the mark of a payment
    RoleList        \* the id under which a name's roles are kept

VARIABLES
    invoice,        \* the invoice under an id, or NoInvoice
    roles           \* the roles of a name

RoleHolder == DOMAIN RoleList

Occupied(i) ==
    invoice[i] # NoInvoice \/ \E n \in RoleHolder : RoleList[n] = i /\ roles[n] # {}

IsParty(c, i) == invoice[i] # NoInvoice /\ c \in {invoice[i].owner, invoice[i].buyer}

Store(i, value) ==
    /\ invoice' = [invoice EXCEPT ![i] = value]
    /\ roles' = [n \in RoleHolder |-> IF RoleList[n] = i THEN {} ELSE roles[n]]

Init ==
    /\ CallsInit
    /\ invoice = [i \in Id |-> NoInvoice]
    /\ roles = [n \in RoleHolder |-> {}]

\* Anyone may put the first invoice back to what it was.
Initialise(caller) == Store(First, Initial[caller])

Create(caller, i, buyer, paid, payer) ==
    /\ ~Occupied(i)
    /\ Store(i, [owner |-> caller, buyer |-> buyer,
                 marks |-> IF paid THEN {Paid} ELSE {}, payer |-> payer])

\* A party adds one mark and keeps the others; a payment also names the payer.
Record(caller, i, mark, payer) ==
    /\ IsParty(caller, i)
    /\ Store(i, [owner |-> invoice[i].owner, buyer |-> invoice[i].buyer,
                 marks |-> invoice[i].marks \union {mark},
                 payer |-> IF mark = Paid THEN payer ELSE invoice[i].payer])

\* A party that is the owner.
Transfer(caller, i, newOwner) ==
    /\ IsParty(caller, i)
    /\ caller = invoice[i].owner
    /\ Store(i, [invoice[i] EXCEPT !.owner = newOwner])

\* Anyone may replace or delete what is stored; a replacement has no buyer.
Replace(i, owner, marks, payer) ==
    /\ Occupied(i)
    /\ Store(i, [owner |-> owner, buyer |-> NoOne, marks |-> marks, payer |-> payer])

Delete(i) == Occupied(i) /\ Store(i, NoInvoice)

\* A role is added to those there are, or, if they could not be read, becomes
\* the only one.  If it cannot be stored, nobody is told.
Append(n, role) ==
    \/ /\ \E old \in {roles[n], {}} : roles' = [roles EXCEPT ![n] = old \union {role}]
       /\ invoice' = [invoice EXCEPT ![RoleList[n]] = NoInvoice]
    \/ UNCHANGED <<invoice, roles>>

Run(caller, function, args) ==
    \/ function = "Initialise" /\ Initialise(caller)
    \/ function = "Create" /\ Create(caller, args[1], args[2], args[3], args[4])
    \/ function = "Record" /\ Record(caller, args[1], args[2], args[3])
    \/ function = "Transfer" /\ Transfer(caller, args[1], args[2])
    \/ function = "Replace" /\ Replace(args[1], args[2], args[3], args[4])
    \/ function = "Delete" /\ Delete(args[1])
    \/ function = "Append" /\ Append(args[1], args[2])
    \/ function = "none" /\ UNCHANGED <<invoice, roles>>

Next ==
    \E r \in Request :
        \/ Submit(r) /\ UNCHANGED <<invoice, roles>>
        \/ Serve(r) /\ Run(calls[r].caller, calls[r].function, calls[r].args)
        \/ Refuse(r) /\ UNCHANGED <<invoice, roles>>

vars == <<invoice, roles, calls, served>>

Spec == Init /\ [][Next]_vars
==============================================================================
