----------------------------- MODULE FabInvoice -----------------------------
(***************************************************************************)
(* The invoice contract in Java, chaincode/chaincode-java: an invoice per  *)
(* key, which anyone may mark.  Of its fields those that change are kept;  *)
(* the rest is written at creation and copied.                             *)
(***************************************************************************)
EXTENDS FabricLedger

CONSTANT InvoiceKey  \* the keys clients use

FabKey(k) == <<"fabinvoice", k>>
FabKeys == {FabKey(k) : k \in InvoiceKey}

\* The constructor takes `received`; a new object's order is not received.
Invoice(received) == [received |-> received, receivedOrder |-> FALSE]
Invoices == [received : BOOLEAN, receivedOrder : BOOLEAN]

PutInvoice(k, v) == [x \in {FabKey(k)} |-> v]

\* Nothing is called of any other contract.
Silent == [function |-> "none", args |-> <<>>]

-----------------------------------------------------------------------------

createInvoice(id, sender, k, received) ==
    /\ world[FabKey(k)] = Absent
    /\ Endorse(id, sender, {FabKey(k)}, PutInvoice(k, Invoice(received)), Silent)

\* It makes a new object of seven of the old one's fields; the order's is not
\* among them.
markAsReceived(id, sender, k) ==
    /\ world[FabKey(k)] # Absent
    /\ Endorse(id, sender, {FabKey(k)}, PutInvoice(k, Invoice(TRUE)), Silent)

\* Mutant: it marks an object it kept from an earlier call.
markOrderReceivedCached(id, sender, k) ==
    /\ world[FabKey(k)] # Absent
    /\ Endorse(id, sender, {},
               PutInvoice(k, [world[FabKey(k)] EXCEPT !.receivedOrder = TRUE]), Silent)

markOrderReceived(id, sender, k) ==
    /\ world[FabKey(k)] # Absent
    /\ Endorse(id, sender, {FabKey(k)},
               PutInvoice(k, [world[FabKey(k)] EXCEPT !.receivedOrder = TRUE]), Silent)

SimulateInvoice(id, sender) ==
    \E k \in InvoiceKey :
        \/ \E received \in BOOLEAN : createInvoice(id, sender, k, received)
        \/ markAsReceived(id, sender, k)
        \/ markOrderReceived(id, sender, k)

-----------------------------------------------------------------------------

\* A stored invoice stays, keeps that it was received, and loses the mark of its
\* order to nothing but a markAsReceived: the stale copy of a concurrent call
\* never comes back.
InvoicesOnlyMarked ==
    [][\A k \in InvoiceKey :
         LET now == world[FabKey(k)] IN
         now # Absent => world'[FabKey(k)] \in
            {now, Invoice(TRUE), [now EXCEPT !.receivedOrder = TRUE]}]_<<world>>
=============================================================================
