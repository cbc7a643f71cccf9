---------------------------- MODULE MCInvoiceNet ----------------------------
(* Small instances of InvoiceNet for TLC. *)
EXTENDS InvoiceNet, TLC

MCKey == Id \union RolesKeys

\* An update that records one mark and erases the others.
MCGivenMarks == {{"received"}}

InFlightSymmetry == Permutations(TxId)
=============================================================================
