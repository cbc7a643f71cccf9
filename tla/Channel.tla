------------------------------- MODULE Channel -------------------------------
(***************************************************************************)
(* A channel with two contracts, the example contract in Go and the        *)
(* invoice contract in Java.  Each has its keys; the transactions of both  *)
(* are ordered in one ledger.                                              *)
(***************************************************************************)
EXTENDS BasicAsset, FabInvoice

ASSUME KeyAssumption == Key = AssetKeys \union FabKeys

ASSUME ConstantAssumption ==
    /\ NoOne \notin Client
    /\ Invoice1 \in AssetId
    /\ Absent \notin Asset \union Invoices \union {AsInvoice(a) : a \in Asset}

vars == <<world, version, height, pool>>

Init == LedgerInit

Next ==
    \E id \in TxId :
        \/ CanEndorse(id) /\ \E sender \in Client : SimulateAsset(id, sender)
        \/ CanEndorse(id) /\ \E sender \in Client : SimulateInvoice(id, sender)
        \/ CommitValid(id)
        \/ MarkInvalid(id)
        \/ Lose(id)

Spec == Init /\ [][Next]_vars

-----------------------------------------------------------------------------

\* Each contract finds values of its own under its keys.
TypeOK ==
    /\ \A k \in AssetKeys : world[k] # Absent => world[k] \in Asset
    /\ \A k \in FabKeys : world[k] # Absent => world[k] \in Invoices
    /\ version \in [Key -> 0..height]
    /\ height \in 0..MaxHeight
    /\ \A id \in InFlight :
          DOMAIN pool[id].reads \subseteq Key /\ DOMAIN pool[id].writes \subseteq Key

\* Every call of the example contract that is committed does what it would do for
\* its caller if it ran at that moment: one of two calls that create an asset
\* comes too late, and who transfers an asset owns it then, and not only when the
\* call was endorsed.  (Updating, deleting and initialising are open to
\* everybody.)  The other contract's calls do nothing to the assets.
AssetsSpec == Registry!Spec
==============================================================================
