------------------------------ MODULE MCERC1155 ------------------------------
(* Small instances of ERC1155 for TLC. *)
EXTENDS ERC1155

CONSTANTS alice, bob

MCKey == BalanceKeys \union ApprovalKeys \union OptionKeys
MCKeyOrder == <<alice, bob>>

InFlightSymmetry == Permutations(TxId)
=============================================================================
