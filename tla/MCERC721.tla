------------------------------ MODULE MCERC721 ------------------------------
(* Small instances of ERC721 for TLC. *)
EXTENDS ERC721, TLC

MCKey == NftKeys \union BalanceKeys \union ApprovalKeys \union OptionKeys

InFlightSymmetry == Permutations(TxId)
=============================================================================
