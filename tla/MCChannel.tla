------------------------------ MODULE MCChannel ------------------------------
(* Small instances of Channel for TLC. *)
EXTENDS Channel, TLC

MCKey == AssetKeys \union FabKeys

InFlightSymmetry == Permutations(TxId)
==============================================================================
