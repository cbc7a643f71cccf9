------------------------------- MODULE MCUTXO -------------------------------
(* Small instances of UTXO for TLC. *)
EXTENDS UTXO

MCKey == UtxoKeys \union OptionKeys

TxSymmetry == Permutations(TxId)
=============================================================================
