----------------------------- MODULE MCEventApi -----------------------------
(* Small instances of EventApi for TLC. *)
EXTENDS EventApi

CONSTANTS p1, p2
=============================================================================
