----------------------------- MODULE FabricLedger -----------------------------
(***************************************************************************)
(* The ledger every chaincode of the repository runs on, as the chaincodes *)
(* and their clients use it (Hyperledger Fabric is not in the repository). *)
(*                                                                         *)
(* A call is SIMULATED by an endorsing peer against the committed world    *)
(* state: GetState and the range queries see committed values only, never  *)
(* the call's own writes, and the simulation records the version of every  *)
(* key it read and the last value it put, or the deletion, of every key it *)
(* wrote.  The endorsed transaction waits to be ordered.  When it reaches  *)
(* the committers it is VALID if every key it read still has the version   *)
(* it had then, and its writes are applied atomically; otherwise it is     *)
(* marked invalid and changes nothing.  It may also never be ordered.      *)
(*                                                                         *)
(* A range query reads every key of the range, the absent ones included:   *)
(* the committers repeat the query and refuse the transaction if a key     *)
(* appeared, changed or went.  An endorsing peer that lags behind is a     *)
(* transaction that waited longer.                                         *)
(***************************************************************************)
EXTENDS Naturals

CONSTANTS
    Key,        \* the keys of the chaincode's namespace
    Absent,     \* the value of a key that is not in the world state
    TxId,       \* the transactions that may be in flight at a time
    Idle,       \* the pool entry of a transaction id not in use
    MaxHeight   \* bound: the number of valid transactions committed

ASSUME MaxHeightAssumption == MaxHeight \in Nat

VARIABLES
    world,      \* the committed value of every key
    version,    \* the height at which that value was written, 0 if absent
    height,     \* how many valid transactions are committed
    pool        \* the endorsed transactions that are not committed yet

ledgerVars == <<world, version, height, pool>>

LedgerInit ==
    /\ world = [k \in Key |-> Absent]
    /\ version = [k \in Key |-> 0]
    /\ height = 0
    /\ pool = [id \in TxId |-> Idle]

InFlight == {id \in TxId : pool[id] # Idle}

\* What GetState returned for the keys K and the versions it recorded.
ReadSet(K) == [k \in K |-> [version |-> version[k], value |-> world[k]]]

\* A client may have a call endorsed under this id.
CanEndorse(id) == pool[id] = Idle /\ height < MaxHeight

\* PutState of an empty string: the key is not in the world state afterwards.
Stored(value) == IF value = "" THEN Absent ELSE value

\* A call that read the keys K and put `writes` is endorsed as transaction id.
\* With the writes it carries the event that the contract set or, where nobody
\* listens to the contract's events, what was called or answered.
Endorse(id, creator, K, writes, event) ==
    /\ CanEndorse(id)
    /\ pool' = [pool EXCEPT ![id] = [creator |-> creator, reads |-> ReadSet(K),
                                     writes |-> writes, event |-> event]]
    /\ UNCHANGED <<world, version, height>>

\* The committers' version check.
Valid(tx) == \A k \in DOMAIN tx.reads : tx.reads[k].version = version[k]

\* The ledger after `writes`: a deleted key has no version.
Applied(writes) == [k \in Key |-> IF k \in DOMAIN writes THEN writes[k] ELSE world[k]]

VersionAfter(writes) ==
    [k \in Key |-> IF k \notin DOMAIN writes THEN version[k]
                   ELSE IF writes[k] = Absent THEN 0 ELSE height + 1]

CommitValid(id) ==
    /\ pool[id] # Idle
    /\ Valid(pool[id])
    /\ height < MaxHeight
    /\ world' = Applied(pool[id].writes)
    /\ version' = VersionAfter(pool[id].writes)
    /\ height' = height + 1
    /\ pool' = [pool EXCEPT ![id] = Idle]

\* The transaction is ordered after one it conflicts with.
MarkInvalid(id) ==
    /\ pool[id] # Idle
    /\ ~Valid(pool[id])
    /\ pool' = [pool EXCEPT ![id] = Idle]
    /\ UNCHANGED <<world, version, height>>

\* The transaction never reaches the orderer: its client stopped or gave up.
Lose(id) ==
    /\ pool[id] # Idle
    /\ pool' = [pool EXCEPT ![id] = Idle]
    /\ UNCHANGED <<world, version, height>>

-----------------------------------------------------------------------------

\* What a validated read means: a key whose version did not change holds the
\* value that was read.  A key that is absent now and was absent then counts
\* as unchanged even if it existed in between.
ReadsAreCurrent ==
    \A id \in InFlight : \A k \in DOMAIN pool[id].reads :
        pool[id].reads[k].version = version[k] => pool[id].reads[k].value = world[k]
===============================================================================
