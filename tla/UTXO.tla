-------------------------------- MODULE UTXO --------------------------------
(***************************************************************************)
(* The UTXO token contract, chaincode/utxo/chaincode/token_contract.go: a  *)
(* client's money is the set of unspent outputs (UTXOs) it owns, and a     *)
(* transfer deletes some of them and creates others of the same total.     *)
(* Every transaction is simulated and committed on its own (FabricLedger). *)
(*                                                                         *)
(* World-state keys:  utxo.<owner>.<utxo key>   the amount                 *)
(*                    name, symbol              set by Initialize          *)
(* The key of a UTXO is "<transaction id>.<output index>": transaction ids *)
(* are never used twice, so that here TxId is the set of all transactions. *)
(* The contract emits no event; the response of a call tells what it did.  *)
(***************************************************************************)
EXTENDS FabricLedger, SequencesExt

CONSTANTS
    Client,
    Minter,         \* the clients of Org1MSP
    Amount,         \* the amounts a call may ask for, out of the integers > 0
    Option,         \* names and symbols, "" among them
    MaxInt,         \* the largest int
    MaxList         \* bound: the inputs, and the outputs, of a transfer

UtxoName == TxId \X (0..(MaxList - 1))      \* <transaction id>.<index>
UtxoKey(owner, name) == <<"utxo", <<owner, name>>>>
OptionKey(k) == <<"option", k>>

UtxoKeys   == {UtxoKey(c, n) : c \in Client, n \in UtxoName}
OptionKeys == {OptionKey("name"), OptionKey("symbol")}

ASSUME KeyAssumption == Key = UtxoKeys \union OptionKeys
ASSUME ConstantAssumption ==
    /\ IsFiniteSet(Client) /\ Minter \subseteq Client
    /\ MaxInt \in Nat /\ MaxList \in Nat \ {0}
    /\ Amount \subseteq 1..MaxInt
    /\ Absent \notin Nat /\ Absent \notin Option

VARIABLE issued     \* the transaction ids that were used

vars == <<world, version, height, pool, issued>>

-----------------------------------------------------------------------------

\* checkInitialized
Initialized == world[OptionKey("name")] # Absent

\* add of two non-negative ints: the sum, or 0 with an error.
Add(b, q) == IF b + q > MaxInt THEN 0 ELSE b + q

\* The callers in Transfer ignore the error of add.
Sum(amounts) == FoldLeft(Add, 0, amounts)

Put(k, v) == [x \in {k} |-> v]

\* Mint and Transfer answer the UTXOs they create.
Response(call, outputs) == [name |-> call, outputs |-> outputs]

Submit(id, sender, K, writes, response) ==
    /\ id \notin issued
    /\ Endorse(id, sender, K, writes, response)
    /\ issued' = issued \union {id}

-----------------------------------------------------------------------------
(* One action per contract function that writes: its simulation.           *)

OptionWrites(name, symbol) ==
    [k \in OptionKeys |-> Stored(IF k = OptionKey("name") THEN name ELSE symbol)]

\* Mutant: Initialize without its look at the name.
InitializeUnchecked(id, sender, name, symbol) ==
    /\ sender \in Minter
    /\ Submit(id, sender, {OptionKey("name")}, OptionWrites(name, symbol),
              Response("Initialize", <<>>))

\* A call with the empty name leaves the contract as uninitialized as it was.
Initialize(id, sender, name, symbol) ==
    /\ sender \in Minter
    /\ ~Initialized
    /\ Submit(id, sender, {OptionKey("name")}, OptionWrites(name, symbol),
              Response("Initialize", <<>>))

Mint(id, minter, amount) ==
    /\ Initialized
    /\ minter \in Minter
    /\ Submit(id, minter, {OptionKey("name")},
              Put(UtxoKey(minter, <<id, 0>>), amount),
              Response("Mint", <<[owner |-> minter, amount |-> amount]>>))

\* Mutant: the inputs are taken from the arguments and never looked up.
TransferReadsNameOnly(client, inputs) == {OptionKey("name")}

\* The keys a transfer reads: every input is looked up under the caller.
TransferReads(client, inputs) ==
    {OptionKey("name")} \union {UtxoKey(client, n) : n \in ToSet(inputs)}

\* Mutant: the change is put back under the key of the first input.
TransferWritesChangeInPlace(id, client, inputs, outputs) ==
    LET spent == {UtxoKey(client, n) : n \in ToSet(inputs)}
        name(i) == IF inputs # <<>> /\ outputs[i].owner = client THEN inputs[1] ELSE <<id, i - 1>>
        created == {<<UtxoKey(outputs[i].owner, name(i)), outputs[i].amount>> : i \in DOMAIN outputs}
    IN  [k \in spent \union {c[1] : c \in created} |->
            IF \E c \in created : c[1] = k THEN (CHOOSE c \in created : c[1] = k)[2] ELSE Absent]

\* outputs: a sequence of records of an owner and an amount.
TransferWrites(id, client, inputs, outputs) ==
    LET spent == {UtxoKey(client, n) : n \in ToSet(inputs)}
        created == {UtxoKey(outputs[i].owner, <<id, i - 1>>) : i \in DOMAIN outputs}
    IN  [k \in spent \union created |->
            IF k \in spent THEN Absent ELSE outputs[k[2][2][2] + 1].amount]

Transfer(id, client, inputs, outputs) ==
    /\ Initialized
    /\ IsInjective(inputs)
    /\ \A n \in ToSet(inputs) : world[UtxoKey(client, n)] # Absent
    /\ Sum([i \in DOMAIN inputs |-> world[UtxoKey(client, inputs[i])]])
         = Sum([i \in DOMAIN outputs |-> outputs[i].amount])
    /\ Submit(id, client, TransferReads(client, inputs),
              TransferWrites(id, client, inputs, outputs),
              Response("Transfer", outputs))

-----------------------------------------------------------------------------
(* The queries, on the committed state.                                    *)

ClientUTXOs(client) == {n \in UtxoName : world[UtxoKey(client, n)] # Absent}

Balance(client) == SumFunction([n \in ClientUTXOs(client) |-> world[UtxoKey(client, n)]])

Supply == SumFunction([c \in Client |-> Balance(c)])

-----------------------------------------------------------------------------

Init == LedgerInit /\ issued = {}

Output == [owner : Client, amount : Amount]

Simulate(id) ==
    CanEndorse(id) /\ \E sender \in Client :
        \/ \E name, symbol \in Option : Initialize(id, sender, name, symbol)
        \/ \E amount \in Amount : Mint(id, sender, amount)
        \/ \E inputs \in BoundedSeq(ClientUTXOs(sender), MaxList),
              outputs \in BoundedSeq(Output, MaxList) :
                 Transfer(id, sender, inputs, outputs)

Next ==
    \E id \in TxId :
        \/ Simulate(id)
        \/ CommitValid(id) /\ UNCHANGED issued
        \/ MarkInvalid(id) /\ UNCHANGED issued
        \/ Lose(id) /\ UNCHANGED issued

Spec == Init /\ [][Next]_vars

-----------------------------------------------------------------------------
(* Properties.                                                             *)

\* A UTXO is a positive int, and a transaction in flight creates UTXOs under its
\* own id only, where there was none (Mint 56-60, Transfer 139).
TypeOK ==
    /\ \A k \in UtxoKeys : world[k] # Absent => world[k] \in 1..MaxInt
    /\ \A k \in OptionKeys : world[k] \in Option \union {Absent}
    /\ height \in 0..MaxHeight
    /\ InFlight \subseteq issued
    /\ \A id \in InFlight, c \in Client, n \in UtxoName :
          LET k == UtxoKey(c, n) IN
          k \in DOMAIN pool[id].writes /\ pool[id].writes[k] # Absent =>
             /\ n[1] = id
             /\ world[k] = Absent
             /\ pool[id].writes[k] \in 1..MaxInt

\* The accounts behind the UTXOs, of the one token there is.
Balances == [c \in Client |-> [t \in {"utxo"} |-> Balance(c)]]

\* The call a transaction is: its creator pays the outputs; a mint has no payer.
CallOf(tx) ==
    LET outputs == tx.event.outputs IN
    [caller |-> tx.creator, from |-> tx.creator,
     function |-> IF tx.event.name = "Initialize" THEN "none" ELSE tx.event.name,
     payments |-> [i \in DOMAIN outputs |->
                     [to |-> outputs[i].owner, token |-> "utxo", amount |-> outputs[i].amount]]]

Calls == [id \in InFlight |-> CallOf(pool[id])]

\* The chain of transfers behaves like accounts: whatever was endorsed at the
\* same time, a transfer that commits gives its recipients the outputs it
\* answered, and takes their sum from what its own creator has at that moment.
Accounts == INSTANCE TokenAccounts WITH
    Token <- {"utxo"}, Request <- TxId, calls <- Calls, served <- height,
    balance <- Balances, operators <- {}

AccountsSpec == Accounts!Spec

\* A UTXO is written once, by the transaction whose id it bears, and is then
\* only ever deleted, by a transaction of the client that owns it.
OnlyOwnerSpends ==
    [][\A c \in Client, n \in UtxoName :
         LET k == UtxoKey(c, n) IN
         world'[k] # world[k] =>
            \E id \in InFlight :
               /\ pool'[id] = Idle
               /\ IF world[k] = Absent THEN n[1] = id
                  ELSE world'[k] = Absent /\ pool[id].creator = c]_vars

\* Transfers that spend the same UTXO may be endorsed side by side, each of them
\* having found it; the one that commits later is refused: what a committed
\* transfer deletes was there until then (the lookups of Transfer, 103-114).
NoDoubleSpend ==
    [][\A id \in InFlight :
         pool'[id] = Idle /\ height' # height =>
            \A k \in UtxoKeys \intersect DOMAIN pool[id].writes :
               pool[id].writes[k] = Absent => world[k] # Absent]_vars

\* Initialize may be endorsed several times before one commits: the options of
\* the first to commit are not written again.
InitializedOnce ==
    [][Initialized => \A k \in OptionKeys : version'[k] = version[k]]_vars

\* "Validate total inputs equals total outputs": a transfer leaves the supply as
\* it was.  Transfer drops the error add returns on overflow, and with it a sum.
TransferKeepsSupply ==
    [][\A id \in InFlight :
         pool'[id] = Idle /\ pool[id].event.name = "Transfer" => Supply' = Supply]_vars
=============================================================================
