# A verification of scray-ledger in TLA+

scray-ledger packages Hyperledger Fabric: token and invoice contracts
(chaincode), REST interfaces to events and blocks, and scripts that install
peers, channels and contracts.  This directory models its own logic in TLA+,
checks the models with TLC on small instances, and proves the central results
with TLAPS for every value of the constants.

`PROJECT.json` is the index: it lists the runs, the source lines each definition
stands for, the hazards the properties are aimed at, the findings and the
theorems.

Run a model with `tlc -config MCUTXO.cfg MCUTXO.tla`, check the proofs of a module
with `tlapm ERC1155Proof.tla`; the proof modules are those named `*Proof.tla`.

## 1. The system

| Component | Source | State | Operations |
|---|---|---|---|
| Fabric ledger (external) | used by every contract | world state with a version per key, transactions in flight | simulate, order, validate, commit, events |
| ERC-721 contract | `chaincode/erc-721/chaincode` | a record per token, a marker per owner and token, approvals, name and symbol | MintWithTokenURI, Approve, SetApprovalForAll, TransferFrom, Burn, SetOption, queries |
| UTXO contract | `chaincode/utxo/chaincode/token_contract.go` | an amount per owner and output | Initialize, Mint, Transfer, ClientUTXOs |
| ERC-1155 contract | `chaincode/erc-1155/chaincode/contract.go`, copied to `chaincode/utxo` | an amount per account, token and *sender*; approvals; name, symbol, uri | Initialize, Mint(Batch), Burn(Batch), TransferFrom, BatchTransferFrom, BatchTransferFromMultiRecipient, SetApprovalForAll, SetURI, BroadcastTokenExistance |
| Event API | `scray-ledger-rest-api/event-api` | a static registry, two hash maps, a gateway connection and a queue of ten events per subscription | POST a subscription, GET its events |
| Audit API | `scray-ledger-rest-api/audit-api` | a static hash map of block clients, one per channel | GET a block |
| Invoice contract (Go) | `chaincode/invoice-net/chaincode-external` | an invoice per id with flags, a role list per name | create, update, mark, transfer, delete, AppendRole |
| Invoice contract (Java) | `chaincode/chaincode-java` | an invoice per key | createInvoice, markAsReceived, markOrderReceived |
| Basic asset contract | `chaincode/chaincode-external` | an asset per id | create, update, transfer, delete |
| Installer, lifecycle scripts | `installer`, `containers/hl-fabric-node-configurator` | channel configuration, approved and committed chaincode definitions, files on the data share | create peer and channel, add a peer, install, approve, commit |
| Client applications, invoice service, tools, notebooks, deployment files | `applications`, `invoice-service`, `tools`, `python`, `containers/*.yaml` | none that lasts, or a list of received events | call the contracts, write profiles and wallets |

**How they interact.**  Clients never write state.  They have a call simulated
by a contract on an endorsing peer, which records what the call read and wrote,
and hand the result to the orderer; committers apply it, all at once, if what it
read has not changed.  The contract's event of an applied transaction reaches
the listeners, among them the Event API, which keeps the last ten for its REST
clients.  The lifecycle scripts bring peers and contracts into a channel.

**What is hard.**  A contract function looks like a sequential program, but its
checks and its effects are separated by an unbounded time in which other calls
take effect; nothing in the repository's tests runs two calls at once (they
drive the contracts through mock stubs).  The REST services handle requests in
parallel over unsynchronised maps and check-then-act on static fields.  The
scripts read shared configuration, edit it and write it back.

**What makes the components correct.**

* Ledger: a validated read is current when its transaction takes effect.
* ERC-721: markers are the inverse of the owner fields; nobody acts with an
  authority that was withdrawn; events tell the whole story; in all, the
  contract behaves as if every call happened at once.
* UTXO and ERC-1155: what is committed does what its own call says, for the client
  who made it: a transfer charges its caller, or a holder who allows the caller to
  at that moment, exactly what its recipients get; no output is spent twice; the
  keys an ERC-1155 balance is split into behave as one balance; sums stay in
  range; a contract is initialised once.
* Event API: an id that was answered can be used; the buffer is a window of the
  channel; a client that polls often enough misses nothing; requests end.
* Audit API: a GET finds the client it put into the shared map; the block and the
  height it answers are those of peers of the channel, and fit together unless a
  peer lagged behind; requests end.
* Invoice and example contracts: a call that is committed does what its function
  would do at that moment for its caller, so that no mark, sale or role undoes
  another made meanwhile and nobody sells what is no longer his; roles are lost only where a
  function takes them for absent; contracts of one channel leave each other alone.
* Channel: a peer that is added changes nothing but its own membership, whatever
  failed on the way; the peer then joins; the add ends.
* Chaincode lifecycle: the approval of an undisturbed script is one of the definition
  that comes next; an undisturbed install leaves its organisation a contract it can run; a new
  policy takes effect by one commit when all have approved it.

## 2. Modules

```
FabricLedger ── ERC721 ────── refines TokenRegistry
     ├───────── UTXO ───┐
     ├───────── ERC1155 ┴─── both refine TokenAccounts
     ├───────── InvoiceNet ─────────┐
     └── Channel ── BasicAsset ─────┴─ both refine InvoiceRegistry
              └──── FabInvoice
ContractCalls ── TokenAccounts, InvoiceRegistry     (how a contract is called)
SortedKeys       (one function of ERC1155)
EventApi         AuditApi         ChannelMembers         CcLifecycle

Proofs (TLAPS), each in a module that extends the one it is about:
ERC721Proof      UTXOProof        ERC1155Proof           InvoiceNetProof (and Channel)
EventApiProof    AuditApiProof    ChannelMembersProof    CcLifecycleProof
```

**FabricLedger** is external code, modelled as the contracts use it.  `Endorse`
records the read set with versions (`ReadSet`) and the write set; a read sees
committed values only, never the call's own writes, as on a Fabric peer.
`CommitValid` applies the writes if `Valid`, `MarkInvalid` drops a transaction in
conflict, `Lose` one that is never ordered.  A deleted key has version 0, like
one that never existed, so that a key created and deleted in between counts as
unchanged; putting an empty value is deleting (`Stored`).  The `event` of a
transaction tells what was called: for ERC-721 and ERC-1155 it is the contract's
event, for the contracts that emit none the response (UTXO) or the invocation.
Each contract module supplies the simulations.

**ContractCalls** is the common part of two abstract specifications: a call, a record
of its caller, its function and its arguments, is submitted, does not change while
it waits, and is served once or refused.  A contract module says with `CallOf` which
call each transaction in flight is, the caller being the transaction's creator, so
that a refinement says of every commit that it does what *this* call says, on the
state at that moment.  `served` is the height of the ledger: no call takes effect
without being committed, and none is committed without taking effect.

**ERC721** has one action per contract function that writes; the guards are the
function's checks, `XWrites` its PutState and DelState calls with the last one per
key winning, `XEvent` what it emits.  The reads of an action are the keys its
GetState calls name, whichever way the checks go: `TransferFrom` reads the
operator approval even for the owner, and `SetApprovalForAll` reads nothing and
is never refused.  `Observe` is a listener that applies the events in commit
order.  Left out: token URIs, the identity's base64 encoding, and `Init`,
`InitLedger` and `Invoke`, which do nothing.

**TokenRegistry** says what ERC721 promises: each function at once, with no
ledger below it.  The mapping reads the owner and approved fields and the
approvals from the world state.

**UTXO**: an output is a key `utxo.<owner>.<transaction>.<index>`.  Transaction ids
are never used again, so that `TxId` holds all transactions of a behaviour and
`issued` those that were used.  `Add` is the code's: the sum, or 0 if it leaves the
int; `Sum` ignores the error as Transfer does.  Initialize may be called with the empty
name, which leaves the contract uninitialized.  The contract emits no event, but
Mint and Transfer answer the outputs they create: that `Response` is what `CallOf`
takes the payments from.

**ERC1155**: `Parts`, `Collected`, `Seen`, `SeenKeys`, `Remainder` and `RemoveWrites`
are the loop of removeBalance: it walks the parts of a balance in key order
until it has enough, deletes them, and puts the remainder under the account's
own key, whether that was among them, lies beyond, or does not exist.  A key
that is absent counts as a part of 0 that the loop passes over.  `AllWrites` joins
the withdrawals and the deposits of a transfer.  A batch is a
sequence of payments, grouped by `Need` and `Share` as the code groups by Go
maps.  Single calls are batches of one: their code differs in the event's name
only, and the listener treats the three transfer events alike.  `CallOf` takes the
call of a transaction from its event and its creator.  The whole range
of a partial query counts as read: the peer fetches a page of up to 100 keys
whatever the contract consumes.

**TokenAccounts** is what both promise.  A call does exactly what it says, at once: a
minter's Mint credits its payments, a minter's Burn charges the account it names, and
a Transfer charges the caller itself or a holder that approves the caller *then*,
for exactly what the recipients of its payments get, out of a balance that covers
it.  `SetApprovalForAll` changes the caller's own approvals only.

**SortedKeys** runs the insertion sort of `sort.Slice` with the comparator of
sortedKeysToID from every iteration order of the map.

**EventApi** splits a POST where another thread can come between: the test of the
static field (`Begin`), its assignment (`Create`), the two `HashMap.put` calls with
their begin and end, the second reading of the static field (`BeginConnect`), the
registration of the listener (`Run`).  Puts that overlap on one map may lose any
of its entries, a larger choice than Java makes.  A GET is a begin and an end;
if the gateway's thread adds to the queue in between, it fails or answers any
set of delivered events.

**InvoiceNet** is the Go invoice contract.  An invoice keeps its owner, buyer and
payer and the four marks that functions set after its creation; the other fields
are written once and copied.  Ids and the keys `roles_<name>` share one key space,
and no function tells them apart: unmarshalling a value of the other kind is no
error and leaves its fields empty (`ReadAssetTest`, `LocalGetRoles`).
`MarkInvoice` stands for the four functions that record a mark (`Marked`), `AppendRole` has a
flag each for a read that fails, which the code takes for "no roles yet", and for
a PutState whose error it ignores.  `UpdateAsset` has no argument for the buyer
and writes an empty one.  `RegisteredInvoice` and `RegisteredRoles` are the registry
a world state stands for.

**BasicAsset** and **FabInvoice** are the example contract in Go and the invoice
contract in Java; **Channel** composes them on one ledger, where each has a key
space of its own and the transactions of both are in flight together.  The Go
contract's `UpdateAsset` stores the id and nothing else; the Java contract's
`markAsReceived` builds a new object, and with it the order's mark is lost.

**InvoiceRegistry** says what InvoiceNet and BasicAsset promise: each function at
once, for the caller and the arguments of the call (`Invocation`), and a store under an
id replaces whatever was there, an invoice or roles.  Only a party marks an invoice
and only its owner sells it; initialising, replacing and deleting are open to
everybody, as in the code, so that nothing is promised of an asset beyond a single
call.

**AuditApi** splits a GET where another thread can come between: the test of the
map, the two ends of its `HashMap.put`, reading the client back, the query of the
block, the query of the height.  Each of the two queries goes to any peer of the
channel, and every peer receives the blocks at its own time (`AppendBlock`), so that the
second may be answered by one that lags behind the first.  Puts that overlap may
lose any entry; a `get` during a put may miss one.  A failing query is swallowed by
the code and answers 200 with no block.

**ChannelMembers** follows a peer from its init container (`Configure`, `Publish`,
`RestartNode`) over `inform_existing_nodes.sh`, one action per command that reads
or writes a file, to `peer_join.sh`.  The scripts for all peers run in the
orderer's container, on the same files: a step finds what is there, which another
run may have put there or be half through writing (`Seen`).  A run's overlap with
another is noted, also where two overlap while a third peer waits to join.  No exit code is
looked at, so each failing command is a branch that goes on.  The orderer
(`Accepted`) is external: it takes an update computed from the configuration in
force, signed as that demands; the script signs for one organisation only, which
is a majority as long as there is no other, and cannot change another's
definition.  A definition is named by its peer because `check-configuration.sh`
never makes a second one.  Two `add-peer.sh` for one peer at a time are left out.

**CcLifecycle** has the scripts of `conf/peer`: each is run by an organisation,
reads a sequence number, works with it later, and goes on whatever a command
returns.  What peers and orderer accept (`MayApprove`, `MayCommit`,
`QueryApproved`) is external; commits need one organisation's endorsement, as
`LifecycleEndorsement` in `orderer/configtx.yaml` says.  Package ids are left out, and
so is a command that takes effect but reports an error, which is to the script
the same as success.  An organisation runs one script at a time.

Definitions marked *Mutant* are not part of the models: each is what a plausible
bug would make of the definition that follows it, kept to show that the
properties notice (see `mutants` in PROJECT.json).

## 3. Runs

| Run | Instance | Checks |
|---|---|---|
| `erc721` | 2 clients (1 minter), 1 token, 2 transactions in flight, 4 commits | `TypeOK`, `BalancesMatchOwners`, `ObserverAgrees`, `NoStaleAuthority`, `Serialisable` (refines TokenRegistry) |
| `utxo` | 2 clients (1 minter), amounts 1 and 2, an empty name and another, 5 transactions, up to 2 inputs and outputs | `TypeOK`, `AccountsSpec` (refines TokenAccounts), `OnlyOwnerSpends`, `NoDoubleSpend`, `InitializedOnce` |
| `utxo_overflow` | the same with ints up to 3 | `TransferKeepsSupply`: violated |
| `erc1155` | 2 clients (1 minter), 1 token, amount 1, uint64 up to 2, batches of up to 2, 2 in flight, 5 commits | `TypeOK`, `ObserverAgrees`, `AccountsSpec`, `InitializedOnce`, `SplitBalanceIsSpendable` |
| `sorted_keys` | up to 3 of 4 keys in every order | `SortedByIdThenRecipient`: violated |
| `event_api` | 2 POSTs, buffer of 2, 3 events | `TypeOK`, `UsableUnlessOverlapped`, `BufferIsWindow`, `PollsMissNothing`, `AllDelivered`, `EveryRequestEnds` |
| `event_api_race` | the same | `AnsweredIsUsable`: violated |
| `invoice_net` | 2 clients, 1 invoice id and 1 key of roles, 2 roles, 2 transactions in flight, 3 commits | `TypeOK`, `RegistrySpec` (refines InvoiceRegistry), `RolesKept` |
| `channel_contracts` | 2 clients, 2 assets, 1 Java invoice, 2 transactions in flight, 4 commits | `TypeOK`, `AssetsSpec` (refines InvoiceRegistry), `InvoicesOnlyMarked` |
| `channel_members` | 2 peers, 3 runs of add-peer.sh | `TypeOK`, `AddsOnlyItsPeer`, `JoinsUnlessDisturbed`, `AddEnds` |
| `cc_lifecycle` | 2 organisations, 3 committed definitions | `TypeOK`, `ApprovalCounts`, `InstalledIsUsable`, `NewPolicyIsUsable`, `ScriptsEnd` |
| `audit_api` | 2 GETs, 2 channels of up to 3 blocks, 2 peers | `TypeOK`, `FailsOnlyByRace`, `AnswerIsOnChain`, `EveryRequestEnds` |

**Bounds, and why they are enough.**  Every bound is a constant.

* *Two transactions in flight* (`TxId` in erc721, erc1155) are enough for one to
  invalidate the other; ids are used again after commit, so that a transaction
  can wait through many others.  A conflict among three contains one among two,
  as validation compares a transaction with the state only.
* *`MaxHeight`*: four commits allow mint, approval, transfer, and a transfer or
  burn by a third party; five allow initialise, two mints, a transfer and a
  withdrawal that collects two parts.  Names: two clients give owner and other,
  in ERC-1155 also the two positions of the own key in the key order.
* *`MaxInt`* replaces the width of int and uint64: 15 is never reached by
  `utxo`, so that its results are about double spending and not overflow; 3 is
  passed in `utxo_overflow`, and 2 by the deposits of `erc1155`.
* *`Cap` and `MaxEvents`*: a buffer of 2 instead of 10 overflows with 3 events.
* *`invoice_net`*: three commits are an invoice, a mark and what a third
  transaction, simulated between them, would undo; both clients can be owner and
  buyer, and either kind of value can be stored under the key of roles.  One
  payer and one combination of marks (one set, the others erased) suffice, since
  no function looks at them.
* *`MaxAdds`*: three runs are an overlap of two that does damage and a later run
  that meets it; two peers beside the creating organisation are the first that
  a majority of one cannot admit.  What two runs do to a third peer that waits to
  join takes three peers and is covered by the proof (section 5).
* *`MaxSequence`*: the third definition is the first whose predecessor had one, so
  that left-over approvals of both kinds exist; two organisations are one that
  commits and one that has or has not approved.
* *`audit_api`*: two requests race with their puts and with a put and a reading; with
  two peers one can lag behind the other by two blocks; block 1 is missing at the
  start, block 2 comes while requests run.
* *Amount*: two amounts let an output be split and merged; one is enough in
  ERC-1155, where batches add amounts up.

Transaction ids are symmetric where no liveness is checked.  Deadlock is not
checked: a bounded ledger stops at `MaxHeight`, scripts are run a bounded number
of times, and a REST service that received all its requests and events is idle.

**Fairness.**  The contracts are checked for safety: no client must call, and the
orderer may lose a transaction, so nothing must happen.  EventApi assumes weak
fairness of each started request's next step (the servlet container's threads
run on) and of each delivery (the Fabric gateway's thread calls the listener
while there are events).  Nobody is assumed to send a POST or a GET, and no
contract to emit an event.  AuditApi assumes the same of each started GET
(`Continue`), ChannelMembers and CcLifecycle weak fairness of each started
script's next command (`AddPeer`, `Step`): the commands are run one after the other
by a shell, each returns, and none waits for a state of the channel.  Nobody must
start a script, no init container must finish, and no block must be appended.
A gateway connection that breaks for good is not
modelled; one that cannot be made is (`Run` may leave the listener out).

## 4. What the runs found

* **Transfer ignores the overflow of `add`** (`utxo_overflow`).  `token_contract.go`
  assigns the error at lines 126 and 141 and does not look at it; the running
  total restarts from 0.  With totals compared that way, a transfer of other
  outputs than inputs can be committed, against the comment at line 144.
* **sortedKeysToID does not sort as its comment says** (`sorted_keys`).  The
  comparator compares recipients when the ids differ and equal ids when they do
  not.  The states that result are the same in every order; what depends on it
  is which of several errors a peer reports.
* **An id may be answered that leads nowhere** (`event_api_race`).  Two first POSTs
  both find the registry empty; the second to assign it discards the first's
  subscription.  `UsableUnlessOverlapped` holds: it takes two POSTs in progress
  together.

Met while modelling or proving and not the subject of a run:

* Two `inform_existing_nodes.sh` that overlap can drop a member from the channel or
  register a peer under the definition of another, which no later run repairs:
  its definition can be changed with its own signature only.  `AddsOnlyItsPeer`
  and `JoinsUnlessDisturbed` except such runs, and TLC reaches both outcomes.
* Such a pair also undoes the run of a third peer that has been admitted and waits to
  join: one of the pair has edited a configuration from before the admission, the
  other fetches `config.json` anew, and the update computed between the two takes
  the third out.  The proof
  of `JoinsUnlessDisturbed` failed at this step until the waiting peer counted as
  disturbed, too.
* The totals of UTXO are kept only while they fit an int: the refinement of
  TokenAccounts is proved under that hypothesis and from a bound on the amounts
  (section 5), and is not true of the contract as such (see the overflow above).
* An init container that is stopped between the first and the last line of its work
  never publishes its definition: `check-configuration.sh:4` sees the directory and
  skips everything.  An `add-peer.sh` for it still ends, without a member.
* The request of a new member is fetched from a URL with `mychannel` in it
  (`inform_existing_nodes.sh:36`), whatever the channel.
* Each install resets a channel's custom endorsement policy to the default one
  (`install_and_approve_cc.sh:38`, `cc_commit.sh:13` name none), and the other
  organisations cannot run the contract until they approve anew.
* An ERC-1155 account whose parts exceed uint64 in all is never locked, but some
  payments fail that a smaller balance could make: with a width of 2, parts 1 and
  2, a payment of 2 collects 3 when the 1 comes first.  What remains payable is
  `SplitBalanceIsSpendable`.
* `UpdateAsset` of the example contract stores an asset without owner and buyer
  (`assetTransfer.go:136` announces the provided parameters), which nobody may read or
  transfer afterwards; that of the invoice contract drops the buyer.
* The Java contract loses the mark of the order in one order of its two mark
  functions and keeps it in the other.
* The height in an audit answer need not be above its block: `channelHeight` ("the
  current ledger blocks height", `Block.java:15`) comes from a second query, which a
  peer that lags behind may answer.  `AnswerIsOnChain` says when they fit.
* The audit API answers the writes of refused transactions like those of valid ones
  (`BlockchainOperations.java:243`), opens a gateway for each GET, and answers 200
  with an empty body for a block that does not exist.
* The ERC-721 tests act as `Org1MSP` (`erc721-contract_test.go`) where the contract
  wants `peer403MSP`; `chaincode/utxo/chaincode` holds two files that declare the same
  type, and does not compile as it is; the example client calls `CreateAsset` with
  three arguments where the contract takes two.

## 5. Proofs

`ERC721Proof` proves the following for every set of clients, minters, tokens,
transaction ids and option values, and every bound:

| Theorem | States |
|---|---|
| `Inductive` | `Spec => []IInv` |
| `TypeCorrect` | `Spec => []TypeOK` |
| `BalancesAreOwnership` | `Spec => []BalancesMatchOwners` |
| `Queries` | `Spec => []QueriesAgree`: BalanceOf, OwnerOf and TotalSupply agree |
| `Serialisability` | `Spec => Serialisable`: ERC721 implements TokenRegistry |
| `Authority` | `Spec => NoStaleAuthority` |
| `EventsTellOwnership` | `Spec => []ObserverAgrees` |

*Assumptions.*  `KeyAssumption` (the keys are those of the contract),
`ConstantAssumption` (minters are clients, "0x0" and "" are not, and the value of an
absent key is no value the contract writes) and `MaxHeightAssumption`.  TLC
evaluates them on each run.

*The invariant.*  `BalancesMatchOwners` is not inductive: a commit applies a write
set made long before.  `IInv` adds `PoolIsSimulated` (each transaction in flight is
what some contract function made of the values in its read set) and
`ReadsAreCurrent` (a key whose version is the recorded one holds the recorded
value).  A commit that passes validation therefore acts as the function would
on the present state, from which the action properties and the refinement
follow case by case: one step per contract function.  `ReadsAreCurrent` needs the
versions bounded by the height, which is part of `TypeOK`.

`CcLifecycleProof` proves, for every set of organisations, any two policies and every
bound on the definitions:

| Theorem | States |
|---|---|
| `Inductive` | `Spec => []IInv` |
| `TypeCorrect` | `Spec => []TypeOK` |
| `ApprovalPromise` | `Spec => ApprovalCounts` |
| `InstallPromise` | `Spec => InstalledIsUsable` |
| `PolicyPromise` | `Spec => NewPolicyIsUsable` |

*Assumptions.*  `ConstantAssumption` of CcLifecycle: the two policies differ from each
other and from the absence of one, and the bound is a number.

*The invariant.*  A script works with a sequence it read earlier.  `IInv` says what is
still true of it while nothing disturbed the script (`WhileApproving`,
`WhileQuerying`, `WhileCommitting`): the sequence is the next one, the approval was
made, and queryapproved answered it rather than an older one.  `ApprovalPromise` is the
step from the first of these to the second.  Nobody else approves
for the organisation, and a commit by another one is a disturbance.  `Bounded` is
needed because a script that starts below the bound may go on when it is reached.

`ERC1155Proof` proves, for every set of accounts in every order of their keys, every
set of tokens, amounts and width of the integers, and every length of the batches:

| Theorem | States |
|---|---|
| `Inductive` | `Spec => []IInv` |
| `TypeCorrect` | `Spec => []TypeOK` |
| `ObserverCorrect` | `Spec => []ObserverAgrees` |
| `Spendable` | `Spec => []SplitBalanceIsSpendable` |
| `InitializedAtMostOnce` | `Spec => InitializedOnce` |
| `Accounting` | `Spec => AccountsSpec`: ERC1155 implements TokenAccounts |

*Assumptions.*  `ConstantAssumption` of ERC1155: `KeyOrder` lists every account once,
which is what an order of the keys is and makes the accounts finite; amounts are
uint64; "0x0" is no client and absent is no value.

*Sums.*  A balance is a sum over keys, a payment a sum over a batch.  The library's
induction theorems for finite sets take a predicate as a parameter, which the
provers cannot instantiate; `SetInduction` states the principle for a *set of
sets* and derives it from the well-foundedness of strict inclusion, which needs no
predicate.  From it follow what a sum is (`SumInt`), and that it splits, adds
and grows with its set and its function.

*The invariant.*  A transaction in flight need not be replayable as a function
call; what matters is that its writes change each balance by what its event
says.  `Simulated` says so in terms of the values the transaction read
(`BalanceWrites`, `Authorised`, `ApprovalWrites`, `OptionsWritten`), so that it survives the
commits of others; `ReadsOK` makes those values the present ones at a valid commit.
`ObserverAgrees` is then inductive.

*Accounting.*  `CallFacts` says which call a transaction is: a mint, a burn or a transfer,
by whom, and what it read of the approval.  `CommitRefines` shows that its commit does
what TokenAccounts does for that call: the approval it read is in force, since its
version did not change, and the balances become what the observer adds up from the
event (`Believed`).  Names and symbols may be empty in the proofs, and are not in the run.

`UTXOProof` proves, for every finite set of clients, every set of amounts and any
length of the lists:

| Theorem | States |
|---|---|
| `Inductive` | `Spec => []IInv` |
| `TypeCorrect` | `Spec => []TypeOK` |
| `OnlyTheOwner` | `Spec => OnlyOwnerSpends` |
| `SpentOnce` | `Spec => NoDoubleSpend` |
| `OneInitialization` | `Spec => InitializedOnce` |
| `Accounting` | `Spec /\ [](Supply <= MaxInt) => AccountsSpec`: UTXO implements TokenAccounts |
| `SupplyKept` | `Spec /\ [](Supply <= MaxInt) => TransferKeepsSupply` |
| `SupplyFits` | `Spec => [](Supply <= MaxInt)`, if `SmallSupply` |
| `SmallAccounting` | `Spec => AccountsSpec`, if `SmallSupply` |

*Ownership.*  `Simulated` says that a transaction in flight deletes only outputs of its
creator that it found, and that the outputs it creates bear its own id;
`NamesAreIssued` that no output bears an id not yet used.  A second spender therefore
read a version that is no longer current.

*Accounting.*  The balance of a client is the sum of its outputs and is stored nowhere.
`FlowInv` says what a transaction in flight will do to it: `ReadsOK` that what it read
is of the past, and still there if its version is; `Explained` that it sets the
options, or mints one output, or has inputs and outputs with the same total by
the contract's own sum.  `FlowInv` also says that finitely many ids were used,
without which a client might own infinitely many outputs.  `BalanceNext` splits a
balance into what a commit leaves of it, `Spent` and `Created`; `MovesSums` and
`MovingTotals` lead both back to the lists of the transfer, whose inputs must differ
(the check for duplicates) and whose outputs have names of their own (the index), so
that the creator alone pays, and pays the whole of the outputs it answered (`Pays`).
`PaymentSums` reads them as the payments of its call, and `CommitRefines` shows that the
commit does what TokenAccounts does for that call.
`SumExact` says that the fold with `Add` is the sum if the latter fits an int.  The
lemmas about sums are repeated from ERC1155Proof: neither proof is about the other contract.

*The hypothesis.*  Without `[](Supply <= MaxInt)` both theorems are false, as the run
`utxo_overflow` shows: outputs that overflow are committed, and the supply then exceeds
an int.  It speaks of the true sum and of behaviours; `SmallSupply` gives a
condition on the constants: with amounts of at most m, `MaxHeight` mints of m and a
list of `MaxList` outputs of m fit an int.  The instance of `utxo` satisfies it (m is
2, and 10 and 4 are at most 15), that of `utxo_overflow` does not.

`InvoiceNetProof` proves, for every set of clients, ids, names and roles, of InvoiceNet
(the first four) and of Channel with BasicAsset and FabInvoice:

| Theorem | States |
|---|---|
| `Inductive` | `Spec => []IInv` |
| `TypeCorrect` | `Spec => []TypeOK` |
| `Serialisability` | `Spec => RegistrySpec`: InvoiceNet implements InvoiceRegistry |
| `RolesStay` | `Spec => RolesKept` |
| `ChannelInductive` | `Channel!Spec => []ChannelInv` |
| `ChannelTypeCorrect` | `Channel!Spec => []Channel!TypeOK` |
| `AssetsSerialisability` | `Channel!Spec => Channel!AssetsSpec`: BasicAsset implements InvoiceRegistry |
| `InvoicesStayMarked` | `Channel!Spec => Channel!InvoicesOnlyMarked` |

*InvoiceNet.*  Assumed is that plain ids and keys of roles differ, which the prefix
gives, and that empty and absent values are no values of the other kinds.  The
invariant has for each function what it left in the pool, among them the functions
that read nothing (`InitLedger`, an AppendRole whose read failed); `NoEmptyList` is
needed because an empty stored list could not be told from an absent one in the
registry.  It also ties the invocation a transaction carries to its creator and to what
it wrote, so that its commit is that call and not just some call of the registry.

*Channel.*  The module is instantiated with a key space of its own (`ChannelKey`); the
rest of the ledger, and what "read and still current" means (`ReadsOK`), is shared with
the first part, since both refine the same registry.  The assumptions of an
instance are not at hand, so that `ChannelAssumption`, which TLC evaluates in the run
`channel_contracts`, is a hypothesis of the four theorems.  `ChannelInv` says of each transaction
in flight that it writes one key, of one of the two contracts, with the effect of a
function on what it found there: `AssetEffect` and `InvoiceEffect` name the effect only,
so that the many functions with the same one are one case.  A commit then changes
the keys of one contract and leaves those of the other, which is why neither can undo a
step of the other.  The proof needs that an asset seen as an invoice of the registry
is not the value of an absent key; `ConstantAssumption` of Channel says so.

`EventApiProof` proves, for every set of requests, every size of the buffer and any
number of events:

| Theorem | States |
|---|---|
| `Inductive` | `Spec => []IInv` |
| `TypeCorrect` | `Spec => []TypeOK` |
| `UsableAlone` | `Spec => []UsableUnlessOverlapped` |
| `BuffersAreWindows` | `Spec => []BufferIsWindow` |
| `PollsAnswerWindow` | `Spec => PollsMissNothing` |

`Alone` says what holds while no two POSTs were in progress together: the object a POST
works on is the published one, and what it has put is still there.

`AuditApiProof` proves, for every set of channels and requests and any length of the
chains, from `ConstantAssumption` (there is a channel, and block numbers are numbers):

| Theorem | States |
|---|---|
| `Inductive` | `Spec => []IInv` |
| `TypeCorrect` | `Spec => []TypeOK` |
| `NoFailureAlone` | `Spec => []FailsOnlyByRace` |
| `AnswersAreTrue` | `Spec => []AnswerIsOnChain` |

`HeightAfterBlock` carries what the first query found to the second: some peer has the
block, and if all had it then, all have it still.

`ChannelMembersProof` proves, for every finite set of peers and any number of runs:

| Theorem | States |
|---|---|
| `Inductive` | `Spec => []IInv` |
| `TypeCorrect` | `Spec => []TypeOK` |
| `AddsOnlyItself` | `Spec => AddsOnlyItsPeer` |
| `UndisturbedJoins` | `Spec => JoinsUnlessDisturbed` |

*Assumptions.*  A file that is broken is no configuration (`BrokenAssumption`), and
the organisation the channel was created with is no peer.

*The invariant.*  `FilesOf` and `NothingLost` say what the shared files contain at each
command of a run that is alone; `ConfigIsPast` that a `config.json` under the number
in force is what is in force, which is why the orderer refuses an update made from
an old one; `VersionBound` counts the updates by the runs that may still submit one.

*Only model-checked.*  Liveness (`AllDelivered`, `EveryRequestEnds` of both REST services,
`AddEnds`, `ScriptsEnd`), which the provers have no rules for.  The three claims that are
violated (section 4) are refuted by TLC; of one of them, `TransferKeepsSupply`, the
condition under which it is true is proved.  Every other property of the runs is
a theorem.

## 6. Not modelled, and the plan

*Not modelled.*

* The example applications and the invoice service: sequential and stateless, one
  call of a contract per command or request.
* The tools: files in, files out.  The contract in `tools/cc-template` is the ERC-721
  contract with another minting organisation, which is a constant of ERC721.
* The creation of the orderer and of the channel, run once before anything else
  exists; the packaging and the build of a chaincode.
* Deployment files and notebooks.
* Of the modelled components: queries that only list what is stored, token URIs and
  document fields that are copied, the content of blocks and transactions in the
  audit answer, the wallet and TLS handling of the gateway clients.

*Next proofs.*  For UTXO a weaker hypothesis than a supply that fits an int: that no
single list of inputs or outputs overflows.  For SortedKeys, of which nothing is proved,
that the sort loses no key and that the deposits of an ERC-1155 batch are the same
in whatever order they are made.
