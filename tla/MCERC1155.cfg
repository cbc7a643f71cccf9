SPECIFICATION Spec
CONSTANTS
    alice = alice
    bob = bob
    Client = {alice, bob}
    KeyOrder <- MCKeyOrder
    Minter = {alice}
    Token = {gold}
    Zero = Zero
    Amount = {1}
    Option = {scray}
    MaxInt = 2
    MaxBatch = 2
    TxId = {x1, x2}
    Idle = Idle
    Absent = Absent
    MaxHeight = 5
    Key <- MCKey
SYMMETRY InFlightSymmetry
INVARIANTS
    TypeOK
    ObserverAgrees
    SplitBalanceIsSpendable
PROPERTIES
    AccountsSpec
    InitializedOnce
CHECK_DEADLOCK FALSE
