SPECIFICATION Spec
CONSTANTS
    Client = {alice, bob}
    Minter = {alice}
    Amount = {1, 2}
    Option = {"", "scray"}
    MaxInt = 15
    MaxList = 2
    TxId = {x1, x2, x3, x4, x5}
    Idle = Idle
    Absent = Absent
    MaxHeight = 5
    Key <- MCKey
    alice = alice
    bob = bob
SYMMETRY TxSymmetry
INVARIANT
    TypeOK
PROPERTIES
    AccountsSpec
    OnlyOwnerSpends
    NoDoubleSpend
    InitializedOnce
CHECK_DEADLOCK FALSE
