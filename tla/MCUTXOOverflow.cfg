SPECIFICATION Spec
CONSTANTS
    Client = {alice, bob}
    Minter = {alice}
    Amount = {1, 3}
    Option = {scray}
    MaxInt = 3
    MaxList = 2
    TxId = {x1, x2, x3}
    Idle = Idle
    Absent = Absent
    MaxHeight = 3
    Key <- MCKey
    alice = alice
    bob = bob
SYMMETRY TxSymmetry
PROPERTY TransferKeepsSupply
CHECK_DEADLOCK FALSE
