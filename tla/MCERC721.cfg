SPECIFICATION Spec
CONSTANTS
    Client = {alice, bob}
    Minter = {alice}
    Token = {t1}
    Zero = Zero
    NoOne = NoOne
    Option = {scray}
    TxId = {x1, x2}
    Idle = Idle
    Absent = Absent
    MaxHeight = 4
    Key <- MCKey
    alice = alice
    bob = bob
SYMMETRY InFlightSymmetry
INVARIANTS
    TypeOK
    BalancesMatchOwners
    ObserverAgrees
PROPERTIES
    NoStaleAuthority
    Serialisable
CHECK_DEADLOCK FALSE
