SPECIFICATION Spec
CONSTANTS
    Client = {alice, bob}
    NoOne = NoOne
    Company = Company
    Id = {asset1}
    Asset1 = asset1
    Role = {seller, factor}
    Given = {alice, bob}
    Payer = {bob}
    GivenMarks <- MCGivenMarks
    Holder = {alice}
    alice = alice
    bob = bob
    TxId = {x1, x2}
    Idle = Idle
    Absent = Absent
    MaxHeight = 3
    Key <- MCKey
SYMMETRY InFlightSymmetry
INVARIANTS
    TypeOK
PROPERTIES
    RegistrySpec
    RolesKept
CHECK_DEADLOCK FALSE
