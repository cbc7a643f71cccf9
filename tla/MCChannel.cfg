SPECIFICATION Spec
CONSTANTS
    Client = {alice, bob}
    NoOne = NoOne
    Given = {alice, bob}
    AssetId = {invoice1, asset2}
    Invoice1 = invoice1
    InvoiceKey = {k1}
    TxId = {x1, x2}
    Idle = Idle
    Absent = Absent
    MaxHeight = 4
    Key <- MCKey
SYMMETRY InFlightSymmetry
INVARIANTS
    TypeOK
PROPERTIES
    AssetsSpec
    InvoicesOnlyMarked
CHECK_DEADLOCK FALSE
