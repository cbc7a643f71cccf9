SPECIFICATION Spec
CONSTANTS
    Peer = {peer90, peer91}
    AdminOrg = AdminOrg
    Broken = Broken
    MaxAdds = 3
INVARIANTS
    TypeOK
PROPERTIES
    AddsOnlyItsPeer
    JoinsUnlessDisturbed
    AddEnds
CHECK_DEADLOCK FALSE
