SPECIFICATION Spec
CONSTANTS
    Org = {peer90, peer91}
    Default = Default
    Custom = Custom
    NoPolicy = NoPolicy
    MaxSequence = 3
INVARIANTS
    TypeOK
PROPERTIES
    ApprovalCounts
    InstalledIsUsable
    NewPolicyIsUsable
    ScriptsEnd
CHECK_DEADLOCK FALSE
