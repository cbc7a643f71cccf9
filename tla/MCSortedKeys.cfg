SPECIFICATION Spec
CONSTANTS
    Id = {1, 2}
    To = {1, 2}
    MaxKeys = 3
INVARIANT SortedByIdThenRecipient
CHECK_DEADLOCK FALSE
