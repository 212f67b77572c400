SPECIFICATION Spec
CONSTANTS
    OwnID = "P"
    OtherIDs = {"Q"}
    ContextIDs <- MCUnsafeIDs
    Cids = {"c1"}
INVARIANT RowsReadBack
