SPECIFICATION Spec
CONSTANTS
    OwnID = "P"
    OtherIDs = {"Q"}
    ContextIDs <- MCPlainIDs
    Cids = {"c1"}
INVARIANT RowsReadBack
