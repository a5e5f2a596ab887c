SPECIFICATION Spec
CONSTANTS
    Slots = {1, 2}
    IxKeys = {k}
    AcctKeys = {k}
    AccountCommitAt = "Confirmed"
    Retention = 1
    Parent <- PairParent
    Ancestors <- PairAncestors
    RequireTxGate = TRUE
    MaxTx = 1
    MaxParsed = 1
    MaxAcct = 1
    MaxStats = 1
INVARIANTS AncestorsFlushedFirst NoStrandedRecords FlushedSlotsForgotten
PROPERTIES OutputsAscend AccountExpectationStable
CHECK_DEADLOCK FALSE
