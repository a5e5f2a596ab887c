SPECIFICATION Spec
CONSTANTS
    Slots = {1, 2, 3}
    IxKeys = {"t1", "t2"}
    AcctKeys = {"a1"}
    AccountCommitAt = "Finalized"
    Retention = 512
    Parent <- ForkParent
    Canon = {1, 3}
    Txs = {"t1", "t2"}
    TxSlot <- ForkTxSlot
    TxKind <- ForkTxKind
    Accts = {"a1"}
    AcctSlot <- ForkAcctSlot
    AcctKind <- ForkAcctKind
    Kinds = {"Frozen", "Confirmed", "Finalized", "Discarded"}
    Jobs = 2
    Capacity = 1
    Late = {}
INVARIANTS NothingLeftBehind
PROPERTIES EverySlotDelivered ImplementsSlotLog
CHECK_DEADLOCK FALSE
