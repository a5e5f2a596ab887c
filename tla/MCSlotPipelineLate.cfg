SPECIFICATION Spec
CONSTANTS
    Slots = {1}
    IxKeys = {"t1"}
    AcctKeys = {"a1", "a2"}
    AccountCommitAt = "Confirmed"
    Retention = 512
    Parent <- LateParent
    Canon = {1}
    Txs = {"t1"}
    TxSlot <- LateTxSlot
    TxKind <- LateTxKind
    Accts = {"a1", "a2"}
    AcctSlot <- LateAcctSlot
    AcctKind <- LateAcctKind
    Kinds = {"Frozen", "Confirmed"}
    Jobs = 2
    Capacity = 2
    Late = {"a2"}
INVARIANTS OnTimeAccountsDelivered
CHECK_DEADLOCK FALSE
