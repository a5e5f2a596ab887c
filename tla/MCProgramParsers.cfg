SPECIFICATION Spec
CONSTANTS
  MaxBatchDepth = 3
  MaxAccounts = 16
  MaxBatchAccounts = 4
  MaxEntries = 2
INVARIANTS ParsedWhole
PROPERTIES BatchesContained
