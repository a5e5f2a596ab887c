SPECIFICATION Spec
CONSTANTS
  None = None
  Programs = {"A", "B"}
  Precompile = "C"
  SinkParsers <- MCParsers
  SchemaDefs <- MCSchemaDefs
  Pipelines <- MCPipelines
  TxnPipelines = {"t"}
  HandlersOf <- MCHandlersOf
  MaxSize = 4
  MaxDeep = 5
  MaxHeight = 4
  MaxLoaded = 2
  MaxSink = 3
  MaxPipeline = 2
INVARIANTS CallsRebuilt LogsFollowCalls SinkAccountsForAll FailuresIsolated
