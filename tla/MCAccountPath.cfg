SPECIFICATION Spec
CONSTANTS
  None = None
  Accounts = {"a", "b", "c"}
  OwnerOf <- MCOwnerOf
  Loadable = {"a", "b", "c"}
  ChannelSize = 1
  SyncSize = 1
  Clients = {"client"}
  Capacity = 1
  MaxTries = 1
  Bounds <- MCBounds
  StreamParsers <- MCStreamParsers
  MaxParsers = 2
  SinkParsers <- MCSinkParsers
  Schemas <- MCSchemas
  OutcomeOf <- MCOutcomeOf
  Undecoded = {"b"}
  Malformed = {"b"}
  Jobs = 2
  WriteAttempts = 2
INVARIANTS AccountsServed ClientsLoseOnlyGaps WatermarksHold
PROPERTIES RunEnds
