SPECIFICATION FairSpec
CONSTANTS
  p1 = p1
  p2 = p2
  w1 = w1
  w2 = w2
  None = None
  Parsers = {p1, p2}
  Workers = {w1, w2}
  PrefilterSets <- MCPrefilterSets
  SlotsPerEpoch = 2
  MaxSlot = 4
  MaxReplay = 2
  MaxEntries = 1
  ChannelSize = 1
INVARIANTS EntriesHandedOver ReplayWhole
PROPERTIES SourceEnds
