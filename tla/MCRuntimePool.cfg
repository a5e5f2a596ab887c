SPECIFICATION FairSpec
CONSTANTS
    JobsSetting = 2
    ChannelSize = 1
    Wedged = {3, 4}
    MaxUpdates = 5
INVARIANTS PermitsConserved OkMeansFinished
PROPERTIES RunReturns ErrorsSurface
CHECK_DEADLOCK FALSE
