SPECIFICATION FairSpec
CONSTANTS
    Harmonic = {h}
    Bam = {b}
    Slots = {1, 2, 3}
    Updates <- MCUpdates
    VoteRules <- MCVoteRules
    SlotRetention = 1
    MaxFrames = 2
    AutoReconnect = TRUE
    MaxRetries <- MCMaxRetries
    ChannelSize = 1
    MaxUpdates <- MCMaxUpdates
    MaxFailures = 2
INVARIANTS FramesKept EveryTransactionAccounted FeedFailuresBounded
PROPERTIES ReceiverDropEndsSource
CHECK_DEADLOCK FALSE
