SPECIFICATION FairSpec
CONSTANTS
    Processes = {1, 2}
    Records = {r}
    MaxSlot = 2
    WriteAttempts = 2
    OpAttempts = 2
INVARIANTS TypeOK EachSlotOnce CheckpointCovers ResumePointCurrent
PROPERTIES AttemptsEnd
CHECK_DEADLOCK FALSE
