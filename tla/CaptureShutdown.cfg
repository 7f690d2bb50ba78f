SPECIFICATION FairSpec
CONSTANTS
    MaxBatch = 2
    MaxTasks = 1
INVARIANTS
    StoppedLast
    OneMoreRequest
PROPERTIES
    OnlySniffersLinger
    EndsWithPackets
\* The process ends.
CHECK_DEADLOCK FALSE
