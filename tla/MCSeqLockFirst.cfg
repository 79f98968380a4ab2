CONSTANTS
    NextReaders = {trader}
    LatestReaders = {risk}
    LOCKED = 9
    MaxWrites = 3
SPECIFICATION FairSpec
PROPERTY
    FirstSnapshotIsRead
CHECK_DEADLOCK FALSE
