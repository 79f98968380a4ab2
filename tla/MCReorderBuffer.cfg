CONSTANTS
    Writers = {udp, tcp}
    CAPACITY = 4
    FIRST = 1
    LAST = 5
    MaxDuplicates = 1
    NoData = NoData
    Torn = Torn
SPECIFICATION FairSpec
INVARIANTS
    TypeOK
    SlotExclusion
    InOrderWithoutDuplicates
    NewDataIsNotDropped
PROPERTIES
    WrittenIsConsumed
