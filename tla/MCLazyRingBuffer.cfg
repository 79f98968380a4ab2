CONSTANTS
    Values = {v1, v2}
    CAPACITY = 2
    MaxItems = 6
    NoValue = NoValue
    Torn = Torn
SPECIFICATION FairSpec
INVARIANTS
    TypeOK
    NoDataRace
PROPERTIES
    ClaimStaysValid
    ImplementsFifo
    PublishedIsConsumed
    StopEndsBothLoops
