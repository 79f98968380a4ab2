CONSTANTS
    CAPACITY = 1
    Torn = Torn
    NULL = NULL
    UDP_PACKET_BUFFER_SIZE = 1
    REORDER_BUFFER_SIZE = 4
    LAST = 5
    MaxDatagrams = 3
    Garbled = Garbled
SPECIFICATION FairSpec
INVARIANTS
    TypeOK
    NothingIsLost
    PublishedInOrder
PROPERTIES
    GapsAreFilled
    StopEndsThreads
