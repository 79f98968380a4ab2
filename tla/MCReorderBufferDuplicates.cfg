CONSTANTS
    Writers = {udp, tcp}
    CAPACITY = 4
    FIRST = 1
    LAST = 5
    MaxDuplicates = 1
    NoData = NoData
    Torn = Torn
SPECIFICATION Spec
INVARIANT
    DeliveredInOrder
CHECK_DEADLOCK FALSE
