CONSTANTS
    NULL = NULL
    MAX_CONCURRENT_ORDERS = 3
    ORDER_SLOTS = 4
    LEVEL_SLOTS = 4
    NO_BID <- NoBid
    NO_OFFER = 7
    QUANTITY_RANGE = 16
    BYTE = 4
    ID_BYTES = 2
    WORD_BYTES = 2
    Prices <- AnyPrice
    Quantities = {0, 1, 2}
    FEED_CAPACITY = 1
    MaxOrderId = 4
    UpdateBest = TRUE
SPECIFICATION Spec
INVARIANT
    BboConsistent
CHECK_DEADLOCK FALSE
