CONSTANTS
    Ids = {1, 2, 3, 4, 5, 6, 7, 8, 9}
    MAX_ACTIVE_ORDERS = 4
    PURGE_UNTIL_WHEN_FULL = 2
    POPULATE_WHEN_EMPTY = 2
    MAX_CONCURRENT_ORDERS = 4
    MIN_PRICE = 1
    MAX_PRICE = 12
    DEFAULT_BUY_PRICE = 4
    DEFAULT_SELL_PRICE = 8
    PRICE_VARIANCE = 2
    LARGE_PRICE_VARIANCE = 5
    NULL = NULL
SPECIFICATION FairSpec
INVARIANTS
    RestingIsTracked
    PoolNeverExhausted
    PriceRangeIsLegal
PROPERTIES
    ComesBackToLoop
    StopEndsGenerator
