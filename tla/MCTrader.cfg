CONSTANTS
    MARKET_MAKER_ORDER_QUANTITY = 3
    MIN_MARKET_MAKER_ORDER_QUANTITY = 1
    EXPOSURE_REBALANCE_THRESHOLD = 1
    MAX_ADDITIONAL_EXIT_QUANTITY = 6
    STRATEGY_ORDER_BUFFER_SIZE = 4
    PRICE_RANGE = 256
    NULL = NULL
    Snapshots <- MCSnapshots
    Risks <- MCRisks
    TRADE_BUFFER_SIZE = 3
    ORDER_UPDATE_BUFFER_SIZE = 2
    MaxOrders = 4
    MaxFills = 2
SPECIFICATION FairSpec
INVARIANTS
    TypeOK
    OrdersAreKnown
    ExposureIsKnown
    QuotesFitMarket
    HaltCancelsQuotes
PROPERTIES
    DrainEnds
