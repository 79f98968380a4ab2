CONSTANTS
    CAPACITY = 2
    INDEX_RANGE = 4
    BYTE = 4
    ID_BYTES = 1
    WORD_BYTES = 1
    Sockets = {s1, s2}
    MAX_TOTAL_CONNECTIONS = 2
    LAST = 3
    MaxAsk = 3
    MaxConnects = 2
    NULL = NULL
SYMMETRY AnySocket
SPECIFICATION Spec
INVARIANTS
    HandledConnectionIsOpen
