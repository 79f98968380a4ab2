CONSTANTS
    CAPACITY = 3
    INDEX_RANGE = 6
    BYTE = 8
    ID_BYTES = 1
    WORD_BYTES = 1
    Sockets = {s1, s2}
    MAX_TOTAL_CONNECTIONS = 2
    LAST = 7
    MaxAsk = 2
    MaxConnects = 2
    NULL = NULL
SYMMETRY AnySocket
SPECIFICATION Spec
INVARIANTS
    ConnectionsAreCounted
    StreamIsFaithful
    CutStreamIsWoken
    RefusedWasOverwritten
