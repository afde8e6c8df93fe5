CONSTANTS
    b1 = b1
    b2 = b2
    None = None
    MAX_U32 = 10
    MAX_U16 = 9000
    Bits <- TwoBits
    BASE = 2
    SIZE = 7
    BYTE = 4
    HASH = 4
    WORD = 2
    Cases <- All
    Shares <- Received

SPECIFICATION Spec

\* A template is followed to its end.
CHECK_DEADLOCK FALSE

INVARIANTS
    TypeOK
    JudgedByValue
    EnvironmentDecides
    SolvedBlockIsSound
    SmallBlocksCommit
    MinerHashesTheSameHeader
    OnlyTransactionsSpoilBlocks
