CONSTANTS
    s1 = s1
    s2 = s2
    alice = alice
    bob = bob
    b1 = b1
    b2 = b2
    b3 = b3
    None = None
    Session <- TwoMiners
    User <- Users
    Bits <- ThreeBits
    POOL_MASK <- TwoBits
    EN1_SPACE = 3
    MaxSubscribes = 4

SPECIFICATION Spec

SYMMETRY Alike

INVARIANTS
    TypeOK
    OwnSearchSpace
    CreditedWorkersAreListed

PROPERTIES
    OnlyGrantedBitsRolled
