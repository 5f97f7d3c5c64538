SPECIFICATION Spec
CONSTANTS
    Methods <- Operands
    IntBits = 4
    ShortBits = 3
    ByteBits = 2
    Ints <- FourBits
    MaxBlocks = 12
INVARIANTS RunsAgree
