SPECIFICATION Spec
CONSTANTS
    Methods <- Compiled
    IntBits = 4
    ShortBits = 3
    ByteBits = 2
    Ints <- FourBits
    MaxBlocks = 12
INVARIANTS TypeOK RunsAgree FramesAgree OnlyTypesRefused FrameInScope
