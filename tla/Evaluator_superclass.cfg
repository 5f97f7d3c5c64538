SPECIFICATION Spec
CONSTANTS
    Programs <- Inherits
    IntBits = 4
    ShortBits = 3
    ByteBits = 2
    HighUnit = 5
    LowUnit = 6
    MaxDepth = 5
    MaxSteps = 32
PROPERTIES RunsAsJava
