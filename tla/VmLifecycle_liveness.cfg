SPECIFICATION FairSpec
CONSTANTS
    p1 = p1
    p2 = p2
    tapA = tapA
    tapB = tapB
    port = port
    port2 = port2
    NoProc = NoProc
    NoTap = NoTap
    Procs <- MCProcs
    HostPorts = {port}
    TapNames = {tapA, tapB}
    NamesOf <- MCNamesOf
    Plans <- ServePlans
    UseCgroups = FALSE
    Interrupts = FALSE
PROPERTIES
    CommandsSettle
    StoppedVmIsCleanedUp
