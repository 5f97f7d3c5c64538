SPECIFICATION PipelineSpec
CONSTANTS
    Classes <- MCClasses
    Methods <- MCMethods
    SortedMethods <- MCSorted
    Entry <- main
    Programs <- MCPrograms
    Worlds <- MCWorlds
    HeapBytes = 40
    AllocSizes <- MCAllocSizes
INVARIANTS ReportIsTrue ClosureIsExact InitializersInOrder StorageApart LinksAsMeant
PROPERTY CompilationEnds
