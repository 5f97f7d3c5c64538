SPECIFICATION Spec
CONSTANTS
    Classes <- MCClasses
    Methods <- MCMethods
    Entry <- main
    Programs <- OneUse
INVARIANT UsedClassesFirst
