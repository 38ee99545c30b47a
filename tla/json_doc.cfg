SPECIFICATION Spec
CONSTANTS
    LongMax = 100
    Infinity = 5000
    NestingLimit = 3
    ExponentFrom = 200
    Leaves <- MCLeaves
    Names <- MCNames
    Lookups <- MCLookups
    IntArrays <- MCIntArrays
    Room <- MCRoom
    MaxDocuments = 2
    MaxAllocations = 5
INVARIANTS
    WellFormed
    ComparesValues
PROPERTIES
    ActsOnValues
VIEW documents
CHECK_DEADLOCK FALSE
