SPECIFICATION Spec
CONSTANTS
    MaxId = 5
    Capacity = 2
    ResultIds <- MCShortIds
INVARIANTS
    ExactAboveBaseline
PROPERTIES
    ProgressIsKept
    ImplementsMemory
