SPECIFICATION Spec
CONSTANTS
    Count = 3
    Values = {0, 1}
    Word = 8
INVARIANTS
    TypeOK
    Accounting
PROPERTIES
    IsQueue
