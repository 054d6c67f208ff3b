SPECIFICATION Spec
CONSTANTS
    Word = 256
    Start = 7
    End = 43
    Page = 8
    MaxSmall = 8
    LargeWidth = 8
    LastBin = 11
    Requests = {1, 9, 130}
    Products = {2}
    Alignments = {2, 8}
    Tags = {1}
    MaxBlocks = 3
    ForeignSizes = {3}
    Thresholds = {16, 100}
    Pads = {0}
INVARIANTS TypeOK AtLeastAsked NothingLost TagsAgree Findable BlocksApart
PROPERTY IsAllocator
CHECK_DEADLOCK FALSE
