SPECIFICATION Spec
CONSTANTS
    WriteSize <- MCWriteSize
    EraseSize <- MCEraseSize
    NBlocks <- MCNBlocks
    Word <- MCWord
    Requests <- MCAllRequests
    MarkSets <- MCMarkSets
INVARIANTS
    TypeOK
    StoreBounded
    ScopedLoadInv
    NoBadPage
    ScanMatchesRead
PROPERTIES
    DeliversImage
    Returns
CHECK_DEADLOCK FALSE
