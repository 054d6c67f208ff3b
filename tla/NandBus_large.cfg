SPECIFICATION Spec
CONSTANTS
    WriteSize = 4
    EraseSize = 8
    NBlocks = 4
    Word = 64
    Requests <- MCLargeRequests
    MarkSets <- MCMarkSets
    SmallPage = 2
    SizeLimit = 8
    Byte = 2
    ColByte = 16
    MarkBytes = {4, 5}
    Retries = 2
    MaxBusy = 3
    Supplied = "nand_command"
INVARIANTS
    PagesAreFetched
CHECK_DEADLOCK FALSE
