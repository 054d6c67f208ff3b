SPECIFICATION Spec
CONSTANTS
    WriteSize = 2
    EraseSize = 4
    NBlocks = 4
    Word = 32
    Requests <- MCRequests
    MarkSets <- MCMarkSets
    SmallPage = 2
    SizeLimit = 8
    Byte = 2
    ColByte = 16
    MarkBytes = {4, 5}
    Retries = 2
    MaxBusy = 3
    Supplied = "nand_command"
INVARIANTS
    TypeOK
    NeverTalksToBusy
PROPERTIES
    ImplementsLoad
CHECK_DEADLOCK FALSE
