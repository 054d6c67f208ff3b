SPECIFICATION Spec
CONSTANTS
    Regs <- MCRegs
    Bytes <- MCBytes
    RegInit <- MCRegInit
    Retries = 2
    Timeout = 2
    Environments <- MCEnvironments
    Transfers <- MCTransfers
INVARIANTS
    TypeOK
    WritesReachSlave
PROPERTIES
    ReadEndsWrites
    TransferReturns
