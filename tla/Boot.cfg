SPECIFICATION Spec
CONSTANTS
    Regs <- MCRegs
    Bytes <- MCBytes
    RegInit <- MCRegInit
    Retries = 2
    Timeout = 1
    Environments <- MCBuses
    Flag <- MCFlag
    Devctrl = 1
    Vdd1 = 2
    Vdd2 = 3
    OpSel <- MCOpSel
    Leftovers <- MCLeftovers
    Boards <- MCBoards
INVARIANTS
    TypeOK
    ClockedBeforeUse
    ReadyToLoad
PROPERTIES
    DpllsSafe
    ReachesLoader
CHECK_DEADLOCK FALSE
