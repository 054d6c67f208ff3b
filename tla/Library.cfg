CONSTANTS
    Heads = {h1, h2}
    Items = {a, b, c}
    NULL = NULL
    Poison1 = Poison1
    Poison2 = Poison2
    Word = 4096
    Short = 64
    CharBits = 3
    Inputs <- MCInputs
INVARIANTS TypeOK WayBack TestsAgree LoopSeesAll PrintsAsAsked StringsRight ChecksumsRight MemorySetUpRight DelaysLongEnough
PROPERTY ImplementsLists
CHECK_DEADLOCK FALSE
SPECIFICATION LibSpec

