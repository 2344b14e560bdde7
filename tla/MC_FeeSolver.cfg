CONSTANTS
    BaseFee = 1
    MaxCoins = 5
    Values <- MCValues
    Amounts <- MCAmounts
    Caps <- MCCapsZero
    ChangeCounts <- MCChangeCounts
    TokenLegs <- MCTokenLegs
SPECIFICATION Spec
CHECK_DEADLOCK FALSE
INVARIANTS
    TypeOK
    SelectCoinsContract
    SolverContract
