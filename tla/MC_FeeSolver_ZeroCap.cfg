CONSTANTS
    BaseFee = 1
    MaxCoins = 3
    Values <- MCValues
    Amounts <- MCAmountsLive
    Caps <- MCCapsZero
    ChangeCounts <- MCChangeCounts
    TokenLegs <- MCTokenLegsLive
SPECIFICATION Spec
CHECK_DEADLOCK FALSE
PROPERTIES
    Termination
