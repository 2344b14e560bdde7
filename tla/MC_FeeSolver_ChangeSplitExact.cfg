CONSTANTS
    BaseFee = 1
    MaxCoins = 3
    Values <- MCValues
    Amounts <- MCAmounts
    Caps <- MCCaps
    ChangeCounts <- MCChangeCountsAll
    TokenLegs <- MCTokenLegs
SPECIFICATION Spec
INVARIANTS
    ChangeSplitExact
