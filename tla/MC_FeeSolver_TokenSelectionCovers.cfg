CONSTANTS
    BaseFee = 1
    MaxCoins = 3
    Values <- MCValues
    Amounts <- MCAmounts
    Caps <- MCCaps
    ChangeCounts <- MCChangeCounts
    TokenLegs <- MCTokenLegs
SPECIFICATION Spec
INVARIANTS
    TokenSelectionCovers
