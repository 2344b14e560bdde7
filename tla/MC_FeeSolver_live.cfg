CONSTANTS
    BaseFee = 1
    MaxCoins = 3
    Values <- MCValues
    Amounts <- MCAmountsLive
    Caps <- MCCaps
    ChangeCounts <- MCChangeCounts
    TokenLegs <- MCTokenLegsLive
SPECIFICATION Spec
PROPERTIES
    Termination
    ContractSpec
