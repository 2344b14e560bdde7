CONSTANTS
    BaseFee = 1
    MaxKey = 8
    InitialCoins <- MCInitialCoins
    InitialTokenCoins <- MCInitialTokenCoins
    tok = tok
    TokenType = tok
    s1 = s1
    s2 = s2
    s3 = s3
    Slates <- MCSlates
    SendAmounts = {1, 4}
    TokenSendAmounts = {4}
    IssueAmounts = {7}
    ReceiveAmounts = {5}
    MaxOutputs = 2
    ChangeOutputs = 1
    ProofSlates <- MCProofSlates
SPECIFICATION RetrySpec
CHECK_DEADLOCK FALSE
INVARIANTS
    OneEntryPerSlate
