\* Violated: two indices that lead to one place of a drive execute its output twice.
SPECIFICATION PortalSpec
CONSTANTS
    Ether = Ether
    token = token
    silent = silent
    Elsewhere = Elsewhere
    Tokens = {token, silent}
    SilentTokens = {silent}
    Calls <- AllCalls
    DepositAmounts = {1}
    WithdrawalAmounts = {1}
    Values = {0, 1, 2}
    MaxBoxSize = 1
    Outputs <- AllOutputs
    IndexRange = 4
    LeafSize = 2
    MaxEpochs = 2
    MaxDepth = 2
INVARIANT
    ExecutedOnce
CHECK_DEADLOCK FALSE
