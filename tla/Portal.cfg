\* Ether and two tokens, one of which may answer false; two epochs with two outputs each.
SPECIFICATION PortalSpec
CONSTANTS
    Ether = Ether
    token = token
    silent = silent
    Elsewhere = Elsewhere
    Tokens = {token, silent}
    SilentTokens = {silent}
    Calls <- AllCalls
    DepositAmounts = {1}
    WithdrawalAmounts = {1}
    Values = {0, 1, 2}
    MaxBoxSize = 1
    Outputs <- AllOutputs
    IndexRange = 4
    LeafSize = 2
    MaxEpochs = 2
    MaxDepth = 2
INVARIANTS
    BitsAreExecutions
    LockIsReleased
    PortalIsSolvent
    WithdrawalsArePaid
PROPERTIES
    OrdersAreExecuted
CHECK_DEADLOCK FALSE
