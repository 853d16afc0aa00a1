\* Violated: the bloom filter of a block matches PhaseChange, which the block
\* does not log.
SPECIFICATION FoldSpec
CONSTANTS
    v1 = v1
    v2 = v2
    c1 = c1
    c2 = c2
    x1 = x1
    NoClaim = NoClaim
    NoAddress = NoAddress
    Claims = {c1, c2}
    Addresses = {v1, v2}
    InitialValidators <- TwoValidators
    Inputs = {x1}
    InstantDisputes = TRUE
    InputDuration = 1
    ChallengePeriod = 1
    DeploymentTime = 3
    MaxUint = 100
    MaxTime = 8
    MaxEpochs = 2
    MaxBoxSize = 1
    InitialEpochs = {0}
    SafetyMargin = 1
    Noise <- PhaseNoise
    MaxLogs = 3
INVARIANTS
    PhaseMatchesChain
CHECK_DEADLOCK FALSE
