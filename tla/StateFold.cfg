\* A dispute manager that answers later; nodes that start with epoch 0 or 1; every
\* block with false matches of the events that do not decide the phase; sync two
\* blocks before the one asked for.
SPECIFICATION FoldSpec
CONSTANTS
    v1 = v1
    v2 = v2
    c1 = c1
    c2 = c2
    x1 = x1
    NoClaim = NoClaim
    NoAddress = NoAddress
    Claims = {c1, c2}
    Addresses = {v1, v2}
    InitialValidators <- TwoValidators
    Inputs = {x1}
    InstantDisputes = FALSE
    InputDuration = 1
    ChallengePeriod = 1
    DeploymentTime = 3
    MaxUint = 100
    MaxTime = 8
    MaxEpochs = 2
    MaxBoxSize = 2
    InitialEpochs = {0, 1}
    SafetyMargin = 2
    Noise <- OtherNoise
    MaxLogs = 3
SYMMETRY ClaimSymmetry
INVARIANTS
    ViewMatchesChain
    TimersMatchChain
    SealedInputsMatchChain
    DecisionsAreAccepted
PROPERTIES
    SealedInputsNeverChange
CHECK_DEADLOCK FALSE
