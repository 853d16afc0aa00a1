\* Violated: an input seals epoch 0, a claim follows, finalizeEpoch is accepted.
SPECIFICATION Spec
CONSTANTS
    v1 = v1
    v2 = v2
    v3 = v3
    outsider = outsider
    c1 = c1
    c2 = c2
    x1 = x1
    x2 = x2
    NoClaim = NoClaim
    NoAddress = NoAddress
    Claims = {c1, c2}
    Addresses = {v1, v2, v3, outsider}
    InitialValidators <- ThreeValidators
    Inputs = {x1}
    InstantDisputes = TRUE
    InputDuration = 1
    ChallengePeriod = 1
    DeploymentTime = 3
    MaxUint = 100
    MaxTime = 9
    MaxEpochs = 2
    MaxBoxSize = 2
PROPERTIES
    ChallengePeriodIsRespected
CHECK_DEADLOCK FALSE
