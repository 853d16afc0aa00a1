\* A dispute manager that answers later, with either winner; chains of disputes
\* happen inside one epoch.  An address(0) among the initial validators.
SPECIFICATION FairSpec
CONSTANTS
    v1 = v1
    v2 = v2
    v3 = v3
    outsider = outsider
    c1 = c1
    c2 = c2
    x1 = x1
    x2 = x2
    NoClaim = NoClaim
    NoAddress = NoAddress
    Claims = {c1, c2}
    Addresses = {v1, v2, v3, outsider}
    InitialValidators <- WithEmptySlot
    Inputs = {x1}
    InstantDisputes = FALSE
    InputDuration = 1
    ChallengePeriod = 1
    DeploymentTime = 3
    MaxUint = 100
    MaxTime = 9
    MaxEpochs = 2
    MaxBoxSize = 1
INVARIANTS
    DisputantsClaimed
    AgreementIsEarned
PROPERTIES
    DisputesEnd
    ClaimedEpochIsFinalized
CHECK_DEADLOCK FALSE
