\* One epoch can become final, a second one be sealed and a third accumulate; one
\* call fails, with or without effect, and a challenge period that is over is
\* restarted once.
SPECIFICATION FairNodeSpec
CONSTANTS
    c1 = c1
    x1 = x1
    x2 = x2
    Claims = {c1}
    Inputs = {x1}
    MaxEpochs = 1
    MaxBoxSize = 2
    InitialEpochs = {0, 1}
    MaxRestarts = 1
    MaxFailures = 1
INVARIANTS
    MachineFollowsChain
    ClaimsAreComplete
PROPERTIES
    FinalizationsAreDue
    SealedEpochIsClaimed
