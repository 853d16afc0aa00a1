\* Violated: a claim meant for epoch 0 counts for epoch 1, which the node then asks
\* to finalize.
SPECIFICATION NodeSpec
CONSTANTS
    c1 = c1
    x1 = x1
    x2 = x2
    Claims = {c1}
    Inputs = {x1}
    MaxEpochs = 2
    MaxBoxSize = 1
    InitialEpochs = {0}
    MaxRestarts = 0
    MaxFailures = 0
PROPERTIES
    FinalizesItsOwnClaim
