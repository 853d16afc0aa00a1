\* Violated: the sealed epoch is finished and the request for the accumulating one
\* names it.
SPECIFICATION NodeSpec
CONSTANTS
    c1 = c1
    x1 = x1
    x2 = x2
    Claims = {c1}
    Inputs = {x1, x2}
    MaxEpochs = 2
    MaxBoxSize = 2
    InitialEpochs = {0}
    MaxRestarts = 0
    MaxFailures = 1
INVARIANTS
    RequestsNameTheirEpoch
