\* Boxes of three inputs; deposits of up to three units of each asset.
SPECIFICATION Spec
CONSTANTS
    x = x
    y = y
    token = token
    PortalContract = PortalContract
    Ether = Ether
    NoAmount = NoAmount
    Addresses = {x, y}
    Tokens = {token}
    BoxSize = 3
    DepositLists <- ToBoth
    UserInputs <- SomeInputs
    Surpluses = {0, 1}
    MaxHeld = 3
INVARIANTS
    DepositsAreAccounted
PROPERTIES
    OnlyHolderSpends
CHECK_DEADLOCK FALSE
