SPECIFICATION Spec
CONSTANTS
    alice = alice
    bob = bob
    v1 = v1
    v2 = v2
    Delegators <- TwoDelegators
    Validators <- OneValidator
    Module = module
    NoShares = NoShares
    SCALE = 100
    RATE = 50
    UNBONDING_TIME = 1
    Percentages = {50}
    Amounts = {1, 2}
    Withdrawals = {}
    InitialBalance <- TwoEach
    MaxTime = 2
    MaxSlashes = 1
    MaxQueue = 2
SYMMETRY Symmetry
INVARIANT NeverPanics
CHECK_DEADLOCK FALSE
