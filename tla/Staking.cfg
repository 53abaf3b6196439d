SPECIFICATION Spec
CONSTANTS
    alice = alice
    bob = bob
    v1 = v1
    v2 = v2
    Delegators <- TwoDelegators
    Validators <- TwoValidators
    Module = module
    NoShares = NoShares
    SCALE = 400
    RATE = 200
    UNBONDING_TIME = 1
    Percentages = {200, 401}
    Amounts = {1}
    Withdrawals = {alice}
    InitialBalance <- TwoAndOne
    MaxTime = 2
    MaxSlashes = 1
    MaxQueue = 2
INVARIANTS TypeOK Solvent NothingFromNothing RewardsAreEarned RecordsAgreeBeforeSlash
PROPERTIES UnbondingsArePaidWhenDue WithdrawalsPayWhatIsReported
CHECK_DEADLOCK FALSE
