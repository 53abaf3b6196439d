SPECIFICATION Spec
CONSTANTS
    f = f
    g = g
    sum = sum
    None = None
    alice = alice
    Functions = {f, g}
    Checksums = {sum}
    Accounts = {alice}
    Recipes <- TwoRecipes
    Salts = {"salt"}
    Labels = {"", "label"}
    Admins <- SomeAdmins
    Outside = {"sudo"}
    MaxCodeId = 3
    MaxRecords = 4
    MaxContracts = 2
    MaxDepth = 2
INVARIANTS TypeOK ContractsHaveCode ContractsRunTheirCode
PROPERTIES CodesAreImmutable WithoutAdminNothingChanges
CHECK_DEADLOCK FALSE
