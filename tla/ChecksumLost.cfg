SPECIFICATION Spec
CONSTANTS
    f = f
    g = g
    sum = sum
    None = None
    alice = alice
    Functions = {f, g}
    Checksums = {sum}
    Accounts = {alice}
    Recipes <- ChecksumRecipes
    Salts = {"salt"}
    Labels = {"label"}
    Admins = {None}
    Outside = {}
    MaxCodeId = 3
    MaxRecords = 2
    MaxContracts = 1
    MaxDepth = 1
INVARIANT ProvidedChecksumIsUsed
CHECK_DEADLOCK FALSE
