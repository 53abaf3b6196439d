SPECIFICATION Spec
CONSTANTS
    a = a
    b = b
    r1 = r1
    r2 = r2
    v1 = v1
    v2 = v2
    Chains <- MCChains
    Relayers <- MCRelayers
    Versions <- MCVersions
    Ports = {transfer}
    Orders = {unordered}
    transfer = transfer
    ordered = ordered
    unordered = unordered
    None = None
    MaxConnections = 2
    MaxChannels = 2
INVARIANT TypeOK
INVARIANT EndsAgree
INVARIANT CounterpartiesLeadBack
PROPERTY EstablishedForGood
SYMMETRY MCSymmetry
CHECK_DEADLOCK FALSE
