SPECIFICATION FairSpec
CONSTANTS
    a = a
    b = b
    Chains = {a, b}
    Channels = {ordered}
    Ordered = {ordered}
    Timeouts <- MCTimeouts
    Responses = {ok, None}
    None = None
    MaxPackets = 2
    MaxBlock <- OnlyB
    ordered = ordered
    ok = ok
INVARIANT TypeOK
PROPERTY ImplementsPacketLife
PROPERTY EveryPacketSettles
PROPERTY OrderedTimeoutCloses
CHECK_DEADLOCK FALSE
