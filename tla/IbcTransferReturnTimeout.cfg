SPECIFICATION TransferSpec
CONSTANTS
    home = home
    away = away
    ch1 = ch1
    ch2 = ch2
    atom = atom
    Chains = {home, away}
    Channels = {ch1}
    Ordered = {ch1}
    Timeouts <- OneTimeout
    None = None
    Responses = {"StdAck", "IbcHookAcknowledgement"}
    MaxPackets = 1
    MaxBlock <- BothMove
    Natives = {atom}
    Users = {alice, contract}
    alice = alice
    contract = contract
    Contract = contract
    Lock = ibc_bank_lock_module
    Memos = {"none"}
    Amounts = {1}
    Owner = alice
    Supply <- HomeOnly
    MaxHops = 1
INVARIANT TimeoutsAreRefunded
CHECK_DEADLOCK FALSE
