SPECIFICATION TransferSpec
CONSTANTS
    home = home
    away = away
    ch1 = ch1
    ch2 = ch2
    atom = atom
    Chains = {home, away}
    Channels <- TwoChannels
    Ordered = {}
    Timeouts <- OneTimeout
    None = None
    Responses = {"StdAck", "IbcHookAcknowledgement"}
    MaxPackets = 1
    MaxBlock <- BothMove
    Natives = {atom}
    Users = {alice}
    alice = alice
    Contract = alice
    Lock = ibc_bank_lock_module
    Memos = {"none", "hook"}
    Amounts = {1, 2}
    Owner = alice
    Supply <- HomeOnly
    MaxHops = 2
INVARIANT WealthIsConserved
INVARIANT VouchersAreBacked
INVARIANT LockNeverTooLow
INVARIANT ReturnsAreNotRefunded
SYMMETRY Symmetry
CHECK_DEADLOCK FALSE
