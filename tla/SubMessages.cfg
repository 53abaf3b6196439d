SPECIFICATION FairSpec
CONSTANTS
    Kinds = {"instantiate", "ibc_close", "ibc_receive", "ibc_ack"}
    Failures = {"refused", "invalid"}
    MaxTxs = 1
    MaxMessages = 3
INVARIANTS TypeOK LayersHoldSurvivors ErrorsAreHandledOrPropagate RepliesMatchReplyOn RepliesAreToldTheTruth EventsAreOfSurvivors
PROPERTIES StorageIsWrittenAtOnce Terminates
CHECK_DEADLOCK FALSE
