CONSTANTS
    Account = {1, 2, 3}
    Priority <- TwoAndABackup
    MaxAttempts = 2
    Request = {plain, whole}
    Buffered = {whole}
    Replayable = {whole}
    Metered = {whole}
    MaxEdits = 1
SPECIFICATION FairSpec
INVARIANTS RoutingTypeOK OneStory ChargedOnce StreamsNotReplayed FairShare
PROPERTIES Answered
