CONSTANTS
    Account = {1, 2}
    Priority <- TwoAndABackup
    MaxAttempts = 2
    Request = {whole}
    Buffered = {whole}
    Replayable = {}
    Metered = {}
    MaxEdits = 0
SPECIFICATION Spec
INVARIANTS BufferedNotReplayed
