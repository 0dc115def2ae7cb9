SPECIFICATION FairSpec
CONSTANTS
    N = 2
    Exec = {x1}
    ExecOf <- OneExec
    Tries = 1
    Events = {"base", "flaky", "crash", "stop", "conflict", "lose-answer",
              "stale-view"}
    MaxEvents = 2
    MaxResults = 2
    MaxRetries = 0
PROPERTIES
    PassedMovesOn
    MergedIsRecorded
    StopSettles
CHECK_DEADLOCK FALSE
