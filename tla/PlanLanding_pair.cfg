SPECIFICATION Spec
CONSTANTS
    N = 2
    Exec = {x1}
    ExecOf <- OneExec
    Tries = 0
    Events = {"push", "flaky", "crash", "hold", "stop", "close", "shut-pr",
              "refuse"}
    MaxEvents = 3
    MaxResults = 2
    MaxRetries = 1
INVARIANTS
    TypeOK
    SlotIsExclusive
    OneLiveEffect
    FactsAreMerges
    MergeKeepsLanding
PROPERTIES
    MergesPassedRound
    NothingStartsAfterStop
    SettledStays
    LandedIsFinal
CHECK_DEADLOCK FALSE
