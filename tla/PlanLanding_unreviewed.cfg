SPECIFICATION Spec
CONSTANTS
    N = 1
    Exec = {x1}
    ExecOf <- OneExec
    Tries = 1
    Events = {"push"}
    MaxEvents = 1
    MaxResults = 1
    MaxRetries = 0
INVARIANTS
    MergesReviewedHead
CHECK_DEADLOCK FALSE
