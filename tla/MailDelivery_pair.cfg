SPECIFICATION Spec
CONSTANTS
    Session = {s1}
    Group = {g1}
    None = None
    Stamp <- MCStamp
    Message = {m1, m2}
    Started = {s1}
    MemberOf <- MCMemberOf
    MaxAsk = 1
    MaxCrash = 0
    WritesFail = TRUE
INVARIANTS
    LateSettleSparesTurns
CHECK_DEADLOCK FALSE
SYMMETRY Symmetries
