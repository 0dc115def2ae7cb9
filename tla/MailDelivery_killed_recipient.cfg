SPECIFICATION Spec
CONSTANTS
    Session = {s1, s2}
    Group = {g1}
    None = None
    Stamp <- MCStamp
    Message = {m1}
    Started = {s1}
    MemberOf <- MCMemberOf
    MaxAsk = 2
    MaxCrash = 1
    WritesFail = FALSE
CHECK_DEADLOCK FALSE
INVARIANTS
    NoMailForTheKilled
