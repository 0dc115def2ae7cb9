SPECIFICATION FairSpec
CONSTANTS
    Member = {m1}
    Task = {t1}
    Note = {n1}
    None = None
    Asked = Asked
    TaskOf <- MCTaskOf
    About <- MCAbout
    Slow = {m1}
    LateRetries = 1
INVARIANTS
    TypeOK
    ClosedMembersAreMarked
    CloseMarksAreCurrent
PROPERTIES
    ReadyIsReleased
    OnlyMidCycleMailEscapes
CHECK_DEADLOCK FALSE
