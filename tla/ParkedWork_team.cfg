SPECIFICATION Spec
CONSTANTS
    Session = {s1, s2}
    Grouped = {s1, s2}
    Work = {w1}
    Copy = {c1}
    Resume = {r1, r2}
    Team = Team
    None = None
    MaxParks = 1
    RuleMay = {FALSE}
    MaxAsked = 1
    MaxCrash = 0
    MaxManaged = 1
INVARIANTS
    TypeOK
    LinksHold
    NoStrayResume
    ParksAreCapped
    TurnHoldsItsWork
CHECK_DEADLOCK FALSE
SYMMETRY Symmetries
VIEW SameRows
