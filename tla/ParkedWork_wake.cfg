SPECIFICATION FairSpec
CONSTANTS
    Session = {s1}
    Grouped = {s1}
    Work = {w1}
    Copy = {c1}
    Resume = {r1}
    Team = Team
    None = None
    MaxParks = 1
    RuleMay = {TRUE, FALSE}
    MaxAsked = 1
    MaxCrash = 1
    MaxManaged = 1
INVARIANTS
    HandedOn
PROPERTIES
    ParkedIsWoken
CHECK_DEADLOCK FALSE
