SPECIFICATION Spec
CONSTANTS
    NoServer = none
    Servers = {s1, s2}
    Risks = {1, 2}
    Days = {0, 1}
    Dues = {15}
    Seconds = {0, 1}
    PageLimit = 1
    MaxEdits = 1
    MaxFaults = 1
SYMMETRY Alike
CHECK_DEADLOCK FALSE
INVARIANTS
    ClaimsAreAccountedFor
PROPERTIES
    ImplementsLedger
    SteadyListIsCovered
