SPECIFICATION SweepSpec
CONSTANTS
    Servers = {s1, s2}
    NoServer = none
    People = {u, a}
    Nobody = nobody
    Admins = {a}
    Controls = {1, 2}
    Owners = {u}
    AuditOf <- OneAudit
    Shapes <- FewShapes
    Days = {0, 2}
    NoDate = nodate
    MaxEdits = 1
    MaxFaults = 1
SYMMETRY Alike
CHECK_DEADLOCK FALSE
INVARIANTS
    ClaimsAreAccountedFor
PROPERTIES
    ImplementsLedger
