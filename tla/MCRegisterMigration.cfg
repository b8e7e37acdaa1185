SPECIFICATION FairSpec
CONSTANTS
    owner = owner
    approver = approver
    reg = reg
    Rows = {1, 2}
    Closed = {2}
    Overdue = {2}
    LaterDue = {1}
    Differs = {1}
    Grants = {owner, approver}
    GrantsOf <- SharedGrants
    Registers = {reg}
    RegisterOf <- SharedRegister
    SearchLimit = 2
    Connections = {c1, c2}
    MaxByHand = 1
    MaxFaults = 1
INVARIANTS
    WrittenOnce
    CleanMeansMigrated
PROPERTIES
    RerunChangesNothing
    ImplementsNumbers
    EventuallyMigrated
