SPECIFICATION FairSpec
CONSTANTS
    a = a
    b = b
    audit = audit
    risk = risk
    Users = {a, b}
    External = {a}
    Holders = {a, b}
    Hubs = {audit, risk}
    RecipientsOf <- AuditByBoth
    DeparturesPerRun = 1
    MaxTriggers = 1
    MaxChanges = 2
    MaxFaults = 1
INVARIANTS
    ToldTwiceOnlyForRetry
PROPERTIES
    AnAdminRemains
    NoticeBeforeDisable
    DepartedIsDisabled
