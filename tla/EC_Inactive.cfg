SPECIFICATION CacheSpec
CONSTANTS
    Requests = {q1, q2}
    People = {u1}
    TTL = 2
    MaxWrites = 2
    Missing = Missing
INVARIANTS
    UUIDFindsOnlyActive
