SPECIFICATION RunningSpec
CONSTANTS
    Servers = {s1}
    Requests = {q1, q2}
    Hands = {h1}
    Risks = {1, 2}
    PageLimit = 1
    MaxEpisodes = 1
    MaxFaults = 2
INVARIANTS
    FlagsAreHeld
    AnnouncedOnce
PROPERTIES
    SweepsEnd
    OverdueIsEscalated
