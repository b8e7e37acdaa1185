SPECIFICATION Spec
CONSTANTS
    Requests = {q1, q2}
    MaxRounds = 3
SYMMETRY Alike
PROPERTIES
    RoundsMoveLegally
    HistoryIsKept
    OverrideStrandsNothing
    ImplementsLifecycle
