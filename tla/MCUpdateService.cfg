SPECIFICATION Spec
CONSTANTS
    Callers = {c1, c2}
    NoCaller = NoCaller
    Workers = {w1, w2}
    MaxID = 3
    NotFoundID = 2
INVARIANTS
    TypeOK
    StatusTracksWork
    SingleFlight
    WorkConserved
    NoRefetch
    EventCoversRows
PROPERTIES
    ImplementsContract
    UpdateReturns
    MissingIsRetried
