SPECIFICATION Spec
CONSTANTS
    Requests = {r1, r2, r3}
    Drainers = {d1, d2}
    Limit = 2
INVARIANTS
    TypeOK
    PlacesAccounted
    NeverOverLimit
    DrainCoversEarlier
PROPERTIES
    RequestsAnswered
    DrainReturns
