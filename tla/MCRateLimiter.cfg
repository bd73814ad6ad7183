SPECIFICATION Spec
CONSTANTS
    Requests = {r1, r2}
    Impatient = {r2}
    Controllers = {main}
    NoController = NoController
    MaxStarts = 2
INVARIANTS
    TypeOK
    OneGenerator
    NobodyOversleeps
    BurstBounded
PROPERTIES
    RequestsAnswered
    StopReturns
