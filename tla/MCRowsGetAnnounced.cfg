SPECIFICATION Spec
CONSTANTS
    Callers = {c1}
    NoCaller = NoCaller
    Workers = {w1}
    MaxID = 1
    NotFoundID = 404
PROPERTY
    RowsGetAnnounced
