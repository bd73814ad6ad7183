SPECIFICATION Spec
CONSTANTS
    Callers = {c1, c2}
    NoCaller = NoCaller
    Workers = {w1}
    MaxID = 1
    NotFoundID = 404
SYMMETRY Symmetry
INVARIANT
    OkMeansComplete
