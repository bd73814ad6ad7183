SPECIFICATION Spec
CONSTANTS
    Requests = {r1, r2}
    Drainers = {}
    Limit = 1
PROPERTY
    RefusedOnlyAtLimit
