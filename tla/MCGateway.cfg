SPECIFICATION Spec
CONSTANTS
    r1 = r1
    r2 = r2
    Requests = {r1, r2}
    Asks <- TwoClients
    Limit = 1
    Main = Main
    Nobody = Nobody
    Orphan = Orphan
    MaxID = 1
INVARIANTS
    TypeOK
    SearchesOutliveStop
    UpdateOutcomeTold
    StatsInOrder
PROPERTIES
    ShutdownEnds
