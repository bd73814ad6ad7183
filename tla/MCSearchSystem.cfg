SPECIFICATION Spec
CONSTANTS
    a = a
    b = b
    Requests = {r1}
    Words = {a, b}
    Phrases <- OnePhrase
    MaxID = 2
    StoredWords <- TwoComics
    Limit = 1
    MaxInbox = 1
INVARIANTS
    TypeOK
    RowsAccountedFor
    DerivedFromRows
    ScoresSound
    ExactAnswer
PROPERTIES
    IndexCatchesUp
    CallsEnd
    ImplementsSearchContract
