SPECIFICATION Spec
CONSTANTS
    a = a
    b = b
    Requests = {r1}
    Words = {a}
    Phrases <- OneWord
    MaxID = 1
    StoredWords <- OneComic
    Limit = 1
    MaxInbox = 1
INVARIANT NoIndexRace
