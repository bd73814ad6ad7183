SPECIFICATION Spec
CONSTANTS
    stop = stop
    one = one
    two = two
    long = long
    x = x
    y = y
    z = z
    Comics = {1, 2}
    Tokens = {stop, one, two, long}
    Size <- Sizes
    NormWords <- Forms
    Texts <- SomeTexts
    MaxChunk = 5
    MaxPhrase = 5
    Queries <- SomeQueries
    Limits = {1, 2}
INVARIANTS
    TypeOK
    NoTokenLost
    ChunksFit
    RefusedForLongWord
    RowHasAllWords
    SearchesAgree
