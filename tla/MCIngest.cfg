CONSTANTS
    c1 = c1
    c2 = c2
    i1 = i1
    noReference = noReference
    noEntity = noEntity
    Ingestors = {c1, c2}
    Payloads <- MCPayloads
    References = {i1}
    NoReference = noReference
    NoEntity = noEntity
    NoRow = NoRow
    MaxCalls = 4
SPECIFICATION Spec
CHECK_DEADLOCK FALSE
INVARIANTS
    InsertedOnce
    NothingIsLost
