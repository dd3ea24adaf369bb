SPECIFICATION OperatedSpec
CONSTANTS
    Workers = {w1, w2}
    Reconcilers = {r1}
    Keys = {k1}
    Payloads = {p1, p2}
    MaxAttempts = 2
    NoIntent = NoIntent
    NoLink = NoLink
PROPERTIES
    CrashedSendsAreAdopted
CHECK_DEADLOCK FALSE
