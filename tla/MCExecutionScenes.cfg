SPECIFICATION MCSpec
CONSTANTS
    Workers = {w1, w2}
    Reconcilers = {r1, r2}
    k1 = k1
    p1 = p1
    Keys = {k1, k2}
    Payloads = {p1, p2}
    MaxAttempts = 4
    NoIntent = NoIntent
    NoLink = NoLink
SYMMETRY ProcessSymmetry
INVARIANTS
    SoleSender
    RefsAreReal
    AnswersAreRecorded
    AtMostOneTerminalAtStartup
PROPERTIES
    NudgeOncePromise
CHECK_DEADLOCK FALSE
