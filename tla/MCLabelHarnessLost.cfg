CONSTANTS
    a = a
    b = b
    c = c
    d = d
    o = o
    Customers = {a, b, c, d}
    Fields = {o}
    Causes = {"bank_downtime", "invalid_card"}
    Datasets <- MCDatasets
    SampleArgs <- MCSampleArgs
    NoTruth = NoTruth
    Absent = Absent
    NoLabel = NoLabel
    NoFile = NoFile
    Torn = Torn
SPECIFICATION Spec
INVARIANTS
    NothingSaidIsLost
