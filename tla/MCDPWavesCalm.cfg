SPECIFICATION CalmSpec
CONSTANTS
    c1 = c1
    c2 = c2
    r1 = r1
    r2 = r2
    NumEngines = 2
    Clients = {c1, c2}
    Requests = {r1, r2}
    Length <- LongAndShort
    SyncEvery = 2
INVARIANTS WavesOrdered
PROPERTIES RequestsAndWavesEnd
CHECK_DEADLOCK FALSE
