SPECIFICATION MCSpec
CONSTANTS
    e1 = e1 e2 = e2 e3 = e3 None = None
    Students = {s1, s2} Devices = {d1, d2} Events = {e1, e2, e3} Calls = {c1, c2}
    MaxBatch = 2
SYMMETRY Symmetry
INVARIANTS
    StoredOnce
    WatermarkExact
    DependenciesStored
    AnswersHonest
PROPERTIES
    HistoryOnlyGrows
