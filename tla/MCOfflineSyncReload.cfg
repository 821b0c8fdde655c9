SPECIFICATION Spec
CONSTANTS
    None = None
    answer = answer
    shown = shown
    hint = hint
    Students = {s1}
    Devices = {d1}
    Student = s1
    Device = d1
    Events = {answer, shown}
    Calls = {c1}
    MaxBatch = 1
    DependsOn <- MCDependsOn
    FaultOf <- Healthy
    Presented = {shown}
    MaxSequence = 2
    Administered = TRUE
SYMMETRY Symmetry
INVARIANTS
    NothingDropped
    FailedIsNotStored
