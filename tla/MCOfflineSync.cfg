SPECIFICATION Spec
CONSTANTS
    None = None
    answer = answer
    shown = shown
    hint = hint
    Students = {s1}
    Devices = {d1}
    Student = s1
    Device = d1
    Events = {answer, hint}
    Calls = {c1, c2}
    MaxBatch = 2
    DependsOn <- MCDependsOn
    FaultOf <- Healthy
    Presented = {}
    MaxSequence = 2
    Administered = FALSE
SYMMETRY Symmetry
INVARIANTS
    FailedIsNotStored
    AcknowledgedIsStored
