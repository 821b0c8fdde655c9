SPECIFICATION ActiveSpec
CONSTANTS
    None = None
    answer = answer
    shown = shown
    hint = hint
    Students = {s1}
    Devices = {d1}
    Student = s1
    Device = d1
    Events = {answer, shown}
    Calls = {c1}
    MaxBatch = 2
    DependsOn <- MCDependsOn
    FaultOf <- Healthy
    Presented = {}
    MaxSequence = 2
    Administered = FALSE
PROPERTIES
    EverySettled
    ImplementsDelivery
