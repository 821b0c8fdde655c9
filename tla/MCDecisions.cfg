SPECIFICATION Spec
CONSTANTS
    a1 = a1
    a2 = a2
    a3 = a3
    m1 = m1
    None = None
    Completion = Completion
    Answers = {a1, a2}
    c1 = c1
    c2 = c2
    Calls = {c1, c2}
    MaxBatch = 2
    Answer <- Story
    Episode <- Worked
    Statistics <- Outcomes
    Failed = {}
    Proposals <- SaidActions
    Explanations <- SaidExplanations
    Summaries <- SaidSummaries
    Provider <- Up
SYMMETRY CallSymmetry
INVARIANTS
    
    ServedIsPermitted
    WordingIsTrue
    PresentedWasServed

CHECK_DEADLOCK FALSE
