\* Two sessions of two questions; responses and snapshots come late, and reloads.
SPECIFICATION Spec
CONSTANTS
    q1 = q1
    q2 = q2
    k1 = k1
    k2 = k2
    a1 = a1
    a2 = a2
    s1 = s1
    s2 = s2
    Questions = {q1, q2}
    SkillOf <- TwoOfOne
    Sessions = {s1, s2}
    Answers = {a1, a2}
    Lessons = {"lesson"}
    DiagnosticItems = 1
    ServerActions = {"SHOW_WORKED_EXAMPLE"}
    Details <- PlainOrMore
    FirstPhase = "practice"
    MaxTasks = 1
    MaxCalls = 2
    None = None
SYMMETRY Symmetry
INVARIANTS
    FeedbackIsOwn
    PresentationsFollowAnswers
PROPERTIES
    RankedStays
