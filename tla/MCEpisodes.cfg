SPECIFICATION LearnerSpec
CONSTANTS
    s1 = s1
    s2 = s2
    t1 = t1
    t2 = t2
    a1 = a1
    a2 = a2
    a3 = a3
    a4 = a4
    a5 = a5
    a6 = a6
    i1 = i1
    i2 = i2
    i3 = i3
    e1 = e1
    e2 = e2
    e3 = e3
    e4 = e4
    e5 = e5
    e6 = e6
    e7 = e7
    e8 = e8
    e9 = e9
    e10 = e10
    None = None
    Students = {s1, s2}
    Sessions = {t1, t2}
    Attempts = {a1, a2, a3, a4, a5, a6}
    Items = {i1, i2}
    Events = {e1, e2, e3, e4, e5, e6, e7, e8, e9, e10}
    Event <- Teaching
    Skill <- OneSkill
    Difficulty <- Medium
    Interventions = {"SHOW_WORKED_EXAMPLE"}
    Quiesced = TRUE
INVARIANTS
    ProjectionIsOfLog
    MasteryIsEvidence
    ConflictsAreTold
    EpisodesAreEarned
    
CHECK_DEADLOCK FALSE
