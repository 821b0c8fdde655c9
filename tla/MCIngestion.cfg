\* Ingestion on three sources: near duplicates that are not transitive, two
\* review runs, each of which may stop between two files, and two edits of the
\* source registry.
SPECIFICATION Spec
CONSTANTS
    Upstream <- ThreeSources
    Configured <- Statuses
    SkillCounts <- TwoOfLinear
    NoFile = NoFile
    MaxEdits = 2
    MaxReviews = 2
INVARIANTS
    EvaluationIsIsolated
    DuplicatesAreRemoved
CHECK_DEADLOCK FALSE
