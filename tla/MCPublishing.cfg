\* Two pack versions, two imports in any order, one withdrawal.
SPECIFICATION Spec
CONSTANTS
    Questions = {"question"}
    Lessons = {"lesson"}
    Bodies = {"a", "b"}
    Catalogs <- SmallCatalogs
    MaxPack = 2
    MaxDrafts = 3
    MaxTemplates = 2
    MaxImports = 2
    MaxWithdrawals = 1
    NoFile = NoFile
    NoRow = NoRow
    NoPack = NoPack
INVARIANTS
    PublishedIsReviewed
    NothingHalfPublished
    OneBodyPerVersion
CHECK_DEADLOCK FALSE
