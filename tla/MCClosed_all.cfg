SPECIFICATION Spec
CONSTANTS
    Sessions = {s1, s2}
    Terms = {"sold", "changed"}
    Sold = "sold"
    Dates = {"never", "approved_at"}
    Never = "never"
    ApprovedAt = "approved_at"
    Items = {"i1", "i2"}
    SoldItems = {"i1"}
    Rewinds = TRUE
    MaxStatements = 3
SYMMETRY MCSymmetry
CHECK_DEADLOCK FALSE
INVARIANTS
    TypeOK
    AnnouncedAsStored
PROPERTIES
    ClosedRowIsImmutable
