CONSTANTS
    MaxApplies = 3
    MaxEdits = 2
    HasNotes = TRUE
    None = None
    Link = Link
SPECIFICATION Spec
INVARIANTS TypeOK AppliedIsComplete HandWrittenKept
