SPECIFICATION EditorSpec
CONSTANTS
    EditedKey = {a}
    Absent = Absent
    Long = {a}
    HeadKept = FALSE
    Hasty = FALSE
    MaxRev = 2
    MaxReqs = 2
INVARIANT ObjectsRoundTrip
CHECK_DEADLOCK FALSE
