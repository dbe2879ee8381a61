SPECIFICATION TransfersUiSpec
CONSTANTS
    Transfer = {t1, t2}
    MaxBus = 2
    Command = {c1, c2, c3}
    Nobody = Nobody
    MaxFiles = 2
    Op = {"object_delete_batch", "upload", "object_copy:source"}
    Announced = {"object_delete_batch", "object_copy:source"}
    OpName <- MCOpName
    MaxLockBus = 3
    MaxClock = 3
INVARIANTS
    TransfersUiTypeOK
    RowsAgree
    NobodyWaitsForever
    QuietStoreMirrorsLocks
    UnseenIsCounted
PROPERTIES
    RowsSettle
CHECK_DEADLOCK FALSE
