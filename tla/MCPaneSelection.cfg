SPECIFICATION PaneSpec
CONSTANTS
    Folder = {"d"}
    Root = "root"
    File = {"x", "y"}
    Within <- MCWithin
    OrderOf <- MCOrderOf
    Matching = {"x"}
    BucketList = "buckets"
    GridColumns = 2
    MaxEvents = 5
INVARIANT SelectionIsInListing
CHECK_DEADLOCK FALSE
