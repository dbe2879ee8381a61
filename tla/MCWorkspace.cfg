SPECIFICATION WorkspaceSpec
CONSTANTS
    clip = clip
    song = song
    sheet = sheet
    Key = {clip, song, sheet}
    None = None
    Absent = Absent
    Shape <- MCShape
    Large = {sheet}
    Token = {t1, t2}
    MaxLoads = 2
    MediaFails = FALSE
    k1 = k1
    k2 = k2
    EditedKey = {k1, k2}
    Long = {}
    HeadKept = TRUE
    Hasty = TRUE
    MaxRev = 2
    MaxReqs = 2
    Op = {o1, o2}
    Name = {f, x}
    FolderName = {f}
    CommandKind = {"create", "delete", "rename", "batch"}
    ApiFails = TRUE
    Folder = {"d", "e", "f"}
    Root = "root"
    File = {"x", "z"}
    Within <- MCWithin
    OrderOf <- MCOrderOf
    Matching = {"x", "d"}
    BucketList = "buckets"
    GridColumns = 2
    MaxEvents = 4
    MaxColumns = 4
    MaxTrailEvents = 6
    Bucket = {"b1"}
    Prefix <- MCPrefix
    NoBucket = NoBucket
    NoLocation = NoLocation
    MaxVisits = 4
    Listing = {"small", "large", "other"}
    Huge = {"large", "other"}
    FilterText = {"a", "b"}
    MaxRenders = 4
    Query = {"a", "ab"}
    MaxCalls = 3
    MaxPages = 1
    Profile = {"p", "r"}
    QueryKey = {"k"}
    MaxProbes = 2
    EditedProfile = {"p", "r"}
    ProfileName = {"n", "m"}
    CompatFlags = {"minio"}
    MaxForms = 2
    QueryText = {"", "view", "re", "zz"}
    FuzzyScore <- MCFuzzyScore
    Visited = {"general", "transfers"}
    MaxUpdates = 2
    NotLoaded = NotLoaded
SYMMETRY EditorSymmetry
VIEW Moving
INVARIANTS
    WorkspaceTypeOK
    ShownIsSelected
    TokensReturned
    QuietListingIsTrue
    TrailsAreTrue
    SpinnerCanStop
    FilterSettles
    GateIsTrue
    QuietStoreIsSaved
PROPERTIES
    NoBlindOverwrite
    InactivePaneIsLeftAlone
    HistoryIsATrail
    TypedIsKept
CHECK_DEADLOCK FALSE
