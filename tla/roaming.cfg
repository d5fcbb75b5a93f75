CONSTANTS
    a = a
    b = b
    east = east
    west = west
    z1 = z1
    z2 = z2
    ae = ae
    be = be
    aw = aw
    bw = bw
    x = x
    NoIP = NoIP
    NoZone = NoZone
    NoName = NoName
    NoRow = NoRow
    Absent = Absent
    NoController = NoController
    Controllers <- MCControllers
    Zones <- MCZones
    IPs <- MCIPs
    Networked <- MCIPs
    ZoneAt <- OwnZone
    Fallback <- MCFallback
    Long <- MCLong
    Short <- MCShort
    MACs <- MCMACs
    Names <- MCNames
    Reports <- MCReports
    Memberships <- Nobody
    Calms <- MCCalms
    Private = {}
    MayFail = TRUE
    LostReplies = TRUE
    AbsenceRemoval = FALSE
    FetchMayFail = TRUE
    MayCrash = FALSE
    Admins = {}
    Ops = {}
    Editable = {}
    Overlap = FALSE
    MaxRows = 1
    Idle = Idle

SPECIFICATION ConvergeSpec
INVARIANT SyncedMeansPublished
PROPERTY Quiet
PROPERTY Settles
