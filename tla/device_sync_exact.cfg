CONSTANTS
    a = a
    b = b
    c = c
    site = site
    z1 = z1
    z2 = z2
    i1 = i1
    i2 = i2
    x = x
    y = y
    NoIP = NoIP
    NoZone = NoZone
    NoName = NoName
    NoRow = NoRow
    Absent = Absent
    NoController = NoController
    Controllers <- MCControllers
    Zones <- MCZones
    IPs <- MCIPs
    Networked <- MCIPs
    ZoneAt <- MCZoneAt
    Fallback <- MCFallback
    Long <- MCLong
    Short <- PairShort
    MACs <- PairMACs
    Names <- PairNames
    Reports <- PairReports
    Memberships <- AnyMembers
    Private = {}
    MayFail = FALSE
    LostReplies = FALSE
    AbsenceRemoval = TRUE
    FetchMayFail = TRUE
    MayCrash = FALSE

SPECIFICATION Spec
SYMMETRY PairSymmetry
INVARIANT TypeOK
INVARIANT SyncedMeansPublished
INVARIANT NoOrphans
