CONSTANTS
    a = a
    b = b
    adm = adm
    site = site
    z1 = z1
    z2 = z2
    i1 = i1
    i2 = i2
    i3 = i3
    x = x
    y = y
    Idle = Idle
    NoIP = NoIP
    NoZone = NoZone
    NoName = NoName
    NoRow = NoRow
    Absent = Absent
    NoController = NoController
    Controllers <- MCControllers
    Zones <- MCZones
    IPs <- MCIPs
    Networked <- MCIPs
    ZoneAt <- MCZoneAt
    Fallback <- MCFallback
    Long <- MCLong
    Short <- MCShort
    MACs <- MCMACs
    Names <- MCNames
    Reports <- MCReports
    Memberships <- Nobody
    Calms <- MCCalms
    Admins <- MCAdmins
    Editable <- MCEditable
    Private = {}
    MayFail = FALSE
    LostReplies = FALSE
    AbsenceRemoval = FALSE
    FetchMayFail = FALSE
    MayCrash = TRUE
    Ops = {"forget", "join"}
    Overlap = TRUE
    MaxRows = 2

SPECIFICATION ConvergeSpec
INVARIANT DashboardTypeOK
PROPERTY Quiet
