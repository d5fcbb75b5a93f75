CONSTANTS
    p = p
    q = q
    a = a
    b = b
    c = c
    z1 = z1
    z2 = z2
    i1 = i1
    i2 = i2
    i3 = i3
    x = x
    y = y
    w = w
    Idle = Idle
    NoIP = NoIP
    NoZone = NoZone
    NoName = NoName
    NoRow = NoRow
    NoMAC = NoMAC
    Absent = Absent
    NoController = NoController
    Controllers <- Nobody
    MACs <- MCMACs
    Names <- MCNames
    Zones <- MCZones
    IPs <- MCIPs
    Networked <- MCIPs
    Private <- Nobody
    ZoneAt <- MCZoneAt
    Fallback <- MCFallback
    Short <- MCShort
    Long <- MCLong
    MayFail = TRUE
    LostReplies = FALSE
    Identities <- MCIdentities
    NamesFor <- NamesOwn
    ZonesFor <- OneZone
    MembersFor <- MembersOwn
    Leases <- MCLeases
    Silent <- Flaky
    FailKinds = {"create"}
    EditsOverlap = FALSE
    Foreign <- Apex

SPECIFICATION Spec
INVARIANT TypeOK
INVARIANT RecordLocated
INVARIANT OneRecord
INVARIANT ForeignStays
PROPERTY Settles
