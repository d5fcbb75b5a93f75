CONSTANTS
    c1 = c1
    c2 = c2
    d = d
    u = u
    m = m
    wide = wide
    narrow = narrow
    i1 = i1
    i2 = i2
    z0 = z0
    z1 = z1
    NoNet = NoNet
    NoController = NoController
    NoSubnet = NoSubnet
    NoZone = NoZone
    NoIP = NoIP
    NoRow = NoRow
    Gone = Gone
    Idle = Idle
    Controllers <- OneController
    Devices <- MCDevices
    Imported <- MCImported
    ManualIds <- OneManual
    Subnets <- MCSubnets
    Zones <- MCZones
    IPs <- MCIPs
    Ones <- MCOnes
    Inside <- MCInside
    SubnetsFor <- OneSubnet
    ReportsFor <- WideOrNarrow
    ZonesFor <- Chosen
    RowsFor <- RowsOfOne
    Defaults <- OneDefault
    Sightings <- SeenByOne
    Seed = c1
    SeedZone = NoZone
    Overlap = FALSE

SPECIFICATION Spec
INVARIANT TypeOK
INVARIANT PlacedOnKnown
PROPERTY ImportsKeepZones
PROPERTY Settles
