CONSTANTS
    d1 = d1
    d2 = d2
    i1 = i1
    i2 = i2
    NoIP = NoIP
    NoRow = NoRow
    Idle = Idle
    Devices <- MCDevices
    IPs <- MCIPs
    Admins = {"admin"}
    OnConsole <- MCOnConsole
    InNetworks <- MCIPs
    Leases <- MCLeases
    Fixable <- MCFixable
    Named <- MCNamed
    MaySkip <- MCMaySkip
    LostReplies = TRUE
    Overlap = FALSE

SPECIFICATION Spec
INVARIANT TypeOK
INVARIANT AddressesDistinct
INVARIANT ReservationsKnown
PROPERTY StaticByAdminsOnly
PROPERTY Settles
