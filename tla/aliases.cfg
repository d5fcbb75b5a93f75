CONSTANTS
    d = d
    e = e
    h1 = h1
    h2 = h2
    h3 = h3
    www = www
    z1 = z1
    z2 = z2
    z3 = z3
    NoRow = NoRow
    NoZone = NoZone
    NoLabel = NoLabel
    NoName = NoName
    Elsewhere = Elsewhere
    Idle = Idle
    Devices <- MCDevices
    Labels <- MCLabels
    Zones <- MCZones
    StatesFor <- StatesOwn
    AliasesFor <- AliasesOwn
    ByHand <- HandEdited
    FailIn = {"stage", "delete"}
    LostReplies = FALSE
    Overlap = FALSE

SPECIFICATION Spec
INVARIANT TypeOK
INVARIANT AliasMarked
INVARIANT NoStray
PROPERTY Settles
