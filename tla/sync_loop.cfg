CONSTANTS
    h1 = h1
    h2 = h2
    s1 = s1
    r1 = r1
    Editors <- MCEditors
    Syncers <- MCSyncers
    Repairers <- MCRepairers
    MaxEdits = 3
SPECIFICATION FairSpec
INVARIANT TypeOK
INVARIANT Serialized
INVARIANT KickNotLost
PROPERTY EditsGetApplied
PROPERTY ShutsDown
PROPERTY RequestsServed
PROPERTY ImplementsTrigger
