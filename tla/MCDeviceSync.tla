--------------------------- MODULE MCDeviceSync ----------------------------
(* Constants and symmetry for TLC: DeviceSync with one controller.         *)
EXTENDS DeviceSync, TLC

CONSTANTS a, b, c, site, z1, z2, i1, i2, x, y

MCControllers == {site}
MCZones == {z1, z2}
MCIPs == {i1, i2}

MCZoneAt(ctl, ip) == IF ip = i2 THEN z2 ELSE z1

MCLong(name, m) == <<name, "twelve", m>>
MCFallback(m) == x
Nobody == {{}}

(* Two devices that end in the same digits, two names: any name, any       *)
(* address or none, at any time.                                           *)
PairMACs == {a, b}
PairNames == {x, y}
PairShort(name, m) == <<name, "four">>
PairReports(ctl) ==
    [PairMACs -> {Absent} \cup [name : PairNames, ip : MCIPs \cup {NoIP}, online : {TRUE}]]
AnyMembers == SUBSET PairMACs
PairSymmetry == Permutations(PairMACs)

(* Three devices that all want one name; b and c end in the same digits.   *)
CrowdMACs == {a, b, c}
CrowdNames == {x}
CrowdShort(name, m) == <<name, IF m = a THEN "four" ELSE "same">>
CrowdReports(ctl) ==
    [CrowdMACs -> {Absent} \cup [name : {x}, ip : {i1, NoIP}, online : {TRUE}]]
CrowdSymmetry == Permutations({b, c})
=============================================================================
