--------------------------- MODULE MCIdentitySync ---------------------------
(* Constants for TLC: two identities, one with two members, one with one.  *)
EXTENDS IdentitySync

CONSTANTS p, q, a, b, c, z1, z2, i1, i2, i3, x, y, w

MCIdentities == {p, q}
MCMACs == {a, b, c}
MCNames == {x, y, w}
MCIPs == {i1, i2, i3}
MCZones == {z1, z2}
Nobody == {}
MCFallback(m) == x
MCShort(name, m) == <<name, "four", m>>
MCLong(name, m) == <<name, "twelve", m>>
MCZoneAt(ctl, ip) == z1

NamesOwn(i) == IF i = p THEN {x, y} ELSE {w}
OneZone(i) == {z1}
TwoZones(i) == IF i = p THEN {z1, z2} ELSE {z1}
MembersOwn(i) == IF i = p THEN {a, b} ELSE {c}

(* a moves between two addresses, b comes and goes, c stays.                  *)
MCLeases == {[m \in MCMACs |-> IF m = a THEN la ELSE IF m = b THEN lb ELSE lc] :
                la \in {i1, i2, NoIP}, lb \in {i2, NoIP}, lc \in {i3}}

(* Only a's first address ever fails to answer.                            *)
Flaky == {i1}

Apex == {[host |-> NoName, zone |-> z1, ip |-> i3]}
=============================================================================
