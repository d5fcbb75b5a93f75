----------------------------- MODULE MCNetworks -----------------------------
(* Constants for TLC: one controller that reports one network, one network *)
(* added by hand, and one device; or a controller and another one that     *)
(* comes beside or after it, and the device moves.                         *)
EXTENDS Networks

CONSTANTS c1, c2, d, u, m, wide, narrow, i1, i2, z0, z1

OneController == {c1}
TwoControllers == {c1, c2}
MCDevices == {d}
MCImported == {u}
OneManual == {m}
MCSubnets == {wide, narrow}
MCZones == {z0, z1}
MCIPs == {i1, i2}

(* The wide subnet holds both addresses, the narrow one the first.         *)
MCOnes(s) == IF s = wide THEN 16 ELSE 24
MCInside(s, ip) == s = wide \/ ip = i1
OneSubnet(i) == {wide}
WideOrNarrow(c) == {[i \in MCImported |-> s] : s \in {wide, narrow}}
OnlyWide(c) == {[i \in MCImported |-> wide]}
Chosen(key) ==
    CASE key = <<c1, u>> -> {z1}
      [] key[1] = NoController -> {NoZone}
      [] OTHER -> {}
OneDefault == {z0}

(* c1 is disabled, enabled and deleted; or deleted, and c2 added.          *)
Row(e) == [zone |-> NoZone, enabled |-> e]
RowsOfOne(c) == {Row(TRUE), Row(FALSE), NoRow}
RowsOfBoth(c) == IF c = c1 THEN {NoRow} ELSE {Row(TRUE)}

SeenByOne(i) == {[ctrl |-> c1, ip |-> ip] : ip \in {i1, NoIP}}
SeenByBoth(i) == {[ctrl |-> c, ip |-> i1] : c \in {c1, c2}}

(* Whatever the order in which up to three networks are loaded, Match      *)
(* finds the one that is above all others around the address.              *)
ASSUME MatchFindsTheBest ==
    \A f \in [1 .. 3 -> [manual : BOOLEAN, ctrl : {c1, c2}, subnet : MCSubnets]] :
        LET net(k) == [id |-> k, manual |-> f[k].manual, ctrl |-> f[k].ctrl, subnet |-> f[k].subnet]
            around(ip) == {n \in {net(k) : k \in 1 .. 3} : Inside(n.subnet, ip)}
        IN \A entries \in SetToSeqs({net(k) : k \in 1 .. 3}), ip \in MCIPs :
              LET best == Match(entries, ip, c1)
              IN IF around(ip) = {} THEN best = NoNet
                 ELSE best \in around(ip) /\ \A o \in around(ip) \ {best} : Outranks(best, o, c1)
=============================================================================
