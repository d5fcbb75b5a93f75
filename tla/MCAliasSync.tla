---------------------------- MODULE MCAliasSync -----------------------------
(* Constants for TLC: two devices, both with an alias www in their own     *)
(* zone, d with another one pinned to e's.                                 *)
EXTENDS AliasSync

CONSTANTS d, e, h1, h2, h3, www, z1, z2, z3

MCDevices == {d, e}
MCLabels == {h1, h2, h3, www}
MCZones == {z1, z2, z3}

Dev(host, zone, synced) ==
    [host |-> host, override |-> NoLabel, zone |-> zone, pin |-> NoZone,
     synced |-> synced, excluded |-> FALSE, joined |-> FALSE]

(* d is renamed, moves to another zone and comes and goes, e comes and goes.*)
StatesOwn(i) ==
    IF i = d THEN {Dev(h1, z1, TRUE), Dev(h2, z3, TRUE), Dev(h2, z1, FALSE)}
    ELSE {Dev(h3, z2, TRUE), Dev(h3, z2, FALSE)}

Www(i, pin) == [dev |-> i, label |-> www, pin |-> pin]
AliasesOwn(i) == {Www(i, NoZone)} \cup (IF i = d THEN {Www(i, z2)} ELSE {})

HandEdited == {[label |-> www, zone |-> z2]}

ASSUME MCKeepsApart == NamesKeepApart
=============================================================================
