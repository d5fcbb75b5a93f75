---------------------------- MODULE MCAddressing ----------------------------
(* Constants for TLC: two devices, one of which an admin names and at      *)
(* times excludes.  One address is inside a network of the console, the    *)
(* other one is not.                                                       *)
EXTENDS Addressing

CONSTANTS d1, d2, i1, i2

MCDevices == {d1, d2}
MCIPs == {i1, i2}
MCOnConsole == {i2}
MCNamed == {d2}
MCMaySkip == {d2}
MCLeases(d) == IF d = d1 THEN {i1} ELSE {}
MCFixable(d) == IF d = d2 THEN {i2} ELSE {}
=============================================================================
