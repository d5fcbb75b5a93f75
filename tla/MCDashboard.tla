---------------------------- MODULE MCDashboard ----------------------------
(* Constants for TLC: one admin at work on one of two devices.             *)
EXTENDS Dashboard

CONSTANTS a, b, adm, site, z1, z2, i1, i2, i3, x, y

MCMACs == {a, b}
MCControllers == {site}
MCZones == {z1, z2}
MCIPs == {i1, i2, i3}
MCNames == {x, y}
MCZoneAt(ctl, ip) == z1
MCShort(name, m) == <<name, "four", m>>
MCLong(name, m) == <<name, "twelve", m>>
MCFallback(m) == x
Nobody == {{}}
MCAdmins == {adm}
MCEditable == {a}

(* Both devices are called x; a has the address i1, b has i2, or none.     *)
Lease(m) == IF m = a THEN i1 ELSE i2
MCReports(ctl) ==
    {t \in [MCMACs -> {Absent} \cup [name : {x}, ip : {i1, i2, NoIP}, online : {TRUE}]] :
        \A m \in MCMACs : t[m] # Absent => t[m].ip \in {Lease(m), NoIP}}
=============================================================================
