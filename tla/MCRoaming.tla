----------------------------- MODULE MCRoaming -----------------------------
(* Constants for TLC: two controllers, and devices that move between them. *)
EXTENDS Convergence

CONSTANTS a, b, east, west, z1, z2, ae, be, aw, bw, x

MCControllers == {east, west}
MCMACs == {a, b}
MCZones == {z1, z2}
MCIPs == {ae, be, aw, bw}
MCNames == {x}
MCShort(name, m) == <<name, "four", m>>
MCLong(name, m) == <<name, "twelve", m>>
MCFallback(m) == x
Nobody == {{}}
Lease(ctl, m) == IF ctl = east THEN (IF m = a THEN ae ELSE be) ELSE (IF m = a THEN aw ELSE bw)

(* Sites with a zone each; and sites that share one zone.                  *)
OwnZone(ctl, ip) == IF ip \in {ae, be} \/ (ip = NoIP /\ ctl = east) THEN z1 ELSE z2
SharedZone(ctl, ip) == z1

(* Connected here with its lease there, or only remembered, without one.   *)
(* b never leaves the east, though the west remembers it.                  *)
MCReports(ctl) ==
    {t \in [MCMACs -> {Absent} \cup [name : {x}, ip : MCIPs \cup {NoIP}, online : BOOLEAN]] :
        /\ \A m \in MCMACs : t[m] # Absent => t[m].ip = IF t[m].online THEN Lease(ctl, m) ELSE NoIP
        /\ t[b] # Absent /\ (ctl = west => ~t[b].online)
        /\ ctl = east => t[a] # Absent}

(* Nobody stays connected in two places.                                   *)
MCCalms ==
    {f \in [MCControllers -> UNION {MCReports(ctl) : ctl \in MCControllers}] :
        /\ \A ctl \in MCControllers : f[ctl] \in MCReports(ctl)
        /\ \A m \in MCMACs : \E ctl \in MCControllers :
              \A other \in MCControllers \ {ctl} : f[other][m] = Absent \/ ~f[other][m].online}
=============================================================================
