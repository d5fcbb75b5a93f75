----------------------------- MODULE Registry ------------------------------
(***************************************************************************)
(* internal/registry: which name a client gets and what one reconciliation *)
(* pass decides for one device.  Pure: no variable is declared here.       *)
(*                                                                         *)
(* Strings are abstracted to labels.  A base name is what a sanitized      *)
(* override, a sanitized UniFi name or the vendor fallback yields; Short   *)
(* and Long are a base name with the last 4 or all 12 digits of the MAC    *)
(* appended.  An address is NoIP when it is blank or does not parse.       *)
(***************************************************************************)
EXTENDS Naturals, Sequences

CONSTANTS
    MACs, Controllers, Zones, IPs,
    Names,              \* base names
    Fallback(_),        \* fallbackName(mac)
    Short(_, _),        \* name-<last 4 digits of mac>
    Long(_, _),         \* name-<all 12 digits of mac>
    Private,            \* the MACs with the locally-administered bit
    Networked,          \* the addresses inside some known network
    ZoneAt(_, _),       \* ZoneAt(c, ip): the zone c's resolver gives ip, NoIP included
    NoIP, NoZone, NoName, NoRow, Absent, NoController

Labels == Names \cup {Short(n, m) : n \in Names, m \in MACs}
                \cup {Long(n, m) : n \in Names, m \in MACs}
AnyIP == IPs \cup {NoIP}
AnyZone == Zones \cup {NoZone}
AnyName == Names \cup {NoName}

(* A full MAC as suffix is never an ordinary name, nor another device's.   *)
(* Suffix lengths keep Short and Long apart; a base name that ends in      *)
(* another device's 12 digits is the assumption.                           *)
ASSUME NamingAssumption ==
    /\ \A m \in MACs : Fallback(m) \in Names
    /\ \A n, k \in Names : \A m \in MACs : Long(n, m) # k
    /\ \A n, k \in Names : \A m, o \in MACs :
          /\ Long(n, m) # Short(k, o)
          /\ Long(n, m) = Long(k, o) => m = o
    /\ Private \subseteq MACs /\ Networked \subseteq IPs
    /\ NoIP \notin IPs /\ NoZone \notin Zones /\ NoName \notin Names
    /\ NoController \notin Controllers
    /\ \A c \in Controllers : \A ip \in AnyIP : ZoneAt(c, ip) \in Zones

(* A device row, without the fields that only the dashboard shows.         *)
(*   id            row id, 0 before the first save                         *)
(*   host zone ip  the name, zone and address last published or wanted     *)
(*   synced        DNSRecordSynced                                         *)
(*   static        AssignedIP when AddressMode is static, else NoIP        *)
(*   placed        NetworkID is set                                        *)
(*   joined        IdentityID is set                                       *)
Row == [id : Nat, ctrl : Controllers \cup {NoController},
        host : Labels, zone : AnyZone, ip : AnyIP, synced : BOOLEAN,
        excluded : BOOLEAN, joined : BOOLEAN, override : AnyName, pin : AnyZone,
        static : AnyIP, placed : BOOLEAN]

(* What a controller reports of one MAC it knows.                          *)
Client == [name : AnyName, ip : AnyIP, online : BOOLEAN]

Change == [kind : {"create", "update", "delete"}, mac : MACs,
           host : Labels, zone : AnyZone, ip : AnyIP,
           oldHost : Labels, oldZone : AnyZone, oldIP : AnyIP]

(* taken: who owns a name in a zone, as a set of claims.                   *)
Claim(row, m) == [zone |-> row.zone, host |-> row.host, mac |-> m]
(* Mutant of Claims: names are only taken once they are published.         *)
ClaimsSynced(tab) ==
    {Claim(tab[m], m) : m \in {k \in MACs : tab[k] # NoRow /\ ~tab[k].excluded /\ tab[k].synced}}

Claims(tab) == {Claim(tab[m], m) : m \in {k \in MACs : tab[k] # NoRow /\ ~tab[k].excluded}}
SameName(t, u) == t.zone = u.zone /\ t.host = u.host

(* The map built from the rows: when two rows claim one name, the one      *)
(* loaded last wins, and the query has no ORDER BY.                        *)
TakenMaps(tab) ==
    {T \in SUBSET Claims(tab) :
        /\ \A t, u \in T : SameName(t, u) => t = u
        /\ \A t \in Claims(tab) : \E u \in T : SameName(t, u)}

(* Mutant of Available: a device's own claim stands in its way.            *)
Unclaimed(taken, zone, host, m) == \A t \in taken : ~(t.zone = zone /\ t.host = host)

Available(taken, zone, host, m) ==
    \A t \in taken : t.zone = zone /\ t.host = host => t.mac = m

(* Mutant of Take: names given out in this pass are not remembered.        *)
TakeNothing(taken, zone, host, m) == taken

Take(taken, zone, host, m) ==
    {t \in taken : ~(t.zone = zone /\ t.host = host)}
        \cup {[zone |-> zone, host |-> host, mac |-> m]}

Resolve(client, override, m) ==
    CASE override # NoName -> override
      [] override = NoName /\ client.name # NoName -> client.name
      [] OTHER -> Fallback(m)

(* Mutant of Disambiguate: the short suffix is never checked.              *)
DisambiguateShort(name, m, zone, taken) ==
    IF Available(taken, zone, name, m) THEN name ELSE Short(name, m)

Disambiguate(name, m, zone, taken) ==
    CASE Available(taken, zone, name, m) -> name
      [] ~Available(taken, zone, name, m) /\ Available(taken, zone, Short(name, m), m)
            -> Short(name, m)
      [] OTHER -> Long(name, m)

-----------------------------------------------------------------------------
(* One seen client of controller c; row is NoRow for a new one.            *)

(* A static device is published at the address registered for it.          *)
Address(client, row) ==
    IF row # NoRow /\ row.static # NoIP THEN row.static ELSE client.ip

(* Without an address the device stays on its network and in its zone.     *)
Stays(ip, row) == ip = NoIP /\ row # NoRow /\ row.placed

IsPlaced(ip, row) == Stays(ip, row) \/ ip \in Networked

ZoneFor(c, ip, row) ==
    CASE row # NoRow /\ row.pin # NoZone -> row.pin
      [] ~(row # NoRow /\ row.pin # NoZone) /\ Stays(ip, row) /\ row.zone # NoZone -> row.zone
      [] OTHER -> ZoneAt(c, ip)

(* Excluded devices and identity members are tracked, not published.       *)
Passthrough(row, m, skip) == row # NoRow /\ (row.excluded \/ m \in skip)

Tracked(row, c, ip) ==
    [row EXCEPT !.ctrl = c, !.ip = IF ip = NoIP THEN @ ELSE ip,
                !.placed = IsPlaced(ip, row)]

NewRow(m, c, host, zone, ip) ==
    [id |-> 0, ctrl |-> c, host |-> host, zone |-> zone, ip |-> ip,
     synced |-> FALSE, excluded |-> m \in Private, joined |-> FALSE,
     override |-> NoName, pin |-> NoZone, static |-> NoIP,
     placed |-> IsPlaced(ip, NoRow)]

Wanted(row, c, host, zone, ip) ==
    [row EXCEPT !.ctrl = c, !.host = host, !.zone = zone, !.ip = ip,
                !.placed = IsPlaced(ip, row)]

Create(m, host, zone, ip) ==
    [kind |-> "create", mac |-> m, host |-> host, zone |-> zone, ip |-> ip,
     oldHost |-> host, oldZone |-> zone, oldIP |-> ip]

Delete(m, row) ==
    [kind |-> "delete", mac |-> m, host |-> row.host, zone |-> row.zone, ip |-> row.ip,
     oldHost |-> row.host, oldZone |-> row.zone, oldIP |-> row.ip]

Update(m, row, host, zone, ip) ==
    [kind |-> "update", mac |-> m, host |-> host, zone |-> zone, ip |-> ip,
     oldHost |-> row.host, oldZone |-> row.zone, oldIP |-> row.ip]

(* The DNS changes for a new client, and for a known one.                  *)
NewChanges(m, host, zone, ip, skip) ==
    IF ip # NoIP /\ m \notin skip /\ m \notin Private
    THEN <<Create(m, host, zone, ip)>> ELSE <<>>

(* Mutants of KnownChanges: the new record is written before the old one   *)
(* is deleted; a missing record is not created again; an address that      *)
(* changes alone goes unnoticed.                                           *)
KnownChangesSwapped(m, row, host, zone, ip) ==
    LET moved == row.zone # NoZone /\ row.zone # zone
        renamed == row.host # host \/ row.ip # ip
    IN CASE ip = NoIP /\ row.synced -> <<Delete(m, row)>>
         [] ip # NoIP /\ ~row.synced -> <<Create(m, host, zone, ip)>>
         [] ip # NoIP /\ row.synced /\ moved -> <<Create(m, host, zone, ip), Delete(m, row)>>
         [] ip # NoIP /\ row.synced /\ ~moved /\ renamed -> <<Update(m, row, host, zone, ip)>>
         [] OTHER -> <<>>
KnownChangesOnce(m, row, host, zone, ip) ==
    CASE ip = NoIP /\ row.synced -> <<Delete(m, row)>>
      [] ip # NoIP /\ row.ip = NoIP -> <<Create(m, host, zone, ip)>>
      [] ip # NoIP /\ row.ip # NoIP /\ row.host # host -> <<Update(m, row, host, zone, ip)>>
      [] OTHER -> <<>>
KnownChangesByName(m, row, host, zone, ip) ==
    CASE ip = NoIP /\ row.synced -> <<Delete(m, row)>>
      [] ip # NoIP /\ ~row.synced -> <<Create(m, host, zone, ip)>>
      [] ip # NoIP /\ row.synced /\ row.zone # zone -> <<Delete(m, row), Create(m, host, zone, ip)>>
      [] ip # NoIP /\ row.synced /\ row.zone = zone /\ row.host # host
            -> <<Update(m, row, host, zone, ip)>>
      [] OTHER -> <<>>

KnownChanges(m, row, host, zone, ip) ==
    LET moved == row.zone # NoZone /\ row.zone # zone
        renamed == row.host # host \/ row.ip # ip
    IN CASE ip = NoIP /\ row.synced -> <<Delete(m, row)>>
         [] ip # NoIP /\ ~row.synced -> <<Create(m, host, zone, ip)>>
         [] ip # NoIP /\ row.synced /\ moved -> <<Delete(m, row), Create(m, host, zone, ip)>>
         [] ip # NoIP /\ row.synced /\ ~moved /\ renamed -> <<Update(m, row, host, zone, ip)>>
         [] OTHER -> <<>>

(* shouldRemove: expired tells whether LastSeen is older than the limit.   *)
Removed(row, expired) == expired /\ ~row.excluded /\ row.synced
=============================================================================
