------------------------------ MODULE Networks ------------------------------
(***************************************************************************)
(* Settings that decide zones: controllers, the networks imported from     *)
(* them or added by hand, and the network and zone a cycle gives each      *)
(* device.  The cycle and the refresh button import networks row by row;   *)
(* admins edit the same rows.                                              *)
(***************************************************************************)
EXTENDS NetworkMatch

CONSTANTS
    Controllers,      \* the ids of controllers; an id is used once
    Devices,
    Imported,         \* the ids a controller may report a network under
    ManualIds,        \* the ids of networks added by hand; an id is used once
    Subnets, Zones, IPs,
    SubnetsFor(_),    \* the subnets a manual network may be given
    ReportsFor(_),    \* what a controller may report: functions from Imported to
                      \* subnets, NoSubnet for a network it does not have
    ZonesFor(_),      \* the zones an admin chooses for a network, by its key
    RowsFor(_),       \* the rows an admin gives a controller, NoRow to delete it
    Defaults,         \* the global default zones
    Sightings(_),     \* where a device may be seen: [ctrl, ip], ip NoIP without an address
    Seed, SeedZone,   \* the controller of config.yaml, and its zone
    Overlap,          \* edits of a network may overlap with imports and passes
    NoController, NoSubnet, NoZone, NoIP, NoRow, Gone, Idle

Keys == (Controllers \X Imported) \cup ({NoController} \X ManualIds)
AnyZone == Zones \cup {NoZone}

ASSUME NetworksAssumption ==
    /\ Imported \cap ManualIds = {}
    /\ NoController \notin Controllers /\ Seed \in Controllers /\ SeedZone \in AnyZone
    /\ NoSubnet \notin Subnets /\ NoZone \notin Zones /\ NoIP \notin IPs
    /\ \A c \in Controllers : ReportsFor(c) \subseteq [Imported -> Subnets \cup {NoSubnet}]
    /\ \A d \in Devices : Sightings(d) \subseteq [ctrl : Controllers, ip : IPs \cup {NoIP}]
    /\ IsFiniteSet(Keys)
    /\ \A s \in Subnets : Ones(s) \in Nat
    /\ \A m \in ManualIds : SubnetsFor(m) \subseteq Subnets
    /\ \A k \in Keys : ZonesFor(k) \subseteq AnyZone
    /\ Defaults \subseteq AnyZone
    /\ \A c \in Controllers : RowsFor(c) \subseteq
          [zone : AnyZone, enabled : BOOLEAN] \cup {NoRow}
    /\ Overlap \in BOOLEAN

Importers == {"engine", "refresh"}

VARIABLES
    ctrls,     \* the controllers table, NoRow for an id not used yet
    default,   \* AppSettings.DefaultZone
    nets,      \* the networks table
    born,      \* the keys ever inserted; row ids count up
    place,     \* the controller, network and zone of each device's row
    reported,  \* the networks each controller has
    sighting,  \* where each device is
    phase,     \* of the cycle: "idle", "import", "place"
    zones,     \* the default zone of each controller the cycle loaded, NoRow without
    left,      \* the controllers this phase has still to visit
    known,     \* the networks the cycle matches against
    copy,      \* the placements a pass will save, NoRow for other devices
    import,    \* what each importer does
    req,       \* the admin's request in progress, Idle if none
    calm       \* nothing fails or changes any more

cycle == <<phase, zones, left, known, copy>>
world == <<reported, sighting, calm>>
vars == <<ctrls, default, nets, born, place, cycle, import, req, world>>

Controller == [zone : AnyZone, enabled : BOOLEAN]
Network == [id : 1 .. Cardinality(Keys), manual : BOOLEAN,
            ctrl : Controllers \cup {NoController}, subnet : Subnets, zone : AnyZone]
Placement == [ctrl : Controllers \cup {NoController},
              net : 0 .. Cardinality(Keys), zone : AnyZone]

Report == [Imported -> Subnets \cup {NoSubnet}]

(* hold is the row an import has read and will save, or Idle.              *)
Import == [ctrl : Controllers, fetched : Report, left : SUBSET Imported,
           key : Keys \cup {Idle}, hold : Network \cup {NoRow}]

Request == [op : {"create", "save", "drop"}, key : Keys, row : Network]

(* The null values are none of the values they stand beside.               *)
ASSUME NullAssumption ==
    /\ NoRow \notin Controller \cup Network \cup Placement \cup AnyZone /\ NoNet \notin Network
    /\ Gone \notin Controller \cup {NoRow}
    /\ Idle \notin Import \cup Request \cup Keys

(* Values of the right type, and work in progress only where it belongs.   *)
TypeOK ==
    /\ ctrls \in [Controllers -> Controller \cup {NoRow, Gone}]
    /\ default \in AnyZone
    /\ nets \in [Keys -> Network \cup {NoRow}]
    /\ born \subseteq Keys
    /\ place \in [Devices -> Placement]
    /\ phase \in {"idle", "import", "place"}
    /\ zones \in [Controllers -> AnyZone \cup {NoRow}]
    /\ left \subseteq {c \in Controllers : zones[c] # NoRow}
    /\ known \subseteq Network
    /\ copy \in [Devices -> Placement \cup {NoRow}]
    /\ import \in [Importers -> Import \cup {Idle}]
    /\ phase # "import" => import["engine"] = Idle
    /\ req \in Request \cup {Idle}
    /\ reported \in [Controllers -> Report]
    /\ sighting \in [Devices -> [ctrl : Controllers, ip : IPs \cup {NoIP}]]
    /\ calm \in BOOLEAN

NoCycle == [c \in Controllers |-> NoRow]
NoCopy == [d \in Devices |-> NoRow]
Unplaced == [ctrl |-> NoController, net |-> 0, zone |-> NoZone]
Fresh == [zone |-> SeedZone, enabled |-> TRUE]

Init ==
    /\ ctrls = [c \in Controllers |-> IF c = Seed THEN Fresh ELSE NoRow]
    /\ default = SeedZone
    /\ nets = [k \in Keys |-> NoRow] /\ born = {}
    /\ place = [d \in Devices |-> Unplaced]
    /\ reported \in {f \in [Controllers -> Report] : \A c \in Controllers : f[c] \in ReportsFor(c)}
    /\ sighting \in {f \in [Devices -> UNION {Sightings(d) : d \in Devices}] :
                        \A d \in Devices : f[d] \in Sightings(d)}
    /\ phase = "idle" /\ zones = NoCycle /\ left = {} /\ known = {} /\ copy = NoCopy
    /\ import = [i \in Importers |-> Idle]
    /\ req = Idle
    /\ calm = FALSE

-----------------------------------------------------------------------------
(* Edits keep clear of imports and passes unless they may overlap.         *)
Holding == import["engine"] # Idle /\ import["engine"].key # Idle
Undisturbed == Overlap \/ req = Idle
MayEdit ==
    /\ req = Idle
    /\ Overlap \/ (phase # "place" /\ import["refresh"] = Idle /\ ~Holding)

(* UpsertNetworks: each network is looked up, then inserted or saved.      *)
(* An import that has nothing left is over.                                *)
Remaining(imp) == IF imp.left = {} /\ imp.key = Idle THEN Idle ELSE imp

Fetched(c) == Remaining(
    [ctrl |-> c, fetched |-> reported[c],
     left |-> {u \in Imported : reported[c][u] # NoSubnet},
     key |-> Idle, hold |-> NoRow])

(* Mutant of Refreshed: the row is built anew from what was fetched.       *)
RefreshedAnew(row, subnet) == [row EXCEPT !.subnet = subnet, !.zone = NoZone]
Refreshed(row, subnet) == [row EXCEPT !.subnet = subnet]

Lookup(i, u) ==
    /\ import[i] # Idle /\ import[i].key = Idle /\ u \in import[i].left
    /\ Undisturbed
    /\ LET key == <<import[i].ctrl, u>>
           subnet == import[i].fetched[u]
           rest == [import[i] EXCEPT !.left = @ \ {u}]
           same == nets[key] # NoRow /\ nets[key].subnet = subnet
           hold == IF nets[key] = NoRow THEN NoRow ELSE Refreshed(nets[key], subnet)
       IN import' = [import EXCEPT ![i] =
                        IF same THEN Remaining(rest) ELSE [rest EXCEPT !.key = key, !.hold = hold]]
    /\ UNCHANGED <<ctrls, default, nets, born, place, cycle, req, world>>

Inserted(key, subnet, zone) ==
    [id |-> Cardinality(born) + 1, manual |-> key[1] = NoController, ctrl |-> key[1],
     subnet |-> subnet, zone |-> zone]

(* The unique index refuses a second insert, which ends the import.        *)
Write(i) ==
    /\ import[i] # Idle /\ import[i].key # Idle
    /\ LET imp == import[i]
           key == imp.key
           clash == imp.hold = NoRow /\ nets[key] # NoRow
           row == IF imp.hold # NoRow THEN imp.hold
                  ELSE Inserted(key, imp.fetched[key[2]], NoZone)
       IN /\ nets' = IF clash THEN nets ELSE [nets EXCEPT ![key] = row]
          /\ born' = born \cup {key}
          /\ import' = [import EXCEPT ![i] = Remaining([imp EXCEPT
                !.key = Idle, !.hold = NoRow, !.left = IF clash THEN {} ELSE imp.left])]
    /\ UNCHANGED <<ctrls, default, place, cycle, req, world>>

-----------------------------------------------------------------------------
(* The cycle.                                                              *)

Listed(c) == ctrls[c] \notin {NoRow, Gone}
Enabled(c) == Listed(c) /\ ctrls[c].enabled

NothingToSync ==
    /\ phase = "idle" /\ \A c \in Controllers : ~Enabled(c)
    /\ UNCHANGED vars

BeginCycle ==
    LET enabled == {c \in Controllers : Enabled(c)} IN
    /\ phase = "idle" /\ enabled # {}
    /\ phase' = "import" /\ left' = enabled
    /\ zones' = [c \in Controllers |->
          CASE c \notin enabled -> NoRow
            [] c \in enabled /\ ctrls[c].zone # NoZone -> ctrls[c].zone
            [] OTHER -> default]
    /\ UNCHANGED <<ctrls, default, nets, born, place, known, copy, import, req, world>>

(* A controller that does not answer keeps the networks imported earlier.  *)
ImportNetworks(c, ok) ==
    /\ phase = "import" /\ c \in left /\ import["engine"] = Idle
    /\ ok \/ ~calm
    /\ import' = IF ok THEN [import EXCEPT !["engine"] = Fetched(c)] ELSE import
    /\ left' = left \ {c}
    /\ UNCHANGED <<ctrls, default, nets, born, place, phase, zones, known, copy, req, world>>

(* Mutant of LoadNetworks: it does not wait for the imports.               *)
LoadNetworksEarly ==
    /\ phase = "import" /\ left = {}
    /\ Undisturbed
    /\ phase' = "place"
    /\ left' = {c \in Controllers : zones[c] # NoRow}
    /\ known' = {nets[k] : k \in Keys} \ {NoRow}
    /\ UNCHANGED <<ctrls, default, nets, born, place, zones, copy, import, req, world>>

LoadNetworks ==
    /\ phase = "import" /\ left = {} /\ import["engine"] = Idle
    /\ Undisturbed
    /\ phase' = "place"
    /\ left' = {c \in Controllers : zones[c] # NoRow}
    /\ known' = {nets[k] : k \in Keys} \ {NoRow}
    /\ UNCHANGED <<ctrls, default, nets, born, place, zones, copy, import, req, world>>

(* The resolver, for a device that c sees at ip; without an address a      *)
(* placed device stays where it is.  Mutant of Resolved: the zone chosen   *)
(* for the network is not looked at.                                       *)
ResolvedDefault(entries, ip, c) ==
    LET n == IF ip = NoIP THEN NoNet ELSE Match(entries, ip, c)
    IN [ctrl |-> c, net |-> IF n = NoNet THEN 0 ELSE n.id, zone |-> zones[c]]

Resolved(entries, ip, c) ==
    LET n == IF ip = NoIP THEN NoNet ELSE Match(entries, ip, c) IN
    CASE n = NoNet -> [ctrl |-> c, net |-> 0, zone |-> zones[c]]
      [] n # NoNet /\ n.zone = NoZone -> [ctrl |-> c, net |-> n.id, zone |-> zones[c]]
      [] OTHER -> [ctrl |-> c, net |-> n.id, zone |-> n.zone]

Stays(row, ip) == ip = NoIP /\ row.net # 0

(* Rows of c whose devices it does not see are written back as they were.  *)
Pass(c, entries) ==
    /\ phase = "place" /\ c \in left /\ copy = NoCopy
    /\ left' = left \ {c}
    /\ copy' = [d \in Devices |->
          CASE sighting[d].ctrl = c /\ Stays(place[d], sighting[d].ip)
                 -> [place[d] EXCEPT !.ctrl = c, !.zone = IF @ = NoZone THEN zones[c] ELSE @]
            [] sighting[d].ctrl = c /\ ~Stays(place[d], sighting[d].ip)
                 -> Resolved(entries, sighting[d].ip, c)
            [] sighting[d].ctrl # c /\ place[d].ctrl = c -> place[d]
            [] OTHER -> NoRow]
    /\ UNCHANGED <<ctrls, default, nets, born, place, phase, zones, known, import, req, world>>

(* A controller that does not answer leaves its devices as they are.       *)
FetchFails(c) ==
    /\ phase = "place" /\ c \in left /\ copy = NoCopy
    /\ ~calm
    /\ left' = left \ {c}
    /\ UNCHANGED <<ctrls, default, nets, born, place, phase, zones, known, copy, import, req, world>>

Persist ==
    /\ copy # NoCopy
    /\ place' = [d \in Devices |-> IF copy[d] = NoRow THEN place[d] ELSE copy[d]]
    /\ copy' = NoCopy
    /\ UNCHANGED <<ctrls, default, nets, born, phase, zones, left, known, import, req, world>>

EndCycle ==
    /\ phase = "place" /\ left = {} /\ copy = NoCopy
    /\ phase' = "idle" /\ zones' = NoCycle /\ known' = {}
    /\ UNCHANGED <<ctrls, default, nets, born, place, left, copy, import, req, world>>

Cycle ==
    \/ NothingToSync
    \/ BeginCycle
    \/ \E c \in Controllers, ok \in BOOLEAN : ImportNetworks(c, ok)
    \/ \E u \in Imported : Lookup("engine", u)
    \/ Write("engine")
    \/ LoadNetworks
    \/ \E c \in Controllers : \E entries \in SetToSeqs(known) : Pass(c, entries)
    \/ \E c \in Controllers : FetchFails(c)
    \/ Persist
    \/ EndCycle

-----------------------------------------------------------------------------
(* The settings pages.                                                     *)

Defined(subnet, self) ==
    \E m \in ManualIds : LET row == nets[<<NoController, m>>]
                         IN m # self /\ row # NoRow /\ row.subnet = subnet

Submit(op, key, row) ==
    /\ MayEdit
    /\ req' = [op |-> op, key |-> key, row |-> row]
    /\ UNCHANGED <<ctrls, default, nets, born, place, cycle, import, world>>

AddNetwork(m, subnet, zone) ==
    LET key == <<NoController, m>> IN
    /\ key \notin born
    /\ ~Defined(subnet, m)
    /\ Submit("create", key, Inserted(key, subnet, zone))

(* editNetwork, setNetworkZone: the row as loaded, with what was chosen;   *)
(* only a manual network's subnet can be.                                  *)
EditNetwork(key, subnet, zone) ==
    /\ nets[key] # NoRow
    /\ IF nets[key].manual THEN ~Defined(subnet, key[2]) ELSE subnet = nets[key].subnet
    /\ Submit("save", key, [nets[key] EXCEPT !.subnet = subnet, !.zone = zone])

DeleteNetwork(key) ==
    /\ nets[key] # NoRow /\ nets[key].manual
    /\ Submit("drop", key, nets[key])

(* The id is given by the insert.  Save inserts a row again that is gone.  *)
Saved ==
    /\ req # Idle /\ req.op \in {"create", "save"}
    /\ nets' = [nets EXCEPT ![req.key] =
          IF req.op = "create" THEN Inserted(req.key, req.row.subnet, req.row.zone) ELSE req.row]
    /\ born' = born \cup {req.key}
    /\ req' = Idle
    /\ UNCHANGED <<ctrls, default, place, cycle, import, world>>

(* Mutant of Displaced: the devices of a deleted network are left alone.   *)
DisplacedNone(d, id) == place[d]
Displaced(d, id) == IF place[d].net = id THEN [place[d] EXCEPT !.net = 0] ELSE place[d]

Drop ==
    /\ req # Idle /\ req.op = "drop"
    /\ place' = [d \in Devices |-> Displaced(d, req.row.id)]
    /\ nets' = [nets EXCEPT ![req.key] = NoRow]
    /\ req' = Idle
    /\ UNCHANGED <<ctrls, default, born, cycle, import, world>>

SaveController(c, row) ==
    /\ ctrls' = [ctrls EXCEPT ![c] = row]
    /\ UNCHANGED <<default, nets, born, place, cycle, import, req, world>>

AddController(c, row) == ctrls[c] = NoRow /\ row.enabled /\ SaveController(c, row)
EditController(c, row) == Listed(c) /\ SaveController(c, row)
DeleteController(c) == Listed(c) /\ SaveController(c, Gone)

SaveGeneral(zone) ==
    /\ default' = zone
    /\ UNCHANGED <<ctrls, nets, born, place, cycle, import, req, world>>

RefreshNetworks(c) ==
    /\ Listed(c) /\ import["refresh"] = Idle /\ Undisturbed
    /\ import' = [import EXCEPT !["refresh"] = Fetched(c)]
    /\ UNCHANGED <<ctrls, default, nets, born, place, cycle, req, world>>

Admin ==
    \/ \E m \in ManualIds : \E subnet \in SubnetsFor(m), zone \in ZonesFor(<<NoController, m>>) :
          AddNetwork(m, subnet, zone)
    \/ \E key \in Keys : \E subnet \in Subnets, zone \in ZonesFor(key) :
          EditNetwork(key, subnet, zone)
    \/ \E key \in Keys : DeleteNetwork(key)
    \/ Saved
    \/ Drop
    \/ \E c \in Controllers : \E row \in RowsFor(c) \ {NoRow} :
          AddController(c, row) \/ EditController(c, row)
    \/ \E c \in Controllers : NoRow \in RowsFor(c) /\ DeleteController(c)
    \/ \E c \in Controllers : RefreshNetworks(c)
    \/ \E zone \in Defaults : SaveGeneral(zone)
    \/ \E u \in Imported : Lookup("refresh", u)
    \/ Write("refresh")

(* The process dies and starts again: an empty controllers table is seeded *)
(* from config.yaml, under a new id.  Bound: while there is one.           *)
Seeded == {[ctrls EXCEPT ![c] = Fresh] : c \in {e \in Controllers : ctrls[e] = NoRow}}

Restart ==
    /\ phase' = "idle" /\ zones' = NoCycle /\ left' = {} /\ known' = {} /\ copy' = NoCopy
    /\ import' = [i \in Importers |-> Idle] /\ req' = Idle
    /\ ctrls' \in IF Seeded = {} \/ \E c \in Controllers : Listed(c) THEN {ctrls} ELSE Seeded
    /\ UNCHANGED <<default, nets, born, place, world>>

World ==
    /\ \/ \E c \in Controllers : \E r \in ReportsFor(c) :
             reported' = [reported EXCEPT ![c] = r] /\ UNCHANGED sighting
       \/ \E d \in Devices : \E s \in Sightings(d) :
             sighting' = [sighting EXCEPT ![d] = s] /\ UNCHANGED reported
    /\ UNCHANGED <<ctrls, default, nets, born, place, cycle, import, req, calm>>

CalmDown ==
    /\ ~calm /\ phase = "idle" /\ req = Idle /\ import["refresh"] = Idle
    /\ calm' = TRUE
    /\ UNCHANGED <<ctrls, default, nets, born, place, cycle, import, req, reported, sighting>>

Next ==
    \/ Cycle
    \/ ~calm /\ Admin
    \/ ~calm /\ Restart
    \/ ~calm /\ World
    \/ CalmDown

(* Engine.Run starts a cycle at every tick, and once things are calm every *)
(* call gets an answer.                                                    *)
Spec == Init /\ [][Next]_vars /\ WF_vars(Cycle /\ calm)

-----------------------------------------------------------------------------
(* Only an admin ever changes the zone of a network: imports, whichever of *)
(* them overlap, "keep their user-assigned Zone" (UpsertNetworks).         *)
ImportsKeepZones ==
    [][\A key \in Keys :
          nets[key] # NoRow /\ nets'[key] # NoRow /\ nets'[key].zone # nets[key].zone
              => req # Idle /\ req.op = "save" /\ req.key = key]_vars

(* No device is left on a network that does not exist, whatever is deleted *)
(* between passes, and wherever a crash or the loss of its address falls   *)
(* (deleteNetwork).                                                        *)
PlacedOnKnown ==
    \A d \in Devices : place[d].net # 0 =>
        \E key \in Keys : nets[key] # NoRow /\ nets[key].id = place[d].net

(* Once things are calm, the imported networks are what the enabled        *)
(* controllers report, and every device with an address that one of them   *)
(* sees is on the most specific network around it: a manual one before an  *)
(* imported one, one of the seeing controller before another's, the oldest *)
(* before a younger one (NetworkMatcher.Match), and in that network's      *)
(* zone, or else the controller's, or else the global one.                 *)
InStep(c) ==
    \A u \in Imported : reported[c][u] # NoSubnet =>
        nets[<<c, u>>] # NoRow /\ nets[<<c, u>>].subnet = reported[c][u]

Rank(n, c) == <<Ones(n.subnet), IF n.manual THEN 1 ELSE 0, IF n.ctrl = c THEN 1 ELSE 0>>
Outranks(n, o, c) ==
    \/ \E i \in 1 .. 3 : /\ Rank(n, c)[i] > Rank(o, c)[i]
                        /\ \A j \in 1 .. i - 1 : Rank(n, c)[j] = Rank(o, c)[j]
    \/ Rank(n, c) = Rank(o, c) /\ n.id < o.id

RightlyPlaced(d) ==
    LET c == sighting[d].ctrl
        around == {n \in {nets[k] : k \in Keys} \ {NoRow} : Inside(n.subnet, sighting[d].ip)}
        fallback == IF ctrls[c].zone # NoZone THEN ctrls[c].zone ELSE default
    IN IF around = {} THEN place[d] = [ctrl |-> c, net |-> 0, zone |-> fallback]
       ELSE \E n \in around :
               /\ \A o \in around \ {n} : Outranks(n, o, c)
               /\ place[d] = [ctrl |-> c, net |-> n.id,
                              zone |-> IF n.zone # NoZone THEN n.zone ELSE fallback]

Settles ==
    calm ~> [](phase = "idle" =>
        /\ \A c \in Controllers : Enabled(c) => InStep(c)
        /\ \A d \in Devices : Enabled(sighting[d].ctrl) /\ sighting[d].ip # NoIP
                                  => RightlyPlaced(d))
=============================================================================
