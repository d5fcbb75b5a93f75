----------------------------- MODULE AliasSync ------------------------------
(***************************************************************************)
(* Aliases: extra names of a device, each a CNAME to the device's own      *)
(* name.  The last stage of a cycle takes an outdated CNAME down and adds  *)
(* the current one, alias by alias, saving each row as it goes; handlers   *)
(* add and delete aliases, forget devices and edit records by hand.        *)
(***************************************************************************)
EXTENDS Naturals

CONSTANTS
    Devices,          \* device ids; an id is used once
    Labels, Zones,
    StatesFor(_),     \* what the rest of the system makes of a device's row
    AliasesFor(_),    \* the aliases an admin gives it
    ByHand,           \* the names an admin edits records of
    FailIn,           \* where a DNS call may fail: "stage", "delete", "forget"
    LostReplies,      \* a failed call may have been carried out
    Overlap,          \* deletions may overlap with the alias stage
    NoRow, NoZone, NoLabel, NoName, Elsewhere, Idle

(* A device row, as far as aliases read it.                                *)
Device ==
    [host : Labels, override : Labels \cup {NoLabel},
     zone : Zones \cup {NoZone}, pin : Zones \cup {NoZone},
     synced : BOOLEAN, excluded : BOOLEAN, joined : BOOLEAN]

(* The unique index of the table; pin is NoZone to follow the device.      *)
Alias == [dev : Devices, label : Labels, pin : Zones \cup {NoZone}]

Name == [label : Labels, zone : Zones]

ASSUME AliasAssumption ==
    /\ \A d \in Devices : StatesFor(d) \subseteq Device /\ StatesFor(d) # {}
    /\ \A d \in Devices : AliasesFor(d) \subseteq Alias /\ \A k \in AliasesFor(d) : k.dev = d
    /\ ByHand \subseteq Name
    /\ FailIn \subseteq {"stage", "delete", "forget"}
    /\ LostReplies \in BOOLEAN /\ Overlap \in BOOLEAN
    /\ NoZone \notin Zones /\ NoLabel \notin Labels
    /\ NoName \notin Name /\ Elsewhere \notin Name /\ NoName # Elsewhere
    /\ NoRow \notin Device
    /\ Idle \notin [key : Alias, dev : Device]

Aliases == UNION {AliasesFor(d) : d \in Devices}

(* name and target are what Synced* say is in DNS.                         *)
Row == [synced : BOOLEAN, name : Name \cup {NoName}, target : Name \cup {NoName}]
NoCopy == [k \in Aliases |-> NoRow]
NoDevices == [d \in Devices |-> NoRow]
Unpublished == [synced |-> FALSE, name |-> NoName, target |-> NoName]

VARIABLES
    devs,      \* the devices, NoRow once forgotten
    table,     \* the aliases, NoRow for those that do not exist
    cname,     \* the target of each name on the server, NoName without a CNAME
    phase,     \* "idle", or "apply" during the alias stage
    copy,      \* the rows the stage loaded and has still to visit
    seen,      \* the devices it loaded
    adding,    \* an alias being added, with the device as loaded
    req,       \* a deletion in progress, Idle if none
    calm       \* nothing fails and nobody edits any more

stage == <<phase, copy, seen>>
vars == <<devs, table, cname, stage, adding, req, calm>>

Adding == [key : Alias, dev : Device]
Request ==
    [op : {"delete"}, key : Alias, row : Row, step : {"record", "row"}]
        \cup [op : {"forget"}, dev : Devices, left : SUBSET Name, step : {"records", "device"}]
        \cup [op : {"unlist"}, name : Name]

ASSUME NullAssumption == NoRow \notin Row /\ Idle \notin Request

(* Values of the right type, and work left only during a stage.            *)
TypeOK ==
    /\ devs \in [Devices -> Device \cup {NoRow}]
    /\ table \in [Aliases -> Row \cup {NoRow}]
    /\ cname \in [Name -> Name \cup {NoName, Elsewhere}]
    /\ phase \in {"idle", "apply"}
    /\ copy \in [Aliases -> Row \cup {NoRow}]
    /\ seen \in [Devices -> Device \cup {NoRow}]
    /\ phase = "idle" => copy = NoCopy
    /\ adding \in Adding \cup {Idle}
    /\ req \in Request \cup {Idle}
    /\ calm \in BOOLEAN

Init ==
    /\ devs \in {f \in [Devices -> Device] : \A d \in Devices : f[d] \in StatesFor(d)}
    /\ table = NoCopy
    /\ cname = [n \in Name |-> NoName]
    /\ phase = "idle" /\ copy = NoCopy /\ seen = NoDevices
    /\ adding = Idle /\ req = Idle
    /\ calm = FALSE

-----------------------------------------------------------------------------
(* Calls to the server.                                                    *)

(* A CNAME needs no value to be deleted; one that is not there is gone     *)
(* already.  Adding overwrites.                                            *)
Without(name) == [cname EXCEPT ![name] = NoName]
With(name, target) == [cname EXCEPT ![name] = target]

After(where, ok, done) ==
    CASE ok -> {done}
      [] ~ok /\ where \in FailIn /\ ~calm -> {cname} \cup (IF LostReplies THEN {done} ELSE {})
      [] OTHER -> {}

-----------------------------------------------------------------------------
(* The alias stage.                                                        *)

Present(dev) == dev # NoRow /\ dev.synced /\ ~dev.excluded /\ dev.zone # NoZone

ZoneOf(k, dev) == IF k.pin # NoZone THEN k.pin ELSE dev.zone
NameOf(k, dev) == [label |-> k.label, zone |-> ZoneOf(k, dev)]
TargetOf(dev) == [label |-> dev.host, zone |-> dev.zone]
PublishedAs(k, dev) == [synced |-> TRUE, name |-> NameOf(k, dev), target |-> TargetOf(dev)]

(* Mutant of Outdated: a device that moved under the same name is missed.  *)
OutdatedName(row, k, dev) ==
    row.synced /\ (~Present(dev) \/ row.name # NameOf(k, dev))
Outdated(row, k, dev) ==
    row.synced /\ (~Present(dev) \/ row # PublishedAs(k, dev))

BeginStage ==
    /\ phase = "idle" /\ (Overlap \/ req = Idle)
    /\ phase' = "apply" /\ copy' = table /\ seen' = devs
    /\ UNCHANGED <<devs, table, cname, adding, req, calm>>

(* Save updates the row, and inserts it again when it is gone.             *)
Done(k, row) ==
    /\ table' = [table EXCEPT ![k] = row]
    /\ copy' = [copy EXCEPT ![k] = NoRow]
    /\ UNCHANGED <<devs, phase, seen, adding, req, calm>>

Visiting(k) == phase = "apply" /\ copy[k] # NoRow
Current(k) == Visiting(k) /\ ~Outdated(copy[k], k, seen[k.dev])

(* An error leaves the row as it is; otherwise the alias is visited on.    *)
(* Mutant of Removed: the row is cleared whatever the server answers.      *)
RemovedAnyway(row, ok) == Unpublished
Removed(row, ok) == IF ok THEN Unpublished ELSE row

RemoveOld(k, ok) ==
    /\ Visiting(k) /\ Outdated(copy[k], k, seen[k.dev])
    /\ cname' \in After("stage", ok, Without(copy[k].name))
    /\ IF ok THEN /\ copy' = [copy EXCEPT ![k] = Removed(@, ok)]
                  /\ UNCHANGED <<devs, table, phase, seen, adding, req, calm>>
             ELSE Done(k, Removed(copy[k], ok))

(* The alias of a forgotten device goes with it.                           *)
DropGone(k) ==
    /\ Current(k) /\ seen[k.dev] = NoRow
    /\ Done(k, NoRow)
    /\ UNCHANGED cname

AddNew(k, ok) ==
    /\ Current(k) /\ Present(seen[k.dev]) /\ ~copy[k].synced
    /\ cname' \in After("stage", ok, With(NameOf(k, seen[k.dev]), TargetOf(seen[k.dev])))
    /\ Done(k, IF ok THEN PublishedAs(k, seen[k.dev]) ELSE copy[k])

Keep(k) ==
    /\ Current(k) /\ seen[k.dev] # NoRow
    /\ copy[k].synced \/ ~Present(seen[k.dev])
    /\ Done(k, copy[k])
    /\ UNCHANGED cname

(* Mutant of EndStage: the stage stops at the first alias in trouble.      *)
EndStageEarly ==
    /\ phase = "apply"
    /\ phase' = "idle" /\ seen' = NoDevices
    /\ UNCHANGED <<devs, table, cname, copy, adding, req, calm>>
EndStage ==
    /\ phase = "apply" /\ copy = NoCopy
    /\ phase' = "idle" /\ seen' = NoDevices
    /\ UNCHANGED <<devs, table, cname, copy, adding, req, calm>>

Stage ==
    \/ BeginStage
    \/ \E k \in Aliases, ok \in BOOLEAN : RemoveOld(k, ok) \/ AddNew(k, ok)
    \/ \E k \in Aliases : DropGone(k) \/ Keep(k)
    \/ EndStage

-----------------------------------------------------------------------------
(* Adding an alias.  The device is loaded, the zones are asked for, then   *)
(* the name is checked and the row created in one transaction.             *)

EffectiveZone(k, dev) ==
    CASE k.pin # NoZone -> k.pin
      [] k.pin = NoZone /\ dev.zone # NoZone -> dev.zone
      [] OTHER -> dev.pin

EffectiveHostname(dev) == IF dev.override # NoLabel THEN dev.override ELSE dev.host

(* parseAlias pins no alias to the zone its device is in.                  *)
LoadForAlias(k) ==
    /\ adding = Idle /\ devs[k.dev] # NoRow
    /\ ~devs[k.dev].joined
    /\ k.pin = NoZone \/ k.pin \notin {devs[k.dev].zone, devs[k.dev].pin}
    /\ ~(k.label = EffectiveHostname(devs[k.dev])
            /\ EffectiveZone(k, devs[k.dev]) = devs[k.dev].zone)
    /\ adding' = [key |-> k, dev |-> devs[k.dev]]
    /\ UNCHANGED <<devs, table, cname, stage, req, calm>>

HostTaken(label, zone) ==
    \E d \in Devices : devs[d] # NoRow /\ devs[d].zone = zone
                          /\ label \in {devs[d].host, devs[d].override}

(* Mutant of AliasTaken: the pin of the other alias is not looked at.      *)
AliasTakenUnpinned(label, zone) ==
    \E k \in Aliases : /\ table[k] # NoRow /\ devs[k.dev] # NoRow
                       /\ k.label = label /\ devs[k.dev].zone = zone
AliasTaken(label, zone) ==
    \E k \in Aliases : /\ table[k] # NoRow /\ devs[k.dev] # NoRow
                       /\ k.label = label /\ ZoneOf(k, devs[k.dev]) = zone

NameTaken(label, zone) ==
    zone # NoZone /\ (HostTaken(label, zone) \/ AliasTaken(label, zone))

(* Bound: not again while the stage holds the row of a deleted one.        *)
Held(k) == copy[k] # NoRow /\ table[k] = NoRow

CreateAlias ==
    /\ adding # Idle
    /\ ~Held(adding.key)
    /\ table' = IF \/ table[adding.key] # NoRow
                   \/ NameTaken(adding.key.label, EffectiveZone(adding.key, adding.dev))
                THEN table ELSE [table EXCEPT ![adding.key] = Unpublished]
    /\ adding' = Idle
    /\ UNCHANGED <<devs, cname, stage, req, calm>>

-----------------------------------------------------------------------------
(* Deletions: of an alias, of a device with its aliases, of a record.      *)

Begin(request) ==
    /\ req = Idle /\ (Overlap \/ phase = "idle")
    /\ req' = request
    /\ UNCHANGED <<devs, table, cname, stage, adding, calm>>

DeleteAlias(k) ==
    /\ table[k] # NoRow /\ devs[k.dev] # NoRow
    /\ Begin([op |-> "delete", key |-> k, row |-> table[k],
              step |-> IF table[k].synced THEN "record" ELSE "row"])

At(op) == req # Idle /\ req.op = op

DeleteAliasRecord(ok) ==
    /\ At("delete") /\ req.step = "record"
    /\ cname' \in After("delete", ok, Without(req.row.name))
    /\ req' = IF ok THEN [req EXCEPT !.step = "row"] ELSE Idle
    /\ UNCHANGED <<devs, table, stage, adding, calm>>

DeleteAliasRow ==
    /\ At("delete") /\ req.step = "row"
    /\ table' = [table EXCEPT ![req.key] = NoRow]
    /\ req' = Idle
    /\ UNCHANGED <<devs, cname, stage, adding, calm>>

(* forgetOne, from the aliases on; a record that cannot be deleted is      *)
(* logged.                                                                 *)
Of(d) == {k \in AliasesFor(d) : table[k] # NoRow}

Forget(d) ==
    /\ devs[d] # NoRow
    /\ Begin([op |-> "forget", dev |-> d, step |-> "records",
              left |-> {table[k].name : k \in {j \in Of(d) : table[j].synced}}])

ForgetRecord(n, ok) ==
    /\ At("forget") /\ n \in req.left
    /\ cname' \in After("forget", ok, Without(n))
    /\ req' = [req EXCEPT !.left = @ \ {n}]
    /\ UNCHANGED <<devs, table, stage, adding, calm>>

ForgetAliases ==
    /\ At("forget") /\ req.left = {} /\ req.step = "records"
    /\ table' = [k \in Aliases |-> IF k.dev = req.dev THEN NoRow ELSE table[k]]
    /\ req' = [req EXCEPT !.step = "device"]
    /\ UNCHANGED <<devs, cname, stage, adding, calm>>

ForgetDevice ==
    /\ At("forget") /\ req.step = "device"
    /\ devs' = [devs EXCEPT ![req.dev] = NoRow]
    /\ req' = Idle
    /\ UNCHANGED <<table, cname, stage, adding, calm>>

(* The record page refuses to delete what an alias has published, going by *)
(* the name and target on the page.                                        *)
Managed(name, target) ==
    \E k \in Aliases : table[k] = [synced |-> TRUE, name |-> name, target |-> target]

DeleteNetworkRecord(n, target) ==
    /\ target # NoName /\ (Overlap \/ target = cname[n])
    /\ ~Managed(n, target)
    /\ Begin([op |-> "unlist", name |-> n])

Unlist(ok) ==
    /\ At("unlist")
    /\ cname' \in After("delete", ok, Without(req.name))
    /\ req' = Idle
    /\ UNCHANGED <<devs, table, stage, adding, calm>>

(* The page adds without overwriting.                                      *)
AddNetworkRecord(n) ==
    /\ cname[n] = NoName
    /\ cname' = With(n, Elsewhere)
    /\ UNCHANGED <<devs, table, stage, adding, req, calm>>

Admin ==
    \/ \E k \in Aliases : LoadForAlias(k) \/ DeleteAlias(k)
    \/ CreateAlias
    \/ \E ok \in BOOLEAN : DeleteAliasRecord(ok) \/ Unlist(ok)
    \/ DeleteAliasRow
    \/ \E d \in Devices : Forget(d)
    \/ \E n \in Name, ok \in BOOLEAN : ForgetRecord(n, ok)
    \/ ForgetAliases
    \/ ForgetDevice
    \/ \E n \in ByHand : AddNetworkRecord(n)
    \/ \E n \in ByHand, target \in Name \cup {Elsewhere} : DeleteNetworkRecord(n, target)

-----------------------------------------------------------------------------
(* The stages before, and the other handlers.                              *)
DeviceChanges ==
    /\ \E d \in Devices : /\ devs[d] # NoRow
                          /\ \E dev \in StatesFor(d) : devs' = [devs EXCEPT ![d] = dev]
    /\ UNCHANGED <<table, cname, stage, adding, req, calm>>

CalmDown ==
    /\ ~calm /\ phase = "idle" /\ req = Idle /\ adding = Idle
    /\ calm' = TRUE
    /\ UNCHANGED <<devs, table, cname, stage, adding, req>>

Next ==
    \/ Stage
    \/ ~calm /\ Admin
    \/ ~calm /\ DeviceChanges
    \/ CalmDown

(* Engine.Run starts a cycle at every tick, and once things are calm every *)
(* call gets an answer.                                                    *)
Spec == Init /\ [][Next]_vars /\ WF_vars(Stage /\ calm)

-----------------------------------------------------------------------------
(* What the properties need of the rest of the system: a device has a zone *)
(* and goes only where its aliases clash with no other's.  Two aliases     *)
(* that can have one name at all always have; adding one is then refused   *)
(* while the other is there (aliasNameTaken).                              *)
NamesKeepApart ==
    /\ \A d \in Devices : \A dev \in StatesFor(d) : dev.zone # NoZone
    /\ \A k, l \in Aliases : k # l =>
          \A dev, new \in StatesFor(k.dev), other, later \in StatesFor(l.dev) :
              NameOf(k, dev) = NameOf(l, other) => NameOf(k, new) = NameOf(l, later)

Settled == phase = "idle" /\ req = Idle

(* Between stages, the CNAME an alias claims is there and points where the *)
(* row says, whatever failed, was renamed, moved, deleted or edited by     *)
(* hand (models.go: "The Synced* fields mirror what is actually in DNS     *)
(* right now").                                                            *)
AliasMarked ==
    Settled => \A k \in Aliases :
        table[k] # NoRow /\ table[k].synced => cname[table[k].name] = table[k].target

(* And no CNAME of netreg is without an alias that claims it: a rename, a  *)
(* zone move or the device going away leave none behind.                   *)
NoStray ==
    Settled => \A n \in Name : cname[n] \notin {NoName, Elsewhere} =>
        \E k \in Aliases : table[k] # NoRow /\ table[k].synced /\ table[k].name = n

(* Once things are calm, each alias is published exactly while its device  *)
(* has a confirmed A record (syncAliases), and the aliases of forgotten    *)
(* devices are gone.                                                       *)
AsPromised(k) ==
    LET dev == devs[k.dev] IN
    table[k] # NoRow =>
        /\ dev # NoRow
        /\ table[k].synced <=> Present(dev)
        /\ Present(dev) => cname[NameOf(k, dev)] = TargetOf(dev)

Settles == calm ~> [](phase = "idle" => \A k \in Aliases : AsPromised(k))
=============================================================================
