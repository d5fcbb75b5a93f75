# A verification development for on-netreg

on-netreg keeps a registry of the clients that UniFi controllers report, and publishes each of
them as an A record on a Technitium DNS server. This directory holds TLA+ modules of its parts, the
TLC runs that check them and TLAPS proofs about them.

    tlc -config <run>.cfg <module>     # one run; PROJECT.json lists the module of each
    tlapm <module>Proofs.tla           # SyncLoop, DeviceSync, DeviceMarks, Dashboard, IdentitySync, AliasSync, Addressing, Networks

## 1. The system

| Part | Where | State | Operations | Works with |
|---|---|---|---|---|
| sync loop | `sync/engine.go` Run, Kick | kick channel (1 element), ticker, `runMu` | run at start, per tick, per Kick; stop | some handlers kick (below); manual sync and PTR repair call in on their own goroutine |
| device sync | `sync/engine.go` RunOnce … persist | rows in memory during a pass | one pass per controller: fetch, load, reconcile, apply, persist | UniFi client, registry, Technitium client, database |
| reconciliation, naming | `registry/reconcile.go`, `naming.go` | none (pure) | decide name, zone, DNS changes and the new row of each client | called by device sync |
| network matching | `registry/networks.go` | none (pure) | longest prefix, then manual, own controller, lowest id | gives the network and zone of an address |
| record calls | `technitium/client.go` | a client per request and per cycle | add, update, delete a record; look current addresses up | DNS server |
| UniFi client | `unifi/*.go` | a session per request and per cycle | list clients and networks; set or clear fixed IPs, names | controllers |
| device handlers | `api/handlers/handlers.go`, `register.go`, `addressing.go` | none | override, exclude, register, forget, address, owner, push name | database, DNS server, UniFi, Kick |
| identities | `sync/identities.go`, `registry/identity.go`, `handlers/identities.go` | identities, members | choose the member that a shared name points at; add, edit, delete | device rows, DNS server |
| aliases | `sync/aliases.go`, `handlers/aliases.go` | alias rows with what is in DNS | one CNAME per alias; add, delete | device rows, DNS server |
| record pages | `handlers/networks.go` | none | add and delete records by hand, except those netreg publishes | DNS server |
| PTR repair | `sync/ptr.go` | none | rewrite wrong PTR records | device and identity rows, `runMu` |
| settings | `settings/settings.go`, `handlers/settings.go`, `networks.go` | controllers, networks, Technitium and app settings | seed, load, save, merge imported networks | device sync reads them each cycle |
| the rest | `auth`, `directory`, `web`, `compress`, `config`, `netcheck`, `macaddr`, `db` | sessions, schema | login, LDAP lookups, pages, probes, parsing | |

Everything interacts through four places: the database (each handler and each pass reads rows and
later writes them back, whole), the DNS server and the UniFi console (several callers, no
transaction, calls that fail or whose answer is lost) and `runMu`, which only cycles and PTR repairs
take. Overrides, addressing and edits of networks kick (`handlers.go:548`, `addressing.go:80`,
`networks.go:83`), and so do the registration of a device a controller knows (`register.go:201`) and an alias of
a published one (`handlers/aliases.go:73`). Excluding, forgetting, pushing a name, owners, identities, deleting an alias,
controllers and general settings wait for the ticker. What is hard about it:

* a pass copies its rows, talks to DNS for seconds, then saves every column of every copy, while
  handlers do the same with one row and no common lock; identities, aliases and networks likewise;
* the row is the only memory of which record exists: name, zone, address and mark must stay in step
  with the server through failures, lost answers and crashes;
* names are unique per zone, given out in the random order of a Go map;
* devices roam between controllers, which remember them long after they left;
* a reservation lives on the console and in a row, and people change the console too;
* kicks coalesce, cycles queue on a mutex, and a shutdown competes with them.

What makes each part correct: the loop never loses an edit and never overlaps; a device, identity or
alias that is marked as published is published; no two devices share a name or an address; no record
is left without a row that can find it; cycles and imports leave what an admin chose; what calms down
settles where it should. `PROJECT.json` lists the hazards line by line.

## 2. The modules

| Module | Models |
|---|---|
| `SyncTrigger` | abstract: an edit that asked for a cycle gets one that started later; work never overlaps |
| `SyncLoop` | Engine.Run, Kick, the ticker, `runMu`, manual requests, cancellation; implements `SyncTrigger` |
| `Registry` | operators: names, taken names, what a pass decides for one client |
| `DnsServer` | operators: the A records after a call, and after a call that failed half-way |
| `DeviceSync` | the cycle: passes, calls, outcomes, the transaction, crashes |
| `Dashboard` | `DeviceSync` with the web handlers at work beside it |
| `Convergence` | `Dashboard`, until things calm down; then only cycles |
| `IdentitySync` | the identity stage, and the handlers that edit identities and members |
| `AliasSync` | the alias stage, the alias handlers, forgetting a device with aliases, records edited by hand |
| `NetworkMatch` | operators: NetworkMatcher |
| `Networks` | controllers, imports by cycle and by button, edits of networks, seeding, the placement of devices |
| `Addressing` | reservations on the console and addresses in rows: handlers, UniFi writes, the mirror in the cycle |
| `*Proofs` | theorems about the module of that name; `DeviceMarksProofs` is about `DeviceSync`, `DashboardProofs` also about `Convergence`, `NetworksProofs` also about `NetworkMatch` |
| `MC*` | model values, report tables and symmetry for TLC |

`Registry` <- `DnsServer` <- `DeviceSync` <- `Dashboard` <- `Convergence`, `DnsServer` <-
`IdentitySync` and `NetworkMatch` <- `Networks`, by EXTENDS. `AliasSync`, `Networks` and
`Addressing` take the rest of the system as inputs: a device row may become any of the states
`StatesFor` lists, a device is seen where `Sightings` says. All are parameterised by sets of
devices, zones, addresses and so on; the `…Assumption`s say what these must satisfy.

**State and code, device sync.** `rows` is the devices table without the columns that only pages show: `synced`
is `DNSRecordSynced`, `static` is `AssignedIP` when `AddressMode` is static, `pin` is
`ZoneOverride`, `placed` and `joined` say that `NetworkID` and `IdentityID` are set. A row has an
`id`, 0 before the insert, because `Save` updates by id and inserts what it cannot update. `members`
is the identity_members table as a set of MACs. `dns` is the set of A records on the server. `seen`, `found`,
`taken`, `result`, `changes` and `outcome` are the local variables of `syncController`, `Reconcile`
and `applyChanges`; they are dropped at the end of a pass and by a crash. `req[h]` is what a web
request holds: the copy of the row it loaded and how far it has come.

**Actions and code, device sync.** A pass is `Fetch` (fetch, load, `claimableClients`, the map of taken names),
one `Reconcile…` step per client in any order, then one per row no client matched, one `Apply` per
DNS call, and `Persist` (merge outcomes, one transaction). Handlers split where they make a call or a
separate statement: `Load`, then perhaps the DNS call, then `Store` or `Erase`. In `SyncLoop` every
channel operation, every lock and unlock is a step.

**Identities.** `idents[i]` is the row: `shown`, `zone` and `ip` (SyncedHostname, Zone, IPAddress)
locate the record, `active` is ActiveMAC. `member[i]` lists MACs by priority. `BeginStage` loads,
selects the active member and decides the change; `Apply` is one DNS call, filed under a MAC as
`applyChanges` does; `EndStage` merges the outcomes (`Final`) and saves. Deleting an identity is the
DNS call, then its members, then the row.

**Aliases.** `table[k]` is the row of the alias `k` = device, label and pinned zone; its `name` and
`target` are the Synced columns. The stage visits the aliases in any order: `RemoveOld` (with the
answer), then `DropGone`, `AddNew` or `Keep`, which save. Adding an alias is `LoadForAlias`, which
reads the device, and `CreateAlias`, which checks the name and inserts in one transaction.

**Networks.** A network's key is its controller and UniFi id, or none and an id given by hand.
`import[i]` is what an importer (the cycle, the refresh button) holds between `Lookup` and `Write`
of one row. The cycle is `BeginCycle` (controllers and zones), `ImportNetworks` per controller,
`LoadNetworks`, then `Pass` and `Persist` per controller; either step may meet a controller that
does not answer. A controller's id is used once: a deleted one is `Gone`, and one added later is another
`Controllers` element with networks of its own. `place[d]` is ControllerID, NetworkID and Zone; a pass
places the devices it has seen and writes those it has not seen back as it loaded them.

**Addressing.** `console[d]` is the client record, `rows[d]` the columns AddressMode, AssignedIP,
IsFixedIP, IPAddress. A request is `SetAddressing`, `Register` or `PushName`, then `UserID`,
`WriteUser` (refused, carried out, or carried out without an answer) and `Save`. `untold` records
the devices that ever had a reservation the row was not told of: by people at the console, a
lost answer, a failed save or a crash. What netreg can promise excludes them. `MaySkip` are the devices that
may be excluded or identity members: of these a row keeps its address when the console reports none.

**Data.** Strings are labels: `x`, `Short(x, m)` and `Long(x, m)` are a base name and its two
suffixed forms. `SanitizeLabel`, the generic names and the vendor fallback only matter for
which base name comes out, and any may. An address is a model value, `NoIP` when blank or malformed;
a subnet is a value with a prefix length (`Ones`) and the addresses in it (`Inside`). Time appears
once: whether a device's absence exceeds `RemoveAfterAbsenceDays` is a free choice.

**External.** Of Technitium we assume what `client.go` relies on: add with overwrite replaces the
record set of a name, an update of a record that is not there is refused, a delete of one that is
not there is not an error. Of UniFi: creating a client that exists and updating one that does not is
refused; a client it meets for the first time has no reservation.

## 3. The runs

| Run | Question | Bounds |
|---|---|---|
| `sync_loop` | Is work serialised, no kick lost, `SyncTrigger` implemented; does the process stop even with servers that never answer; and if they answer, is every edit applied without the ticker, every request served? | 2 editors, 1 manual sync, 1 repair, 3 edits |
| `device_sync_exact` | With exact calls, controllers unreachable at times and removal for absence, do registry and DNS agree, is nothing left behind? | 2 devices with one short suffix, 2 names, 2 addresses in 2 zones, any report, any members |
| `name_clash` | Is a name ever given twice, in any order of clients, with crashes and removals in between? | 3 devices that want one name, two with one short suffix |
| `roaming` | Two controllers, a zone each, one unreachable at times, calls that fail or whose answer is lost: are the marks right, does anything flap, does everything settle? | 2 devices that want one name, one moves |
| `edits_between_cycles`, `grouping_between_cycles` | Do edits reach DNS and keep names and records straight? | 2 devices, the admin edits one, at most 2 rows per MAC |
| `edits_during_cycles` | Do cycles still come to rest when removals, new identity members and crashes interleave with them? | same |
| `identities` | Has a shared name one record, where its row says, through every move and every edit made between stages, of its zone apart; is no other record touched; does the name end up at the member it should? | 2 identities, of 2 names and 2 members and of 1 each; creations fail; a record of somebody else at the zone's apex |
| `aliases` | Is every CNAME claimed by its alias and every claim true, through renames, zone moves, deletions, failing calls and records edited by hand? | 2 devices, one that is renamed and moves between zones, the other comes and goes; 3 zones; 3 aliases, one of them pinned to the other device's zone; the stage's calls, deletions of aliases and deletions on the record pages may fail |
| `settings` | With edits between imports and passes, do imports leave zones alone, are devices never left on a deleted network, does each end up on the best network and in its zone? | 1 controller with 1 network, 1 manual network, 2 nested subnets, 1 device |
| `addressing` | Is an address never given twice, are reservations known, static devices left alone, and rows in step in the end? | 2 devices, 2 addresses, one of them outside the console's networks; lost answers, failed saves, crashes |

`identity_loses_record` refutes what `db/identity.go:27` and `engine.go:396` say: when the delete of an
identity without active members fails, the row has already lost the name and address of the record
that is still there (`identities.go:163`; `findings` quotes the lines).

**Bounds.** Two devices are what a clash of names needs, three what a clash of suffixes needs. Two
zones and two addresses let a device move, a third address lets an admin assign one nobody uses. Two
edits beyond the running cycle are what coalescing needs: three in all. Two subnets, one inside the
other, and a manual and an imported network are what a choice between networks needs; which of
three the matcher prefers is an assumption of `MCNetworks` that TLC evaluates over every order. The
cycle count is not bounded: the state spaces are finite because the counters are. `MaxEdits` and
`MaxRows` are bounds in guards; ids of identities, devices, controllers and manual networks are used
once, so a restart can seed while one is left; an
alias is not added again while the stage holds the row of its deleted predecessor.

`Overlap = FALSE` (`EditsOverlap` in `IdentitySync`) lets a request start only while no cycle runs
and a cycle only while no request is open (in `Networks`: keeps edits of a network apart from its
import and from passes). It separates what edits break by themselves from what their interleaving
breaks; the table shows what the interleaving breaks.

**Variants.** The hypotheses of the passing runs are needed. From the listed configurations, change
only what is named and check the property:

| Change | Property that fails | Because |
|---|---|---|
| `sync_loop`, `ServersAnswer` taken from `EditsGetApplied` | `EditsGetApplied` | one unanswered call of the background cycle stops all later ones: no HTTP client has a timeout |
| `device_sync_exact`, `MayFail`, `LostReplies = TRUE` | `SyncedMeansPublished` | a delete whose answer is lost leaves a device marked as published (`engine.go:406`) |
| `device_sync_exact`, `MayCrash = TRUE` | `SyncedMeansPublished` | a crash between calls and transaction leaves marks for records that are gone (`engine.go:302`) |
| `device_sync_exact`, `MayFail = TRUE` | `NoOrphans` | after a failed update the row takes the new name all the same (`reconcile.go:266`) |
| `roaming`, `ZoneAt <- SharedZone` | `SyncedMeansPublished` | each controller has its own map of taken names, so one name is given twice and the second record replaces the first (`reconcile.go:84`) |
| `edits_between_cycles`, `Ops = {"rename"}` | `NoOrphans` | an override clears the mark, and the next pass creates the new record and forgets the old one (`handlers.go:541`; registration avoids this, `register.go:263`) |
| `edits_between_cycles`, `Ops = {"register", "forget"}` | `ForgottenLeavesDNS` | forgetting deletes the wanted name's record, not the published one (`handlers.go:708`) |
| `edits_between_cycles`, `Ops = {"exclude"}`, `Overlap = TRUE` | `CyclesKeepEdits` | a cycle saves the rows it loaded over an exclusion made while it ran (`engine.go:441`) |
| `grouping_between_cycles`, `Ops = {"exclude"}` | `EditsKeepRecords` | a device excluded, moved and included again counts as published at the wrong address (`reconcile.go:127`) |
| `edits_between_cycles`, `Ops = {"exclude"}` | `NamesUnique` | a device that is included again takes its old name back, which another got meanwhile |
| `edits_between_cycles`, `Ops = {"register"}`, `Private = {a}` | `NamesUnique` | the same of a device excluded for its random MAC: registering includes it under the name it had (`register.go:272`) |
| `grouping_between_cycles`, `Ops` with `"address"` | `EditsKeepRecords` | an address is assigned that another device leases too; forgetting one deletes the wanted name's record at it, which is the other's (`handlers.go:708`) |
| `grouping_between_cycles`, `Overlap`, `MayFail` or `MayCrash = TRUE`, `Admins` of two, or reports that share addresses | `EditsKeepRecords` | a row saved over a cycle's; a mark without its record after a failed call or a crash; a request saving what another took down; a delete of a record two devices share |
| `edits_during_cycles`, `Ops = {"touch"}`, `MayCrash = FALSE` | `EditsKeepRecords` | a handler that changes a note saves the whole row it loaded (`register.go:449`) |
| `edits_during_cycles`, `Ops = {"register"}`, `MayCrash = FALSE` | `EditsKeepRecords` | the pass that meets a new row of the same MAC is rolled back after its calls (`engine.go:436`) |
| `identities`, `FailKinds = {"update"}` | `OneRecord` | after a failed update SyncedHostname is the new name all the same (`identities.go:198`) |
| `identities`, `ZonesFor <- TwoZones` | `Settles` | a new zone alone is not a change, and the record stays in the old one (`identities.go:183`) |
| `identities`, `LostReplies = TRUE` | `OneRecord` | an update that was carried out without an answer is forgotten |
| `identities`, names or members of `p` and `q` not apart | `RecordLocated` | two identities overwrite one name, or share an outcome filed under a MAC (`identities.go:104`) |
| `identities`, members not apart, `FailKinds = {"delete"}` | `ForeignStays` | a delete with the outcome of another member's call leaves a row without a name |
| `identities`, `EditsOverlap = TRUE` | `RecordLocated` | the stage saves identities that were edited or deleted meanwhile (`identities.go:135`) |
| `aliases`, `Overlap = TRUE` | `AliasMarked` | the stage and a deletion work on one alias (`aliases.go:101`) |
| `aliases`, `LostReplies = TRUE` | `NoStray` | a CNAME whose creation was carried out without an answer is on the server but not in the row (`aliases.go:96`) |
| `aliases`, `FailIn` with `"forget"` | `NoStray` | a CNAME that could not be deleted is logged and its alias forgotten (`handlers.go:728`) |
| `settings`, `Overlap = TRUE` | `ImportsKeepZones` | with edits during an import, it saves the row it read before the zone was set (`settings.go:264`), though "existing rows keep their user-assigned Zone" (`settings.go:233`) |
| `settings`, `Overlap = TRUE` | `PlacedOnKnown` | a pass places a device on a network deleted meanwhile (`networks.go:324` of the handlers) |
| `addressing`, `Overlap = TRUE` | `StaticByAdminsOnly` | a pass saves its copy over a device that was just made static (`engine.go:441`), though "only netreg sets or clears that mode" (`reconcile.go:312`) |
| `addressing`, `Overlap = TRUE` | `AddressesDistinct` | a pass that makes a static device dynamic loses its address, which is then free for another |
| `addressing`, `Overlap = TRUE` | `ReservationsKnown` | and the reservation made meanwhile is in the row no more |
| `addressing`, `Admins` of two | `AddressesDistinct` | check and save are two statements (`addressing.go:178`) |
| `addressing`, `Admins` of two | `ReservationsKnown` | two requests for one device, one row written over the other |

Edits made between cycles are thus safe for devices except for a rename and a re-included device;
overlapping edits are unsafe for the marks but never keep the cycles from coming to rest. A lost
answer is harmless to identities (`identities` with `LostReplies = TRUE` still has `RecordLocated`).
Registrations overlapping with cycles mend themselves: `edits_during_cycles` with `Reports <- MCLeased`, `Ops = {"register"}`
and `MayCrash = FALSE` has `Settles`. So has `settings` when one controller is deleted and another stands beside it or
comes after it (`TwoControllers`, `ManualIds = {}`, `OnlyWide`, `RowsOfBoth`, `SeenByBoth` in place of its values).

## 4. Fairness

`SyncLoop` assumes weak fairness of what runs on without waiting (a request that saved goes on to Kick, a manual
sync or repair ends, by its deadline at the latest) and strong fairness of taking the lock (a
`sync.Mutex` turns fair after 1 ms of starvation) and of each ready branch of `select` (chosen at
random). The background cycle's end is fair only once the context is canceled: its calls have no deadline.
That servers answer is a hypothesis of the properties that need it (`ServersAnswer`).
Nothing is assumed of ticks, of admins, or of the stop signal.

The other modules with a `Settles` assume weak fairness of the cycle's steps once things are calm:
the loop ticks for ever and every call gets an answer. Before that nothing is fair. `CalmDown` may
happen between cycles at any time, so `Settles` speaks of every state the system can get itself into.

## 5. What is proved

All theorems hold for every value of the constants that satisfies the module's assumptions.

`SyncLoopProofs`, for any number of requests and edits:

* `LoopTypeCorrect`; `LoopInvariant`: `LoopInv` is inductive. Mutual exclusion alone is not, `LockHeld` is what the
  mutex adds: it is locked exactly while somebody works. `KickNotLost` needs `HistoryOrdered`: a
  cycle that starts sees every edit there is, so every edit anybody may ever have kicked.
* `CyclesSerialized`, `NoKickLost`: its two consequences.
* `LoopImplementsTrigger`: initial states map to initial states, each step to a step of
  `SyncTrigger` or a stutter.

`DeviceSyncProofs`:

* `TypeCorrect`: the types and `InPass`, with failures, lost replies and crashes.
* `NamesStayUnique`: with one controller, `NamesUnique` always holds. `NamesInv` strengthens it: a
  pass works on all the rows that have a zone (a row registered before its device was ever seen has none and
  may stay out of it, `Waits`), so the map of taken names starts as all their claims (`ZonedClaims`); the claims of undecided rows and of decided ones are all in it (`NamesTaken`), and it never holds
  a name twice (`WellTaken`). That a name is then free needs `DisambiguateFree`: the last resort,
  the full MAC, is not looked up in the map, but whoever holds a name has one made for it
  (`OwnLabel`). The theorem asks for a single controller because with two it is false in general:
  the variant with `SharedZone`.

`DeviceMarksProofs`, for one controller, any devices, reports and names; calls may fail half-way:

* `MarksStayTrue`: `SyncedMeansPublished` always holds, unless a failed call was carried out after all
  (`LostReplies`), the process dies (`MayCrash`) or two controllers share a zone: the variants of section 3
  show each of the three hypotheses is needed. During a pass the rows are stale, so `RowsTrue` alone is not
  inductive: the mark of a row is true until the first change of its device is applied, the mark that will be
  written is true once none of its changes is left (`ResultTrue`), and each change puts up what was decided or
  takes down what the row says, the delete before the create (`ChangesTrue`). No call disturbs another device,
  because the old and new names of two devices differ (`NamesTaken`, `NamesApart`).

* `NothingLeftBehind`: with exact calls and no crash, `NoOrphans` always holds (`OwnInv`). During the calls a record is
  claimed by the row in the table until the first change of its device is applied, then by the row about to be saved
  (`Owned`); a device without a change keeps its record and the row that finds it (`Carried`); a record is created only
  for a device that has none, or whose record is taken down before (`CreatesFit`).

`DashboardProofs`, for any devices, names and addresses:

* `DashboardTypeCorrect`, with any number of admins, overlap, failures and crashes: what has to be added is that a
  request that will save or delete a row has one (`RequestInv`).
* `ConvergenceIsDashboard`: `Convergence` implements `Dashboard`, so all that is proved of the latter holds in the runs
  of the former. `CalmInv`: once things are calm no request is open and what is reported is a report.
* `EditedNamesUnique`, for one controller, without overlap, any number of admins, failures and crashes, and the handlers
  of `Harmless`, all but excluding: names stay unique. `HeldInv` speaks of every claim that is in the table or in a
  handler's copy of a row. No handler makes up a claim in a zone, so a copy saved later clashes with nothing; a cycle
  starts when no copy is held. Including a device again is not harmless (section 3), and registering includes: it is
  admitted for devices that the engine does not exclude by itself (`PublicOnly`), which then stay in (`OpenInv`).
* `EditsKeep`, for one controller, one admin, exact calls, addresses that devices do not share and the handlers of
  `Keeping`: `EditsKeepRecords` always holds. `KeepInv`: between cycles a marked row's record is there unless a handler
  has the device in hand (`TableTrue`, `InHand`), and what a handler will save claims no more than the table does
  (`CopiesTrue`); when no request is open this is `MarksInv` and `AddressInv` (what is marked has an address), from which
  the lemmas of `DeviceMarksProofs` take the cycle on.
  Addresses matter because forgetting deletes the record of the wanted name (`handlers.go:708`), which may be
  another device's: only the address tells them apart (`LeaseInv`). The variants show each hypothesis is needed.
* `EditedMarksTrue`, for one controller, without overlap, lost answers and crashes, any number of admins and any
  addresses, and the handlers that delete nothing (`Gentle`): `SyncedMeansPublished` always holds, requests open or not,
  though calls fail. Between cycles no record changes, so it is enough that every row and every copy says no more than
  the server does (`Stands`).
* `EditsLeaveNothing`, if also calls get through and nobody renames (the variant of section 3): `NoOrphans` always
  holds. A copy says what the row says (`Faithful`), and registering keeps the name the record has, so what is saved finds
  the record its row found (`OwnInv`).

`IdentitySyncProofs`, for any identities, members, leases and names, with creations that fail:

* `IdentityTypeCorrect`, with overlap, lost answers and any failures.
* `ForeignUntouched`, with overlap, lost answers, changing zones and failing updates, if the stage's deletes get through, no two
  identities share a member and nobody else's record is at a name identities use. `SoundInv`: rows and the stage's copies name the record they
  claim, so no change deletes at an empty name, the zone's apex, where others keep theirs.
* `RecordsLocated`, if also edits wait for the stage, names are apart and an identity stays in its zone; updates and answers
  may still be lost. `Located` speaks of `Truth`, what netreg last noted of an identity: during the
  stage that is what it will save once the change is applied. A change replaces what the row says with what the copy says
  (`ChangesFit`), and a request holds the row of the table but for what the form changes (`RequestFits`).
* `OneRecordOnly`, if also updates get through and no answer is lost: `Only` and, of identities still to come, `Unborn`.
  That deletes get through (`DeletesWork`) is what the run `identity_loses_record` shows to be needed.

`AddressingProofs`, for any devices, addresses and console, with lost answers, failed saves, crashes:

* `TypeCorrect`, for any number of admins and with overlap.
* `OnlyAdminsSetStatic` (without overlap): what has to be added is that the copy a cycle holds agrees
  with the row on static addresses (`CopyKeepsStatic`), which is what an overlapping request breaks.
* `ReservationsStayKnown`, `AddressesStayDistinct` (without overlap, one admin at a time): one
  inductive invariant, `AddressInv`. Each reservation is known to the row or to the request that has
  just made it (`FixKnown`); what a request assigns is still free and what it had to clear is cleared
  when it saves (`RequestInv`); what the cycle was told and will write agrees with the rows
  (`ReportInv`, `CopyInv`). The devices in `untold` are outside all of it.

`NetworksProofs`, for any controllers, networks and devices, with both importers at work, unanswered calls and restarts:

* `NetworksTypeCorrect`, with overlap: `NetsInv` adds that row ids count up and stay with their key
  (`RowsKeyed`), that requests and imports hold rows that are still there (`Requested`, `Imports`), and that
  a cycle matches against distinct ids (`Matched`).
* `ZonesAreUserAssigned`, `DevicesOnKnownNetworks` (without overlap): `CalmInv` adds that a row an import holds has
  the zone of the row in the table (`HeldZone`) and that the networks a cycle knows exist (`CycleKnows`). A
  placement is then on a known network because `MatchIsBest` says Match returns one it was given.
* `BetterIsTotal`, betterMatch is a strict total order on networks with distinct ids; `MatchIsBest`, the loop over the
  entries returns the one around the address that is best, for lists of any length. The loop is a fold; unfolding it once
  per index is enough to prove its invariant by taking the least index at which it would fail.

`AliasSyncProofs`, for any devices, aliases and zones:

* `AliasTypeCorrect`, with overlap, lost answers and any device states.
* `AliasesStayMarked`, `NoStraysLeft`, under `Sheltered`: without overlap and lost answers, when the calls
  `forgetOne` makes get through (the variants show that each is needed) and `NamesKeepApart` (section 6).
  `AInv` speaks of `truth`, what netreg last noted of an alias, which during a stage is in the stage's
  copy: no two aliases can have one name (`Distinct`), so taking one down or putting it up disturbs no
  other; what a deletion or forgetting has already taken off the server is accounted for (`Pending`,
  `Deleting`, `Forgetting`); a record being unlisted is claimed by none (`Unlisting`).

Model-checked only: liveness (`EditsGetApplied`, `ShutsDown`, `RequestsServed`, `Quiet`, `Settles`), which is out of the
prover's reach, and marks with two controllers that have a zone each (`roaming`), an instance beyond the theorems'
hypotheses.

## 6. Approximations

* In `Dashboard` an identity member is a MAC in one set, though the index is per identity and MAC; in `IdentitySync`
  no MAC is a member of two identities (`MembersFor`): outcomes are filed under MACs and would mix.
* A registration is one step: it is one transaction, and SQLite, the default, serialises writers.
* Overrides are base names: the form accepts more, and `SanitizeLabel` maps it to one.
* In `DeviceSync` a zone is found for every address; `Networks` has the blank ones.
* Database errors other than the unique indexes and, in `Addressing`, a failing Save are not modelled, nor are the sync events.
* A request that is open when the process dies is gone, and so is what it held. `IdentitySync` and `AliasSync` have no crash.
* The records of devices, identities and aliases are in separate modules: that an identity, an alias and a device want
  one name is not modelled (device naming does not look at the other two).
* `IdentitySync` and `Networks` take one request to edit or delete at a time. The handlers let several overlap
  (`handlers/identities.go:112-181`), and the later of two saves of one row wins whole.
* `OneRecord` speaks of identities that exist. Of one that is renamed and deleted before a cycle published the new name
  the old record stays behind (`handlers/identities.go:155` deletes the new one).
* In `AliasSync` a device has a zone and goes only where its aliases clash with no other's: `NamesKeepApart`, which
  `MCAliasSync` and the theorems assume. A name is checked when an alias is added (`handlers/aliases.go:203`), not when
  a device moves later, so two aliases could come to share one.
* The hand-edited records of `AliasSync` are CNAMEs at names the runs list; what else people do on the DNS server is not modelled.

## 7. Not modelled

* PTR repair beyond its use of `runMu`: it reads rows and writes PTR records, which nothing else reads.
* Sessions: a Technitium client and a UniFi client are built for each request and each cycle
  (`cmd/netreg/main.go:99-138`, `handlers/settings.go:96`) and used by one goroutine, so a login or its renewal is part
  of the outcome of a call.
* Label lengths, MAC parsing, the vendor table, subnets as bit strings: pure functions over strings with tables of tests.
* The forms and encrypted passwords of the settings. (`saveTechnitium` builds a new row, `handlers/settings.go:390`, so a
  blank password does not leave "the stored password untouched", `settings/settings.go:168`.)
* Probes, LDAP, OIDC, pages, compression, configuration files and logging: no state that the rest depends on.

Worth doing next: marks with several controllers that share no zone; excluding a device in `DashboardProofs`; the stages
of a cycle composed over one DNS server, where device, identity and alias names meet.
