---------------------------- MODULE DeviceSync -----------------------------
(***************************************************************************)
(* The sync engine at work on device records.  A cycle makes one pass per  *)
(* controller: fetch its clients, load the rows concerned, reconcile them  *)
(* (pure, in memory), apply the DNS changes one call at a time, and write  *)
(* every row back in one transaction.  The rows in memory are copies: what *)
(* is written back is what was loaded, updated.                            *)
(*                                                                         *)
(* The environment is free: at each fetch a controller reports any client  *)
(* table it may report, calls may fail, the process may crash.             *)
(***************************************************************************)
EXTENDS DnsServer

CONSTANTS
    Reports(_),      \* Reports(c): the client tables c may report, Absent for an unknown MAC
    Memberships,     \* the sets of MACs that may belong to identities
    AbsenceRemoval,  \* RemoveAfterAbsenceDays > 0
    FetchMayFail, MayCrash

ASSUME EngineAssumption ==
    /\ \A c \in Controllers : Reports(c) \subseteq [MACs -> Client \cup {Absent}]
    /\ Memberships \subseteq SUBSET MACs
    /\ Absent \notin Client /\ NoRow \notin Row
    /\ AbsenceRemoval \in BOOLEAN /\ FetchMayFail \in BOOLEAN /\ MayCrash \in BOOLEAN

VARIABLES
    rows,      \* the devices table
    made,      \* made[m]: how many rows were ever created for m (the last id given)
    members,   \* the MACs that belong to an identity
    dns,       \* the A records on the server
    phase,     \* where the engine is in its cycle
    left,      \* the controllers this cycle has still to visit
    ctrl,      \* the controller of the current pass
    skip,      \* skipDNS: the members when the cycle started
    seen,      \* what the controller reported
    found,     \* the rows loaded for the pass, NoRow for the others
    todo,      \* the devices not reconciled yet
    taken,     \* who owns which name
    result,    \* the rows to write back, NoRow for the others
    changes,   \* the DNS changes still to apply
    outcome    \* what the last change applied for each device left in DNS

table == <<rows, made, members>>
pass == <<seen, found, todo, taken, result, changes, outcome>>
engine == <<phase, left, ctrl, skip, pass>>
vars == <<table, dns, engine>>

Nothing == [m \in MACs |-> NoRow]

TypeOK ==
    /\ rows \in [MACs -> Row \cup {NoRow}]
    /\ made \in [MACs -> Nat]
    /\ members \subseteq MACs
    /\ dns \subseteq Record
    /\ phase \in {"idle", "cycle", "reconcile", "apply"}
    /\ left \subseteq Controllers
    /\ ctrl \in Controllers \cup {NoController}
    /\ skip \subseteq MACs
    /\ seen \in [MACs -> Client \cup {Absent}]
    /\ found \in [MACs -> Row \cup {NoRow}]
    /\ todo \subseteq MACs
    /\ taken \subseteq [zone : AnyZone, host : Labels, mac : MACs]
    /\ result \in [MACs -> Row \cup {NoRow}]
    /\ changes \in Seq(Change)
    /\ outcome \in [MACs -> {"none", "present", "gone"}]

Init ==
    /\ rows = Nothing /\ dns = {} /\ made = [m \in MACs |-> 0]
    /\ members \in Memberships
    /\ phase = "idle" /\ left = {} /\ ctrl = NoController /\ skip = {}
    /\ seen = [m \in MACs |-> Absent] /\ found = Nothing /\ todo = {} /\ taken = {}
    /\ result = Nothing /\ changes = <<>> /\ outcome = [m \in MACs |-> "none"]

(* Everything a pass keeps in memory is dropped at its end.                *)
EndPass ==
    /\ ctrl' = NoController /\ seen' = [m \in MACs |-> Absent]
    /\ found' = Nothing /\ todo' = {} /\ taken' = {}
    /\ result' = Nothing /\ changes' = <<>> /\ outcome' = [m \in MACs |-> "none"]

-----------------------------------------------------------------------------
(* A cycle.                                                                *)

BeginCycle ==
    /\ phase = "idle"
    /\ phase' = "cycle"
    /\ left' = Controllers
    /\ skip' = members
    /\ UNCHANGED <<table, dns, ctrl, pass>>

EndCycle ==
    /\ phase = "cycle" /\ left = {}
    /\ phase' = "idle"
    /\ skip' = {}
    /\ UNCHANGED <<table, dns, left, ctrl, pass>>

(* The controller is unreachable: the others still get their pass.         *)
FetchFails(c) ==
    /\ phase = "cycle" /\ c \in left
    /\ FetchMayFail
    /\ left' = left \ {c}
    /\ UNCHANGED <<table, dns, phase, ctrl, skip, pass>>

(* Rows another controller owns are only claimed by clients online here.   *)
Foreign(c, m) == rows[m] # NoRow /\ rows[m].ctrl \notin {NoController, c}

(* Mutant of Claimable: a controller claims every client it remembers.     *)
ClaimableAll(c, reported) == reported

Claimable(c, reported) ==
    [m \in MACs |-> IF reported[m] # Absent /\ Foreign(c, m) /\ ~reported[m].online
                    THEN Absent ELSE reported[m]]

(* Mutant of Loaded: the rows other controllers own are not looked up.     *)
LoadedOwn(c, claimed) ==
    [m \in MACs |-> IF rows[m] # NoRow /\ rows[m].ctrl = c THEN rows[m] ELSE NoRow]

Loaded(c, claimed) ==
    [m \in MACs |-> IF rows[m] # NoRow /\ (rows[m].ctrl = c \/ claimed[m] # Absent)
                    THEN rows[m] ELSE NoRow]

Fetch(c, reported) ==
    /\ phase = "cycle" /\ c \in left
    /\ left' = left \ {c}
    /\ phase' = "reconcile"
    /\ ctrl' = c
    /\ seen' = Claimable(c, reported)
    /\ found' = Loaded(c, seen')
    /\ todo' = {m \in MACs : seen'[m] # Absent \/ found'[m] # NoRow}
    /\ taken' \in TakenMaps(found')
    /\ UNCHANGED <<table, dns, skip, result, changes, outcome>>

-----------------------------------------------------------------------------
(* Reconcile, one device per step.  Clients come in any order (they are    *)
(* collected in a Go map), then the rows no client matched.                *)

Decide(m, row, chs) ==
    /\ result' = [result EXCEPT ![m] = row]
    /\ changes' = changes \o chs
    /\ todo' = todo \ {m}
    /\ UNCHANGED <<table, dns, phase, left, ctrl, skip, seen, found, outcome>>

ReconcileTracked(m) ==
    /\ phase = "reconcile" /\ m \in todo /\ seen[m] # Absent
    /\ Passthrough(found[m], m, skip)
    /\ Decide(m, Tracked(found[m], ctrl, Address(seen[m], found[m])), <<>>)
    /\ UNCHANGED taken

HostFor(m, zone, override) ==
    Disambiguate(Resolve(seen[m], override, m), m, zone, taken)

ReconcileNew(m) ==
    /\ phase = "reconcile" /\ m \in todo /\ seen[m] # Absent
    /\ found[m] = NoRow
    /\ LET ip == seen[m].ip
           zone == ZoneFor(ctrl, ip, NoRow)
           host == HostFor(m, zone, NoName)
       IN /\ Decide(m, NewRow(m, ctrl, host, zone, ip), NewChanges(m, host, zone, ip, skip))
          /\ taken' = Take(taken, zone, host, m)

ReconcileKnown(m) ==
    /\ phase = "reconcile" /\ m \in todo /\ seen[m] # Absent
    /\ found[m] # NoRow /\ ~Passthrough(found[m], m, skip)
    /\ LET row == found[m]
           ip == Address(seen[m], row)
           zone == ZoneFor(ctrl, ip, row)
           host == HostFor(m, zone, row.override)
       IN /\ Decide(m, Wanted(row, ctrl, host, zone, ip), KnownChanges(m, row, host, zone, ip))
          /\ taken' = Take(taken, zone, host, m)

ReconcileUnseen(m) ==
    /\ phase = "reconcile" /\ m \in todo
    /\ \A o \in todo : seen[o] = Absent
    /\ \E expired \in (IF AbsenceRemoval THEN BOOLEAN ELSE {FALSE}) :
          IF Removed(found[m], expired)
          THEN Decide(m, [found[m] EXCEPT !.synced = FALSE], <<Delete(m, found[m])>>)
          ELSE Decide(m, found[m], <<>>)
    /\ UNCHANGED taken

BeginApply ==
    /\ phase = "reconcile" /\ todo = {}
    /\ phase' = "apply"
    /\ UNCHANGED <<table, dns, left, ctrl, skip, pass>>

-----------------------------------------------------------------------------
(* applyChanges, one call per step, then persist.                          *)

Apply(ok) ==
    /\ phase = "apply" /\ changes # <<>>
    /\ LET ch == Head(changes)
       IN /\ IF ok THEN dns' \in Succeeded(dns, ch)
             ELSE /\ MayFail \/ Refused(dns, ch)
                  /\ dns' \in Failed(dns, ch)
          /\ outcome' = [outcome EXCEPT ![ch.mac] = OutcomeOf(ch, ok)]
    /\ changes' = Tail(changes)
    /\ UNCHANGED <<table, phase, left, ctrl, skip, seen, found, todo, taken, result>>

(* Mutant of Final: an error never takes the mark away.                    *)
FinalMarked(m) ==
    [result[m] EXCEPT !.synced = @ \/ outcome[m] = "present"]

Final(m) ==
    [result[m] EXCEPT !.synced = IF outcome[m] = "none" THEN @ ELSE outcome[m] = "present"]

(* The insert hits the unique index on mac when somebody else created a    *)
(* row for that MAC meanwhile, and the whole transaction is rolled back.   *)
Collides(m) == result[m] # NoRow /\ rows[m] # NoRow /\ result[m].id # rows[m].id

(* db.Save: an update by id, or an insert when no row has that id.         *)
Persist ==
    /\ phase = "apply" /\ changes = <<>>
    /\ IF \E m \in MACs : Collides(m) THEN UNCHANGED <<rows, made>>
       ELSE /\ made' = [m \in MACs |-> IF result[m] # NoRow /\ result[m].id = 0
                                       THEN made[m] + 1 ELSE made[m]]
            /\ rows' = [m \in MACs |-> IF result[m] = NoRow THEN rows[m]
                                       ELSE IF result[m].id = 0
                                       THEN [Final(m) EXCEPT !.id = made[m] + 1]
                                       ELSE Final(m)]
    /\ phase' = "cycle"
    /\ EndPass
    /\ UNCHANGED <<members, dns, left, skip>>

(* The process dies and is started again: only the database and the DNS    *)
(* server remember anything.                                               *)
Crash ==
    /\ MayCrash
    /\ phase' = "idle" /\ left' = {} /\ skip' = {}
    /\ EndPass
    /\ UNCHANGED <<table, dns>>

Reconcile(m) ==
    \/ ReconcileTracked(m)
    \/ ReconcileNew(m)
    \/ ReconcileKnown(m)
    \/ ReconcileUnseen(m)

Cycle ==
    \/ BeginCycle
    \/ EndCycle
    \/ \E c \in Controllers : FetchFails(c) \/ \E reported \in Reports(c) : Fetch(c, reported)
    \/ \E m \in MACs : Reconcile(m)
    \/ BeginApply
    \/ \E ok \in BOOLEAN : Apply(ok)
    \/ Persist

Next == Cycle \/ Crash

Spec == Init /\ [][Next]_vars

-----------------------------------------------------------------------------
(* A device the registry says it publishes: the rows the engine itself     *)
(* takes for confirmed records (publishedNames).                           *)
Claimed(m) ==
    /\ rows[m] # NoRow
    /\ rows[m].synced /\ ~rows[m].excluded /\ ~rows[m].joined
    /\ rows[m].ip # NoIP

(* What the registry says is in DNS is in DNS, whenever no change is in    *)
(* flight, though calls failed on the way (models.go, DNSRecordSynced).    *)
SyncedMeansPublished ==
    phase # "apply" => \A m \in MACs : Claimed(m) => Published(rows[m]) \in dns

(* Two devices that have a zone never share a name within a zone, in        *)
(* whatever order clients come and whoever is renamed at the same time     *)
(* (naming.go, TakenKey and Disambiguate).                                 *)
NamesUnique ==
    \A m, o \in MACs :
        /\ m # o
        /\ rows[m] # NoRow /\ rows[o] # NoRow
        /\ ~rows[m].excluded /\ ~rows[o].excluded
        /\ rows[m].zone = rows[o].zone /\ rows[m].zone # NoZone
        => rows[m].host # rows[o].host

(* Nothing is left behind: every record on the server belongs to a device  *)
(* that will find it again when the name, the zone or the address changes. *)
NoOrphans ==
    phase # "apply" =>
        \A r \in dns : \E m \in MACs :
            /\ rows[m] # NoRow /\ rows[m].synced
            /\ rows[m].host = r.host /\ rows[m].zone = r.zone
            /\ rows[m].ip \in {r.ip, NoIP}

-----------------------------------------------------------------------------
(* The strengthening that makes TypeOK inductive: a pass has a controller, *)
(* starts from nothing and only looks at devices it was told of.           *)
InPass ==
    /\ phase \in {"reconcile", "apply"} => ctrl \in Controllers
    /\ phase \in {"idle", "cycle"} => result = Nothing
    /\ phase # "reconcile" => todo = {}
    /\ \A m \in todo : seen[m] # Absent \/ found[m] # NoRow

(* And those that make NamesUnique inductive, with a single controller.    *)
(* Every row has a label made for it, and a controller or, since it was    *)
(* registered, no zone yet.                                                *)
OwnLabel(host, m) == host \in Names \/ \E n \in Names : host \in {Short(n, m), Long(n, m)}

Named(tab) ==
    \A m \in MACs : tab[m] # NoRow =>
        /\ tab[m].ctrl \in Controllers \/ tab[m].zone = NoZone
        /\ OwnLabel(tab[m].host, m)

(* Nobody owns a name twice, and names are owned by those they suit.       *)
WellTaken(T) ==
    /\ \A t, u \in T : SameName(t, u) => t = u
    /\ \A t \in T : OwnLabel(t.host, t.mac)

(* A pass works on all the rows that have a zone, and the old name of a    *)
(* device that has not been decided is as taken as the new name of one     *)
(* that has.                                                               *)
ZonedClaims(tab) == {t \in Claims(tab) : t.zone # NoZone}
Waits(m) == rows[m] # NoRow /\ rows[m].zone = NoZone

NamesTaken ==
    /\ \A m \in MACs : found[m] = rows[m] \/ (found[m] = NoRow /\ Waits(m) /\ m \notin todo)
    /\ ZonedClaims(rows) \subseteq taken
    /\ ZonedClaims(result) \subseteq taken
    /\ WellTaken(taken)
    /\ \A m \in MACs \ todo : rows[m] # NoRow => result[m] # NoRow \/ Waits(m)

NamesInv ==
    /\ NamesUnique
    /\ Named(rows) /\ Named(result)
    /\ phase \in {"reconcile", "apply"} => NamesTaken
=============================================================================
