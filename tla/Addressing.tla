----------------------------- MODULE Addressing -----------------------------
(***************************************************************************)
(* How a device is addressed: the fixed IP in its client record on the     *)
(* UniFi console, and the mode and address in its row.  The handlers write *)
(* the console first and the row after it, the cycle mirrors the console   *)
(* into the row, and people change the console behind netreg's back.       *)
(***************************************************************************)
EXTENDS Naturals, FiniteSets

CONSTANTS
    Devices, IPs, Admins,
    OnConsole,        \* the addresses inside a network of the console
    InNetworks,       \* the addresses inside any network netreg knows
    Leases(_),        \* the addresses DHCP may give a device
    Fixable(_),       \* the reservations that may be set on the console itself
    Named,            \* the devices whose name an admin pushes
    MaySkip,          \* the devices that may be excluded, or members of an identity
    LostReplies,      \* a write may be carried out and its answer lost
    Overlap,          \* requests may overlap with cycles
    NoIP, NoRow, Idle

ASSUME AddressingAssumption ==
    /\ OnConsole \subseteq InNetworks /\ InNetworks \subseteq IPs
    /\ NoIP \notin IPs
    /\ \A d \in Devices : Leases(d) \cup Fixable(d) \subseteq IPs
    /\ Named \subseteq Devices /\ MaySkip \subseteq Devices
    /\ LostReplies \in BOOLEAN /\ Overlap \in BOOLEAN

VARIABLES
    rows,      \* the devices table
    console,   \* the client records on the console, NoRow for an unknown MAC
    untold,    \* the devices that ever had a reservation netreg was not told of
    report,    \* what the console answered this cycle
    found,     \* the devices that had a row when this cycle loaded them
    copy,      \* the rows this cycle will write back, NoRow for the others
    phase,     \* of the cycle: "idle", "fetched", "loaded"
    req,       \* the request of each admin, Idle without one
    calm       \* people leave everything alone, nothing fails any more

cycle == <<report, found, copy, phase>>
vars == <<rows, console, untold, cycle, req, calm>>

AnyIP == IPs \cup {NoIP}
Modes == {"dhcp", "reserved", "static"}

(* seen: ControllerID is set.  name: UniFiName is the name that was pushed. *)
Row == [mode : Modes, addr : AnyIP, fixed : BOOLEAN, ip : AnyIP, seen : BOOLEAN, name : BOOLEAN]
Client == [fix : AnyIP, lease : AnyIP, name : BOOLEAN]
Request == [op : {"address", "name"}, dev : Devices, row : Row, mode : Modes, addr : AnyIP,
            step : {"lookup", "update", "create", "save"}]

ASSUME NullAssumption == NoRow \notin Row \cup Client /\ Idle \notin Request

(* Values of the right type, and a report only while a cycle runs.         *)
TypeOK ==
    /\ rows \in [Devices -> Row \cup {NoRow}]
    /\ console \in [Devices -> Client \cup {NoRow}]
    /\ untold \subseteq Devices
    /\ report \in [Devices -> Client \cup {NoRow}]
    /\ found \subseteq Devices
    /\ copy \in [Devices -> Row \cup {NoRow}]
    /\ phase \in {"idle", "fetched", "loaded"}
    /\ phase = "idle" => report = [d \in Devices |-> NoRow]
    /\ req \in [Admins -> Request \cup {Idle}]
    /\ calm \in BOOLEAN

Nothing == [d \in Devices |-> NoRow]
NewRow == [mode |-> "dhcp", addr |-> NoIP, fixed |-> FALSE, ip |-> NoIP, seen |-> FALSE, name |-> FALSE]
NewClient == [fix |-> NoIP, lease |-> NoIP, name |-> FALSE]

Init ==
    /\ rows = Nothing /\ console = Nothing /\ untold = {}
    /\ report = Nothing /\ found = {} /\ copy = Nothing /\ phase = "idle"
    /\ req = [a \in Admins |-> Idle]
    /\ calm = FALSE

-----------------------------------------------------------------------------
(* The cycle, as far as addresses go.                                      *)

Quiet == \A a \in Admins : req[a] = Idle

Fetch ==
    /\ phase = "idle" /\ (Overlap \/ Quiet)
    /\ phase' = "fetched" /\ report' = console
    /\ UNCHANGED <<rows, console, untold, found, copy, req, calm>>

(* toNetworkClient                                                         *)
ReportedIP(client) == IF client.fix # NoIP THEN client.fix ELSE client.lease

(* applyAddressMode.  Mutant of Mirrored: static devices are not left      *)
(* alone.                                                                  *)
MirroredAlways(row, client) ==
    [row EXCEPT !.mode = IF client.fix # NoIP THEN "reserved" ELSE "dhcp", !.addr = client.fix]

Mirrored(row, client) ==
    IF row.mode = "static" THEN row
    ELSE [row EXCEPT !.mode = IF client.fix # NoIP THEN "reserved" ELSE "dhcp",
                     !.addr = client.fix]

(* Reconcile: a static device's own address replaces the reported one; a   *)
(* device skipped for DNS keeps what it has when none is reported.  Mutant *)
(* of AddressOf: a static device has its own only without a reservation.   *)
AddressOfFixed(row, client, skip) ==
    CASE row.mode = "static" /\ client.fix = NoIP -> row.addr
      [] row.mode # "static" /\ skip /\ ReportedIP(client) = NoIP -> row.ip
      [] OTHER -> ReportedIP(client)

AddressOf(row, client, skip) ==
    CASE row.mode = "static" -> row.addr
      [] row.mode # "static" /\ skip /\ ReportedIP(client) = NoIP -> row.ip
      [] OTHER -> ReportedIP(client)

Reconciled(row, client, skip) ==
    Mirrored([row EXCEPT !.seen = TRUE, !.fixed = client.fix # NoIP, !.name = client.name,
                         !.ip = AddressOf(row, client, skip)], client)

Load(skipped) ==
    /\ phase = "fetched"
    /\ phase' = "loaded"
    /\ found' = {d \in Devices : rows[d] # NoRow}
    /\ copy' = [d \in Devices |->
          CASE report[d] # NoRow /\ rows[d] # NoRow -> Reconciled(rows[d], report[d], d \in skipped)
            [] report[d] # NoRow /\ rows[d] = NoRow -> Reconciled(NewRow, report[d], FALSE)
            [] report[d] = NoRow /\ rows[d] # NoRow /\ rows[d].seen -> rows[d]
            [] OTHER -> NoRow]
    /\ UNCHANGED <<rows, console, untold, report, req, calm>>

(* What a cycle keeps in memory is dropped.  Mutant of EndCycle: the       *)
(* report is kept.                                                         *)
EndCycleReported == phase' = "idle" /\ report' = report /\ found' = {} /\ copy' = Nothing
EndCycle == phase' = "idle" /\ report' = Nothing /\ found' = {} /\ copy' = Nothing

(* A row inserted since the load fails the insert of another for its MAC,  *)
(* and with it the transaction.                                            *)
Persist ==
    LET clash == \E d \in Devices \ found : copy[d] # NoRow /\ rows[d] # NoRow IN
    /\ phase = "loaded"
    /\ rows' = IF clash THEN rows
               ELSE [d \in Devices |-> IF copy[d] # NoRow THEN copy[d] ELSE rows[d]]
    /\ EndCycle
    /\ UNCHANGED <<console, untold, req, calm>>

Cycle == Fetch \/ (\E skipped \in SUBSET MaySkip : Load(skipped)) \/ Persist

-----------------------------------------------------------------------------
(* The handlers.                                                           *)

(* validateAssignedIP.  Mutant of InUse: only the addresses the pages show.*)
InUseShown(d, ip) == \E e \in Devices \ {d} : rows[e] # NoRow /\ rows[e].ip = ip
InUse(d, ip) == \E e \in Devices \ {d} : rows[e] # NoRow /\ ip \in {rows[e].ip, rows[e].addr}

Acceptable(row, d, mode, ip) ==
    \/ mode = "dhcp" /\ ip = NoIP
    \/ /\ mode = "reserved" => row.seen /\ ip \in OnConsole
       /\ mode = "static" => ip \in InNetworks
       /\ mode # "dhcp" /\ ~InUse(d, ip)

(* applyReservation: does the console have to be told?  Mutant of Tell:    *)
(* only of a reservation.                                                  *)
TellReservation(row, mode) == mode = "reserved"
Tell(row, mode) == mode = "reserved" \/ row.fixed

(* changeAddressing; a device that was never seen has no console to tell.  *)
Submit(a, op, d, row, mode, ip, table) ==
    /\ req[a] = Idle /\ (Overlap \/ phase = "idle")
    /\ req' = [req EXCEPT ![a] =
          [op |-> op, dev |-> d, row |-> row, mode |-> mode, addr |-> ip,
           step |-> IF op = "name" \/ Tell(row, mode) THEN "lookup" ELSE "save"]]
    /\ rows' = table
    /\ UNCHANGED <<console, untold, cycle, calm>>

SetAddressing(a, d, mode, ip) ==
    /\ rows[d] # NoRow
    /\ Acceptable(rows[d], d, mode, ip)
    /\ Submit(a, "address", d, rows[d], mode, ip, rows)

(* registerSubmit: precheckAddressing, the transaction, then               *)
(* changeAddressing if the addressing differs.                             *)
Register(a, d, mode, ip) ==
    LET row == IF rows[d] = NoRow THEN NewRow ELSE rows[d]
        table == [rows EXCEPT ![d] = row]
    IN
    /\ Acceptable(row, d, mode, ip)
    /\ IF <<mode, ip>> = <<row.mode, row.addr>>
       THEN /\ req[a] = Idle /\ (Overlap \/ phase = "idle")
            /\ rows' = table
            /\ UNCHANGED <<console, untold, cycle, req, calm>>
       ELSE Submit(a, "address", d, row, mode, ip, table)

PushName(a, d) ==
    /\ rows[d] # NoRow /\ rows[d].seen
    /\ Submit(a, "name", d, rows[d], rows[d].mode, rows[d].addr, rows)

Knows(row, client) == row # NoRow /\ row.mode = "reserved" /\ row.addr = client.fix

(* A device whose row does not have the reservation in its client record.  *)
Untold(d, client) ==
    IF client = NoRow \/ client.fix = NoIP \/ Knows(rows[d], client) THEN {} ELSE {d}

(* The request goes on to another step, or ends.                           *)
Goes(a, step) == req' = [req EXCEPT ![a].step = step]
Ends(a) == req' = [req EXCEPT ![a] = Idle]

(* userID: a client the console does not know has nothing to clear.        *)
UserID(a) ==
    LET r == req[a]
        clears == r.op = "address" /\ r.mode # "reserved" IN
    /\ r # Idle /\ r.step = "lookup"
    /\ \/ console[r.dev] # NoRow /\ Goes(a, "update")
       \/ console[r.dev] = NoRow /\ Goes(a, IF clears THEN "save" ELSE "create")
       \/ Ends(a)
    /\ UNCHANGED <<rows, console, untold, cycle, calm>>

(* The fields a write sets: SetName, SetFixedIP, ClearFixedIP.             *)
Written(client, r) ==
    CASE r.op = "name" -> [client EXCEPT !.name = TRUE]
      [] r.op = "address" /\ r.mode = "reserved" -> [client EXCEPT !.fix = r.addr]
      [] OTHER -> [client EXCEPT !.fix = NoIP]

(* writeUser, putUser: the write is carried out and answered, or carried   *)
(* out and the answer lost, or refused (a client that is gone or exists    *)
(* by now always is).                                                      *)
WriteUser(a) ==
    LET r == req[a]
        known == console[r.dev] # NoRow
        client == Written(IF known THEN console[r.dev] ELSE NewClient, r)
    IN
    /\ r # Idle /\ r.step \in {"update", "create"}
    /\ \/ /\ known <=> r.step = "update"
          /\ console' = [console EXCEPT ![r.dev] = client]
          /\ \/ Goes(a, "save") /\ UNCHANGED untold
             \/ LostReplies /\ Ends(a) /\ untold' = untold \cup Untold(r.dev, client)
       \/ Ends(a) /\ UNCHANGED <<console, untold>>
    /\ UNCHANGED <<rows, cycle, calm>>

SavedRow(r) ==
    IF r.op = "name" THEN [r.row EXCEPT !.name = TRUE]
    ELSE [r.row EXCEPT !.mode = r.mode, !.addr = r.addr, !.fixed = r.mode = "reserved"]

Save(a) ==
    LET r == req[a] IN
    /\ r # Idle /\ r.step = "save"
    /\ rows' = [rows EXCEPT ![r.dev] = SavedRow(r)]
    /\ Ends(a)
    /\ UNCHANGED <<console, untold, cycle, calm>>

(* The save fails, or the process dies and with it all work in progress.   *)
SaveFails(a) ==
    /\ req[a] # Idle /\ req[a].step = "save"
    /\ untold' = untold \cup Untold(req[a].dev, console[req[a].dev])
    /\ Ends(a)
    /\ UNCHANGED <<rows, console, cycle, calm>>

Crash ==
    /\ ~Quiet \/ phase # "idle"
    /\ untold' = untold \cup UNION {Untold(req[a].dev, console[req[a].dev]) :
                                        a \in {b \in Admins : req[b] # Idle}}
    /\ req' = [a \in Admins |-> Idle]
    /\ EndCycle
    /\ UNCHANGED <<rows, console, calm>>

Handle(a) ==
    \/ \E d \in Devices, mode \in Modes, ip \in AnyIP : SetAddressing(a, d, mode, ip)
    \/ \E d \in Devices, mode \in Modes, ip \in AnyIP : Register(a, d, mode, ip)
    \/ \E d \in Named : PushName(a, d)
    \/ UserID(a)
    \/ WriteUser(a)
    \/ Save(a)
    \/ SaveFails(a)

-----------------------------------------------------------------------------
(* The world: clients connect and lease addresses, and the people at the   *)
(* console set and clear reservations and remove clients.                  *)

Changes(d, client) ==
    /\ console' = [console EXCEPT ![d] = client]
    /\ UNCHANGED <<rows, cycle, req, calm>>

Connect(d, ip) ==
    /\ Changes(d, IF console[d] = NoRow THEN [NewClient EXCEPT !.lease = ip]
                  ELSE [console[d] EXCEPT !.lease = ip])
    /\ UNCHANGED untold

FixThere(d, ip) ==
    /\ console[d] # NoRow /\ console[d].fix # ip
    /\ Changes(d, [console[d] EXCEPT !.fix = ip])
    /\ untold' = IF ip = NoIP THEN untold ELSE untold \cup {d}

RemoveThere(d) ==
    /\ console[d] # NoRow
    /\ Changes(d, NoRow)
    /\ UNCHANGED untold

World(d) ==
    \/ \E ip \in Leases(d) \cup {NoIP} : Connect(d, ip)
    \/ \E ip \in Fixable(d) \cup {NoIP} : FixThere(d, ip)
    \/ RemoveThere(d)

CalmDown ==
    /\ ~calm /\ Quiet /\ phase = "idle"
    /\ calm' = TRUE
    /\ UNCHANGED <<rows, console, untold, cycle, req>>

Next ==
    \/ Cycle
    \/ ~calm /\ \E a \in Admins : Handle(a)
    \/ ~calm /\ \E d \in Devices : World(d)
    \/ ~calm /\ Crash
    \/ CalmDown

(* Engine.Run starts a cycle at every tick, and a calm console answers.    *)
Spec == Init /\ [][Next]_vars /\ WF_vars(Cycle /\ calm)

-----------------------------------------------------------------------------
(* An address is never assigned to two devices, in the table or on the     *)
(* console, unless one of them has or had a reservation that netreg was    *)
(* not told of (validateAssignedIP).                                       *)
Claims(d) ==
    ({IF rows[d] = NoRow THEN NoIP ELSE rows[d].addr,
      IF console[d] = NoRow THEN NoIP ELSE console[d].fix}) \ {NoIP}

AddressesDistinct ==
    \A d, e \in Devices \ untold : d # e => Claims(d) \cap Claims(e) = {}

(* Between requests netreg knows every reservation it made: a device that  *)
(* is to be static or on DHCP keeps none (changeAddressing).               *)
ReservationsKnown ==
    Quiet => \A d \in Devices \ untold :
        console[d] # NoRow /\ console[d].fix # NoIP => Knows(rows[d], console[d])

(* "only netreg sets or clears that mode" (applyAddressMode): no cycle     *)
(* makes a device static, ends that or moves its address.                  *)
StaticByAdminsOnly ==
    [][\A d \in Devices : rows[d] # NoRow /\ rows'[d] # NoRow
          /\ "static" \in {rows[d].mode, rows'[d].mode}
          /\ <<rows[d].mode, rows[d].addr>> # <<rows'[d].mode, rows'[d].addr>>
          => \E a \in Admins : req[a] # Idle /\ req[a].dev = d /\ req'[a] = Idle]_vars

(* Once things are calm every device the console knows is in the table,    *)
(* mirrors its reservation and name unless it is static, and has the       *)
(* address it uses ("UniFi is the source of truth for reservations"); only *)
(* one that is skipped for DNS may have an address it does not use.        *)
Mirrors(row, client, skip) ==
    /\ row.seen /\ row.name = client.name
    /\ row.fixed <=> client.fix # NoIP
    /\ row.mode # "static" =>
          /\ row.mode = IF client.fix # NoIP THEN "reserved" ELSE "dhcp"
          /\ row.addr = client.fix
          /\ row.ip = ReportedIP(client) \/ (skip /\ ReportedIP(client) = NoIP)
    /\ row.mode = "static" => row.ip = row.addr

Settles ==
    calm ~> [](phase = "idle" =>
        \A d \in Devices : console[d] # NoRow =>
            rows[d] # NoRow /\ Mirrors(rows[d], console[d], d \in MaySkip))
=============================================================================
