-------------------------- MODULE AddressingProofs --------------------------
(***************************************************************************)
(* Proofs about Addressing, for any devices, addresses and consoles, with  *)
(* lost replies, failed saves and crashes.                                 *)
(***************************************************************************)
EXTENDS Addressing, TLAPS

-----------------------------------------------------------------------------
(* The inductive invariants.                                               *)

(* Requests and cycles keep apart.                                         *)
Apart == phase # "idle" => Quiet

(* A cycle's copy of a static row keeps its address, and makes no row      *)
(* static.                                                                 *)
CopyKeepsStatic ==
    phase = "loaded" =>
        \A d \in found : rows[d] # NoRow /\ copy[d] # NoRow
            /\ "static" \in {rows[d].mode, copy[d].mode}
            => copy[d].mode = rows[d].mode /\ copy[d].addr = rows[d].addr

StaticInv == TypeOK /\ Apart /\ CopyKeepsStatic

Fix(d) == IF console[d] = NoRow THEN NoIP ELSE console[d].fix
Addr(d) == IF rows[d] = NoRow THEN NoIP ELSE rows[d].addr

(* A row that says reserved knows of a fixed address.                      *)
ReservedIsFixed ==
    /\ \A d \in Devices : rows[d] # NoRow /\ rows[d].mode = "reserved" => rows[d].fixed
    /\ \A d \in Devices : copy[d] # NoRow /\ copy[d].mode = "reserved" => copy[d].fixed

(* The request that has just set this device's reservation.                *)
Setting(d) ==
    \E a \in Admins : /\ req[a] # Idle /\ req[a].dev = d
                      /\ req[a].op = "address" /\ req[a].step = "save"
                      /\ req[a].mode = "reserved" /\ req[a].addr = Fix(d)

(* Every reservation is known to the row or to a request.                  *)
FixKnown ==
    \A d \in Devices \ untold :
        \/ Fix(d) = NoIP
        \/ rows[d] # NoRow /\ rows[d].mode = "reserved" /\ rows[d].addr = Fix(d)
        \/ Setting(d)

(* The copy that a request holds is the row, what it assigns is free, and  *)
(* when it comes to save it has cleared what was to be cleared.            *)
RequestInv ==
    \A a \in Admins : req[a] # Idle =>
        LET r == req[a] IN
        /\ rows[r.dev] = r.row
        /\ r.op = "address" /\ r.mode = "dhcp" => r.addr = NoIP
        /\ r.op = "address" /\ r.mode # "dhcp" => ~InUse(r.dev, r.addr)
        /\ r.op = "address" /\ r.step = "save" /\ r.mode # "reserved" /\ r.dev \notin untold
              => Fix(r.dev) = NoIP
        /\ r.op = "name" \/ r.mode # "reserved" \/ r.step # "save" \/ r.dev \in untold
           \/ Fix(r.dev) \in {NoIP, r.addr}

(* What the cycle was told is what the rows say, as far as it still holds. *)
ReportInv ==
    phase # "idle" =>
        \A d \in Devices \ untold :
            /\ Fix(d) # NoIP => report[d] # NoRow /\ report[d].fix = Fix(d)
            /\ report[d] # NoRow /\ report[d].fix # NoIP => Knows(rows[d], report[d])

CopyInv ==
    \A d \in Devices \ untold : copy[d] # NoRow =>
        /\ phase = "loaded"
        /\ copy[d].addr \in {NoIP, Addr(d)}
        /\ report[d] # NoRow /\ report[d].fix # NoIP
              => copy[d].mode = "reserved" /\ copy[d].addr = report[d].fix

RowsDistinct ==
    \A d, e \in Devices \ untold : d # e /\ Addr(d) # NoIP => Addr(d) # Addr(e)

AddressInv ==
    /\ TypeOK
    /\ Apart
    /\ ReservedIsFixed
    /\ FixKnown
    /\ RequestInv
    /\ ReportInv
    /\ CopyInv
    /\ RowsDistinct
-----------------------------------------------------------------------------
(* Types.                                                                  *)

(* A row for a reported client is a row.                                   *)
LEMMA ReconciledType ==
    ASSUME NEW row \in Row, NEW client \in Client, NEW skip
    PROVE  Reconciled(row, client, skip) \in Row
<1>1. AddressOf(row, client, skip) \in AnyIP
  BY DEF AddressOf, ReportedIP, Client, Row
<1> DEFINE seen == [row EXCEPT !.seen = TRUE, !.fixed = client.fix # NoIP, !.name = client.name,
                               !.ip = AddressOf(row, client, skip)]
<1>2. seen \in Row
  BY <1>1 DEF Row, Client
<1>3. Mirrored(seen, client) \in Row
  <2> HIDE DEF seen
  <2>1. QED
    BY <1>2 DEF Mirrored, Row, Client, Modes
<1>4. QED
  BY <1>3 DEF Reconciled

(* So are the first row of a device and the row a request saves; what a    *)
(* request writes is a client.                                             *)
LEMMA RecordTypes ==
    /\ NewRow \in Row /\ NewClient \in Client
    /\ \A r \in Request : SavedRow(r) \in Row
    /\ \A client \in Client, r \in Request : Written(client, r) \in Client
<1>1. NewRow \in Row /\ NewClient \in Client
  BY DEF NewRow, NewClient, Row, Client, Modes, AnyIP
<1>2. ASSUME NEW r \in Request PROVE SavedRow(r) \in Row
  BY DEF SavedRow, Request, Row
<1>3. ASSUME NEW client \in Client, NEW r \in Request PROVE Written(client, r) \in Client
  BY DEF Written, Request, Client, AnyIP
<1>4. QED
  BY <1>1, <1>2, <1>3

(* Nothing is known, reported or asked for at first.                       *)
LEMMA InitType == Init => TypeOK
  BY DEF Init, TypeOK, Nothing

(* A request is taken up as a request.                                     *)
LEMMA SubmitType ==
    ASSUME TypeOK, NEW a \in Admins, NEW op \in {"address", "name"}, NEW d \in Devices,
           NEW row \in Row, NEW mode \in Modes, NEW ip \in AnyIP,
           NEW table \in [Devices -> Row \cup {NoRow}],
           Submit(a, op, d, row, mode, ip, table)
    PROVE  TypeOK'
<1> DEFINE r == [op |-> op, dev |-> d, row |-> row, mode |-> mode, addr |-> ip,
                 step |-> IF op = "name" \/ Tell(row, mode) THEN "lookup" ELSE "save"]
<1>1. r \in Request
  BY DEF Request
<1>2. req' = [req EXCEPT ![a] = r] /\ rows' = table
  BY DEF Submit
<1>3. req' \in [Admins -> Request \cup {Idle}]
  BY <1>1, <1>2 DEF TypeOK
<1>4. QED
  BY <1>2, <1>3 DEF Submit, TypeOK, cycle

(* Every step keeps the types.                                             *)
LEMMA NextType == TypeOK /\ [Next]_vars => TypeOK'
<1> SUFFICES ASSUME TypeOK, [Next]_vars PROVE TypeOK'
  OBVIOUS
<1> USE AddressingAssumption, NullAssumption DEF AddressingAssumption, NullAssumption
<1>1. CASE Fetch
  BY <1>1 DEF Fetch, TypeOK
<1>2. ASSUME NEW skipped \in SUBSET MaySkip, Load(skipped) PROVE TypeOK'
  <2>1. \A d \in Devices :
           /\ report[d] # NoRow => report[d] \in Client
           /\ rows[d] # NoRow => rows[d] \in Row
    BY DEF TypeOK
  <2>2. copy' \in [Devices -> Row \cup {NoRow}]
    <3> DEFINE new(d) ==
          CASE report[d] # NoRow /\ rows[d] # NoRow -> Reconciled(rows[d], report[d], d \in skipped)
            [] report[d] # NoRow /\ rows[d] = NoRow -> Reconciled(NewRow, report[d], FALSE)
            [] report[d] = NoRow /\ rows[d] # NoRow /\ rows[d].seen -> rows[d]
            [] OTHER -> NoRow
    <3>1. \A d \in Devices : new(d) \in Row \cup {NoRow}
      BY <2>1, ReconciledType, RecordTypes
    <3>2. copy' = [d \in Devices |-> new(d)]
      BY <1>2 DEF Load
    <3>3. QED
      BY <3>1, <3>2
  <2>3. QED
    BY <1>2, <2>2 DEF Load, TypeOK
<1>3. CASE Persist
  BY <1>3 DEF Persist, EndCycle, Nothing, TypeOK
<1>4. ASSUME NEW a \in Admins, Handle(a) PROVE TypeOK'
  <2>1. CASE \E d \in Devices, mode \in Modes, ip \in AnyIP : SetAddressing(a, d, mode, ip)
    BY <2>1, SubmitType DEF SetAddressing, TypeOK
  <2>2. ASSUME NEW d \in Devices, NEW mode \in Modes, NEW ip \in AnyIP, Register(a, d, mode, ip)
        PROVE TypeOK'
    <3> DEFINE row == IF rows[d] = NoRow THEN NewRow ELSE rows[d]
               table == [rows EXCEPT ![d] = row]
    <3>1. row \in Row
      BY RecordTypes DEF TypeOK
    <3>2. table \in [Devices -> Row \cup {NoRow}]
      BY <3>1 DEF TypeOK
    <3>3. CASE Submit(a, "address", d, row, mode, ip, table)
      BY <3>1, <3>2, <3>3, SubmitType
    <3>4. CASE rows' = table /\ UNCHANGED <<console, untold, cycle, req, calm>>
      BY <3>2, <3>4 DEF TypeOK, cycle
    <3>5. QED
      BY <2>2, <3>3, <3>4 DEF Register
  <2>3. ASSUME NEW d \in Named, PushName(a, d) PROVE TypeOK'
    <3>1. d \in Devices /\ rows[d] \in Row
      BY <2>3 DEF PushName, TypeOK
    <3>2. rows[d].mode \in Modes /\ rows[d].addr \in AnyIP
      BY <3>1 DEF Row
    <3>3. QED
      BY <2>3, <3>1, <3>2, SubmitType DEF PushName, TypeOK
  <2>4. CASE UserID(a)
    BY <2>4 DEF UserID, Goes, Ends, TypeOK, Request, cycle
  <2>5. CASE WriteUser(a)
    <3>1. req[a] \in Request
      BY <2>5 DEF WriteUser, TypeOK
    <3>2. Written(IF console[req[a].dev] # NoRow THEN console[req[a].dev] ELSE NewClient, req[a])
              \in Client
      BY <3>1, RecordTypes DEF TypeOK, Request
    <3>3. console' \in [Devices -> Client \cup {NoRow}]
      BY <2>5, <3>2 DEF WriteUser, TypeOK
    <3>4. untold' \subseteq Devices
      BY <2>5, <3>1 DEF WriteUser, TypeOK, Untold, Request
    <3>5. req' \in [Admins -> Request \cup {Idle}]
      BY <2>5, <3>1 DEF WriteUser, TypeOK, Goes, Ends, Request
    <3>6. QED
      BY <2>5, <3>3, <3>4, <3>5 DEF WriteUser, TypeOK, cycle
  <2>6. CASE Save(a)
    BY <2>6, RecordTypes DEF Save, Ends, TypeOK, cycle
  <2>7. CASE SaveFails(a)
    BY <2>7 DEF SaveFails, Ends, TypeOK, cycle, Untold, Request
  <2>8. QED
    BY <1>4, <2>1, <2>2, <2>3, <2>4, <2>5, <2>6, <2>7 DEF Handle
<1>5. ASSUME NEW d \in Devices, World(d) PROVE TypeOK'
  <2>1. ASSUME NEW client \in Client \cup {NoRow}, Changes(d, client), untold' \subseteq Devices
        PROVE TypeOK'
    BY <2>1 DEF Changes, TypeOK, cycle
  <2>2. CASE \E ip \in Leases(d) \cup {NoIP} : Connect(d, ip)
    <3> PICK ip \in Leases(d) \cup {NoIP} : Connect(d, ip)
      BY <2>2
    <3>1. (IF console[d] = NoRow THEN [NewClient EXCEPT !.lease = ip]
           ELSE [console[d] EXCEPT !.lease = ip]) \in Client
      BY RecordTypes DEF TypeOK, Client, AnyIP
    <3>2. QED
      BY <2>1, <3>1 DEF Connect, TypeOK
  <2>3. CASE \E ip \in Fixable(d) \cup {NoIP} : FixThere(d, ip)
    <3> PICK ip \in Fixable(d) \cup {NoIP} : FixThere(d, ip)
      BY <2>3
    <3>1. [console[d] EXCEPT !.fix = ip] \in Client
      BY DEF FixThere, TypeOK, Client, AnyIP
    <3>2. QED
      BY <2>1, <3>1 DEF FixThere, TypeOK
  <2>4. CASE RemoveThere(d)
    BY <2>1, <2>4 DEF RemoveThere, TypeOK
  <2>5. QED
    BY <1>5, <2>2, <2>3, <2>4 DEF World
<1>6. CASE Crash
  <2>1. untold' \subseteq Devices
    BY <1>6 DEF Crash, Untold, TypeOK, Request
  <2>2. QED
    BY <1>6, <2>1 DEF Crash, EndCycle, Nothing, TypeOK
<1>7. CASE CalmDown
  BY <1>7 DEF CalmDown, TypeOK, cycle
<1>8. CASE UNCHANGED vars
  BY <1>8 DEF vars, cycle, TypeOK
<1>9. QED
  BY <1>1, <1>2, <1>3, <1>4, <1>5, <1>6, <1>7, <1>8 DEF Next, Cycle

(* The variables keep their types, for any admins at work at once, whether *)
(* or not requests overlap with cycles.                                    *)
THEOREM TypeCorrect == Spec => []TypeOK
<1> QED BY InitType, NextType, PTL DEF Spec

-----------------------------------------------------------------------------
(* Static devices, when requests and cycles keep apart.                    *)

(* Only the transaction and the requests touch the devices table, and only *)
(* the cycle what it has loaded.                                           *)
LEMMA WorldLeavesRows ==
    ASSUME NEW d \in Devices, World(d)
    PROVE  UNCHANGED <<rows, report, found, copy, phase, req>>
  BY DEF World, Connect, FixThere, RemoveThere, Changes, cycle

(* A request leaves the cycle alone; it starts while none is at work, and  *)
(* until it saves it changes no row that was there.                        *)
LEMMA HandleSteps ==
    ASSUME TypeOK, NEW a \in Admins, Handle(a), ~Overlap
    PROVE  /\ UNCHANGED cycle
           /\ req[a] = Idle => phase = "idle"
           /\ \A b \in Admins \ {a} : req'[b] = req[b]
           /\ \A d \in Devices : rows[d] # NoRow /\ rows'[d] # rows[d]
                 => req[a] # Idle /\ req[a].dev = d /\ req'[a] = Idle
<1> DEFINE Goal ==
    /\ UNCHANGED cycle
    /\ req[a] = Idle => phase = "idle"
    /\ \A b \in Admins \ {a} : req'[b] = req[b]
    /\ \A d \in Devices : rows[d] # NoRow /\ rows'[d] # rows[d]
          => req[a] # Idle /\ req[a].dev = d /\ req'[a] = Idle
<1>1. ASSUME NEW op, NEW d \in Devices, NEW row, NEW mode, NEW ip, NEW table,
             Submit(a, op, d, row, mode, ip, table),
             \A e \in Devices : rows[e] # NoRow => table[e] = rows[e]
      PROVE Goal
  BY <1>1 DEF Submit, TypeOK
<1>2. ASSUME NEW d \in Devices, NEW mode \in Modes, NEW ip \in AnyIP, SetAddressing(a, d, mode, ip)
      PROVE Goal
  BY <1>1, <1>2 DEF SetAddressing
<1>3. ASSUME NEW d \in Devices, NEW mode \in Modes, NEW ip \in AnyIP, Register(a, d, mode, ip)
      PROVE Goal
  <2> DEFINE row == IF rows[d] = NoRow THEN NewRow ELSE rows[d]
             table == [rows EXCEPT ![d] = row]
  <2>1. \A e \in Devices : rows[e] # NoRow => table[e] = rows[e]
    BY DEF TypeOK
  <2>2. CASE /\ req[a] = Idle /\ phase = "idle"
             /\ rows' = table /\ UNCHANGED <<cycle, req>>
    BY <2>1, <2>2
  <2>3. CASE Submit(a, "address", d, row, mode, ip, table)
    <3> HIDE DEF row, table
    <3>1. QED
      BY <1>1, <2>1, <2>3
  <2>4. QED
    BY <1>3, <2>2, <2>3 DEF Register
<1>4. ASSUME NEW d \in Named, PushName(a, d) PROVE Goal
  <2>1. d \in Devices
    BY AddressingAssumption DEF AddressingAssumption
  <2>2. QED
    BY <1>1, <1>4, <2>1 DEF PushName
<1>5. CASE UserID(a)
  BY <1>5 DEF UserID, Goes, Ends, TypeOK
<1>6. CASE WriteUser(a)
  <2>1. /\ req[a] # Idle /\ UNCHANGED <<rows, cycle>>
        /\ \E r : req' = [req EXCEPT ![a] = r]
    BY <1>6 DEF WriteUser, Goes, Ends
  <2>2. QED
    BY <2>1 DEF TypeOK
<1>7. CASE Save(a) \/ SaveFails(a)
  BY <1>7 DEF Save, SaveFails, Ends, TypeOK
<1>8. QED
  BY <1>2, <1>3, <1>4, <1>5, <1>6, <1>7 DEF Handle

(* Requests and cycles start apart and stay apart.                         *)
LEMMA NextApart == ~Overlap /\ TypeOK /\ Apart /\ [Next]_vars => Apart'
<1> SUFFICES ASSUME ~Overlap, TypeOK, Apart, [Next]_vars PROVE Apart'
  OBVIOUS
<1>1. CASE Cycle
  BY <1>1 DEF Cycle, Fetch, Load, Persist, EndCycle, Apart, Quiet
<1>2. ASSUME NEW a \in Admins, Handle(a) PROVE Apart'
  BY <1>2, HandleSteps DEF Apart, Quiet, cycle
<1>3. ASSUME NEW d \in Devices, World(d) PROVE Apart'
  BY <1>3, WorldLeavesRows DEF Apart, Quiet
<1>4. CASE Crash \/ CalmDown \/ UNCHANGED vars
  BY <1>4 DEF Crash, EndCycle, CalmDown, vars, cycle, Apart, Quiet
<1>5. QED
  BY <1>1, <1>2, <1>3, <1>4 DEF Next

(* The pass of a static row keeps its address and mode, and no pass makes  *)
(* a row static (applyAddressMode).                                        *)
LEMMA ReconciledStatic ==
    ASSUME NEW row \in Row, NEW client \in Client, NEW skip,
           "static" \in {row.mode, Reconciled(row, client, skip).mode}
    PROVE  /\ Reconciled(row, client, skip).mode = row.mode
           /\ Reconciled(row, client, skip).addr = row.addr
  BY DEF Reconciled, Mirrored, Row, Client

(* The copy of a static row stays true to it until it is saved.            *)
LEMMA NextCopyKeepsStatic == ~Overlap /\ StaticInv /\ [Next]_vars => CopyKeepsStatic'
<1> SUFFICES ASSUME ~Overlap, TypeOK, Apart, CopyKeepsStatic, [Next]_vars
             PROVE CopyKeepsStatic'
  BY DEF StaticInv
<1>1. ASSUME NEW skipped \in SUBSET MaySkip, Load(skipped) PROVE CopyKeepsStatic'
  <2> SUFFICES ASSUME NEW d \in Devices, rows[d] # NoRow, copy'[d] # NoRow,
                      "static" \in {rows[d].mode, copy'[d].mode}
               PROVE copy'[d].mode = rows[d].mode /\ copy'[d].addr = rows[d].addr
    BY <1>1 DEF Load, CopyKeepsStatic
  <2>1. rows[d] \in Row /\ (report[d] # NoRow => report[d] \in Client)
    BY DEF TypeOK
  <2>2. CASE report[d] = NoRow
    BY <1>1, <2>2 DEF Load
  <2>3. CASE report[d] # NoRow
    BY <1>1, <2>1, <2>3, ReconciledStatic DEF Load
  <2>4. QED
    BY <2>2, <2>3
<1>2. CASE Fetch \/ Persist \/ Crash \/ CalmDown \/ UNCHANGED vars
  BY <1>2 DEF Fetch, Persist, Crash, EndCycle, CalmDown, vars, cycle, CopyKeepsStatic
<1>3. ASSUME NEW a \in Admins, Handle(a) PROVE CopyKeepsStatic'
  BY <1>3, HandleSteps DEF Apart, Quiet, cycle, CopyKeepsStatic
<1>4. ASSUME NEW d \in Devices, World(d) PROVE CopyKeepsStatic'
  BY <1>4, WorldLeavesRows DEF CopyKeepsStatic
<1>5. QED
  BY <1>1, <1>2, <1>3, <1>4 DEF Next, Cycle

(* When requests and cycles keep apart, no cycle makes a device static,    *)
(* ends that or moves its address, for any number of admins.               *)
THEOREM OnlyAdminsSetStatic ==
    ASSUME ~Overlap
    PROVE  Spec => StaticByAdminsOnly
<1> DEFINE Kept(d) ==
    rows[d] # NoRow /\ rows'[d] # NoRow /\ "static" \in {rows[d].mode, rows'[d].mode}
      /\ <<rows[d].mode, rows[d].addr>> # <<rows'[d].mode, rows'[d].addr>>
      => \E a \in Admins : req[a] # Idle /\ req[a].dev = d /\ req'[a] = Idle
<1>1. Init => StaticInv
  BY InitType DEF Init, StaticInv, Apart, CopyKeepsStatic, Quiet
<1>2. StaticInv /\ [Next]_vars => StaticInv'
  BY NextType, NextApart, NextCopyKeepsStatic DEF StaticInv
<1>3. StaticInv /\ [Next]_vars => [\A d \in Devices : Kept(d)]_vars
  <2> SUFFICES ASSUME StaticInv, Next, NEW d \in Devices PROVE Kept(d)
    OBVIOUS
  <2> USE DEF StaticInv
  <2>1. CASE Persist
    <3>1. CASE rows' = rows
      BY <3>1
    <3>2. CASE /\ \A e \in Devices \ found : ~(copy[e] # NoRow /\ rows[e] # NoRow)
               /\ rows' = [e \in Devices |-> IF copy[e] # NoRow THEN copy[e] ELSE rows[e]]
      BY <2>1, <3>2 DEF Persist, CopyKeepsStatic
    <3>3. QED
      BY <2>1, <3>1, <3>2 DEF Persist
  <2>2. ASSUME NEW a \in Admins, Handle(a) PROVE Kept(d)
    BY <2>2, HandleSteps
  <2>3. CASE rows' = rows
    BY <2>3
  <2>4. QED
    BY <2>1, <2>2, <2>3, WorldLeavesRows
    DEF Next, Cycle, Fetch, Load, Crash, CalmDown
<1>4. QED
  BY <1>1, <1>2, <1>3, PTL DEF Spec, StaticByAdminsOnly

-----------------------------------------------------------------------------
(* Reservations, with one admin whose requests keep apart from cycles.     *)

OneAdmin == \A a, b \in Admins : a = b

(* Whatever happens on the console keeps the invariant: a reservation made *)
(* there is one that netreg was not told of.                               *)
LEMMA WorldStep ==
    ASSUME AddressInv, TypeOK', UNCHANGED <<rows, req, cycle>>, untold \subseteq untold',
           \A d \in Devices \ untold' : Fix(d)' \in {Fix(d), NoIP}
    PROVE  AddressInv'
<1> USE DEF AddressInv
<1>1. \A d \in Devices : Addr(d)' = Addr(d)
  BY DEF Addr
<1>2. (Apart /\ ReservedIsFixed /\ RowsDistinct)'
  BY <1>1 DEF Apart, Quiet, ReservedIsFixed, RowsDistinct, cycle
<1>3. FixKnown'
  BY DEF FixKnown, Setting
<1>4. RequestInv'
  <2>1. \A d \in Devices, ip \in AnyIP : InUse(d, ip)' = InUse(d, ip)
    BY DEF InUse
  <2>2. \A a \in Admins : req[a] # Idle => req[a].dev \in Devices /\ req[a].addr \in AnyIP
    BY DEF TypeOK, Request
  <2>3. QED
    BY <2>1, <2>2 DEF RequestInv
<1>5. ReportInv' /\ CopyInv'
  BY <1>1 DEF ReportInv, CopyInv, Knows, cycle
<1>6. QED
  BY <1>2, <1>3, <1>4, <1>5

(* The three steps of the cycle.                                           *)
LEMMA CycleStep ==
    ASSUME AddressInv, TypeOK', Apart', Cycle, ~Overlap
    PROVE  AddressInv'
<1> USE DEF AddressInv
<1>1. Quiet /\ Quiet' /\ UNCHANGED <<console, untold, req>>
  BY DEF Cycle, Fetch, Load, Persist, Apart, Quiet
<1>2. RequestInv' /\ \A d \in Devices : ~Setting(d) /\ ~Setting(d)' /\ Fix(d)' = Fix(d)
  BY <1>1 DEF RequestInv, Setting, Quiet, Fix
<1>3. CASE Fetch
  <2>1. UNCHANGED <<rows, copy>> /\ report' = console /\ phase = "idle"
    BY <1>3 DEF Fetch
  <2>2. (ReservedIsFixed /\ RowsDistinct /\ FixKnown)'
    BY <1>1, <1>2, <2>1 DEF ReservedIsFixed, RowsDistinct, FixKnown, Addr
  <2>3. ReportInv'
    BY <1>1, <1>2, <2>1 DEF FixKnown, ReportInv, Knows, Fix
  <2>4. CopyInv'
    BY <1>1, <2>1 DEF CopyInv
  <2>5. QED
    BY <1>2, <2>2, <2>3, <2>4
<1>4. ASSUME NEW skipped \in SUBSET MaySkip, Load(skipped) PROVE AddressInv'
  <2>1. UNCHANGED <<rows, report>> /\ phase = "fetched" /\ phase' = "loaded"
    BY <1>4 DEF Load
  <2>2. (RowsDistinct /\ FixKnown /\ ReportInv)'
    BY <1>1, <1>2, <2>1 DEF RowsDistinct, FixKnown, ReportInv, Addr
  <2>3. ASSUME NEW d \in Devices, copy'[d] # NoRow
        PROVE  /\ copy'[d].mode = "reserved" => copy'[d].fixed
               /\ d \notin untold =>
                     /\ copy'[d].addr \in {NoIP, Addr(d)}
                     /\ report[d] # NoRow /\ report[d].fix # NoIP
                           => copy'[d].mode = "reserved" /\ copy'[d].addr = report[d].fix
    <3>1. /\ report[d] # NoRow => report[d] \in Client
          /\ rows[d] # NoRow => rows[d] \in Row
      BY DEF TypeOK
    <3>2. CASE report[d] = NoRow
      <4>1. copy'[d] = rows[d]
        BY <1>4, <2>3, <3>2 DEF Load
      <4>2. QED
        BY <2>3, <3>2, <4>1 DEF ReservedIsFixed, Addr
    <3>3. CASE report[d] # NoRow
      <4> DEFINE old == IF rows[d] = NoRow THEN NewRow ELSE rows[d]
      <4>1. old \in Row /\ \E skip : copy'[d] = Reconciled(old, report[d], skip)
        <5>1. copy'[d] = Reconciled(old, report[d], IF rows[d] = NoRow THEN FALSE ELSE d \in skipped)
          BY <1>4, <3>3 DEF Load
        <5>2. \E skip : copy'[d] = Reconciled(old, report[d], skip)
          <6> HIDE DEF old
          <6> WITNESS IF rows[d] = NoRow THEN FALSE ELSE d \in skipped
          <6>1. QED
            BY <5>1
        <5>3. QED
          BY <3>1, <5>2, RecordTypes
      <4>2. d \notin untold /\ report[d].fix # NoIP => Knows(rows[d], report[d])
        BY <2>1, <3>3 DEF ReportInv
      <4>3. CASE old.mode = "static"
        <5>1. /\ copy'[d].mode = "static" /\ copy'[d].addr = old.addr
              /\ rows[d] # NoRow
          BY <4>1, <4>3, <3>1, <3>3 DEF Reconciled, Mirrored, Row, NewRow
        <5>2. QED
          BY <4>2, <4>3, <5>1, <3>3 DEF Knows, Addr
      <4>4. CASE old.mode # "static"
        <5>1. /\ copy'[d].mode = IF report[d].fix # NoIP THEN "reserved" ELSE "dhcp"
              /\ copy'[d].addr = report[d].fix
              /\ copy'[d].fixed = (report[d].fix # NoIP)
          BY <4>1, <4>4, <3>1, <3>3 DEF Reconciled, Mirrored, Row, Client
        <5>2. QED
          BY <4>2, <5>1 DEF Knows, Addr
      <4>5. QED
        BY <4>3, <4>4
    <3>4. QED
      BY <3>2, <3>3
  <2>4. ReservedIsFixed'
    BY <2>1, <2>3 DEF ReservedIsFixed
  <2>5. CopyInv'
    BY <1>1, <2>1, <2>3 DEF CopyInv, Addr
  <2>6. QED
    BY <1>2, <2>2, <2>4, <2>5
<1>5. CASE Persist
  <2>1. /\ phase = "loaded" /\ phase' = "idle" /\ copy' = Nothing
        /\ \A d \in Devices : rows'[d] = rows[d] \/ (copy[d] # NoRow /\ rows'[d] = copy[d])
    BY <1>5 DEF Persist, EndCycle
  <2>2. ReportInv' /\ CopyInv' /\ ReservedIsFixed'
    BY <2>1 DEF ReportInv, CopyInv, ReservedIsFixed, Nothing
  <2>3. \A d \in Devices \ untold : Addr(d)' \in {NoIP, Addr(d)}
    BY <2>1 DEF CopyInv, Addr
  <2>4. RowsDistinct'
    BY <1>1, <2>3 DEF RowsDistinct
  <2>5. FixKnown'
    <3> SUFFICES ASSUME NEW d \in Devices \ untold, Fix(d) # NoIP
                 PROVE rows'[d] # NoRow /\ rows'[d].mode = "reserved" /\ rows'[d].addr = Fix(d)
      BY <1>1, <1>2 DEF FixKnown
    <3>1. rows[d] # NoRow /\ rows[d].mode = "reserved" /\ rows[d].addr = Fix(d)
      BY <1>2 DEF FixKnown
    <3>2. report[d] # NoRow /\ report[d].fix = Fix(d)
      BY <2>1 DEF ReportInv
    <3>3. QED
      BY <2>1, <3>1, <3>2 DEF CopyInv
  <2>6. QED
    BY <1>2, <2>2, <2>4, <2>5
<1>6. QED
  BY <1>3, <1>4, <1>5 DEF Cycle

(* While a request is at work the cycle is not, and nothing is copied.     *)
LEMMA NoCycle ==
    ASSUME AddressInv, AddressInv' \/ Apart', UNCHANGED cycle, phase = "idle"
    PROVE  ReportInv' /\ \A d \in Devices \ untold : copy[d] = NoRow
  BY DEF AddressInv, ReportInv, CopyInv, cycle

(* A request that starts holds the row, what it assigns is free, and if it *)
(* goes straight to the save there is nothing to clear.                    *)
LEMMA SubmitStep ==
    ASSUME AddressInv, TypeOK', Apart', OneAdmin, ~Overlap,
           NEW a \in Admins, NEW op \in {"address", "name"}, NEW d \in Devices,
           NEW row \in Row, NEW mode \in Modes, NEW ip \in AnyIP,
           Submit(a, op, d, row, mode, ip, [rows EXCEPT ![d] = row]),
           row = IF rows[d] = NoRow THEN NewRow ELSE rows[d],
           op = "address" => Acceptable(row, d, mode, ip)
    PROVE  AddressInv'
<1> USE DEF AddressInv
<1> DEFINE r == [op |-> op, dev |-> d, row |-> row, mode |-> mode, addr |-> ip,
                 step |-> IF op = "name" \/ Tell(row, mode) THEN "lookup" ELSE "save"]
<1>1. /\ \A b \in Admins : b = a /\ req[b] = Idle /\ req'[b] = r
      /\ phase = "idle" /\ UNCHANGED <<console, untold, cycle>>
      /\ rows' = [rows EXCEPT ![d] = row]
  BY DEF Submit, OneAdmin, TypeOK
<1>2. /\ rows'[d] = row
      /\ \A e \in Devices \ {d} : rows'[e] = rows[e]
  BY <1>1 DEF TypeOK
<1>3. \A e \in Devices : Addr(e)' = Addr(e) /\ Fix(e)' = Fix(e)
  BY <1>1, <1>2, NullAssumption DEF Addr, Fix, NewRow, NullAssumption
<1>4. ReportInv' /\ CopyInv'
  BY <1>1, NoCycle DEF CopyInv, cycle
<1>5. (RowsDistinct /\ ReservedIsFixed)'
  BY <1>1, <1>2, <1>3 DEF RowsDistinct, ReservedIsFixed, NewRow, cycle
<1>6. \A e \in Devices \ untold :
         Fix(e) = NoIP \/ (rows[e] # NoRow /\ rows[e].mode = "reserved" /\ rows[e].addr = Fix(e))
  BY <1>1 DEF FixKnown, Setting
<1>7. FixKnown'
  <2> SUFFICES ASSUME NEW e \in Devices \ untold, Fix(e) # NoIP
               PROVE rows'[e] # NoRow /\ rows'[e].mode = "reserved" /\ rows'[e].addr = Fix(e)
    BY <1>1, <1>3 DEF FixKnown
  <2>1. QED
    BY <1>2, <1>6
<1>8. RequestInv'
  <2>1. op = "address" /\ mode = "dhcp" => ip = NoIP
    BY DEF Acceptable
  <2>2. op = "address" /\ mode # "dhcp" => ~InUse(d, ip)'
    BY <1>2 DEF Acceptable, InUse
  <2>3. r.step = "save" /\ d \notin untold => mode # "reserved" /\ Fix(d) = NoIP
    BY <1>6 DEF Tell, ReservedIsFixed
  <2>4. QED
    BY <1>1, <1>2, <1>3, <2>1, <2>2, <2>3 DEF RequestInv
<1>9. QED
  BY <1>4, <1>5, <1>7, <1>8

(* What a request at work may rely on: it is alone.                        *)
LEMMA AtWork ==
    ASSUME AddressInv, OneAdmin, NEW a \in Admins, req[a] # Idle
    PROVE  /\ req[a] \in Request /\ rows[req[a].dev] = req[a].row /\ req[a].row \in Row
           /\ phase = "idle"
           /\ \A b \in Admins : b = a
           /\ \A d \in Devices \ (untold \cup {req[a].dev}) :
                 Fix(d) = NoIP
                 \/ (rows[d] # NoRow /\ rows[d].mode = "reserved" /\ rows[d].addr = Fix(d))
  BY DEF AddressInv, OneAdmin, TypeOK, RequestInv, Apart, Quiet, FixKnown, Setting, Request

(* The lookup only decides how to go on.                                   *)
LEMMA UserIDStep ==
    ASSUME AddressInv, TypeOK', Apart', OneAdmin, NEW a \in Admins, UserID(a)
    PROVE  AddressInv'
<1> USE DEF AddressInv
<1>0. PICK r \in Request : r = req[a] /\ r # Idle /\ rows[r.dev] = r.row
  BY AtWork DEF UserID
<1>1. r.step = "lookup" /\ UNCHANGED <<rows, console, untold, cycle>>
  BY <1>0 DEF UserID
<1>2. phase = "idle" /\ \A b \in Admins : b = a
  BY <1>0, AtWork
<1>3. (RowsDistinct /\ ReservedIsFixed /\ ReportInv /\ CopyInv)'
  BY <1>1 DEF RowsDistinct, ReservedIsFixed, ReportInv, CopyInv, Addr, Fix, cycle
<1>4. \A e \in Devices : Fix(e)' = Fix(e) /\ ~Setting(e)
  BY <1>0, <1>1, <1>2 DEF Fix, Setting
<1>5. FixKnown'
  BY <1>1, <1>4 DEF FixKnown
<1>6. PICK step \in {"lookup", "update", "create", "save"} :
         /\ req'[a] = Idle \/ req'[a] = [r EXCEPT !.step = step]
         /\ req'[a] # Idle /\ step = "save" =>
               console[r.dev] = NoRow /\ r.op = "address" /\ r.mode # "reserved"
  BY <1>0 DEF UserID, Goes, Ends, TypeOK
<1>7. RequestInv'
  <2> SUFFICES ASSUME req'[a] # Idle PROVE RequestInv'
    BY <1>2 DEF RequestInv
  <2>1. /\ req'[a].op = r.op /\ req'[a].dev = r.dev /\ req'[a].row = r.row
        /\ req'[a].mode = r.mode /\ req'[a].addr = r.addr /\ req'[a].step = step
    BY <1>6 DEF Request
  <2>2. step = "save" => Fix(r.dev) = NoIP /\ r.mode # "reserved"
    BY <1>6 DEF Fix
  <2>3. /\ r.op = "address" /\ r.mode = "dhcp" => r.addr = NoIP
        /\ r.op = "address" /\ r.mode # "dhcp" => ~InUse(r.dev, r.addr)
    BY <1>0 DEF RequestInv
  <2>4. InUse(r.dev, r.addr)' = InUse(r.dev, r.addr)
    BY <1>1 DEF InUse
  <2>5. Fix(r.dev)' = Fix(r.dev) /\ rows'[r.dev] = r.row
    BY <1>0, <1>1, <1>4 DEF Request
  <2>6. QED
    BY <1>2, <2>1, <2>2, <2>3, <2>4, <2>5 DEF RequestInv
<1>8. QED
  BY <1>3, <1>5, <1>7

(* The write sets or clears the reservation, and netreg is told unless the *)
(* answer is lost.                                                         *)
LEMMA WriteUserStep ==
    ASSUME AddressInv, TypeOK', Apart', OneAdmin, NEW a \in Admins, WriteUser(a)
    PROVE  AddressInv'
<1> USE DEF AddressInv
<1>0. PICK r \in Request : r = req[a] /\ r # Idle /\ rows[r.dev] = r.row /\ r.dev \in Devices
  BY AtWork DEF WriteUser, Request
<1> DEFINE old == IF console[r.dev] # NoRow THEN console[r.dev] ELSE NewClient
           client == Written(old, r)
<1>1. r.step \in {"update", "create"} /\ UNCHANGED <<rows, cycle>>
  BY <1>0 DEF WriteUser
<1>2. /\ phase = "idle"
      /\ \A b \in Admins : b = a
      /\ \A e \in Devices \ (untold \cup {r.dev}) :
            Fix(e) = NoIP
            \/ (rows[e] # NoRow /\ rows[e].mode = "reserved" /\ rows[e].addr = Fix(e))
  BY <1>0, AtWork
<1>3. \A e \in Devices : Addr(e)' = Addr(e) /\ ~Setting(e)
  BY <1>0, <1>1, <1>2 DEF Addr, Setting
<1>4. untold \subseteq untold'
  BY DEF WriteUser
<1>5. (RowsDistinct /\ ReservedIsFixed /\ ReportInv /\ CopyInv)'
  BY <1>1, <1>2, <1>3, <1>4, NoCycle DEF RowsDistinct, ReservedIsFixed, CopyInv, cycle
<1>6. old \in Client /\ client \in Client /\ old # NoRow /\ client # NoRow
  <2>1. old \in Client
    BY <1>0, RecordTypes DEF TypeOK
  <2> HIDE DEF old
  <2>2. client \in Client
    BY <2>1, RecordTypes
  <2>3. QED
    BY <2>1, <2>2, NullAssumption DEF NullAssumption
<1>7. Fix(r.dev) = old.fix
  BY RecordTypes DEF Fix, NewClient
<1>8. client.fix = IF r.op = "name" THEN old.fix
                   ELSE IF r.mode = "reserved" THEN r.addr ELSE NoIP
  BY <1>6 DEF Written, Client, Request
<1>9. CASE console' = console /\ req'[a] = Idle
  <2>1. \A e \in Devices : Fix(e)' = Fix(e)
    BY <1>9 DEF Fix
  <2>2. FixKnown' /\ RequestInv'
    BY <1>1, <1>2, <1>3, <1>4, <1>9, <2>1 DEF FixKnown, RequestInv
  <2>3. QED
    BY <1>5, <2>2
<1>10. CASE console' = [console EXCEPT ![r.dev] = client]
  <2>1. /\ Fix(r.dev)' = client.fix
        /\ \A e \in Devices \ {r.dev} : Fix(e)' = Fix(e)
    BY <1>0, <1>6, <1>10 DEF Fix, TypeOK
  <2>2. CASE req'[a] = Idle /\ untold' = untold \cup Untold(r.dev, client)
    <3>1. \A e \in Devices \ untold' :
             \/ Fix(e)' = NoIP
             \/ rows[e] # NoRow /\ rows[e].mode = "reserved" /\ rows[e].addr = Fix(e)'
      BY <1>2, <1>6, <2>1, <2>2 DEF Untold, Knows
    <3>2. FixKnown' /\ RequestInv'
      BY <1>1, <1>2, <2>2, <3>1 DEF FixKnown, RequestInv
    <3>3. QED
      BY <1>5, <3>2
  <2>3. CASE req'[a] = [r EXCEPT !.step = "save"] /\ untold' = untold
    <3>1. /\ req'[a].op = r.op /\ req'[a].dev = r.dev /\ req'[a].row = r.row
          /\ req'[a].mode = r.mode /\ req'[a].addr = r.addr /\ req'[a].step = "save"
          /\ req'[a] # Idle
      BY <2>3, NullAssumption DEF Request, NullAssumption
    <3>2. /\ r.op = "address" /\ r.mode = "dhcp" => r.addr = NoIP
          /\ r.op = "address" /\ r.mode # "dhcp" => ~InUse(r.dev, r.addr)
      BY <1>0 DEF RequestInv
    <3>3. InUse(r.dev, r.addr)' = InUse(r.dev, r.addr)
      BY <1>1 DEF InUse
    <3>4. r.op \in {"address", "name"}
      BY DEF Request
    <3>5. RequestInv'
      BY <1>0, <1>1, <1>2, <1>8, <2>1, <3>1, <3>2, <3>3, <3>4 DEF RequestInv
    <3>6. FixKnown'
      <4>1. ASSUME NEW e \in Devices \ untold, e # r.dev
            PROVE Fix(e)' = NoIP
                  \/ (rows'[e] # NoRow /\ rows'[e].mode = "reserved" /\ rows'[e].addr = Fix(e)')
        BY <1>1, <1>2, <2>1, <4>1
      <4>2. CASE r.op = "address"
        <5>1. Fix(r.dev)' = NoIP \/ (r.mode = "reserved" /\ Fix(r.dev)' = r.addr)
          BY <1>8, <2>1, <4>2
        <5>2. r.mode = "reserved" /\ Fix(r.dev)' = r.addr => Setting(r.dev)'
          BY <3>1, <4>2 DEF Setting
        <5>3. QED
          BY <2>3, <4>1, <5>1, <5>2 DEF FixKnown
      <4>3. CASE r.op = "name"
        BY <1>1, <1>3, <1>7, <1>8, <2>1, <4>1, <4>3, <2>3 DEF FixKnown
      <4>4. QED
        BY <3>4, <4>2, <4>3
    <3>7. QED
      BY <1>5, <3>5, <3>6
  <2>4. /\ Goes(a, "save") => req'[a] = [r EXCEPT !.step = "save"]
        /\ Ends(a) => req'[a] = Idle
    BY <1>0 DEF Goes, Ends, TypeOK
  <2> HIDE DEF client, old
  <2>5. \/ Goes(a, "save") /\ untold' = untold
        \/ Ends(a) /\ untold' = untold \cup Untold(r.dev, client)
        \/ Ends(a) /\ console' = console
    BY <1>0 DEF WriteUser, client, old
  <2>6. QED
    BY <1>9, <2>2, <2>3, <2>4, <2>5
<1>11. Ends(a) => req'[a] = Idle
  BY DEF Ends, TypeOK
<1>12. QED
  BY <1>0, <1>9, <1>10, <1>11 DEF WriteUser

(* The save makes the row say what the request has done to the console.    *)
LEMMA SaveStep ==
    ASSUME AddressInv, TypeOK', Apart', OneAdmin, NEW a \in Admins, Save(a)
    PROVE  AddressInv'
<1> USE DEF AddressInv
<1>0. PICK r \in Request : r = req[a] /\ r # Idle /\ rows[r.dev] = r.row /\ r.dev \in Devices
  BY AtWork DEF Save, Request
<1>1. /\ r.step = "save" /\ UNCHANGED <<console, untold, cycle>>
      /\ rows' = [rows EXCEPT ![r.dev] = SavedRow(r)]
  BY <1>0 DEF Save
<1>2. /\ phase = "idle"
      /\ \A b \in Admins : b = a /\ req'[b] = Idle
      /\ \A e \in Devices \ (untold \cup {r.dev}) :
            Fix(e) = NoIP
            \/ (rows[e] # NoRow /\ rows[e].mode = "reserved" /\ rows[e].addr = Fix(e))
  BY <1>0, AtWork DEF Save, Ends, TypeOK
<1>3. ReportInv' /\ CopyInv' /\ RequestInv'
  BY <1>1, <1>2, NoCycle DEF CopyInv, RequestInv, cycle
<1>4. /\ rows'[r.dev] = SavedRow(r) /\ SavedRow(r) # NoRow
      /\ \A e \in Devices \ {r.dev} : rows'[e] = rows[e] /\ Addr(e)' = Addr(e)
      /\ \A e \in Devices : Fix(e)' = Fix(e)
  BY <1>0, <1>1, RecordTypes, NullAssumption DEF TypeOK, Addr, Fix, NullAssumption
<1>5. /\ r.op = "name" => /\ SavedRow(r).mode = r.row.mode /\ SavedRow(r).addr = r.row.addr
                          /\ SavedRow(r).fixed = r.row.fixed
      /\ r.op = "address" => /\ SavedRow(r).mode = r.mode /\ SavedRow(r).addr = r.addr
                             /\ SavedRow(r).fixed = (r.mode = "reserved")
      /\ r.op \in {"name", "address"} /\ r.row # NoRow
  BY NullAssumption DEF SavedRow, Request, Row, NullAssumption
<1>6. ReservedIsFixed'
  <2>1. SavedRow(r).mode = "reserved" => SavedRow(r).fixed
    <3>1. r.row.mode = "reserved" => r.row.fixed
      BY <1>0, <1>5 DEF ReservedIsFixed
    <3>2. CASE r.op = "name"
      BY <1>5, <3>1, <3>2
    <3>3. CASE r.op = "address"
      BY <1>5, <3>3
    <3>4. QED
      BY <1>5, <3>2, <3>3
  <2>2. QED
    BY <1>1, <1>4, <2>1 DEF ReservedIsFixed, cycle
<1>7. RowsDistinct'
  <2>1. Addr(r.dev)' = IF r.op = "name" THEN Addr(r.dev) ELSE r.addr
    BY <1>0, <1>4, <1>5 DEF Addr
  <2>2. ASSUME r.op = "address", r.addr # NoIP, NEW e \in Devices, e # r.dev
        PROVE Addr(e) # r.addr
    <3>1. ~InUse(r.dev, r.addr)
      BY <1>0, <2>2 DEF RequestInv
    <3>2. QED
      BY <2>2, <3>1 DEF InUse, Addr
  <2>3. QED
    BY <1>1, <1>4, <1>5, <2>1, <2>2 DEF RowsDistinct
<1>8. FixKnown'
  <2> SUFFICES ASSUME NEW e \in Devices \ untold, Fix(e) # NoIP
               PROVE rows'[e] # NoRow /\ rows'[e].mode = "reserved" /\ rows'[e].addr = Fix(e)
    BY <1>1, <1>4 DEF FixKnown
  <2>1. CASE e # r.dev
    BY <1>2, <1>4, <2>1
  <2>2. CASE e = r.dev /\ r.op = "address"
    <3>1. r.mode = "reserved" /\ Fix(e) = r.addr
      BY <1>0, <1>1, <2>2 DEF RequestInv
    <3>2. QED
      BY <1>4, <1>5, <2>2, <3>1
  <2>3. CASE e = r.dev /\ r.op = "name"
    <3>1. ~Setting(e)
      BY <1>0, <1>2, <2>3 DEF Setting
    <3>2. QED
      BY <1>0, <1>4, <1>5, <2>3, <3>1 DEF FixKnown
  <2>4. QED
    BY <1>5, <2>1, <2>2, <2>3
<1>9. QED
  BY <1>3, <1>6, <1>7, <1>8

(* What a request leaves half done, netreg was not told of.                *)
LEMMA AbandonStep ==
    ASSUME AddressInv, TypeOK', Apart', UNCHANGED <<rows, console>>,
           NEW gone \in SUBSET Admins,
           req' = [b \in Admins |-> IF b \in gone THEN Idle ELSE req[b]],
           untold' = untold \cup
               UNION {Untold(req[b].dev, console[req[b].dev]) : b \in {c \in gone : req[c] # Idle}},
           UNCHANGED cycle \/ (phase' = "idle" /\ copy' = Nothing)
    PROVE  AddressInv'
<1> USE DEF AddressInv
<1>1. /\ untold \subseteq untold'
      /\ \A e \in Devices : Fix(e)' = Fix(e) /\ Addr(e)' = Addr(e)
  BY DEF Fix, Addr
<1>2. RowsDistinct' /\ ReservedIsFixed' /\ RequestInv'
  <2>1. RowsDistinct' /\ ReservedIsFixed'
    BY <1>1 DEF RowsDistinct, ReservedIsFixed, Nothing, cycle
  <2>2. \A d \in Devices, ip \in AnyIP : InUse(d, ip)' = InUse(d, ip)
    BY DEF InUse
  <2>3. \A b \in Admins : req'[b] # Idle =>
           req'[b] = req[b] /\ req[b].dev \in Devices /\ req[b].addr \in AnyIP
    BY DEF TypeOK, Request
  <2>4. RequestInv'
    BY <1>1, <2>2, <2>3 DEF RequestInv
  <2>5. QED
    BY <2>1, <2>4
<1>3. ReportInv' /\ CopyInv'
  BY <1>1 DEF ReportInv, CopyInv, Knows, Nothing, cycle
<1>4. FixKnown'
  <2> SUFFICES ASSUME NEW e \in Devices \ untold', Fix(e) # NoIP, ~Setting(e)'
               PROVE rows[e] # NoRow /\ rows[e].mode = "reserved" /\ rows[e].addr = Fix(e)
    BY <1>1 DEF FixKnown
  <2>1. CASE Setting(e)
    <3>1. PICK b \in gone : req[b] # Idle /\ req[b].dev = e
      BY <1>1, <2>1 DEF Setting
    <3>2. e \notin Untold(e, console[e])
      BY <3>1
    <3>3. QED
      BY <3>2 DEF Untold, Knows, Fix
  <2>2. CASE ~Setting(e)
    BY <1>1, <2>2 DEF FixKnown
  <2>3. QED
    BY <2>1, <2>2
<1>5. QED
  BY <1>2, <1>3, <1>4

(* Every step keeps the invariant.                                         *)
LEMMA NextAddressInv ==
    ASSUME AddressInv, [Next]_vars, OneAdmin, ~Overlap
    PROVE  AddressInv'
<1>1. TypeOK' /\ Apart'
  BY NextType, NextApart DEF AddressInv
<1>2. CASE Cycle
  BY <1>1, <1>2, CycleStep
<1>3. ASSUME NEW a \in Admins, Handle(a) PROVE AddressInv'
  <2>1. ASSUME NEW d \in Devices, NEW mode \in Modes, NEW ip \in AnyIP, SetAddressing(a, d, mode, ip)
        PROVE AddressInv'
    <3>1. rows[d] \in Row /\ rows = [rows EXCEPT ![d] = rows[d]]
      BY <2>1 DEF SetAddressing, AddressInv, TypeOK
    <3>2. Submit(a, "address", d, rows[d], mode, ip, [rows EXCEPT ![d] = rows[d]])
      BY <2>1, <3>1 DEF SetAddressing
    <3>3. QED
      BY <1>1, <2>1, <3>1, <3>2, SubmitStep DEF SetAddressing
  <2>2. ASSUME NEW d \in Devices, NEW mode \in Modes, NEW ip \in AnyIP, Register(a, d, mode, ip)
        PROVE AddressInv'
    <3> DEFINE row == IF rows[d] = NoRow THEN NewRow ELSE rows[d]
               table == [rows EXCEPT ![d] = row]
    <3>1. row \in Row
      BY RecordTypes DEF AddressInv, TypeOK
    <3>2. CASE Submit(a, "address", d, row, mode, ip, table)
      BY <1>1, <2>2, <3>1, <3>2, SubmitStep DEF Register
    <3>3. CASE rows' = table /\ UNCHANGED <<console, untold, cycle, req, calm>>
               /\ req[a] = Idle /\ phase = "idle"
      <4> USE DEF AddressInv
      <4>1. /\ rows'[d] = row /\ \A e \in Devices \ {d} : rows'[e] = rows[e]
            /\ \A b \in Admins : b = a
        BY <3>3 DEF TypeOK, OneAdmin
      <4>2. \A e \in Devices : Addr(e)' = Addr(e) /\ Fix(e)' = Fix(e)
        BY <3>3, <4>1, NullAssumption DEF Addr, Fix, NewRow, NullAssumption
      <4>3. (RowsDistinct /\ ReservedIsFixed)'
        BY <3>3, <4>1, <4>2 DEF RowsDistinct, ReservedIsFixed, NewRow, cycle
      <4>4. RequestInv' /\ CopyInv' /\ ReportInv'
        BY <1>1, <3>3, <4>1, NoCycle DEF RequestInv, CopyInv, cycle
      <4>5. FixKnown'
        <5> SUFFICES ASSUME NEW e \in Devices \ untold, Fix(e) # NoIP
                     PROVE rows'[e] # NoRow /\ rows'[e].mode = "reserved" /\ rows'[e].addr = Fix(e)
          BY <3>3, <4>2 DEF FixKnown
        <5>1. rows[e] # NoRow /\ rows[e].mode = "reserved" /\ rows[e].addr = Fix(e)
          BY <3>3, <4>1 DEF FixKnown, Setting
        <5>2. QED
          BY <4>1, <5>1
      <4>6. QED
        BY <1>1, <4>3, <4>4, <4>5
    <3>4. QED
      BY <2>2, <3>2, <3>3 DEF Register
  <2>3. ASSUME NEW d \in Named, PushName(a, d) PROVE AddressInv'
    <3>1. /\ d \in Devices /\ rows[d] \in Row /\ rows[d] # NoRow
          /\ rows = [rows EXCEPT ![d] = rows[d]]
      BY <2>3, AddressingAssumption DEF PushName, AddressInv, TypeOK, AddressingAssumption
    <3>2. rows[d].mode \in Modes /\ rows[d].addr \in AnyIP
      BY <3>1 DEF Row
    <3>3. Submit(a, "name", d, rows[d], rows[d].mode, rows[d].addr, [rows EXCEPT ![d] = rows[d]])
      BY <2>3, <3>1 DEF PushName
    <3>4. QED
      BY <1>1, <3>1, <3>2, <3>3, SubmitStep
  <2>4. CASE SaveFails(a)
    <3>1. req' = [b \in Admins |-> IF b \in {a} THEN Idle ELSE req[b]]
      BY <2>4 DEF SaveFails, Ends, AddressInv, TypeOK
    <3>2. UNION {Untold(req[b].dev, console[req[b].dev]) : b \in {c \in {a} : req[c] # Idle}}
              = Untold(req[a].dev, console[req[a].dev])
      BY <2>4 DEF SaveFails
    <3>3. QED
      BY <1>1, <2>4, <3>1, <3>2, AbandonStep DEF SaveFails
  <2>5. QED
    BY <1>1, <1>3, <2>1, <2>2, <2>3, <2>4, UserIDStep, WriteUserStep, SaveStep DEF Handle
<1>4. ASSUME NEW d \in Devices, World(d) PROVE AddressInv'
  <2>1. untold \subseteq untold' /\ \A e \in Devices \ untold' : Fix(e)' \in {Fix(e), NoIP}
    BY <1>4, RecordTypes, NullAssumption
    DEF World, Connect, FixThere, RemoveThere, Changes, Fix, NewClient, AddressInv, TypeOK,
        Client, NullAssumption
  <2>2. QED
    BY <1>1, <1>4, <2>1, WorldStep, WorldLeavesRows DEF cycle
<1>5. CASE Crash
  <2>1. /\ req' = [b \in Admins |-> IF b \in Admins THEN Idle ELSE req[b]]
        /\ untold' = untold \cup
              UNION {Untold(req[b].dev, console[req[b].dev]) : b \in {c \in Admins : req[c] # Idle}}
        /\ phase' = "idle" /\ copy' = Nothing /\ UNCHANGED <<rows, console>>
    BY <1>5 DEF Crash, EndCycle
  <2>2. QED
    BY <1>1, <2>1, AbandonStep
<1>6. CASE CalmDown \/ UNCHANGED vars
  <2>1. UNCHANGED <<rows, console, untold, req, cycle>>
    BY <1>6 DEF CalmDown, vars
  <2>2. \A e \in Devices : Fix(e)' = Fix(e)
    BY <2>1 DEF Fix
  <2>3. QED
    BY <1>1, <2>1, <2>2, WorldStep
<1>7. QED
  BY <1>2, <1>3, <1>4, <1>5, <1>6 DEF Next

(* At first nothing is reserved, requested or copied.                      *)
LEMMA InitAddressInv == Init => AddressInv
<1> SUFFICES ASSUME Init PROVE AddressInv
  OBVIOUS
<1>1. TypeOK
  BY InitType
<1>2. \A d \in Devices : rows[d] = NoRow /\ console[d] = NoRow /\ copy[d] = NoRow
  BY DEF Init, Nothing
<1>3. \A a \in Admins : req[a] = Idle
  BY DEF Init
<1>4. QED
  BY <1>1, <1>2, <1>3
  DEF Init, AddressInv, Apart, ReservedIsFixed, FixKnown, RequestInv, ReportInv, CopyInv,
      RowsDistinct, Fix, Addr

(* One admin at a time, apart from cycles: every reservation that netreg   *)
(* was told of is the one its row names, whatever is lost, fails or        *)
(* crashes, and whatever people do on the console.                         *)
THEOREM ReservationsStayKnown ==
    ASSUME OneAdmin, ~Overlap
    PROVE  Spec => []ReservationsKnown
<1>1. AddressInv => ReservationsKnown
  <2> SUFFICES ASSUME AddressInv, Quiet, NEW d \in Devices \ untold,
                      console[d] # NoRow, console[d].fix # NoIP
               PROVE Knows(rows[d], console[d])
    BY DEF ReservationsKnown
  <2>1. QED
    BY DEF AddressInv, FixKnown, Setting, Quiet, Knows, Fix
<1>2. QED
  BY <1>1, InitAddressInv, NextAddressInv, PTL DEF Spec

(* One admin at a time, apart from cycles: no address is ever assigned to  *)
(* two devices, in the table or on the console.                            *)
THEOREM AddressesStayDistinct ==
    ASSUME OneAdmin, ~Overlap
    PROVE  Spec => []AddressesDistinct
<1>1. AddressInv => AddressesDistinct
  <2> SUFFICES ASSUME AddressInv PROVE AddressesDistinct
    OBVIOUS
  <2> USE DEF AddressInv
  <2>1. \A d \in Devices : Claims(d) = {Addr(d), Fix(d)} \ {NoIP}
    BY DEF Claims, Addr, Fix
  <2>2. ASSUME NEW d \in Devices \ untold, NEW e \in Devices \ untold, d # e, Fix(d) # NoIP
        PROVE  Fix(d) # Addr(e)
    <3>1. CASE Fix(d) = Addr(d)
      BY <2>2, <3>1 DEF RowsDistinct
    <3>2. CASE Setting(d)
      <4>1. PICK a \in Admins : /\ req[a] # Idle /\ req[a].dev = d /\ req[a].op = "address"
                                /\ req[a].mode = "reserved" /\ req[a].addr = Fix(d)
        BY <3>2 DEF Setting
      <4>2. ~InUse(d, Fix(d))
        BY <4>1 DEF RequestInv
      <4>3. QED
        BY <2>2, <4>2 DEF InUse, Addr
    <3>3. QED
      BY <2>2, <3>1, <3>2 DEF FixKnown, Addr
  <2>3. ASSUME NEW d \in Devices \ untold, NEW e \in Devices \ untold, d # e, Fix(d) # NoIP
        PROVE  Fix(d) # Fix(e)
    <3>1. CASE Fix(e) = Addr(e)
      BY <2>2, <2>3, <3>1
    <3>2. CASE Fix(d) = Addr(d)
      BY <2>2, <2>3, <3>2
    <3>3. CASE Setting(d) /\ Setting(e)
      BY <2>3, <3>3 DEF Setting, OneAdmin
    <3>4. QED
      BY <2>3, <3>1, <3>2, <3>3 DEF FixKnown, Addr
  <2>4. QED
    BY <2>1, <2>2, <2>3 DEF AddressesDistinct, RowsDistinct
<1>2. QED
  BY <1>1, InitAddressInv, NextAddressInv, PTL DEF Spec
=============================================================================
