-------------------------- MODULE DashboardProofs ---------------------------
(***************************************************************************)
(* Proofs about Dashboard and Convergence: admins edit devices beside the  *)
(* engine, for any number of devices, names, zones and addresses.          *)
(***************************************************************************)
EXTENDS Convergence, DeviceMarksProofs

-----------------------------------------------------------------------------
(* Type correctness.                                                       *)

(* A request that will save or delete a row has one.                       *)
Carries(r) == r.op # "leave" /\ ~(r.op = "join" /\ r.step = "load")

RequestInv == \A h \in Admins : req[h] # Idle /\ Carries(req[h]) => req[h].row \in Row

DashboardInv == TypeInv /\ req \in [Admins -> Request \cup {Idle}] /\ RequestInv

(* A handler's step leaves the engine alone.                               *)
LEMMA TableEdit ==
    ASSUME TypeInv, UNCHANGED engine,
           rows' \in [MACs -> Row \cup {NoRow}], made' \in [MACs -> Nat],
           members' \subseteq MACs, dns' \subseteq Record
    PROVE  TypeInv'
  BY DEF TypeInv, TypeOK, InPass, engine, pass

(* What Load puts in a request is a row.                                   *)
LEMMA EditedType ==
    ASSUME NEW m \in MACs, NEW row \in Row,
           NEW op \in {"rename", "exclude", "touch", "address", "forget"},
           NEW new \in Edited(op, m, row)
    PROVE  new \in Row
<1>1. CASE op = "rename"
  <2>1. PICK n \in AnyName : new = [row EXCEPT !.override = n, !.synced = FALSE]
    BY <1>1 DEF Edited, Renamed
  <2>2. QED
    BY <2>1 DEF Row
<1>2. CASE op = "exclude"
  <2>1. PICK e \in BOOLEAN : new = [row EXCEPT !.excluded = e]
    BY <1>2 DEF Edited, Toggled
  <2>2. QED
    BY <2>1 DEF Row
<1>3. CASE op = "address"
  <2>1. PICK ip \in AnyIP : new = [row EXCEPT !.static = ip]
    BY <1>3, NamingAssumption DEF NamingAssumption, Edited, Readdressed, AnyIP
  <2>2. QED
    BY <2>1 DEF Row
<1>4. CASE op \in {"touch", "forget"}
  BY <1>4 DEF Edited
<1>5. QED
  BY <1>1, <1>2, <1>3, <1>4

(* registerDevice writes a row.                                            *)
LEMMA RegistrationType ==
    ASSUME rows \in [MACs -> Row \cup {NoRow}], made \in [MACs -> Nat],
           NEW m \in MACs, NEW name \in Names, NEW pin \in AnyZone
    PROVE  Registration(m, name, pin) \in Row
<1>1. name \in Labels /\ name \in AnyName
  BY DEF Labels, AnyName
<1>2. CASE rows[m] = NoRow
  BY <1>1, <1>2 DEF Registration, Row, AnyZone, AnyIP
<1>3. CASE rows[m] # NoRow
  <2>1. rows[m] \in Row
    BY <1>3
  <2>2. Registration(m, name, pin) = [rows[m] EXCEPT !.override = name, !.pin = pin, !.excluded = FALSE]
    BY <1>3 DEF Registration
  <2>3. QED
    BY <1>1, <2>1, <2>2 DEF Row
<1>4. QED
  BY <1>2, <1>3

(* Taking a record down leaves records.                                    *)
LEMMA TakeDownType ==
    ASSUME dns \subseteq Record, NEW m \in MACs, NEW row \in Row, TakeDown(m, row)
    PROVE  dns' \subseteq Record
<1> DEFINE ch == [Delete(m, row) EXCEPT !.oldHost = Effective(row)]
<1>1. Effective(row) \in Labels
  BY DEF Effective, Row, AnyName, Labels
<1>2. ch \in Change
  BY <1>1 DEF Delete, Change, Row
<1> HIDE DEF ch
<1>3. Succeeded(dns, ch) \cup (IF MayFail THEN Failed(dns, ch) ELSE {}) \in SUBSET SUBSET Record
  BY <1>2, CallType
<1>4. QED
  BY <1>3 DEF TakeDown, ch

(* What a request becomes, or an answered one.                             *)
LEMMA RequestEdit ==
    ASSUME req \in [Admins -> Request \cup {Idle}], RequestInv, NEW h \in Admins, NEW r,
           req' = [req EXCEPT ![h] = r],
           r = Idle \/ (r \in Request /\ (Carries(r) => r.row \in Row))
    PROVE  req' \in [Admins -> Request \cup {Idle}] /\ RequestInv'
<1>1. \A g \in Admins : req'[g] = IF g = h THEN r ELSE req[g]
  OBVIOUS
<1>2. ASSUME NEW g \in Admins, req'[g] # Idle, Carries(req'[g]) PROVE req'[g].row \in Row
  BY <1>1, <1>2 DEF RequestInv
<1>3. QED
  BY <1>2 DEF RequestInv

(* Advancing a request keeps what it is about.                             *)
LEMMA AdvanceType ==
    ASSUME req \in [Admins -> Request \cup {Idle}], RequestInv, NEW h \in Admins, req[h] # Idle,
           NEW row \in Row, NEW step \in {"load", "dns", "save"}, Advance(h, row, step)
    PROVE  req' \in [Admins -> Request \cup {Idle}] /\ RequestInv'
<1>1. PICK r : r = [[req[h] EXCEPT !.row = row] EXCEPT !.step = step]
  OBVIOUS
<1>2. req[h] \in Request
  OBVIOUS
<1>3. r \in Request /\ r.row \in Row
  BY <1>1, <1>2 DEF Request
<1>4. req' = [req EXCEPT ![h] = r]
  BY <1>1, <1>2 DEF Advance, Request
<1>5. QED
  BY <1>3, <1>4, RequestEdit

(* An answered request is Idle.                                            *)
LEMMA AnswerType ==
    ASSUME req \in [Admins -> Request \cup {Idle}], RequestInv, NEW h \in Admins, Answer(h)
    PROVE  req' \in [Admins -> Request \cup {Idle}] /\ RequestInv'
<1>1. \A g \in Admins : req'[g] = IF g = h THEN Idle ELSE req[g]
  BY DEF Answer
<1>2. req' \in [Admins -> Request \cup {Idle}]
  BY DEF Answer
<1>3. RequestInv'
  BY <1>1 DEF RequestInv
<1>4. QED
  BY <1>2, <1>3

(* A handler's step keeps the types: one case per action of Admin.         *)
LEMMA AdminType ==
    ASSUME DashboardInv, NEW h \in Admins, Admin(h)
    PROVE  DashboardInv'
<1>0. /\ rows \in [MACs -> Row \cup {NoRow}] /\ made \in [MACs -> Nat] /\ members \subseteq MACs
      /\ dns \subseteq Record /\ TypeInv /\ req \in [Admins -> Request \cup {Idle}] /\ RequestInv
      /\ Editable \subseteq MACs /\ Ops \subseteq AllOps
  BY DashboardAssumption DEF DashboardAssumption, DashboardInv, TypeInv, TypeOK
<1>1. ASSUME UNCHANGED vars PROVE TypeInv'
  BY <1>0, <1>1, TableEdit DEF vars, table
<1>2. ASSUME NEW m \in Editable, NEW op \in Ops, Load(h, op, m) PROVE DashboardInv'
  <2>1. op \in {"rename", "exclude", "touch", "address", "forget"} /\ rows[m] \in Row /\ m \in MACs
        /\ UNCHANGED vars
    BY <1>0, <1>2 DEF Load
  <2>2. PICK row \in Edited(op, m, rows[m]) :
            req' = [req EXCEPT ![h] = [op |-> op, mac |-> m, row |-> row,
                                       step |-> IF op = "forget" THEN "dns" ELSE "save"]]
    BY <1>2 DEF Load
  <2>3. row \in Row
    BY <2>1, EditedType
  <2>4. PICK r : r = [op |-> op, mac |-> m, row |-> row,
                      step |-> IF op = "forget" THEN "dns" ELSE "save"]
    OBVIOUS
  <2>5. r \in Request /\ r.row \in Row
    BY <1>0, <2>1, <2>3, <2>4 DEF Request
  <2>6. req' \in [Admins -> Request \cup {Idle}] /\ RequestInv'
    BY <1>0, <2>2, <2>4, <2>5, RequestEdit
  <2>7. QED
    BY <1>1, <2>1, <2>6 DEF DashboardInv
<1>3. ASSUME NEW m \in Editable, NEW name \in Names, NEW pin \in AnyZone, Register(h, m, name, pin)
      PROVE  DashboardInv'
  <2>1. Registration(m, name, pin) \in Row /\ m \in MACs
    BY <1>0, RegistrationType
  <2>2. /\ rows' \in [MACs -> Row \cup {NoRow}] /\ made' \in [MACs -> Nat]
        /\ UNCHANGED <<members, dns, engine, req>>
    BY <1>0, <1>3, <2>1 DEF Register
  <2>3. TypeInv'
    BY <1>0, <2>2, TableEdit
  <2>4. QED
    BY <1>0, <2>2, <2>3 DEF DashboardInv, RequestInv
<1>4. ASSUME NEW m \in Editable, Join(h, m) \/ Leave(h, m) PROVE DashboardInv'
  <2>1. PICK r \in Request :
            ~Carries(r) /\ req' = [req EXCEPT ![h] = r]
    <3>1. \/ req' = [req EXCEPT ![h] = [op |-> "join", mac |-> m, row |-> NoRow, step |-> "load"]]
          \/ req' = [req EXCEPT ![h] = [op |-> "leave", mac |-> m, row |-> NoRow, step |-> "save"]]
      BY <1>4 DEF Join, Leave
    <3>2. /\ [op |-> "join", mac |-> m, row |-> NoRow, step |-> "load"] \in Request
          /\ [op |-> "leave", mac |-> m, row |-> NoRow, step |-> "save"] \in Request
      BY <1>0 DEF Request, AllOps
    <3>3. QED
      BY <3>1, <3>2 DEF Carries
  <2>2. req' \in [Admins -> Request \cup {Idle}] /\ RequestInv'
    BY <1>0, <2>1, RequestEdit
  <2>3. UNCHANGED <<rows, made, dns, engine>> /\ members' \subseteq MACs
    BY <1>0, <1>4 DEF Join, Leave
  <2>4. QED
    BY <1>0, <2>2, <2>3, TableEdit DEF DashboardInv
<1>5. CASE Store(h) \/ Erase(h) \/ LeaveUnlinks(h)
  <2>1. PICK r \in Request : r = req[h] /\ r.mac \in MACs /\ (Carries(r) => r.row \in Row)
    BY <1>0, <1>5 DEF Store, Erase, LeaveUnlinks, Working, RequestInv, Request
  <2>2. Answer(h) /\ UNCHANGED <<made, members, dns, engine>>
    BY <1>5 DEF Store, Erase, LeaveUnlinks
  <2>3. rows' \in [MACs -> Row \cup {NoRow}]
    <3>1. CASE Store(h)
      <4>1. r.row \in Row
        BY <2>1, <3>1 DEF Store, Carries
      <4>2. QED
        BY <1>0, <2>1, <3>1, <4>1 DEF Store
    <3>2. CASE Erase(h)
      BY <1>0, <2>1, <3>2 DEF Erase
    <3>3. CASE LeaveUnlinks(h)
      <4>1. rows[r.mac] # NoRow => [rows[r.mac] EXCEPT !.joined = FALSE] \in Row
        <5>1. \A row \in Row : [row EXCEPT !.joined = FALSE] \in Row
          BY DEF Row
        <5>2. QED
          BY <1>0, <2>1, <5>1
      <4>2. rows' = rows \/ (rows[r.mac] # NoRow
                             /\ rows' = [rows EXCEPT ![r.mac] = [rows[r.mac] EXCEPT !.joined = FALSE]])
        BY <1>0, <2>1, <3>3 DEF LeaveUnlinks
      <4>3. QED
        BY <1>0, <2>1, <4>1, <4>2
    <3>4. QED
      BY <1>5, <3>1, <3>2, <3>3
  <2>4. QED
    BY <1>0, <2>2, <2>3, TableEdit, AnswerType DEF DashboardInv
<1>6. CASE ForgetTakesDown(h)
  <2>1. req[h] # Idle /\ req[h].mac \in MACs /\ req[h].row \in Row
    BY <1>0, <1>6 DEF ForgetTakesDown, Working, RequestInv, Carries, Request
  <2>2. dns' \subseteq Record /\ UNCHANGED <<table, engine>>
    BY <1>0, <1>6, <2>1, TakeDownType DEF ForgetTakesDown
  <2>3. TypeInv'
    BY <1>0, <2>2, TableEdit DEF table
  <2>4. QED
    BY <1>0, <1>6, <2>1, <2>3, AdvanceType DEF ForgetTakesDown, DashboardInv
<1>7. CASE JoinLoads(h)
  <2>1. req[h] # Idle /\ req[h].mac \in MACs /\ UNCHANGED vars
    BY <1>0, <1>7 DEF JoinLoads, Working, Request
  <2>2. Answer(h) \/ (rows[req[h].mac] \in Row /\ Advance(h, rows[req[h].mac], "dns"))
    BY <1>0, <1>7, <2>1 DEF JoinLoads
  <2>3. req' \in [Admins -> Request \cup {Idle}] /\ RequestInv'
    BY <1>0, <2>1, <2>2, AnswerType, AdvanceType
  <2>4. QED
    BY <1>1, <2>1, <2>3 DEF DashboardInv
<1>8. CASE JoinTakesDown(h)
  <2>1. req[h] # Idle /\ req[h].mac \in MACs /\ req[h].row \in Row
    BY <1>0, <1>8 DEF JoinTakesDown, Working, RequestInv, Carries, Request
  <2>2. PICK row : row = req[h].row
    OBVIOUS
  <2>3. UNCHANGED <<table, engine>> /\ (TakeDown(req[h].mac, row) \/ UNCHANGED dns)
    BY <1>8, <2>2 DEF JoinTakesDown
  <2>4. PICK cleared \in BOOLEAN :
            \/ Advance(h, [row EXCEPT !.joined = TRUE, !.synced = @ /\ ~cleared], "save")
            \/ Advance(h, [row EXCEPT !.joined = TRUE], "save")
    <3>1. (row.synced /\ ~row.excluded /\ row.zone # NoZone) \in BOOLEAN
      OBVIOUS
    <3>2. QED
      BY <1>8, <2>2, <3>1 DEF JoinTakesDown
  <2>5. /\ [row EXCEPT !.joined = TRUE, !.synced = @ /\ ~cleared] \in Row
        /\ [row EXCEPT !.joined = TRUE] \in Row
    BY <2>1, <2>2 DEF Row
  <2>6. req' \in [Admins -> Request \cup {Idle}] /\ RequestInv'
    BY <1>0, <2>1, <2>4, <2>5, AdvanceType
  <2>7. dns' \subseteq Record
    BY <1>0, <2>1, <2>2, <2>3, TakeDownType
  <2>8. TypeInv'
    BY <1>0, <2>3, <2>7, TableEdit DEF table
  <2>9. QED
    BY <2>6, <2>8 DEF DashboardInv
<1>9. QED
  BY <1>2, <1>3, <1>4, <1>5, <1>6, <1>7, <1>8 DEF Admin

(* Every step keeps the types: a cycle's, a crash or a handler's.          *)
LEMMA NextDashboard == DashboardInv /\ [NextD]_dvars => DashboardInv'
<1> SUFFICES ASSUME DashboardInv, [NextD]_dvars PROVE DashboardInv'
  OBVIOUS
<1>1. ASSUME [Next]_vars PROVE TypeInv'
  BY <1>1, NextTypeInv DEF DashboardInv
<1>2. CASE Cycle /\ UNCHANGED req
  BY <1>1, <1>2 DEF Next, DashboardInv, RequestInv
<1>3. CASE Crash /\ req' = [h \in Admins |-> Idle]
  BY <1>1, <1>3 DEF Next, DashboardInv, RequestInv
<1>4. ASSUME NEW h \in Admins, Admin(h) PROVE DashboardInv'
  BY <1>4, AdminType
<1>5. CASE UNCHANGED dvars
  BY <1>1, <1>5 DEF dvars, DashboardInv, RequestInv
<1>6. QED
  BY <1>2, <1>3, <1>4, <1>5 DEF NextD

(* Whatever admins and cycles do at the same time, calls failing and the   *)
(* process crashing included, tables and requests keep their types: a      *)
(* handler never saves what is not a row (handlers.go, db.Save of a copy). *)
THEOREM DashboardTypeCorrect == SpecD => []DashboardTypeOK
<1>1. InitD => DashboardInv
  BY InitTypeInv DEF InitD, DashboardInv, RequestInv
<1>2. DashboardInv => DashboardTypeOK
  BY DEF DashboardInv, DashboardTypeOK, TypeInv
<1>3. QED
  BY <1>1, <1>2, NextDashboard, PTL DEF SpecD

-----------------------------------------------------------------------------
(* What holds of Dashboard holds of Convergence.                           *)

(* Once it is calm nobody edits, and what is reported is a report.         *)
CalmInv == calm => AllIdle /\ \A c \in Controllers : last[c] \in Reports(c)

(* A cycle in calm conditions is a cycle.                                  *)
LEMMA CalmCycles ==
    ASSUME CalmInv, calm, CalmCycle
    PROVE  Cycle
<1>1. ASSUME NEW c \in Controllers, Fetch(c, last[c])
      PROVE  \E reported \in Reports(c) : Fetch(c, reported)
  BY <1>1 DEF CalmInv
<1>2. ASSUME Apply(~Refused(dns, Head(changes))) PROVE \E ok \in BOOLEAN : Apply(ok)
  <2>1. (~Refused(dns, Head(changes))) \in BOOLEAN
    OBVIOUS
  <2>2. QED
    BY <1>2, <2>1, Zenon
<1>3. QED
  BY <1>1, <1>2 DEF CalmCycle, Cycle

(* Every step of Convergence is one of Dashboard, or changes nothing there.*)
LEMMA CalmStep ==
    ASSUME CalmInv, [NextC]_cvars
    PROVE  CalmInv' /\ [NextD]_dvars
<1>1. CASE ~calm /\ NextD /\ UNCHANGED <<calm, last>>
  BY <1>1 DEF CalmInv
<1>2. CASE CalmDown
  <2>1. UNCHANGED dvars /\ AllIdle /\ last' \in Calms
    BY <1>2 DEF CalmDown
  <2>2. AllIdle'
    BY <2>1 DEF AllIdle, dvars
  <2>3. QED
    BY <2>1, <2>2, CalmAssumption DEF CalmAssumption, CalmInv
<1>3. CASE calm /\ CalmCycle /\ UNCHANGED <<req, calm, last>>
  <2>1. AllIdle /\ Cycle
    BY <1>3, CalmCycles DEF CalmInv
  <2>2. CalmInv'
    BY <1>3 DEF CalmInv, AllIdle
  <2>3. QED
    BY <1>3, <2>1, <2>2 DEF NextD
<1>4. CASE UNCHANGED cvars
  BY <1>4 DEF cvars, dvars, CalmInv, AllIdle
<1>5. QED
  BY <1>1, <1>2, <1>3, <1>4 DEF NextC

(* The conditions under which the cycles are to settle are conditions the  *)
(* dashboard and the engine can meet: what is proved of SpecD holds of     *)
(* every behaviour the runs of Convergence explore.                        *)
THEOREM ConvergenceIsDashboard == ConvergeSpec => SpecD
<1>1. InitC => InitD /\ CalmInv
  BY DEF InitC, CalmInv
<1>2. CalmInv /\ [NextC]_cvars => CalmInv' /\ [NextD]_dvars
  BY CalmStep
<1>3. QED
  BY <1>1, <1>2, PTL DEF ConvergeSpec, SpecD

-----------------------------------------------------------------------------
(* Unique names, though admins edit.                                       *)

(* Who claims which name: a row of the table, or a handler's copy of one.  *)
ClaimOf(m, row) ==
    [mac |-> m, ctrl |-> row.ctrl, host |-> row.host, zone |-> row.zone, excluded |-> row.excluded]

Copying(h) == req[h] # Idle /\ Carries(req[h])

Held ==
    {ClaimOf(m, rows[m]) : m \in {k \in MACs : rows[k] # NoRow}}
        \cup {ClaimOf(req[h].mac, req[h].row) : h \in {g \in Admins : Copying(g)}}

HeldInv ==
    /\ \A p \in Held :
          (p.ctrl \in Controllers \/ p.zone = NoZone) /\ OwnLabel(p.host, p.mac)
    /\ \A p, q \in Held :
          /\ p.mac # q.mac /\ ~p.excluded /\ ~q.excluded
          /\ p.zone = q.zone /\ p.zone # NoZone
          => p.host # q.host

(* Devices that nobody but an admin excludes are in: registering one then  *)
(* claims no name that its row did not claim before.                       *)
OpenInv ==
    \A m \in Editable :
        \A row \in {rows[m], found[m], result[m]} : row # NoRow => ~row.excluded

HeldOpen == \A p \in Held : p.mac \in Editable => ~p.excluded

(* Requests and cycles take turns.                                         *)
Turns == phase # "idle" => AllIdle

EditInv ==
    /\ DashboardInv /\ Turns /\ NamesInv /\ HeldInv
    /\ "register" \in Ops => OpenInv /\ HeldOpen

(* These handlers leave the name, the zone and the owner of a row alone.   *)
Harmless == {"touch", "rename", "address", "register", "forget", "join", "leave"}

(* Registering a device includes it; the devices concerned are those that  *)
(* the engine does not exclude by itself.                                  *)
PublicOnly == "register" \in Ops => Private \cap Editable = {}

(* Between cycles the claims of the table are names like any others.       *)
LEMMA HeldNames ==
    ASSUME HeldInv, TypeInv, phase = "idle"
    PROVE  NamesInv
<1>1. \A m \in MACs : rows[m] # NoRow => ClaimOf(m, rows[m]) \in Held
  BY DEF Held
<1>2. Named(rows)
  BY <1>1 DEF HeldInv, Named, ClaimOf
<1>3. NamesUnique
  BY <1>1 DEF HeldInv, NamesUnique, ClaimOf
<1>4. Named(result)
  BY DEF TypeInv, InPass, Named, Nothing
<1>5. QED
  BY <1>2, <1>3, <1>4 DEF NamesInv

(* Without requests the claims are those of the table.                     *)
LEMMA TableHeld ==
    ASSUME NamesInv, AllIdle
    PROVE  HeldInv
<1>1. ASSUME NEW p \in Held PROVE \E m \in MACs : rows[m] # NoRow /\ p = ClaimOf(m, rows[m])
  BY DEF Held, AllIdle, Copying
<1>2. ASSUME NEW p \in Held
      PROVE  (p.ctrl \in Controllers \/ p.zone = NoZone) /\ OwnLabel(p.host, p.mac)
  <2>1. PICK m \in MACs : rows[m] # NoRow /\ p = ClaimOf(m, rows[m])
    BY <1>1
  <2>2. QED
    BY <2>1 DEF NamesInv, Named, ClaimOf
<1>3. ASSUME NEW p \in Held, NEW q \in Held,
             p.mac # q.mac, ~p.excluded, ~q.excluded, p.zone = q.zone, p.zone # NoZone
      PROVE  p.host # q.host
  <2>1. PICK m \in MACs : rows[m] # NoRow /\ p = ClaimOf(m, rows[m])
    BY <1>1
  <2>2. PICK o \in MACs : rows[o] # NoRow /\ q = ClaimOf(o, rows[o])
    BY <1>1
  <2>3. QED
    BY <1>3, <2>1, <2>2 DEF NamesInv, NamesUnique, ClaimOf
<1>4. QED
  BY <1>2, <1>3 DEF HeldInv

(* And who is in, is in.                                                   *)
LEMMA TableOpen ==
    ASSUME OpenInv, AllIdle
    PROVE  HeldOpen
<1>1. ASSUME NEW p \in Held PROVE \E m \in MACs : rows[m] # NoRow /\ p = ClaimOf(m, rows[m])
  BY DEF Held, AllIdle, Copying
<1>2. QED
  BY <1>1 DEF OpenInv, HeldOpen, ClaimOf

(* A handler's step that makes up no claim.                                *)
LEMMA HeldShrinks ==
    ASSUME NEW h \in Admins, \A g \in Admins : g # h => req'[g] = req[g],
           Copying(h)' => ClaimOf(req'[h].mac, req'[h].row) \in Held,
           \A m \in MACs : rows'[m] # NoRow => rows'[m] = rows[m] \/ ClaimOf(m, rows'[m]) \in Held
    PROVE  Held' \subseteq Held
<1>1. ASSUME NEW m \in MACs, rows'[m] # NoRow PROVE ClaimOf(m, rows'[m]) \in Held
  BY <1>1 DEF Held
<1>2. ASSUME NEW g \in Admins, Copying(g)' PROVE ClaimOf(req'[g].mac, req'[g].row) \in Held
  <2>1. CASE g = h
    BY <1>2, <2>1
  <2>2. CASE g # h
    <3>1. Copying(g) /\ req'[g] = req[g]
      BY <1>2, <2>2 DEF Copying
    <3>2. QED
      BY <3>1 DEF Held
  <2>3. QED
    BY <2>1, <2>2
<1>3. ASSUME NEW p \in Held' PROVE p \in Held
  <2>1. \/ \E m \in MACs : rows'[m] # NoRow /\ p = ClaimOf(m, rows'[m])
        \/ \E g \in Admins : Copying(g)' /\ p = ClaimOf(req'[g].mac, req'[g].row)
    BY DEF Held
  <2>2. QED
    BY <1>1, <1>2, <2>1
<1>4. QED
  BY <1>3

(* What most handlers make of their copy claims what the row claims.       *)
LEMMA EditedClaim ==
    ASSUME NEW m, NEW row \in Row, NEW op \in {"rename", "touch", "address", "forget"},
           NEW new \in Edited(op, m, row)
    PROVE  ClaimOf(m, new) = ClaimOf(m, row)
<1>1. CASE op = "rename"
  <2>1. PICK n : new = [row EXCEPT !.override = n, !.synced = FALSE]
    BY <1>1 DEF Edited, Renamed
  <2>2. QED
    BY <2>1 DEF Row, ClaimOf
<1>2. CASE op = "address"
  <2>1. PICK ip : new = [row EXCEPT !.static = ip]
    BY <1>2 DEF Edited, Readdressed
  <2>2. QED
    BY <2>1 DEF Row, ClaimOf
<1>3. CASE op \in {"touch", "forget"}
  BY <1>3 DEF Edited
<1>4. QED
  BY <1>1, <1>2, <1>3

(* A device that is registered claims what its row claims, or a name in no *)
(* zone yet.                                                               *)
LEMMA RegisterHolds ==
    ASSUME DashboardInv, HeldOpen, NEW h \in Admins, NEW m \in Editable,
           NEW name \in Names, NEW pin \in AnyZone, Register(h, m, name, pin)
    PROVE  \A p \in Held' \ Held :
              p.mac = m /\ p.zone = NoZone /\ p.host \in Names /\ ~p.excluded
<1>0. rows \in [MACs -> Row \cup {NoRow}] /\ m \in MACs
  BY DashboardAssumption DEF DashboardAssumption, DashboardInv, TypeInv, TypeOK
<1> DEFINE new == Registration(m, name, pin)
<1>1. /\ \A k \in MACs : rows'[k] = IF k = m THEN new ELSE rows[k]
      /\ req' = req
  BY <1>0 DEF Register
<1>2. ASSUME NEW p \in Held', p \notin Held
      PROVE  p = ClaimOf(m, new)
  <2>1. \/ \E k \in MACs : rows'[k] # NoRow /\ p = ClaimOf(k, rows'[k])
        \/ \E g \in Admins : Copying(g)' /\ p = ClaimOf(req'[g].mac, req'[g].row)
    BY DEF Held
  <2>2. ASSUME NEW k \in MACs, rows[k] # NoRow PROVE ClaimOf(k, rows[k]) \in Held
    BY <2>2 DEF Held
  <2>3. ASSUME NEW g \in Admins, Copying(g)' PROVE ClaimOf(req'[g].mac, req'[g].row) \in Held
    BY <1>1, <2>3 DEF Held, Copying
  <2>4. QED
    BY <1>1, <1>2, <2>1, <2>2, <2>3
<1>3. CASE rows[m] = NoRow
  <2>1. /\ new.zone = NoZone /\ new.host = name /\ new.excluded = FALSE
    BY <1>3 DEF Registration
  <2>2. ClaimOf(m, new).mac = m /\ ClaimOf(m, new).zone = NoZone /\ ClaimOf(m, new).host = name
        /\ ~ClaimOf(m, new).excluded
    BY <2>1 DEF ClaimOf
  <2>3. QED
    BY <1>2, <2>2
<1>4. CASE rows[m] # NoRow
  <2>1. ClaimOf(m, rows[m]) \in Held /\ rows[m] \in Row
    BY <1>0, <1>4 DEF Held
  <2>2. rows[m].excluded = FALSE
    BY <2>1 DEF HeldOpen, ClaimOf, Row
  <2>3. new = [rows[m] EXCEPT !.override = name, !.pin = pin, !.excluded = FALSE]
    BY <1>4 DEF Registration
  <2>4. ClaimOf(m, new) = ClaimOf(m, rows[m])
    BY <2>1, <2>2, <2>3 DEF ClaimOf, Row
  <2>5. QED
    BY <1>2, <2>1, <2>4
<1>5. QED
  BY <1>3, <1>4

(* The other handlers make up no claim: one case per action of Admin.      *)
LEMMA AdminHolds ==
    ASSUME DashboardInv, Ops \subseteq Harmless, NEW h \in Admins, Admin(h),
           ~\E m \in Editable, name \in Names, pin \in AnyZone : Register(h, m, name, pin)
    PROVE  Held' \subseteq Held
<1>0. /\ rows \in [MACs -> Row \cup {NoRow}] /\ req \in [Admins -> Request \cup {Idle}]
      /\ RequestInv /\ Editable \subseteq MACs
  BY DashboardAssumption DEF DashboardAssumption, DashboardInv, TypeInv, TypeOK
<1>1. ASSUME NEW r, req' = [req EXCEPT ![h] = r]
      PROVE  req'[h] = r /\ \A g \in Admins : g # h => req'[g] = req[g]
  BY <1>0, <1>1
<1>2. ASSUME NEW row, NEW step, req[h] # Idle, Advance(h, row, step)
      PROVE  /\ req'[h].mac = req[h].mac /\ req'[h].row = row
             /\ \A g \in Admins : g # h => req'[g] = req[g]
  <2>1. req[h] \in Request
    BY <1>0, <1>2
  <2>2. req'[h] = [req[h] EXCEPT !.row = row, !.step = step]
    BY <1>0, <1>2, <2>1 DEF Advance, Request
  <2>3. QED
    BY <1>0, <1>2, <2>1, <2>2 DEF Advance, Request
<1>3. ASSUME NEW m \in Editable, NEW op \in Ops, Load(h, op, m) PROVE Held' \subseteq Held
  <2>1. op \in {"rename", "touch", "address", "forget"} /\ rows[m] \in Row /\ rows[m] # NoRow
        /\ m \in MACs /\ UNCHANGED rows
    BY <1>0, <1>3 DEF Load, Harmless, vars, table
  <2>2. PICK row \in Edited(op, m, rows[m]) :
            req' = [req EXCEPT ![h] = [op |-> op, mac |-> m, row |-> row,
                                       step |-> IF op = "forget" THEN "dns" ELSE "save"]]
    BY <1>3 DEF Load
  <2>3. /\ req'[h].mac = m /\ req'[h].row = row
        /\ \A g \in Admins : g # h => req'[g] = req[g]
    BY <1>1, <2>2
  <2>4. ClaimOf(m, row) = ClaimOf(m, rows[m]) /\ ClaimOf(m, rows[m]) \in Held
    BY <2>1, EditedClaim DEF Held
  <2>5. QED
    BY <2>1, <2>3, <2>4, HeldShrinks
<1>4. ASSUME NEW m \in Editable, Join(h, m) \/ Leave(h, m) PROVE Held' \subseteq Held
  <2>1. PICK r : ~Carries(r) /\ req' = [req EXCEPT ![h] = r]
    <3>1. \/ req' = [req EXCEPT ![h] = [op |-> "join", mac |-> m, row |-> NoRow, step |-> "load"]]
          \/ req' = [req EXCEPT ![h] = [op |-> "leave", mac |-> m, row |-> NoRow, step |-> "save"]]
      BY <1>4 DEF Join, Leave
    <3>2. QED
      BY <3>1 DEF Carries
  <2>2. ~Copying(h)' /\ UNCHANGED rows
    BY <1>1, <1>4, <2>1 DEF Copying, Join, Leave
  <2>3. QED
    BY <1>1, <2>1, <2>2, HeldShrinks
<1>5. CASE Store(h) \/ Erase(h) \/ LeaveUnlinks(h)
  <2>1. ~Copying(h)' /\ \A g \in Admins : g # h => req'[g] = req[g]
    BY <1>0, <1>5 DEF Store, Erase, LeaveUnlinks, Answer, Copying
  <2>2. req[h] # Idle /\ req[h].mac \in MACs
    BY <1>0, <1>5 DEF Store, Erase, LeaveUnlinks, Working, Request
  <2>3. ASSUME NEW m \in MACs, rows'[m] # NoRow
        PROVE  rows'[m] = rows[m] \/ ClaimOf(m, rows'[m]) \in Held
    <3>1. CASE Store(h)
      <4>1. Copying(h)
        BY <3>1 DEF Store, Copying, Carries
      <4>2. ClaimOf(req[h].mac, req[h].row) \in Held
        BY <4>1 DEF Held
      <4>3. rows'[m] = rows[m] \/ (m = req[h].mac /\ rows'[m] = req[h].row)
        BY <1>0, <2>2, <3>1 DEF Store
      <4>4. QED
        BY <4>2, <4>3
    <3>2. CASE Erase(h)
      BY <1>0, <2>2, <2>3, <3>2 DEF Erase
    <3>3. CASE LeaveUnlinks(h)
      <4>1. rows'[m] = rows[m]
            \/ (rows[m] \in Row /\ rows[m] # NoRow /\ rows'[m] = [rows[m] EXCEPT !.joined = FALSE])
        BY <1>0, <2>2, <3>3 DEF LeaveUnlinks
      <4>2. rows[m] \in Row /\ rows'[m] = [rows[m] EXCEPT !.joined = FALSE]
                => ClaimOf(m, rows'[m]) = ClaimOf(m, rows[m])
        BY DEF Row, ClaimOf
      <4>3. rows[m] # NoRow => ClaimOf(m, rows[m]) \in Held
        BY DEF Held
      <4>4. QED
        BY <4>1, <4>2, <4>3
    <3>4. QED
      BY <1>5, <3>1, <3>2, <3>3
  <2>4. QED
    BY <2>1, <2>3, HeldShrinks
<1>6. CASE JoinLoads(h)
  <2>1. req[h] # Idle /\ req[h].mac \in MACs /\ UNCHANGED rows
    BY <1>0, <1>6 DEF JoinLoads, Working, Request, vars, table
  <2>2. CASE Answer(h)
    <3>1. ~Copying(h)' /\ \A g \in Admins : g # h => req'[g] = req[g]
      BY <1>0, <2>2 DEF Answer, Copying
    <3>2. QED
      BY <2>1, <3>1, HeldShrinks
  <2>3. CASE rows[req[h].mac] # NoRow /\ Advance(h, rows[req[h].mac], "dns")
    <3>1. ClaimOf(req[h].mac, rows[req[h].mac]) \in Held
      BY <2>1, <2>3 DEF Held
    <3>2. QED
      BY <1>2, <2>1, <2>3, <3>1, HeldShrinks
  <2>4. QED
    BY <1>6, <2>2, <2>3 DEF JoinLoads
<1>7. CASE ForgetTakesDown(h) \/ JoinTakesDown(h)
  <2>1. req[h] # Idle /\ Copying(h) /\ req[h].row \in Row /\ UNCHANGED rows
    BY <1>0, <1>7
    DEF ForgetTakesDown, JoinTakesDown, Working, Carries, Copying, RequestInv, table
  <2>2. PICK row : row = req[h].row
    OBVIOUS
  <2>3. PICK cleared, new :
            /\ Advance(h, new, "save")
            /\ \/ new = row
               \/ new = [row EXCEPT !.joined = TRUE]
               \/ new = [row EXCEPT !.joined = TRUE, !.synced = @ /\ ~cleared]
    BY <1>7, <2>2 DEF ForgetTakesDown, JoinTakesDown
  <2>4. ClaimOf(req[h].mac, new) = ClaimOf(req[h].mac, row)
    BY <2>1, <2>2, <2>3 DEF Row, ClaimOf
  <2>5. ClaimOf(req[h].mac, row) \in Held
    BY <2>1, <2>2 DEF Held
  <2>6. QED
    BY <1>2, <2>1, <2>3, <2>4, <2>5, HeldShrinks
<1>8. QED
  BY <1>3, <1>4, <1>5, <1>6, <1>7 DEF Admin

(* Every step of the engine leaves included devices in.                    *)
LEMMA DecideOpen ==
    ASSUME TypeInv, OpenInv, NEW m \in MACs, NEW row, NEW chs, Decide(m, row, chs),
           m \in Editable => ~row.excluded
    PROVE  OpenInv'
<1>1. /\ UNCHANGED <<rows, found>>
      /\ \A o \in MACs : result'[o] = IF o = m THEN row ELSE result[o]
  BY DEF Decide, table, TypeInv, TypeOK
<1>2. Editable \subseteq MACs
  BY DashboardAssumption DEF DashboardAssumption
<1>3. QED
  BY <1>1, <1>2 DEF OpenInv

LEMMA ReconcileOpen ==
    ASSUME TypeInv, OpenInv, Private \cap Editable = {}, NEW m \in MACs, Reconcile(m)
    PROVE  OpenInv'
<1>1. found[m] # NoRow => found[m] \in Row /\ (m \in Editable => ~found[m].excluded)
  BY DEF OpenInv, TypeInv, TypeOK
<1>2. CASE ReconcileTracked(m)
  <2>1. found[m] # NoRow
    BY <1>2 DEF ReconcileTracked, Passthrough
  <2>2. PICK row, chs : /\ row = Tracked(found[m], ctrl, Address(seen[m], found[m]))
                       /\ Decide(m, row, chs)
    BY <1>2 DEF ReconcileTracked
  <2>3. m \in Editable => ~row.excluded
    BY <1>1, <2>1, <2>2 DEF Tracked, Row
  <2>4. QED
    BY <2>2, <2>3, DecideOpen
<1>3. CASE ReconcileNew(m)
  <2>1. PICK host, zone, chs : Decide(m, NewRow(m, ctrl, host, zone, seen[m].ip), chs)
    BY <1>3 DEF ReconcileNew
  <2>2. m \in Editable => ~NewRow(m, ctrl, host, zone, seen[m].ip).excluded
    BY DEF NewRow
  <2>3. QED
    BY <2>1, <2>2, DecideOpen
<1>4. CASE ReconcileKnown(m)
  <2>1. PICK host, zone, chs :
            /\ Decide(m, Wanted(found[m], ctrl, host, zone, Address(seen[m], found[m])), chs)
            /\ found[m] # NoRow
    BY <1>4 DEF ReconcileKnown
  <2>2. m \in Editable => ~Wanted(found[m], ctrl, host, zone, Address(seen[m], found[m])).excluded
    BY <1>1, <2>1 DEF Wanted, Row
  <2>3. QED
    BY <2>1, <2>2, DecideOpen
<1>5. CASE ReconcileUnseen(m)
  <2>1. found[m] # NoRow
    BY <1>5 DEF ReconcileUnseen, TypeInv, InPass
  <2>2. PICK row, chs : /\ row \in {found[m], [found[m] EXCEPT !.synced = FALSE]}
                       /\ Decide(m, row, chs)
    BY <1>5 DEF ReconcileUnseen
  <2>3. m \in Editable => ~row.excluded
    BY <1>1, <2>1, <2>2 DEF Row
  <2>4. QED
    BY <2>2, <2>3, DecideOpen
<1>6. QED
  BY <1>2, <1>3, <1>4, <1>5 DEF Reconcile

LEMMA NextOpen ==
    ASSUME TypeInv, OpenInv, Private \cap Editable = {}, [Next]_vars
    PROVE  OpenInv'
<1>0. Editable \subseteq MACs
  BY DashboardAssumption DEF DashboardAssumption
<1>1. ASSUME UNCHANGED <<rows, found, result>> PROVE OpenInv'
  BY <1>1 DEF OpenInv
<1>2. CASE BeginCycle \/ EndCycle \/ BeginApply \/ UNCHANGED vars
  BY <1>1, <1>2 DEF BeginCycle, EndCycle, BeginApply, vars, engine, table, pass
<1>3. ASSUME NEW d \in Controllers, FetchFails(d) PROVE OpenInv'
  BY <1>1, <1>3 DEF FetchFails, table, pass
<1>4. ASSUME NEW d \in Controllers, NEW reported \in Reports(d), Fetch(d, reported)
      PROVE  OpenInv'
  <2>1. \A m \in MACs : found'[m] # NoRow => found'[m] = rows[m]
    BY <1>4 DEF Fetch, Loaded
  <2>2. UNCHANGED <<rows, result>>
    BY <1>4 DEF Fetch, table
  <2>3. QED
    BY <1>0, <2>1, <2>2 DEF OpenInv
<1>5. ASSUME NEW m \in MACs, Reconcile(m) PROVE OpenInv'
  BY <1>5, ReconcileOpen
<1>6. ASSUME NEW ok \in BOOLEAN, Apply(ok) PROVE OpenInv'
  BY <1>1, <1>6 DEF Apply, table
<1>7. ASSUME EndPass, \A m \in Editable : rows'[m] # NoRow => ~rows'[m].excluded PROVE OpenInv'
  BY <1>0, <1>7 DEF OpenInv, EndPass, Nothing
<1>8. CASE Persist
  <2>1. ASSUME NEW m \in Editable, result[m] # NoRow
        PROVE  ~Final(m).excluded /\ ~[Final(m) EXCEPT !.id = made[m] + 1].excluded
    <3>1. ~result[m].excluded /\ result[m] \in Row
      BY <1>0, <2>1 DEF OpenInv, TypeInv, TypeOK
    <3>2. PICK mark : Final(m) = [result[m] EXCEPT !.synced = mark]
      BY DEF Final
    <3>3. Final(m) \in Row
      BY <1>0, <2>1, FinalType
    <3> HIDE DEF Final
    <3>4. QED
      BY <3>1, <3>2, <3>3 DEF Row
  <2>2. ASSUME NEW m \in Editable, rows'[m] # NoRow PROVE ~rows'[m].excluded
    <3>1. \/ rows'[m] = rows[m]
          \/ result[m] # NoRow /\ rows'[m] \in {Final(m), [Final(m) EXCEPT !.id = made[m] + 1]}
      BY <1>0, <1>8 DEF Persist
    <3>2. QED
      BY <2>1, <2>2, <3>1 DEF OpenInv
  <2>3. QED
    BY <1>7, <1>8, <2>2 DEF Persist
<1>9. CASE Crash
  BY <1>7, <1>9 DEF Crash, table, OpenInv
<1>10. QED
  BY <1>2, <1>3, <1>4, <1>5, <1>6, <1>8, <1>9 DEF Next, Cycle

(* What a step of a handler has to show, the engine being idle.            *)
LEMMA AdminEdits ==
    ASSUME EditInv, NEW h \in Admins, phase = "idle", Admin(h), HeldInv',
           "register" \in Ops => HeldOpen'
    PROVE  EditInv'
<1>1. DashboardInv' /\ TypeInv'
  BY AdminType DEF EditInv, DashboardInv
<1>2. (phase = "idle")' /\ UNCHANGED <<found, result>>
  BY DEF Admin, Load, Store, Register, ForgetTakesDown, Erase, Join, JoinLoads, JoinTakesDown,
         Leave, LeaveUnlinks, vars, engine, pass
<1>3. NamesInv'
  BY <1>1, <1>2, HeldNames, PTL
<1>4. ASSUME "register" \in Ops PROVE OpenInv'
  <2>1. \A m \in MACs : rows'[m] # NoRow => ClaimOf(m, rows'[m]) \in Held'
    BY DEF Held
  <2>2. \A m \in Editable : rows'[m] # NoRow => ~rows'[m].excluded
    BY <1>4, <2>1, DashboardAssumption DEF DashboardAssumption, HeldOpen, ClaimOf
  <2>3. QED
    BY <1>2, <1>4, <2>2 DEF OpenInv, EditInv
<1>5. QED
  BY <1>1, <1>2, <1>3, <1>4 DEF EditInv, Turns

(* Every step keeps the names apart.                                       *)
LEMMA NextEdits ==
    ASSUME NEW c, Controllers = {c}, ~Overlap, Ops \subseteq Harmless, PublicOnly,
           EditInv, [NextD]_dvars
    PROVE  EditInv'
<1>1. DashboardInv' /\ TypeInv /\ TypeInv'
  BY NextDashboard DEF EditInv, DashboardInv
<1>2. ASSUME [Next]_vars, AllIdle' PROVE EditInv'
  <2>1. NamesInv'
    BY <1>1, <1>2, NextNames DEF EditInv
  <2>2. HeldInv'
    BY <1>2, <2>1, TableHeld, PTL
  <2>3. "register" \in Ops => OpenInv'
    BY <1>1, <1>2, NextOpen DEF EditInv, PublicOnly
  <2>4. OpenInv' => HeldOpen'
    BY <1>2, TableOpen, PTL
  <2>5. QED
    BY <1>1, <1>2, <2>1, <2>2, <2>3, <2>4 DEF EditInv, Turns
<1>3. CASE AllIdle /\ Cycle /\ UNCHANGED req
  BY <1>2, <1>3 DEF Next, AllIdle
<1>4. CASE Crash /\ req' = [h \in Admins |-> Idle]
  BY <1>2, <1>4 DEF Next, AllIdle
<1>5. ASSUME NEW h \in Admins, phase = "idle", Admin(h) PROVE EditInv'
  <2>1. CASE \E m \in Editable, name \in Names, pin \in AnyZone : Register(h, m, name, pin)
    <3>1. PICK m \in Editable, name \in Names, pin \in AnyZone : Register(h, m, name, pin)
      BY <2>1
    <3>2. HeldInv /\ HeldOpen /\ DashboardInv
      BY <3>1 DEF EditInv, Register
    <3>3. \A p \in Held' \ Held :
              p.mac = m /\ p.zone = NoZone /\ p.host \in Names /\ ~p.excluded
      BY <3>1, <3>2, RegisterHolds
    <3>4. HeldInv' /\ HeldOpen'
      BY <3>2, <3>3 DEF HeldInv, HeldOpen, OwnLabel
    <3>5. QED
      BY <1>5, <3>4, AdminEdits
  <2>2. CASE ~\E m \in Editable, name \in Names, pin \in AnyZone : Register(h, m, name, pin)
    <3>1. Held' \subseteq Held
      BY <1>5, <2>2, AdminHolds DEF EditInv
    <3>2. HeldInv' /\ ("register" \in Ops => HeldOpen')
      BY <3>1 DEF EditInv, HeldInv, HeldOpen
    <3>3. QED
      BY <1>5, <3>2, AdminEdits
  <2>3. QED
    BY <2>1, <2>2
<1>6. CASE UNCHANGED dvars
  <2>1. NamesInv'
    BY <1>1, <1>6, NextNames DEF EditInv, dvars
  <2>2. UNCHANGED <<rows, found, result, req, phase>>
    BY <1>6 DEF dvars, vars, engine, table, pass
  <2>3. Held' = Held /\ Turns' /\ ("register" \in Ops => OpenInv')
    BY <2>2 DEF EditInv, Held, Copying, Turns, AllIdle, OpenInv
  <2>4. QED
    BY <1>1, <2>1, <2>3 DEF EditInv, HeldInv, HeldOpen
<1>7. QED
  BY <1>3, <1>4, <1>5, <1>6 DEF NextD

(* With one controller, and cycles that wait for handlers, renaming,       *)
(* readdressing, registering, forgetting and grouping devices never gives  *)
(* two of them one name in a zone (naming.go, TakenKey and Disambiguate):  *)
(* any number of admins, whichever calls fail, wherever the process        *)
(* crashes.                                                                *)
THEOREM EditedNamesUnique ==
    ASSUME NEW c, Controllers = {c}, ~Overlap, Ops \subseteq Harmless, PublicOnly
    PROVE  SpecD => []NamesUnique
<1>1. InitD => EditInv
  <2> SUFFICES ASSUME InitD PROVE EditInv
    OBVIOUS
  <2>1. DashboardInv /\ NamesInv
    BY InitTypeInv, InitNames DEF InitD, DashboardInv, RequestInv
  <2>2. AllIdle
    BY DEF InitD, AllIdle
  <2>3. OpenInv
    BY DashboardAssumption DEF DashboardAssumption, InitD, Init, Nothing, OpenInv
  <2>4. QED
    BY <2>1, <2>2, <2>3, TableHeld, TableOpen DEF EditInv, Turns
<1>2. EditInv /\ [NextD]_dvars => EditInv'
  BY NextEdits
<1>3. EditInv => NamesUnique
  BY DEF EditInv, NamesInv
<1>4. QED
  BY <1>1, <1>2, <1>3, PTL DEF SpecD

-----------------------------------------------------------------------------
(* Devices that keep to addresses of their own.                            *)

(* The addresses the controllers may ever report for a device.             *)
Leases(m) ==
    {ip \in IPs : \E c \in Controllers : \E t \in Reports(c) : t[m] # Absent /\ t[m].ip = ip}

LeasesApart == \A m, o \in MACs : m # o => Leases(m) \cap Leases(o) = {}

Leased(m, row) == row.ip \in Leases(m) \cup {NoIP} /\ row.static = NoIP

LeaseInv ==
    \A m \in MACs :
        /\ \A row \in {rows[m], found[m], result[m]} : row # NoRow => Leased(m, row)
        /\ seen[m] # Absent => seen[m].ip \in Leases(m) \cup {NoIP}

(* A decision for one device writes an address of its own.                 *)
LEMMA DecideLeases ==
    ASSUME TypeInv, LeaseInv, NEW m \in MACs, NEW row, NEW chs, Decide(m, row, chs), Leased(m, row)
    PROVE  LeaseInv'
<1>1. /\ UNCHANGED <<rows, found, seen>>
      /\ \A o \in MACs : result'[o] = IF o = m THEN row ELSE result[o]
  BY DEF Decide, table, TypeInv, TypeOK
<1>2. QED
  BY <1>1 DEF LeaseInv, Leased

LEMMA ReconcileLeases ==
    ASSUME TypeInv, LeaseInv, NEW m \in MACs, Reconcile(m)
    PROVE  LeaseInv'
<1>1. /\ seen[m] # Absent => seen[m].ip \in Leases(m) \cup {NoIP}
      /\ found[m] # NoRow => Leased(m, found[m]) /\ found[m] \in Row
      /\ seen[m] # Absent => Address(seen[m], found[m]) \in Leases(m) \cup {NoIP}
  BY DEF LeaseInv, Leased, Address, TypeInv, TypeOK
<1>2. CASE ReconcileTracked(m)
  <2>1. found[m] # NoRow /\ seen[m] # Absent
    BY <1>2 DEF ReconcileTracked, Passthrough
  <2>2. Leased(m, Tracked(found[m], ctrl, Address(seen[m], found[m])))
    BY <1>1, <2>1 DEF Leased, Tracked, Row
  <2>3. QED
    BY <1>2, <2>2, DecideLeases DEF ReconcileTracked
<1>3. CASE ReconcileNew(m)
  <2>1. PICK host, zone, chs :
            Decide(m, NewRow(m, ctrl, host, zone, seen[m].ip), chs) /\ seen[m] # Absent
    BY <1>3 DEF ReconcileNew
  <2>2. Leased(m, NewRow(m, ctrl, host, zone, seen[m].ip))
    BY <1>1, <2>1 DEF Leased, NewRow
  <2>3. QED
    BY <2>1, <2>2, DecideLeases
<1>4. CASE ReconcileKnown(m)
  <2>1. PICK host, zone, chs :
            /\ Decide(m, Wanted(found[m], ctrl, host, zone, Address(seen[m], found[m])), chs)
            /\ found[m] # NoRow /\ seen[m] # Absent
    BY <1>4 DEF ReconcileKnown
  <2>2. Leased(m, Wanted(found[m], ctrl, host, zone, Address(seen[m], found[m])))
    BY <1>1, <2>1 DEF Leased, Wanted, Row
  <2>3. QED
    BY <2>1, <2>2, DecideLeases
<1>5. CASE ReconcileUnseen(m)
  <2>1. found[m] # NoRow
    BY <1>5 DEF ReconcileUnseen, TypeInv, InPass
  <2>2. Leased(m, found[m]) /\ Leased(m, [found[m] EXCEPT !.synced = FALSE])
    BY <1>1, <2>1 DEF Leased, Row
  <2>3. PICK row, chs : /\ row \in {found[m], [found[m] EXCEPT !.synced = FALSE]}
                       /\ Decide(m, row, chs)
    BY <1>5 DEF ReconcileUnseen
  <2>4. QED
    BY <2>2, <2>3, DecideLeases
<1>6. QED
  BY <1>2, <1>3, <1>4, <1>5 DEF Reconcile

(* Every step of the engine keeps devices to their addresses.              *)
LEMMA NextLeases ==
    ASSUME TypeInv, LeaseInv, [Next]_vars
    PROVE  LeaseInv'
<1>1. ASSUME UNCHANGED <<rows, found, result, seen>> PROVE LeaseInv'
  BY <1>1 DEF LeaseInv, Leased
<1>2. CASE BeginCycle \/ EndCycle \/ BeginApply \/ UNCHANGED vars
  BY <1>1, <1>2 DEF BeginCycle, EndCycle, BeginApply, vars, engine, table, pass
<1>3. ASSUME NEW d \in Controllers, FetchFails(d) PROVE LeaseInv'
  BY <1>1, <1>3 DEF FetchFails, table, pass
<1>4. ASSUME NEW d \in Controllers, NEW reported \in Reports(d), Fetch(d, reported)
      PROVE  LeaseInv'
  <2>1. reported \in [MACs -> Client \cup {Absent}]
    BY EngineAssumption DEF EngineAssumption
  <2>2. ASSUME NEW m \in MACs, seen'[m] # Absent PROVE seen'[m].ip \in Leases(m) \cup {NoIP}
    <3>1. seen'[m] = reported[m] /\ reported[m] # Absent
      BY <1>4, <2>2 DEF Fetch, Claimable
    <3>2. reported[m].ip \in AnyIP
      BY <2>1, <3>1 DEF Client
    <3>3. QED
      BY <3>1, <3>2 DEF Leases, AnyIP
  <2>3. \A m \in MACs : found'[m] # NoRow => found'[m] = rows[m]
    BY <1>4 DEF Fetch, Loaded
  <2>4. UNCHANGED <<rows, result>>
    BY <1>4 DEF Fetch, table
  <2>5. QED
    BY <2>2, <2>3, <2>4 DEF LeaseInv, Leased
<1>5. ASSUME NEW m \in MACs, Reconcile(m) PROVE LeaseInv'
  BY <1>5, ReconcileLeases
<1>6. ASSUME NEW ok \in BOOLEAN, Apply(ok) PROVE LeaseInv'
  BY <1>1, <1>6 DEF Apply, table
<1>7. ASSUME EndPass, \A m \in MACs : rows'[m] # NoRow => Leased(m, rows'[m]) PROVE LeaseInv'
  BY <1>7 DEF LeaseInv, EndPass, Nothing, Leased
<1>8. CASE Persist
  <2>1. ASSUME NEW m \in MACs, result[m] # NoRow
        PROVE  Leased(m, Final(m)) /\ Leased(m, [Final(m) EXCEPT !.id = made[m] + 1])
    <3>1. Leased(m, result[m]) /\ result[m] \in Row
      BY <2>1 DEF LeaseInv, TypeInv, TypeOK
    <3>2. PICK mark : Final(m) = [result[m] EXCEPT !.synced = mark]
      BY DEF Final
    <3>3. Final(m) \in Row
      BY <2>1, FinalType
    <3> HIDE DEF Final
    <3>4. QED
      BY <3>1, <3>2, <3>3 DEF Leased, Row
  <2>2. ASSUME NEW m \in MACs, rows'[m] # NoRow PROVE Leased(m, rows'[m])
    <3>1. \/ rows'[m] = rows[m]
          \/ result[m] # NoRow /\ rows'[m] \in {Final(m), [Final(m) EXCEPT !.id = made[m] + 1]}
      BY <1>8 DEF Persist
    <3>2. QED
      BY <2>1, <2>2, <3>1 DEF LeaseInv
  <2>3. QED
    BY <1>7, <1>8, <2>2 DEF Persist
<1>9. CASE Crash
  BY <1>7, <1>9 DEF Crash, table, LeaseInv
<1>10. QED
  BY <1>2, <1>3, <1>4, <1>5, <1>6, <1>8, <1>9 DEF Next, Cycle

-----------------------------------------------------------------------------
(* Records, though admins edit.                                            *)

(* The handlers that store back, rename, register, forget and group a      *)
(* device.                                                                 *)
Keeping == {"touch", "rename", "register", "forget", "join", "leave"}

(* A device whose record a handler may take down, or has taken down while  *)
(* the row still says it is there.                                         *)
InHand(m) ==
    \E h \in Admins :
        /\ req[h] # Idle /\ req[h].mac = m
        /\ req[h].op = "join" \/ (req[h].op = "forget" /\ req[h].step = "save")

(* Between cycles a mark is true, unless the device is in hand.            *)
TableTrue ==
    \A m \in MACs : Holds(m) =>
        /\ ~rows[m].excluded /\ rows[m].ip # NoIP /\ rows[m].zone # NoZone
        /\ ~InHand(m) => m \notin members /\ Published(rows[m]) \in dns

(* A copy that will be saved says no more than the row it is a copy of.    *)
CopyTrue(r) ==
    /\ r.op \in {"touch", "rename"} =>
          (r.row.synced => /\ Holds(r.mac) /\ Alike(rows[r.mac], r.row)
                           /\ r.row.excluded = rows[r.mac].excluded)
    /\ r.op = "forget" => rows[r.mac] = r.row
    /\ r.op = "join" /\ r.step = "dns" => rows[r.mac] = r.row
    /\ r.op = "join" /\ r.step = "save" =>
          /\ ~r.row.synced
          /\ rows[r.mac] = NoRow \/ rows[r.mac].id = r.row.id

CopiesTrue ==
    \A h \in Admins : req[h] # Idle =>
        /\ req[h].op \in Keeping
        /\ CopyTrue(req[h])
        /\ Carries(req[h]) => Leased(req[h].mac, req[h].row)

KeepInv ==
    /\ EditInv /\ LeaseInv /\ Kept /\ CopiesTrue
    /\ AllIdle => MarksInv /\ AddressInv
    /\ phase = "idle" => TableTrue

(* Between cycles, nothing in hand, the marks are those of the table.      *)
LEMMA TableMarks ==
    ASSUME TypeInv, Kept, phase = "idle", TableTrue, AllIdle
    PROVE  MarksInv /\ AddressInv
<1>1. /\ changes = <<>> /\ \A m \in MACs : outcome[m] = "none" /\ result[m] = NoRow /\ ~InHand(m)
  BY DEF TypeInv, InPass, Kept, InHand, AllIdle, Nothing
<1>2. SameIds /\ ResultTrue /\ ChangesTrue
  BY <1>1 DEF SameIds, ResultTrue, ChangesTrue
<1>3. RowsTrue /\ AddressInv
  BY <1>1 DEF RowsTrue, AddressInv, TableTrue, Holds
<1>4. QED
  BY <1>2, <1>3 DEF MarksInv

LEMMA MarksTable ==
    ASSUME MarksInv, AddressInv, phase = "idle"
    PROVE  TableTrue
  BY DEF MarksInv, Kept, RowsTrue, AddressInv, TableTrue, Holds

(* A handler's delete leaves the records of other devices alone: it names  *)
(* an address, and the address is no other device's.                       *)
LEMMA TakeDownKeeps ==
    ASSUME LeasesApart, ~MayFail, NEW m \in MACs, NEW row, TakeDown(m, row),
           row.synced => row.ip # NoIP, Leased(m, row)
    PROVE  \A o \in MACs : o # m =>
              \A r \in dns : r.ip \in Leases(o) => r \in dns'
<1> DEFINE ch == [Delete(m, row) EXCEPT !.oldHost = Effective(row)]
<1>1. ch.kind = "delete" /\ ch.oldIP = row.ip
  BY DEF Delete
<1>2. CASE UNCHANGED dns
  BY <1>2
<1>3. CASE row.synced /\ dns' \in Succeeded(dns, ch)
  <2>1. dns' = dns \ {Rec(ch.oldHost, ch.oldZone, ch.oldIP)}
    BY <1>1, <1>3 DEF Succeeded, Deleted
  <2>2. row.ip \in Leases(m)
    BY <1>3 DEF Leased
  <2>3. ASSUME NEW o \in MACs, o # m, NEW r \in dns, r.ip \in Leases(o) PROVE r \in dns'
    <3>1. r.ip # row.ip
      BY <2>2, <2>3 DEF LeasesApart
    <3>2. Rec(ch.oldHost, ch.oldZone, ch.oldIP).ip = row.ip
      BY <1>1 DEF Rec
    <3>3. QED
      BY <2>1, <2>3, <3>1, <3>2
  <2>4. QED
    BY <2>3
<1>4. QED
  BY <1>2, <1>3 DEF TakeDown

(* So the marks of devices that are not in hand stay true.                 *)
LEMMA TakeDownTrue ==
    ASSUME LeasesApart, ~MayFail, LeaseInv, TypeInv, TableTrue,
           NEW m \in MACs, rows[m] # NoRow, TakeDown(m, rows[m]), UNCHANGED table,
           \A o \in MACs : o # m => (InHand(o) => InHand(o)'), InHand(m)'
    PROVE  TableTrue'
<1>1. rows[m].synced => rows[m].ip # NoIP
  BY DEF TableTrue, Holds
<1>2. Leased(m, rows[m])
  BY DEF LeaseInv
<1>3. ASSUME NEW o \in MACs, o # m, Holds(o), ~InHand(o) PROVE Published(rows[o]) \in dns'
  <2>1. Published(rows[o]) \in dns /\ rows[o].ip # NoIP /\ rows[o].ip \in Leases(o)
    BY <1>3 DEF TableTrue, LeaseInv, Leased, Holds
  <2>2. Published(rows[o]).ip = rows[o].ip
    BY DEF Published, Rec
  <2>3. QED
    BY <1>1, <1>2, <1>3, <2>1, <2>2, TakeDownKeeps
<1>4. ASSUME NEW o \in MACs, Holds(o)'
      PROVE  /\ ~rows'[o].excluded /\ rows'[o].ip # NoIP /\ rows'[o].zone # NoZone
             /\ ~InHand(o)' => o \notin members' /\ Published(rows'[o]) \in dns'
  <2>1. Holds(o) /\ rows' = rows /\ members' = members
    BY <1>4 DEF Holds, table
  <2>2. CASE o = m
    BY <2>1, <2>2 DEF TableTrue
  <2>3. CASE o # m
    BY <1>3, <2>1, <2>3 DEF TableTrue
  <2>4. QED
    BY <2>2, <2>3
<1>5. QED
  BY <1>4 DEF TableTrue

(* What holds when there is at most one request and it is at hand.         *)
OneAdmin == \A g, h \in Admins : g = h

(* What a handler's step has to show: the table is true but for what is in *)
(* hand, and the copy says no more than the table.                         *)
LEMMA AdminKeeps ==
    ASSUME TypeInv', EditInv', KeepInv, phase = "idle", UNCHANGED engine,
           TableTrue', CopiesTrue',
           \A m \in MACs : rows'[m] # NoRow => Leased(m, rows'[m])
    PROVE  KeepInv'
<1>1. UNCHANGED <<phase, changes, outcome, seen, found, result>>
  BY DEF engine, pass
<1>2. Kept'
  BY <1>1 DEF KeepInv, Kept
<1>3. LeaseInv'
  BY <1>1 DEF KeepInv, LeaseInv, Leased
<1>4. (phase = "idle")'
  BY <1>1
<1>5. (AllIdle => MarksInv /\ AddressInv)'
  BY <1>2, <1>4, TableMarks, PTL
<1>6. QED
  BY <1>2, <1>3, <1>5 DEF KeepInv

(* One case per action of Admin.                                           *)
LEMMA AdminKeep ==
    ASSUME ~MayFail, Ops \subseteq Keeping, OneAdmin, LeasesApart,
           KeepInv, EditInv', phase = "idle", NEW h \in Admins, Admin(h)
    PROVE  KeepInv'
<1>0. /\ rows \in [MACs -> Row \cup {NoRow}] /\ req \in [Admins -> Request \cup {Idle}]
      /\ RequestInv /\ Editable \subseteq MACs /\ TypeInv /\ TypeInv' /\ TableTrue
      /\ NoRow \notin Row
  BY DashboardAssumption, EngineAssumption
  DEF DashboardAssumption, EngineAssumption, EditInv, DashboardInv, KeepInv, TypeInv, TypeOK
<1>1. \A g \in Admins : g = h
  BY DEF OneAdmin
<1>2. ASSUME NEW m PROVE InHand(m) <=> /\ req[h] # Idle /\ req[h].mac = m
                                       /\ req[h].op = "join"
                                          \/ (req[h].op = "forget" /\ req[h].step = "save")
  BY <1>1 DEF InHand
<1>3. ASSUME NEW m PROVE InHand(m)' <=> /\ req'[h] # Idle /\ req'[h].mac = m
                                        /\ req'[h].op = "join"
                                           \/ (req'[h].op = "forget" /\ req'[h].step = "save")
  BY <1>1 DEF InHand
<1>4. ASSUME NEW r, req' = [req EXCEPT ![h] = r],
             r # Idle => /\ r.op \in Keeping /\ CopyTrue(r)' /\ (Carries(r) => Leased(r.mac, r.row))
      PROVE  CopiesTrue'
  <2>1. \A g \in Admins : req'[g] = r
    BY <1>0, <1>1, <1>4
  <2>2. QED
    BY <1>4, <2>1 DEF CopiesTrue, CopyTrue, Holds, Alike, Leased, Carries
<1>5. ASSUME NEW row \in Row, NEW step \in {"dns", "save"}, req[h] # Idle, Advance(h, row, step)
      PROVE  /\ req'[h] # Idle
             /\ req'[h].op = req[h].op /\ req'[h].mac = req[h].mac
             /\ req'[h].row = row /\ req'[h].step = step
             /\ req' = [req EXCEPT ![h] = req'[h]]
  <2>1. req[h] \in Request
    BY <1>0, <1>5
  <2>2. req'[h] = [req[h] EXCEPT !.row = row, !.step = step]
    BY <1>0, <1>5, <2>1 DEF Advance, Request
  <2>3. \A g \in Admins : req'[g] = req'[h]
    BY <1>1
  <2>4. req' = [g \in Admins |-> req'[h]] /\ req' = [req EXCEPT ![h] = req'[h]]
    BY <1>0, <1>1, <1>5, <2>1 DEF Advance, Request
  <2>5. req'[h] \in Request
    BY <2>1, <2>2 DEF Request
  <2>6. QED
    BY <2>1, <2>2, <2>4, <2>5, IdleAssumption DEF Request, IdleAssumption
<1>6. \A m \in MACs : rows[m] # NoRow => Leased(m, rows[m])
  BY DEF KeepInv, LeaseInv
<1>7. req[h] # Idle =>
          /\ req[h].op \in Keeping /\ CopyTrue(req[h]) /\ req[h].mac \in MACs
          /\ Carries(req[h]) => Leased(req[h].mac, req[h].row) /\ req[h].row \in Row
  BY <1>0 DEF KeepInv, CopiesTrue, RequestInv, Request
<1>8. ASSUME NEW m \in Editable, NEW op \in Ops, Load(h, op, m) PROVE KeepInv'
  <2>1. /\ op \in {"rename", "touch", "forget"} /\ rows[m] \in Row /\ rows[m] # NoRow /\ m \in MACs
        /\ UNCHANGED vars /\ req[h] = Idle
    BY <1>0, <1>8 DEF Load, Keeping
  <2>2. PICK row \in Edited(op, m, rows[m]) :
            req' = [req EXCEPT ![h] = [op |-> op, mac |-> m, row |-> row,
                                       step |-> IF op = "forget" THEN "dns" ELSE "save"]]
    BY <1>8 DEF Load
  <2>3. PICK r : r = [op |-> op, mac |-> m, row |-> row,
                      step |-> IF op = "forget" THEN "dns" ELSE "save"]
    OBVIOUS
  <2>4. /\ op \in {"touch", "forget"} => row = rows[m]
        /\ op = "rename" => ~row.synced /\ row.ip = rows[m].ip /\ row.static = rows[m].static
    <3>1. CASE op = "rename"
      <4>1. PICK n : row = [rows[m] EXCEPT !.override = n, !.synced = FALSE]
        BY <2>2, <3>1 DEF Edited, Renamed
      <4>2. QED
        BY <2>1, <3>1, <4>1 DEF Row
    <3>2. CASE op # "rename"
      BY <2>1, <2>2, <3>2 DEF Edited
    <3>3. QED
      BY <3>1, <3>2
  <2>5. CopyTrue(r)' /\ Leased(m, row) /\ r.op \in Keeping
    BY <1>6, <2>1, <2>3, <2>4 DEF CopyTrue, Keeping, Holds, Alike, Leased, vars, table
  <2>6. CopiesTrue'
    BY <1>4, <2>2, <2>3, <2>5
  <2>7. \A o \in MACs : ~InHand(o) /\ (InHand(o)' => FALSE)
    <3>1. req'[h] = r
      BY <1>0, <2>2, <2>3
    <3>2. QED
      BY <1>2, <1>3, <2>1, <2>3, <3>1
  <2>8. TableTrue'
    BY <1>0, <2>1, <2>7 DEF TableTrue, Holds, vars, table
  <2>9. UNCHANGED <<rows, engine>>
    BY <2>1 DEF vars, table
  <2>10. QED
    BY <1>0, <1>6, <2>6, <2>8, <2>9, AdminKeeps
<1>9. ASSUME NEW m \in Editable, Join(h, m) \/ Leave(h, m) PROVE KeepInv'
  <2>1. PICK r \in Request :
            /\ ~Carries(r) /\ r.mac = m /\ req' = [req EXCEPT ![h] = r]
            /\ r.op \in {"join", "leave"}
            /\ r.op = "join" => r.step = "load" /\ members' = members \cup {m}
            /\ r.op = "leave" => members' = members \ {m}
    <3>1. CASE Join(h, m)
      <4>1. PICK r : r = [op |-> "join", mac |-> m, row |-> NoRow, step |-> "load"]
        OBVIOUS
      <4>2. r \in Request /\ ~Carries(r)
        BY <1>0, <4>1 DEF Request, AllOps, Carries
      <4>3. QED
        BY <3>1, <4>1, <4>2 DEF Join
    <3>2. CASE Leave(h, m)
      <4>1. PICK r : r = [op |-> "leave", mac |-> m, row |-> NoRow, step |-> "save"]
        OBVIOUS
      <4>2. r \in Request /\ ~Carries(r)
        BY <1>0, <4>1 DEF Request, AllOps, Carries
      <4>3. QED
        BY <3>2, <4>1, <4>2 DEF Leave
    <3>3. QED
      BY <1>9, <3>1, <3>2
  <2>2. UNCHANGED <<rows, dns, engine>> /\ req[h] = Idle
    BY <1>9 DEF Join, Leave
  <2>3. CopiesTrue'
    BY <1>4, <2>1 DEF CopyTrue, Keeping
  <2>4. ASSUME NEW o \in MACs, ~InHand(o)', o \notin members PROVE ~InHand(o) /\ o \notin members'
    <3>1. ~InHand(o)
      BY <1>2, <2>2
    <3>2. CASE r.op = "join"
      <4>1. req'[h] = r
        BY <1>0, <2>1
      <4>2. o # m
        BY <1>3, <2>1, <2>4, <3>2, <4>1, IdleAssumption DEF IdleAssumption
      <4>3. QED
        BY <2>1, <2>4, <3>1, <3>2, <4>2
    <3>3. CASE r.op = "leave"
      BY <2>1, <2>4, <3>1, <3>3
    <3>4. QED
      BY <2>1, <3>2, <3>3
  <2>5. TableTrue'
    BY <1>0, <1>2, <2>2, <2>4 DEF TableTrue, Holds
  <2>6. QED
    BY <1>0, <1>6, <2>2, <2>3, <2>5, AdminKeeps
<1>10. CASE Store(h) \/ Erase(h) \/ LeaveUnlinks(h)
  <2>1. /\ req' = [req EXCEPT ![h] = Idle] /\ UNCHANGED <<members, dns, engine>>
        /\ req[h] # Idle /\ req[h].mac \in MACs
    BY <1>0, <1>7, <1>10 DEF Store, Erase, LeaveUnlinks, Answer, Working
  <2>2. PICK r, m : r = req[h] /\ m = r.mac
    OBVIOUS
  <2>3. CopiesTrue' /\ \A o \in MACs : ~InHand(o)'
    BY <1>0, <1>3, <1>4, <2>1
  <2>4. \A o \in MACs : o # m => rows'[o] = rows[o] /\ ~InHand(o)
    BY <1>0, <1>2, <1>10, <2>2 DEF Store, Erase, LeaveUnlinks
  <2>5. \/ rows'[m] = rows[m] /\ ~InHand(m)
        \/ rows'[m] = NoRow
        \/ /\ rows[m] \in Row /\ rows'[m] = [rows[m] EXCEPT !.joined = FALSE]
           /\ rows[m] # NoRow /\ ~InHand(m)
        \/ /\ rows'[m] = r.row /\ r.op \in {"touch", "rename"} /\ Carries(r) /\ ~InHand(m)
        \/ /\ rows'[m] = r.row /\ r.op = "join" /\ r.step = "save" /\ Carries(r)
    <3>1. CASE Store(h)
      <4>1. r.op \in {"touch", "rename", "join"} /\ r.step = "save" /\ Carries(r) /\ CopyTrue(r)
        BY <1>7, <2>1, <2>2, <3>1 DEF Store, Keeping, Carries
      <4>2. \/ rows'[m] = r.row
            \/ rows'[m] = rows[m] /\ rows[m] # NoRow /\ rows[m].id # r.row.id
        BY <1>0, <2>1, <2>2, <3>1 DEF Store
      <4>3. CASE r.op = "join"
        BY <2>2, <4>1, <4>2, <4>3 DEF CopyTrue
      <4>4. CASE r.op \in {"touch", "rename"}
        <5>1. ~InHand(m)
          BY <1>2, <2>2, <4>4
        <5>2. QED
          BY <4>1, <4>2, <4>4, <5>1
      <4>5. QED
        BY <4>1, <4>3, <4>4
    <3>2. CASE Erase(h)
      <4>1. rows[m] = r.row /\ rows[m] # NoRow
        BY <1>0, <1>7, <2>1, <2>2, <3>2 DEF Erase, Working, CopyTrue, Carries
      <4>2. QED
        BY <1>0, <2>1, <2>2, <3>2, <4>1 DEF Erase
    <3>3. CASE LeaveUnlinks(h)
      BY <1>0, <1>2, <2>1, <2>2, <3>3 DEF LeaveUnlinks, Working
    <3>4. QED
      BY <1>10, <3>1, <3>2, <3>3
  <2>6. rows'[m] # NoRow => Leased(m, rows'[m])
    <3>1. rows[m] \in Row /\ rows'[m] = [rows[m] EXCEPT !.joined = FALSE]
              => rows'[m].ip = rows[m].ip /\ rows'[m].static = rows[m].static
      BY DEF Row
    <3>2. Carries(r) => Leased(m, r.row)
      BY <1>7, <2>1, <2>2
    <3>3. QED
      BY <1>6, <2>1, <2>2, <2>5, <3>1, <3>2 DEF Leased
  <2>7. Holds(m)' => /\ ~rows'[m].excluded /\ rows'[m].ip # NoIP /\ rows'[m].zone # NoZone
                     /\ m \notin members /\ Published(rows'[m]) \in dns
    <3>0. Holds(m) /\ ~InHand(m) => /\ ~rows[m].excluded /\ rows[m].ip # NoIP
                                   /\ rows[m].zone # NoZone
                                   /\ m \notin members /\ Published(rows[m]) \in dns
      BY <1>0, <2>1, <2>2 DEF TableTrue
    <3>1. CASE rows'[m] = rows[m] /\ ~InHand(m)
      BY <3>0, <3>1 DEF Holds
    <3>2. CASE /\ rows[m] \in Row /\ rows'[m] = [rows[m] EXCEPT !.joined = FALSE]
               /\ rows[m] # NoRow /\ ~InHand(m)
      <4>1. /\ rows'[m].synced = rows[m].synced /\ rows'[m].excluded = rows[m].excluded
            /\ rows'[m].ip = rows[m].ip /\ rows'[m].zone = rows[m].zone
            /\ Published(rows'[m]) = Published(rows[m])
        BY <3>2 DEF Row, Published
      <4>2. QED
        BY <3>0, <3>2, <4>1 DEF Holds
    <3>3. CASE rows'[m] = r.row /\ r.op \in {"touch", "rename"} /\ Carries(r) /\ ~InHand(m)
      <4>1. CopyTrue(r)
        BY <1>7, <2>1, <2>2
      <4>2. r.row.synced => /\ Holds(m) /\ r.row.excluded = rows[m].excluded
                            /\ r.row.ip = rows[m].ip /\ r.row.zone = rows[m].zone
                            /\ Published(r.row) = Published(rows[m])
        BY <2>2, <3>3, <4>1 DEF CopyTrue, Alike, Published
      <4>3. QED
        BY <3>0, <3>3, <4>2 DEF Holds
    <3>4. CASE rows'[m] = r.row /\ r.op = "join" /\ r.step = "save" /\ Carries(r)
      BY <1>7, <2>1, <2>2, <3>4 DEF CopyTrue, Holds
    <3>5. QED
      BY <2>5, <3>1, <3>2, <3>3, <3>4 DEF Holds
  <2>8. TableTrue'
    <3> SUFFICES ASSUME NEW o \in MACs, Holds(o)'
                 PROVE  /\ ~rows'[o].excluded /\ rows'[o].ip # NoIP /\ rows'[o].zone # NoZone
                        /\ o \notin members' /\ Published(rows'[o]) \in dns'
      BY DEF TableTrue, Published
    <3>1. CASE o = m
      BY <2>1, <2>7, <3>1
    <3>2. CASE o # m
      <4>1. rows'[o] = rows[o] /\ ~InHand(o) /\ Holds(o)
        BY <2>4, <3>2 DEF Holds
      <4>2. QED
        BY <1>0, <2>1, <4>1 DEF TableTrue
    <3>3. QED
      BY <3>1, <3>2
  <2>9. \A o \in MACs : rows'[o] # NoRow => Leased(o, rows'[o])
    BY <1>6, <2>4, <2>6
  <2>10. QED
    BY <1>0, <2>1, <2>3, <2>8, <2>9, AdminKeeps
<1>11. CASE JoinLoads(h)
  <2>1. req[h] # Idle /\ req[h].op = "join" /\ req[h].mac \in MACs /\ UNCHANGED vars
    BY <1>7, <1>11 DEF JoinLoads, Working
  <2>2. PICK m : m = req[h].mac
    OBVIOUS
  <2>3. UNCHANGED <<rows, members, dns, engine>>
    BY <2>1 DEF vars, table
  <2>4. CASE rows[m] = NoRow /\ Answer(h)
    <3>1. CopiesTrue'
      BY <1>4, <2>4 DEF Answer
    <3>2. \A o \in MACs : InHand(o) => o = m
      BY <1>2, <2>2
    <3>3. TableTrue'
      BY <1>0, <2>2, <2>3, <2>4, <3>2 DEF TableTrue, Holds
    <3>4. QED
      BY <1>0, <1>6, <2>3, <3>1, <3>3, AdminKeeps
  <2>5. CASE rows[m] # NoRow /\ Advance(h, rows[m], "dns")
    <3>0. rows[m] \in Row
      BY <1>0, <2>1, <2>2, <2>5
    <3>1. /\ req'[h].op = "join" /\ req'[h].mac = m /\ req'[h].row = rows[m]
          /\ req'[h].step = "dns" /\ req'[h] # Idle
      BY <1>5, <2>1, <2>2, <2>5, <3>0
    <3>2. CopyTrue(req[h])' /\ Leased(req'[h].mac, req'[h].row)
      BY <1>6, <2>1, <2>2, <2>3, <2>5, <3>1 DEF CopyTrue
    <3>3. CopiesTrue'
      BY <1>1, <3>1, <3>2 DEF CopiesTrue, Keeping, Leased
    <3>4. \A o \in MACs : InHand(o) => InHand(o)'
      BY <1>2, <1>3, <2>2, <3>1
    <3>5. TableTrue'
      BY <1>0, <2>3, <3>4 DEF TableTrue, Holds
    <3>6. QED
      BY <1>0, <1>6, <2>3, <3>3, <3>5, AdminKeeps
  <2>6. QED
    BY <1>11, <2>2, <2>4, <2>5 DEF JoinLoads
<1>12. CASE ForgetTakesDown(h)
  <2>1. /\ req[h] # Idle /\ req[h].op = "forget" /\ req[h].step = "dns" /\ req[h].mac \in MACs
        /\ req[h].row \in Row /\ rows[req[h].mac] = req[h].row
    BY <1>7, <1>12 DEF ForgetTakesDown, Working, Carries, CopyTrue
  <2>2. PICK m : m = req[h].mac
    OBVIOUS
  <2>3. /\ TakeDown(m, rows[m]) /\ Advance(h, rows[m], "save")
        /\ UNCHANGED <<table, engine>> /\ rows[m] # NoRow
    BY <1>0, <1>12, <2>1, <2>2 DEF ForgetTakesDown
  <2>4. /\ req'[h] # Idle /\ req'[h].op = "forget" /\ req'[h].mac = m
        /\ req'[h].row = rows[m] /\ req'[h].step = "save"
    BY <1>5, <2>1, <2>2, <2>3
  <2>5. CopyTrue(req[h])' /\ Leased(req'[h].mac, req'[h].row) /\ rows' = rows
    BY <1>6, <2>1, <2>2, <2>3, <2>4 DEF CopyTrue, table
  <2>6. CopiesTrue'
    BY <1>1, <2>4, <2>5 DEF CopiesTrue, Keeping, Leased
  <2>7. InHand(m)' /\ \A o \in MACs : o # m => (InHand(o) => InHand(o)')
    BY <1>2, <1>3, <2>1, <2>2, <2>4
  <2>8. TableTrue'
    BY <1>0, <2>1, <2>2, <2>3, <2>7, TakeDownTrue DEF KeepInv
  <2>9. QED
    BY <1>0, <1>6, <2>3, <2>5, <2>6, <2>8, AdminKeeps
<1>13. CASE JoinTakesDown(h)
  <2>1. /\ req[h] # Idle /\ req[h].op = "join" /\ req[h].step = "dns" /\ req[h].mac \in MACs
        /\ req[h].row \in Row /\ rows[req[h].mac] = req[h].row
    BY <1>7, <1>13 DEF JoinTakesDown, Working, Carries, CopyTrue
  <2>2. PICK m : m = req[h].mac
    OBVIOUS
  <2>3. PICK cleared, new :
            /\ cleared = (rows[m].synced /\ ~rows[m].excluded /\ rows[m].zone # NoZone)
            /\ new = [rows[m] EXCEPT !.joined = TRUE, !.synced = @ /\ ~cleared]
    OBVIOUS
  <2>4. /\ TakeDown(m, rows[m]) /\ Advance(h, new, "save")
        /\ UNCHANGED <<table, engine>> /\ rows[m] # NoRow
    BY <1>0, <1>13, <2>1, <2>2, <2>3 DEF JoinTakesDown
  <2>5. new \in Row /\ ~new.synced /\ new.id = rows[m].id
        /\ new.ip = rows[m].ip /\ new.static = rows[m].static
    <3>1. rows[m].synced => ~rows[m].excluded /\ rows[m].zone # NoZone
      BY <1>0, <2>1, <2>2, <2>4 DEF TableTrue, Holds
    <3>2. rows[m] \in Row
      BY <2>1, <2>2
    <3>3. cleared = rows[m].synced
      BY <2>3, <3>1, <3>2 DEF Row
    <3>4. new = [rows[m] EXCEPT !.joined = TRUE, !.synced = FALSE]
      BY <2>3, <3>2, <3>3 DEF Row
    <3>5. QED
      BY <3>2, <3>4 DEF Row
  <2>6. /\ req'[h] # Idle /\ req'[h].op = "join" /\ req'[h].mac = m
        /\ req'[h].row = new /\ req'[h].step = "save"
    BY <1>5, <2>1, <2>2, <2>4, <2>5
  <2>7. CopyTrue(req[h])' /\ Leased(req'[h].mac, req'[h].row) /\ rows' = rows
    BY <1>6, <2>1, <2>2, <2>4, <2>5, <2>6 DEF CopyTrue, table, Leased
  <2>8. CopiesTrue'
    BY <1>1, <2>6, <2>7 DEF CopiesTrue, Keeping, Leased
  <2>9. InHand(m)' /\ \A o \in MACs : o # m => (InHand(o) => InHand(o)')
    BY <1>2, <1>3, <2>1, <2>2, <2>6
  <2>10. TableTrue'
    BY <1>0, <2>1, <2>2, <2>4, <2>9, TakeDownTrue DEF KeepInv
  <2>11. QED
    BY <1>0, <1>6, <2>4, <2>7, <2>8, <2>10, AdminKeeps
<1>14. ASSUME NEW m \in Editable, NEW name \in Names, NEW pin \in AnyZone,
              Register(h, m, name, pin)
       PROVE  KeepInv'
  <2>1. PICK new : new = Registration(m, name, pin)
    OBVIOUS
  <2>2. /\ \A o \in MACs : rows'[o] = IF o = m THEN new ELSE rows[o]
        /\ UNCHANGED <<members, dns, engine, req>> /\ req[h] = Idle /\ m \in MACs
    BY <1>0, <1>14, <2>1 DEF Register
  <2>3. \/ rows[m] = NoRow /\ ~new.synced /\ new.ip = NoIP /\ new.static = NoIP
        \/ /\ rows[m] # NoRow /\ new.synced = rows[m].synced /\ ~new.excluded
           /\ new.ip = rows[m].ip /\ new.static = rows[m].static /\ new.zone = rows[m].zone
           /\ Published(new) = Published(rows[m])
    <3>1. CASE rows[m] = NoRow
      BY <2>1, <3>1 DEF Registration
    <3>2. CASE rows[m] # NoRow
      <4>1. rows[m] \in Row
        BY <1>0, <2>2, <3>2
      <4>2. new = [rows[m] EXCEPT !.override = name, !.pin = pin, !.excluded = FALSE]
        BY <2>1, <3>2 DEF Registration
      <4>3. QED
        BY <3>2, <4>1, <4>2 DEF Row, Published
    <3>3. QED
      BY <3>1, <3>2
  <2>4. \A o \in MACs : ~InHand(o)
    BY <1>2, <2>2
  <2>5. TableTrue'
    <3> SUFFICES ASSUME NEW o \in MACs, Holds(o)'
                 PROVE  /\ ~rows'[o].excluded /\ rows'[o].ip # NoIP /\ rows'[o].zone # NoZone
                        /\ o \notin members' /\ Published(rows'[o]) \in dns'
      BY DEF TableTrue, Published
    <3>1. CASE o = m
      BY <1>0, <2>2, <2>3, <2>4, <3>1 DEF TableTrue, Holds
    <3>2. CASE o # m
      BY <1>0, <2>2, <2>4, <3>2 DEF TableTrue, Holds
    <3>3. QED
      BY <3>1, <3>2
  <2>6. CopiesTrue'
    BY <1>1, <2>2 DEF CopiesTrue
  <2>7. \A o \in MACs : rows'[o] # NoRow => Leased(o, rows'[o])
    BY <1>6, <2>2, <2>3 DEF Leased
  <2>8. QED
    BY <1>0, <2>2, <2>5, <2>6, <2>7, AdminKeeps
<1>15. QED
  BY <1>8, <1>9, <1>10, <1>11, <1>12, <1>13, <1>14 DEF Admin

(* Every step keeps the records.                                           *)
LEMMA NextKeep ==
    ASSUME NEW c, Controllers = {c}, ~Overlap, ~MayFail, ~LostReplies, ~MayCrash,
           Ops \subseteq Keeping, PublicOnly, OneAdmin, LeasesApart, KeepInv, [NextD]_dvars
    PROVE  KeepInv'
<1>1. EditInv' /\ TypeInv /\ TypeInv'
  <2>1. Ops \subseteq Harmless
    BY DEF Keeping, Harmless
  <2>2. EditInv'
    BY <2>1, NextEdits DEF KeepInv
  <2>3. QED
    BY <2>2 DEF KeepInv, EditInv, DashboardInv
<1>2. ASSUME [Next]_vars, AllIdle, AllIdle' PROVE KeepInv'
  <2>1. NamesInv /\ MarksInv /\ AddressInv /\ LeaseInv
    BY <1>2 DEF KeepInv, EditInv
  <2>2. MarksInv' /\ AddressInv' /\ LeaseInv'
    BY <1>1, <1>2, <2>1, NextMarks, NextAddress, NextLeases
  <2>3. (phase = "idle" => TableTrue)'
    BY <2>2, MarksTable, PTL
  <2>4. Kept' /\ CopiesTrue'
    BY <1>2, <2>2 DEF MarksInv, CopiesTrue, AllIdle
  <2>5. QED
    BY <1>1, <2>2, <2>3, <2>4 DEF KeepInv
<1>3. CASE AllIdle /\ Cycle /\ UNCHANGED req
  BY <1>2, <1>3 DEF Next, AllIdle
<1>4. ASSUME NEW h \in Admins, phase = "idle", Admin(h) PROVE KeepInv'
  BY <1>1, <1>4, AdminKeep
<1>5. CASE UNCHANGED dvars
  <2>1. UNCHANGED <<rows, members, dns, phase, skip, changes, outcome, req, found, result, seen>>
    BY <1>5 DEF dvars, vars, table, engine, pass
  <2>2. CopiesTrue' /\ LeaseInv' /\ Kept' /\ (phase = "idle" => TableTrue)'
    BY <2>1 DEF KeepInv, CopiesTrue, CopyTrue, Holds, Alike, Leased, Carries, LeaseInv, Kept,
                TableTrue, InHand, Published
  <2>3. CASE AllIdle
    <3>1. AllIdle' /\ [Next]_vars
      BY <1>5, <2>3 DEF dvars, AllIdle
    <3>2. QED
      BY <1>2, <2>3, <3>1
  <2>4. CASE ~AllIdle
    BY <1>1, <2>1, <2>2, <2>4 DEF KeepInv, AllIdle
  <2>5. QED
    BY <2>3, <2>4
<1>6. QED
  BY <1>3, <1>4, <1>5 DEF NextD, Crash

(* With one controller and one admin, cycles that wait for handlers, calls *)
(* that get through and devices with addresses of their own, renaming,     *)
(* registering, forgetting and grouping devices never leaves a mark        *)
(* without its record: whatever is still marked as published once the      *)
(* admin is done is.                                                       *)
THEOREM EditsKeep ==
    ASSUME NEW c, Controllers = {c}, ~Overlap, ~MayFail, ~LostReplies, ~MayCrash,
           Ops \subseteq Keeping, PublicOnly, OneAdmin, LeasesApart
    PROVE  SpecD => []EditsKeepRecords
<1>1. InitD => KeepInv
  <2> SUFFICES ASSUME InitD PROVE KeepInv
    OBVIOUS
  <2>1. TypeInv /\ NamesInv /\ MarksInv /\ AllIdle
    BY InitTypeInv, InitNames, InitMarks DEF InitD, AllIdle
  <2>2. EditInv
    <3>1. OpenInv
      BY DashboardAssumption DEF DashboardAssumption, InitD, Init, Nothing, OpenInv
    <3>2. QED
      BY <2>1, <3>1, TableHeld, TableOpen
      DEF InitD, EditInv, DashboardInv, RequestInv, AllIdle, Turns
  <2>3. \A m \in MACs : rows[m] = NoRow /\ found[m] = NoRow /\ result[m] = NoRow /\ seen[m] = Absent
    BY DEF InitD, Init, Nothing
  <2>4. AddressInv /\ LeaseInv /\ TableTrue
    BY <2>3 DEF AddressInv, LeaseInv, TableTrue, Holds
  <2>5. CopiesTrue
    BY <2>1 DEF CopiesTrue, AllIdle
  <2>6. QED
    BY <2>1, <2>2, <2>4, <2>5 DEF KeepInv, MarksInv
<1>2. KeepInv /\ [NextD]_dvars => KeepInv'
  BY NextKeep
<1>3. KeepInv => EditsKeepRecords
  BY DEF KeepInv, MarksInv, Kept, RowsTrue, EditsKeepRecords, SyncedMeansPublished, Claimed
<1>4. QED
  BY <1>1, <1>2, <1>3, PTL DEF SpecD

-----------------------------------------------------------------------------
(* Records, while admins only edit what the next cycle will publish.       *)

(* The handlers that call no DNS server and erase nothing.                 *)
Gentle == {"touch", "rename", "address", "register"}

(* A row or a copy of one that says no more than the server does.          *)
Stands(m, row) ==
    row.synced =>
        /\ ~row.excluded /\ m \notin members /\ row.zone # NoZone
        /\ row.ip # NoIP => Published(row) \in dns

RowsStand == \A m \in MACs : rows[m] # NoRow => Stands(m, rows[m])

CopiesStand ==
    \A h \in Admins : req[h] # Idle => req[h].op \in Gentle /\ Stands(req[h].mac, req[h].row)

StandInv == EditInv /\ MarksInv /\ CopiesStand

(* Between cycles the marks are those of the table.                        *)
LEMMA IdleMarks ==
    ASSUME TypeInv, Kept, phase = "idle"
    PROVE  MarksInv <=> RowsStand
<1>1. changes = <<>> /\ \A m \in MACs : outcome[m] = "none" /\ result[m] = NoRow
  BY DEF TypeInv, InPass, Kept, Nothing
<1>2. SameIds /\ ResultTrue /\ ChangesTrue
  BY <1>1 DEF SameIds, ResultTrue, ChangesTrue
<1>3. RowsTrue <=> RowsStand
  BY <1>1 DEF RowsTrue, RowsStand, Stands
<1>4. QED
  BY <1>2, <1>3 DEF MarksInv

(* What these handlers make of a row.                                      *)
LEMMA GentleEdit ==
    ASSUME NEW row \in Row, NEW m \in MACs, NEW op \in Gentle \ {"register"},
           NEW new \in Edited(op, m, row)
    PROVE  /\ Alike(row, new) /\ new.excluded = row.excluded
           /\ new.synced = (row.synced /\ op # "rename")
<1>1. CASE op = "rename"
  <2>1. PICK n : new = [row EXCEPT !.override = n, !.synced = FALSE]
    BY <1>1 DEF Edited, Renamed
  <2>2. QED
    BY <1>1, <2>1 DEF Row, Alike
<1>2. CASE op = "address"
  <2>1. PICK ip : new = [row EXCEPT !.static = ip]
    BY <1>2 DEF Edited, Readdressed
  <2>2. QED
    BY <1>2, <2>1 DEF Row, Alike
<1>3. CASE op = "touch"
  BY <1>3 DEF Edited, Row, Alike
<1>4. QED
  BY <1>1, <1>2, <1>3 DEF Gentle

LEMMA GentleRegistration ==
    ASSUME rows \in [MACs -> Row \cup {NoRow}], NEW m \in MACs, NEW name, NEW pin,
           rows[m] # NoRow => ~rows[m].excluded
    PROVE  LET new == Registration(m, name, pin)
           IN IF rows[m] = NoRow THEN ~new.synced
              ELSE /\ Alike(rows[m], new) /\ new.excluded = rows[m].excluded
                   /\ new.synced = rows[m].synced
<1> DEFINE new == Registration(m, name, pin)
<1>1. CASE rows[m] = NoRow
  BY <1>1 DEF Registration
<1>2. CASE rows[m] # NoRow
  <2>1. rows[m] \in Row
    BY <1>2
  <2>2. new = [rows[m] EXCEPT !.override = name, !.pin = pin, !.excluded = FALSE]
    BY <1>2 DEF Registration
  <2>3. /\ Alike(rows[m], new) /\ new.excluded = rows[m].excluded
        /\ new.synced = rows[m].synced
    BY <1>2, <2>1, <2>2 DEF Row, Alike
  <2>4. QED
    BY <1>2, <2>3
<1>3. QED
  BY <1>1, <1>2

(* The steps of these handlers: a copy is taken, a copy is saved, or a     *)
(* device is registered.                                                   *)
LEMMA GentleSteps ==
    ASSUME Ops \subseteq Gentle, EditInv, CopiesStand, NEW h \in Admins, Admin(h)
    PROVE  /\ UNCHANGED <<members, dns, engine>>
           /\ \/ \E op \in Ops \ {"register"}, m \in MACs : \E row \in Row, step \in {"dns", "save"} :
                    /\ rows[m] # NoRow /\ rows' = rows
                    /\ Alike(rows[m], row) /\ row.excluded = rows[m].excluded
                    /\ row.synced = (rows[m].synced /\ op # "rename")
                    /\ req' = [req EXCEPT ![h] = [op |-> op, mac |-> m, row |-> row, step |-> step]]
              \/ /\ req[h] # Idle /\ Answer(h)
                 /\ rows' = rows \/ rows' = [rows EXCEPT ![req[h].mac] = req[h].row]
              \/ \E m \in MACs, new \in Row :
                    /\ req' = req /\ rows' = [rows EXCEPT ![m] = new]
                    /\ IF rows[m] = NoRow THEN ~new.synced
                       ELSE /\ Alike(rows[m], new) /\ new.excluded = rows[m].excluded
                            /\ new.synced = rows[m].synced
<1>0. /\ rows \in [MACs -> Row \cup {NoRow}] /\ made \in [MACs -> Nat] /\ Editable \subseteq MACs
  BY DashboardAssumption DEF DashboardAssumption, EditInv, DashboardInv, TypeInv, TypeOK
<1>1. ASSUME NEW m \in Editable, NEW op \in Ops, Load(h, op, m)
      PROVE  /\ UNCHANGED <<members, dns, engine>>
             /\ \E row \in Row, step \in {"dns", "save"} :
                    /\ rows[m] # NoRow /\ rows' = rows /\ op # "register"
                    /\ Alike(rows[m], row) /\ row.excluded = rows[m].excluded
                    /\ row.synced = (rows[m].synced /\ op # "rename")
                    /\ req' = [req EXCEPT ![h] = [op |-> op, mac |-> m, row |-> row, step |-> step]]
  <2>1. /\ op # "register" /\ op \in Gentle /\ op \in {"rename", "touch", "address"}
        /\ rows[m] \in Row /\ rows[m] # NoRow /\ m \in MACs /\ UNCHANGED vars
    BY <1>0, <1>1 DEF Load, Gentle
  <2>2. PICK row \in Edited(op, m, rows[m]) :
            req' = [req EXCEPT ![h] = [op |-> op, mac |-> m, row |-> row,
                                       step |-> IF op = "forget" THEN "dns" ELSE "save"]]
    BY <1>1 DEF Load
  <2>3. row \in Row
    BY <2>1, EditedType
  <2>4. /\ Alike(rows[m], row) /\ row.excluded = rows[m].excluded
        /\ row.synced = (rows[m].synced /\ op # "rename")
    BY <2>1, GentleEdit
  <2>5. UNCHANGED <<rows, members, dns, engine>>
    BY <2>1 DEF vars, table
  <2>6. QED
    BY <2>1, <2>2, <2>3, <2>4, <2>5
<1>2. ASSUME NEW m \in Editable, NEW name \in Names, NEW pin \in AnyZone, Register(h, m, name, pin)
      PROVE  /\ UNCHANGED <<members, dns, engine>>
             /\ \E new \in Row :
                    /\ req' = req /\ rows' = [rows EXCEPT ![m] = new]
                    /\ IF rows[m] = NoRow THEN ~new.synced
                       ELSE /\ Alike(rows[m], new) /\ new.excluded = rows[m].excluded
                            /\ new.synced = rows[m].synced
  <2>1. m \in MACs /\ "register" \in Ops
    BY <1>0, <1>2 DEF Register
  <2>2. rows[m] # NoRow => ~rows[m].excluded
    <3>1. rows[m] # NoRow => ClaimOf(m, rows[m]) \in Held
      BY <2>1 DEF Held
    <3>2. QED
      BY <1>2, <2>1, <3>1 DEF EditInv, HeldOpen, ClaimOf
  <2>3. PICK new : new = Registration(m, name, pin)
    OBVIOUS
  <2>4. new \in Row
    BY <1>0, <2>1, <2>3, RegistrationType
  <2>5. IF rows[m] = NoRow THEN ~new.synced
        ELSE /\ Alike(rows[m], new) /\ new.excluded = rows[m].excluded
             /\ new.synced = rows[m].synced
    BY <1>0, <2>1, <2>2, <2>3, GentleRegistration
  <2>6. QED
    BY <1>2, <2>3, <2>4, <2>5 DEF Register
<1>3. CASE Store(h)
  BY <1>3 DEF Store
<1>4. ASSUME NEW m, Join(h, m) \/ Leave(h, m) PROVE FALSE
  BY <1>4 DEF Join, Leave, Gentle
<1>5. CASE ForgetTakesDown(h) \/ Erase(h) \/ JoinLoads(h) \/ JoinTakesDown(h) \/ LeaveUnlinks(h)
  BY <1>5 DEF ForgetTakesDown, Erase, JoinLoads, JoinTakesDown, LeaveUnlinks, Working,
              CopiesStand, Gentle
<1>6. QED
  BY <1>0, <1>1, <1>2, <1>3, <1>4, <1>5 DEF Admin

(* They never make a row or a copy say more than the server does.          *)
LEMMA AdminStands ==
    ASSUME Ops \subseteq Gentle, StandInv, EditInv', phase = "idle", NEW h \in Admins, Admin(h)
    PROVE  StandInv'
<1>0. /\ rows \in [MACs -> Row \cup {NoRow}] /\ req \in [Admins -> Request \cup {Idle}]
      /\ TypeInv /\ TypeInv' /\ Kept /\ RowsStand
  BY IdleMarks DEF StandInv, EditInv, DashboardInv, TypeInv, TypeOK, MarksInv
<1>1. UNCHANGED <<members, dns, engine>>
  BY GentleSteps DEF StandInv
<1>2. Kept' /\ (phase = "idle")'
  BY <1>0, <1>1 DEF Kept, engine, pass
<1>3. ASSUME NEW m, NEW row, NEW new, Stands(m, row), Alike(row, new),
             new.excluded = row.excluded, new.synced => row.synced
      PROVE  Stands(m, new)
  BY <1>3 DEF Stands, Alike, Published
<1>4. ASSUME RowsStand', CopiesStand' PROVE StandInv'
  BY <1>0, <1>2, <1>4, IdleMarks, PTL DEF StandInv
<1>5. CASE \E op \in Ops \ {"register"}, m \in MACs : \E row \in Row, step \in {"dns", "save"} :
              /\ rows[m] # NoRow /\ rows' = rows
              /\ Alike(rows[m], row) /\ row.excluded = rows[m].excluded
              /\ row.synced = (rows[m].synced /\ op # "rename")
              /\ req' = [req EXCEPT ![h] = [op |-> op, mac |-> m, row |-> row, step |-> step]]
  <2>1. PICK op \in Ops \ {"register"}, m \in MACs, row \in Row, step \in {"dns", "save"} :
            /\ rows[m] # NoRow /\ rows' = rows
            /\ Alike(rows[m], row) /\ row.excluded = rows[m].excluded
            /\ row.synced = (rows[m].synced /\ op # "rename")
            /\ req' = [req EXCEPT ![h] = [op |-> op, mac |-> m, row |-> row, step |-> step]]
    BY <1>5
  <2>2. Stands(m, row)
    <3>1. Stands(m, rows[m]) /\ (row.synced => rows[m].synced)
      BY <1>0, <2>1 DEF RowsStand
    <3>2. QED
      BY <1>3, <2>1, <3>1
  <2>3. req'[h].op = op /\ req'[h].mac = m /\ req'[h].row = row
        /\ \A g \in Admins : g # h => req'[g] = req[g]
    BY <1>0, <2>1
  <2>4. CopiesStand' /\ RowsStand'
    BY <1>0, <1>1, <2>1, <2>2, <2>3 DEF StandInv, CopiesStand, RowsStand, Stands
  <2>5. QED
    BY <1>4, <2>4
<1>6. CASE /\ req[h] # Idle /\ Answer(h)
           /\ rows' = rows \/ rows' = [rows EXCEPT ![req[h].mac] = req[h].row]
  <2>1. Stands(req[h].mac, req[h].row)
    BY <1>6 DEF StandInv, CopiesStand
  <2>2. \A m \in MACs : rows'[m] = rows[m] \/ (m = req[h].mac /\ rows'[m] = req[h].row)
    BY <1>0, <1>6
  <2>3. RowsStand'
    BY <1>0, <1>1, <2>1, <2>2 DEF RowsStand, Stands
  <2>4. \A g \in Admins : req'[g] # Idle => req'[g] = req[g]
    BY <1>0, <1>6 DEF Answer
  <2>5. CopiesStand'
    BY <1>1, <2>4 DEF StandInv, CopiesStand, Stands
  <2>6. QED
    BY <1>4, <2>3, <2>5
<1>7. CASE \E m \in MACs, new \in Row :
              /\ req' = req /\ rows' = [rows EXCEPT ![m] = new]
              /\ IF rows[m] = NoRow THEN ~new.synced
                 ELSE /\ Alike(rows[m], new) /\ new.excluded = rows[m].excluded
                      /\ new.synced = rows[m].synced
  <2>1. PICK m \in MACs, new \in Row :
            /\ req' = req /\ rows' = [rows EXCEPT ![m] = new]
            /\ IF rows[m] = NoRow THEN ~new.synced
               ELSE /\ Alike(rows[m], new) /\ new.excluded = rows[m].excluded
                    /\ new.synced = rows[m].synced
    BY <1>7
  <2>2. Stands(m, new)
    <3>1. CASE rows[m] = NoRow
      BY <2>1, <3>1 DEF Stands
    <3>2. CASE rows[m] # NoRow
      BY <1>0, <1>3, <2>1, <3>2 DEF RowsStand
    <3>3. QED
      BY <3>1, <3>2
  <2>3. \A o \in MACs : rows'[o] = rows[o] \/ (o = m /\ rows'[o] = new)
    BY <1>0, <2>1
  <2>4. RowsStand' /\ CopiesStand'
    BY <1>0, <1>1, <2>1, <2>2, <2>3 DEF StandInv, CopiesStand, RowsStand, Stands
  <2>5. QED
    BY <1>4, <2>4
<1>8. QED
  BY <1>5, <1>6, <1>7, GentleSteps DEF StandInv

(* Every step keeps the marks true.                                        *)
LEMMA NextStand ==
    ASSUME NEW c, Controllers = {c}, ~Overlap, ~LostReplies, ~MayCrash,
           Ops \subseteq Gentle, PublicOnly, StandInv, [NextD]_dvars
    PROVE  StandInv'
<1>1. EditInv' /\ TypeInv
  <2>1. Ops \subseteq Harmless
    BY DEF Gentle, Harmless
  <2>2. QED
    BY <2>1, NextEdits DEF StandInv, EditInv, DashboardInv
<1>2. ASSUME [Next]_vars PROVE MarksInv'
  BY <1>1, <1>2, NextMarks DEF StandInv, EditInv
<1>3. CASE AllIdle /\ Cycle /\ UNCHANGED req
  BY <1>1, <1>2, <1>3 DEF Next, StandInv, CopiesStand, AllIdle
<1>4. ASSUME NEW h \in Admins, phase = "idle", Admin(h) PROVE StandInv'
  BY <1>1, <1>4, AdminStands
<1>5. CASE UNCHANGED dvars
  BY <1>1, <1>2, <1>5 DEF dvars, vars, table, StandInv, CopiesStand, Stands
<1>6. QED
  BY <1>3, <1>4, <1>5 DEF NextD, Crash

LEMMA InitStand ==
    ASSUME InitD
    PROVE  StandInv
<1>1. TypeInv /\ NamesInv /\ MarksInv /\ AllIdle
  BY InitTypeInv, InitNames, InitMarks DEF InitD, AllIdle
<1>2. OpenInv
  BY DashboardAssumption DEF DashboardAssumption, InitD, Init, Nothing, OpenInv
<1>3. EditInv
  BY <1>1, <1>2, TableHeld, TableOpen
  DEF InitD, EditInv, DashboardInv, RequestInv, AllIdle, Turns
<1>4. QED
  BY <1>1, <1>3 DEF StandInv, CopiesStand, AllIdle

(* With one controller and cycles that wait for handlers, renaming,        *)
(* readdressing and registering devices, by any number of admins at once,  *)
(* never marks a device as published whose record is not there, whichever  *)
(* calls fail (handlers.go, setOverride, changeAddressing; register.go).   *)
THEOREM EditedMarksTrue ==
    ASSUME NEW c, Controllers = {c}, ~Overlap, ~LostReplies, ~MayCrash,
           Ops \subseteq Gentle, PublicOnly
    PROVE  SpecD => []SyncedMeansPublished
<1>1. InitD => StandInv
  BY InitStand
<1>2. StandInv /\ [NextD]_dvars => StandInv'
  BY NextStand
<1>3. StandInv => SyncedMeansPublished
  BY DEF StandInv, MarksInv, Kept, RowsTrue, SyncedMeansPublished, Claimed
<1>4. QED
  BY <1>1, <1>2, <1>3, PTL DEF SpecD

(* A copy that will be saved says what the row says.                       *)
Faithful ==
    \A h \in Admins : req[h] # Idle =>
        /\ req[h].op # "rename" /\ rows[req[h].mac] # NoRow
        /\ Alike(rows[req[h].mac], req[h].row) /\ req[h].row.synced = rows[req[h].mac].synced

TidyInv == StandInv /\ OwnInv /\ Faithful

(* What handlers do to the table that leaves every record its device.      *)
LEMMA AdminOwns ==
    ASSUME TypeInv', OwnInv, MarksInv', phase' = "idle", UNCHANGED dns,
           \A m \in MACs : outcome[m] = "none",
           \A m \in MACs : Holds(m) => Holds(m)' /\ Alike(rows[m], rows'[m])
    PROVE  OwnInv'
<1>1. /\ changes' = <<>> /\ \A m \in MACs : outcome'[m] = "none" /\ result'[m] = NoRow
  BY DEF TypeInv, InPass, MarksInv, Kept, Nothing
<1>2. Carried' /\ CreatesFit'
  BY <1>1 DEF Carried, CreatesFit
<1>3. ASSUME NEW m \in MACs, NEW r, Owns(m, r) PROVE Owns(m, r)'
  BY <1>1, <1>3 DEF Owns, Finds, Alike, Holds
<1>4. QED
  BY <1>2, <1>3 DEF OwnInv, Owned

LEMMA AdminTidy ==
    ASSUME Ops \subseteq Gentle \ {"rename"}, TidyInv, StandInv', phase = "idle",
           NEW h \in Admins, Admin(h)
    PROVE  TidyInv'
<1>0. /\ rows \in [MACs -> Row \cup {NoRow}] /\ req \in [Admins -> Request \cup {Idle}]
      /\ TypeInv' /\ MarksInv' /\ Kept /\ NoRow \notin Row
  BY EngineAssumption
  DEF EngineAssumption, TidyInv, StandInv, EditInv, DashboardInv, TypeInv, TypeOK, MarksInv
<1>1. UNCHANGED <<members, dns, engine>>
  BY GentleSteps DEF TidyInv, StandInv
<1>2. phase' = "idle" /\ \A m \in MACs : outcome[m] = "none"
  BY <1>0, <1>1 DEF engine, Kept
<1>3. ASSUME \A m \in MACs : rows[m] # NoRow => /\ rows'[m] # NoRow /\ Alike(rows[m], rows'[m])
                                               /\ rows'[m].synced = rows[m].synced
      PROVE  OwnInv'
  BY <1>0, <1>1, <1>2, <1>3, AdminOwns DEF TidyInv, Holds
<1>4. CASE \E op \in Ops \ {"register"}, m \in MACs : \E row \in Row, step \in {"dns", "save"} :
              /\ rows[m] # NoRow /\ rows' = rows
              /\ Alike(rows[m], row) /\ row.excluded = rows[m].excluded
              /\ row.synced = (rows[m].synced /\ op # "rename")
              /\ req' = [req EXCEPT ![h] = [op |-> op, mac |-> m, row |-> row, step |-> step]]
  <2>1. PICK op \in Ops \ {"register"}, m \in MACs, row \in Row, step \in {"dns", "save"} :
            /\ rows[m] # NoRow /\ rows' = rows
            /\ Alike(rows[m], row) /\ row.excluded = rows[m].excluded
            /\ row.synced = (rows[m].synced /\ op # "rename")
            /\ req' = [req EXCEPT ![h] = [op |-> op, mac |-> m, row |-> row, step |-> step]]
    BY <1>4
  <2>2. /\ req'[h].op = op /\ req'[h].mac = m /\ req'[h].row = row
        /\ \A g \in Admins : g # h => req'[g] = req[g]
    BY <1>0, <2>1
  <2>3. op # "rename"
    OBVIOUS
  <2>4. row.synced = rows[m].synced
    BY <1>0, <2>1, <2>3 DEF Row
  <2>5. Faithful'
    BY <2>1, <2>2, <2>3, <2>4 DEF TidyInv, Faithful
  <2>6. OwnInv'
    BY <1>3, <2>1 DEF Alike
  <2>7. QED
    BY <2>5, <2>6 DEF TidyInv
<1>5. CASE /\ req[h] # Idle /\ Answer(h)
           /\ rows' = rows \/ rows' = [rows EXCEPT ![req[h].mac] = req[h].row]
  <2>1. /\ rows[req[h].mac] # NoRow
        /\ Alike(rows[req[h].mac], req[h].row) /\ req[h].row.synced = rows[req[h].mac].synced
    BY <1>5 DEF TidyInv, Faithful
  <2>2. req[h].row # NoRow
    BY <1>0, <1>5 DEF TidyInv, StandInv, CopiesStand, EditInv, DashboardInv, RequestInv, Carries, Gentle
  <2>3. \A m \in MACs : rows[m] # NoRow => /\ rows'[m] # NoRow /\ Alike(rows[m], rows'[m])
                                           /\ rows'[m].synced = rows[m].synced
    BY <1>0, <1>5, <2>1, <2>2 DEF Alike
  <2>4. \A g \in Admins : req'[g] # Idle => req'[g] = req[g] /\ req[g].mac \in MACs
    BY <1>0, <1>5 DEF Answer, Request
  <2>5. Faithful'
    BY <2>3, <2>4 DEF TidyInv, Faithful, Alike
  <2>6. QED
    BY <1>3, <2>3, <2>5 DEF TidyInv
<1>6. CASE \E m \in MACs, new \in Row :
              /\ req' = req /\ rows' = [rows EXCEPT ![m] = new]
              /\ IF rows[m] = NoRow THEN ~new.synced
                 ELSE /\ Alike(rows[m], new) /\ new.excluded = rows[m].excluded
                      /\ new.synced = rows[m].synced
  <2>1. PICK m \in MACs, new \in Row :
            /\ req' = req /\ rows' = [rows EXCEPT ![m] = new]
            /\ rows[m] # NoRow => Alike(rows[m], new) /\ new.synced = rows[m].synced
    BY <1>6
  <2>2. \A o \in MACs : rows[o] # NoRow => /\ rows'[o] # NoRow /\ Alike(rows[o], rows'[o])
                                           /\ rows'[o].synced = rows[o].synced
    BY <1>0, <2>1 DEF Alike
  <2>3. \A g \in Admins : req'[g] # Idle => req'[g] = req[g] /\ req[g].mac \in MACs
    BY <1>0, <2>1 DEF Request
  <2>4. Faithful'
    BY <2>2, <2>3 DEF TidyInv, Faithful, Alike
  <2>5. QED
    BY <1>3, <2>2, <2>4 DEF TidyInv
<1>7. QED
  BY <1>4, <1>5, <1>6, GentleSteps DEF TidyInv, StandInv

(* With one controller, cycles that wait for handlers and calls that get   *)
(* through, readdressing and registering devices leaves no record without  *)
(* a device that will find it again: any number of admins at once          *)
(* (handlers.go, changeAddressing; register.go, registerDevice: the name   *)
(* in the row is kept, or else it "would hide the rename and orphan the    *)
(* old record").                                                           *)
THEOREM EditsLeaveNothing ==
    ASSUME NEW c, Controllers = {c}, ~Overlap, ~MayFail, ~LostReplies, ~MayCrash,
           Ops \subseteq Gentle \ {"rename"}, PublicOnly
    PROVE  SpecD => []NoOrphans
<1>0. Ops \subseteq Gentle
  OBVIOUS
<1>1. InitD => TidyInv
  <2> SUFFICES ASSUME InitD PROVE TidyInv
    OBVIOUS
  <2>1. dns = {} /\ changes = <<>> /\ \A m \in MACs : rows[m] = NoRow
    BY DEF InitD, Init, Nothing
  <2>2. OwnInv /\ Faithful
    BY <2>1 DEF OwnInv, Owned, Carried, CreatesFit, Holds, InitD, Faithful
  <2>3. QED
    BY <2>2, InitStand DEF TidyInv
<1>2. ASSUME TidyInv, [NextD]_dvars PROVE TidyInv'
  <2>1. StandInv' /\ TypeInv /\ NamesInv /\ MarksInv
    BY <1>0, <1>2, NextStand DEF TidyInv, StandInv, EditInv, DashboardInv
  <2>2. ASSUME [Next]_vars PROVE OwnInv'
    BY <1>2, <2>1, <2>2, NextOwn DEF TidyInv
  <2>3. CASE AllIdle /\ Cycle /\ UNCHANGED req
    BY <2>1, <2>2, <2>3 DEF Next, TidyInv, Faithful, AllIdle
  <2>4. ASSUME NEW h \in Admins, phase = "idle", Admin(h) PROVE TidyInv'
    BY <1>2, <2>1, <2>4, AdminTidy
  <2>5. CASE UNCHANGED dvars
    BY <1>2, <2>1, <2>2, <2>5 DEF dvars, vars, table, TidyInv, Faithful, Alike
  <2>6. QED
    BY <1>2, <2>3, <2>4, <2>5 DEF NextD, Crash
<1>3. TidyInv => NoOrphans
  <2> SUFFICES ASSUME TidyInv, phase # "apply", NEW r \in dns
               PROVE  \E m \in MACs : /\ rows[m] # NoRow /\ rows[m].synced
                                      /\ rows[m].host = r.host /\ rows[m].zone = r.zone
                                      /\ rows[m].ip \in {r.ip, NoIP}
    BY DEF NoOrphans
  <2>1. PICK m \in MACs : Owns(m, r)
    BY DEF TidyInv, OwnInv, Owned
  <2>2. outcome[m] = "none"
    BY DEF TidyInv, StandInv, MarksInv, Kept
  <2>3. QED
    BY <2>1, <2>2 DEF Owns, Holds, Finds
<1>4. QED
  BY <1>1, <1>2, <1>3, PTL DEF SpecD
=============================================================================
