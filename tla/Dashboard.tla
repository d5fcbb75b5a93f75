----------------------------- MODULE Dashboard -----------------------------
(***************************************************************************)
(* The web handlers that edit devices, at work beside the sync engine.     *)
(* Most of them load a row, change a field of their copy, perhaps call     *)
(* another server, and then save the whole copy: the engine's cycle, which *)
(* does the same with every row, takes no lock that a handler takes.       *)
(***************************************************************************)
EXTENDS DeviceSync

CONSTANTS
    Admins,        \* web requests that can be in progress at once
    Ops,           \* the handlers at work in an instance
    Editable,      \* the devices they are used on
    Overlap,       \* requests and cycles may overlap
    MaxRows,       \* bound on the rows ever created for one MAC
    Idle           \* no request

AllOps == {"rename", "exclude", "touch", "address", "register", "forget", "join", "leave"}

ASSUME DashboardAssumption ==
    /\ Ops \subseteq AllOps /\ Editable \subseteq MACs
    /\ Overlap \in BOOLEAN /\ MaxRows \in Nat

VARIABLE req      \* req[h]: the request h is working on, Idle if none

dvars == <<vars, req>>

(* row is the handler's copy: what it will save, or what it will delete.   *)
Request == [op : AllOps, mac : MACs, row : Row \cup {NoRow}, step : {"load", "dns", "save"}]

ASSUME IdleAssumption == Idle \notin Request

DashboardTypeOK == TypeOK /\ req \in [Admins -> Request \cup {Idle}]

InitD == Init /\ req = [h \in Admins |-> Idle]

AllIdle == \A h \in Admins : req[h] = Idle

Working(h, op, step) == req[h] # Idle /\ req[h].op = op /\ req[h].step = step
Advance(h, row, step) == req' = [req EXCEPT ![h].row = row, ![h].step = step]
Answer(h) == req' = [req EXCEPT ![h] = Idle]

-----------------------------------------------------------------------------
(* deviceByID, and what each handler makes of its copy of the row.         *)

(* setOverride forces the next cycle to publish the new name.              *)
Renamed(row) == {[row EXCEPT !.override = n, !.synced = FALSE] : n \in AnyName}

(* toggleExclude, bulkAction                                               *)
Toggled(row) == {[row EXCEPT !.excluded = e] : e \in BOOLEAN}

(* changeAddressing: a static address lies in a known network and is       *)
(* nobody else's.  The other modes leave DNS to follow what UniFi reports. *)
Unused(ip, m) == \A o \in MACs \ {m} : rows[o] # NoRow => ip \notin {rows[o].ip, rows[o].static}
Readdressed(m, row) ==
    {[row EXCEPT !.static = ip] : ip \in {NoIP} \cup {i \in Networked : Unused(i, m)}}

Edited(op, m, row) ==
    CASE op = "rename"  -> Renamed(row)
      [] op = "exclude" -> Toggled(row)
      [] op = "address" -> Readdressed(m, row)
      [] op = "touch"   -> {row}    \* pushName, setOwner: the rest of the row is saved too
      [] op = "forget"  -> {row}

Load(h, op, m) ==
    /\ req[h] = Idle
    /\ op \in Ops \cap {"rename", "exclude", "touch", "address", "forget"}
    /\ rows[m] # NoRow
    /\ op = "forget" => made[m] < MaxRows
    /\ \E row \in Edited(op, m, rows[m]) :
          req' = [req EXCEPT ![h] = [op |-> op, mac |-> m, row |-> row,
                                     step |-> IF op = "forget" THEN "dns" ELSE "save"]]
    /\ UNCHANGED vars

(* db.Save of the copy: an update by id, or an insert when the row is gone,*)
(* refused when the MAC has another row by then.                           *)
Store(h) ==
    /\ req[h] # Idle /\ req[h].step = "save"
    /\ req[h].op \in {"rename", "exclude", "touch", "address", "join"}
    /\ LET m == req[h].mac
       IN rows' = IF rows[m] = NoRow \/ rows[m].id = req[h].row.id
                  THEN [rows EXCEPT ![m] = req[h].row] ELSE rows
    /\ Answer(h)
    /\ UNCHANGED <<made, members, dns, engine>>

-----------------------------------------------------------------------------
(* registerDevice: one transaction.  The published name is left alone, so  *)
(* that the next pass sees the rename.                                     *)

(* Mutant of Registration: a known device's published name is overwritten. *)
RegistrationRenames(m, name, pin) ==
    IF rows[m] = NoRow
    THEN [id |-> made[m] + 1, ctrl |-> NoController, host |-> name, zone |-> NoZone,
          ip |-> NoIP, synced |-> FALSE, excluded |-> FALSE, joined |-> FALSE,
          override |-> name, pin |-> pin, static |-> NoIP, placed |-> FALSE]
    ELSE [rows[m] EXCEPT !.override = name, !.pin = pin, !.excluded = FALSE, !.host = name]

Registration(m, name, pin) ==
    IF rows[m] = NoRow
    THEN [id |-> made[m] + 1, ctrl |-> NoController, host |-> name, zone |-> NoZone,
          ip |-> NoIP, synced |-> FALSE, excluded |-> FALSE, joined |-> FALSE,
          override |-> name, pin |-> pin, static |-> NoIP, placed |-> FALSE]
    ELSE [rows[m] EXCEPT !.override = name, !.pin = pin, !.excluded = FALSE]

Register(h, m, name, pin) ==
    /\ req[h] = Idle
    /\ "register" \in Ops
    /\ rows[m] # NoRow => ~rows[m].joined
    /\ rows[m] = NoRow => made[m] < MaxRows
    /\ rows' = [rows EXCEPT ![m] = Registration(m, name, pin)]
    /\ made' = [made EXCEPT ![m] = IF rows[m] = NoRow THEN @ + 1 ELSE @]
    /\ UNCHANGED <<members, dns, engine, req>>

-----------------------------------------------------------------------------
(* Handlers that delete a record themselves: by the name the device is     *)
(* meant to have (EffectiveHostname), at its last address.                 *)

Effective(row) == IF row.override # NoName THEN row.override ELSE row.host

(* The delete is attempted once; a failure is logged and the handler goes  *)
(* on.                                                                     *)
TakeDown(m, row) ==
    LET ch == [Delete(m, row) EXCEPT !.oldHost = Effective(row)]
    IN IF row.synced /\ ~row.excluded /\ row.zone # NoZone
       THEN dns' \in Succeeded(dns, ch) \cup (IF MayFail THEN Failed(dns, ch) ELSE {})
       ELSE UNCHANGED dns

ForgetTakesDown(h) ==
    /\ Working(h, "forget", "dns")
    /\ TakeDown(req[h].mac, req[h].row)
    /\ Advance(h, req[h].row, "save")
    /\ UNCHANGED <<table, engine>>

Erase(h) ==
    /\ Working(h, "forget", "save")
    /\ LET m == req[h].mac
       IN rows' = IF rows[m] # NoRow /\ rows[m].id = req[h].row.id
                  THEN [rows EXCEPT ![m] = NoRow] ELSE rows
    /\ Answer(h)
    /\ UNCHANGED <<made, members, dns, engine>>

(* addIdentityMember: the member first, then the device, if there is one.  *)
Join(h, m) ==
    /\ req[h] = Idle
    /\ "join" \in Ops
    /\ m \notin members
    /\ members' = members \cup {m}
    /\ req' = [req EXCEPT ![h] = [op |-> "join", mac |-> m, row |-> NoRow, step |-> "load"]]
    /\ UNCHANGED <<rows, made, dns, engine>>

JoinLoads(h) ==
    /\ Working(h, "join", "load")
    /\ IF rows[req[h].mac] = NoRow THEN Answer(h) ELSE Advance(h, rows[req[h].mac], "dns")
    /\ UNCHANGED vars

(* Mutant of JoinTakesDown: the row keeps its mark.                        *)
JoinKeepsMark(h) ==
    /\ Working(h, "join", "dns")
    /\ TakeDown(req[h].mac, req[h].row)
    /\ Advance(h, [req[h].row EXCEPT !.joined = TRUE], "save")
    /\ UNCHANGED <<table, engine>>

JoinTakesDown(h) ==
    /\ Working(h, "join", "dns")
    /\ LET row == req[h].row
           cleared == row.synced /\ ~row.excluded /\ row.zone # NoZone
       IN \/ /\ TakeDown(req[h].mac, row)
             /\ Advance(h, [row EXCEPT !.joined = TRUE, !.synced = @ /\ ~cleared], "save")
          \/ /\ MayFail    \* no client for the server: nothing is deleted
             /\ Advance(h, [row EXCEPT !.joined = TRUE], "save")
             /\ UNCHANGED dns
    /\ UNCHANGED <<table, engine>>

(* deleteIdentityMember: the member first, then one column of the device.  *)
Leave(h, m) ==
    /\ req[h] = Idle
    /\ "leave" \in Ops
    /\ m \in members
    /\ members' = members \ {m}
    /\ req' = [req EXCEPT ![h] = [op |-> "leave", mac |-> m, row |-> NoRow, step |-> "save"]]
    /\ UNCHANGED <<rows, made, dns, engine>>

LeaveUnlinks(h) ==
    /\ Working(h, "leave", "save")
    /\ LET m == req[h].mac
       IN rows' = IF rows[m] = NoRow THEN rows ELSE [rows EXCEPT ![m].joined = FALSE]
    /\ Answer(h)
    /\ UNCHANGED <<made, members, dns, engine>>

Admin(h) ==
    \/ \E m \in Editable :
          \/ \E op \in Ops : Load(h, op, m)
          \/ \E name \in Names, pin \in AnyZone : Register(h, m, name, pin)
          \/ Join(h, m)
          \/ Leave(h, m)
    \/ Store(h)
    \/ ForgetTakesDown(h)
    \/ Erase(h)
    \/ JoinLoads(h)
    \/ JoinTakesDown(h)
    \/ LeaveUnlinks(h)

(* Without Overlap, a cycle starts when no request is in progress, and a   *)
(* request when no cycle is.                                               *)
NextD ==
    \/ (Overlap \/ AllIdle) /\ Cycle /\ UNCHANGED req
    \/ Crash /\ req' = [h \in Admins |-> Idle]
    \/ (Overlap \/ phase = "idle") /\ \E h \in Admins : Admin(h)

SpecD == InitD /\ [][NextD]_dvars

-----------------------------------------------------------------------------
(* What the registry says is in DNS is in DNS, once no request and no      *)
(* change is in progress, though admins rename, readdress, forget and      *)
(* group devices (register.go, registerDevice; handlers.go, forgetOne).    *)
EditsKeepRecords == AllIdle => SyncedMeansPublished

(* A published device that is forgotten leaves no record behind            *)
(* (handlers.go, forgetOne: "deletes that record immediately").            *)
ForgottenLeavesDNS ==
    [][\A m \in MACs :
          rows[m] # NoRow /\ rows'[m] = NoRow /\ Claimed(m)
              => Published(rows[m]) \notin dns]_dvars

(* A cycle never takes back what an admin has chosen for a device          *)
(* (setOverride, setExcluded; models.go: "Excluded devices are tracked but *)
(* never synced to DNS").                                                  *)
Choices(row) == <<row.override, row.pin, row.static, row.excluded>>
CyclesKeepEdits ==
    [][\A m \in MACs :
          phase = "apply" /\ rows[m] # NoRow /\ rows'[m] # NoRow /\ phase' # "apply"
              => Choices(rows'[m]) = Choices(rows[m])]_dvars
=============================================================================
