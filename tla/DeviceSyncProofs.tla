-------------------------- MODULE DeviceSyncProofs --------------------------
(***************************************************************************)
(* Proofs about DeviceSync, for any number of devices, names, zones and    *)
(* addresses.                                                              *)
(***************************************************************************)
EXTENDS DeviceSync, TLAPS

-----------------------------------------------------------------------------
(* What the operators of Registry and DnsServer return.                    *)

(* A zone is always found: pinned, kept, or given by the resolver.         *)
LEMMA ZoneForType ==
    ASSUME NEW c \in Controllers, NEW ip \in AnyIP, NEW row \in Row \cup {NoRow}
    PROVE  ZoneFor(c, ip, row) \in Zones
  BY NamingAssumption DEF NamingAssumption, ZoneFor, Stays, Row, AnyZone

(* A client's base name is an ordinary name, never a suffixed one.         *)
LEMMA ResolveType ==
    ASSUME NEW client \in Client, NEW override \in AnyName, NEW m \in MACs
    PROVE  Resolve(client, override, m) \in Names
  BY NamingAssumption DEF NamingAssumption, Resolve, Client, AnyName

(* Disambiguate leaves the name or appends one of the two suffixes.        *)
LEMMA DisambiguateType ==
    ASSUME NEW name \in Names, NEW m \in MACs, NEW zone, NEW T
    PROVE  /\ Disambiguate(name, m, zone, T) \in {name, Short(name, m), Long(name, m)}
           /\ Disambiguate(name, m, zone, T) \in Labels
  BY DEF Disambiguate, Labels

(* The rows a pass produces are rows.                                      *)
LEMMA NewRowType ==
    ASSUME NEW m \in MACs, NEW c \in Controllers, NEW host \in Labels,
           NEW zone \in AnyZone, NEW ip \in AnyIP
    PROVE  NewRow(m, c, host, zone, ip) \in Row
  BY DEF NewRow, Row, IsPlaced, Stays, AnyName, AnyZone, AnyIP

(* A known client's row with the wanted name is a row.                     *)
LEMMA WantedType ==
    ASSUME NEW row \in Row, NEW c \in Controllers, NEW host \in Labels,
           NEW zone \in AnyZone, NEW ip \in AnyIP
    PROVE  Wanted(row, c, host, zone, ip) \in Row
<1>1. IsPlaced(ip, row) \in BOOLEAN
  BY DEF IsPlaced, Stays, Row
<1>2. QED
  BY <1>1 DEF Wanted, Row

(* So is the row of a device that is only tracked.                         *)
LEMMA TrackedType ==
    ASSUME NEW row \in Row, NEW c \in Controllers, NEW ip \in AnyIP
    PROVE  Tracked(row, c, ip) \in Row
<1>1. IsPlaced(ip, row) \in BOOLEAN
  BY DEF IsPlaced, Stays, Row
<1>2. QED
  BY <1>1 DEF Tracked, Row

(* So is a row marked as published or not, or given an id.                 *)
LEMMA RowEditType ==
    ASSUME NEW row \in Row, NEW mark \in BOOLEAN, NEW n \in Nat
    PROVE  /\ [row EXCEPT !.synced = mark] \in Row
           /\ [row EXCEPT !.id = n] \in Row
  BY DEF Row

(* A published address is the client's or the registered one.              *)
LEMMA AddressType ==
    ASSUME NEW client \in Client, NEW row \in Row \cup {NoRow}
    PROVE  Address(client, row) \in AnyIP
  BY DEF Address, Client, Row

(* The changes of a pass are changes.                                      *)
LEMMA ChangeType ==
    ASSUME NEW m \in MACs, NEW host \in Labels, NEW zone \in AnyZone, NEW ip \in AnyIP
    PROVE  /\ Create(m, host, zone, ip) \in Change
           /\ \A row \in Row : /\ Delete(m, row) \in Change
                               /\ Update(m, row, host, zone, ip) \in Change
  BY DEF Create, Delete, Update, Change, Row

(* The lists of changes a pass decides on are lists of changes.            *)
LEMMA ChangesType ==
    ASSUME NEW m \in MACs, NEW host \in Labels, NEW zone \in AnyZone, NEW ip \in AnyIP,
           NEW row \in Row, NEW members_ \in SUBSET MACs
    PROVE  /\ NewChanges(m, host, zone, ip, members_) \in Seq(Change)
           /\ KnownChanges(m, row, host, zone, ip) \in Seq(Change)
  BY ChangeType DEF NewChanges, KnownChanges

(* Calls to the server leave a set of records.                             *)
LEMMA CallType ==
    ASSUME NEW D \in SUBSET Record, NEW ch \in Change
    PROVE  /\ Succeeded(D, ch) \in SUBSET SUBSET Record
           /\ Failed(D, ch) \in SUBSET SUBSET Record
<1>1. Rec(ch.host, ch.zone, ch.ip) \in Record
  BY DEF Rec, Record, Change
<1>2. \A E \in SUBSET Record : Added(E, ch) \in SUBSET Record
  BY <1>1 DEF Added
<1>3. Succeeded(D, ch) \in SUBSET SUBSET Record
  <2>1. Updated(D, ch) \in SUBSET SUBSET Record
    <3> DEFINE old == IF ch.oldIP = NoIP THEN LookedUp(D, ch)
                      ELSE {Rec(ch.oldHost, ch.oldZone, ch.oldIP)} \cap D
    <3>1. /\ (D \ old) \cup {Rec(ch.host, ch.zone, ch.ip)} \in SUBSET Record
          /\ D \ old \in SUBSET Record
      BY <1>1
    <3>2. Added(D \ old, ch) \in SUBSET Record
      BY <3>1, <1>2
    <3>3. QED
      BY <3>1, <3>2 DEF Updated
  <2>2. Deleted(D, ch) \in SUBSET Record
    BY DEF Deleted
  <2>3. QED
    BY <1>2, <2>1, <2>2 DEF Succeeded, Change
<1>4. QED
  BY <1>3 DEF Failed

-----------------------------------------------------------------------------
(* Type correctness.                                                       *)

TypeInv == TypeOK /\ InPass

(* The types hold, and no pass is under way, when the process starts.      *)
LEMMA InitTypeInv == Init => TypeInv
<1> SUFFICES ASSUME Init PROVE TypeInv
  OBVIOUS
<1>1. Nothing \in [MACs -> Row \cup {NoRow}]
  BY DEF Nothing
<1>2. members \subseteq MACs
  BY EngineAssumption DEF EngineAssumption, Init
<1>3. QED
  BY <1>1, <1>2 DEF Init, TypeInv, TypeOK, InPass

(* Dropping what a pass kept leaves typed variables.                       *)
LEMMA EndPassTypeInv ==
    ASSUME TypeOK, EndPass, rows' \in [MACs -> Row \cup {NoRow}], made' \in [MACs -> Nat],
           UNCHANGED <<members, dns>>, phase' \in {"idle", "cycle"},
           left' \subseteq Controllers, skip' \subseteq MACs
    PROVE  TypeInv'
<1>1. Nothing \in [MACs -> Row \cup {NoRow}]
  BY DEF Nothing
<1>2. QED
  BY <1>1 DEF TypeInv, TypeOK, InPass, EndPass

(* One device decided.                                                     *)
LEMMA DecideTypeInv ==
    ASSUME TypeInv, phase = "reconcile",
           NEW m \in MACs, NEW row \in Row, NEW chs \in Seq(Change),
           Decide(m, row, chs),
           taken' \subseteq [zone : AnyZone, host : Labels, mac : MACs]
    PROVE  TypeInv'
<1>1. changes' \in Seq(Change)
  BY DEF TypeInv, TypeOK, Decide
<1>2. QED
  BY <1>1 DEF TypeInv, TypeOK, InPass, Decide, table

(* Taking a name leaves a set of claims.                                   *)
LEMMA TakeType ==
    ASSUME NEW T \in SUBSET [zone : AnyZone, host : Labels, mac : MACs],
           NEW zone \in AnyZone, NEW host \in Labels, NEW m \in MACs
    PROVE  Take(T, zone, host, m) \subseteq [zone : AnyZone, host : Labels, mac : MACs]
  BY DEF Take

(* What a pass decides for a client is typed, and so is the name it takes. *)
LEMMA ReconcileTypes ==
    ASSUME TypeInv, phase = "reconcile", NEW m \in MACs, seen[m] # Absent
    PROVE  /\ ctrl \in Controllers
           /\ seen[m] \in Client
           /\ found[m] \in Row \cup {NoRow}
           /\ seen[m].ip \in AnyIP
           /\ Address(seen[m], found[m]) \in AnyIP
           /\ \A override \in AnyName : \A zone :
                 /\ HostFor(m, zone, override) \in Labels
                 /\ OwnLabel(HostFor(m, zone, override), m)
<1>1. ctrl \in Controllers /\ seen[m] \in Client /\ found[m] \in Row \cup {NoRow}
  BY DEF TypeInv, TypeOK, InPass
<1>2. seen[m].ip \in AnyIP
  BY <1>1 DEF Client
<1>3. ASSUME NEW zone, NEW override \in AnyName
      PROVE  /\ HostFor(m, zone, override) \in Labels
             /\ OwnLabel(HostFor(m, zone, override), m)
  <2>1. Resolve(seen[m], override, m) \in Names
    BY <1>1, ResolveType
  <2>2. QED
    BY <2>1, DisambiguateType DEF HostFor, OwnLabel
<1>4. QED
  BY <1>1, <1>2, <1>3, AddressType

(* What persist writes, outcome merged in, is a row.                       *)
LEMMA FinalType ==
    ASSUME TypeInv, NEW m \in MACs, result[m] # NoRow
    PROVE  /\ Final(m) \in Row
           /\ [Final(m) EXCEPT !.id = made[m] + 1] \in Row
<1> DEFINE mark == IF outcome[m] = "none" THEN result[m].synced ELSE outcome[m] = "present"
<1>1. result[m] \in Row /\ made[m] \in Nat
  BY DEF TypeInv, TypeOK
<1>2. mark \in BOOLEAN
  BY <1>1 DEF Row
<1>3. Final(m) = [result[m] EXCEPT !.synced = mark]
  BY DEF Final
<1>4. Final(m) \in Row
  BY <1>1, <1>2, <1>3, RowEditType
<1>5. made[m] + 1 \in Nat
  BY <1>1
<1>6. QED
  BY <1>4, <1>5, RowEditType

(* Every step keeps the types: one case per action of Next.                *)
LEMMA NextTypeInv == TypeInv /\ [Next]_vars => TypeInv'
<1> SUFFICES ASSUME TypeInv, [Next]_vars PROVE TypeInv'
  OBVIOUS
<1>1. CASE BeginCycle
  BY <1>1 DEF TypeInv, TypeOK, InPass, BeginCycle, table, pass
<1>2. CASE EndCycle
  BY <1>2 DEF TypeInv, TypeOK, InPass, EndCycle, table, pass
<1>3. ASSUME NEW c \in Controllers, FetchFails(c) PROVE TypeInv'
  BY <1>3 DEF TypeInv, TypeOK, InPass, FetchFails, table, pass
<1>4. ASSUME NEW c \in Controllers, NEW reported \in Reports(c), Fetch(c, reported)
      PROVE  TypeInv'
  <2>1. reported \in [MACs -> Client \cup {Absent}]
    BY EngineAssumption DEF EngineAssumption
  <2>2. seen' \in [MACs -> Client \cup {Absent}]
    BY <1>4, <2>1 DEF Fetch, Claimable
  <2>3. found' \in [MACs -> Row \cup {NoRow}]
    BY <1>4 DEF Fetch, Loaded, TypeInv, TypeOK
  <2>4. Claims(found') \subseteq [zone : AnyZone, host : Labels, mac : MACs]
    BY <2>3 DEF Claims, Claim, Row
  <2>5. taken' \subseteq [zone : AnyZone, host : Labels, mac : MACs]
    BY <1>4, <2>4 DEF Fetch, TakenMaps
  <2>6. QED
    BY <1>4, <2>2, <2>3, <2>5 DEF TypeInv, TypeOK, InPass, Fetch, table
<1>5. ASSUME NEW m \in MACs, Reconcile(m) PROVE TypeInv'
  <2>1. CASE ReconcileTracked(m)
    <3>1. found[m] \in Row
      BY <2>1 DEF ReconcileTracked, Passthrough, TypeInv, TypeOK
    <3>2. Tracked(found[m], ctrl, Address(seen[m], found[m])) \in Row
      BY <2>1, <3>1, TrackedType, ReconcileTypes DEF ReconcileTracked
    <3>3. /\ <<>> \in Seq(Change)
          /\ taken' \subseteq [zone : AnyZone, host : Labels, mac : MACs]
      BY <2>1 DEF ReconcileTracked, TypeInv, TypeOK
    <3>4. QED
      BY <2>1, <3>2, <3>3, DecideTypeInv DEF ReconcileTracked
  <2>2. CASE ReconcileNew(m)
    <3> DEFINE ip == seen[m].ip
               zone == ZoneFor(ctrl, ip, NoRow)
               host == HostFor(m, zone, NoName)
    <3>1. phase = "reconcile" /\ seen[m] # Absent
      BY <2>2 DEF ReconcileNew
    <3>2. ctrl \in Controllers /\ ip \in AnyIP /\ host \in Labels
      BY <3>1, ReconcileTypes DEF AnyName
    <3>3. zone \in AnyZone
      BY <3>2, ZoneForType DEF AnyZone
    <3>4. /\ NewRow(m, ctrl, host, zone, ip) \in Row
          /\ NewChanges(m, host, zone, ip, skip) \in Seq(Change)
      BY <3>2, <3>3, NewRowType, ChangeType DEF NewChanges
    <3>5. Take(taken, zone, host, m) \subseteq [zone : AnyZone, host : Labels, mac : MACs]
      BY <3>2, <3>3, TakeType DEF TypeInv, TypeOK
    <3>6. QED
      BY <2>2, <3>1, <3>4, <3>5, DecideTypeInv DEF ReconcileNew
  <2>3. CASE ReconcileKnown(m)
    <3> DEFINE row == found[m]
               ip == Address(seen[m], row)
               zone == ZoneFor(ctrl, ip, row)
               host == HostFor(m, zone, row.override)
    <3>1. phase = "reconcile" /\ seen[m] # Absent
      BY <2>3 DEF ReconcileKnown
    <3>2. row \in Row /\ row.override \in AnyName
      BY <2>3, <3>1, ReconcileTypes DEF ReconcileKnown, Row
    <3>3. ctrl \in Controllers /\ ip \in AnyIP /\ host \in Labels
      BY <3>1, <3>2, ReconcileTypes
    <3>4. zone \in AnyZone
      BY <3>2, <3>3, ZoneForType DEF AnyZone
    <3>5. /\ Wanted(row, ctrl, host, zone, ip) \in Row
          /\ KnownChanges(m, row, host, zone, ip) \in Seq(Change)
      BY <3>2, <3>3, <3>4, WantedType, ChangesType DEF TypeInv, TypeOK
    <3>6. Take(taken, zone, host, m) \subseteq [zone : AnyZone, host : Labels, mac : MACs]
      BY <3>3, <3>4, TakeType DEF TypeInv, TypeOK
    <3>7. QED
      BY <2>3, <3>1, <3>5, <3>6, DecideTypeInv DEF ReconcileKnown
  <2>4. CASE ReconcileUnseen(m)
    <3>1. found[m] \in Row /\ phase = "reconcile"
      BY <2>4 DEF ReconcileUnseen, TypeInv, TypeOK, InPass
    <3>2. /\ [found[m] EXCEPT !.synced = FALSE] \in Row
          /\ <<Delete(m, found[m])>> \in Seq(Change)
          /\ <<>> \in Seq(Change)
      <4>1. [found[m] EXCEPT !.synced = FALSE] \in Row
        BY <3>1, RowEditType
      <4>2. Delete(m, found[m]) \in Change
        BY <3>1 DEF Delete, Change, Row
      <4>3. QED
        BY <4>1, <4>2
    <3>3. taken' \subseteq [zone : AnyZone, host : Labels, mac : MACs]
      BY <2>4 DEF ReconcileUnseen, TypeInv, TypeOK
    <3>4. QED
      BY <2>4, <3>1, <3>2, <3>3, DecideTypeInv DEF ReconcileUnseen
  <2>5. QED
    BY <1>5, <2>1, <2>2, <2>3, <2>4 DEF Reconcile
<1>6. CASE BeginApply
  BY <1>6 DEF TypeInv, TypeOK, InPass, BeginApply, table, pass
<1>7. ASSUME NEW ok \in BOOLEAN, Apply(ok) PROVE TypeInv'
  <2>1. /\ Head(changes) \in Change
        /\ changes' \in Seq(Change)
    BY <1>7 DEF Apply, TypeInv, TypeOK
  <2>2. dns' \subseteq Record
    BY <1>7, <2>1, CallType DEF Apply, TypeInv, TypeOK
  <2>3. outcome' \in [MACs -> {"none", "present", "gone"}]
    BY <1>7 DEF Apply, TypeInv, TypeOK, OutcomeOf
  <2>4. QED
    BY <1>7, <2>1, <2>2, <2>3 DEF TypeInv, TypeOK, InPass, Apply, table
<1>8. CASE Persist
  <2>1. ASSUME NEW m \in MACs, result[m] # NoRow
        PROVE  /\ Final(m) \in Row
               /\ [Final(m) EXCEPT !.id = made[m] + 1] \in Row
    BY <2>1, FinalType
  <2>2. rows' \in [MACs -> Row \cup {NoRow}]
    BY <1>8, <2>1 DEF Persist, TypeInv, TypeOK
  <2>3. made' \in [MACs -> Nat]
    <3>1. \A m \in MACs : made[m] + 1 \in Nat
      BY DEF TypeInv, TypeOK
    <3>2. QED
      BY <1>8, <3>1 DEF Persist, TypeInv, TypeOK
  <2>4. QED
    BY <1>8, <2>2, <2>3, EndPassTypeInv DEF Persist, TypeInv, TypeOK
<1>9. CASE Crash
  BY <1>9, EndPassTypeInv DEF TypeInv, TypeOK, Crash, table
<1>10. CASE UNCHANGED vars
  BY <1>10 DEF TypeInv, TypeOK, InPass, vars, table, engine, pass
<1>11. QED
  BY <1>1, <1>2, <1>3, <1>4, <1>5, <1>6, <1>7, <1>8, <1>9, <1>10 DEF Next, Cycle

(* The variables keep their types and a pass keeps to its devices, for any *)
(* number of controllers, failures, lost replies and crashes included.     *)
THEOREM TypeCorrect == Spec => [](TypeOK /\ InPass)
<1>1. Init => TypeOK /\ InPass
  BY InitTypeInv DEF TypeInv
<1>2. (TypeOK /\ InPass) /\ [Next]_vars => (TypeOK /\ InPass)'
  BY NextTypeInv DEF TypeInv
<1>3. QED
  BY <1>1, <1>2, PTL DEF Spec

-----------------------------------------------------------------------------
(* Unique names.                                                           *)

TakenType == [zone : AnyZone, host : Labels, mac : MACs]
Table == [MACs -> Row \cup {NoRow}]

(* The name Disambiguate settles on is never somebody else's: the full MAC *)
(* address, which it does not check, suits no other device.                *)
LEMMA DisambiguateFree ==
    ASSUME NEW T \in SUBSET TakenType, WellTaken(T),
           NEW name \in Names, NEW m \in MACs, NEW zone
    PROVE  Available(T, zone, Disambiguate(name, m, zone, T), m)
<1>1. Available(T, zone, Long(name, m), m)
  <2> SUFFICES ASSUME NEW t \in T, t.host = Long(name, m) PROVE t.mac = m
    BY DEF Available
  <2>1. OwnLabel(t.host, t.mac) /\ t.mac \in MACs
    BY DEF WellTaken, TakenType
  <2>2. t.host \notin Names
    BY NamingAssumption DEF NamingAssumption
  <2>3. PICK n \in Names : t.host \in {Short(n, t.mac), Long(n, t.mac)}
    BY <2>1, <2>2 DEF OwnLabel
  <2>4. QED
    BY <2>1, <2>3, NamingAssumption DEF NamingAssumption
<1>2. CASE Available(T, zone, name, m)
  BY <1>2 DEF Disambiguate
<1>3. CASE ~Available(T, zone, name, m) /\ Available(T, zone, Short(name, m), m)
  BY <1>3 DEF Disambiguate
<1>4. CASE ~Available(T, zone, name, m) /\ ~Available(T, zone, Short(name, m), m)
  BY <1>1, <1>4 DEF Disambiguate
<1>5. QED
  BY <1>2, <1>3, <1>4

(* Taking an available name takes nothing from anybody.                    *)
LEMMA TakeKeeps ==
    ASSUME NEW T \in SUBSET TakenType, WellTaken(T), NEW m \in MACs,
           NEW zone \in AnyZone, NEW host \in Labels,
           OwnLabel(host, m), Available(T, zone, host, m)
    PROVE  /\ T \subseteq Take(T, zone, host, m)
           /\ [zone |-> zone, host |-> host, mac |-> m] \in Take(T, zone, host, m)
           /\ WellTaken(Take(T, zone, host, m))
<1> DEFINE new == [zone |-> zone, host |-> host, mac |-> m]
<1>1. \A t \in T : t.zone = zone /\ t.host = host => t = new
  BY DEF Available, TakenType
<1>2. T \subseteq Take(T, zone, host, m) /\ new \in Take(T, zone, host, m)
  BY <1>1 DEF Take
<1>3. \A t \in Take(T, zone, host, m) : t \in T \/ t = new
  BY DEF Take
<1>4. \A t \in Take(T, zone, host, m) : OwnLabel(t.host, t.mac)
  BY <1>3 DEF WellTaken
<1>5. ASSUME NEW t \in Take(T, zone, host, m), NEW u \in Take(T, zone, host, m), SameName(t, u)
      PROVE  t = u
  <2>1. CASE t \in T /\ u \in T
    BY <1>5, <2>1 DEF WellTaken
  <2>2. CASE t \notin T \/ u \notin T
    BY <1>1, <1>3, <1>5, <2>2 DEF SameName
  <2>3. QED
    BY <2>1, <2>2
<1>6. QED
  BY <1>2, <1>4, <1>5 DEF WellTaken

(* Claims that are all taken are unique.                                   *)
LEMMA TakenUnique ==
    ASSUME NEW tab \in Table, NEW T, WellTaken(T), ZonedClaims(tab) \subseteq T,
           NEW m \in MACs, NEW o \in MACs, tab[m].zone # NoZone,
           tab[m] # NoRow, tab[o] # NoRow, ~tab[m].excluded, ~tab[o].excluded,
           tab[m].zone = tab[o].zone, tab[m].host = tab[o].host
    PROVE  m = o
<1>1. Claim(tab[m], m) \in T /\ Claim(tab[o], o) \in T
  BY DEF ZonedClaims, Claims, Claim
<1>2. SameName(Claim(tab[m], m), Claim(tab[o], o))
  BY DEF SameName, Claim
<1>3. Claim(tab[m], m) = Claim(tab[o], o)
  BY <1>1, <1>2 DEF WellTaken
<1>4. QED
  BY <1>3 DEF Claim

(* The map of taken names a pass starts from has every claim in a zone.    *)
LEMMA TakenAtStart ==
    ASSUME NEW tab \in Table, Named(tab), NEW T \in TakenMaps(tab),
           \A m, o \in MACs :
               /\ m # o /\ tab[m] # NoRow /\ tab[o] # NoRow
               /\ ~tab[m].excluded /\ ~tab[o].excluded
               /\ tab[m].zone = tab[o].zone /\ tab[m].zone # NoZone
               => tab[m].host # tab[o].host
    PROVE  ZonedClaims(tab) \subseteq T /\ WellTaken(T)
<1>1. T \subseteq Claims(tab)
  BY DEF TakenMaps
<1>2. ASSUME NEW t \in ZonedClaims(tab), NEW u \in Claims(tab), SameName(t, u) PROVE t = u
  <2>1. PICK m \in MACs : t = Claim(tab[m], m) /\ tab[m] # NoRow /\ ~tab[m].excluded
    BY DEF ZonedClaims, Claims
  <2>2. PICK o \in MACs : u = Claim(tab[o], o) /\ tab[o] # NoRow /\ ~tab[o].excluded
    BY DEF Claims
  <2>3. tab[m].zone = tab[o].zone /\ tab[m].host = tab[o].host /\ tab[m].zone # NoZone
    BY <1>2, <2>1, <2>2 DEF SameName, Claim, ZonedClaims
  <2>4. m = o
    BY <2>1, <2>2, <2>3
  <2>5. QED
    BY <2>1, <2>2, <2>4
<1>3. ZonedClaims(tab) \subseteq T
  BY <1>1, <1>2 DEF TakenMaps, ZonedClaims
<1>4. \A t \in Claims(tab) : OwnLabel(t.host, t.mac)
  BY DEF Claims, Claim, Named
<1>5. \A t, u \in T : SameName(t, u) => t = u
  BY DEF TakenMaps
<1>6. QED
  BY <1>1, <1>3, <1>4, <1>5 DEF WellTaken

(* One device decided: what matters is the name its row ends up with.      *)
LEMMA DecideNames ==
    ASSUME TypeInv, NamesInv, phase = "reconcile",
           NEW m \in MACs, NEW row \in Row, NEW chs, Decide(m, row, chs),
           row.ctrl \in Controllers \/ row.zone = NoZone, OwnLabel(row.host, m),
           taken \subseteq taken', WellTaken(taken'),
           ~row.excluded /\ row.zone # NoZone => Claim(row, m) \in taken'
    PROVE  NamesInv'
<1>1. /\ result' = [result EXCEPT ![m] = row]
      /\ todo' = todo \ {m}
      /\ UNCHANGED <<rows, phase, found>>
  BY DEF Decide, table
<1>2. result \in Table /\ row # NoRow
  BY EngineAssumption DEF EngineAssumption, TypeInv, TypeOK, Table
<1>3. \A t \in ZonedClaims(result') :
          t \in ZonedClaims(result) \/ (~row.excluded /\ row.zone # NoZone /\ t = Claim(row, m))
  BY <1>1, <1>2 DEF ZonedClaims, Claims, Claim, Table
<1>4. Named(result')
  BY <1>1, <1>2 DEF Named, NamesInv, Table
<1>5. NamesTaken'
  <2>1. ZonedClaims(rows)' \subseteq taken'
    BY <1>1 DEF NamesInv, NamesTaken, ZonedClaims, Claims
  <2>2. ZonedClaims(result') \subseteq taken'
    BY <1>3 DEF NamesInv, NamesTaken
  <2>3. \A k \in MACs \ todo' : rows'[k] # NoRow => result'[k] # NoRow \/ Waits(k)'
    BY <1>1, <1>2 DEF NamesInv, NamesTaken, Table, Waits
  <2>4. \A k \in MACs : (found[k] = rows[k] \/ (found[k] = NoRow /\ Waits(k) /\ k \notin todo))'
    BY <1>1 DEF NamesInv, NamesTaken, Waits
  <2>5. QED
    BY <2>1, <2>2, <2>3, <2>4 DEF NamesTaken
<1>6. NamesUnique' /\ Named(rows')
  BY <1>1 DEF NamesInv, NamesUnique, Named
<1>7. QED
  BY <1>4, <1>5, <1>6 DEF NamesInv

(* A client's name, as ReconcileNew and ReconcileKnown take it.            *)
LEMMA HostTaken ==
    ASSUME TypeInv, NamesInv, phase = "reconcile", NEW m \in MACs, seen[m] # Absent,
           NEW zone \in AnyZone, NEW override \in AnyName,
           taken' = Take(taken, zone, HostFor(m, zone, override), m)
    PROVE  /\ taken \subseteq taken'
           /\ WellTaken(taken')
           /\ [zone |-> zone, host |-> HostFor(m, zone, override), mac |-> m] \in taken'
<1> DEFINE host == HostFor(m, zone, override)
<1>1. host \in Labels /\ OwnLabel(host, m)
  BY ReconcileTypes
<1>2. taken \in SUBSET TakenType /\ WellTaken(taken)
  BY DEF TypeInv, TypeOK, TakenType, NamesInv, NamesTaken
<1>3. Available(taken, zone, host, m)
  <2>1. seen[m] \in Client
    BY DEF TypeInv, TypeOK
  <2>2. Resolve(seen[m], override, m) \in Names
    BY <2>1, ResolveType
  <2>3. QED
    BY <1>2, <2>2, DisambiguateFree DEF HostFor
<1>4. QED
  BY <1>1, <1>2, <1>3, TakeKeeps

(* An empty table has no name twice.                                       *)
LEMMA InitNames == Init => NamesInv
<1> SUFFICES ASSUME Init PROVE NamesInv
  OBVIOUS
<1>1. \A m \in MACs : rows[m] = NoRow /\ result[m] = NoRow
  BY DEF Init, Nothing
<1>2. QED
  BY <1>1 DEF Init, NamesInv, NamesUnique, Named

(* With one controller a pass loads every row that has a zone.             *)
LEMMA FetchNames ==
    ASSUME TypeInv, NamesInv, NEW c, Controllers = {c}, NEW reported, Fetch(c, reported)
    PROVE  NamesInv'
<1>1. /\ UNCHANGED <<rows, result>>
      /\ phase = "cycle"
      /\ found' = Loaded(c, seen')
      /\ todo' = {m \in MACs : seen'[m] # Absent \/ found'[m] # NoRow}
      /\ taken' \in TakenMaps(found')
  BY DEF Fetch, table
<1>2. \A m \in MACs : found'[m] = rows[m] \/ (found'[m] = NoRow /\ Waits(m) /\ m \notin todo')
  <2> SUFFICES ASSUME NEW m \in MACs, found'[m] # rows[m]
               PROVE  found'[m] = NoRow /\ Waits(m) /\ m \notin todo'
    OBVIOUS
  <2>1. rows[m] # NoRow /\ rows[m].ctrl # c /\ seen'[m] = Absent /\ found'[m] = NoRow
    BY <1>1 DEF Loaded
  <2>2. rows[m].zone = NoZone
    BY <2>1 DEF NamesInv, Named
  <2>3. QED
    BY <1>1, <2>1, <2>2 DEF Waits
<1>3. ZonedClaims(rows) \subseteq taken' /\ WellTaken(taken')
  <2>1. found' \in Table
    BY <1>1 DEF Loaded, TypeInv, TypeOK, Table
  <2>2. Named(found')
    BY <1>2 DEF NamesInv, Named
  <2>3. ZonedClaims(found') \subseteq taken' /\ WellTaken(taken')
    BY <1>1, <1>2, <2>1, <2>2, TakenAtStart DEF NamesInv, NamesUnique
  <2>4. ZonedClaims(rows) \subseteq ZonedClaims(found')
    BY <1>2 DEF ZonedClaims, Claims, Claim, Waits
  <2>5. QED
    BY <2>3, <2>4
<1>4. ZonedClaims(result') \subseteq taken'
  <2>1. result = Nothing
    BY <1>1 DEF TypeInv, InPass
  <2>2. QED
    BY <1>1, <2>1 DEF ZonedClaims, Claims, Nothing
<1>5. NamesTaken'
  <2>1. \A m \in MACs \ todo' : rows'[m] # NoRow => result'[m] # NoRow \/ Waits(m)'
    BY <1>1, <1>2 DEF Waits
  <2>2. (ZonedClaims(rows) \subseteq taken)' /\ (ZonedClaims(result) \subseteq taken)'
    BY <1>1, <1>3, <1>4 DEF ZonedClaims, Claims
  <2>3. QED
    BY <1>1, <1>2, <1>3, <2>1, <2>2 DEF NamesTaken, Waits
<1>6. QED
  BY <1>1, <1>5 DEF NamesInv, NamesUnique, Named

(* What a pass decides for one device, its name apart.                     *)
LEMMA NewRowNames ==
    ASSUME NEW m, NEW d, NEW host, NEW zone, NEW ip
    PROVE  LET row == NewRow(m, d, host, zone, ip)
           IN row.ctrl = d /\ row.host = host /\ row.zone = zone
  BY DEF NewRow

(* A known client's row gets the decided name in the decided zone.         *)
LEMMA WantedNames ==
    ASSUME NEW row \in Row, NEW d, NEW host, NEW zone, NEW ip
    PROVE  LET new == Wanted(row, d, host, zone, ip)
           IN new.ctrl = d /\ new.host = host /\ new.zone = zone
  BY DEF Wanted, Row

(* A device that is only tracked keeps its name.                           *)
LEMMA TrackedNames ==
    ASSUME NEW row \in Row, NEW d, NEW ip
    PROVE  LET new == Tracked(row, d, ip)
           IN new.ctrl = d /\ new.host = row.host /\ new.zone = row.zone
              /\ new.excluded = row.excluded
  BY DEF Tracked, Row

(* Marking a row or giving it an id leaves what a name depends on alone.   *)
SameClaim(new, row) ==
    /\ new.ctrl = row.ctrl
    /\ new.host = row.host
    /\ new.zone = row.zone
    /\ new.excluded = row.excluded

(* The mark and the id of a row are no part of its claim.                  *)
LEMMA RowEditKeeps ==
    ASSUME NEW row \in Row, NEW mark, NEW n
    PROVE  /\ SameClaim([row EXCEPT !.synced = mark], row)
           /\ SameClaim([row EXCEPT !.id = n], row)
  BY DEF Row, SameClaim

(* What persist writes claims the name that was decided.                   *)
LEMMA FinalKeeps ==
    ASSUME TypeInv, NEW m \in MACs, result[m] # NoRow
    PROVE  /\ SameClaim(Final(m), result[m])
           /\ SameClaim([Final(m) EXCEPT !.id = made[m] + 1], result[m])
<1> DEFINE mark == IF outcome[m] = "none" THEN result[m].synced ELSE outcome[m] = "present"
<1>1. result[m] \in Row
  BY DEF TypeInv, TypeOK
<1>2. Final(m) = [result[m] EXCEPT !.synced = mark]
  BY DEF Final
<1>3. SameClaim([result[m] EXCEPT !.synced = mark], result[m])
  BY <1>1, RowEditKeeps
<1>4. Final(m) \in Row
  BY <1>1, FinalType
<1>5. SameClaim([Final(m) EXCEPT !.id = made[m] + 1], Final(m))
  BY <1>4, RowEditKeeps
<1>6. QED
  BY <1>2, <1>3, <1>5 DEF SameClaim

(* Whatever is decided for one device, names stay unique and taken.        *)
LEMMA ReconcileNames ==
    ASSUME TypeInv, NamesInv, NEW m \in MACs, Reconcile(m)
    PROVE  NamesInv'
<1>0. /\ phase = "reconcile" /\ ctrl \in Controllers
     /\ found[m] = rows[m] /\ found[m] \in Row \cup {NoRow}
  BY DEF Reconcile, ReconcileTracked, ReconcileNew, ReconcileKnown, ReconcileUnseen,
         TypeInv, TypeOK, InPass, NamesInv, NamesTaken
<1>1. ASSUME NEW row \in Row, NEW chs, found[m] \in Row, Decide(m, row, chs), UNCHANGED taken,
             row.ctrl \in Controllers \/ row.ctrl = found[m].ctrl,
             row.host = found[m].host, row.zone = found[m].zone,
             row.excluded = found[m].excluded
      PROVE  NamesInv'
  <2>1. found[m] # NoRow
    BY <1>1, EngineAssumption DEF EngineAssumption
  <2>2. /\ OwnLabel(row.host, m) /\ (row.ctrl \in Controllers \/ row.zone = NoZone)
        /\ ~row.excluded /\ row.zone # NoZone => Claim(row, m) \in taken
    BY <1>0, <1>1, <2>1 DEF NamesInv, Named, NamesTaken, ZonedClaims, Claims, Claim
  <2>3. WellTaken(taken)
    BY <1>0 DEF NamesInv, NamesTaken
  <2>4. QED
    BY <1>0, <1>1, <2>2, <2>3, DecideNames
<1>2. CASE ReconcileTracked(m)
  <2>1. found[m] \in Row /\ seen[m] # Absent
    BY <1>0, <1>2 DEF ReconcileTracked, Passthrough
  <2>2. Address(seen[m], found[m]) \in AnyIP
    BY <1>0, <2>1, ReconcileTypes
  <2>3. Tracked(found[m], ctrl, Address(seen[m], found[m])) \in Row
    BY <1>0, <2>1, <2>2, TrackedType
  <2>4. QED
    BY <1>0, <1>1, <1>2, <2>1, <2>3, TrackedNames DEF ReconcileTracked
<1>3. CASE ReconcileNew(m)
  <2> DEFINE ip == seen[m].ip
             zone == ZoneFor(ctrl, ip, NoRow)
             host == HostFor(m, zone, NoName)
             row == NewRow(m, ctrl, host, zone, ip)
  <2>1. seen[m] # Absent /\ NoName \in AnyName
    BY <1>3 DEF ReconcileNew, AnyName
  <2>2. ip \in AnyIP /\ host \in Labels /\ OwnLabel(host, m)
    BY <1>0, <2>1, ReconcileTypes
  <2>3. zone \in Zones /\ zone \in AnyZone
    BY <1>0, <2>2, ZoneForType DEF AnyZone
  <2>4. row \in Row
    BY <1>0, <2>2, <2>3, NewRowType
  <2>5. /\ taken \subseteq taken' /\ WellTaken(taken')
        /\ [zone |-> zone, host |-> host, mac |-> m] \in taken'
    BY <1>0, <1>3, <2>1, <2>3, HostTaken DEF ReconcileNew
  <2>6. row.ctrl = ctrl /\ row.host = host /\ row.zone = zone
    BY NewRowNames
  <2>7. Claim(row, m) \in taken'
    BY <2>5, <2>6 DEF Claim
  <2>8. Decide(m, row, NewChanges(m, host, zone, ip, skip))
    BY <1>3 DEF ReconcileNew
  <2>9. QED
    BY <1>0, <2>2, <2>3, <2>4, <2>5, <2>6, <2>7, <2>8, DecideNames
<1>4. CASE ReconcileKnown(m)
  <2> DEFINE old == found[m]
             ip == Address(seen[m], old)
             zone == ZoneFor(ctrl, ip, old)
             host == HostFor(m, zone, old.override)
             row == Wanted(old, ctrl, host, zone, ip)
  <2>1. seen[m] # Absent /\ old \in Row /\ old.override \in AnyName
    BY <1>0, <1>4 DEF ReconcileKnown, Row
  <2>2. ip \in AnyIP /\ host \in Labels /\ OwnLabel(host, m)
    BY <1>0, <2>1, ReconcileTypes
  <2>3. zone \in Zones /\ zone \in AnyZone
    BY <1>0, <2>1, <2>2, ZoneForType DEF AnyZone
  <2>4. row \in Row
    BY <1>0, <2>1, <2>2, <2>3, WantedType
  <2>5. /\ taken \subseteq taken' /\ WellTaken(taken')
        /\ [zone |-> zone, host |-> host, mac |-> m] \in taken'
    BY <1>0, <1>4, <2>1, <2>3, HostTaken DEF ReconcileKnown
  <2>6. row.ctrl = ctrl /\ row.host = host /\ row.zone = zone
    BY <2>1, WantedNames
  <2>7. Claim(row, m) \in taken'
    BY <2>5, <2>6 DEF Claim
  <2>8. Decide(m, row, KnownChanges(m, old, host, zone, ip))
    BY <1>4 DEF ReconcileKnown
  <2>9. QED
    BY <1>0, <2>2, <2>3, <2>4, <2>5, <2>6, <2>7, <2>8, DecideNames
<1>5. CASE ReconcileUnseen(m)
  <2>1. found[m] \in Row
    BY <1>0, <1>5 DEF ReconcileUnseen, TypeInv, InPass
  <2>2. /\ [found[m] EXCEPT !.synced = FALSE] \in Row
        /\ [found[m] EXCEPT !.synced = FALSE].ctrl = found[m].ctrl
        /\ [found[m] EXCEPT !.synced = FALSE].host = found[m].host
        /\ [found[m] EXCEPT !.synced = FALSE].zone = found[m].zone
        /\ [found[m] EXCEPT !.synced = FALSE].excluded = found[m].excluded
    BY <2>1, RowEditType, RowEditKeeps DEF SameClaim
  <2>3. QED
    BY <1>1, <1>5, <2>1, <2>2 DEF ReconcileUnseen
<1>6. QED
  BY <1>2, <1>3, <1>4, <1>5 DEF Reconcile

(* Writing a whole pass back keeps the names unique: all are in the map.   *)
LEMMA PersistNames ==
    ASSUME TypeInv, NamesInv, Persist
    PROVE  NamesInv'
<1>1. Named(result') /\ phase' = "cycle"
  BY DEF Persist, EndPass, Nothing, Named
<1>2. phase = "apply" /\ todo = {} /\ NamesTaken
  BY DEF Persist, TypeInv, InPass, NamesInv
<1>3. CASE UNCHANGED rows
  BY <1>1, <1>3 DEF NamesInv, NamesUnique, Named
<1>4. CASE rows' = [m \in MACs |-> IF result[m] = NoRow THEN rows[m]
                                   ELSE IF result[m].id = 0
                                   THEN [Final(m) EXCEPT !.id = made[m] + 1]
                                   ELSE Final(m)]
  <2>1. ASSUME NEW m \in MACs, rows'[m] # NoRow, result[m] # NoRow
        PROVE  /\ rows'[m].ctrl = result[m].ctrl
               /\ rows'[m].host = result[m].host
               /\ rows'[m].zone = result[m].zone
               /\ rows'[m].excluded = result[m].excluded
    <3>1. rows'[m] \in {Final(m), [Final(m) EXCEPT !.id = made[m] + 1]}
      BY <1>4, <2>1
    <3>2. QED
      BY <2>1, <3>1, FinalKeeps DEF SameClaim
  <2>2. ASSUME NEW m \in MACs, rows'[m] # NoRow, result[m] = NoRow
        PROVE  rows'[m] = rows[m] /\ rows[m].zone = NoZone
    BY <1>2, <1>4, <2>2 DEF NamesTaken, Waits
  <2>3. Named(rows')
    BY <2>1, <2>2 DEF NamesInv, Named
  <2>4. NamesUnique'
    <3> SUFFICES ASSUME NEW m \in MACs, NEW o \in MACs,
                        rows'[m] # NoRow, rows'[o] # NoRow,
                        ~rows'[m].excluded, ~rows'[o].excluded, rows'[m].zone # NoZone,
                        rows'[m].zone = rows'[o].zone, rows'[m].host = rows'[o].host
                 PROVE  m = o
      BY DEF NamesUnique
    <3>1. result \in Table
      BY DEF TypeInv, TypeOK, Table
    <3>2. /\ result[m] # NoRow /\ result[o] # NoRow
          /\ ~result[m].excluded /\ ~result[o].excluded /\ result[m].zone # NoZone
          /\ result[m].zone = result[o].zone /\ result[m].host = result[o].host
      BY <2>1, <2>2
    <3>3. QED
      BY <1>2, <3>1, <3>2, TakenUnique DEF NamesTaken
  <2>5. QED
    BY <1>1, <2>3, <2>4 DEF NamesInv
<1>5. QED
  BY <1>3, <1>4 DEF Persist

(* Every step keeps the names unique: one case per action of Next.         *)
LEMMA NextNames ==
    ASSUME NEW c, Controllers = {c}, TypeInv, TypeInv', NamesInv, [Next]_vars
    PROVE  NamesInv'
<1> USE DEF NamesInv
<1>1. ASSUME UNCHANGED <<rows, found, todo, taken, result>>,
             phase' \in {"reconcile", "apply"} => phase \in {"reconcile", "apply"}
      PROVE  NamesInv'
  BY <1>1 DEF NamesUnique, Named, NamesTaken, ZonedClaims, Claims, Waits
<1>2. CASE BeginCycle
  BY <1>1, <1>2 DEF BeginCycle, table, pass
<1>3. CASE EndCycle
  BY <1>1, <1>3 DEF EndCycle, table, pass
<1>4. ASSUME NEW d \in Controllers, FetchFails(d) PROVE NamesInv'
  BY <1>1, <1>4 DEF FetchFails, table, pass
<1>5. ASSUME NEW d \in Controllers, NEW reported \in Reports(d), Fetch(d, reported)
      PROVE  NamesInv'
  BY <1>5, FetchNames
<1>6. ASSUME NEW m \in MACs, Reconcile(m) PROVE NamesInv'
  BY <1>6, ReconcileNames
<1>7. CASE BeginApply
  BY <1>1, <1>7 DEF BeginApply, table, pass
<1>8. ASSUME NEW ok \in BOOLEAN, Apply(ok) PROVE NamesInv'
  BY <1>1, <1>8 DEF Apply, table
<1>9. CASE Persist
  BY <1>9, PersistNames
<1>10. CASE Crash
  <2>1. UNCHANGED rows /\ result' = Nothing /\ phase' = "idle"
    BY <1>10 DEF Crash, EndPass, table
  <2>2. QED
    BY <2>1 DEF NamesUnique, Named, Nothing
<1>11. CASE UNCHANGED vars
  BY <1>1, <1>11 DEF vars, table, engine, pass
<1>12. QED
  BY <1>2, <1>3, <1>4, <1>5, <1>6, <1>7, <1>8, <1>9, <1>10, <1>11 DEF Next, Cycle

(* With a single controller no two devices ever have the same name in a    *)
(* zone, whatever the controller reports in whatever order, whichever      *)
(* calls fail, and wherever the process crashes.                           *)
THEOREM NamesStayUnique ==
    ASSUME NEW c, Controllers = {c}
    PROVE  Spec => []NamesUnique
<1>1. Init => TypeInv /\ NamesInv
  BY InitTypeInv, InitNames
<1>2. (TypeInv /\ NamesInv) /\ [Next]_vars => (TypeInv /\ NamesInv)'
  BY NextTypeInv, NextNames
<1>3. TypeInv /\ NamesInv => NamesUnique
  BY DEF NamesInv
<1>4. QED
  BY <1>1, <1>2, <1>3, PTL DEF Spec
=============================================================================
