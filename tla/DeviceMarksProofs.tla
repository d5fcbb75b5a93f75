------------------------- MODULE DeviceMarksProofs --------------------------
(***************************************************************************)
(* What the registry says is in DNS is in DNS, whichever calls fail, and   *)
(* when none fails nothing else is: proofs for any number of devices,      *)
(* names, zones and addresses.                                             *)
(***************************************************************************)
EXTENDS DeviceSyncProofs

-----------------------------------------------------------------------------
(* Calls.                                                                  *)

(* A record at a name the call is not about.                               *)
Away(r, ch) ==
    /\ ~(r.host = ch.host /\ r.zone = ch.zone)
    /\ ~(r.host = ch.oldHost /\ r.zone = ch.oldZone)

(* A call that is carried out disturbs only the two names it is about, and *)
(* leaves the record it was to leave.                                      *)
LEMMA CallDone ==
    ASSUME NEW D \in SUBSET Record, NEW ch \in Change, NEW E \in Succeeded(D, ch)
    PROVE  /\ \A r \in D : Away(r, ch) => r \in E
           /\ ch.kind # "delete" => Rec(ch.host, ch.zone, ch.ip) \in E
<1> DEFINE new == Rec(ch.host, ch.zone, ch.ip)
           old == IF ch.oldIP = NoIP THEN LookedUp(D, ch)
                  ELSE {Rec(ch.oldHost, ch.oldZone, ch.oldIP)} \cap D
<1>1. \A r \in LookedUp(D, ch) \cup {Rec(ch.oldHost, ch.oldZone, ch.oldIP)} : ~Away(r, ch)
  BY DEF LookedUp, At, Rec, Away
<1>2. \A F \in SUBSET Record : new \in Added(F, ch) /\ \A r \in F : Away(r, ch) => r \in Added(F, ch)
  BY DEF Added, At, Away
<1>3. CASE ch.kind = "create"
  BY <1>2, <1>3 DEF Succeeded
<1>4. CASE ch.kind = "update"
  <2>1. E \in Updated(D, ch)
    BY <1>4 DEF Succeeded
  <2>2. E = (D \ old) \cup {new} \/ E = Added(D \ old, ch)
    BY <2>1 DEF Updated
  <2>3. D \ old \in SUBSET Record /\ \A r \in D : Away(r, ch) => r \in D \ old
    BY <1>1
  <2> HIDE DEF old, new
  <2>4. new \in E /\ \A r \in D : Away(r, ch) => r \in E
    BY <1>2, <2>2, <2>3
  <2>5. QED
    BY <2>4 DEF new
<1>5. CASE ch.kind = "delete"
  BY <1>1, <1>5 DEF Succeeded, Deleted
<1>6. QED
  BY <1>3, <1>4, <1>5 DEF Change

(* One that fails disturbs no other, and nothing when it looked nothing up.*)
LEMMA CallFailed ==
    ASSUME ~LostReplies, NEW D \in SUBSET Record, NEW ch \in Change, NEW E \in Failed(D, ch)
    PROVE  /\ \A r \in D : Away(r, ch) => r \in E
           /\ ch.kind = "create" \/ ch.oldIP # NoIP => E = D
<1>1. PICK S \in SUBSET LookedUp(D, ch) : E = D \ S
  BY DEF Failed
<1>2. ch.kind = "create" \/ ch.oldIP # NoIP => LookedUp(D, ch) = {}
  BY DEF LookedUp
<1>3. \A r \in LookedUp(D, ch) : ~Away(r, ch)
  BY DEF LookedUp, At, Away
<1>4. QED
  BY <1>1, <1>2, <1>3

-----------------------------------------------------------------------------
(* The invariant.                                                          *)

(* What persist will write as the mark of a device.                        *)
Mark(m) == IF outcome[m] = "none" THEN result[m].synced ELSE outcome[m] = "present"

(* The changes of a device come together: none before, none after.         *)
NoneAfter(j, m) == \A i \in DOMAIN changes : i > j => changes[i].mac # m
NoneBefore(j, m) == \A i \in DOMAIN changes : i < j => changes[i].mac # m
NoneLeft(m) == \A i \in DOMAIN changes : changes[i].mac # m

(* What is empty, or known, in the phases that do not use it.              *)
Kept ==
    /\ phase # "idle" => skip = members
    /\ phase # "apply" => \A m \in MACs : outcome[m] = "none"
    /\ phase \in {"idle", "cycle"} => changes = <<>>

(* A pass writes back the rows it loaded.                                  *)
SameIds == \A m \in MACs : result[m] # NoRow /\ rows[m] # NoRow => result[m].id = rows[m].id

(* The mark of a row is true until a change of the device is applied.      *)
RowsTrue ==
    \A m \in MACs : rows[m] # NoRow /\ rows[m].synced =>
        /\ ~rows[m].excluded /\ m \notin members /\ rows[m].zone # NoZone
        /\ outcome[m] = "none" /\ rows[m].ip # NoIP => Published(rows[m]) \in dns

(* The mark that will be written is true once no change is left.           *)
ResultTrue ==
    \A m \in MACs : result[m] # NoRow /\ NoneLeft(m) /\ Mark(m) =>
        /\ ~result[m].excluded /\ m \notin members /\ result[m].zone # NoZone
        /\ result[m].ip # NoIP => Published(result[m]) \in dns

(* A change puts up what the pass decided or takes down what the row says. *)
PutsUp(ch, row) ==
    /\ ch.host = row.host /\ ch.zone = row.zone /\ ch.ip = row.ip
    /\ ch.ip # NoIP

TakesDown(ch, row) ==
    /\ row # NoRow /\ row.synced
    /\ ch.oldHost = row.host /\ ch.oldZone = row.zone /\ ch.oldIP = row.ip

Alike(row, new) == new.host = row.host /\ new.zone = row.zone /\ new.ip = row.ip

ChangeTrue(j, ch) ==
    /\ ch.mac \notin todo /\ ch.mac \notin members
    /\ result[ch.mac] # NoRow /\ ~result[ch.mac].excluded /\ result[ch.mac].zone # NoZone
    /\ ch.kind # "delete" => PutsUp(ch, result[ch.mac]) /\ NoneAfter(j, ch.mac)
    /\ ch.kind = "create" => ch.oldHost = ch.host /\ ch.oldZone = ch.zone
    /\ ch.kind # "create" =>
          /\ TakesDown(ch, rows[ch.mac]) /\ NoneBefore(j, ch.mac)
          /\ outcome[ch.mac] = "none"
    /\ ch.kind = "delete" =>
          /\ ch.host = ch.oldHost /\ ch.zone = ch.oldZone
          /\ NoneAfter(j, ch.mac) =>
                result[ch.mac].ip = NoIP \/ Alike(rows[ch.mac], result[ch.mac])

ChangesTrue == \A j \in DOMAIN changes : ChangeTrue(j, changes[j])

MarksInv == Kept /\ SameIds /\ RowsTrue /\ ResultTrue /\ ChangesTrue

-----------------------------------------------------------------------------
(* And when no call fails: nothing is left behind.                         *)

(* A later change of the device will find this record.                     *)
Finds(row, r) == row.host = r.host /\ row.zone = r.zone /\ row.ip \in {r.ip, NoIP}

Holds(m) == rows[m] # NoRow /\ rows[m].synced

(* A device has the record of the table until its change is applied, and   *)
(* then that of the row that will be written.                              *)
Owns(m, r) ==
    IF outcome[m] = "none" THEN Holds(m) /\ Finds(rows[m], r)
    ELSE outcome[m] = "present" /\ result[m] # NoRow /\ Finds(result[m], r)

Owned == \A r \in dns : \E m \in MACs : Owns(m, r)

(* A device without a change keeps its record.                             *)
Carried ==
    \A m \in MACs : Holds(m) /\ result[m] # NoRow /\ outcome[m] = "none" /\ NoneLeft(m) =>
        result[m].synced /\ Alike(rows[m], result[m])

(* A record is only created for a device that has none, or whose record is *)
(* taken down before.                                                      *)
CreateFits(j, ch) ==
    ch.kind = "create" =>
        /\ outcome[ch.mac] # "present"
        /\ Holds(ch.mac) /\ outcome[ch.mac] = "none" => ~NoneBefore(j, ch.mac)

CreatesFit == \A j \in DOMAIN changes : CreateFits(j, changes[j])

OwnInv == Owned /\ Carried /\ CreatesFit

(* And only a row with an address is marked as published.                  *)
AddressInv ==
    /\ \A m \in MACs : Holds(m) => rows[m].ip # NoIP
    /\ \A m \in MACs : result[m] # NoRow /\ NoneLeft(m) /\ Mark(m) => result[m].ip # NoIP

(* Old names and new names of two devices differ.                          *)
LEMMA NamesApart ==
    ASSUME TypeInv, NamesInv, phase \in {"reconcile", "apply"},
           NEW m \in MACs, NEW o \in MACs, m # o,
           NEW row \in {rows[m], result[m]}, NEW other \in {rows[o], result[o]},
           row # NoRow, other # NoRow, ~row.excluded, ~other.excluded, other.zone # NoZone
    PROVE  ~(row.host = other.host /\ row.zone = other.zone)
<1> SUFFICES ASSUME row.zone # NoZone PROVE ~(row.host = other.host /\ row.zone = other.zone)
  OBVIOUS
<1>1. Claim(row, m) \in taken /\ Claim(other, o) \in taken
  BY DEF NamesInv, NamesTaken, ZonedClaims, Claims, Claim
<1>2. QED
  BY <1>1 DEF NamesInv, NamesTaken, WellTaken, SameName, Claim

-----------------------------------------------------------------------------
(* Applying one change.                                                    *)

(* The changes that are left after the first one.                          *)
LEMMA ChangesLeft ==
    ASSUME changes \in Seq(Change), changes # <<>>, changes' = Tail(changes)
    PROVE  /\ 1 \in DOMAIN changes /\ Head(changes) = changes[1] /\ changes[1] \in Change
           /\ \A j \in DOMAIN changes' : j + 1 \in DOMAIN changes /\ changes'[j] = changes[j + 1]
           /\ \A i \in DOMAIN changes : i = 1 \/ (i - 1 \in DOMAIN changes' /\ changes'[i - 1] = changes[i])
           /\ \A m : NoneLeft(m)' <=> NoneAfter(1, m)
           /\ \A m : \A j \in DOMAIN changes' : NoneAfter(j + 1, m) => NoneAfter(j, m)'
           /\ \A m : \A j \in DOMAIN changes' : NoneBefore(j + 1, m) => NoneBefore(j, m)'
           /\ \A m : \A j \in DOMAIN changes' : NoneAfter(j, m)' => NoneAfter(j + 1, m)
<1>1. Len(changes) \in Nat /\ Len(changes) >= 1 /\ DOMAIN changes = 1 .. Len(changes)
  OBVIOUS
<1>2. Len(changes') = Len(changes) - 1 /\ DOMAIN changes' = 1 .. (Len(changes) - 1)
  OBVIOUS
<1>3. \A j \in DOMAIN changes' : changes'[j] = changes[j + 1]
  OBVIOUS
<1>4. Head(changes) = changes[1] /\ changes[1] \in Change
  BY <1>1
<1>5. \A j \in DOMAIN changes' : j + 1 \in DOMAIN changes
  BY <1>1, <1>2
<1>6. \A i \in DOMAIN changes : i = 1 \/ (i - 1 \in DOMAIN changes' /\ changes'[i - 1] = changes[i])
  BY <1>1, <1>2, <1>3
<1>7. ASSUME NEW m PROVE NoneLeft(m)' <=> NoneAfter(1, m)
  <2>1. ASSUME NoneAfter(1, m), NEW i \in DOMAIN changes' PROVE changes'[i].mac # m
    <3>1. i + 1 > 1 /\ i + 1 \in DOMAIN changes
      BY <1>2, <1>5
    <3>2. QED
      BY <1>3, <2>1, <3>1 DEF NoneAfter
  <2>2. ASSUME NoneLeft(m)', NEW i \in DOMAIN changes, i > 1 PROVE changes[i].mac # m
    <3>1. i - 1 \in DOMAIN changes' /\ changes'[i - 1] = changes[i]
      BY <1>6, <2>2
    <3>2. QED
      BY <2>2, <3>1 DEF NoneLeft
  <2>3. QED
    BY <2>1, <2>2 DEF NoneLeft, NoneAfter
<1>8. \A m : \A j \in DOMAIN changes' : NoneAfter(j + 1, m) => NoneAfter(j, m)'
  BY <1>1, <1>2, <1>3, <1>5 DEF NoneAfter
<1>9. \A m : \A j \in DOMAIN changes' : NoneBefore(j + 1, m) => NoneBefore(j, m)'
  BY <1>1, <1>2, <1>3, <1>5 DEF NoneBefore
<1>10. ASSUME NEW m, NEW j \in DOMAIN changes', NoneAfter(j, m)', NEW i \in DOMAIN changes, i > j + 1
       PROVE  changes[i].mac # m
  <2>1. i - 1 \in DOMAIN changes' /\ changes'[i - 1] = changes[i] /\ i - 1 > j
    BY <1>1, <1>2, <1>6, <1>10
  <2>2. QED
    BY <1>10, <2>1 DEF NoneAfter
<1>11. QED
  BY <1>1, <1>3, <1>4, <1>5, <1>6, <1>7, <1>8, <1>9, <1>10 DEF NoneAfter

(* Carrying out the first change, or failing to.                           *)
LEMMA ApplyMarks ==
    ASSUME ~LostReplies, TypeInv, NamesInv, MarksInv, NEW ok \in BOOLEAN, Apply(ok)
    PROVE  MarksInv'
<1> DEFINE ch == changes[1]
           m == ch.mac
<1>1. phase = "apply" /\ changes # <<>> /\ changes' = Tail(changes) /\ changes \in Seq(Change)
      /\ UNCHANGED <<rows, members, phase, skip, todo, result>>
  BY DEF Apply, table, TypeInv, TypeOK
<1>2. Head(changes) = ch /\ ch \in Change /\ m \in MACs /\ 1 \in DOMAIN changes
      /\ (\A i \in DOMAIN changes : i = 1 \/ (i - 1 \in DOMAIN changes' /\ changes'[i - 1] = changes[i]))
      /\ (\A j \in DOMAIN changes' : j + 1 \in DOMAIN changes /\ changes'[j] = changes[j + 1])
  <2>1. ch \in Change
    BY <1>1, ChangesLeft
  <2>2. QED
    BY <1>1, <2>1, ChangesLeft DEF Change
<1>3. /\ dns \in SUBSET Record
      /\ ok => dns' \in Succeeded(dns, ch)
      /\ ~ok => dns' \in Failed(dns, ch)
  BY <1>2 DEF Apply, TypeInv, TypeOK
<1>4. /\ \A r \in dns : Away(r, ch) => r \in dns'
      /\ ok /\ ch.kind # "delete" => Rec(ch.host, ch.zone, ch.ip) \in dns'
      /\ ~ok /\ (ch.kind = "create" \/ ch.oldIP # NoIP) => dns' = dns
  <2>1. CASE ok
    BY <1>2, <1>3, <2>1, CallDone
  <2>2. CASE ~ok
    BY <1>2, <1>3, <2>2, CallFailed
  <2>3. QED
    BY <2>1, <2>2
<1>5. /\ outcome'[m] = OutcomeOf(ch, ok)
      /\ \A o \in MACs : o # m => outcome'[o] = outcome[o]
  BY <1>2 DEF Apply, TypeInv, TypeOK
<1>6. ChangeTrue(1, ch)
  BY <1>2 DEF MarksInv, ChangesTrue
<1>7. /\ ch.kind = "delete" => (outcome'[m] = "present" <=> ~ok)
      /\ ch.kind # "delete" => (outcome'[m] = "present" <=> ok)
      /\ outcome'[m] # "none"
  BY <1>2, <1>5 DEF OutcomeOf, Change
<1> HIDE DEF m, ch
<1>8. ASSUME NEW o \in MACs, o # m, NEW other \in {rows[o], result[o]},
             other # NoRow, ~other.excluded, other.zone # NoZone, Published(other) \in dns
      PROVE  Published(other) \in dns'
  <2>1. ~(result[m].host = other.host /\ result[m].zone = other.zone)
    BY <1>1, <1>2, <1>6, <1>8, NamesApart DEF ChangeTrue, m
  <2>2. ch.kind # "create" => ~(rows[m].host = other.host /\ rows[m].zone = other.zone)
    BY <1>1, <1>2, <1>6, <1>8, NamesApart DEF ChangeTrue, TakesDown, MarksInv, RowsTrue, m
  <2>3. Published(other).host = other.host /\ Published(other).zone = other.zone
    BY DEF Published, Rec
  <2>4. CASE ch.kind = "create"
    BY <1>4, <1>6, <1>8, <2>1, <2>3, <2>4 DEF ChangeTrue, PutsUp, Away, m
  <2>5. CASE ch.kind = "update"
    BY <1>4, <1>6, <1>8, <2>1, <2>2, <2>3, <2>5 DEF ChangeTrue, PutsUp, TakesDown, Away, m
  <2>6. CASE ch.kind = "delete"
    BY <1>4, <1>6, <1>8, <2>2, <2>3, <2>6 DEF ChangeTrue, TakesDown, Away, m
  <2>7. QED
    BY <1>2, <2>4, <2>5, <2>6 DEF Change
<1>9. Kept' /\ SameIds'
  BY <1>1 DEF MarksInv, Kept, SameIds
<1>10. RowsTrue'
  <2> SUFFICES ASSUME NEW o \in MACs, rows[o] # NoRow, rows[o].synced
               PROVE  /\ ~rows[o].excluded /\ o \notin members /\ rows[o].zone # NoZone
                      /\ outcome'[o] = "none" /\ rows[o].ip # NoIP => Published(rows[o]) \in dns'
    BY <1>1 DEF RowsTrue, Published
  <2>1. QED
    BY <1>5, <1>7, <1>8 DEF MarksInv, RowsTrue
<1>11. ResultTrue'
  <2> DEFINE marked(o) == IF outcome'[o] = "none" THEN result[o].synced ELSE outcome'[o] = "present"
  <2> SUFFICES ASSUME NEW o \in MACs, result[o] # NoRow, NoneAfter(1, o), marked(o)
               PROVE  /\ ~result[o].excluded /\ o \notin members /\ result[o].zone # NoZone
                      /\ result[o].ip # NoIP => Published(result[o]) \in dns'
    BY <1>1, ChangesLeft DEF ResultTrue, Published, Mark
  <2>1. CASE o # m
    <3>1. NoneLeft(o)
      <4>1. \A i \in DOMAIN changes : i = 1 \/ i > 1
        BY <1>1
      <4>2. QED
        BY <2>1, <4>1 DEF NoneLeft, NoneAfter, m, ch
    <3>2. Mark(o)
      BY <1>5, <2>1 DEF Mark
    <3>3. QED
      BY <1>8, <2>1, <3>1, <3>2 DEF MarksInv, ResultTrue
  <2>2. CASE o = m /\ ch.kind # "delete"
    <3>1. ok
      BY <1>7, <2>2
    <3>2. Published(result[m]) = Rec(ch.host, ch.zone, ch.ip)
      BY <1>6, <2>2 DEF ChangeTrue, PutsUp, Published, m
    <3>3. QED
      BY <1>4, <1>6, <2>2, <3>1, <3>2 DEF ChangeTrue, m
  <2>3. CASE o = m /\ ch.kind = "delete"
    <3>1. ~ok
      BY <1>7, <2>3
    <3>2. result[m].ip = NoIP \/ Alike(rows[m], result[m])
      BY <1>6, <2>3 DEF ChangeTrue, m
    <3>3. TakesDown(ch, rows[m]) /\ outcome[m] = "none"
      BY <1>6, <2>3 DEF ChangeTrue, m
    <3>4. ASSUME result[m].ip # NoIP PROVE Published(result[m]) \in dns'
      <4>1. Published(result[m]) = Published(rows[m]) /\ rows[m].ip # NoIP
        BY <3>2, <3>4 DEF Alike, Published
      <4>2. Published(rows[m]) \in dns
        BY <1>2, <3>3, <4>1 DEF MarksInv, RowsTrue, TakesDown
      <4>3. dns' = dns
        BY <1>4, <3>1, <3>3, <4>1 DEF TakesDown
      <4>4. QED
        BY <4>1, <4>2, <4>3
    <3>5. QED
      BY <1>6, <2>3, <3>4 DEF ChangeTrue, m
  <2>4. QED
    BY <2>1, <2>2, <2>3
<1>12. ChangesTrue'
  <2> SUFFICES ASSUME NEW j \in DOMAIN changes' PROVE ChangeTrue(j, changes[j])'
    BY DEF ChangesTrue
  <2>0. PICK next, o : next = changes[j + 1] /\ o = next.mac
    OBVIOUS
  <2>1. j + 1 \in DOMAIN changes /\ changes'[j] = next /\ ChangeTrue(j + 1, next)
    BY <1>2, <2>0 DEF MarksInv, ChangesTrue
  <2>2. /\ NoneAfter(j + 1, o) => NoneAfter(j, o)'
        /\ NoneBefore(j + 1, o) => NoneBefore(j, o)'
        /\ NoneAfter(j, o)' => NoneAfter(j + 1, o)
    BY <1>1, ChangesLeft
  <2>3. next.kind # "create" => outcome'[o] = "none"
    <3>1. next \in Change /\ 1 < j + 1
      BY <1>1, <2>0, <2>1
    <3>2. SUFFICES ASSUME next.kind # "create" PROVE outcome'[o] = "none"
      OBVIOUS
    <3>3. NoneBefore(j + 1, o) /\ outcome[o] = "none"
      BY <2>0, <2>1, <3>2 DEF ChangeTrue
    <3>4. o # m
      BY <1>2, <3>1, <3>3 DEF NoneBefore, m, ch
    <3>5. QED
      BY <1>5, <2>0, <3>1, <3>3, <3>4 DEF Change
  <2>4. QED
    BY <1>1, <2>0, <2>1, <2>2, <2>3 DEF ChangeTrue, PutsUp, TakesDown, Alike
<1>13. QED
  BY <1>9, <1>10, <1>11, <1>12 DEF MarksInv

-----------------------------------------------------------------------------
(* Deciding one device.                                                    *)

(* The mark of a row that is decided without a change has to be true now.  *)
AlreadyTrue(m, row) ==
    row.synced => /\ ~row.excluded /\ m \notin members /\ row.zone # NoZone
                  /\ row.ip # NoIP => Published(row) \in dns

(* A decision: no change, one, or a delete with the create that follows it.*)
Decided(m, row, chs) ==
    /\ rows[m] # NoRow => row.id = rows[m].id
    /\ chs = <<>> =>
          /\ AlreadyTrue(m, row) /\ (Holds(m) <=> row.synced)
          /\ Holds(m) => Alike(rows[m], row)
    /\ chs # <<>> => ~row.excluded /\ m \notin members /\ row.zone # NoZone
    /\ \/ chs = <<>>
       \/ \E ch \in Change :
             /\ chs = <<ch>> /\ ch.mac = m
             /\ ch.kind # "delete" => PutsUp(ch, row)
             /\ ch.kind = "create" => ch.oldHost = ch.host /\ ch.oldZone = ch.zone /\ ~Holds(m)
             /\ ch.kind # "create" => TakesDown(ch, rows[m])
             /\ ch.kind = "delete" =>
                   /\ ch.host = ch.oldHost /\ ch.zone = ch.oldZone
                   /\ row.ip = NoIP \/ Alike(rows[m], row)
       \/ \E old, new \in Change :
             /\ chs = <<old, new>> /\ old.mac = m /\ new.mac = m
             /\ old.kind = "delete" /\ TakesDown(old, rows[m])
             /\ old.host = old.oldHost /\ old.zone = old.oldZone
             /\ new.kind = "create" /\ PutsUp(new, row)
             /\ new.oldHost = new.host /\ new.oldZone = new.zone

(* The decision of one device leaves the others' alone.                    *)
LEMMA DecideMarks ==
    ASSUME TypeInv, NamesInv, MarksInv, phase = "reconcile",
           NEW m \in todo, NEW row \in Row, NEW chs \in Seq(Change),
           Decide(m, row, chs), Decided(m, row, chs)
    PROVE  MarksInv' /\ (OwnInv => OwnInv') /\ (AddressInv => AddressInv')
<1>1. /\ result' = [result EXCEPT ![m] = row] /\ changes' = changes \o chs /\ todo' = todo \ {m}
      /\ UNCHANGED <<rows, members, dns, phase, skip, outcome>>
      /\ m \in MACs /\ result'[m] = row /\ row # NoRow
      /\ \A o \in MACs : o # m => result'[o] = result[o]
      /\ changes \in Seq(Change) /\ outcome[m] = "none"
  BY EngineAssumption DEF EngineAssumption, Decide, table, TypeInv, TypeOK, MarksInv, Kept
<1>2. \A i \in DOMAIN changes : i \in DOMAIN changes' /\ changes'[i] = changes[i]
                                 /\ changes[i].mac # m /\ changes[i] \in Change
  BY <1>1 DEF MarksInv, ChangesTrue, ChangeTrue
<1>3. \A i \in DOMAIN changes' \ DOMAIN changes : changes'[i].mac = m
  BY <1>1 DEF Decided
<1>4. Kept' /\ SameIds' /\ RowsTrue'
  BY <1>1 DEF MarksInv, Kept, SameIds, RowsTrue, Decided, Published
<1>5. ResultTrue'
  <2> SUFFICES ASSUME NEW o \in MACs, result'[o] # NoRow, NoneLeft(o)', Mark(o)'
               PROVE  /\ ~result'[o].excluded /\ o \notin members /\ result'[o].zone # NoZone
                      /\ result'[o].ip # NoIP => Published(result'[o]) \in dns
    BY <1>1 DEF ResultTrue, Published
  <2>1. CASE o # m
    <3>1. NoneLeft(o) /\ Mark(o) /\ result'[o] = result[o]
      BY <1>1, <1>2, <2>1 DEF NoneLeft, Mark
    <3>2. QED
      BY <3>1 DEF MarksInv, ResultTrue
  <2>2. CASE o = m
    <3>1. row.synced
      BY <1>1, <2>2 DEF Mark
    <3>2. chs = <<>>
      <4>1. chs # <<>> => Len(changes) + 1 \in DOMAIN changes' \ DOMAIN changes
        BY <1>1
      <4>2. QED
        BY <1>3, <2>2, <4>1 DEF NoneLeft
    <3>3. AlreadyTrue(m, row)
      BY <3>2 DEF Decided
    <3>4. result'[o] = row
      BY <1>1, <2>2
    <3>5. QED
      BY <2>2, <3>1, <3>3, <3>4 DEF AlreadyTrue
  <2>3. QED
    BY <2>1, <2>2
<1>6. ChangesTrue'
  <2>0. SUFFICES ASSUME NEW j \in DOMAIN changes' PROVE ChangeTrue(j, changes[j])'
    BY DEF ChangesTrue
  <2>1. CASE j \in DOMAIN changes
    <3>0. PICK ch, o : ch = changes[j] /\ o = ch.mac
      OBVIOUS
    <3>1. ChangeTrue(j, ch) /\ o # m /\ o \in MACs /\ changes'[j] = ch
      BY <1>2, <2>1, <3>0 DEF MarksInv, ChangesTrue, Change
    <3>2. NoneAfter(j, o) => NoneAfter(j, o)'
      BY <1>2, <1>3, <3>1 DEF NoneAfter
    <3>3. NoneBefore(j, o) => NoneBefore(j, o)'
      BY <1>2, <1>3, <3>1 DEF NoneBefore
    <3>4. NoneAfter(j, o)' => NoneAfter(j, o)
      BY <1>2 DEF NoneAfter
    <3>5. QED
      BY <1>1, <3>0, <3>1, <3>2, <3>3, <3>4 DEF ChangeTrue, PutsUp, TakesDown, Alike
  <2>2. CASE j \notin DOMAIN changes
    <3>1. chs # <<>> /\ Len(changes) \in Nat /\ j \in Nat /\ j > Len(changes)
      BY <1>1, <2>0, <2>2
    <3>2. ~row.excluded /\ m \notin members /\ row.zone # NoZone
      BY <3>1 DEF Decided
    <3>3. \A i \in DOMAIN changes : changes'[i].mac # m
      BY <1>2
    <3>4. CASE \E ch \in Change : chs = <<ch>>
      <4>1. PICK ch \in Change : chs = <<ch>>
        BY <3>4
      <4>2. changes' = changes \o <<ch>> /\ j = Len(changes) + 1 /\ changes'[j] = ch
            /\ DOMAIN changes' = 1 .. j
        BY <1>1, <2>0, <2>2, <4>1
      <4>3. NoneAfter(j, m)' /\ NoneBefore(j, m)'
        BY <1>1, <3>3, <4>2 DEF NoneAfter, NoneBefore
      <4>4. /\ ch.mac = m
            /\ ch.kind # "delete" => PutsUp(ch, row)
            /\ ch.kind = "create" => ch.oldHost = ch.host /\ ch.oldZone = ch.zone
            /\ ch.kind # "create" => TakesDown(ch, rows[m])
            /\ ch.kind = "delete" =>
                   /\ ch.host = ch.oldHost /\ ch.zone = ch.oldZone
                   /\ row.ip = NoIP \/ Alike(rows[m], row)
        BY <4>1 DEF Decided
      <4>5. QED
        BY <1>1, <3>2, <4>2, <4>3, <4>4 DEF ChangeTrue, PutsUp, TakesDown, Alike
    <3>5. CASE \E old, new \in Change : chs = <<old, new>>
      <4>1. PICK old \in Change, new \in Change : chs = <<old, new>>
        BY <3>5
      <4>2. /\ old.mac = m /\ new.mac = m
            /\ old.kind = "delete" /\ TakesDown(old, rows[m])
            /\ old.host = old.oldHost /\ old.zone = old.oldZone
            /\ new.kind = "create" /\ PutsUp(new, row)
            /\ new.oldHost = new.host /\ new.oldZone = new.zone
        BY <4>1 DEF Decided
      <4>3. PICK n : n = Len(changes)
        OBVIOUS
      <4>4. n \in Nat /\ DOMAIN changes = 1 .. n /\ DOMAIN changes' = 1 .. n + 2
            /\ changes'[n + 1] = old /\ changes'[n + 2] = new
        BY <1>1, <4>1, <4>3
      <4>5. /\ m \notin todo' /\ m \notin members' /\ result'[m] = row /\ row # NoRow /\ ~row.excluded
            /\ row.zone # NoZone /\ rows'[m] = rows[m] /\ outcome'[m] = "none"
        BY <1>1, <3>2
      <4>6. CASE j = n + 1
        <5>1. NoneBefore(j, m)' /\ ~NoneAfter(j, m)'
          BY <3>3, <4>2, <4>4, <4>6 DEF NoneBefore, NoneAfter
        <5>2. QED
          BY <4>2, <4>4, <4>5, <4>6, <5>1 DEF ChangeTrue, PutsUp, TakesDown
      <4>7. CASE j = n + 2
        <5>1. NoneAfter(j, m)'
          BY <4>4, <4>7 DEF NoneAfter
        <5>2. QED
          BY <4>2, <4>4, <4>5, <4>7, <5>1 DEF ChangeTrue, PutsUp, TakesDown
      <4>8. QED
        BY <3>1, <4>3, <4>4, <4>6, <4>7, <2>0
    <3>6. QED
      BY <3>1, <3>4, <3>5 DEF Decided
  <2>3. QED
    BY <2>1, <2>2
<1>7. Owned => Owned'
  BY <1>1 DEF Owned, Owns, Holds, MarksInv, Kept
<1>8. ASSUME Carried PROVE Carried'
  <2> SUFFICES ASSUME NEW o \in MACs, Holds(o), result'[o] # NoRow, outcome[o] = "none", NoneLeft(o)'
               PROVE  result'[o].synced /\ Alike(rows[o], result'[o])
    BY <1>1 DEF Carried, Holds, Alike
  <2>1. CASE o # m
    BY <1>1, <1>2, <1>8, <2>1 DEF NoneLeft, Carried
  <2>2. CASE o = m
    <3>1. chs # <<>> => Len(changes) + 1 \in DOMAIN changes' \ DOMAIN changes
      BY <1>1
    <3>2. chs = <<>>
      BY <1>3, <2>2, <3>1 DEF NoneLeft
    <3>3. QED
      BY <1>1, <2>2, <3>2 DEF Decided
  <2>3. QED
    BY <2>1, <2>2
<1>9. ASSUME CreatesFit PROVE CreatesFit'
  <2> SUFFICES ASSUME NEW j \in DOMAIN changes' PROVE CreateFits(j, changes[j])'
    BY DEF CreatesFit
  <2>1. CASE j \in DOMAIN changes
    <3>0. PICK ch, o : ch = changes[j] /\ o = ch.mac
      OBVIOUS
    <3>1. CreateFits(j, ch) /\ changes'[j] = ch
      BY <1>2, <1>9, <2>1, <3>0 DEF CreatesFit
    <3>2. NoneBefore(j, o)' => NoneBefore(j, o)
      BY <1>2 DEF NoneBefore
    <3>3. QED
      BY <1>1, <3>0, <3>1, <3>2 DEF CreateFits, Holds
  <2>2. CASE j \notin DOMAIN changes
    <3>0. PICK n : n = Len(changes)
      OBVIOUS
    <3>1. n \in Nat /\ DOMAIN changes = 1 .. n /\ j \in Nat /\ j > n
      BY <1>1, <2>2, <3>0
    <3>2. CASE chs = <<>>
      BY <1>1, <2>2, <3>2
    <3>3. CASE \E ch \in Change : chs = <<ch>>
      <4>1. PICK ch \in Change : chs = <<ch>>
        BY <3>3
      <4>2. changes'[j] = ch
        BY <1>1, <3>0, <3>1, <4>1
      <4>3. ch.mac = m /\ (ch.kind = "create" => ~Holds(m))
        BY <4>1 DEF Decided
      <4>4. QED
        BY <1>1, <4>2, <4>3 DEF CreateFits, Holds
    <3>4. CASE \E old, new \in Change : chs = <<old, new>>
      <4>1. PICK old \in Change, new \in Change : chs = <<old, new>>
        BY <3>4
      <4>2. old.mac = m /\ new.mac = m /\ old.kind = "delete"
        BY <4>1 DEF Decided
      <4>3. DOMAIN changes' = 1 .. n + 2 /\ changes'[n + 1] = old /\ changes'[n + 2] = new
        BY <1>1, <3>0, <3>1, <4>1
      <4>4. CASE j = n + 1
        BY <4>2, <4>3, <4>4 DEF CreateFits
      <4>5. CASE j = n + 2
        <5>1. n + 1 \in DOMAIN changes' /\ n + 1 < j
          BY <3>1, <4>3, <4>5
        <5>2. ~NoneBefore(j, m)'
          BY <4>2, <4>3, <5>1 DEF NoneBefore
        <5>3. QED
          BY <1>1, <4>2, <4>3, <4>5, <5>2 DEF CreateFits
      <4>6. QED
        BY <3>1, <4>3, <4>4, <4>5
    <3>5. QED
      BY <3>2, <3>3, <3>4 DEF Decided
  <2>3. QED
    BY <2>1, <2>2
<1>10. ASSUME AddressInv PROVE AddressInv'
  <2>1. \A o \in MACs : Holds(o)' => rows'[o].ip # NoIP
    BY <1>1, <1>10 DEF AddressInv, Holds
  <2>2. ASSUME NEW o \in MACs, result'[o] # NoRow, NoneLeft(o)', Mark(o)'
        PROVE  result'[o].ip # NoIP
    <3>1. CASE o # m
      <4>1. NoneLeft(o) /\ Mark(o) /\ result'[o] = result[o]
        BY <1>1, <1>2, <2>2, <3>1 DEF NoneLeft, Mark
      <4>2. QED
        BY <1>10, <2>2, <4>1 DEF AddressInv
    <3>2. CASE o = m
      <4>1. chs # <<>> => Len(changes) + 1 \in DOMAIN changes' \ DOMAIN changes
        BY <1>1
      <4>2. chs = <<>> /\ row.synced
        BY <1>1, <1>3, <2>2, <3>2, <4>1 DEF NoneLeft, Mark
      <4>3. Holds(m) /\ Alike(rows[m], row)
        BY <4>2 DEF Decided
      <4>4. QED
        BY <1>1, <1>10, <3>2, <4>3 DEF AddressInv, Alike
    <3>3. QED
      BY <3>1, <3>2
  <2>3. QED
    BY <2>1, <2>2 DEF AddressInv
<1>11. QED
  BY <1>4, <1>5, <1>6, <1>7, <1>8, <1>9, <1>10 DEF MarksInv, OwnInv

(* A pass decides on at most two changes for a device.                     *)
LEMMA ShortLists ==
    /\ <<>> \in Seq(Change)
    /\ \A one \in Change : <<one>> \in Seq(Change)
    /\ \A one, two \in Change : <<one, two>> \in Seq(Change)
  OBVIOUS

(* Every decision of Reconcile is such a one.                              *)
LEMMA ReconcileMarks ==
    ASSUME NEW c, Controllers = {c}, TypeInv, NamesInv, MarksInv, NEW m \in MACs, Reconcile(m)
    PROVE  MarksInv' /\ (OwnInv => OwnInv') /\ (AddressInv => AddressInv')
<1>0. /\ phase = "reconcile" /\ ctrl \in Controllers /\ m \in todo
      /\ found[m] = rows[m] /\ found[m] \in Row \cup {NoRow} /\ skip = members
      /\ outcome[m] = "none" /\ NoRow \notin Row
  BY EngineAssumption
  DEF EngineAssumption, Reconcile, ReconcileTracked, ReconcileNew, ReconcileKnown, ReconcileUnseen,
      TypeInv, TypeOK, InPass, NamesInv, NamesTaken, MarksInv, Kept
<1>1. found[m] # NoRow /\ found[m].synced =>
          /\ ~found[m].excluded /\ m \notin members /\ found[m].zone # NoZone
          /\ found[m].ip # NoIP => Published(found[m]) \in dns
  BY <1>0 DEF MarksInv, RowsTrue
<1>2. CASE ReconcileTracked(m)
  <2> DEFINE row == Tracked(found[m], ctrl, Address(seen[m], found[m]))
  <2>1. found[m] \in Row /\ seen[m] # Absent /\ (found[m].excluded \/ m \in members)
    BY <1>0, <1>2 DEF ReconcileTracked, Passthrough
  <2>2. row \in Row
    BY <1>0, <2>1, ReconcileTypes, TrackedType
  <2>3. row.id = found[m].id /\ row.synced = found[m].synced
    BY <2>1 DEF Tracked, Row
  <2>4. Decided(m, row, <<>>)
    BY <1>0, <1>1, <2>1, <2>3 DEF Decided, AlreadyTrue, Holds, Alike
  <2>5. Decide(m, row, <<>>) /\ <<>> \in Seq(Change)
    BY <1>2 DEF ReconcileTracked
  <2> HIDE DEF row
  <2>6. QED
    BY <1>0, <2>2, <2>4, <2>5, DecideMarks
<1>3. CASE ReconcileNew(m)
  <2> DEFINE ip == seen[m].ip
             zone == ZoneFor(ctrl, ip, NoRow)
             host == HostFor(m, zone, NoName)
             row == NewRow(m, ctrl, host, zone, ip)
             chs == NewChanges(m, host, zone, ip, skip)
  <2>1. seen[m] # Absent /\ NoName \in AnyName /\ rows[m] = NoRow
    BY <1>0, <1>3 DEF ReconcileNew, AnyName
  <2>2. ip \in AnyIP /\ host \in Labels
    BY <1>0, <2>1, ReconcileTypes
  <2>3. zone \in AnyZone /\ zone # NoZone
    BY <1>0, <2>2, ZoneForType, NamingAssumption DEF AnyZone, NamingAssumption
  <2>4. row \in Row
    BY <1>0, <2>2, <2>3, NewRowType
  <2>5. Create(m, host, zone, ip) \in Change
    BY <2>2, <2>3, ChangeType
  <2>6. Decide(m, row, chs)
    BY <1>3 DEF ReconcileNew
  <2>7. row.host = host /\ row.zone = zone /\ row.ip = ip /\ row.synced = FALSE
        /\ (row.excluded <=> m \in Private)
    BY DEF NewRow
  <2>8. \/ chs = <<>>
        \/ chs = <<Create(m, host, zone, ip)>> /\ ip # NoIP /\ m \notin members /\ m \notin Private
    BY <1>0 DEF NewChanges
  <2> HIDE DEF row, host, zone, ip, chs
  <2>9. chs \in Seq(Change)
    BY <2>5, <2>8, ShortLists
  <2>10. Decided(m, row, chs)
    BY <2>1, <2>3, <2>5, <2>7, <2>8 DEF Decided, AlreadyTrue, Create, PutsUp, Holds
  <2>11. QED
    BY <1>0, <2>4, <2>6, <2>9, <2>10, DecideMarks
<1>4. CASE ReconcileKnown(m)
  <2> DEFINE old == found[m]
             ip == Address(seen[m], old)
             zone == ZoneFor(ctrl, ip, old)
             host == HostFor(m, zone, old.override)
             row == Wanted(old, ctrl, host, zone, ip)
             chs == KnownChanges(m, old, host, zone, ip)
  <2>1. seen[m] # Absent /\ old \in Row /\ old.override \in AnyName
        /\ ~old.excluded /\ m \notin members
    BY <1>0, <1>4 DEF ReconcileKnown, Passthrough, Row
  <2>2. ip \in AnyIP /\ host \in Labels
    BY <1>0, <2>1, ReconcileTypes
  <2>3. zone \in AnyZone /\ zone # NoZone
    BY <1>0, <2>1, <2>2, ZoneForType, NamingAssumption DEF AnyZone, NamingAssumption
  <2>4. row \in Row
    BY <1>0, <2>1, <2>2, <2>3, WantedType
  <2>5. /\ Create(m, host, zone, ip) \in Change /\ Delete(m, old) \in Change
        /\ Update(m, old, host, zone, ip) \in Change
    BY <2>1, <2>2, <2>3, ChangeType
  <2>6. Decide(m, row, chs)
    BY <1>4 DEF ReconcileKnown
  <2>7. row.host = host /\ row.zone = zone /\ row.ip = ip /\ row.synced = old.synced
        /\ row.excluded = old.excluded /\ row.id = old.id
    BY <2>1 DEF Wanted, Row
  <2>8. old.synced => old.zone # NoZone
    BY <1>0, <1>1, <2>1
  <2>9. \/ ip = NoIP /\ old.synced /\ chs = <<Delete(m, old)>>
        \/ ip # NoIP /\ ~old.synced /\ chs = <<Create(m, host, zone, ip)>>
        \/ ip # NoIP /\ old.synced /\ chs = <<Delete(m, old), Create(m, host, zone, ip)>>
        \/ ip # NoIP /\ old.synced /\ chs = <<Update(m, old, host, zone, ip)>>
        \/ ip = NoIP /\ ~old.synced /\ chs = <<>>
        \/ Alike(old, row) /\ chs = <<>>
    BY <2>7, <2>8 DEF KnownChanges, Alike
  <2> HIDE DEF row, host, zone, ip, chs, old
  <2>10. chs \in Seq(Change)
    BY <2>5, <2>9, ShortLists
  <2>11. Decided(m, row, chs)
    <3>1. old = rows[m] /\ old # NoRow
      BY <1>0, <2>1 DEF old
    <3>2. /\ ~row.excluded /\ m \notin members /\ row.zone # NoZone
          /\ rows[m] # NoRow => row.id = rows[m].id
      BY <2>1, <2>3, <2>7, <3>1
    <3>3. CASE chs = <<>>
      <4>1. Alike(old, row) => Published(row) = Published(old)
        BY DEF Alike, Published
      <4>2. row.synced => (row.ip # NoIP => Published(row) \in dns)
        BY <1>1, <2>1, <2>5, <2>7, <2>9, <3>1, <3>3, <4>1 DEF Alike, old
      <4>3. (Holds(m) <=> row.synced) /\ (Holds(m) => Alike(rows[m], row))
        BY <2>7, <2>9, <3>1, <3>3 DEF Holds
      <4>4. QED
        BY <3>2, <3>3, <4>2, <4>3 DEF Decided, AlreadyTrue
    <3>4. CASE ip = NoIP /\ old.synced /\ chs = <<Delete(m, old)>>
      BY <2>5, <2>7, <3>1, <3>2, <3>4 DEF Decided, Delete, TakesDown
    <3>5. CASE ip # NoIP /\ ~old.synced /\ chs = <<Create(m, host, zone, ip)>>
      BY <2>5, <2>7, <3>1, <3>2, <3>5 DEF Decided, Create, PutsUp, Holds
    <3>6. CASE ip # NoIP /\ old.synced /\ chs = <<Update(m, old, host, zone, ip)>>
      BY <2>5, <2>7, <3>1, <3>2, <3>6 DEF Decided, Update, PutsUp, TakesDown
    <3>7. CASE ip # NoIP /\ old.synced /\ chs = <<Delete(m, old), Create(m, host, zone, ip)>>
      <4>1. PICK one \in Change, two \in Change : one = Delete(m, old) /\ two = Create(m, host, zone, ip)
        BY <2>5
      <4>2. /\ one.mac = m /\ two.mac = m
            /\ one.kind = "delete" /\ TakesDown(one, rows[m])
            /\ one.host = one.oldHost /\ one.zone = one.oldZone
            /\ two.kind = "create" /\ PutsUp(two, row)
            /\ two.oldHost = two.host /\ two.oldZone = two.zone
        BY <2>7, <3>1, <3>7, <4>1 DEF Delete, Create, PutsUp, TakesDown
      <4>3. chs = <<one, two>> /\ chs # <<>>
        BY <3>7, <4>1
      <4>4. QED
        BY <3>2, <4>2, <4>3 DEF Decided
    <3>8. QED
      BY <2>9, <3>3, <3>4, <3>5, <3>6, <3>7
  <2>12. QED
    BY <1>0, <2>4, <2>6, <2>10, <2>11, DecideMarks
<1>5. CASE ReconcileUnseen(m)
  <2>1. found[m] \in Row /\ found[m] = rows[m] /\ rows[m] # NoRow
    BY <1>0, <1>5 DEF ReconcileUnseen, TypeInv, InPass
  <2>2. CASE Decide(m, found[m], <<>>)
    <3>1. Decided(m, found[m], <<>>) /\ <<>> \in Seq(Change)
      BY <1>1, <2>1 DEF Decided, AlreadyTrue, Holds, Alike
    <3>2. QED
      BY <1>0, <2>1, <2>2, <3>1, DecideMarks
  <2>3. CASE /\ Decide(m, [found[m] EXCEPT !.synced = FALSE], <<Delete(m, found[m])>>)
             /\ found[m].synced /\ ~found[m].excluded
    <3> DEFINE row == [found[m] EXCEPT !.synced = FALSE]
               ch == Delete(m, found[m])
    <3>1. row \in Row /\ ch \in Change /\ <<ch>> \in Seq(Change)
      <4>1. row \in Row
        BY <2>1, RowEditType
      <4>2. ch \in Change
        BY <2>1 DEF Delete, Change, Row
      <4>3. QED
        BY <4>1, <4>2
    <3>2. /\ row.id = rows[m].id /\ ~row.excluded /\ m \notin members /\ row.zone # NoZone
          /\ Alike(rows[m], row)
      BY <1>1, <2>1, <2>3 DEF Row, Alike
    <3>3. Decided(m, row, <<ch>>)
      BY <2>1, <2>3, <3>1, <3>2 DEF Decided, Delete, TakesDown
    <3> HIDE DEF row, ch
    <3>4. Decide(m, row, <<ch>>)
      BY <2>3 DEF row, ch
    <3>5. QED
      BY <1>0, <3>1, <3>3, <3>4, DecideMarks
  <2>4. QED
    BY <1>5, <2>2, <2>3 DEF ReconcileUnseen, Removed
<1>6. QED
  BY <1>2, <1>3, <1>4, <1>5 DEF Reconcile

-----------------------------------------------------------------------------
(* The rest of the cycle.                                                  *)

(* Writing a pass back: every row is written, with the mark it has earned. *)
LEMMA PersistedRows ==
    ASSUME TypeInv, NamesInv, MarksInv, Persist, NEW m \in MACs
    PROVE  /\ result[m] = NoRow => ~Holds(m) /\ rows'[m] = rows[m]
           /\ result[m] # NoRow =>
                 /\ rows'[m] # NoRow /\ Alike(result[m], rows'[m])
                 /\ rows'[m].synced = Mark(m) /\ rows'[m].excluded = result[m].excluded
<1>1. phase = "apply" /\ changes = <<>>
  BY DEF Persist
<1>2. \A o \in MACs : ~Collides(o)
  BY DEF MarksInv, SameIds, Collides
<1>3. rows' = [o \in MACs |-> IF result[o] = NoRow THEN rows[o]
                             ELSE IF result[o].id = 0
                             THEN [Final(o) EXCEPT !.id = made[o] + 1]
                             ELSE Final(o)]
  BY <1>2 DEF Persist
<1>4. Holds(m) => result[m] # NoRow
  <2>1. todo = {}
    BY <1>1 DEF TypeInv, InPass
  <2>2. QED
    BY <1>1, <2>1 DEF NamesInv, NamesTaken, Waits, MarksInv, RowsTrue, Holds
<1>5. CASE result[m] # NoRow
  <2>1. result[m] \in Row /\ made[m] \in Nat /\ Mark(m) \in BOOLEAN /\ NoRow \notin Row
    BY <1>5, EngineAssumption DEF EngineAssumption, TypeInv, TypeOK, Mark, Row
  <2>2. Final(m) = [result[m] EXCEPT !.synced = Mark(m)]
    BY DEF Final, Mark
  <2>3. Alike(result[m], Final(m)) /\ Final(m).synced = Mark(m)
        /\ Final(m).excluded = result[m].excluded /\ Final(m) \in Row
    <3> HIDE DEF Mark
    <3>1. QED
      BY <2>1, <2>2 DEF Alike, Row
  <2>4. rows'[m] \in {Final(m), [Final(m) EXCEPT !.id = made[m] + 1]}
    BY <1>3, <1>5
  <2> HIDE DEF Mark, Final
  <2>5. CASE rows'[m] = Final(m)
    BY <1>4, <2>1, <2>3, <2>5
  <2>6. CASE rows'[m] = [Final(m) EXCEPT !.id = made[m] + 1]
    <3>1. rows'[m] \in Row
      BY <2>1, <2>3, <2>6 DEF Row
    <3>2. QED
      BY <1>4, <1>5, <2>1, <2>3, <2>6, <3>1 DEF Alike, Row
  <2>7. QED
    BY <2>4, <2>5, <2>6
<1>6. CASE result[m] = NoRow
  BY <1>3, <1>4, <1>6
<1>7. QED
  BY <1>5, <1>6

LEMMA PersistMarks ==
    ASSUME TypeInv, NamesInv, MarksInv, Persist
    PROVE  MarksInv'
<1>1. /\ phase = "apply" /\ changes = <<>> /\ phase' = "cycle" /\ changes' = <<>>
      /\ result' = Nothing /\ outcome' = [m \in MACs |-> "none"]
      /\ UNCHANGED <<members, dns, skip>>
  BY DEF Persist, EndPass
<1>2. Kept'
  BY <1>1 DEF MarksInv, Kept
<1>3. SameIds' /\ ResultTrue' /\ ChangesTrue'
  BY <1>1 DEF SameIds, ResultTrue, ChangesTrue, Nothing
<1>4. RowsTrue'
  <2> SUFFICES ASSUME NEW m \in MACs, rows'[m] # NoRow, rows'[m].synced
               PROVE  /\ ~rows'[m].excluded /\ m \notin members /\ rows'[m].zone # NoZone
                      /\ rows'[m].ip # NoIP => Published(rows'[m]) \in dns
    BY <1>1 DEF RowsTrue, Published
  <2>1. /\ result[m] # NoRow /\ Alike(result[m], rows'[m])
        /\ rows'[m].synced = Mark(m) /\ rows'[m].excluded = result[m].excluded
    BY PersistedRows DEF Holds
  <2>2. NoneLeft(m) /\ Mark(m)
    BY <1>1, <2>1 DEF NoneLeft
  <2>3. ~result[m].excluded /\ m \notin members /\ result[m].zone # NoZone
        /\ (result[m].ip # NoIP => Published(result[m]) \in dns)
    BY <2>1, <2>2 DEF MarksInv, ResultTrue
  <2>4. Published(rows'[m]) = Published(result[m]) /\ rows'[m].ip = result[m].ip
        /\ rows'[m].zone = result[m].zone
    BY <2>1 DEF Alike, Published
  <2>5. QED
    BY <2>1, <2>3, <2>4
<1>5. QED
  BY <1>2, <1>3, <1>4 DEF MarksInv

(* Every step but a crash.                                                 *)
LEMMA NextMarks ==
    ASSUME NEW c, Controllers = {c}, ~LostReplies, ~MayCrash,
           TypeInv, NamesInv, MarksInv, [Next]_vars
    PROVE  MarksInv'
<1>1. ASSUME UNCHANGED <<table, dns, result, changes, outcome, todo>>, Kept'
      PROVE  MarksInv'
  BY <1>1
  DEF MarksInv, SameIds, RowsTrue, ResultTrue, ChangesTrue, ChangeTrue, PutsUp, TakesDown, Alike,
      NoneAfter, NoneBefore, NoneLeft, Mark, Published, table
<1>2. CASE BeginCycle
  <2>1. Kept'
    BY <1>2 DEF BeginCycle, MarksInv, Kept, table, pass
  <2>2. QED
    BY <1>1, <1>2, <2>1 DEF BeginCycle, pass
<1>3. CASE EndCycle
  <2>1. Kept'
    BY <1>3 DEF EndCycle, MarksInv, Kept, table, pass
  <2>2. QED
    BY <1>1, <1>3, <2>1 DEF EndCycle, pass
<1>4. ASSUME NEW d \in Controllers, FetchFails(d) PROVE MarksInv'
  <2>1. Kept'
    BY <1>4 DEF FetchFails, MarksInv, Kept, table, pass
  <2>2. QED
    BY <1>1, <1>4, <2>1 DEF FetchFails, pass
<1>5. ASSUME NEW d \in Controllers, NEW reported \in Reports(d), Fetch(d, reported)
      PROVE  MarksInv'
  <2>1. phase = "cycle" /\ phase' = "reconcile" /\ changes = <<>> /\ changes' = <<>>
        /\ UNCHANGED <<rows, members, dns, skip, result, outcome>>
    BY <1>5 DEF Fetch, MarksInv, Kept, table
  <2>2. Kept' /\ SameIds' /\ RowsTrue' /\ ResultTrue'
    BY <2>1 DEF MarksInv, Kept, SameIds, RowsTrue, ResultTrue, NoneLeft, Mark, Published
  <2>3. ChangesTrue'
    BY <2>1 DEF ChangesTrue
  <2>4. QED
    BY <2>2, <2>3 DEF MarksInv
<1>6. ASSUME NEW m \in MACs, Reconcile(m) PROVE MarksInv'
  BY <1>6, ReconcileMarks
<1>7. CASE BeginApply
  <2>1. Kept'
    BY <1>7 DEF BeginApply, MarksInv, Kept, table, pass
  <2>2. QED
    BY <1>1, <1>7, <2>1 DEF BeginApply, pass
<1>8. ASSUME NEW ok \in BOOLEAN, Apply(ok) PROVE MarksInv'
  BY <1>8, ApplyMarks
<1>9. CASE Persist
  BY <1>9, PersistMarks
<1>10. CASE UNCHANGED vars
  <2>1. Kept'
    BY <1>10 DEF vars, MarksInv, Kept, table, engine, pass
  <2>2. QED
    BY <1>1, <1>10, <2>1 DEF vars, engine, pass
<1>11. QED
  BY <1>2, <1>3, <1>4, <1>5, <1>6, <1>7, <1>8, <1>9, <1>10 DEF Next, Cycle, Crash

LEMMA InitMarks ==
    ASSUME Init
    PROVE  MarksInv
<1>1. Kept /\ ChangesTrue
  BY DEF Init, Kept, ChangesTrue
<1>2. SameIds /\ RowsTrue /\ ResultTrue
  BY DEF Init, Nothing, SameIds, RowsTrue, ResultTrue
<1>3. QED
  BY <1>1, <1>2 DEF MarksInv

(* With one controller, whatever it reports and whichever calls fail, a    *)
(* device that is marked as published is: as long as a failed call was not *)
(* carried out after all and the process does not die half-way.            *)
THEOREM MarksStayTrue ==
    ASSUME NEW c, Controllers = {c}, ~LostReplies, ~MayCrash
    PROVE  Spec => []SyncedMeansPublished
<1>1. Init => TypeInv /\ NamesInv /\ MarksInv
  BY InitTypeInv, InitNames, InitMarks
<1>2. (TypeInv /\ NamesInv /\ MarksInv) /\ [Next]_vars => (TypeInv /\ NamesInv /\ MarksInv)'
  BY NextTypeInv, NextNames, NextMarks
<1>3. MarksInv => SyncedMeansPublished
  BY DEF MarksInv, Kept, RowsTrue, SyncedMeansPublished, Claimed
<1>4. QED
  BY <1>1, <1>2, <1>3, PTL DEF Spec

-----------------------------------------------------------------------------
(* No orphans.                                                             *)

(* A call that takes the old record down leaves no record the device would *)
(* have found, but the new one.                                            *)
LEMMA CallTakesDown ==
    ASSUME NEW D \in SUBSET Record, NEW ch \in Change, ch.kind # "create",
           NEW E \in Succeeded(D, ch)
    PROVE  \A r \in E :
              \/ ch.kind = "update" /\ r = Rec(ch.host, ch.zone, ch.ip)
              \/ r \in D /\ ~(r.host = ch.oldHost /\ r.zone = ch.oldZone /\ ch.oldIP \in {r.ip, NoIP})
<1> DEFINE new == Rec(ch.host, ch.zone, ch.ip)
           old == IF ch.oldIP = NoIP THEN LookedUp(D, ch)
                  ELSE {Rec(ch.oldHost, ch.oldZone, ch.oldIP)} \cap D
<1>1. \A r \in D \ old : ~(r.host = ch.oldHost /\ r.zone = ch.oldZone /\ ch.oldIP \in {r.ip, NoIP})
  BY DEF LookedUp, At, Rec, Record
<1>2. CASE ch.kind = "update"
  <2>1. E \in Updated(D, ch)
    BY <1>2 DEF Succeeded
  <2>2. E = (D \ old) \cup {new} \/ E = Added(D \ old, ch)
    BY <2>1 DEF Updated
  <2>3. Added(D \ old, ch) \subseteq (D \ old) \cup {new}
    BY DEF Added
  <2> HIDE DEF old, new
  <2>4. \A r \in E : r = new \/ r \in D \ old
    BY <2>2, <2>3
  <2>5. QED
    BY <1>1, <1>2, <2>4 DEF new
<1>3. CASE ch.kind = "delete"
  <2>1. E = D \ old
    BY <1>3 DEF Succeeded, Deleted
  <2> HIDE DEF old
  <2>2. QED
    BY <1>1, <2>1
<1>4. QED
  BY <1>2, <1>3 DEF Change

(* Only an update whose record is not there can be refused.                *)
LEMMA RefusedUpdate ==
    ASSUME NEW D \in SUBSET Record, NEW ch \in Change, Refused(D, ch)
    PROVE  /\ ch.kind = "update" /\ ch.oldIP # NoIP
           /\ Rec(ch.oldHost, ch.oldZone, ch.oldIP) \notin D
<1> DEFINE r == Rec(ch.oldHost, ch.oldZone, ch.oldIP)
<1>1. ch.kind = "update"
  BY DEF Refused, Succeeded, Change
<1>2. Updated(D, ch) = {}
  BY <1>1 DEF Refused, Succeeded
<1>3. ch.oldIP # NoIP
  BY <1>2 DEF Updated
<1>4. ~Single({r} \cap D)
  BY <1>2, <1>3 DEF Updated
<1> HIDE DEF r
<1>5. r \notin D
  BY <1>4 DEF Single
<1>6. QED
  BY <1>1, <1>3, <1>5 DEF r

(* When no call fails none is refused either: the record to update is      *)
(* there.                                                                  *)
LEMMA CallsGoThrough ==
    ASSUME ~MayFail, TypeInv, MarksInv, NEW ok \in BOOLEAN, Apply(ok)
    PROVE  ok /\ dns' \in Succeeded(dns, changes[1])
<1> DEFINE ch == changes[1]
           m == ch.mac
<1>1. changes # <<>> /\ changes' = Tail(changes) /\ changes \in Seq(Change) /\ dns \in SUBSET Record
  BY DEF Apply, TypeInv, TypeOK
<1>2. Head(changes) = ch /\ ch \in Change /\ m \in MACs /\ 1 \in DOMAIN changes
  <2>1. ch \in Change
    BY <1>1, ChangesLeft
  <2>2. QED
    BY <1>1, <2>1, ChangesLeft DEF Change
<1>3. ChangeTrue(1, ch)
  BY <1>2 DEF MarksInv, ChangesTrue
<1>4. ASSUME ~ok PROVE FALSE
  <2>1. Refused(dns, ch)
    BY <1>2, <1>4 DEF Apply
  <2>2. /\ ch.kind = "update" /\ ch.oldIP # NoIP
        /\ Rec(ch.oldHost, ch.oldZone, ch.oldIP) \notin dns
    BY <1>1, <1>2, <2>1, RefusedUpdate
  <2>3. TakesDown(ch, rows[m]) /\ outcome[m] = "none"
    BY <1>3, <2>2 DEF ChangeTrue
  <2>4. Published(rows[m]) = Rec(ch.oldHost, ch.oldZone, ch.oldIP) /\ Published(rows[m]) \in dns
    BY <1>2, <2>2, <2>3 DEF TakesDown, Published, MarksInv, RowsTrue
  <2>5. QED
    BY <2>2, <2>4
<1>5. QED
  BY <1>2, <1>4 DEF Apply

(* Carrying out the first change.                                          *)
LEMMA ApplyOwn ==
    ASSUME ~MayFail, TypeInv, NamesInv, MarksInv, OwnInv, NEW ok \in BOOLEAN, Apply(ok)
    PROVE  OwnInv'
<1> DEFINE ch == changes[1]
           m == ch.mac
           new == Rec(ch.host, ch.zone, ch.ip)
<1>1. phase = "apply" /\ changes # <<>> /\ changes' = Tail(changes) /\ changes \in Seq(Change)
      /\ UNCHANGED <<rows, result>> /\ dns \in SUBSET Record
  BY DEF Apply, table, TypeInv, TypeOK
<1>2. /\ Head(changes) = ch /\ ch \in Change /\ m \in MACs /\ 1 \in DOMAIN changes
      /\ \A j \in DOMAIN changes' : j + 1 \in DOMAIN changes /\ changes'[j] = changes[j + 1]
      /\ \A i \in DOMAIN changes : i = 1 \/ (i - 1 \in DOMAIN changes' /\ changes'[i - 1] = changes[i])
  <2>1. ch \in Change
    BY <1>1, ChangesLeft
  <2>2. QED
    BY <1>1, <2>1, ChangesLeft DEF Change
<1>3. ChangeTrue(1, ch) /\ CreateFits(1, ch)
  BY <1>2 DEF MarksInv, ChangesTrue, OwnInv, CreatesFit
<1>4. ok /\ dns' \in Succeeded(dns, ch)
  BY CallsGoThrough
<1>5. /\ outcome'[m] = IF ch.kind = "delete" THEN "gone" ELSE "present"
      /\ \A o \in MACs : o # m => outcome'[o] = outcome[o]
  BY <1>2, <1>4 DEF Apply, TypeInv, TypeOK, OutcomeOf, Change
<1>6. \A i : i \in DOMAIN changes => i \in Nat /\ i >= 1
  BY <1>1
<1>7. /\ \A o : NoneLeft(o)' => NoneAfter(1, o)
      /\ \A o : \A j \in DOMAIN changes' : NoneBefore(j, o)' => (o = m \/ NoneBefore(j + 1, o))
  <2>1. \A o : NoneLeft(o)' => NoneAfter(1, o)
    BY <1>1, ChangesLeft
  <2>2. ASSUME NEW o, NEW j \in DOMAIN changes', NoneBefore(j, o)', o # m,
               NEW i \in DOMAIN changes, i < j + 1
        PROVE  changes[i].mac # o
    <3>1. j \in Nat /\ i \in Nat
      BY <1>1, <1>6
    <3>2. i = 1 \/ (i - 1 \in DOMAIN changes' /\ changes'[i - 1] = changes[i] /\ i - 1 < j)
      BY <1>2, <2>2, <3>1
    <3>3. QED
      BY <2>2, <3>2 DEF NoneBefore
  <2>3. QED
    BY <2>1, <2>2 DEF NoneBefore
<1> HIDE DEF ch, m, new
<1>8. Owned'
  <2> SUFFICES ASSUME NEW r \in dns' PROVE \E o \in MACs : Owns(o, r)'
    BY DEF Owned
  <2>1. CASE r = new /\ ch.kind # "delete"
    <3>1. PICK o \in MACs : o = m
      BY <1>2
    <3>2. /\ outcome'[o] = "present" /\ result'[o] = result[m] /\ result[m] # NoRow
          /\ Finds(result[m], r)
      BY <1>1, <1>3, <1>5, <2>1, <3>1 DEF ChangeTrue, PutsUp, Finds, Rec, new, m
    <3>3. QED
      BY <3>2 DEF Owns, Finds
  <2>2. CASE ~(r = new /\ ch.kind # "delete")
    <3>1. r \in dns /\ (ch.kind # "create" =>
              ~(r.host = ch.oldHost /\ r.zone = ch.oldZone /\ ch.oldIP \in {r.ip, NoIP}))
      <4>1. CASE ch.kind = "create"
        BY <1>4, <2>2, <4>1 DEF Succeeded, Added, new
      <4>2. CASE ch.kind # "create"
        <5>1. \/ ch.kind = "update" /\ r = Rec(ch.host, ch.zone, ch.ip)
              \/ r \in dns /\ ~(r.host = ch.oldHost /\ r.zone = ch.oldZone /\ ch.oldIP \in {r.ip, NoIP})
          BY <1>1, <1>2, <1>4, <4>2, CallTakesDown
        <5>2. QED
          BY <2>2, <4>2, <5>1 DEF new
      <4>3. QED
        BY <4>1, <4>2
    <3>2. ~Owns(m, r)
      <4>1. CASE ch.kind = "create"
        <5>1. NoneBefore(1, m)
          BY <1>6 DEF NoneBefore
        <5>2. QED
          BY <1>3, <4>1, <5>1 DEF CreateFits, Owns, m
      <4>2. CASE ch.kind # "create"
        <5>1. TakesDown(ch, rows[m]) /\ outcome[m] = "none"
          BY <1>3, <4>2 DEF ChangeTrue, m
        <5>2. QED
          BY <3>1, <4>2, <5>1 DEF TakesDown, Owns, Finds
      <4>3. QED
        BY <4>1, <4>2
    <3>3. PICK o \in MACs : Owns(o, r)
      BY <3>1 DEF OwnInv, Owned
    <3>4. o # m
      BY <3>2, <3>3
    <3>5. QED
      BY <1>1, <1>5, <3>3, <3>4 DEF Owns, Holds, Finds
  <2>3. QED
    BY <2>1, <2>2
<1>9. Carried'
  <2> SUFFICES ASSUME NEW o \in MACs, Holds(o), result[o] # NoRow, outcome'[o] = "none", NoneLeft(o)'
               PROVE  result[o].synced /\ Alike(rows[o], result[o])
    BY <1>1 DEF Carried, Holds, Alike
  <2>1. o # m /\ NoneAfter(1, o)
    BY <1>5, <1>7
  <2>2. NoneLeft(o)
    BY <1>6, <2>1 DEF NoneLeft, NoneAfter, m, ch
  <2>3. QED
    BY <1>5, <2>1, <2>2 DEF OwnInv, Carried
<1>10. CreatesFit'
  <2> SUFFICES ASSUME NEW j \in DOMAIN changes' PROVE CreateFits(j, changes[j])'
    BY DEF CreatesFit
  <2>0. PICK next, o : next = changes[j + 1] /\ o = next.mac
    OBVIOUS
  <2>1. /\ j + 1 \in DOMAIN changes /\ changes'[j] = next /\ next \in Change /\ o \in MACs
        /\ CreateFits(j + 1, next)
    <3>1. j + 1 \in DOMAIN changes /\ changes'[j] = next
      BY <1>2, <2>0
    <3>2. next \in Change
      BY <1>1, <2>0, <3>1
    <3>3. CreateFits(j + 1, next)
      BY <2>0, <3>1 DEF OwnInv, CreatesFit
    <3>4. QED
      BY <2>0, <3>1, <3>2, <3>3 DEF Change
  <2>2. CASE o = m
    <3>1. ~NoneAfter(1, m)
      <4>1. j + 1 > 1
        BY <1>1
      <4>2. QED
        BY <2>0, <2>1, <2>2, <4>1 DEF NoneAfter
    <3>2. ch.kind = "delete"
      BY <1>3, <3>1 DEF ChangeTrue, m
    <3>3. outcome'[o] = "gone"
      BY <1>5, <2>2, <3>2
    <3>4. QED
      BY <2>0, <2>1, <3>3 DEF CreateFits
  <2>3. CASE o # m
    <3>1. NoneBefore(j, o)' => NoneBefore(j + 1, o)
      BY <1>7, <2>3
    <3>2. QED
      BY <1>1, <1>5, <2>0, <2>1, <2>3, <3>1 DEF CreateFits, Holds
  <2>4. QED
    BY <2>2, <2>3
<1>11. QED
  BY <1>8, <1>9, <1>10 DEF OwnInv

(* What is written back is what each device was found to have.             *)
LEMMA PersistOwn ==
    ASSUME TypeInv, NamesInv, MarksInv, OwnInv, Persist
    PROVE  OwnInv'
<1>1. /\ phase = "apply" /\ changes = <<>> /\ changes' = <<>>
      /\ result' = Nothing /\ outcome' = [m \in MACs |-> "none"]
      /\ UNCHANGED dns
  BY DEF Persist, EndPass
<1>2. ASSUME NEW r \in dns PROVE \E m \in MACs : Owns(m, r)'
  <2>1. PICK m \in MACs : Owns(m, r)
    BY DEF OwnInv, Owned
  <2>2. /\ result[m] # NoRow /\ rows'[m] # NoRow /\ Alike(result[m], rows'[m])
        /\ rows'[m].synced = Mark(m)
    BY <2>1, PersistedRows DEF Owns, Holds
  <2>3. Mark(m) /\ Finds(result[m], r)
    <3>1. CASE outcome[m] = "none"
      <4>1. Holds(m) /\ Finds(rows[m], r) /\ NoneLeft(m)
        BY <1>1, <2>1, <3>1 DEF Owns, NoneLeft
      <4>2. result[m].synced /\ Alike(rows[m], result[m])
        BY <2>2, <3>1, <4>1 DEF OwnInv, Carried
      <4>3. QED
        BY <3>1, <4>1, <4>2 DEF Mark, Alike, Finds
    <3>2. CASE outcome[m] # "none"
      BY <2>1, <3>2 DEF Owns, Mark
    <3>3. QED
      BY <3>1, <3>2
  <2>4. QED
    BY <1>1, <2>2, <2>3 DEF Owns, Holds, Alike, Finds
<1>3. Owned'
  BY <1>1, <1>2 DEF Owned
<1>4. Carried' /\ CreatesFit'
  BY <1>1 DEF Carried, CreatesFit, Nothing
<1>5. QED
  BY <1>3, <1>4 DEF OwnInv

LEMMA NextOwn ==
    ASSUME NEW c, Controllers = {c}, ~MayFail, ~MayCrash,
           TypeInv, NamesInv, MarksInv, OwnInv, [Next]_vars
    PROVE  OwnInv'
<1>1. ASSUME UNCHANGED <<rows, dns, result, changes, outcome>> PROVE OwnInv'
  BY <1>1
  DEF OwnInv, Owned, Owns, Holds, Finds, Carried, Alike, NoneLeft, CreatesFit, CreateFits, NoneBefore
<1>2. CASE BeginCycle \/ EndCycle \/ BeginApply \/ UNCHANGED vars
  BY <1>1, <1>2 DEF BeginCycle, EndCycle, BeginApply, vars, engine, table, pass
<1>3. ASSUME NEW d \in Controllers, FetchFails(d) PROVE OwnInv'
  BY <1>1, <1>3 DEF FetchFails, table, pass
<1>4. ASSUME NEW d \in Controllers, NEW reported \in Reports(d), Fetch(d, reported) PROVE OwnInv'
  BY <1>1, <1>4 DEF Fetch, table
<1>5. ASSUME NEW m \in MACs, Reconcile(m) PROVE OwnInv'
  BY <1>5, ReconcileMarks
<1>6. ASSUME NEW ok \in BOOLEAN, Apply(ok) PROVE OwnInv'
  BY <1>6, ApplyOwn
<1>7. CASE Persist
  BY <1>7, PersistOwn
<1>8. QED
  BY <1>2, <1>3, <1>4, <1>5, <1>6, <1>7 DEF Next, Cycle, Crash

(* With one controller, whatever it reports, every record on the server    *)
(* belongs to a device that will find it again: as long as no call fails   *)
(* and the process does not die half-way.                                  *)
THEOREM NothingLeftBehind ==
    ASSUME NEW c, Controllers = {c}, ~MayFail, ~LostReplies, ~MayCrash
    PROVE  Spec => []NoOrphans
<1>1. Init => TypeInv /\ NamesInv /\ MarksInv /\ OwnInv
  <2>1. Init => OwnInv
    BY DEF Init, Nothing, OwnInv, Owned, Carried, CreatesFit, Holds
  <2>2. QED
    BY <2>1, InitTypeInv, InitNames, InitMarks
<1>2. (TypeInv /\ NamesInv /\ MarksInv /\ OwnInv) /\ [Next]_vars
          => (TypeInv /\ NamesInv /\ MarksInv /\ OwnInv)'
  BY NextTypeInv, NextNames, NextMarks, NextOwn
<1>3. MarksInv /\ OwnInv => NoOrphans
  BY DEF MarksInv, Kept, OwnInv, Owned, Owns, Holds, Finds, NoOrphans
<1>4. QED
  BY <1>1, <1>2, <1>3, PTL DEF Spec
-----------------------------------------------------------------------------
(* Marked rows have an address.                                            *)

(* A call that goes through marks a device with the address it put up.     *)
LEMMA ApplyAddress ==
    ASSUME ~MayFail, TypeInv, MarksInv, AddressInv, NEW ok \in BOOLEAN, Apply(ok)
    PROVE  AddressInv'
<1> DEFINE ch == changes[1]
           m == ch.mac
<1>1. changes # <<>> /\ changes' = Tail(changes) /\ changes \in Seq(Change)
      /\ UNCHANGED <<rows, result>>
  BY DEF Apply, table, TypeInv, TypeOK
<1>2. Head(changes) = ch /\ ch \in Change /\ m \in MACs /\ 1 \in DOMAIN changes
  <2>1. ch \in Change
    BY <1>1, ChangesLeft
  <2>2. QED
    BY <1>1, <2>1, ChangesLeft DEF Change
<1>3. ChangeTrue(1, ch)
  BY <1>2 DEF MarksInv, ChangesTrue
<1>4. ok
  BY CallsGoThrough
<1>5. /\ outcome'[m] = IF ch.kind = "delete" THEN "gone" ELSE "present"
      /\ \A o \in MACs : o # m => outcome'[o] = outcome[o]
  BY <1>2, <1>4 DEF Apply, TypeInv, TypeOK, OutcomeOf, Change
<1>6. ASSUME NEW o \in MACs, result[o] # NoRow, NoneLeft(o)', Mark(o)'
      PROVE  result[o].ip # NoIP
  <2>1. CASE o = m
    BY <1>3, <1>5, <1>6, <2>1 DEF Mark, ChangeTrue, PutsUp
  <2>2. CASE o # m
    <3>1. NoneAfter(1, o)
      BY <1>1, <1>6, ChangesLeft
    <3>2. \A i \in DOMAIN changes : i = 1 \/ i > 1
      BY <1>1
    <3>3. NoneLeft(o)
      BY <2>2, <3>1, <3>2 DEF NoneLeft, NoneAfter, m, ch
    <3>4. Mark(o)
      BY <1>1, <1>5, <1>6, <2>2 DEF Mark
    <3>5. QED
      BY <1>6, <3>3, <3>4 DEF AddressInv
  <2>3. QED
    BY <2>1, <2>2
<1>7. QED
  BY <1>1, <1>6 DEF AddressInv, Holds

LEMMA NextAddress ==
    ASSUME NEW c, Controllers = {c}, ~MayFail, ~MayCrash,
           TypeInv, NamesInv, MarksInv, AddressInv, [Next]_vars
    PROVE  AddressInv'
<1>1. ASSUME UNCHANGED <<rows, result, changes, outcome>> PROVE AddressInv'
  BY <1>1 DEF AddressInv, Holds, NoneLeft, Mark
<1>2. CASE BeginCycle \/ EndCycle \/ BeginApply \/ UNCHANGED vars
  BY <1>1, <1>2 DEF BeginCycle, EndCycle, BeginApply, vars, engine, table, pass
<1>3. ASSUME NEW d \in Controllers, FetchFails(d) PROVE AddressInv'
  BY <1>1, <1>3 DEF FetchFails, table, pass
<1>4. ASSUME NEW d \in Controllers, NEW reported \in Reports(d), Fetch(d, reported)
      PROVE  AddressInv'
  BY <1>1, <1>4 DEF Fetch, table
<1>5. ASSUME NEW m \in MACs, Reconcile(m) PROVE AddressInv'
  BY <1>5, ReconcileMarks
<1>6. ASSUME NEW ok \in BOOLEAN, Apply(ok) PROVE AddressInv'
  BY <1>6, ApplyAddress
<1>7. CASE Persist
  <2>1. changes = <<>> /\ result' = Nothing
    BY <1>7 DEF Persist, EndPass
  <2>2. ASSUME NEW m \in MACs, Holds(m)' PROVE rows'[m].ip # NoIP
    <3>1. /\ result[m] # NoRow /\ Alike(result[m], rows'[m])
          /\ rows'[m].synced = Mark(m)
      BY <1>7, <2>2, PersistedRows DEF Holds
    <3>2. NoneLeft(m) /\ Mark(m)
      BY <2>1, <2>2, <3>1 DEF NoneLeft, Holds
    <3>3. QED
      BY <3>1, <3>2 DEF AddressInv, Alike
  <2>3. QED
    BY <2>1, <2>2 DEF AddressInv, Nothing
<1>8. QED
  BY <1>2, <1>3, <1>4, <1>5, <1>6, <1>7 DEF Next, Cycle, Crash
=============================================================================
