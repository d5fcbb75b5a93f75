-------------------------- MODULE AliasSyncProofs --------------------------
(***************************************************************************)
(* Proofs about AliasSync, for any devices, aliases and zones, with calls  *)
(* that fail and records edited by hand.                                   *)
(***************************************************************************)
EXTENDS AliasSync, TLAPS

-----------------------------------------------------------------------------
(* Types.                                                                  *)

(* A row that is published says where, and requests are about aliases.     *)
Named(row) == row # NoRow /\ row.synced => row.name \in Name /\ row.target \in Name

RowsNamed == \A k \in Aliases : Named(table[k]) /\ Named(copy[k])

RequestsKnown ==
    /\ adding # Idle => adding.key \in Aliases
    /\ At("delete") =>
          /\ req.key \in Aliases
          /\ req.step = "record" => req.row.synced /\ req.row.name \in Name

TypeInv == TypeOK /\ RowsNamed /\ RequestsKnown

(* An alias belongs to a device.                                           *)
LEMMA AliasesAreAlias ==
    /\ \A k \in Aliases : k \in Alias /\ k.dev \in Devices /\ k.label \in Labels
                              /\ k \in AliasesFor(k.dev)
    /\ \A d \in Devices : \A k \in AliasesFor(d) : k \in Aliases /\ k.dev = d
  BY AliasAssumption DEF AliasAssumption, Aliases, Alias

(* What a present device makes of an alias is a row with a name.           *)
LEMMA PublishedIsRow ==
    ASSUME NEW k \in Aliases, NEW dev \in Device \cup {NoRow}, Present(dev)
    PROVE  /\ NameOf(k, dev) \in Name /\ TargetOf(dev) \in Name
           /\ PublishedAs(k, dev) \in Row /\ PublishedAs(k, dev).synced
           /\ Named(PublishedAs(k, dev))
<1>1. dev \in Device /\ dev.zone \in Zones /\ dev.host \in Labels
  BY DEF Present, Device
<1>2. k.label \in Labels /\ k.pin \in Zones \cup {NoZone}
  BY AliasesAreAlias DEF Alias
<1>3. NameOf(k, dev) \in Name /\ TargetOf(dev) \in Name
  BY <1>1, <1>2 DEF NameOf, ZoneOf, TargetOf, Name
<1>4. QED
  BY <1>3 DEF PublishedAs, Row, Named

(* A row that is not published is a row.                                   *)
LEMMA UnpublishedIsRow == Unpublished \in Row /\ ~Unpublished.synced /\ Named(Unpublished)
  BY DEF Unpublished, Row, Named

(* Calls keep the server's records what they are.                          *)
LEMMA WithoutTyped ==
    ASSUME TypeOK, NEW n \in Name, NEW cn \in {cname, Without(n)}
    PROVE  cn \in [Name -> Name \cup {NoName, Elsewhere}]
  BY DEF TypeOK, Without

LEMMA WithTyped ==
    ASSUME TypeOK, NEW n \in Name, NEW target \in Name \cup {Elsewhere},
           NEW cn \in {cname, With(n, target)}
    PROVE  cn \in [Name -> Name \cup {NoName, Elsewhere}]
  BY DEF TypeOK, With

(* After a call the server has done it or nothing.                         *)
LEMMA AfterIs ==
    ASSUME NEW where, NEW ok \in BOOLEAN, NEW done, NEW cn \in After(where, ok, done)
    PROVE  cn \in {cname, done} /\ (ok => cn = done) /\ (~ok /\ ~LostReplies => cn = cname)
                                /\ (~ok => where \in FailIn)
  BY DEF After

(* The types hold initially.                                               *)
LEMMA TypeInit == Init => TypeInv
<1> SUFFICES ASSUME Init PROVE TypeInv
  OBVIOUS
<1>1. devs \in [Devices -> Device]
  BY DEF Init
<1>2. TypeOK
  BY <1>1 DEF Init, TypeOK, NoCopy, NoDevices
<1>3. RowsNamed /\ RequestsKnown
  BY DEF Init, RowsNamed, Named, NoCopy, RequestsKnown, At
<1>4. QED
  BY <1>2, <1>3 DEF TypeInv

(* Saving a row of the stage keeps the types.                              *)
LEMMA DoneTyped ==
    ASSUME TypeInv, NEW k \in Aliases, NEW row \in Row \cup {NoRow}, Named(row), Done(k, row),
           cname' \in [Name -> Name \cup {NoName, Elsewhere}], phase = "apply"
    PROVE  TypeInv'
<1>1. TypeOK'
  BY DEF TypeInv, TypeOK, Done
<1>2. RowsNamed'
  BY DEF TypeInv, TypeOK, RowsNamed, Named, Done
<1>3. RequestsKnown'
  BY DEF TypeInv, RequestsKnown, At, Done
<1>4. QED
  BY <1>1, <1>2, <1>3 DEF TypeInv

(* The stage keeps the types.                                              *)
LEMMA StageTyped == TypeInv /\ Stage => TypeInv'
<1> SUFFICES ASSUME TypeInv, Stage PROVE TypeInv'
  OBVIOUS
<1>1. CASE BeginStage
  <2>1. TypeOK'
    BY <1>1 DEF TypeInv, TypeOK, BeginStage
  <2>2. RowsNamed' /\ RequestsKnown'
    BY <1>1 DEF TypeInv, RowsNamed, RequestsKnown, Named, At, BeginStage
  <2>3. QED
    BY <2>1, <2>2 DEF TypeInv
<1>2. ASSUME NEW k \in Aliases, NEW ok \in BOOLEAN, RemoveOld(k, ok) PROVE TypeInv'
  <2>1. phase = "apply" /\ copy[k] \in Row /\ copy[k].synced /\ Named(copy[k])
    BY <1>2 DEF RemoveOld, Visiting, Outdated, TypeInv, TypeOK, RowsNamed
  <2>2. copy[k].name \in Name
    BY <2>1, NullAssumption DEF Named
  <2>3. cname' \in [Name -> Name \cup {NoName, Elsewhere}]
    <3>1. cname' \in After("stage", ok, Without(copy[k].name))
      BY <1>2 DEF RemoveOld
    <3>2. cname' \in {cname, Without(copy[k].name)}
      BY <3>1, AfterIs
    <3>3. QED
      BY <3>2, <2>2, WithoutTyped DEF TypeInv
  <2>4. CASE ok
    <3>1. copy' = [copy EXCEPT ![k] = Unpublished]
          /\ UNCHANGED <<devs, table, phase, seen, adding, req, calm>>
      BY <1>2, <2>4 DEF RemoveOld, Removed
    <3>2. TypeOK'
      BY <2>1, <2>3, <3>1, UnpublishedIsRow DEF TypeInv, TypeOK
    <3>3. RowsNamed'
      BY <3>1, UnpublishedIsRow DEF TypeInv, TypeOK, RowsNamed, Named
    <3>4. RequestsKnown'
      BY <3>1 DEF TypeInv, RequestsKnown, At
    <3>5. QED
      BY <3>2, <3>3, <3>4 DEF TypeInv
  <2>5. CASE ~ok
    <3>1. Done(k, copy[k])
      BY <1>2, <2>5 DEF RemoveOld, Removed
    <3>2. QED
      BY <3>1, <2>1, <2>3, DoneTyped
  <2>6. QED
    BY <2>4, <2>5
<1>3. ASSUME NEW k \in Aliases, NEW ok \in BOOLEAN, AddNew(k, ok) PROVE TypeInv'
  <2>1. phase = "apply" /\ copy[k] \in Row /\ Named(copy[k])
    BY <1>3 DEF AddNew, Current, Visiting, TypeInv, TypeOK, RowsNamed
  <2>2. seen[k.dev] \in Device \cup {NoRow} /\ Present(seen[k.dev])
    BY <1>3, AliasesAreAlias DEF AddNew, TypeInv, TypeOK
  <2>3. cname' \in [Name -> Name \cup {NoName, Elsewhere}]
    <3> DEFINE n == NameOf(k, seen[k.dev])
               target == TargetOf(seen[k.dev])
    <3>1. n \in Name /\ target \in Name
      BY <2>2, PublishedIsRow
    <3>2. cname' \in After("stage", ok, With(n, target))
      BY <1>3 DEF AddNew
    <3>3. cname' \in {cname, With(n, target)}
      BY <3>2, AfterIs
    <3> HIDE DEF n, target
    <3>4. QED
      BY <3>1, <3>3, WithTyped DEF TypeInv
  <2>4. PICK row \in Row : Done(k, row) /\ Named(row)
    BY <1>3, <2>1, <2>2, PublishedIsRow DEF AddNew
  <2>5. QED
    BY <2>1, <2>3, <2>4, DoneTyped
<1>4. ASSUME NEW k \in Aliases, DropGone(k) PROVE TypeInv'
  <2>1. phase = "apply" /\ Done(k, NoRow) /\ Named(NoRow) /\ cname' = cname
    BY <1>4 DEF DropGone, Current, Visiting, Named
  <2>2. QED
    BY <2>1, DoneTyped DEF TypeInv, TypeOK
<1>5. ASSUME NEW k \in Aliases, Keep(k) PROVE TypeInv'
  <2>1. phase = "apply" /\ Done(k, copy[k]) /\ copy[k] \in Row /\ Named(copy[k]) /\ cname' = cname
    BY <1>5 DEF Keep, Current, Visiting, TypeInv, TypeOK, RowsNamed
  <2>2. QED
    BY <2>1, DoneTyped DEF TypeInv, TypeOK
<1>6. CASE EndStage
  <2>1. TypeOK'
    BY <1>6 DEF TypeInv, TypeOK, EndStage, NoDevices
  <2>2. RowsNamed' /\ RequestsKnown'
    BY <1>6 DEF TypeInv, RowsNamed, RequestsKnown, Named, At, EndStage
  <2>3. QED
    BY <2>1, <2>2 DEF TypeInv
<1>7. QED
  BY <1>1, <1>2, <1>3, <1>4, <1>5, <1>6 DEF Stage

(* Adding an alias, editing records and forgetting keep the types.         *)
LEMMA AdminTyped == TypeInv /\ Admin => TypeInv'
<1> SUFFICES ASSUME TypeInv, Admin PROVE TypeInv'
  OBVIOUS
<1>1. ASSUME NEW k \in Aliases, LoadForAlias(k) PROVE TypeInv'
  <2>1. devs[k.dev] \in Device /\ k \in Alias
    BY <1>1, AliasesAreAlias DEF LoadForAlias, TypeInv, TypeOK
  <2>2. adding' \in Adding /\ adding'.key \in Aliases
    BY <1>1, <2>1 DEF LoadForAlias, Adding
  <2>3. TypeOK'
    BY <1>1, <2>2 DEF TypeInv, TypeOK, LoadForAlias, stage
  <2>4. RowsNamed' /\ RequestsKnown'
    BY <1>1, <2>2 DEF TypeInv, RowsNamed, RequestsKnown, Named, At, LoadForAlias, stage
  <2>5. QED
    BY <2>3, <2>4 DEF TypeInv
<1>2. ASSUME NEW k \in Aliases, DeleteAlias(k) PROVE TypeInv'
  <2>1. k \in Alias /\ table[k] \in Row /\ Named(table[k])
    BY <1>2, AliasesAreAlias DEF DeleteAlias, TypeInv, TypeOK, RowsNamed
  <2>2. /\ req' = [op |-> "delete", key |-> k, row |-> table[k],
                   step |-> IF table[k].synced THEN "record" ELSE "row"]
        /\ UNCHANGED <<devs, table, cname, stage, adding, calm>>
    BY <1>2 DEF DeleteAlias, Begin
  <2>3. req' \in Request
    BY <2>1, <2>2 DEF Request
  <2>4. TypeOK'
    BY <2>2, <2>3 DEF TypeInv, TypeOK, stage
  <2>5. RowsNamed'
    BY <2>2 DEF TypeInv, RowsNamed, Named, stage
  <2>6. RequestsKnown'
    BY <2>1, <2>2, NullAssumption DEF TypeInv, RequestsKnown, Named, At, stage
  <2>7. QED
    BY <2>4, <2>5, <2>6 DEF TypeInv
<1>3. CASE CreateAlias
  <2>1. TypeOK'
    BY <1>3, UnpublishedIsRow DEF TypeInv, TypeOK, CreateAlias, stage
  <2>2. RowsNamed'
    BY <1>3, UnpublishedIsRow DEF TypeInv, TypeOK, RowsNamed, Named, CreateAlias, stage
  <2>3. RequestsKnown'
    BY <1>3 DEF TypeInv, RequestsKnown, At, CreateAlias
  <2>4. QED
    BY <2>1, <2>2, <2>3 DEF TypeInv
<1>4. ASSUME NEW ok \in BOOLEAN, DeleteAliasRecord(ok) PROVE TypeInv'
  <2>1. req.op = "delete" /\ req \in Request /\ req.row.name \in Name
    BY <1>4 DEF DeleteAliasRecord, At, TypeInv, TypeOK, RequestsKnown
  <2>2. cname' \in {cname, Without(req.row.name)}
    BY <1>4, AfterIs DEF DeleteAliasRecord
  <2>3. cname' \in [Name -> Name \cup {NoName, Elsewhere}]
    BY <2>1, <2>2, WithoutTyped DEF TypeInv
  <2>4. req' \in Request \cup {Idle}
    BY <1>4, <2>1 DEF DeleteAliasRecord, Request
  <2>5. TypeOK'
    BY <1>4, <2>3, <2>4 DEF TypeInv, TypeOK, DeleteAliasRecord, stage
  <2>6. RowsNamed'
    BY <1>4 DEF TypeInv, RowsNamed, Named, DeleteAliasRecord, stage
  <2>7. RequestsKnown'
    BY <1>4, <2>1 DEF TypeInv, RequestsKnown, At, DeleteAliasRecord, Request
  <2>8. QED
    BY <2>5, <2>6, <2>7 DEF TypeInv
<1>5. CASE DeleteAliasRow
  <2>1. TypeOK'
    BY <1>5 DEF TypeInv, TypeOK, DeleteAliasRow, stage
  <2>2. RowsNamed' /\ RequestsKnown'
    BY <1>5 DEF TypeInv, TypeOK, RowsNamed, RequestsKnown, Named, At, DeleteAliasRow, stage
  <2>3. QED
    BY <2>1, <2>2 DEF TypeInv
<1>6. ASSUME NEW d \in Devices, Forget(d) PROVE TypeInv'
  <2>1. PICK names : names = {table[k].name : k \in {j \in Of(d) : table[j].synced}}
    OBVIOUS
  <2>2. names \subseteq Name
    BY <2>1, AliasesAreAlias DEF Of, TypeInv, RowsNamed, Named
  <2>3. /\ req' = [op |-> "forget", dev |-> d, step |-> "records", left |-> names]
        /\ UNCHANGED <<devs, table, cname, stage, adding, calm>>
    BY <1>6, <2>1 DEF Forget, Begin
  <2>4. req' \in Request
    BY <2>2, <2>3 DEF Request
  <2>5. TypeOK'
    BY <2>3, <2>4 DEF TypeInv, TypeOK, stage
  <2>6. RowsNamed' /\ RequestsKnown'
    BY <2>3 DEF TypeInv, RowsNamed, RequestsKnown, Named, At, stage
  <2>7. QED
    BY <2>5, <2>6 DEF TypeInv
<1>7. ASSUME NEW n \in Name, NEW ok \in BOOLEAN, ForgetRecord(n, ok) PROVE TypeInv'
  <2>1. req.op = "forget" /\ req \in Request
    BY <1>7 DEF ForgetRecord, At, TypeInv, TypeOK
  <2>2. cname' \in {cname, Without(n)}
    BY <1>7, AfterIs DEF ForgetRecord
  <2>3. cname' \in [Name -> Name \cup {NoName, Elsewhere}]
    BY <2>2, WithoutTyped DEF TypeInv
  <2>4. req' \in Request /\ req'.op = "forget"
    BY <1>7, <2>1 DEF ForgetRecord, Request
  <2>5. TypeOK'
    BY <1>7, <2>3, <2>4 DEF TypeInv, TypeOK, ForgetRecord, stage
  <2>6. RowsNamed' /\ RequestsKnown'
    BY <1>7, <2>4 DEF TypeInv, RowsNamed, RequestsKnown, Named, At, ForgetRecord, stage
  <2>7. QED
    BY <2>5, <2>6 DEF TypeInv
<1>8. CASE ForgetAliases
  <2>1. req.op = "forget" /\ req \in Request
    BY <1>8 DEF ForgetAliases, At, TypeInv, TypeOK
  <2>2. req' \in Request /\ req'.op = "forget"
    BY <1>8, <2>1 DEF ForgetAliases, Request
  <2>3. TypeOK'
    BY <1>8, <2>2 DEF TypeInv, TypeOK, ForgetAliases, stage
  <2>4. RowsNamed' /\ RequestsKnown'
    BY <1>8, <2>2 DEF TypeInv, RowsNamed, RequestsKnown, Named, At, ForgetAliases, stage
  <2>5. QED
    BY <2>3, <2>4 DEF TypeInv
<1>9. CASE ForgetDevice
  <2>1. TypeOK'
    BY <1>9 DEF TypeInv, TypeOK, ForgetDevice, stage
  <2>2. RowsNamed' /\ RequestsKnown'
    BY <1>9 DEF TypeInv, RowsNamed, RequestsKnown, Named, At, ForgetDevice, stage
  <2>3. QED
    BY <2>1, <2>2 DEF TypeInv
<1>10. ASSUME NEW n \in ByHand, AddNetworkRecord(n) PROVE TypeInv'
  <2>1. cname' \in [Name -> Name \cup {NoName, Elsewhere}]
    BY <1>10, AliasAssumption, WithTyped DEF AliasAssumption, TypeInv, AddNetworkRecord
  <2>2. TypeOK'
    BY <1>10, <2>1 DEF TypeInv, TypeOK, AddNetworkRecord, stage
  <2>3. RowsNamed' /\ RequestsKnown'
    BY <1>10 DEF TypeInv, RowsNamed, RequestsKnown, Named, At, AddNetworkRecord, stage
  <2>4. QED
    BY <2>2, <2>3 DEF TypeInv
<1>11. ASSUME NEW n \in ByHand, NEW target \in Name \cup {Elsewhere},
              DeleteNetworkRecord(n, target)
       PROVE  TypeInv'
  <2>1. req' = [op |-> "unlist", name |-> n] /\ UNCHANGED <<devs, table, cname, stage, adding, calm>>
    BY <1>11 DEF DeleteNetworkRecord, Begin
  <2>2. req' \in Request /\ req'.op = "unlist"
    BY <2>1, AliasAssumption DEF Request, AliasAssumption
  <2>3. TypeOK'
    BY <2>1, <2>2 DEF TypeInv, TypeOK, stage
  <2>4. RowsNamed' /\ RequestsKnown'
    BY <2>1, <2>2 DEF TypeInv, RowsNamed, RequestsKnown, Named, At, stage
  <2>5. QED
    BY <2>3, <2>4 DEF TypeInv
<1>12. ASSUME NEW ok \in BOOLEAN, Unlist(ok) PROVE TypeInv'
  <2>1. req.name \in Name
    BY <1>12 DEF Unlist, At, TypeInv, TypeOK, Request
  <2>2. cname' \in [Name -> Name \cup {NoName, Elsewhere}]
    BY <1>12, <2>1, WithoutTyped DEF TypeInv, TypeOK, Unlist, After
  <2>3. TypeOK'
    BY <1>12, <2>2 DEF TypeInv, TypeOK, Unlist, stage
  <2>4. RowsNamed' /\ RequestsKnown'
    BY <1>12 DEF TypeInv, RowsNamed, RequestsKnown, Named, At, Unlist, stage
  <2>5. QED
    BY <2>3, <2>4 DEF TypeInv
<1>13. QED
  BY <1>1, <1>2, <1>3, <1>4, <1>5, <1>6, <1>7, <1>8, <1>9, <1>10, <1>11, <1>12 DEF Admin

(* Every step keeps the types.                                             *)
LEMMA TypeStep == TypeInv /\ [Next]_vars => TypeInv'
<1> SUFFICES ASSUME TypeInv, [Next]_vars PROVE TypeInv'
  OBVIOUS
<1>1. CASE DeviceChanges
  <2>1. devs' \in [Devices -> Device \cup {NoRow}]
    BY <1>1, AliasAssumption DEF AliasAssumption, DeviceChanges, TypeInv, TypeOK
  <2>2. TypeOK'
    BY <1>1, <2>1 DEF TypeInv, TypeOK, DeviceChanges, stage
  <2>3. RowsNamed' /\ RequestsKnown'
    BY <1>1 DEF TypeInv, RowsNamed, RequestsKnown, Named, At, DeviceChanges, stage
  <2>4. QED
    BY <2>2, <2>3 DEF TypeInv
<1>2. CASE CalmDown
  <2>1. TypeOK'
    BY <1>2 DEF TypeInv, TypeOK, CalmDown, stage
  <2>2. RowsNamed' /\ RequestsKnown'
    BY <1>2 DEF TypeInv, RowsNamed, RequestsKnown, Named, At, CalmDown, stage
  <2>3. QED
    BY <2>1, <2>2 DEF TypeInv
<1>3. CASE UNCHANGED vars
  BY <1>3 DEF vars, stage, TypeInv, TypeOK, RowsNamed, RequestsKnown, Named, At
<1>4. QED
  BY <1>1, <1>2, <1>3, StageTyped, AdminTyped DEF Next

(* Devices, aliases, requests and records keep the types they are read     *)
(* with.                                                                   *)
THEOREM AliasTypeCorrect == Spec => []TypeOK
<1>1. Init => TypeInv
  BY TypeInit
<1>2. TypeInv /\ [Next]_vars => TypeInv'
  BY TypeStep
<1>3. TypeInv => TypeOK
  BY DEF TypeInv
<1>4. QED
  BY <1>1, <1>2, <1>3, PTL DEF Spec

-----------------------------------------------------------------------------
(* The CNAMEs are where the rows say.                                      *)

(* Deletions wait for the stage and it for them, a failed call did         *)
(* nothing, and the calls for a forgotten device get an answer.            *)
Sheltered ==
    ~Overlap /\ ~LostReplies /\ "forget" \notin FailIn /\ NamesKeepApart

(* What netreg last noted of each alias: the stage's copy is ahead.        *)
truth == [k \in Aliases |-> IF copy[k] # NoRow THEN copy[k] ELSE table[k]]

Claims(k) == truth[k] # NoRow /\ truth[k].synced
Gone(n) == cname[n] \in {NoName, Elsewhere}

Apart == phase = "apply" => req = Idle

StatesKnown ==
    /\ \A d \in Devices : devs[d] # NoRow => devs[d] \in StatesFor(d)
    /\ phase = "apply" => \A d \in Devices :
          /\ seen[d] = NoRow <=> devs[d] = NoRow
          /\ seen[d] # NoRow => seen[d] \in StatesFor(d)
    /\ adding # Idle => adding.dev \in StatesFor(adding.key.dev)

Copied == \A k \in Aliases : copy[k] # NoRow => table[k] # NoRow

(* An alias claims a name it can have, for a device that is there.         *)
OwnNames ==
    \A k \in Aliases : Claims(k) =>
        /\ devs[k.dev] # NoRow
        /\ \E dev \in StatesFor(k.dev) : truth[k].name = NameOf(k, dev)

(* No two aliases there are can have one name.                             *)
Distinct ==
    \A k, l \in Aliases :
        k # l /\ table[k] # NoRow /\ table[l] # NoRow
              /\ devs[k.dev] # NoRow /\ devs[l.dev] # NoRow =>
            \A dev \in StatesFor(k.dev), other \in StatesFor(l.dev) :
                NameOf(k, dev) # NameOf(l, other)

(* Its record may be gone before the row is.                               *)
Pending(k) ==
    \/ At("delete") /\ req.key = k /\ req.step = "row"
    \/ At("forget") /\ req.dev = k.dev

Marked ==
    \A k \in Aliases : Claims(k) /\ ~Pending(k) => cname[truth[k].name] = truth[k].target

Claimed ==
    \A n \in Name : ~Gone(n) => \E k \in Aliases : Claims(k) /\ truth[k].name = n

Deleting ==
    At("delete") =>
        /\ table[req.key] = req.row
        /\ req.step = "row" /\ req.row.synced => Gone(req.row.name)

Forgetting ==
    At("forget") =>
        /\ \A n \in req.left : \E k \in Aliases : k.dev = req.dev /\ Claims(k) /\ truth[k].name = n
        /\ \A k \in Aliases : k.dev = req.dev /\ Claims(k) =>
              req.step = "records" /\ (truth[k].name \in req.left \/ Gone(truth[k].name))

Unlisting == At("unlist") => \A k \in Aliases : Claims(k) => truth[k].name # req.name

AInv == Apart /\ StatesKnown /\ Copied /\ OwnNames /\ Distinct /\ Marked /\ Claimed
            /\ Deleting /\ Forgetting /\ Unlisting

(* What is noted is a row of the table, and between stages the table is it.*)
LEMMA TruthIs ==
    ASSUME TypeInv
    PROVE  /\ \A k \in Aliases : truth[k] \in Row \cup {NoRow} /\ Named(truth[k])
           /\ \A k \in Aliases : copy[k] # NoRow => truth[k] = copy[k]
           /\ \A k \in Aliases : copy[k] = NoRow => truth[k] = table[k]
           /\ phase = "idle" => truth = table
           /\ Copied => \A k \in Aliases : truth[k] # NoRow => table[k] # NoRow
<1>1. \A k \in Aliases : truth[k] = IF copy[k] # NoRow THEN copy[k] ELSE table[k]
  BY DEF truth
<1>2. \A k \in Aliases : truth[k] \in Row \cup {NoRow} /\ Named(truth[k])
  BY <1>1 DEF TypeInv, TypeOK, RowsNamed
<1>3. phase = "idle" => truth = table
  BY DEF truth, TypeInv, TypeOK, NoCopy
<1>4. QED
  BY <1>1, <1>2, <1>3 DEF Copied

(* Two aliases claim two names.                                            *)
LEMMA ClaimsApart ==
    ASSUME TypeInv, Copied, OwnNames, Distinct,
           NEW k \in Aliases, NEW l \in Aliases, k # l, Claims(k), Claims(l)
    PROVE  truth[k].name # truth[l].name
<1>1. table[k] # NoRow /\ table[l] # NoRow
  BY TruthIs DEF Claims
<1>2. devs[k.dev] # NoRow /\ devs[l.dev] # NoRow
  BY DEF OwnNames
<1>3. PICK dev \in StatesFor(k.dev) : truth[k].name = NameOf(k, dev)
  BY DEF OwnNames
<1>4. PICK other \in StatesFor(l.dev) : truth[l].name = NameOf(l, other)
  BY DEF OwnNames
<1>5. QED
  BY <1>1, <1>2, <1>3, <1>4 DEF Distinct

(* Saving a row changes what is noted of that alias alone.                 *)
LEMMA DoneTruth ==
    ASSUME TypeInv, NEW k \in Aliases, NEW row, Done(k, row)
    PROVE  truth' = [truth EXCEPT ![k] = row]
  BY DEF Done, truth, TypeInv, TypeOK

(* A step of the stage disturbs only what is noted and the records.        *)
LEMMA StageKeeps ==
    ASSUME AInv, phase = "apply", UNCHANGED <<devs, phase, seen, adding, req>>,
           \A l \in Aliases : table'[l] # NoRow => table[l] # NoRow,
           Copied', OwnNames', Marked', Claimed'
    PROVE  AInv'
<1>1. Apart' /\ StatesKnown'
  BY DEF AInv, Apart, StatesKnown
<1>2. Distinct'
  BY DEF AInv, Distinct
<1>3. Deleting' /\ Forgetting' /\ Unlisting'
  BY DEF AInv, Apart, Deleting, Forgetting, Unlisting, At
<1>4. QED
  BY <1>1, <1>2, <1>3 DEF AInv

(* A step that notes the same of every alias.                              *)
LEMMA StageSame ==
    ASSUME TypeInv, AInv, phase = "apply", NEW k \in Aliases, copy[k] # NoRow,
           Done(k, copy[k]), cname' = cname
    PROVE  AInv'
<1>1. table[k] # NoRow /\ truth[k] = copy[k]
  BY TruthIs DEF AInv, Copied
<1>2. truth' = truth
  <2>1. truth' = [truth EXCEPT ![k] = truth[k]]
    BY <1>1, DoneTruth
  <2>2. truth = [a \in Aliases |-> truth[a]]
    BY DEF truth
  <2>3. QED
    BY <2>1, <2>2
<1>3. UNCHANGED <<devs, phase, seen, adding, req>>
  BY DEF Done
<1>4. Copied' /\ \A l \in Aliases : table'[l] # NoRow => table[l] # NoRow
  BY <1>1 DEF Done, AInv, Copied, TypeInv, TypeOK
<1>5. OwnNames' /\ Marked' /\ Claimed'
  BY <1>2, <1>3 DEF AInv, OwnNames, Marked, Claimed, Claims, Gone, Pending, At
<1>6. QED
  BY <1>3, <1>4, <1>5, StageKeeps

(* Taking one alias down leaves the others' names alone.                   *)
LEMMA TakenDown ==
    ASSUME TypeInv, AInv, NEW k \in Aliases, Claims(k), NEW row, row = NoRow \/ ~row.synced,
           truth' = [truth EXCEPT ![k] = row], cname' = Without(truth[k].name),
           UNCHANGED <<devs, req>>
    PROVE  OwnNames' /\ Marked' /\ Claimed'
<1> DEFINE name == truth[k].name
<1>1. \A l \in Aliases : l # k => truth'[l] = truth[l]
  BY DEF truth
<1>2. truth'[k] = row
  BY DEF truth
<1>3. name \in Name
  BY TruthIs, NullAssumption DEF Claims, Named
<1>4. \A n \in Name : cname'[n] = IF n = name THEN NoName ELSE cname[n]
  BY DEF Without, TypeInv, TypeOK
<1>5. \A l \in Aliases : l # k /\ Claims(l) => truth[l].name # name /\ truth[l].name \in Name
  BY ClaimsApart, TruthIs DEF AInv, Claims, Named
<1> HIDE DEF name
<1>6. OwnNames'
  BY <1>1, <1>2 DEF AInv, OwnNames, Claims
<1>7. Marked'
  BY <1>1, <1>2, <1>4, <1>5 DEF AInv, Marked, Claims, Pending, At
<1>8. Claimed'
  <2> SUFFICES ASSUME NEW n \in Name, ~Gone(n)'
               PROVE  \E l \in Aliases : Claims(l)' /\ truth'[l].name = n
    BY DEF Claimed
  <2>1. n # name /\ ~Gone(n)
    BY <1>4 DEF Gone
  <2>2. PICK l \in Aliases : Claims(l) /\ truth[l].name = n
    BY <2>1 DEF AInv, Claimed
  <2>3. l # k
    BY <2>1, <2>2 DEF name
  <2>4. QED
    BY <1>1, <2>2, <2>3 DEF Claims
<1>9. QED
  BY <1>6, <1>7, <1>8

(* Publishing one alias leaves the others' names alone.                    *)
LEMMA PutUp ==
    ASSUME TypeInv, AInv, NEW k \in Aliases, NEW dev \in StatesFor(k.dev), Present(dev),
           table[k] # NoRow, devs[k.dev] # NoRow, ~Claims(k), req = Idle,
           truth' = [truth EXCEPT ![k] = PublishedAs(k, dev)],
           cname' = With(NameOf(k, dev), TargetOf(dev)),
           UNCHANGED <<devs, req>>
    PROVE  OwnNames' /\ Marked' /\ Claimed'
<1> DEFINE name == NameOf(k, dev)
           target == TargetOf(dev)
<1>1. \A l \in Aliases : l # k => truth'[l] = truth[l]
  BY DEF truth
<1>2. truth'[k].name = name /\ truth'[k].target = target
  BY DEF truth, PublishedAs
<1>3. name \in Name /\ target \in Name
  <2>1. k.dev \in Devices
    BY AliasesAreAlias
  <2>2. dev \in Device
    BY <2>1, AliasAssumption DEF AliasAssumption
  <2>3. QED
    BY <2>2, PublishedIsRow
<1>4. \A n \in Name : cname'[n] = IF n = name THEN target ELSE cname[n]
  BY DEF With, TypeInv, TypeOK
<1>5. \A l \in Aliases : l # k /\ Claims(l) => truth[l].name # name /\ truth[l].name \in Name
  <2> SUFFICES ASSUME NEW l \in Aliases, l # k, Claims(l)
               PROVE  truth[l].name # name /\ truth[l].name \in Name
    OBVIOUS
  <2>1. table[l] # NoRow /\ truth[l].name \in Name
    BY TruthIs DEF AInv, Claims, Named
  <2>2. PICK other \in StatesFor(l.dev) : truth[l].name = NameOf(l, other)
    BY DEF AInv, OwnNames
  <2>3. devs[l.dev] # NoRow
    BY DEF AInv, OwnNames
  <2>4. QED
    BY <2>1, <2>2, <2>3 DEF AInv, Distinct
<1>6. OwnNames'
  BY <1>1, <1>2 DEF AInv, OwnNames, Claims
<1> HIDE DEF name, target
<1>7. Marked'
  <2> SUFFICES ASSUME NEW l \in Aliases, Claims(l)'
               PROVE  cname'[truth'[l].name] = truth'[l].target
    BY DEF Marked
  <2>1. CASE l = k
    BY <1>2, <1>3, <1>4, <2>1
  <2>2. CASE l # k
    <3>1. Claims(l) /\ ~Pending(l)
      BY <1>1, <2>2 DEF Claims, Pending, At
    <3>2. cname[truth[l].name] = truth[l].target
      BY <3>1 DEF AInv, Marked
    <3>3. QED
      BY <1>1, <1>4, <1>5, <2>2, <3>1, <3>2
  <2>3. QED
    BY <2>1, <2>2
<1>8. Claimed'
  <2> SUFFICES ASSUME NEW n \in Name, ~Gone(n)'
               PROVE  \E l \in Aliases : Claims(l)' /\ truth'[l].name = n
    BY DEF Claimed
  <2>1. CASE n = name
    <3>1. truth'[k] = PublishedAs(k, dev)
      BY DEF truth
    <3>2. PublishedAs(k, dev) # NoRow /\ PublishedAs(k, dev).synced
      <4>1. k.dev \in Devices
        BY AliasesAreAlias
      <4>2. dev \in Device
        BY <4>1, AliasAssumption DEF AliasAssumption
      <4>3. QED
        BY <4>2, PublishedIsRow, NullAssumption
    <3>3. QED
      BY <1>2, <2>1, <3>1, <3>2 DEF Claims
  <2>2. CASE n # name
    <3>1. ~Gone(n)
      BY <1>4, <2>2 DEF Gone
    <3>2. PICK l \in Aliases : Claims(l) /\ truth[l].name = n
      BY <3>1 DEF AInv, Claimed
    <3>3. l # k
      BY <3>2
    <3>4. QED
      BY <1>1, <3>2, <3>3 DEF Claims
  <2>3. QED
    BY <2>1, <2>2
<1>9. QED
  BY <1>6, <1>7, <1>8

(* The stage keeps the records and the rows together.                      *)
LEMMA StageStep == Sheltered /\ TypeInv /\ AInv /\ Stage => AInv'
<1> SUFFICES ASSUME Sheltered, TypeInv, AInv, Stage PROVE AInv'
  OBVIOUS
<1>1. CASE BeginStage
  <2>1. req = Idle /\ phase = "idle"
    BY <1>1 DEF BeginStage, Sheltered
  <2>2. truth' = truth
    <3>1. truth = table
      BY <2>1, TruthIs
    <3>2. truth' = [k \in Aliases |-> table[k]]
      BY <1>1 DEF truth, BeginStage
    <3>3. QED
      BY <3>1, <3>2 DEF TypeInv, TypeOK
  <2>3. Apart' /\ StatesKnown' /\ Copied'
    BY <1>1, <2>1 DEF BeginStage, AInv, Apart, StatesKnown, Copied
  <2>4. OwnNames' /\ Distinct' /\ Marked' /\ Claimed'
    BY <1>1, <2>2 DEF BeginStage, AInv, OwnNames, Distinct, Marked, Claimed, Claims, Gone, Pending, At
  <2>5. Deleting' /\ Forgetting' /\ Unlisting'
    BY <1>1, <2>1 DEF BeginStage, Deleting, Forgetting, Unlisting, At
  <2>6. QED
    BY <2>3, <2>4, <2>5 DEF AInv
<1>2. ASSUME NEW k \in Aliases, NEW ok \in BOOLEAN, RemoveOld(k, ok) PROVE AInv'
  <2>1. phase = "apply" /\ copy[k] # NoRow /\ copy[k].synced
    BY <1>2 DEF RemoveOld, Visiting, Outdated
  <2>2. truth[k] = copy[k] /\ Claims(k)
    BY <2>1, TruthIs DEF Claims
  <2>3. cname' \in After("stage", ok, Without(copy[k].name))
    BY <1>2 DEF RemoveOld
  <2>4. CASE ok
    <3>1. cname' = Without(truth[k].name)
      BY <2>2, <2>3, <2>4 DEF After
    <3>2. /\ copy' = [copy EXCEPT ![k] = Unpublished]
          /\ UNCHANGED <<devs, table, phase, seen, adding, req, calm>>
      BY <1>2, <2>4 DEF RemoveOld, Removed
    <3>3. truth' = [truth EXCEPT ![k] = Unpublished]
      BY <3>2, UnpublishedIsRow, NullAssumption DEF truth, TypeInv, TypeOK
    <3>4. Copied'
      BY <2>1, <3>2 DEF AInv, Copied, TypeInv, TypeOK
    <3>5. OwnNames' /\ Marked' /\ Claimed'
      BY <2>2, <3>1, <3>2, <3>3, TakenDown, UnpublishedIsRow
    <3>6. QED
      BY <2>1, <3>2, <3>4, <3>5, StageKeeps
  <2>5. CASE ~ok
    <3>1. cname' = cname
      BY <2>3, <2>5, AfterIs DEF Sheltered
    <3>2. Done(k, copy[k])
      BY <1>2, <2>5 DEF RemoveOld, Removed
    <3>3. QED
      BY <2>1, <3>1, <3>2, StageSame
  <2>6. QED
    BY <2>4, <2>5
<1>3. ASSUME NEW k \in Aliases, NEW ok \in BOOLEAN, AddNew(k, ok) PROVE AInv'
  <2> DEFINE dev == seen[k.dev]
  <2>1. phase = "apply" /\ copy[k] # NoRow /\ ~copy[k].synced /\ Present(dev)
    BY <1>3 DEF AddNew, Current, Visiting
  <2>2. cname' \in After("stage", ok, With(NameOf(k, dev), TargetOf(dev)))
    BY <1>3 DEF AddNew
  <2>3. CASE ok
    <3>1. cname' = With(NameOf(k, dev), TargetOf(dev))
      BY <2>2, <2>3 DEF After
    <3>2. Done(k, PublishedAs(k, dev))
      BY <1>3, <2>3 DEF AddNew
    <3>3. truth' = [truth EXCEPT ![k] = PublishedAs(k, dev)]
      BY <3>2, DoneTruth
    <3>4. k.dev \in Devices
      BY AliasesAreAlias
    <3>5. dev \in StatesFor(k.dev) /\ devs[k.dev] # NoRow
      BY <2>1, <3>4 DEF AInv, StatesKnown, Present
    <3>6. table[k] # NoRow /\ ~Claims(k) /\ req = Idle
      BY <2>1, TruthIs DEF AInv, Copied, Claims, Apart
    <3>7. UNCHANGED <<devs, phase, seen, adding, req>>
      BY <3>2 DEF Done
    <3>8. Copied' /\ \A l \in Aliases : table'[l] # NoRow => table[l] # NoRow
      BY <3>2, <3>6 DEF Done, AInv, Copied, TypeInv, TypeOK
    <3> HIDE DEF dev
    <3>9. OwnNames' /\ Marked' /\ Claimed'
      BY <2>1, <3>1, <3>3, <3>5, <3>6, <3>7, PutUp
    <3>10. QED
      BY <2>1, <3>7, <3>8, <3>9, StageKeeps
  <2>4. CASE ~ok
    <3>1. cname' = cname
      BY <2>2, <2>4, AfterIs DEF Sheltered
    <3>2. Done(k, copy[k])
      BY <1>3, <2>4 DEF AddNew
    <3>3. QED
      BY <2>1, <3>1, <3>2, StageSame
  <2>5. QED
    BY <2>3, <2>4
<1>4. ASSUME NEW k \in Aliases, DropGone(k) PROVE AInv'
  <2>1. phase = "apply" /\ copy[k] # NoRow /\ seen[k.dev] = NoRow
        /\ Done(k, NoRow) /\ cname' = cname
    BY <1>4 DEF DropGone, Current, Visiting
  <2>2. devs[k.dev] = NoRow /\ ~Claims(k)
    BY <2>1, AliasesAreAlias DEF AInv, StatesKnown, OwnNames
  <2>3. truth' = [truth EXCEPT ![k] = NoRow]
    BY <2>1, DoneTruth
  <2>4. UNCHANGED <<devs, phase, seen, adding, req>>
    BY <2>1 DEF Done
  <2>5. Copied' /\ \A l \in Aliases : table'[l] # NoRow => table[l] # NoRow
    BY <2>1 DEF Done, AInv, Copied, TypeInv, TypeOK
  <2>6. \A l \in Aliases : (l # k => truth'[l] = truth[l]) /\ truth'[k] = NoRow
    BY <2>3 DEF truth
  <2>7. OwnNames' /\ Marked'
    BY <2>1, <2>4, <2>6 DEF AInv, OwnNames, Marked, Claims, Pending, At
  <2>8. Claimed'
    BY <2>1, <2>2, <2>6 DEF AInv, Claimed, Claims, Gone
  <2>9. QED
    BY <2>1, <2>4, <2>5, <2>7, <2>8, StageKeeps
<1>5. ASSUME NEW k \in Aliases, Keep(k) PROVE AInv'
  <2>1. phase = "apply" /\ copy[k] # NoRow /\ Done(k, copy[k]) /\ cname' = cname
    BY <1>5 DEF Keep, Current, Visiting
  <2>2. QED
    BY <2>1, StageSame
<1>6. CASE EndStage
  <2>1. truth' = truth
    BY <1>6 DEF EndStage, truth
  <2>2. Apart' /\ StatesKnown' /\ Copied'
    BY <1>6 DEF EndStage, AInv, Apart, StatesKnown, Copied
  <2>3. OwnNames' /\ Distinct' /\ Marked' /\ Claimed'
    BY <1>6, <2>1 DEF EndStage, AInv, OwnNames, Distinct, Marked, Claimed, Claims, Gone, Pending, At
  <2>4. Deleting' /\ Forgetting' /\ Unlisting'
    BY <1>6, <2>1 DEF EndStage, AInv, Deleting, Forgetting, Unlisting, Claims, Gone, At
  <2>5. QED
    BY <2>2, <2>3, <2>4 DEF AInv
<1>7. QED
  BY <1>1, <1>2, <1>3, <1>4, <1>5, <1>6 DEF Stage

(* What a request changes of the claims when the rows and records stay.    *)
LEMMA RequestKeeps ==
    ASSUME AInv, UNCHANGED <<devs, table, cname, stage, adding>>,
           Apart', Marked', Deleting', Forgetting', Unlisting'
    PROVE  AInv'
<1>1. truth' = truth
  BY DEF truth, stage
<1>2. StatesKnown' /\ Copied'
  BY DEF AInv, StatesKnown, Copied, stage
<1>3. OwnNames' /\ Distinct' /\ Claimed'
  BY <1>1 DEF AInv, OwnNames, Distinct, Claimed, Claims, Gone
<1>4. QED
  BY <1>2, <1>3 DEF AInv

(* Adding an alias: its name is none that another can have.                *)
LEMMA CreateStep == Sheltered /\ TypeInv /\ AInv /\ CreateAlias => AInv'
<1> SUFFICES ASSUME Sheltered, TypeInv, AInv, CreateAlias PROVE AInv'
  OBVIOUS
<1> DEFINE key == adding.key
           dev == adding.dev
<1>1. key \in Aliases /\ dev \in StatesFor(key.dev)
  BY DEF CreateAlias, TypeInv, RequestsKnown, AInv, StatesKnown
<1>2. adding' = Idle /\ UNCHANGED <<devs, cname, phase, copy, seen, req>>
  BY DEF CreateAlias, stage
<1>3. Apart' /\ StatesKnown'
  BY <1>2 DEF AInv, Apart, StatesKnown
<1>4. CASE table' = table
  <2>1. truth' = truth
    BY <1>2, <1>4 DEF truth
  <2>2. Copied' /\ OwnNames' /\ Distinct' /\ Marked' /\ Claimed'
    BY <1>2, <1>4, <2>1
    DEF AInv, Copied, OwnNames, Distinct, Marked, Claimed, Claims, Gone, Pending, At
  <2>3. Deleting' /\ Forgetting' /\ Unlisting'
    BY <1>2, <1>4, <2>1 DEF AInv, Deleting, Forgetting, Unlisting, Claims, Gone, At
  <2>4. QED
    BY <1>3, <2>2, <2>3 DEF AInv
<1>5. CASE /\ table' = [table EXCEPT ![key] = Unpublished] /\ table[key] = NoRow
           /\ ~NameTaken(key.label, EffectiveZone(key, dev))
  <2>1. copy[key] = NoRow /\ truth[key] = NoRow
    BY <1>1, <1>5, TruthIs DEF AInv, Copied
  <2>2. \A k \in Aliases : k # key => truth'[k] = truth[k]
    BY <1>2, <1>5 DEF truth
  <2>3. truth'[key] = Unpublished /\ ~Unpublished.synced
    BY <1>1, <1>2, <1>5, <2>1, UnpublishedIsRow DEF truth, TypeInv, TypeOK
  <2>4. \A k \in Aliases : Claims(k)' <=> Claims(k)
    BY <2>1, <2>2, <2>3 DEF Claims
  <2>5. Copied'
    BY <1>2, <1>5, <2>1 DEF AInv, Copied, TypeInv, TypeOK
  <2>6. \A l \in Aliases :
          l # key /\ table[l] # NoRow /\ devs[l.dev] # NoRow =>
              \A one \in StatesFor(key.dev), other \in StatesFor(l.dev) :
                  NameOf(key, one) # NameOf(l, other)
    <3> SUFFICES ASSUME NEW l \in Aliases, l # key, table[l] # NoRow, devs[l.dev] # NoRow,
                        NEW one \in StatesFor(key.dev), NEW other \in StatesFor(l.dev),
                        NameOf(key, one) = NameOf(l, other)
                 PROVE  FALSE
      OBVIOUS
    <3>1. key.dev \in Devices /\ l.dev \in Devices
      BY <1>1, AliasesAreAlias
    <3>2. devs[l.dev] \in StatesFor(l.dev)
      BY <3>1 DEF AInv, StatesKnown
    <3>3. NameOf(key, dev) = NameOf(l, devs[l.dev])
      BY <1>1, <3>2 DEF Sheltered, NamesKeepApart
    <3>4. key.label = l.label /\ ZoneOf(key, dev) = ZoneOf(l, devs[l.dev])
      BY <3>3 DEF NameOf
    <3>5. dev.zone # NoZone
      BY <1>1, <3>1 DEF Sheltered, NamesKeepApart
    <3>6. EffectiveZone(key, dev) = ZoneOf(key, dev) /\ EffectiveZone(key, dev) # NoZone
      BY <3>5 DEF EffectiveZone, ZoneOf
    <3>7. AliasTaken(key.label, EffectiveZone(key, dev))
      BY <3>4, <3>6 DEF AliasTaken
    <3>8. QED
      BY <1>5, <3>6, <3>7 DEF NameTaken
  <2>7. \A l \in Aliases : l # key => table'[l] = table[l]
    BY <1>5 DEF TypeInv, TypeOK
  <2> HIDE DEF key, dev
  <2>8. Distinct'
    BY <1>1, <1>2, <2>6, <2>7 DEF AInv, Distinct
  <2>9. OwnNames'
    BY <1>2, <2>2, <2>3, <2>4 DEF AInv, OwnNames, Claims
  <2>10. Marked'
    BY <1>2, <2>2, <2>3, <2>4 DEF AInv, Marked, Claims, Pending, At
  <2>11. Claimed'
    BY <1>2, <2>1, <2>2, <2>4 DEF AInv, Claimed, Claims, Gone
  <2>12. Deleting'
    <3>1. SUFFICES ASSUME At("delete") PROVE req.key # key
      BY <1>2, <2>7 DEF AInv, Deleting, At, Gone, TypeInv, RequestsKnown
    <3>2. table[req.key] = req.row /\ req.row \in Row
      BY <3>1 DEF AInv, Deleting, At, TypeInv, TypeOK, Request
    <3>3. QED
      BY <1>5, <3>2, NullAssumption
  <2>13. Forgetting' /\ Unlisting'
    BY <1>2, <2>1, <2>2, <2>3, <2>4 DEF AInv, Forgetting, Unlisting, Claims, Gone, At
  <2>14. QED
    BY <1>3, <2>5, <2>8, <2>9, <2>10, <2>11, <2>12, <2>13 DEF AInv
<1>6. QED
  BY <1>4, <1>5 DEF CreateAlias

(* Deleting an alias: the record first, then the row.                      *)
LEMMA DeleteStep ==
    Sheltered /\ TypeInv /\ AInv
        /\ (\/ \E k \in Aliases : DeleteAlias(k)
            \/ \E ok \in BOOLEAN : DeleteAliasRecord(ok)
            \/ DeleteAliasRow) => AInv'
<1> SUFFICES ASSUME Sheltered, TypeInv, AInv
             PROVE  /\ \A k \in Aliases : DeleteAlias(k) => AInv'
                    /\ \A ok \in BOOLEAN : DeleteAliasRecord(ok) => AInv'
                    /\ DeleteAliasRow => AInv'
  OBVIOUS
<1>1. ASSUME NEW k \in Aliases, DeleteAlias(k) PROVE AInv'
  <2>1. /\ req = Idle /\ phase = "idle"
        /\ req' = [op |-> "delete", key |-> k, row |-> table[k],
                   step |-> IF table[k].synced THEN "record" ELSE "row"]
        /\ UNCHANGED <<devs, table, cname, stage, adding, calm>>
    BY <1>1 DEF DeleteAlias, Begin, Sheltered
  <2>2. truth' = truth
    BY <2>1 DEF truth, stage
  <2>3. Apart' /\ Forgetting' /\ Unlisting'
    BY <2>1 DEF Apart, Forgetting, Unlisting, At, stage
  <2>4. Marked'
    BY <2>1, <2>2 DEF AInv, Marked, Claims, Pending, At
  <2>5. Deleting'
    BY <2>1 DEF Deleting, At
  <2>6. QED
    BY <2>1, <2>3, <2>4, <2>5, RequestKeeps
<1>2. ASSUME NEW ok \in BOOLEAN, DeleteAliasRecord(ok) PROVE AInv'
  <2> DEFINE k == req.key
  <2>1. At("delete") /\ req.step = "record" /\ k \in Aliases /\ table[k] = req.row
        /\ req.row.synced /\ req.row # NoRow /\ phase = "idle"
    BY <1>2, NullAssumption
    DEF DeleteAliasRecord, At, AInv, Apart, Deleting, TypeInv, TypeOK, RequestsKnown, Request
  <2>2. truth = table /\ Claims(k) /\ truth[k] = req.row
    BY <2>1, TruthIs DEF Claims
  <2>3. UNCHANGED <<devs, table, phase, copy, seen, adding, calm>>
        /\ cname' \in After("delete", ok, Without(req.row.name))
    BY <1>2 DEF DeleteAliasRecord, stage
  <2>4. truth' = truth
    BY <2>3 DEF truth
  <2>5. StatesKnown' /\ Copied' /\ OwnNames' /\ Distinct'
    BY <2>3, <2>4 DEF AInv, StatesKnown, Copied, OwnNames, Distinct, Claims
  <2>6. CASE ok
    <3>1. cname' = Without(req.row.name)
      BY <2>3, <2>6 DEF After
    <3>2. req' = [req EXCEPT !.step = "row"]
      BY <1>2, <2>6 DEF DeleteAliasRecord
    <3>3. req \in Request /\ req.op = "delete"
      BY <2>1 DEF At, TypeInv, TypeOK
    <3>4. req'.op = "delete" /\ req'.key = k /\ req'.row = req.row /\ req'.step = "row"
          /\ req' # Idle
      BY <3>2, <3>3, NullAssumption DEF Request
    <3>5. req.row.name \in Name
      BY <2>1 DEF TypeInv, RequestsKnown
    <3>6. \A n \in Name : cname'[n] = IF n = req.row.name THEN NoName ELSE cname[n]
      BY <3>1 DEF Without, TypeInv, TypeOK
    <3>7. \A l \in Aliases : l # k /\ Claims(l) =>
              truth[l].name # req.row.name /\ truth[l].name \in Name
      BY <2>1, <2>2, ClaimsApart, TruthIs DEF AInv, Claims, Named
    <3>8. Apart' /\ Forgetting' /\ Unlisting'
      BY <2>1, <2>3, <3>4 DEF Apart, Forgetting, Unlisting, At
    <3>9. Deleting'
      BY <2>1, <2>3, <3>4, <3>5, <3>6 DEF Deleting, Gone
    <3> HIDE DEF k
    <3>10. \A l \in Aliases : l # k => ~Pending(l)
      BY <2>1, <3>3 DEF Pending, At, k
    <3>11. Marked'
      BY <2>4, <3>4, <3>6, <3>7, <3>10 DEF AInv, Marked, Claims, Pending, At
    <3>12. Claimed'
      BY <2>4, <3>6 DEF AInv, Claimed, Claims, Gone
    <3>13. QED
      BY <2>5, <3>8, <3>9, <3>11, <3>12 DEF AInv
  <2>7. CASE ~ok
    <3>1. cname' = cname
      BY <2>3, <2>7 DEF After, Sheltered
    <3>2. req' = Idle
      BY <1>2, <2>7 DEF DeleteAliasRecord
    <3>3. Apart' /\ Deleting' /\ Forgetting' /\ Unlisting'
      BY <3>2 DEF Apart, Deleting, Forgetting, Unlisting, At
    <3>4. \A l \in Aliases : ~Pending(l)
      BY <2>1 DEF Pending, At
    <3>5. Marked' /\ Claimed'
      BY <2>4, <3>1, <3>4 DEF AInv, Marked, Claimed, Claims, Gone
    <3>6. QED
      BY <2>5, <3>3, <3>5 DEF AInv
  <2>8. QED
    BY <2>6, <2>7
<1>3. CASE DeleteAliasRow
  <2> DEFINE k == req.key
  <2>1. At("delete") /\ req.step = "row" /\ k \in Aliases /\ table[k] = req.row
        /\ (req.row.synced => Gone(req.row.name)) /\ phase = "idle" /\ copy = NoCopy
    BY <1>3 DEF DeleteAliasRow, At, AInv, Apart, Deleting, TypeInv, TypeOK, RequestsKnown
  <2>2. truth = table
    BY <2>1, TruthIs
  <2>3. /\ table' = [table EXCEPT ![k] = NoRow] /\ req' = Idle
        /\ UNCHANGED <<devs, cname, phase, copy, seen, adding, calm>>
    BY <1>3 DEF DeleteAliasRow, stage
  <2>4. truth'[k] = NoRow /\ \A l \in Aliases : l # k => truth'[l] = truth[l]
    BY <2>1, <2>2, <2>3 DEF truth, TypeInv, TypeOK, NoCopy
  <2>5. Apart' /\ Deleting' /\ Forgetting' /\ Unlisting'
    BY <2>3 DEF Apart, Deleting, Forgetting, Unlisting, At
  <2>6. StatesKnown' /\ Copied'
    BY <2>1, <2>3 DEF AInv, StatesKnown, Copied, NoCopy
  <2>7. Distinct'
    BY <2>3 DEF AInv, Distinct, TypeInv, TypeOK
  <2>8. OwnNames'
    BY <2>3, <2>4 DEF AInv, OwnNames, Claims
  <2>9. \A l \in Aliases : l # k => ~Pending(l)
    BY <2>1 DEF Pending, At
  <2>10. Marked'
    BY <2>3, <2>4, <2>9 DEF AInv, Marked, Claims
  <2>11. Claimed'
    <3> SUFFICES ASSUME NEW n \in Name, ~Gone(n)'
                 PROVE  \E l \in Aliases : Claims(l)' /\ truth'[l].name = n
      BY DEF Claimed
    <3>1. PICK l \in Aliases : Claims(l) /\ truth[l].name = n
      BY <2>3 DEF AInv, Claimed, Gone
    <3>2. l # k
      BY <2>1, <2>2, <2>3, <3>1 DEF Claims, Gone
    <3>3. QED
      BY <2>4, <3>1, <3>2 DEF Claims
  <2>12. QED
    BY <2>5, <2>6, <2>7, <2>8, <2>10, <2>11 DEF AInv
<1>4. QED
  BY <1>1, <1>2, <1>3

(* Forgetting a device: its aliases' records, the aliases, the device.     *)
LEMMA ForgetStep ==
    Sheltered /\ TypeInv /\ AInv
        /\ (\/ \E d \in Devices : Forget(d)
            \/ \E n \in Name, ok \in BOOLEAN : ForgetRecord(n, ok)
            \/ ForgetAliases
            \/ ForgetDevice) => AInv'
<1> SUFFICES ASSUME Sheltered, TypeInv, AInv
             PROVE  /\ \A d \in Devices : Forget(d) => AInv'
                    /\ \A n \in Name, ok \in BOOLEAN : ForgetRecord(n, ok) => AInv'
                    /\ ForgetAliases => AInv'
                    /\ ForgetDevice => AInv'
  OBVIOUS
<1>0. At("forget") => phase = "idle" /\ copy = NoCopy /\ truth = table
  BY TruthIs DEF At, AInv, Apart, TypeInv, TypeOK
<1>1. ASSUME NEW d \in Devices, Forget(d) PROVE AInv'
  <2>1. PICK names : names = {table[k].name : k \in {j \in Of(d) : table[j].synced}}
    OBVIOUS
  <2>2. /\ req = Idle /\ phase = "idle"
        /\ req' = [op |-> "forget", dev |-> d, step |-> "records", left |-> names]
        /\ UNCHANGED <<devs, table, cname, stage, adding, calm>>
    BY <1>1, <2>1 DEF Forget, Begin, Sheltered
  <2>3. truth' = truth /\ truth = table
    BY <2>2, TruthIs DEF truth, stage
  <2>4. Apart' /\ Deleting' /\ Unlisting'
    BY <2>2 DEF Apart, Deleting, Unlisting, At, stage
  <2>5. Marked'
    BY <2>2, <2>3 DEF AInv, Marked, Claims, Pending, At
  <2>6. Forgetting'
    <3>1. \A n \in names : \E k \in Aliases : k.dev = d /\ Claims(k) /\ truth[k].name = n
      BY <2>1, <2>3, AliasesAreAlias DEF Of, Claims
    <3>2. \A k \in Aliases : k.dev = d /\ Claims(k) => truth[k].name \in names
      BY <2>1, <2>3, AliasesAreAlias DEF Of, Claims
    <3>3. QED
      BY <2>2, <2>3, <3>1, <3>2 DEF Forgetting, At, Claims
  <2>7. QED
    BY <2>2, <2>4, <2>5, <2>6, RequestKeeps
<1>2. ASSUME NEW n \in Name, NEW ok \in BOOLEAN, ForgetRecord(n, ok) PROVE AInv'
  <2>1. At("forget") /\ n \in req.left /\ cname' \in After("forget", ok, Without(n))
        /\ req' = [req EXCEPT !.left = @ \ {n}]
        /\ UNCHANGED <<devs, table, phase, copy, seen, adding, calm>>
    BY <1>2 DEF ForgetRecord, stage
  <2>2. ok /\ cname' = Without(n)
    BY <2>1 DEF After, Sheltered
  <2>3. req \in Request /\ req.op = "forget"
    BY <2>1 DEF At, TypeInv, TypeOK
  <2>4. req'.op = "forget" /\ req'.dev = req.dev /\ req'.step = req.step
        /\ req'.left = req.left \ {n} /\ req' # Idle
    BY <2>1, <2>3, NullAssumption DEF Request
  <2>5. truth' = truth
    BY <2>1 DEF truth
  <2>6. PICK k \in Aliases : k.dev = req.dev /\ Claims(k) /\ truth[k].name = n
    BY <2>1 DEF AInv, Forgetting
  <2>7. \A m \in Name : cname'[m] = IF m = n THEN NoName ELSE cname[m]
    BY <2>2 DEF Without, TypeInv, TypeOK
  <2>8. \A l \in Aliases : l # k /\ Claims(l) => truth[l].name # n /\ truth[l].name \in Name
    BY <2>6, ClaimsApart, TruthIs DEF AInv, Claims, Named
  <2>9. Apart' /\ Deleting' /\ Unlisting'
    BY <1>0, <2>1, <2>4 DEF Apart, Deleting, Unlisting, At
  <2>10. StatesKnown' /\ Copied' /\ OwnNames' /\ Distinct'
    BY <2>1, <2>5 DEF AInv, StatesKnown, Copied, OwnNames, Distinct, Claims
  <2>11. Marked'
    BY <2>3, <2>4, <2>5, <2>6, <2>7, <2>8 DEF AInv, Marked, Claims, Pending, At
  <2>12. Claimed'
    BY <2>5, <2>7 DEF AInv, Claimed, Claims, Gone
  <2>13. Forgetting'
    <3> DEFINE Free(l) == truth[l].name \in req.left \ {n}
                             \/ cname'[truth[l].name] \in {NoName, Elsewhere}
    <3>1. \A l \in Aliases : Claims(l)' <=> Claims(l)
      BY <2>5 DEF Claims
    <3>2. ASSUME NEW l \in Aliases, l.dev = req.dev, Claims(l)
          PROVE  req.step = "records" /\ Free(l)
      <4>1. req.step = "records" /\ (truth[l].name \in req.left \/ Gone(truth[l].name))
        BY <2>1, <3>2 DEF AInv, Forgetting
      <4>2. truth[l].name \in Name
        BY <3>2, TruthIs DEF Claims, Named
      <4>3. QED
        BY <2>7, <4>1, <4>2 DEF Gone
    <3>3. \A m \in req.left \ {n} : \E l \in Aliases :
              l.dev = req.dev /\ Claims(l) /\ truth[l].name = m
      BY <2>1 DEF AInv, Forgetting
    <3>4. QED
      BY <2>4, <2>5, <3>1, <3>2, <3>3 DEF Forgetting, Gone
  <2>14. QED
    BY <2>9, <2>10, <2>11, <2>12, <2>13 DEF AInv
<1>3. CASE ForgetAliases
  <2>1. At("forget") /\ req.left = {} /\ req.step = "records"
        /\ table' = [k \in Aliases |-> IF k.dev = req.dev THEN NoRow ELSE table[k]]
        /\ req' = [req EXCEPT !.step = "device"]
        /\ UNCHANGED <<devs, cname, phase, copy, seen, adding, calm>>
    BY <1>3 DEF ForgetAliases, stage
  <2>2. req \in Request /\ req.op = "forget"
    BY <2>1 DEF At, TypeInv, TypeOK
  <2>3. req'.op = "forget" /\ req'.dev = req.dev /\ req'.left = {} /\ req' # Idle
    BY <2>1, <2>2, NullAssumption DEF Request
  <2>4. \A k \in Aliases : truth'[k] = IF k.dev = req.dev THEN NoRow ELSE truth[k]
    BY <1>0, <2>1 DEF truth, NoCopy
  <2>5. Apart' /\ Deleting' /\ Unlisting'
    BY <1>0, <2>1, <2>3 DEF Apart, Deleting, Unlisting, At
  <2>6. StatesKnown' /\ Copied' /\ OwnNames' /\ Distinct'
    BY <1>0, <2>1, <2>4 DEF AInv, StatesKnown, Copied, OwnNames, Distinct, Claims, NoCopy
  <2>7. Marked'
    BY <2>1, <2>2, <2>3, <2>4 DEF AInv, Marked, Claims, Pending, At
  <2>8. Forgetting'
    BY <2>3, <2>4 DEF Forgetting, Claims
  <2>9. Claimed'
    <3> SUFFICES ASSUME NEW n \in Name, ~Gone(n)'
                 PROVE  \E l \in Aliases : Claims(l)' /\ truth'[l].name = n
      BY DEF Claimed
    <3>1. PICK l \in Aliases : Claims(l) /\ truth[l].name = n /\ ~Gone(n)
      BY <2>1 DEF AInv, Claimed, Gone
    <3>2. l.dev # req.dev
      BY <2>1, <3>1 DEF AInv, Forgetting
    <3>3. QED
      BY <2>4, <3>1, <3>2 DEF Claims
  <2>10. QED
    BY <2>5, <2>6, <2>7, <2>8, <2>9 DEF AInv
<1>4. CASE ForgetDevice
  <2>1. At("forget") /\ req.step = "device" /\ req' = Idle
        /\ devs' = [devs EXCEPT ![req.dev] = NoRow]
        /\ UNCHANGED <<table, cname, phase, copy, seen, adding, calm>>
    BY <1>4 DEF ForgetDevice, stage
  <2>2. truth' = truth
    BY <2>1 DEF truth
  <2>3. \A k \in Aliases : Claims(k) => k.dev # req.dev
    BY <2>1 DEF AInv, Forgetting
  <2>4. \A d \in Devices : devs'[d] # NoRow => devs'[d] = devs[d]
    BY <2>1 DEF TypeInv, TypeOK
  <2>5. \A k \in Aliases : Claims(k) => devs'[k.dev] = devs[k.dev]
    BY <2>1, <2>3, AliasesAreAlias DEF TypeInv, TypeOK
  <2>6. Apart' /\ Deleting' /\ Forgetting' /\ Unlisting'
    BY <2>1 DEF Apart, Deleting, Forgetting, Unlisting, At
  <2>7. StatesKnown' /\ Copied' /\ Distinct'
    BY <1>0, <2>1, <2>4, AliasesAreAlias DEF AInv, StatesKnown, Copied, Distinct
  <2>8. OwnNames' /\ Claimed'
    BY <2>1, <2>2, <2>5 DEF AInv, OwnNames, Claimed, Claims, Gone
  <2>9. \A k \in Aliases : Claims(k) => ~Pending(k)
    BY <2>1, <2>3 DEF Pending, At
  <2>10. Marked'
    BY <2>1, <2>2, <2>9 DEF AInv, Marked, Claims
  <2>11. QED
    BY <2>6, <2>7, <2>8, <2>10 DEF AInv
<1>5. QED
  BY <1>1, <1>2, <1>3, <1>4

(* Editing records by hand: what an alias claims is refused, or in the way.*)
LEMMA HandStep ==
    Sheltered /\ TypeInv /\ AInv
        /\ (\/ \E n \in ByHand : AddNetworkRecord(n)
            \/ \E n \in ByHand, target \in Name \cup {Elsewhere} : DeleteNetworkRecord(n, target)
            \/ \E ok \in BOOLEAN : Unlist(ok)) => AInv'
<1> SUFFICES ASSUME Sheltered, TypeInv, AInv
             PROVE  /\ \A n \in ByHand : AddNetworkRecord(n) => AInv'
                    /\ \A n \in ByHand, target \in Name \cup {Elsewhere} :
                          DeleteNetworkRecord(n, target) => AInv'
                    /\ \A ok \in BOOLEAN : Unlist(ok) => AInv'
  OBVIOUS
<1>1. ASSUME NEW n \in ByHand, AddNetworkRecord(n) PROVE AInv'
  <2>1. n \in Name /\ cname[n] = NoName
        /\ cname' = [cname EXCEPT ![n] = Elsewhere]
        /\ UNCHANGED <<devs, table, phase, copy, seen, adding, req, calm>>
    BY <1>1, AliasAssumption DEF AliasAssumption, AddNetworkRecord, With, stage
  <2>2. truth' = truth
    BY <2>1 DEF truth
  <2>3. \A m \in Name : cname'[m] = IF m = n THEN Elsewhere ELSE cname[m]
    BY <2>1 DEF TypeInv, TypeOK
  <2>4. Apart' /\ StatesKnown' /\ Copied' /\ OwnNames' /\ Distinct' /\ Unlisting'
    BY <2>1, <2>2 DEF AInv, Apart, StatesKnown, Copied, OwnNames, Distinct, Unlisting, Claims, At
  <2>5. \A k \in Aliases : Claims(k) => truth[k].name \in Name /\ truth[k].target \in Name
    BY TruthIs DEF Claims, Named
  <2>6. Marked'
    BY <2>1, <2>2, <2>3, <2>5, AliasAssumption
    DEF AliasAssumption, AInv, Marked, Claims, Pending, At
  <2>7. Claimed'
    BY <2>1, <2>2, <2>3 DEF AInv, Claimed, Claims, Gone
  <2>8. \A m \in Name : Gone(m) => cname'[m] \in {NoName, Elsewhere}
    BY <2>3 DEF Gone
  <2>9. Deleting'
    <3>1. At("delete") /\ req.step = "row" /\ req.row.synced => req.row.name \in Name
      <4>1. At("delete") => table[req.key] = req.row /\ req.key \in Aliases /\ req.row \in Row
        BY DEF AInv, Deleting, TypeInv, TypeOK, RequestsKnown, At, Request
      <4>2. QED
        BY <4>1, NullAssumption DEF TypeInv, RowsNamed, Named
    <3>2. QED
      BY <2>1, <2>8, <3>1 DEF AInv, Deleting, Gone, At
  <2>10. Forgetting'
    BY <2>1, <2>2, <2>5, <2>8 DEF AInv, Forgetting, Claims, Gone, At
  <2>11. QED
    BY <2>4, <2>6, <2>7, <2>9, <2>10 DEF AInv
<1>2. ASSUME NEW n \in ByHand, NEW target \in Name \cup {Elsewhere},
             DeleteNetworkRecord(n, target)
      PROVE  AInv'
  <2>1. /\ req = Idle /\ phase = "idle" /\ target = cname[n] /\ ~Managed(n, target)
        /\ req' = [op |-> "unlist", name |-> n]
        /\ UNCHANGED <<devs, table, cname, stage, adding, calm>>
    BY <1>2 DEF DeleteNetworkRecord, Begin, Sheltered
  <2>2. truth' = truth /\ truth = table
    BY <2>1, TruthIs DEF truth, stage
  <2>3. Apart' /\ Deleting' /\ Forgetting'
    BY <2>1 DEF Apart, Deleting, Forgetting, At, stage
  <2>4. Marked'
    BY <2>1, <2>2 DEF AInv, Marked, Claims, Pending, At
  <2>5. ASSUME NEW k \in Aliases, Claims(k) PROVE table[k].name # n
    <3>1. table[k] \in Row /\ table[k].synced
      BY <2>2, <2>5, TruthIs DEF Claims
    <3>2. cname[table[k].name] = table[k].target
      BY <2>1, <2>2, <2>5 DEF AInv, Marked, Pending, At
    <3>3. table[k] = [synced |-> table[k].synced, name |-> table[k].name, target |-> table[k].target]
      BY <3>1 DEF Row
    <3>4. table[k].synced = TRUE
      BY <3>1 DEF Row
    <3>5. table[k] # [synced |-> TRUE, name |-> n, target |-> target]
      BY <2>1 DEF Managed
    <3>6. QED
      BY <2>1, <3>2, <3>3, <3>4, <3>5
  <2>6. Unlisting'
    BY <2>1, <2>2, <2>5 DEF Unlisting, Claims, At
  <2>7. QED
    BY <2>1, <2>3, <2>4, <2>6, RequestKeeps
<1>3. ASSUME NEW ok \in BOOLEAN, Unlist(ok) PROVE AInv'
  <2>1. At("unlist") /\ req' = Idle /\ cname' \in {cname, Without(req.name)}
        /\ UNCHANGED <<devs, table, phase, copy, seen, adding, calm>>
    BY <1>3 DEF Unlist, After, stage
  <2>2. truth' = truth
    BY <2>1 DEF truth
  <2>3. req.name \in Name
    BY <2>1 DEF At, TypeInv, TypeOK, Request
  <2>4. \A m \in Name : cname'[m] = cname[m] \/ (m = req.name /\ cname'[m] = NoName)
    BY <2>1 DEF Without, TypeInv, TypeOK
  <2>5. Apart' /\ StatesKnown' /\ Copied' /\ OwnNames' /\ Distinct'
    BY <2>1, <2>2 DEF AInv, Apart, StatesKnown, Copied, OwnNames, Distinct, Claims
  <2>6. Deleting' /\ Forgetting' /\ Unlisting'
    BY <2>1 DEF Deleting, Forgetting, Unlisting, At
  <2>7. \A k \in Aliases : Claims(k) =>
            ~Pending(k) /\ truth[k].name # req.name /\ truth[k].name \in Name
    BY <2>1, TruthIs DEF AInv, Unlisting, Claims, Pending, At, Named
  <2>8. Marked' /\ Claimed'
    BY <2>2, <2>4, <2>7 DEF AInv, Marked, Claimed, Claims, Gone
  <2>9. QED
    BY <2>5, <2>6, <2>8 DEF AInv
<1>4. QED
  BY <1>1, <1>2, <1>3

(* Every step keeps the records and the rows together.                     *)
LEMMA AliasStep == Sheltered /\ TypeInv /\ AInv /\ [Next]_vars => AInv'
<1> SUFFICES ASSUME Sheltered, TypeInv, AInv, [Next]_vars PROVE AInv'
  OBVIOUS
<1>1. ASSUME NEW k \in Aliases, LoadForAlias(k) PROVE AInv'
  <2>1. /\ devs[k.dev] # NoRow /\ adding' = [key |-> k, dev |-> devs[k.dev]]
        /\ UNCHANGED <<devs, table, cname, phase, copy, seen, req, calm>>
    BY <1>1 DEF LoadForAlias, stage
  <2>2. truth' = truth
    BY <2>1 DEF truth
  <2>3. StatesKnown'
    BY <2>1, AliasesAreAlias DEF AInv, StatesKnown
  <2>4. Apart' /\ Copied' /\ OwnNames' /\ Distinct' /\ Marked' /\ Claimed'
    BY <2>1, <2>2
    DEF AInv, Apart, Copied, OwnNames, Distinct, Marked, Claimed, Claims, Gone, Pending, At
  <2>5. Deleting' /\ Forgetting' /\ Unlisting'
    BY <2>1, <2>2 DEF AInv, Deleting, Forgetting, Unlisting, Claims, Gone, At
  <2>6. QED
    BY <2>3, <2>4, <2>5 DEF AInv
<1>2. CASE DeviceChanges
  <2>1. /\ \E d \in Devices : /\ devs[d] # NoRow
                               /\ \E dev \in StatesFor(d) : devs' = [devs EXCEPT ![d] = dev]
        /\ UNCHANGED <<table, cname, phase, copy, seen, adding, req, calm>>
    BY <1>2 DEF DeviceChanges, stage
  <2>2. truth' = truth
    BY <2>1 DEF truth
  <2>3. /\ \A d \in Devices : devs'[d] = NoRow <=> devs[d] = NoRow
        /\ \A d \in Devices : devs'[d] # NoRow => devs'[d] \in StatesFor(d)
    <3>1. \A d \in Devices : NoRow \notin StatesFor(d)
      BY AliasAssumption DEF AliasAssumption
    <3>2. QED
      BY <2>1, <3>1 DEF AInv, StatesKnown, TypeInv, TypeOK
  <2>4. StatesKnown'
    BY <2>1, <2>3 DEF AInv, StatesKnown
  <2>5. OwnNames' /\ Distinct'
    BY <2>1, <2>2, <2>3, AliasesAreAlias DEF AInv, OwnNames, Distinct, Claims
  <2>6. Apart' /\ Copied' /\ Marked' /\ Claimed'
    BY <2>1, <2>2 DEF AInv, Apart, Copied, Marked, Claimed, Claims, Gone, Pending, At
  <2>7. Deleting' /\ Forgetting' /\ Unlisting'
    BY <2>1, <2>2 DEF AInv, Deleting, Forgetting, Unlisting, Claims, Gone, At
  <2>8. QED
    BY <2>4, <2>5, <2>6, <2>7 DEF AInv
<1>3. CASE UNCHANGED <<devs, table, cname, stage, adding, req>>
  <2>1. truth' = truth
    BY <1>3 DEF truth, stage
  <2>2. Apart' /\ Marked' /\ Deleting' /\ Forgetting' /\ Unlisting'
    BY <1>3, <2>1
    DEF AInv, Apart, Marked, Deleting, Forgetting, Unlisting, Claims, Gone, Pending, At, stage
  <2>3. QED
    BY <1>3, <2>2, RequestKeeps
<1>4. Admin => AInv'
  BY <1>1, CreateStep, DeleteStep, ForgetStep, HandStep DEF Admin
<1>5. QED
  BY <1>2, <1>3, <1>4, StageStep DEF Next, CalmDown, vars

(* Initially nothing is published.                                         *)
LEMMA AliasInit == Init => AInv
<1> SUFFICES ASSUME Init PROVE AInv
  OBVIOUS
<1>1. \A k \in Aliases : table[k] = NoRow /\ copy[k] = NoRow /\ truth[k] = NoRow
  BY DEF Init, NoCopy, truth
<1>2. Apart /\ StatesKnown
  BY DEF Init, Apart, StatesKnown
<1>3. Copied /\ OwnNames /\ Distinct /\ Marked
  BY <1>1 DEF Copied, OwnNames, Distinct, Marked, Claims
<1>4. Claimed
  BY DEF Init, Claimed, Gone
<1>5. Deleting /\ Forgetting /\ Unlisting
  BY DEF Init, Deleting, Forgetting, Unlisting, At
<1>6. QED
  BY <1>2, <1>3, <1>4, <1>5 DEF AInv

(* Between stages what the rows claim is in DNS, and nothing else of       *)
(* netreg's.                                                               *)
LEMMA AliasesKept ==
    TypeInv /\ AInv => AliasMarked /\ NoStray
<1> SUFFICES ASSUME TypeInv, AInv, Settled PROVE AliasMarked /\ NoStray
  BY DEF AliasMarked, NoStray
<1>1. truth = table /\ \A k \in Aliases : ~Pending(k)
  BY TruthIs DEF Settled, Pending, At
<1>2. AliasMarked
  BY <1>1 DEF AInv, Marked, Claims, AliasMarked
<1>3. NoStray
  BY <1>1 DEF AInv, Claimed, Claims, Gone, NoStray
<1>4. QED
  BY <1>2, <1>3

(* With deletions and stages apart, names that cannot clash and no reply   *)
(* lost, what a row says is in DNS is there between stages, for any number *)
(* of devices, aliases and zones.                                          *)
THEOREM AliasesStayMarked == ASSUME Sheltered PROVE Spec => []AliasMarked
<1>1. Init => TypeInv /\ AInv
  BY TypeInit, AliasInit
<1>2. TypeInv /\ AInv /\ [Next]_vars => (TypeInv /\ AInv)'
  BY TypeStep, AliasStep
<1>3. TypeInv /\ AInv => AliasMarked
  BY AliasesKept
<1>4. QED
  BY <1>1, <1>2, <1>3, PTL DEF Spec

(* And no CNAME of netreg is without the alias that claims it.             *)
THEOREM NoStraysLeft == ASSUME Sheltered PROVE Spec => []NoStray
<1>1. Init => TypeInv /\ AInv
  BY TypeInit, AliasInit
<1>2. TypeInv /\ AInv /\ [Next]_vars => (TypeInv /\ AInv)'
  BY TypeStep, AliasStep
<1>3. TypeInv /\ AInv => NoStray
  BY AliasesKept
<1>4. QED
  BY <1>1, <1>2, <1>3, PTL DEF Spec
=============================================================================
