------------------------- MODULE IdentitySyncProofs --------------------------
(***************************************************************************)
(* Identities keep their record, and only theirs: proofs for any number of *)
(* identities, members, names and addresses.                               *)
(***************************************************************************)
EXTENDS IdentitySync, TLAPS, WellFoundedInduction, SequenceTheorems

-----------------------------------------------------------------------------
(* What the theorems suppose, each as far as it needs.                     *)

(* Identities have names and members of their own.                         *)
NamesApart == \A i, j \in Identities : i # j => NamesFor(i) \cap NamesFor(j) = {}
MembersApart == \A i, j \in Identities : i # j => MembersFor(i) \cap MembersFor(j) = {}

(* Nobody else's record is at a name an admin gives an identity.           *)
ForeignApart ==
    \A r \in Foreign : \A i \in Identities : ~(r.host \in NamesFor(i) /\ r.zone \in ZonesFor(i))

(* An identity stays in its zone.                                          *)
ZonesFixed == \A i \in Identities : \A zone, other \in ZonesFor(i) : zone = other

(* Which changes of the stage get through.                                 *)
DeletesWork == MayFail => "delete" \notin FailKinds
UpdatesWork == MayFail => "update" \notin FailKinds

-----------------------------------------------------------------------------
(* The invariants.                                                         *)

(* A row has what its admins gave it, and whoever is active has an address *)
(* and a name.                                                             *)
Sound(i, row) ==
    /\ row.wanted \in NamesFor(i) /\ row.zone \in ZonesFor(i)
    /\ row.active \in MembersFor(i) \cup {NoMAC}
    /\ row.shown \in NamesFor(i) \cup {NoName}
    /\ row.active # NoMAC => row.ip # NoIP /\ row.shown # NoName

(* What is published is published for somebody.                            *)
Attached(row) == row.synced => row.active # NoMAC

(* A change concerns names of its identity, is filed under one of its      *)
(* members, and deletes the record exactly when nobody is active any more. *)
ChangeSound(i, ch) ==
    /\ ch.zone \in ZonesFor(i) /\ ch.oldZone = ch.zone
    /\ ch.kind # "delete" => ch.host \in NamesFor(i)
    /\ ch.kind # "create" => ch.oldHost \in NamesFor(i) /\ ch.oldIP # NoIP
    /\ ch.kind = "delete" <=> copy[i].active = NoMAC
    /\ copy[i] # NoRow /\ key[i] = ch.mac /\ ch.mac # NoMAC

RowsSound ==
    \A i \in Identities :
        /\ member[i] \in Seq(MembersFor(i))
        /\ idents[i] # NoRow => Sound(i, idents[i]) /\ Attached(idents[i])
        /\ copy[i] # NoRow => Sound(i, copy[i]) /\ (key[i] = NoMAC => Attached(copy[i]))

StageSound ==
    \A i \in Identities :
        /\ change[i] # NoRow => ChangeSound(i, change[i])
        /\ key[i] \in MembersFor(i) \cup {NoMAC}
        /\ key[i] # NoMAC /\ change[i] = NoRow =>
              /\ outcome[key[i]] # "none"
              /\ copy[i] # NoRow
              /\ copy[i].active = NoMAC => outcome[key[i]] = "gone"

RequestSound == req # Idle => Sound(req.ident, req.row) /\ Attached(req.row)

AtRest == phase = "idle" => change = Nothing /\ copy = Nothing

SoundInv == RowsSound /\ StageSound /\ RequestSound /\ AtRest

(* What netreg last noted of an identity: once its change is applied, what *)
(* the stage is going to save.                                             *)
Truth(i) ==
    IF phase = "apply" /\ change[i] = NoRow /\ copy[i] # NoRow THEN Final(i) ELSE idents[i]

(* Being deleted, the record no longer there for certain.                  *)
Going(i) == (Deleting("members") \/ Deleting("row")) /\ req.ident = i

Located ==
    \A i \in Identities :
        Truth(i) # NoRow /\ Truth(i).synced /\ ~Going(i) => Location(Truth(i)) \in dns

(* A change replaces what the row in the table says with what the copy     *)
(* says.                                                                   *)
ChangesFit ==
    \A i \in Identities :
        /\ copy[i] # NoRow => idents[i] # NoRow
        /\ change[i] # NoRow =>
              LET ch == change[i]
              IN /\ ch.kind = "create" <=> ~idents[i].synced
                 /\ ch.kind # "create" =>
                       Rec(ch.oldHost, ch.oldZone, ch.oldIP) = Location(idents[i])
                 /\ ch.kind # "delete" => Rec(ch.host, ch.zone, ch.ip) = Location(copy[i])

(* A request has the row of the table, but for what the form changes.      *)
RequestFits ==
    req # Idle =>
        /\ phase = "idle"
        /\ idents[req.ident] # NoRow
        /\ req.row.synced = idents[req.ident].synced
        /\ Location(req.row) = Location(idents[req.ident])

(* What is in the table was given out.                                     *)
Born == \A i \in Identities : idents[i] # NoRow => i \in born

LocatedInv == SoundInv /\ Located /\ ChangesFit /\ RequestFits /\ Born

(* No record of an identity is anywhere else.                              *)
Only ==
    \A i \in Identities : Truth(i) # NoRow =>
        \A r \in dns \ Foreign : r.host \in NamesFor(i) =>
            Truth(i).synced /\ r = Location(Truth(i))

(* Those that are still to come have none.                                 *)
Unborn ==
    \A i \in Identities : i \notin born => \A r \in dns \ Foreign : r.host \notin NamesFor(i)

OnlyInv == LocatedInv /\ Only /\ Unborn

-----------------------------------------------------------------------------
(* Sequences of members.                                                   *)

(* A set of natural numbers that is not empty has a least one.             *)
LEMMA MinIn ==
    ASSUME NEW T \in SUBSET Nat, T # {}
    PROVE  Min(T) \in T
<1> DEFINE R == OpToRel(<, Nat)
<1>1. \A x, y \in Nat : y < x => <<y, x>> \in R
  BY DEF OpToRel
<1>2. IsWellFoundedOn(R, Nat)
  BY NatLessThanWellFounded
<1> HIDE DEF R
<1>3. PICK x \in T : \A y \in T : ~(<<y, x>> \in R)
  BY <1>2, WFMin
<1>4. \A y \in T : x <= y
  <2> SUFFICES ASSUME NEW y \in T PROVE x <= y
    OBVIOUS
  <2>1. x \in Nat /\ y \in Nat /\ ~(y < x)
    BY <1>1, <1>3
  <2>2. QED
    BY <2>1
<1>5. QED
  BY <1>3, <1>4 DEF Min

(* SelectActive picks a member that has an address, if any.                *)
LEMMA ActiveIsMember ==
    ASSUME NEW S, NEW macs \in Seq(S), NEW lease, NEW dead,
           SelectActive(macs, lease, dead) # NoMAC
    PROVE  /\ SelectActive(macs, lease, dead) \in S
           /\ lease[SelectActive(macs, lease, dead)] # NoIP
<1> DEFINE Fresh == {i \in 1 .. Len(macs) : lease[macs[i]] # NoIP}
           Alive == {i \in 1 .. Len(macs) : lease[macs[i]] # NoIP /\ lease[macs[i]] \notin dead}
           fresh == IF Fresh # {} THEN Min(Fresh) ELSE 0
           alive == IF Alive # {} THEN Min(Alive) ELSE 0
<1>1. Len(macs) \in Nat /\ \A i \in 1 .. Len(macs) : macs[i] \in S
  BY LenProperties, ElementOfSeq
<1>2. alive # 0 => macs[alive] \in S /\ lease[macs[alive]] # NoIP
  <2>1. Alive \in SUBSET Nat
    BY <1>1
  <2>2. Alive # {} => Min(Alive) \in Alive
    BY <2>1, MinIn
  <2>3. QED
    BY <1>1, <2>2
<1>3. fresh # 0 => macs[fresh] \in S /\ lease[macs[fresh]] # NoIP
  <2>1. Fresh \in SUBSET Nat
    BY <1>1
  <2>2. Fresh # {} => Min(Fresh) \in Fresh
    BY <2>1, MinIn
  <2>3. QED
    BY <1>1, <2>2
<1>4. SelectActive(macs, lease, dead) =
        CASE alive # 0 -> macs[alive]
          [] alive = 0 /\ fresh # 0 -> macs[fresh]
          [] OTHER -> NoMAC
  BY DEF SelectActive, SelectInSeq
<1> HIDE DEF fresh, alive
<1>5. QED
  BY <1>2, <1>3, <1>4

(* Adding, moving and removing leaves a sequence of members.               *)
LEMMA InsertKeepsSeq ==
    ASSUME NEW S, NEW s \in Seq(S), NEW e \in S, NEW k \in Nat, k >= 1, k <= Len(s) + 1
    PROVE  InsertAt(s, k, e) \in Seq(S)
<1>1. Len(s) \in Nat /\ \A i \in 1 .. Len(s) : s[i] \in S
  BY LenProperties, ElementOfSeq
<1>2. SubSeq(s, 1, k - 1) \in Seq(S)
  BY <1>1, SubSeqProperties
<1>3. SubSeq(s, k, Len(s)) \in Seq(S)
  BY <1>1, SubSeqProperties
<1>4. QED
  BY <1>2, <1>3, ConcatProperties DEF InsertAt

LEMMA RemoveKeepsSeq ==
    ASSUME NEW S, NEW s \in Seq(S), NEW e
    PROVE  /\ RemoveFirst(s, e) \in Seq(S)
           /\ Len(RemoveFirst(s, e)) \in {Len(s), Len(s) - 1}
<1>1. Len(s) \in Nat /\ \A i \in 1 .. Len(s) : s[i] \in S
  BY LenProperties, ElementOfSeq
<1>2. CASE \E i \in 1 .. Len(s) : s[i] = e
  <2> DEFINE I == {i \in 1 .. Len(s) : s[i] = e}
             k == Min(I)
  <2>1. I # {} /\ I \in SUBSET Nat
    BY <1>1, <1>2
  <2>3. k \in 1 .. Len(s)
    <3>1. k \in I
      BY <2>1, MinIn
    <3>2. QED
      BY <3>1
  <2>4. RemoveFirst(s, e) = SubSeq(s, 1, k - 1) \o SubSeq(s, k + 1, Len(s))
    BY <1>2 DEF RemoveFirst, RemoveAt, SelectInSeq
  <2> HIDE DEF I, k
  <2>5. SubSeq(s, 1, k - 1) \in Seq(S) /\ Len(SubSeq(s, 1, k - 1)) = k - 1
    BY <1>1, <2>3, SubSeqProperties
  <2>6. SubSeq(s, k + 1, Len(s)) \in Seq(S) /\ Len(SubSeq(s, k + 1, Len(s))) = Len(s) - k
    BY <1>1, <2>3, SubSeqProperties
  <2>7. \A t, u \in Seq(S) : t \o u \in Seq(S) /\ Len(t \o u) = Len(t) + Len(u)
    BY ConcatProperties
  <2>8. RemoveFirst(s, e) \in Seq(S) /\ Len(RemoveFirst(s, e)) = k - 1 + (Len(s) - k)
    BY <2>4, <2>5, <2>6, <2>7
  <2>9. QED
    BY <1>1, <2>3, <2>8
<1>3. CASE ~(\E i \in 1 .. Len(s) : s[i] = e)
  BY <1>3 DEF RemoveFirst
<1>4. QED
  BY <1>2, <1>3

-----------------------------------------------------------------------------
(* Types.                                                                  *)

ARecord == [host : AnyName, zone : Zones, ip : AnyIP]

(* Calls leave records.                                                    *)
LEMMA CallTypes ==
    ASSUME NEW D \in SUBSET ARecord, NEW ch \in AnyChange,
           NEW E \in Succeeded(D, ch) \cup Failed(D, ch)
    PROVE  E \in SUBSET ARecord
<1> DEFINE new == Rec(ch.host, ch.zone, ch.ip)
<1>1. new \in ARecord
  BY DEF AnyChange, ARecord, Rec
<1>2. \A F \in SUBSET ARecord : Added(F, ch) \in SUBSET ARecord
  BY <1>1 DEF Added
<1>3. ASSUME NEW F \in Succeeded(D, ch) PROVE F \in SUBSET ARecord
  <2>1. CASE ch.kind = "create"
    BY <1>2, <1>3, <2>1 DEF Succeeded
  <2>2. CASE ch.kind = "update"
    <3>1. F \in Updated(D, ch)
      BY <1>3, <2>2 DEF Succeeded
    <3> DEFINE old == IF ch.oldIP = NoIP THEN LookedUp(D, ch)
                      ELSE {Rec(ch.oldHost, ch.oldZone, ch.oldIP)} \cap D
    <3>2. F = (D \ old) \cup {new} \/ F = Added(D \ old, ch)
      BY <3>1 DEF Updated
    <3> HIDE DEF old, new
    <3>3. QED
      BY <1>1, <1>2, <3>2
  <2>3. CASE ch.kind = "delete"
    BY <1>3, <2>3 DEF Succeeded, Deleted
  <2>4. QED
    BY <2>1, <2>2, <2>3 DEF AnyChange
<1>4. E \in Failed(D, ch) => E \in SUBSET ARecord
  BY <1>3 DEF Failed
<1>5. QED
  BY <1>3, <1>4

(* The stage decides on rows and changes.                                  *)
LEMMA DecisionTypes ==
    ASSUME NEW row \in IdentityRow, NEW m \in MACs \cup {NoMAC}, NEW ip \in AnyIP
    PROVE  /\ ChangeFor(row, m, ip) \in AnyChange \cup {NoRow}
           /\ NextRow(row, m, ip) \in IdentityRow
<1>1. NoName \in AnyName /\ NoIP \in AnyIP /\ Names \subseteq AnyName
  BY DEF AnyName, AnyIP
<1>2. ChangeFor(row, m, ip) \in AnyChange \cup {NoRow}
  <2>1. Withdraw(row) \in AnyChange
    BY <1>1 DEF Withdraw, AnyChange, IdentityRow
  <2>2. \A kind \in {"create", "update"} : Publish(kind, row, m, ip) \in AnyChange
    BY <1>1 DEF Publish, AnyChange, IdentityRow
  <2>3. ChangeFor(row, m, ip) \in
            {NoRow, Withdraw(row), Publish("create", row, m, ip), Publish("update", row, m, ip)}
    BY DEF ChangeFor
  <2>4. QED
    BY <2>1, <2>2, <2>3
<1>3. NextRow(row, m, ip) \in IdentityRow
  BY <1>1 DEF NextRow, IdentityRow
<1>4. QED
  BY <1>2, <1>3

LEMMA BeginStageTypes ==
    ASSUME TypeOK, NEW lease \in Leases, NEW dead \in SUBSET Silent, BeginStage(lease, dead)
    PROVE  TypeOK'
<1> DEFINE chosen == [i \in Identities |-> SelectActive(member[i], lease, dead)]
           at == [i \in Identities |-> IF chosen[i] = NoMAC THEN NoIP ELSE lease[chosen[i]]]
<1>1. \A i \in Identities : chosen[i] \in MACs \cup {NoMAC} /\ at[i] \in AnyIP
  <2> SUFFICES ASSUME NEW i \in Identities
               PROVE  chosen[i] \in MACs \cup {NoMAC} /\ at[i] \in AnyIP
    OBVIOUS
  <2>1. SelectActive(member[i], lease, dead) # NoMAC =>
            SelectActive(member[i], lease, dead) \in MACs
    BY ActiveIsMember DEF TypeOK
  <2>2. QED
    BY <2>1, IdentityAssumption DEF AnyIP
<1>2. /\ change' = [i \in Identities |->
            IF Included(i) THEN ChangeFor(idents[i], chosen[i], at[i]) ELSE NoRow]
      /\ copy' = [i \in Identities |->
            IF Included(i) THEN NextRow(idents[i], chosen[i], at[i]) ELSE idents[i]]
      /\ key' = [i \in Identities |-> IF change'[i] = NoRow THEN NoMAC ELSE change'[i].mac]
      /\ phase' = "apply"
      /\ UNCHANGED <<idents, born, member, dns, outcome, req, world>>
  BY DEF BeginStage
<1> HIDE DEF chosen, at
<1>3. \A i \in Identities : Included(i) => idents[i] \in IdentityRow
  BY DEF TypeOK, Included
<1>4. change' \in [Identities -> AnyChange \cup {NoRow}]
  BY <1>1, <1>2, <1>3, DecisionTypes
<1>5. copy' \in [Identities -> IdentityRow \cup {NoRow}]
  BY <1>1, <1>2, <1>3, DecisionTypes DEF TypeOK
<1>6. key' \in [Identities -> MACs \cup {NoMAC}]
  BY <1>2, <1>4 DEF AnyChange
<1>7. QED
  BY <1>2, <1>4, <1>5, <1>6 DEF TypeOK, world

LEMMA ApplyTypes ==
    ASSUME TypeOK, NEW i \in Identities, NEW ok \in BOOLEAN, Apply(i, ok)
    PROVE  TypeOK'
<1>1. change[i] \in AnyChange
  BY DEF Apply, TypeOK
<1>2. dns' \in SUBSET ARecord
  BY <1>1, CallTypes DEF Apply, TypeOK, ARecord
<1>3. OutcomeOf(change[i], ok) \in {"none", "present", "gone"}
  BY DEF OutcomeOf
<1>4. QED
  BY <1>1, <1>2, <1>3 DEF Apply, TypeOK, ARecord, AnyChange, world

LEMMA EndStageTypes ==
    ASSUME TypeOK, EndStage
    PROVE  TypeOK'
<1>1. ASSUME NEW i \in Identities, copy[i] # NoRow PROVE Final(i) \in IdentityRow
  <2>1. copy[i] \in IdentityRow
    BY <1>1 DEF TypeOK
  <2>2. \A mark \in BOOLEAN : [copy[i] EXCEPT !.synced = mark] \in IdentityRow
    BY <2>1 DEF IdentityRow
  <2>3. (outcome[key[i]] = "present") \in BOOLEAN
    OBVIOUS
  <2>4. QED
    BY <2>1, <2>2, <2>3 DEF Final
<1>2. QED
  BY <1>1 DEF EndStage, TypeOK, Nothing, NoOutcome, world

LEMMA EditTypes ==
    ASSUME TypeOK, Edits
    PROVE  TypeOK'
<1>1. ASSUME NEW i \in Identities, NEW name \in NamesFor(i), NEW zone \in ZonesFor(i),
             AddIdentity(i, name, zone)
      PROVE  TypeOK'
  BY <1>1, IdentityAssumption DEF AddIdentity, TypeOK, IdentityRow, AnyName, AnyIP, stage, world
<1>2. ASSUME NEW i \in Identities, NEW name \in NamesFor(i), NEW zone \in ZonesFor(i),
             NEW excluded \in BOOLEAN, EditIdentity(i, name, zone, excluded)
      PROVE  TypeOK'
  <2> DEFINE row == idents[i]
  <2>1. row \in IdentityRow /\ name \in Names /\ zone \in Zones
    BY <1>2, IdentityAssumption DEF EditIdentity, TypeOK
  <2> HIDE DEF row
  <2>2. Edited(row, name, zone, excluded) \in IdentityRow
    BY <2>1 DEF Edited, IdentityRow
  <2>3. Edited(idents[i], name, zone, excluded) \in IdentityRow
    BY <2>2 DEF row
  <2>4. QED
    BY <1>2, <2>3 DEF EditIdentity, Load, Request, TypeOK, stage, world
<1>3. ASSUME NEW i \in Identities, DeleteIdentity(i)
      PROVE  TypeOK'
  BY <1>3 DEF DeleteIdentity, Load, Request, TypeOK, stage, world
<1>4. CASE SaveEdit
  BY <1>4 DEF SaveEdit, Request, TypeOK, stage, world
<1>5. CASE TakeDown
  <2> DEFINE ch == [Withdraw(req.row) EXCEPT !.oldHost = req.row.wanted]
  <2>1. req \in Request
    BY <1>5 DEF TakeDown, Deleting, TypeOK
  <2>2. ch \in AnyChange
    BY <2>1 DEF Request, IdentityRow, Withdraw, AnyChange, AnyName, AnyIP
  <2>3. dns' = dns \/ dns' \in Succeeded(dns, ch) \cup Failed(dns, ch)
    BY <1>5 DEF TakeDown
  <2> HIDE DEF ch
  <2>4. dns' \in SUBSET ARecord
    BY <2>2, <2>3, CallTypes DEF TypeOK, ARecord
  <2>5. req' \in Request
    BY <1>5, <2>1 DEF TakeDown, Request
  <2>6. QED
    BY <1>5, <2>4, <2>5 DEF TakeDown, TypeOK, ARecord, stage, world
<1>6. CASE DropMembers
  BY <1>6, EmptySeq DEF DropMembers, Deleting, Request, TypeOK, stage, world
<1>7. CASE Drop
  BY <1>7 DEF Drop, Deleting, Request, TypeOK, stage, world
<1>8. QED
  BY <1>1, <1>2, <1>3, <1>4, <1>5, <1>6, <1>7 DEF Edits

(* A member of S added, moved or removed leaves a sequence of members of S.*)
LEMMA MemberSeqs ==
    ASSUME NEW S, NEW i \in Identities, NEW m \in S, member[i] \in Seq(S),
           member \in [Identities -> Seq(MACs)],
           \/ \E k \in 1 .. Len(member[i]) + 1 : AddMember(i, m, k)
           \/ \E k \in 1 .. Len(member[i]) : EditMember(i, m, k)
           \/ DeleteMember(i, m)
    PROVE  /\ member'[i] \in Seq(S)
           /\ member' = [member EXCEPT ![i] = member'[i]]
           /\ UNCHANGED <<idents, born, dns, stage, req, world>>
<1>0. Len(member[i]) \in Nat
  BY LenProperties
<1>1. ASSUME NEW k \in 1 .. Len(member[i]) + 1, AddMember(i, m, k)
      PROVE  /\ member' = [member EXCEPT ![i] = InsertAt(member[i], k, m)]
             /\ InsertAt(member[i], k, m) \in Seq(S)
  BY <1>0, <1>1, InsertKeepsSeq DEF AddMember
<1>2. ASSUME NEW k \in 1 .. Len(member[i]), EditMember(i, m, k)
      PROVE  /\ member' = [member EXCEPT ![i] = InsertAt(RemoveFirst(member[i], m), k, m)]
             /\ InsertAt(RemoveFirst(member[i], m), k, m) \in Seq(S)
  <2>1. /\ RemoveFirst(member[i], m) \in Seq(S)
        /\ Len(RemoveFirst(member[i], m)) \in {Len(member[i]), Len(member[i]) - 1}
    BY RemoveKeepsSeq
  <2>2. k \in Nat /\ k >= 1 /\ k <= Len(RemoveFirst(member[i], m)) + 1
    BY <1>0, <2>1
  <2>3. InsertAt(RemoveFirst(member[i], m), k, m) \in Seq(S)
    BY <2>1, <2>2, InsertKeepsSeq
  <2>4. QED
    BY <1>2, <2>3 DEF EditMember
<1>3. ASSUME DeleteMember(i, m)
      PROVE  /\ member' = [member EXCEPT ![i] = RemoveFirst(member[i], m)]
             /\ RemoveFirst(member[i], m) \in Seq(S)
  BY <1>3, RemoveKeepsSeq DEF DeleteMember
<1>4. UNCHANGED <<idents, born, dns, stage, req, world>>
  BY DEF AddMember, EditMember, DeleteMember
<1>5. \E s \in Seq(S) : member' = [member EXCEPT ![i] = s]
  BY <1>1, <1>2, <1>3
<1>6. QED
  BY <1>4, <1>5

LEMMA InitTypes ==
    ASSUME Init
    PROVE  TypeOK
<1>1. (CHOOSE l \in Leases : TRUE) \in Leases
  BY IdentityAssumption
<1>2. <<>> \in Seq(MACs)
  BY EmptySeq
<1>3. dns \subseteq [host : AnyName, zone : Zones, ip : AnyIP]
  BY IdentityAssumption DEF Init, AnyIP
<1>4. QED
  BY <1>1, <1>2, <1>3 DEF Init, TypeOK, Nothing, NoOutcome

LEMMA NextTypes ==
    ASSUME TypeOK, [Next]_vars
    PROVE  TypeOK'
<1>1. CASE Stage
  <2>1. TypeOK => steady.lease \in Leases /\ steady.dead \in SUBSET Silent
    BY DEF TypeOK
  <2>2. QED
    BY <1>1, <2>1, BeginStageTypes, ApplyTypes, EndStageTypes DEF Stage
<1>2. CASE Edits
  BY <1>2, EditTypes
<1>3. CASE MemberEdits
  <2>1. PICK i \in Identities : \E m \in MembersFor(i) :
          \/ \E k \in 1 .. Len(member[i]) + 1 : AddMember(i, m, k)
          \/ \E k \in 1 .. Len(member[i]) : EditMember(i, m, k)
          \/ DeleteMember(i, m)
    BY <1>3 DEF MemberEdits
  <2>2. PICK m \in MembersFor(i) :
          \/ \E k \in 1 .. Len(member[i]) + 1 : AddMember(i, m, k)
          \/ \E k \in 1 .. Len(member[i]) : EditMember(i, m, k)
          \/ DeleteMember(i, m)
    BY <2>1
  <2>3. m \in MACs /\ member[i] \in Seq(MACs) /\ member \in [Identities -> Seq(MACs)]
    BY IdentityAssumption DEF TypeOK
  <2>4. /\ member'[i] \in Seq(MACs) /\ member' = [member EXCEPT ![i] = member'[i]]
        /\ UNCHANGED <<idents, born, dns, stage, req, world>>
    BY <2>2, <2>3, MemberSeqs
  <2>5. QED
    BY <2>3, <2>4 DEF TypeOK, stage, world
<1>4. CASE CalmDown
  BY <1>4 DEF CalmDown, TypeOK, stage
<1>5. CASE UNCHANGED vars
  BY <1>5 DEF vars, TypeOK, stage, world
<1>6. QED
  BY <1>1, <1>2, <1>3, <1>4, <1>5 DEF Next

(* Each variable always has its type, whatever fails and overlaps.         *)
THEOREM IdentityTypeCorrect == Spec => []TypeOK
<1>1. Init => TypeOK
  BY InitTypes
<1>2. TypeOK /\ [Next]_vars => TypeOK'
  BY NextTypes
<1>3. QED
  BY <1>1, <1>2, PTL DEF Spec

-----------------------------------------------------------------------------
(* Calls that know the address they are to take down.                      *)

LEMMA Calls ==
    ASSUME NEW D \in SUBSET ARecord, NEW ch \in AnyChange, ch.kind # "create" => ch.oldIP # NoIP
    PROVE  LET old == Rec(ch.oldHost, ch.oldZone, ch.oldIP)
               new == Rec(ch.host, ch.zone, ch.ip)
           IN /\ ch.kind = "create" => Succeeded(D, ch) = {(D \ At(D, ch.host, ch.zone)) \cup {new}}
              /\ ch.kind = "update" => Succeeded(D, ch) = IF old \in D THEN {(D \ {old}) \cup {new}} ELSE {}
              /\ ch.kind = "delete" => Succeeded(D, ch) = {D \ {old}}
              /\ Failed(D, ch) = {D} \cup (IF LostReplies THEN Succeeded(D, ch) ELSE {})
<1> DEFINE old == Rec(ch.oldHost, ch.oldZone, ch.oldIP)
           new == Rec(ch.host, ch.zone, ch.ip)
<1>1. LookedUp(D, ch) = {}
  BY DEF LookedUp
<1>2. Failed(D, ch) = {D} \cup (IF LostReplies THEN Succeeded(D, ch) ELSE {})
  BY <1>1 DEF Failed
<1>3. ch.kind = "create" => Succeeded(D, ch) = {(D \ At(D, ch.host, ch.zone)) \cup {new}}
  BY DEF Succeeded, Added
<1>4. ch.kind = "delete" => Succeeded(D, ch) = {D \ {old}}
  BY DEF Succeeded, Deleted
<1>5. ch.kind = "update" =>
          Succeeded(D, ch) = IF old \in D THEN {(D \ {old}) \cup {new}} ELSE {}
  <2> SUFFICES ASSUME ch.kind = "update"
               PROVE  Updated(D, ch) = IF old \in D THEN {(D \ {old}) \cup {new}} ELSE {}
    BY DEF Succeeded
  <2> HIDE DEF old, new
  <2>1. Single({old} \cap D) <=> old \in D
    BY DEF Single
  <2>2. D \ ({old} \cap D) = D \ {old}
    OBVIOUS
  <2>3. Updated(D, ch) = IF Single({old} \cap D) THEN {(D \ ({old} \cap D)) \cup {new}} ELSE {}
    BY DEF Updated, old, new
  <2>4. QED
    BY <2>1, <2>2, <2>3
<1> HIDE DEF old, new
<1>6. /\ ch.kind = "create" => Succeeded(D, ch) = {(D \ At(D, ch.host, ch.zone)) \cup {new}}
      /\ ch.kind = "update" => Succeeded(D, ch) = IF old \in D THEN {(D \ {old}) \cup {new}} ELSE {}
      /\ ch.kind = "delete" => Succeeded(D, ch) = {D \ {old}}
      /\ Failed(D, ch) = {D} \cup (IF LostReplies THEN Succeeded(D, ch) ELSE {})
  BY <1>2, <1>3, <1>4, <1>5, Zenon
<1>7. QED
  BY <1>6, Zenon DEF old, new

(* What such a call may add and what it may take away; a call that is      *)
(* carried out leaves the record it was to leave.                          *)
LEMMA CallEffect ==
    ASSUME NEW D \in SUBSET ARecord, NEW ch \in AnyChange, ch.kind # "create" => ch.oldIP # NoIP,
           NEW ok \in BOOLEAN, NEW E \in IF ok THEN Succeeded(D, ch) ELSE Failed(D, ch)
    PROVE  LET old == Rec(ch.oldHost, ch.oldZone, ch.oldIP)
               new == Rec(ch.host, ch.zone, ch.ip)
           IN /\ E \subseteq D \cup (IF ch.kind = "delete" THEN {} ELSE {new})
              /\ \A r \in D :
                    \/ r \in E
                    \/ ch.kind = "create" /\ r.host = ch.host /\ r.zone = ch.zone
                    \/ ch.kind # "create" /\ r = old
              /\ ok /\ ch.kind # "delete" => new \in E
<1> DEFINE old == Rec(ch.oldHost, ch.oldZone, ch.oldIP)
           new == Rec(ch.host, ch.zone, ch.ip)
<1>1. E \in Succeeded(D, ch) \/ (E = D /\ ~ok)
  BY Calls
<1>2. CASE E = D /\ ~ok
  BY <1>2
<1>3. CASE E \in Succeeded(D, ch)
  <2>1. CASE ch.kind = "create"
    <3>1. E = (D \ At(D, ch.host, ch.zone)) \cup {new}
      <4>1. Succeeded(D, ch) = {(D \ At(D, ch.host, ch.zone)) \cup {new}}
        BY <2>1, Calls
      <4> HIDE DEF new
      <4>2. QED
        BY <1>3, <4>1
    <3> HIDE DEF new
    <3>2. QED
      BY <2>1, <3>1 DEF At, new
  <2>2. CASE ch.kind = "update"
    <3>1. E = (D \ {old}) \cup {new}
      BY <1>3, <2>2, Calls
    <3>2. QED
      BY <2>2, <3>1
  <2>3. CASE ch.kind = "delete"
    <3>1. E = D \ {old}
      BY <1>3, <2>3, Calls
    <3>2. QED
      BY <2>3, <3>1
  <2>4. QED
    BY <2>1, <2>2, <2>3 DEF AnyChange
<1>4. QED
  BY <1>1, <1>2, <1>3

-----------------------------------------------------------------------------
(* Rows and changes stay sound, whatever fails and overlaps, as long as    *)
(* the stage's deletes get through.                                        *)

(* A row that is given what it has is the same row.                        *)
LEMMA Rewritten ==
    ASSUME NEW row \in IdentityRow
    PROVE  [row EXCEPT !.active = row.active, !.ip = row.ip, !.shown = row.shown] = row
BY DEF IdentityRow

(* What the stage decides for an identity.                                 *)
LEMMA DecisionSound ==
    ASSUME NEW i \in Identities, NEW row \in IdentityRow, Sound(i, row), Attached(row),
           NEW m \in MembersFor(i) \cup {NoMAC}, NEW ip \in AnyIP, m # NoMAC => ip # NoIP
    PROVE  LET ch == ChangeFor(row, m, ip)
               next == NextRow(row, m, ip)
           IN /\ Sound(i, next)
              /\ ch = NoRow => next = row
              /\ ch # NoRow =>
                    /\ ch.mac \in MembersFor(i) /\ ch.mac # NoMAC
                    /\ ch.zone \in ZonesFor(i) /\ ch.oldZone = ch.zone
                    /\ ch.kind = "create" <=> ~row.synced
                    /\ ch.kind = "delete" <=> next.active = NoMAC
                    /\ ch.kind # "delete" =>
                          ch.host \in NamesFor(i) /\ Rec(ch.host, ch.zone, ch.ip) = Location(next)
                    /\ ch.kind # "create" =>
                          /\ ch.oldHost \in NamesFor(i) /\ ch.oldIP # NoIP
                          /\ Rec(ch.oldHost, ch.oldZone, ch.oldIP) = Location(row)
<1> DEFINE ch == ChangeFor(row, m, ip)
           next == NextRow(row, m, ip)
<1>1. NoMAC \notin MembersFor(i) /\ NoName \notin NamesFor(i)
  BY IdentityAssumption, NamingAssumption
<1>2. m \in MACs \cup {NoMAC}
  BY IdentityAssumption
<1>3. Withdraw(row) # NoRow /\ \A kind \in {"create", "update"} : Publish(kind, row, m, ip) # NoRow
  BY <1>2, NullAssumption DEF Withdraw, Publish, AnyChange, IdentityRow, AnyName, AnyIP
<1>4. CASE m = NoMAC /\ row.synced
  <2>1. ch = Withdraw(row) /\ next = [row EXCEPT !.active = NoMAC, !.ip = NoIP, !.shown = NoName]
    BY <1>4 DEF ChangeFor, NextRow
  <2>2. Sound(i, next) /\ next.active = NoMAC
    BY <2>1 DEF Sound, IdentityRow
  <2>3. row.active # NoMAC /\ row.ip # NoIP /\ row.shown \in NamesFor(i)
    BY <1>4 DEF Attached, Sound
  <2> HIDE DEF ch, next
  <2>4. QED
    BY <1>1, <1>3, <1>4, <2>1, <2>2, <2>3 DEF Sound, Withdraw, Location, Rec, ch, next
<1>5. CASE m # NoMAC
  <2>1. next = [row EXCEPT !.active = m, !.ip = ip, !.shown = row.wanted]
    BY <1>5 DEF NextRow
  <2>2. /\ next.active = m /\ next.ip = ip /\ next.shown = row.wanted
        /\ next.zone = row.zone /\ next.wanted = row.wanted
    BY <2>1 DEF IdentityRow
  <2>3. Sound(i, next)
    BY <1>1, <1>5, <2>2 DEF Sound
  <2>4. row.synced => row.ip # NoIP /\ row.shown \in NamesFor(i)
    BY DEF Attached, Sound
  <2>5. \/ ~row.synced /\ ch = Publish("create", row, m, ip)
        \/ row.synced /\ ch = Publish("update", row, m, ip)
        \/ row.synced /\ ch = NoRow /\ <<m, ip, row.wanted>> = <<row.active, row.ip, row.shown>>
    BY <1>5 DEF ChangeFor
  <2>6. CASE ch = NoRow
    <3>1. m = row.active /\ ip = row.ip /\ row.wanted = row.shown
      BY <1>3, <2>5, <2>6
    <3>2. next = row
      BY <2>1, <3>1, Rewritten
    <3>3. QED
      BY <2>3, <2>6, <3>2
  <2>7. CASE ch # NoRow
    <3>1. PICK kind \in {"create", "update"} :
            ch = Publish(kind, row, m, ip) /\ (kind = "create" <=> ~row.synced)
      BY <2>5, <2>7
    <3>2. /\ ch.kind = kind /\ ch.mac = m /\ ch.host = row.wanted /\ ch.zone = row.zone /\ ch.ip = ip
          /\ ch.oldHost = row.shown /\ ch.oldZone = row.zone /\ ch.oldIP = row.ip
      BY <3>1 DEF Publish
    <3> HIDE DEF ch, next
    <3>3. Rec(ch.host, ch.zone, ch.ip) = Location(next)
      BY <2>2, <3>2 DEF Location, Rec
    <3>4. Rec(ch.oldHost, ch.oldZone, ch.oldIP) = Location(row)
      BY <3>2 DEF Location, Rec
    <3>5. row.wanted \in NamesFor(i) /\ row.zone \in ZonesFor(i)
      BY DEF Sound
    <3>6. QED
      BY <1>1, <1>5, <2>2, <2>3, <2>4, <2>7, <3>1, <3>2, <3>3, <3>4, <3>5 DEF ch, next
  <2>8. QED
    BY <2>6, <2>7
<1>6. CASE m = NoMAC /\ ~row.synced
  BY <1>6 DEF ChangeFor, NextRow
<1>7. QED
  BY <1>4, <1>5, <1>6

(* The stage chooses among the members, and only one with an address.      *)
LEMMA BeginStageSound ==
    ASSUME TypeOK, SoundInv, NEW lease \in Leases, NEW dead \in SUBSET Silent,
           BeginStage(lease, dead)
    PROVE  /\ SoundInv'
           /\ \A i \in Identities :
                 change'[i] = NoRow /\ copy'[i] # NoRow => copy'[i] = idents[i] /\ key'[i] = NoMAC
           /\ \A i \in Identities : copy'[i] # NoRow => idents[i] # NoRow
           /\ \A i \in Identities : change'[i] # NoRow =>
                 LET ch == change'[i]
                 IN /\ ch.kind = "create" <=> ~idents[i].synced
                    /\ ch.kind # "create" =>
                          Rec(ch.oldHost, ch.oldZone, ch.oldIP) = Location(idents[i])
                    /\ ch.kind # "delete" => Rec(ch.host, ch.zone, ch.ip) = Location(copy'[i])
<1> DEFINE chosen == [i \in Identities |-> SelectActive(member[i], lease, dead)]
           at == [i \in Identities |-> IF chosen[i] = NoMAC THEN NoIP ELSE lease[chosen[i]]]
<1>1. ASSUME NEW i \in Identities
      PROVE  /\ chosen[i] \in MembersFor(i) \cup {NoMAC} /\ at[i] \in AnyIP
             /\ chosen[i] # NoMAC => at[i] # NoIP
  <2>1. SelectActive(member[i], lease, dead) # NoMAC =>
            /\ SelectActive(member[i], lease, dead) \in MembersFor(i)
            /\ lease[SelectActive(member[i], lease, dead)] # NoIP
    BY ActiveIsMember DEF SoundInv, RowsSound
  <2>2. MembersFor(i) \subseteq MACs /\ lease \in [MACs -> AnyIP]
    BY IdentityAssumption
  <2>3. QED
    BY <2>1, <2>2 DEF AnyIP
<1>2. /\ change' = [i \in Identities |->
            IF Included(i) THEN ChangeFor(idents[i], chosen[i], at[i]) ELSE NoRow]
      /\ copy' = [i \in Identities |->
            IF Included(i) THEN NextRow(idents[i], chosen[i], at[i]) ELSE idents[i]]
      /\ key' = [i \in Identities |-> IF change'[i] = NoRow THEN NoMAC ELSE change'[i].mac]
      /\ phase' = "apply"
      /\ UNCHANGED <<idents, member, outcome, req>>
  BY DEF BeginStage
<1> HIDE DEF chosen, at
<1>3. ASSUME NEW i \in Identities, ~Included(i)
      PROVE  change'[i] = NoRow /\ copy'[i] = idents[i] /\ key'[i] = NoMAC
  BY <1>2, <1>3
<1>4. ASSUME NEW i \in Identities, Included(i)
      PROVE  LET ch == change'[i]
             IN /\ Sound(i, copy'[i])
                /\ ch = NoRow => copy'[i] = idents[i]
                /\ ch # NoRow =>
                      /\ ch.mac \in MembersFor(i) /\ ch.mac # NoMAC
                      /\ ch.zone \in ZonesFor(i) /\ ch.oldZone = ch.zone
                      /\ ch.kind = "create" <=> ~idents[i].synced
                      /\ ch.kind = "delete" <=> copy'[i].active = NoMAC
                      /\ ch.kind # "delete" =>
                            ch.host \in NamesFor(i) /\ Rec(ch.host, ch.zone, ch.ip) = Location(copy'[i])
                      /\ ch.kind # "create" =>
                            /\ ch.oldHost \in NamesFor(i) /\ ch.oldIP # NoIP
                            /\ Rec(ch.oldHost, ch.oldZone, ch.oldIP) = Location(idents[i])
  <2>1. change'[i] = ChangeFor(idents[i], chosen[i], at[i])
    BY <1>2, <1>4
  <2>2. copy'[i] = NextRow(idents[i], chosen[i], at[i])
    BY <1>2, <1>4
  <2>3. idents[i] \in IdentityRow /\ Sound(i, idents[i]) /\ Attached(idents[i])
    BY <1>4 DEF TypeOK, Included, SoundInv, RowsSound
  <2>4. QED
    BY <1>1, <2>1, <2>2, <2>3, DecisionSound
<1>5. \A i \in Identities : Included(i) => idents[i] # NoRow
  BY DEF Included
<1>6. \A i \in Identities : Included(i) /\ change'[i] # NoRow => copy'[i] # NoRow
  <2> SUFFICES ASSUME NEW i \in Identities, Included(i) PROVE copy'[i] # NoRow
    OBVIOUS
  <2>1. idents[i] \in IdentityRow /\ chosen[i] \in MACs \cup {NoMAC} /\ at[i] \in AnyIP
    BY <1>1, <1>5, IdentityAssumption DEF TypeOK
  <2>2. copy'[i] \in IdentityRow
    BY <1>2, <2>1, DecisionTypes
  <2>3. QED
    BY <2>2, NullAssumption
<1>7. RowsSound'
  <2> SUFFICES ASSUME NEW i \in Identities
               PROVE  copy'[i] # NoRow =>
                          Sound(i, copy'[i]) /\ (key'[i] = NoMAC => Attached(copy'[i]))
    BY <1>2 DEF SoundInv, RowsSound
  <2>1. idents[i] # NoRow => Sound(i, idents[i]) /\ Attached(idents[i])
    BY DEF SoundInv, RowsSound
  <2>2. CASE ~Included(i)
    BY <1>3, <2>1, <2>2
  <2>3. CASE Included(i)
    <3>1. key'[i] = NoMAC => change'[i] = NoRow
      BY <1>2, <1>4, <2>3
    <3>2. QED
      BY <1>4, <1>5, <2>1, <2>3, <3>1
  <2>4. QED
    BY <2>2, <2>3
<1>8. StageSound'
  <2> SUFFICES ASSUME NEW i \in Identities
               PROVE  /\ change'[i] # NoRow => ChangeSound(i, change[i])'
                      /\ key'[i] \in MembersFor(i) \cup {NoMAC}
                      /\ change'[i] = NoRow => key'[i] = NoMAC
    BY DEF StageSound
  <2>1. key'[i] = IF change'[i] = NoRow THEN NoMAC ELSE change'[i].mac
    BY <1>2
  <2>2. CASE ~Included(i)
    BY <1>3, <2>2
  <2>3. CASE Included(i)
    BY <1>4, <1>6, <2>1, <2>3 DEF ChangeSound
  <2>4. QED
    BY <2>2, <2>3
<1>9. RequestSound' /\ AtRest'
  BY <1>2 DEF SoundInv, RequestSound, AtRest, Sound, Attached
<1>10. QED
  BY <1>2, <1>3, <1>4, <1>5, <1>7, <1>8, <1>9 DEF SoundInv

(* The outcome of a change is filed where only its identity looks; a       *)
(* delete is never filed as a failure.                                     *)
LEMMA ApplySound ==
    ASSUME MembersApart, DeletesWork, TypeOK, SoundInv,
           NEW i \in Identities, NEW ok \in BOOLEAN, Apply(i, ok)
    PROVE  /\ SoundInv'
           /\ change[i].kind = "delete" => ok
           /\ \A j \in Identities \ {i} : key[j] # NoMAC => outcome'[key[j]] = outcome[key[j]]
<1>1. /\ change[i] \in AnyChange /\ ChangeSound(i, change[i])
      /\ change[i].kind # "create" => change[i].oldIP # NoIP
  BY DEF Apply, TypeOK, SoundInv, StageSound, ChangeSound
<1>2. change[i].kind = "delete" => ok
  <2> SUFFICES ASSUME change[i].kind = "delete", ~ok PROVE FALSE
    OBVIOUS
  <2>1. dns \in SUBSET ARecord
    BY DEF TypeOK, ARecord
  <2>2. Succeeded(dns, change[i]) # {}
    BY DEF Succeeded
  <2>3. QED
    BY <2>2 DEF Apply, Refused, DeletesWork
<1>3. key[i] = change[i].mac /\ key[i] # NoMAC /\ key[i] \in MembersFor(i) /\ copy[i] # NoRow
  BY <1>1 DEF ChangeSound, SoundInv, StageSound
<1>4. /\ change' = [change EXCEPT ![i] = NoRow]
      /\ outcome' = [outcome EXCEPT ![key[i]] = OutcomeOf(change[i], ok)]
      /\ UNCHANGED <<idents, member, phase, copy, key, req>>
  BY <1>3 DEF Apply
<1>5. outcome'[key[i]] = OutcomeOf(change[i], ok)
  BY <1>1, <1>3, <1>4 DEF TypeOK, AnyChange
<1>6. \A j \in Identities \ {i} : key[j] # NoMAC => outcome'[key[j]] = outcome[key[j]]
  <2> SUFFICES ASSUME NEW j \in Identities \ {i}, key[j] # NoMAC
               PROVE  outcome'[key[j]] = outcome[key[j]]
    OBVIOUS
  <2>1. key[j] \in MembersFor(j)
    BY DEF SoundInv, StageSound
  <2>2. key[j] # key[i]
    BY <1>3, <2>1 DEF MembersApart
  <2>3. key[j] \in MACs \cup {NoMAC}
    BY DEF TypeOK
  <2>4. QED
    BY <1>4, <2>2, <2>3 DEF TypeOK
<1>7. RowsSound' /\ RequestSound'
  BY <1>4 DEF SoundInv, RowsSound, RequestSound, Sound, Attached
<1>8. StageSound'
  <2> SUFFICES ASSUME NEW j \in Identities
               PROVE  /\ change'[j] # NoRow => ChangeSound(j, change[j])'
                      /\ key'[j] \in MembersFor(j) \cup {NoMAC}
                      /\ key'[j] # NoMAC /\ change'[j] = NoRow =>
                            /\ outcome'[key'[j]] # "none"
                            /\ copy'[j] # NoRow
                            /\ copy'[j].active = NoMAC => outcome'[key'[j]] = "gone"
    BY DEF StageSound
  <2>1. CASE j = i
    <3>1. change'[i] = NoRow
      BY <1>4 DEF TypeOK
    <3>2. OutcomeOf(change[i], ok) # "none"
      BY DEF OutcomeOf
    <3>3. copy[i].active = NoMAC => OutcomeOf(change[i], ok) = "gone"
      BY <1>1, <1>2 DEF ChangeSound, OutcomeOf
    <3>4. QED
      BY <1>3, <1>4, <1>5, <2>1, <3>1, <3>2, <3>3
  <2>2. CASE j # i
    <3>1. change'[j] = change[j]
      BY <1>4, <2>2 DEF TypeOK
    <3>2. QED
      BY <1>4, <1>6, <2>2, <3>1 DEF SoundInv, StageSound, ChangeSound
  <2>3. QED
    BY <2>1, <2>2
<1>9. AtRest'
  BY <1>4 DEF Apply, AtRest
<1>10. QED
  BY <1>2, <1>6, <1>7, <1>8, <1>9 DEF SoundInv

(* What the stage saves is sound.                                          *)
LEMMA FinalSound ==
    ASSUME TypeOK, SoundInv, NEW i \in Identities, copy[i] # NoRow, change[i] = NoRow
    PROVE  /\ Sound(i, Final(i)) /\ Attached(Final(i))
           /\ Final(i).wanted = copy[i].wanted /\ Location(Final(i)) = Location(copy[i])
           /\ Final(i).synced = IF key[i] = NoMAC THEN copy[i].synced ELSE outcome[key[i]] = "present"
<1>1. copy[i] \in IdentityRow /\ Sound(i, copy[i])
  BY DEF TypeOK, SoundInv, RowsSound
<1>2. CASE key[i] = NoMAC
  BY <1>1, <1>2 DEF Final, SoundInv, RowsSound
<1>3. CASE key[i] # NoMAC
  <2>1. outcome[key[i]] # "none" /\ (copy[i].active = NoMAC => outcome[key[i]] = "gone")
    BY <1>3 DEF SoundInv, StageSound
  <2>2. Final(i) = [copy[i] EXCEPT !.synced = outcome[key[i]] = "present"]
    BY <1>3, <2>1 DEF Final
  <2>3. /\ Final(i).wanted = copy[i].wanted /\ Final(i).zone = copy[i].zone
        /\ Final(i).active = copy[i].active /\ Final(i).shown = copy[i].shown
        /\ Final(i).ip = copy[i].ip /\ Final(i).synced = (outcome[key[i]] = "present")
    BY <1>1, <2>2 DEF IdentityRow
  <2>4. Sound(i, Final(i))
    BY <1>1, <2>3 DEF Sound
  <2>5. Attached(Final(i))
    BY <2>1, <2>3 DEF Attached
  <2>6. QED
    BY <1>3, <2>3, <2>4, <2>5 DEF Location
<1>4. QED
  BY <1>2, <1>3

LEMMA EndStageSound ==
    ASSUME TypeOK, SoundInv, EndStage
    PROVE  SoundInv'
<1>1. /\ change = Nothing
      /\ idents' = [i \in Identities |-> IF copy[i] = NoRow THEN idents[i] ELSE Final(i)]
      /\ copy' = Nothing /\ key' = [i \in Identities |-> NoMAC]
      /\ UNCHANGED <<member, change, req>>
  BY DEF EndStage
<1>2. ASSUME NEW i \in Identities, copy[i] # NoRow PROVE Sound(i, Final(i)) /\ Attached(Final(i))
  <2>1. change[i] = NoRow
    BY <1>1 DEF Nothing
  <2>2. QED
    BY <1>2, <2>1, FinalSound
<1>3. RowsSound'
  BY <1>1, <1>2 DEF SoundInv, RowsSound, Nothing, Sound, Attached
<1>4. StageSound' /\ AtRest' /\ RequestSound'
  BY <1>1 DEF SoundInv, StageSound, AtRest, RequestSound, Nothing, Sound, Attached
<1>5. QED
  BY <1>3, <1>4 DEF SoundInv

(* What the handlers leave alone stays sound.                              *)
LEMMA OutsideStage ==
    ASSUME TypeOK, SoundInv, UNCHANGED stage,
           \A i \in Identities : member'[i] \in Seq(MembersFor(i)),
           \A i \in Identities : idents'[i] # NoRow => Sound(i, idents'[i]) /\ Attached(idents'[i]),
           req' # Idle => Sound(req'.ident, req'.row) /\ Attached(req'.row)
    PROVE  SoundInv'
<1>1. RowsSound'
  BY DEF stage, SoundInv, RowsSound
<1>2. StageSound'
  BY DEF stage, SoundInv, StageSound, ChangeSound
<1>3. RequestSound' /\ AtRest'
  BY DEF stage, SoundInv, RequestSound, AtRest
<1>4. QED
  BY <1>1, <1>2, <1>3 DEF SoundInv

LEMMA EditsSound ==
    ASSUME TypeOK, SoundInv, Edits
    PROVE  SoundInv'
<1>1. /\ \A i \in Identities : member[i] \in Seq(MembersFor(i))
      /\ \A i \in Identities : idents[i] # NoRow => Sound(i, idents[i]) /\ Attached(idents[i])
      /\ req # Idle => Sound(req.ident, req.row) /\ Attached(req.row)
      /\ req # Idle => req \in Request
  BY DEF SoundInv, RowsSound, RequestSound, TypeOK
<1>2. ASSUME NEW i \in Identities, NEW op, NEW row, NEW step, Load(i, op, row, step),
             Sound(i, row), Attached(row)
      PROVE  SoundInv'
  BY <1>1, <1>2, OutsideStage DEF Load
<1>3. ASSUME NEW i \in Identities, NEW name \in NamesFor(i), NEW zone \in ZonesFor(i),
             AddIdentity(i, name, zone)
      PROVE  SoundInv'
  <2> DEFINE row == [wanted |-> name, zone |-> zone, excluded |-> FALSE, active |-> NoMAC,
                     ip |-> NoIP, shown |-> NoName, synced |-> FALSE]
  <2>1. Sound(i, row) /\ Attached(row)
    BY DEF Sound, Attached
  <2>2. idents' = [idents EXCEPT ![i] = row] /\ UNCHANGED <<member, stage, req>>
    BY <1>3 DEF AddIdentity
  <2> HIDE DEF row
  <2>3. \A j \in Identities : idents'[j] # NoRow => Sound(j, idents'[j]) /\ Attached(idents'[j])
    BY <1>1, <2>1, <2>2 DEF TypeOK
  <2>4. QED
    BY <1>1, <2>2, <2>3, OutsideStage
<1>4. ASSUME NEW i \in Identities, NEW name \in NamesFor(i), NEW zone \in ZonesFor(i),
             NEW excluded \in BOOLEAN, EditIdentity(i, name, zone, excluded)
      PROVE  SoundInv'
  <2> DEFINE row == Edited(idents[i], name, zone, excluded)
  <2>1. idents[i] \in IdentityRow /\ Sound(i, idents[i]) /\ Attached(idents[i])
    BY <1>1, <1>4 DEF EditIdentity, TypeOK
  <2>2. /\ row.wanted = name /\ row.zone = zone /\ row.active = idents[i].active
        /\ row.shown = idents[i].shown /\ row.ip = idents[i].ip /\ row.synced = idents[i].synced
    BY <2>1 DEF Edited, IdentityRow
  <2>3. Load(i, "edit", row, "row")
    BY <1>4 DEF EditIdentity
  <2> HIDE DEF row
  <2>4. Sound(i, row) /\ Attached(row)
    BY <2>1, <2>2 DEF Sound, Attached
  <2>5. QED
    BY <1>2, <2>3, <2>4
<1>5. ASSUME NEW i \in Identities, DeleteIdentity(i)
      PROVE  SoundInv'
  BY <1>1, <1>2, <1>5 DEF DeleteIdentity, Load
<1>6. CASE SaveEdit
  <2>1. /\ idents' = [idents EXCEPT ![req.ident] = req.row] /\ req' = Idle
        /\ req \in Request /\ Sound(req.ident, req.row) /\ Attached(req.row)
        /\ UNCHANGED <<member, stage>>
    BY <1>1, <1>6 DEF SaveEdit
  <2>2. \A j \in Identities : idents'[j] # NoRow => Sound(j, idents'[j]) /\ Attached(idents'[j])
    BY <1>1, <2>1 DEF TypeOK, Request
  <2>3. QED
    BY <1>1, <2>1, <2>2, OutsideStage
<1>7. CASE TakeDown
  <2>1. req' = [req EXCEPT !.step = "members"] /\ req \in Request /\ UNCHANGED <<idents, member, stage>>
    BY <1>1, <1>7 DEF TakeDown, Deleting
  <2>2. req'.ident = req.ident /\ req'.row = req.row /\ req # Idle
    BY <1>7, <2>1 DEF TakeDown, Deleting, Request
  <2>3. QED
    BY <1>1, <2>1, <2>2, OutsideStage
<1>8. CASE DropMembers
  <2>1. /\ req' = [req EXCEPT !.step = "row"] /\ req \in Request /\ UNCHANGED <<idents, stage>>
        /\ member' = [member EXCEPT ![req.ident] = <<>>]
    BY <1>1, <1>8 DEF DropMembers, Deleting
  <2>2. req'.ident = req.ident /\ req'.row = req.row /\ req # Idle
    BY <1>8, <2>1 DEF DropMembers, Deleting, Request
  <2>3. \A i \in Identities : member'[i] \in Seq(MembersFor(i))
    BY <1>1, <2>1, EmptySeq DEF TypeOK
  <2>4. QED
    BY <1>1, <2>1, <2>2, <2>3, OutsideStage
<1>9. CASE Drop
  <2>1. /\ idents' = [idents EXCEPT ![req.ident] = NoRow] /\ req' = Idle
        /\ UNCHANGED <<member, stage>>
    BY <1>9 DEF Drop
  <2>2. \A j \in Identities : idents'[j] # NoRow => Sound(j, idents'[j]) /\ Attached(idents'[j])
    BY <1>1, <2>1 DEF TypeOK
  <2>3. QED
    BY <1>1, <2>1, <2>2, OutsideStage
<1>10. QED
  BY <1>3, <1>4, <1>5, <1>6, <1>7, <1>8, <1>9 DEF Edits

LEMMA MemberEditsSound ==
    ASSUME TypeOK, SoundInv, MemberEdits
    PROVE  SoundInv' /\ UNCHANGED <<idents, born, dns, stage, req, world>>
<1>1. PICK i \in Identities : \E m \in MembersFor(i) :
        \/ \E k \in 1 .. Len(member[i]) + 1 : AddMember(i, m, k)
        \/ \E k \in 1 .. Len(member[i]) : EditMember(i, m, k)
        \/ DeleteMember(i, m)
  BY DEF MemberEdits
<1>2. \A j \in Identities : member[j] \in Seq(MembersFor(j))
  BY DEF SoundInv, RowsSound
<1>3. /\ member'[i] \in Seq(MembersFor(i)) /\ member' = [member EXCEPT ![i] = member'[i]]
      /\ UNCHANGED <<idents, born, dns, stage, req, world>>
  BY <1>1, <1>2, MemberSeqs DEF TypeOK
<1>4. \A j \in Identities : member'[j] \in Seq(MembersFor(j))
  BY <1>2, <1>3 DEF TypeOK
<1>5. SoundInv'
  BY <1>3, <1>4, OutsideStage DEF SoundInv, RowsSound, RequestSound
<1>6. QED
  BY <1>3, <1>5

LEMMA InitSound ==
    ASSUME Init
    PROVE  SoundInv
<1>1. \A i \in Identities : <<>> \in Seq(MembersFor(i))
  BY EmptySeq
<1>2. QED
  BY <1>1 DEF Init, SoundInv, RowsSound, StageSound, RequestSound, AtRest, Nothing

LEMMA NextSound ==
    ASSUME MembersApart, DeletesWork, TypeOK, SoundInv, [Next]_vars
    PROVE  SoundInv'
<1>1. CASE Stage
  <2>1. steady.lease \in Leases /\ steady.dead \in SUBSET Silent
    BY DEF TypeOK
  <2>2. QED
    BY <1>1, <2>1, BeginStageSound, ApplySound, EndStageSound DEF Stage
<1>2. CASE Edits \/ MemberEdits
  BY <1>2, EditsSound, MemberEditsSound
<1>3. CASE CalmDown \/ UNCHANGED vars
  <2>1. UNCHANGED <<idents, member, stage, req>>
    BY <1>3 DEF CalmDown, vars
  <2>2. QED
    BY <2>1, OutsideStage DEF SoundInv, RowsSound, RequestSound
<1>4. QED
  BY <1>1, <1>2, <1>3 DEF Next

(* Taking an identity's record down when it is deleted takes at most the   *)
(* record it wants to have.                                                *)
LEMMA TakeDownEffect ==
    ASSUME TypeOK, SoundInv, TakeDown
    PROVE  /\ dns' \subseteq dns
           /\ \A r \in dns : r \in dns' \/ r.host \in NamesFor(req.ident)
           /\ \A r \in dns : r \in dns' \/ r.zone \in ZonesFor(req.ident)
           /\ req \in Request /\ req # Idle /\ req.op = "delete" /\ req.step = "dns"
           /\ req' \in Request /\ req' # Idle /\ req'.op = "delete" /\ req'.step = "members"
           /\ req'.ident = req.ident /\ req'.row = req.row
           /\ UNCHANGED <<idents, born, member, stage>>
<1> DEFINE ch == [Withdraw(req.row) EXCEPT !.oldHost = req.row.wanted]
           old == Rec(ch.oldHost, ch.oldZone, ch.oldIP)
<1>1. req \in Request /\ req # Idle /\ req.op = "delete" /\ req.step = "dns"
  BY DEF TakeDown, Deleting, TypeOK
<1>2. Sound(req.ident, req.row) /\ Attached(req.row)
  BY <1>1 DEF SoundInv, RequestSound
<1>3. /\ ch.kind = "delete" /\ ch.oldHost = req.row.wanted /\ ch.oldZone = req.row.zone
      /\ ch.oldIP = req.row.ip
  BY DEF Withdraw
<1>4. ch \in AnyChange
  BY <1>1 DEF Request, IdentityRow, Withdraw, AnyChange, AnyName, AnyIP
<1>5. \/ dns' = dns
      \/ req.row.synced /\ dns' \in Succeeded(dns, ch) \cup Failed(dns, ch)
  BY DEF TakeDown
<1> HIDE DEF ch
<1>6. dns' \subseteq dns /\ \A r \in dns : r \in dns' \/ r = old
  <2>1. CASE dns' = dns
    BY <2>1
  <2>2. CASE req.row.synced /\ dns' \in Succeeded(dns, ch) \cup Failed(dns, ch)
    <3>1. PICK ok \in BOOLEAN : dns' \in IF ok THEN Succeeded(dns, ch) ELSE Failed(dns, ch)
      BY <2>2
    <3>2. ch.kind # "create" => ch.oldIP # NoIP
      BY <1>2, <1>3, <2>2 DEF Attached, Sound
    <3>3. dns \in SUBSET ARecord
      BY DEF TypeOK, ARecord
    <3>4. /\ dns' \subseteq dns \cup (IF ch.kind = "delete" THEN {} ELSE {Rec(ch.host, ch.zone, ch.ip)})
          /\ \A r \in dns :
                \/ r \in dns'
                \/ ch.kind = "create" /\ r.host = ch.host /\ r.zone = ch.zone
                \/ ch.kind # "create" /\ r = Rec(ch.oldHost, ch.oldZone, ch.oldIP)
      BY <1>4, <3>1, <3>2, <3>3, CallEffect
    <3>5. QED
      BY <1>3, <3>4
  <2>3. QED
    BY <1>5, <2>1, <2>2
<1>7. old.host \in NamesFor(req.ident) /\ old.zone \in ZonesFor(req.ident)
  BY <1>2, <1>3 DEF Sound, Rec
<1>8. /\ req' = [req EXCEPT !.step = "members"]
      /\ UNCHANGED <<idents, born, member, stage>>
  BY DEF TakeDown
<1>9. /\ req' \in Request /\ req'.op = "delete" /\ req'.step = "members"
      /\ req'.ident = req.ident /\ req'.row = req.row
  BY <1>1, <1>8 DEF Request
<1>10. QED
  BY <1>1, <1>6, <1>7, <1>8, <1>9, NullAssumption

(* No step touches a record of somebody else.                              *)
LEMMA NextForeign ==
    ASSUME MembersApart, ForeignApart, TypeOK, SoundInv, ForeignStays, [Next]_vars
    PROVE  ForeignStays'
<1>1. ASSUME NEW i \in Identities, NEW ok \in BOOLEAN, Apply(i, ok)
      PROVE  ForeignStays'
  <2>1. change[i] \in AnyChange /\ ChangeSound(i, change[i])
    BY <1>1 DEF Apply, TypeOK, SoundInv, StageSound
  <2>2. dns' \in (IF ok THEN Succeeded(dns, change[i]) ELSE Failed(dns, change[i]))
    BY <1>1 DEF Apply
  <2>3. change[i].kind # "create" => change[i].oldIP # NoIP
    BY <2>1 DEF ChangeSound
  <2>4. dns \in SUBSET ARecord
    BY DEF TypeOK, ARecord
  <2>5. \A r \in dns :
          \/ r \in dns'
          \/ change[i].kind = "create" /\ r.host = change[i].host /\ r.zone = change[i].zone
          \/ change[i].kind # "create" /\ r = Rec(change[i].oldHost, change[i].oldZone, change[i].oldIP)
    BY <2>1, <2>2, <2>3, <2>4, CallEffect
  <2>6. \A r \in dns : r \in dns' \/ (r.host \in NamesFor(i) /\ r.zone \in ZonesFor(i))
    BY <2>1, <2>5 DEF ChangeSound, Rec
  <2>7. QED
    BY <2>6 DEF ForeignStays, ForeignApart
<1>2. CASE TakeDown
  <2>1. req.ident \in Identities
    BY <1>2, TakeDownEffect DEF Request
  <2>2. \A r \in dns : r \in dns' \/ (r.host \in NamesFor(req.ident) /\ r.zone \in ZonesFor(req.ident))
    BY <1>2, TakeDownEffect
  <2>3. QED
    BY <2>1, <2>2 DEF ForeignStays, ForeignApart
<1>3. CASE UNCHANGED dns
  BY <1>3 DEF ForeignStays
<1>4. QED
  <2>1. Next => (\E i \in Identities, ok \in BOOLEAN : Apply(i, ok)) \/ TakeDown \/ UNCHANGED dns
    BY DEF Next, Stage, BeginStage, EndStage, Edits, AddIdentity, EditIdentity, DeleteIdentity, Load,
           SaveEdit, DropMembers, Drop, MemberEdits, AddMember, EditMember, DeleteMember, CalmDown
  <2>2. QED
    BY <1>1, <1>2, <1>3, <2>1 DEF vars

(* No change of an identity ever touches a record that is not its own: in  *)
(* any zones, with edits at any time, failed creations and updates and     *)
(* lost answers, as long as the stage's deletes get through.               *)
THEOREM ForeignUntouched ==
    ASSUME MembersApart, ForeignApart, DeletesWork
    PROVE  Spec => []ForeignStays
<1>1. Init => TypeOK /\ SoundInv /\ ForeignStays
  BY InitSound, InitTypes DEF Init, ForeignStays
<1>2. (TypeOK /\ SoundInv /\ ForeignStays) /\ [Next]_vars => (TypeOK /\ SoundInv /\ ForeignStays)'
  BY NextTypes, NextSound, NextForeign
<1>3. QED
  BY <1>1, <1>2, PTL DEF Spec

-----------------------------------------------------------------------------
(* Records are where the rows say, when edits wait for the stage to end.   *)

(* What netreg last noted is sound.                                        *)
LEMMA TruthSound ==
    ASSUME TypeOK, SoundInv, NEW i \in Identities, Truth(i) # NoRow
    PROVE  /\ Sound(i, Truth(i)) /\ Attached(Truth(i))
           /\ Truth(i).synced => Location(Truth(i)).host \in NamesFor(i)
<1>1. Sound(i, Truth(i)) /\ Attached(Truth(i))
  BY FinalSound DEF Truth, SoundInv, RowsSound
<1>2. QED
  BY <1>1 DEF Sound, Attached, Location, Rec

(* Starting the stage changes none of it.                                  *)
LEMMA BeginStageTruth ==
    ASSUME TypeOK, LocatedInv, ~EditsOverlap, NEW lease \in Leases, NEW dead \in SUBSET Silent,
           BeginStage(lease, dead)
    PROVE  /\ \A i \in Identities : Truth(i)' = Truth(i)
           /\ UNCHANGED dns /\ req = Idle /\ req' = Idle
           /\ ChangesFit' /\ RequestFits'
<1>1. /\ phase = "idle" /\ phase' = "apply" /\ req = Idle
      /\ UNCHANGED <<idents, dns, outcome, req>>
  BY DEF BeginStage
<1>2. /\ \A i \in Identities :
            change'[i] = NoRow /\ copy'[i] # NoRow => copy'[i] = idents[i] /\ key'[i] = NoMAC
      /\ \A i \in Identities : copy'[i] # NoRow => idents[i] # NoRow
      /\ \A i \in Identities : change'[i] # NoRow =>
            LET ch == change'[i]
            IN /\ ch.kind = "create" <=> ~idents[i].synced
               /\ ch.kind # "create" =>
                     Rec(ch.oldHost, ch.oldZone, ch.oldIP) = Location(idents[i])
               /\ ch.kind # "delete" => Rec(ch.host, ch.zone, ch.ip) = Location(copy'[i])
  BY BeginStageSound DEF LocatedInv
<1>3. \A i \in Identities : Truth(i)' = Truth(i)
  BY <1>1, <1>2 DEF Truth, Final
<1>4. ChangesFit'
  BY <1>1, <1>2 DEF ChangesFit, Location
<1>5. RequestFits'
  BY <1>1 DEF RequestFits
<1>6. QED
  BY <1>1, <1>3, <1>4, <1>5

(* Applying a change gives its identity the location of the copy, and      *)
(* leaves the others where they are.                                       *)
LEMMA ApplyTruth ==
    ASSUME MembersApart, DeletesWork, TypeOK, LocatedInv,
           NEW i \in Identities, NEW ok \in BOOLEAN, Apply(i, ok)
    PROVE  /\ \A j \in Identities \ {i} : Truth(j)' = Truth(j)
           /\ Truth(i) = idents[i] /\ idents[i] # NoRow
           /\ Truth(i)' # NoRow
           /\ Location(Truth(i)') = Location(copy[i])
           /\ Truth(i)'.synced <=> ok /\ change[i].kind # "delete"
           /\ req = Idle /\ req' = Idle
           /\ ChangesFit' /\ RequestFits'
<1>1. /\ phase = "apply" /\ change[i] # NoRow /\ change[i] \in AnyChange
      /\ ChangeSound(i, change[i])
      /\ SoundInv
  BY DEF Apply, TypeOK, LocatedInv, SoundInv, StageSound
<1>2. /\ change[i].kind = "delete" => ok
      /\ \A j \in Identities \ {i} : key[j] # NoMAC => outcome'[key[j]] = outcome[key[j]]
  BY <1>1, ApplySound
<1>3. /\ change' = [change EXCEPT ![i] = NoRow]
      /\ outcome' = [outcome EXCEPT ![key[i]] = OutcomeOf(change[i], ok)]
      /\ UNCHANGED <<idents, phase, copy, key, req>>
  BY <1>1 DEF Apply, ChangeSound
<1>4. copy[i] # NoRow /\ copy[i] \in IdentityRow /\ key[i] # NoMAC /\ key[i] \in MACs
  BY <1>1 DEF ChangeSound, TypeOK, AnyChange
<1>5. change'[i] = NoRow /\ outcome'[key[i]] = OutcomeOf(change[i], ok)
  BY <1>3, <1>4 DEF TypeOK
<1>6. Final(i)' = [copy[i] EXCEPT !.synced = outcome'[key[i]] = "present"]
  <2>1. outcome'[key[i]] # "none"
    BY <1>5 DEF OutcomeOf
  <2>2. QED
    BY <1>3, <1>4, <2>1 DEF Final
<1>7. Truth(i)' = Final(i)'
  BY <1>1, <1>3, <1>4, <1>5 DEF Truth
<1>8. Truth(i)' # NoRow /\ Location(Truth(i)') = Location(copy[i])
  <2>1. \A mark \in BOOLEAN :
            /\ [copy[i] EXCEPT !.synced = mark] \in IdentityRow
            /\ Location([copy[i] EXCEPT !.synced = mark]) = Location(copy[i])
    BY <1>4 DEF IdentityRow, Location
  <2>2. QED
    BY <1>6, <1>7, <2>1, NullAssumption
<1>9. Truth(i)'.synced <=> ok /\ change[i].kind # "delete"
  <2>1. Truth(i)'.synced <=> outcome'[key[i]] = "present"
    BY <1>4, <1>6, <1>7 DEF IdentityRow
  <2>2. OutcomeOf(change[i], ok) = "present" <=> ok /\ change[i].kind # "delete"
    BY <1>2 DEF OutcomeOf
  <2>3. QED
    BY <1>5, <2>1, <2>2
<1>10. \A j \in Identities \ {i} : change'[j] = change[j] /\ Truth(j)' = Truth(j)
  BY <1>2, <1>3 DEF TypeOK, Truth, Final
<1>11. Truth(i) = idents[i] /\ idents[i] # NoRow
  BY <1>1, <1>4 DEF Truth, LocatedInv, ChangesFit
<1>12. req = Idle
  BY <1>1 DEF LocatedInv, RequestFits
<1>13. ChangesFit'
  BY <1>3, <1>5, <1>10 DEF LocatedInv, ChangesFit, Location
<1>14. RequestFits'
  BY <1>3, <1>12 DEF RequestFits
<1>15. QED
  BY <1>3, <1>8, <1>9, <1>10, <1>11, <1>12, <1>13, <1>14

LEMMA EndStageTruth ==
    ASSUME TypeOK, LocatedInv, EndStage
    PROVE  /\ \A i \in Identities : Truth(i)' = Truth(i) /\ (idents'[i] # NoRow => idents[i] # NoRow)
           /\ UNCHANGED dns /\ req = Idle /\ req' = Idle
           /\ ChangesFit' /\ RequestFits'
<1>1. /\ change = Nothing /\ phase = "apply" /\ phase' = "idle"
      /\ idents' = [i \in Identities |-> IF copy[i] = NoRow THEN idents[i] ELSE Final(i)]
      /\ copy' = Nothing /\ UNCHANGED <<change, dns, req>>
  BY DEF EndStage
<1>2. req = Idle
  BY <1>1 DEF LocatedInv, RequestFits
<1>3. QED
  BY <1>1, <1>2 DEF Truth, Nothing, LocatedInv, ChangesFit, RequestFits

(* Nothing of it changes when nothing of it is touched.                    *)
LEMMA SameTruth ==
    ASSUME UNCHANGED <<idents, stage>>
    PROVE  /\ \A i \in Identities : Truth(i)' = Truth(i)
           /\ ChangesFit => ChangesFit'
BY DEF stage, Truth, Final, ChangesFit, Location

(* A change that is applied leaves every row's record where the row says.  *)
LEMMA ApplyLocated ==
    ASSUME NamesApart, MembersApart, DeletesWork, TypeOK, LocatedInv,
           NEW i \in Identities, NEW ok \in BOOLEAN, Apply(i, ok)
    PROVE  Located'
<1> DEFINE old == Rec(change[i].oldHost, change[i].oldZone, change[i].oldIP)
           new == Rec(change[i].host, change[i].zone, change[i].ip)
<1>1. /\ \A j \in Identities \ {i} : Truth(j)' = Truth(j)
      /\ Location(Truth(i)') = Location(copy[i])
      /\ Truth(i)'.synced <=> ok /\ change[i].kind # "delete"
      /\ req = Idle
  BY ApplyTruth
<1>2. change[i] \in AnyChange /\ change[i] # NoRow /\ ChangeSound(i, change[i])
  BY DEF Apply, TypeOK, LocatedInv, SoundInv, StageSound
<1>3. /\ \A r \in dns :
            \/ r \in dns'
            \/ change[i].kind = "create" /\ r.host = change[i].host /\ r.zone = change[i].zone
            \/ change[i].kind # "create" /\ r = old
      /\ ok /\ change[i].kind # "delete" => new \in dns'
  <2>1. dns' \in (IF ok THEN Succeeded(dns, change[i]) ELSE Failed(dns, change[i]))
    BY DEF Apply
  <2>2. change[i].kind # "create" => change[i].oldIP # NoIP
    BY <1>2 DEF ChangeSound
  <2>3. dns \in SUBSET ARecord
    BY DEF TypeOK, ARecord
  <2>4. QED
    BY <1>2, <2>1, <2>2, <2>3, CallEffect
<1>4. \A r \in dns : r \in dns' \/ r.host \in NamesFor(i)
  BY <1>2, <1>3 DEF ChangeSound, Rec
<1>5. Truth(i)'.synced => Location(Truth(i)') \in dns'
  BY <1>1, <1>2, <1>3 DEF LocatedInv, ChangesFit
<1>6. ASSUME NEW j \in Identities \ {i}, Truth(j) # NoRow, Truth(j).synced
      PROVE  Location(Truth(j)) \in dns'
  <2>1. Location(Truth(j)) \in dns
    BY <1>1, <1>6 DEF LocatedInv, Located, Going, Deleting
  <2>2. Location(Truth(j)).host \in NamesFor(j)
    BY <1>6, TruthSound DEF LocatedInv
  <2>3. QED
    BY <1>4, <2>1, <2>2 DEF NamesApart
<1>7. QED
  BY <1>1, <1>5, <1>6 DEF Located

(* Between two stages, what was last noted is the table, and a step that   *)
(* leaves the server and the other rows alone has to answer for one row.   *)
LEMMA EditLocated ==
    ASSUME TypeOK, LocatedInv, phase = "idle", UNCHANGED <<stage, dns>>,
           NEW i \in Identities,
           \A j \in Identities \ {i} : idents'[j] = idents[j] /\ (Going(j) => Going(j)'),
           idents'[i] # NoRow /\ idents'[i].synced /\ ~Going(i)' =>
               Location(idents'[i]) \in dns
    PROVE  Located' /\ ChangesFit'
<1>1. \A j \in Identities : Truth(j) = idents[j] /\ Truth(j)' = idents'[j]
  BY DEF Truth, stage
<1>2. change' = Nothing /\ copy' = Nothing
  BY DEF LocatedInv, SoundInv, AtRest, stage
<1>3. ChangesFit'
  BY <1>2 DEF ChangesFit, Nothing
<1>4. Located'
  BY <1>1 DEF Located, LocatedInv
<1>5. QED
  BY <1>3, <1>4

(* What a request loads fits the table, with the form's fields changed:    *)
(* the zone has to be the old one.                                         *)
LEMMA LoadLocated ==
    ASSUME TypeOK, LocatedInv, phase = "idle",
           NEW i \in Identities, NEW op, NEW row, NEW step, Load(i, op, row, step),
           row.synced = idents[i].synced, Location(row) = Location(idents[i])
    PROVE  Located' /\ ChangesFit' /\ RequestFits' /\ Born'
<1>1. /\ req = Idle /\ idents[i] # NoRow
      /\ req' = [op |-> op, ident |-> i, row |-> row, step |-> step]
      /\ UNCHANGED <<idents, born, dns, stage>>
  BY DEF Load
<1>2. /\ \A j \in Identities : ~Going(j)
      /\ idents[i].synced => Location(idents[i]) \in dns
  BY <1>1 DEF Going, Deleting, LocatedInv, Located, Truth
<1>3. Located' /\ ChangesFit'
  BY <1>1, <1>2, EditLocated
<1>4. RequestFits'
  BY <1>1 DEF RequestFits, stage
<1>5. QED
  BY <1>1, <1>3, <1>4 DEF Born, LocatedInv

LEMMA TakeDownLocated ==
    ASSUME NamesApart, TypeOK, LocatedInv, phase = "idle", TakeDown
    PROVE  Located' /\ ChangesFit' /\ RequestFits' /\ Born'
<1>1. /\ \A r \in dns : r \in dns' \/ r.host \in NamesFor(req.ident)
      /\ req \in Request /\ req # Idle /\ req.step = "dns"
      /\ req' # Idle /\ req'.op = "delete" /\ req'.step = "members"
      /\ req'.ident = req.ident /\ req'.row = req.row
      /\ UNCHANGED <<idents, born, stage>>
  BY TakeDownEffect DEF LocatedInv
<1>2. /\ req.ident \in Identities
      /\ \A j \in Identities : ~Going(j) /\ (j = req.ident => Going(j)')
  BY <1>1 DEF Request, Going, Deleting
<1>3. \A j \in Identities : Truth(j) = idents[j] /\ Truth(j)' = idents[j]
  BY <1>1 DEF Truth, stage
<1>4. ASSUME NEW j \in Identities \ {req.ident}, idents[j] # NoRow, idents[j].synced
      PROVE  Location(idents[j]) \in dns'
  <2>1. Location(idents[j]) \in dns /\ Location(idents[j]).host \in NamesFor(j)
    BY <1>2, <1>3, <1>4, TruthSound DEF LocatedInv, Located
  <2>2. QED
    BY <1>1, <1>2, <2>1 DEF NamesApart
<1>5. Located'
  BY <1>2, <1>3, <1>4 DEF Located
<1>6. ChangesFit' /\ RequestFits' /\ Born'
  BY <1>1 DEF LocatedInv, ChangesFit, RequestFits, Born, stage, Location
<1>7. QED
  BY <1>5, <1>6

LEMMA EditsLocated ==
    ASSUME NamesApart, ZonesFixed, ~EditsOverlap, TypeOK, LocatedInv, Edits
    PROVE  Located' /\ ChangesFit' /\ RequestFits' /\ Born'
<1>1. /\ phase = "idle" /\ RequestFits /\ Born
      /\ req # Idle => req \in Request
      /\ \A i \in Identities : Truth(i) = idents[i]
      /\ \A i \in Identities :
            idents[i] # NoRow /\ idents[i].synced /\ ~Going(i) => Location(idents[i]) \in dns
  BY DEF Edits, LocatedInv, Located, Truth, TypeOK
<1>2. ASSUME NEW i \in Identities, NEW name \in NamesFor(i), NEW zone \in ZonesFor(i),
             AddIdentity(i, name, zone)
      PROVE  Located' /\ ChangesFit' /\ RequestFits' /\ Born'
  <2> DEFINE row == [wanted |-> name, zone |-> zone, excluded |-> FALSE, active |-> NoMAC,
                     ip |-> NoIP, shown |-> NoName, synced |-> FALSE]
  <2>1. /\ idents' = [idents EXCEPT ![i] = row] /\ ~row.synced
        /\ i \notin born /\ born' = born \cup {i}
        /\ UNCHANGED <<dns, stage, req>>
    BY <1>2 DEF AddIdentity
  <2> HIDE DEF row
  <2>2. /\ \A j \in Identities \ {i} : idents'[j] = idents[j]
        /\ idents'[i] = row
    BY <2>1 DEF TypeOK
  <2>3. Located' /\ ChangesFit'
    BY <1>1, <2>1, <2>2, EditLocated DEF Going, Deleting
  <2>4. RequestFits'
    BY <1>1, <2>1, <2>2 DEF RequestFits, Born, Request, stage
  <2>5. Born'
    BY <1>1, <2>1, <2>2 DEF Born
  <2>6. QED
    BY <2>3, <2>4, <2>5
<1>3. ASSUME NEW i \in Identities, NEW name \in NamesFor(i), NEW zone \in ZonesFor(i),
             NEW excluded \in BOOLEAN, EditIdentity(i, name, zone, excluded)
      PROVE  Located' /\ ChangesFit' /\ RequestFits' /\ Born'
  <2> DEFINE row == Edited(idents[i], name, zone, excluded)
  <2>1. idents[i] # NoRow /\ Load(i, "edit", row, "row")
    BY <1>3 DEF EditIdentity
  <2>2. idents[i] \in IdentityRow /\ idents[i].zone \in ZonesFor(i)
    BY <2>1 DEF TypeOK, LocatedInv, SoundInv, RowsSound, Sound
  <2>3. /\ row.shown = idents[i].shown /\ row.ip = idents[i].ip /\ row.zone = idents[i].zone
        /\ row.synced = idents[i].synced
    BY <2>2 DEF Edited, IdentityRow, ZonesFixed
  <2> HIDE DEF row
  <2>4. QED
    BY <1>1, <2>1, <2>3, LoadLocated DEF Location
<1>4. ASSUME NEW i \in Identities, DeleteIdentity(i)
      PROVE  Located' /\ ChangesFit' /\ RequestFits' /\ Born'
  BY <1>1, <1>4, LoadLocated DEF DeleteIdentity
<1>5. CASE SaveEdit
  <2>1. /\ req # Idle /\ req.op = "edit" /\ req \in Request
        /\ idents' = [idents EXCEPT ![req.ident] = req.row] /\ req' = Idle
        /\ UNCHANGED <<born, dns, stage>>
    BY <1>1, <1>5 DEF SaveEdit
  <2>2. req.ident \in Identities /\ \A j \in Identities : ~Going(j)
    BY <2>1 DEF Request, Going, Deleting
  <2>3. /\ idents'[req.ident] = req.row /\ idents[req.ident] # NoRow
        /\ \A j \in Identities \ {req.ident} : idents'[j] = idents[j]
    BY <1>1, <2>1, <2>2 DEF TypeOK, RequestFits
  <2>4. req.row.synced => Location(req.row) \in dns
    BY <1>1, <2>1, <2>2, <2>3 DEF RequestFits
  <2>5. Located' /\ ChangesFit'
    BY <1>1, <2>1, <2>2, <2>3, <2>4, EditLocated
  <2>6. RequestFits' /\ Born'
    BY <1>1, <2>1, <2>2, <2>3 DEF RequestFits, Born
  <2>7. QED
    BY <2>5, <2>6
<1>6. CASE TakeDown
  BY <1>1, <1>6, TakeDownLocated
<1>7. CASE DropMembers
  <2>1. /\ req # Idle /\ req.op = "delete" /\ req \in Request /\ req.step = "members"
        /\ req' = [req EXCEPT !.step = "row"]
        /\ UNCHANGED <<idents, born, dns, stage>>
    BY <1>1, <1>7 DEF DropMembers, Deleting
  <2>2. req' \in Request /\ req'.op = "delete" /\ req'.ident = req.ident /\ req'.step = "row" /\ req'.row = req.row
    BY <2>1 DEF Request
  <2>3. req.ident \in Identities /\ \A j \in Identities : Going(j) <=> Going(j)'
    BY <2>1, <2>2, NullAssumption DEF Request, Going, Deleting
  <2>4. Located' /\ ChangesFit'
    BY <1>1, <2>1, <2>3, EditLocated
  <2>5. RequestFits' /\ Born'
    BY <1>1, <2>1, <2>2 DEF RequestFits, Born, stage
  <2>6. QED
    BY <2>4, <2>5
<1>8. CASE Drop
  <2>1. /\ req # Idle /\ req.op = "delete" /\ req \in Request /\ req.step = "row"
        /\ idents' = [idents EXCEPT ![req.ident] = NoRow] /\ req' = Idle
        /\ UNCHANGED <<born, dns, stage>>
    BY <1>1, <1>8 DEF Drop, Deleting
  <2>2. /\ req.ident \in Identities /\ idents'[req.ident] = NoRow
        /\ \A j \in Identities \ {req.ident} : idents'[j] = idents[j] /\ ~Going(j)
    BY <2>1 DEF TypeOK, Request, Going
  <2>3. Located' /\ ChangesFit'
    BY <1>1, <2>1, <2>2, EditLocated
  <2>4. RequestFits' /\ Born'
    BY <1>1, <2>1, <2>2 DEF RequestFits, Born
  <2>5. QED
    BY <2>3, <2>4
<1>9. QED
  BY <1>2, <1>3, <1>4, <1>5, <1>6, <1>7, <1>8 DEF Edits

LEMMA NextLocated ==
    ASSUME NamesApart, MembersApart, ZonesFixed, DeletesWork, ~EditsOverlap,
           TypeOK, LocatedInv, [Next]_vars
    PROVE  LocatedInv'
<1>1. SoundInv'
  BY NextSound DEF LocatedInv
<1>2. ASSUME NEW lease \in Leases, NEW dead \in SUBSET Silent, BeginStage(lease, dead)
      PROVE  Located' /\ ChangesFit' /\ RequestFits' /\ Born'
  <2>1. /\ \A i \in Identities : Truth(i)' = Truth(i)
        /\ UNCHANGED dns /\ req = Idle /\ req' = Idle
        /\ ChangesFit' /\ RequestFits'
    BY <1>2, BeginStageTruth
  <2>2. Located'
    BY <2>1 DEF LocatedInv, Located, Going, Deleting
  <2>3. Born'
    BY <1>2 DEF BeginStage, LocatedInv, Born
  <2>4. QED
    BY <2>1, <2>2, <2>3
<1>3. ASSUME NEW i \in Identities, NEW ok \in BOOLEAN, Apply(i, ok)
      PROVE  Located' /\ ChangesFit' /\ RequestFits' /\ Born'
  <2>1. Born'
    BY <1>3 DEF Apply, LocatedInv, Born
  <2>2. QED
    BY <1>3, <2>1, ApplyTruth, ApplyLocated
<1>4. ASSUME EndStage
      PROVE  Located' /\ ChangesFit' /\ RequestFits' /\ Born'
  <2>1. /\ \A i \in Identities : Truth(i)' = Truth(i) /\ (idents'[i] # NoRow => idents[i] # NoRow)
        /\ UNCHANGED dns /\ req = Idle /\ req' = Idle
        /\ ChangesFit' /\ RequestFits'
    BY <1>4, EndStageTruth
  <2>2. Located'
    BY <2>1 DEF LocatedInv, Located, Going, Deleting
  <2>3. Born'
    BY <1>4, <2>1 DEF EndStage, LocatedInv, Born
  <2>4. QED
    BY <2>1, <2>2, <2>3
<1>5. ASSUME UNCHANGED <<idents, born, dns, stage, req>>
      PROVE  Located' /\ ChangesFit' /\ RequestFits' /\ Born'
  <2>1. \A i \in Identities : Truth(i)' = Truth(i) /\ (Going(i)' <=> Going(i))
    BY <1>5, SameTruth DEF Going, Deleting
  <2>2. Located'
    BY <1>5, <2>1 DEF LocatedInv, Located
  <2>3. ChangesFit'
    BY <1>5, SameTruth DEF LocatedInv
  <2>4. RequestFits' /\ Born'
    BY <1>5 DEF LocatedInv, RequestFits, Born, stage, Location
  <2>5. QED
    BY <2>2, <2>3, <2>4
<1>6. CASE Stage
  <2>1. steady.lease \in Leases /\ steady.dead \in SUBSET Silent
    BY DEF TypeOK
  <2>2. Located' /\ ChangesFit' /\ RequestFits' /\ Born'
    BY <1>2, <1>3, <1>4, <1>6, <2>1 DEF Stage
  <2>3. QED
    BY <1>1, <2>2 DEF LocatedInv
<1>7. CASE Edits
  BY <1>1, <1>7, EditsLocated DEF LocatedInv
<1>8. CASE MemberEdits \/ CalmDown \/ UNCHANGED vars
  <2>1. UNCHANGED <<idents, born, dns, stage, req>>
    BY <1>8, MemberEditsSound DEF LocatedInv, CalmDown, vars
  <2>2. QED
    BY <1>1, <1>5, <2>1 DEF LocatedInv
<1>9. QED
  BY <1>6, <1>7, <1>8 DEF Next

(* Once everybody is at rest, what was last noted is the table.            *)
LEMMA SettledTruth ==
    ASSUME Settled, NEW i \in Identities
    PROVE  Truth(i) = idents[i] /\ ~Going(i)
BY DEF Settled, Truth, Going, Deleting

LEMMA InitLocated ==
    ASSUME Init
    PROVE  LocatedInv
<1>1. SoundInv
  BY InitSound
<1>2. QED
  BY <1>1 DEF Init, Nothing, LocatedInv, Located, Truth, ChangesFit, RequestFits, Born

(* An identity whose row claims a record has it exactly where the row says *)
(* it is: with any member moving, failed creations and updates and answers *)
(* that get lost, as long as edits wait for the stage to end, the stage's  *)
(* deletes get through and no identity changes its zone.                   *)
THEOREM RecordsLocated ==
    ASSUME NamesApart, MembersApart, ZonesFixed, DeletesWork, ~EditsOverlap
    PROVE  Spec => []RecordLocated
<1>1. Init => TypeOK /\ LocatedInv
  BY InitTypes, InitLocated
<1>2. (TypeOK /\ LocatedInv) /\ [Next]_vars => (TypeOK /\ LocatedInv)'
  BY NextTypes, NextLocated
<1>3. TypeOK /\ LocatedInv => RecordLocated
  BY SettledTruth DEF LocatedInv, Located, RecordLocated
<1>4. QED
  BY <1>1, <1>2, <1>3, PTL DEF Spec

-----------------------------------------------------------------------------
(* And nowhere else, when answers are not lost and updates get through.    *)

(* A change leaves no other record of its identity, and none of another's. *)
LEMMA ApplyOnly ==
    ASSUME NamesApart, MembersApart, DeletesWork, UpdatesWork, ~LostReplies,
           TypeOK, OnlyInv, NEW i \in Identities, NEW ok \in BOOLEAN, Apply(i, ok)
    PROVE  Only' /\ Unborn'
<1> DEFINE ch == change[i]
           old == Rec(ch.oldHost, ch.oldZone, ch.oldIP)
           new == Rec(ch.host, ch.zone, ch.ip)
<1>1. /\ \A j \in Identities \ {i} : Truth(j)' = Truth(j)
      /\ Truth(i) = idents[i] /\ idents[i] # NoRow
      /\ Location(Truth(i)') = Location(copy[i])
      /\ Truth(i)'.synced <=> ok /\ ch.kind # "delete"
      /\ req = Idle
  BY ApplyTruth DEF OnlyInv
<1>2. ch \in AnyChange /\ ch # NoRow /\ ChangeSound(i, ch)
  BY DEF Apply, TypeOK, OnlyInv, LocatedInv, SoundInv, StageSound
<1>3. /\ ch.kind = "create" <=> ~idents[i].synced
      /\ ch.kind # "create" => old = Location(idents[i])
      /\ ch.kind # "delete" => new = Location(copy[i])
  BY <1>2 DEF OnlyInv, LocatedInv, ChangesFit
<1>4. ch.kind # "create" => old \in dns
  BY <1>1, <1>3 DEF OnlyInv, LocatedInv, Located, Going, Deleting
<1>5. \A r \in dns \ Foreign : r.host \in NamesFor(i) => ch.kind # "create" /\ r = old
  BY <1>1, <1>3 DEF OnlyInv, Only
<1>6. /\ ch.kind # "delete" => new.host \in NamesFor(i)
      /\ \A r : ~(r.host \in NamesFor(i) /\ \E j \in Identities \ {i} : r.host \in NamesFor(j))
  BY <1>2 DEF ChangeSound, Rec, NamesApart
<1>7. /\ ch.kind = "create" => Succeeded(dns, ch) = {(dns \ At(dns, ch.host, ch.zone)) \cup {new}}
      /\ ch.kind = "update" => Succeeded(dns, ch) = IF old \in dns THEN {(dns \ {old}) \cup {new}} ELSE {}
      /\ ch.kind = "delete" => Succeeded(dns, ch) = {dns \ {old}}
      /\ Failed(dns, ch) = {dns}
  <2>1. dns \in SUBSET ARecord /\ (ch.kind # "create" => ch.oldIP # NoIP)
    BY <1>2 DEF TypeOK, ARecord, ChangeSound
  <2>2. /\ ch.kind = "create" => Succeeded(dns, ch) = {(dns \ At(dns, ch.host, ch.zone)) \cup {new}}
        /\ ch.kind = "update" => Succeeded(dns, ch) = IF old \in dns THEN {(dns \ {old}) \cup {new}} ELSE {}
        /\ ch.kind = "delete" => Succeeded(dns, ch) = {dns \ {old}}
        /\ Failed(dns, ch) = {dns} \cup (IF LostReplies THEN Succeeded(dns, ch) ELSE {})
    BY <1>2, <2>1, Calls, Zenon
  <2> HIDE DEF ch, old, new
  <2>3. Failed(dns, ch) = {dns}
    BY <2>2
  <2>4. QED
    BY <2>2, <2>3, Zenon
<1>8. /\ ok => dns' \in Succeeded(dns, ch)
      /\ ~ok => /\ dns' \in Failed(dns, ch)
                /\ (MayFail /\ ch.kind \in FailKinds) \/ Refused(dns, ch)
      /\ UNCHANGED <<idents, born>>
  BY DEF Apply
<1>9. ch.kind \in {"create", "update", "delete"}
  BY <1>2 DEF AnyChange
<1> HIDE DEF ch, old, new
<1>10. /\ dns' \subseteq dns \cup (IF ch.kind = "delete" THEN {} ELSE {new})
       /\ ch.kind = "create" => ok \/ dns' = dns
       /\ ch.kind # "create" => ok /\ old \notin dns' \ {new}
       /\ ch.kind = "delete" => old \notin dns'
  <2>1. CASE ok /\ ch.kind = "create"
    BY <1>7, <1>8, <2>1
  <2>2. CASE ok /\ ch.kind = "update"
    BY <1>4, <1>7, <1>8, <2>2
  <2>3. CASE ok /\ ch.kind = "delete"
    BY <1>7, <1>8, <2>3
  <2>4. CASE ~ok
    <3>1. dns' = dns
      BY <1>7, <1>8, <2>4
    <3>2. ch.kind # "create" => Succeeded(dns, ch) # {}
      BY <1>4, <1>7, <1>9
    <3>3. ch.kind = "create"
      BY <1>8, <1>9, <2>4, <3>2 DEF DeletesWork, UpdatesWork, Refused
    <3>4. QED
      BY <3>1, <3>3
  <2>5. QED
    BY <1>9, <2>1, <2>2, <2>3, <2>4
<1>11. ASSUME NEW r \in dns' \ Foreign, r.host \in NamesFor(i)
       PROVE  Truth(i)'.synced /\ r = Location(Truth(i)')
  <2>1. CASE r \in dns
    <3>1. ch.kind # "create" /\ r = old
      BY <1>5, <1>11, <2>1
    <3>2. ok /\ ch.kind # "delete" /\ r = new
      BY <1>10, <3>1
    <3>3. QED
      BY <1>1, <1>3, <3>2
  <2>2. CASE r \notin dns
    <3>1. r = new /\ ch.kind # "delete" /\ ok
      BY <1>10, <2>2
    <3>2. QED
      BY <1>1, <1>3, <3>1
  <2>3. QED
    BY <2>1, <2>2
<1>12. ASSUME NEW j \in Identities \ {i}, NEW r \in dns' \ Foreign, r.host \in NamesFor(j)
       PROVE  r \in dns \ Foreign
  BY <1>6, <1>10, <1>12
<1>13. Only'
  BY <1>1, <1>11, <1>12 DEF OnlyInv, Only
<1>14. Unborn'
  BY <1>1, <1>8, <1>12 DEF OnlyInv, LocatedInv, Born, Unborn
<1>15. QED
  BY <1>13, <1>14

(* Between two stages, a step that adds no record and keeps the location   *)
(* of each row it does not add or drop leaves each record the row's.       *)
LEMMA EditOnly ==
    ASSUME OnlyInv, phase = "idle", UNCHANGED stage, dns' \subseteq dns, born \subseteq born',
           \A j \in Identities : idents'[j] # NoRow =>
               \/ j \notin born
               \/ /\ idents[j] # NoRow /\ idents'[j].synced = idents[j].synced
                  /\ Location(idents'[j]) = Location(idents[j])
    PROVE  Only' /\ Unborn'
<1>1. \A j \in Identities : Truth(j) = idents[j] /\ Truth(j)' = idents'[j]
  BY DEF Truth, stage
<1>2. Only'
  BY <1>1 DEF OnlyInv, Only, Unborn
<1>3. Unborn'
  BY DEF OnlyInv, Unborn
<1>4. QED
  BY <1>2, <1>3

LEMMA EditsOnly ==
    ASSUME ~EditsOverlap, TypeOK, OnlyInv, Edits
    PROVE  Only' /\ Unborn'
<1>1. phase = "idle" /\ LocatedInv /\ RequestFits /\ SoundInv /\ (req # Idle => req \in Request)
  BY DEF Edits, OnlyInv, LocatedInv, TypeOK
<1>2. ASSUME NEW i \in Identities, NEW name \in NamesFor(i), NEW zone \in ZonesFor(i),
             AddIdentity(i, name, zone)
      PROVE  Only' /\ Unborn'
  BY <1>1, <1>2, EditOnly DEF AddIdentity, TypeOK
<1>3. ASSUME UNCHANGED <<idents, born, dns, stage>>
      PROVE  Only' /\ Unborn'
  BY <1>1, <1>3, EditOnly
<1>4. CASE SaveEdit
  <2>1. /\ req # Idle /\ req \in Request /\ idents' = [idents EXCEPT ![req.ident] = req.row]
        /\ UNCHANGED <<born, dns, stage>>
    BY <1>1, <1>4 DEF SaveEdit
  <2>2. /\ idents[req.ident] # NoRow /\ req.row.synced = idents[req.ident].synced
        /\ Location(req.row) = Location(idents[req.ident])
    BY <1>1, <2>1 DEF RequestFits
  <2>3. \A j \in Identities : idents'[j] # NoRow =>
            /\ idents[j] # NoRow /\ idents'[j].synced = idents[j].synced
            /\ Location(idents'[j]) = Location(idents[j])
    BY <2>1, <2>2 DEF TypeOK, Request
  <2>4. QED
    BY <1>1, <2>1, <2>3, EditOnly
<1>5. CASE TakeDown
  <2>1. dns' \subseteq dns /\ UNCHANGED <<idents, born, stage>>
    BY <1>1, <1>5, TakeDownEffect
  <2>2. QED
    BY <1>1, <2>1, EditOnly
<1>6. CASE Drop
  <2>1. idents' = [idents EXCEPT ![req.ident] = NoRow] /\ UNCHANGED <<born, dns, stage>>
    BY <1>6 DEF Drop
  <2>2. \A j \in Identities : idents'[j] # NoRow => idents'[j] = idents[j]
    BY <2>1 DEF TypeOK
  <2>3. QED
    BY <1>1, <2>1, <2>2, EditOnly
<1>7. CASE DropMembers
  BY <1>3, <1>7 DEF DropMembers
<1>8. ASSUME NEW i \in Identities, NEW op, NEW row, NEW step, Load(i, op, row, step)
      PROVE  Only' /\ Unborn'
  BY <1>3, <1>8 DEF Load
<1>9. QED
  BY <1>2, <1>4, <1>5, <1>6, <1>7, <1>8 DEF Edits, EditIdentity, DeleteIdentity

LEMMA NextOnly ==
    ASSUME NamesApart, MembersApart, ZonesFixed, DeletesWork, UpdatesWork,
           ~LostReplies, ~EditsOverlap, TypeOK, OnlyInv, [Next]_vars
    PROVE  OnlyInv'
<1>1. LocatedInv'
  BY NextLocated DEF OnlyInv
<1>2. ASSUME \A i \in Identities : Truth(i)' = Truth(i), UNCHANGED <<dns, born>>
      PROVE  Only' /\ Unborn'
  BY <1>2 DEF OnlyInv, Only, Unborn
<1>3. ASSUME NEW lease \in Leases, NEW dead \in SUBSET Silent, BeginStage(lease, dead)
      PROVE  Only' /\ Unborn'
  <2>1. UNCHANGED <<dns, born>>
    BY <1>3 DEF BeginStage
  <2>2. QED
    BY <1>2, <1>3, <2>1, BeginStageTruth DEF OnlyInv
<1>4. ASSUME NEW i \in Identities, NEW ok \in BOOLEAN, Apply(i, ok)
      PROVE  Only' /\ Unborn'
  BY <1>4, ApplyOnly
<1>5. ASSUME EndStage PROVE Only' /\ Unborn'
  <2>1. UNCHANGED <<dns, born>>
    BY <1>5 DEF EndStage
  <2>2. QED
    BY <1>2, <1>5, <2>1, EndStageTruth DEF OnlyInv
<1>6. CASE Stage
  <2>1. steady.lease \in Leases /\ steady.dead \in SUBSET Silent
    BY DEF TypeOK
  <2>2. Only' /\ Unborn'
    BY <1>3, <1>4, <1>5, <1>6, <2>1 DEF Stage
  <2>3. QED
    BY <1>1, <2>2 DEF OnlyInv
<1>7. CASE Edits
  BY <1>1, <1>7, EditsOnly DEF OnlyInv
<1>8. CASE MemberEdits \/ CalmDown \/ UNCHANGED vars
  <2>1. UNCHANGED <<idents, born, dns, stage>>
    BY <1>8, MemberEditsSound DEF OnlyInv, LocatedInv, CalmDown, vars
  <2>2. Only' /\ Unborn'
    BY <1>2, <2>1, SameTruth
  <2>3. QED
    BY <1>1, <2>2 DEF OnlyInv
<1>9. QED
  BY <1>6, <1>7, <1>8 DEF Next

(* An identity has no record but the one its row claims: none at a name or *)
(* an address it had before, and none at all when the row claims none;     *)
(* creations may fail.                                                     *)
THEOREM OneRecordOnly ==
    ASSUME NamesApart, MembersApart, ZonesFixed, DeletesWork, UpdatesWork,
           ~LostReplies, ~EditsOverlap
    PROVE  Spec => []OneRecord
<1>1. Init => TypeOK /\ OnlyInv
  <2>1. Init => Only /\ Unborn
    BY DEF Init, Nothing, Only, Unborn, Truth
  <2>2. QED
    BY <2>1, InitTypes, InitLocated DEF OnlyInv
<1>2. (TypeOK /\ OnlyInv) /\ [Next]_vars => (TypeOK /\ OnlyInv)'
  BY NextTypes, NextOnly
<1>3. TypeOK /\ OnlyInv => OneRecord
  BY SettledTruth DEF OnlyInv, Only, OneRecord
<1>4. QED
  BY <1>1, <1>2, <1>3, PTL DEF Spec
=============================================================================
