---------------------------- MODULE IdentitySync ----------------------------
(***************************************************************************)
(* Identities: one DNS record shared by several MACs, pointing at the one  *)
(* that is up.  The cycle's identity stage loads every identity, selects   *)
(* its active member, applies at most one change per identity and saves    *)
(* every row it loaded in one transaction; the handlers edit and delete    *)
(* identities and their members beside it.                                 *)
(***************************************************************************)
EXTENDS DnsServer, SequencesExt

CONSTANTS
    Identities,       \* identity ids; an id is used once
    NamesFor(_),      \* the names an admin gives an identity
    ZonesFor(_),      \* and the zones
    MembersFor(_),    \* the MACs an admin adds to it
    Leases,           \* what member devices may hold: functions from MACs to addresses,
                      \* NoIP without a valid address, without a row or not seen lately
    Silent,           \* the addresses that may leave a probe unanswered
    FailKinds,        \* the kinds of change that may fail in a cycle
    EditsOverlap,     \* requests may overlap with the identity stage
    Foreign,          \* records that are none of netreg's
    NoMAC, Idle

ASSUME IdentityAssumption ==
    /\ \A i \in Identities :
          NamesFor(i) \subseteq Names /\ ZonesFor(i) \subseteq Zones /\ MembersFor(i) \subseteq MACs
    /\ Leases \subseteq [MACs -> AnyIP] /\ Leases # {}
    /\ Silent \subseteq IPs
    /\ FailKinds \subseteq {"create", "update", "delete"}
    /\ EditsOverlap \in BOOLEAN
    /\ Foreign \subseteq [host : AnyName, zone : Zones, ip : IPs]
    /\ NoMAC \notin MACs

VARIABLES
    idents,    \* the identities table
    born,      \* the ids ever given out
    member,    \* member[i]: its members' MACs in order of priority
    dns,       \* the A records on the server
    phase,     \* "idle", or "apply" during the identity stage
    copy,      \* the rows the stage will save, NoRow for the others
    change,    \* the change an identity still needs
    key,       \* the MAC under which its outcome is filed
    outcome,   \* what the last change filed under a MAC left in DNS
    req,       \* the request in progress, Idle if none
    calm,      \* nothing fails or moves any more
    steady     \* what the devices hold from then on, and who does not answer probes

stage == <<phase, copy, change, key, outcome>>
world == <<calm, steady>>
vars == <<idents, born, member, dns, stage, req, world>>

(* wanted is EffectiveHostname, shown SyncedHostname.                      *)
IdentityRow ==
    [wanted : Names, zone : Zones, excluded : BOOLEAN, active : MACs \cup {NoMAC},
     ip : AnyIP, shown : AnyName, synced : BOOLEAN]

Location(row) == Rec(row.shown, row.zone, row.ip)

AnyChange ==
    [kind : {"create", "update", "delete"}, mac : MACs \cup {NoMAC},
     host : AnyName, zone : Zones, ip : AnyIP,
     oldHost : AnyName, oldZone : Zones, oldIP : AnyIP]

Request == [op : {"edit", "delete"}, ident : Identities, row : IdentityRow,
            step : {"dns", "members", "row"}]

ASSUME NullAssumption == NoRow \notin IdentityRow \cup AnyChange /\ Idle \notin Request

(* Values of the right type, and requests and changes only where they      *)
(* belong.                                                                 *)
TypeOK ==
    /\ idents \in [Identities -> IdentityRow \cup {NoRow}]
    /\ born \subseteq Identities
    /\ member \in [Identities -> Seq(MACs)]
    /\ dns \subseteq [host : AnyName, zone : Zones, ip : AnyIP]
    /\ phase \in {"idle", "apply"}
    /\ copy \in [Identities -> IdentityRow \cup {NoRow}]
    /\ change \in [Identities -> AnyChange \cup {NoRow}]
    /\ key \in [Identities -> MACs \cup {NoMAC}]
    /\ outcome \in [MACs \cup {NoMAC} -> {"none", "present", "gone"}]
    /\ req \in Request \cup {Idle}
    /\ calm \in BOOLEAN
    /\ steady \in [lease : Leases, dead : SUBSET Silent]

Nothing == [i \in Identities |-> NoRow]
NoOutcome == [m \in MACs \cup {NoMAC} |-> "none"]

Init ==
    /\ idents = Nothing /\ born = {} /\ member = [i \in Identities |-> <<>>]
    /\ dns = Foreign
    /\ phase = "idle" /\ copy = Nothing /\ change = Nothing
    /\ key = [i \in Identities |-> NoMAC] /\ outcome = NoOutcome
    /\ req = Idle
    /\ calm = FALSE
    /\ steady = [lease |-> CHOOSE l \in Leases : TRUE, dead |-> {}]

-----------------------------------------------------------------------------
(* The identity stage.                                                     *)

(* SelectActive: the first fresh member that answers, else the first fresh *)
(* one.  The mutant has no fallback.                                       *)
ActiveAlive(macs, lease, dead) ==
    LET alive == SelectInSeq(macs, LAMBDA m : lease[m] # NoIP /\ lease[m] \notin dead)
    IN IF alive # 0 THEN macs[alive] ELSE NoMAC

SelectActive(macs, lease, dead) ==
    LET fresh == SelectInSeq(macs, LAMBDA m : lease[m] # NoIP)
        alive == SelectInSeq(macs, LAMBDA m : lease[m] # NoIP /\ lease[m] \notin dead)
    IN CASE alive # 0 -> macs[alive]
         [] alive = 0 /\ fresh # 0 -> macs[fresh]
         [] OTHER -> NoMAC

(* identityChange: the change, the row that goes with it, and the MAC its  *)
(* outcome is filed under.                                                 *)
(* Mutant of Withdraw: the row is cleared before the change is built.      *)
WithdrawCleared(row) ==
    [kind |-> "delete", mac |-> row.active, host |-> NoName, zone |-> row.zone, ip |-> NoIP,
     oldHost |-> NoName, oldZone |-> row.zone, oldIP |-> NoIP]

Withdraw(row) ==
    [kind |-> "delete", mac |-> row.active, host |-> NoName, zone |-> row.zone, ip |-> NoIP,
     oldHost |-> row.shown, oldZone |-> row.zone, oldIP |-> row.ip]

Publish(kind, row, m, ip) ==
    [kind |-> kind, mac |-> m, host |-> row.wanted, zone |-> row.zone, ip |-> ip,
     oldHost |-> row.shown, oldZone |-> row.zone, oldIP |-> row.ip]

ChangeFor(row, m, ip) ==
    CASE m = NoMAC /\ row.synced -> Withdraw(row)
      [] m # NoMAC /\ ~row.synced -> Publish("create", row, m, ip)
      [] m # NoMAC /\ row.synced /\ <<m, ip, row.wanted>> # <<row.active, row.ip, row.shown>>
            -> Publish("update", row, m, ip)
      [] OTHER -> NoRow

NextRow(row, m, ip) ==
    CASE m # NoMAC -> [row EXCEPT !.active = m, !.ip = ip, !.shown = row.wanted]
      [] m = NoMAC /\ row.synced -> [row EXCEPT !.active = NoMAC, !.ip = NoIP, !.shown = NoName]
      [] OTHER -> row

Included(i) == idents[i] # NoRow /\ ~idents[i].excluded

BeginStage(lease, dead) ==
    LET chosen == [i \in Identities |-> SelectActive(member[i], lease, dead)]
        at == [i \in Identities |-> IF chosen[i] = NoMAC THEN NoIP ELSE lease[chosen[i]]]
    IN /\ phase = "idle"
       /\ EditsOverlap \/ req = Idle
       /\ phase' = "apply"
       /\ change' = [i \in Identities |->
             IF Included(i) THEN ChangeFor(idents[i], chosen[i], at[i]) ELSE NoRow]
       /\ copy' = [i \in Identities |->
             IF Included(i) THEN NextRow(idents[i], chosen[i], at[i]) ELSE idents[i]]
       /\ key' = [i \in Identities |-> IF change'[i] = NoRow THEN NoMAC ELSE change'[i].mac]
       /\ UNCHANGED <<idents, born, member, dns, outcome, req, world>>

(* One call of applyChanges; identities are loaded in any order.           *)
Apply(i, ok) ==
    /\ phase = "apply" /\ change[i] # NoRow
    /\ IF ok THEN dns' \in Succeeded(dns, change[i])
       ELSE /\ \/ MayFail /\ ~calm /\ change[i].kind \in FailKinds
               \/ Refused(dns, change[i])
            /\ dns' \in Failed(dns, change[i])
    /\ outcome' = [outcome EXCEPT ![change[i].mac] = OutcomeOf(change[i], ok)]
    /\ change' = [change EXCEPT ![i] = NoRow]
    /\ UNCHANGED <<idents, born, member, phase, copy, key, req, world>>

(* An outcome filed under no MAC is not looked at.                         *)
(* Mutant of Final: a failure leaves the row as it was decided.            *)
FinalPublished(i) ==
    IF key[i] = NoMAC THEN copy[i]
    ELSE [copy[i] EXCEPT !.synced = copy[i].active # NoMAC]
Final(i) ==
    IF key[i] = NoMAC \/ outcome[key[i]] = "none" THEN copy[i]
    ELSE [copy[i] EXCEPT !.synced = outcome[key[i]] = "present"]

(* Save updates by id, and inserts the row again if it is gone.            *)
EndStage ==
    /\ phase = "apply" /\ change = Nothing
    /\ idents' = [i \in Identities |-> IF copy[i] = NoRow THEN idents[i] ELSE Final(i)]
    /\ phase' = "idle"
    /\ copy' = Nothing /\ key' = [i \in Identities |-> NoMAC] /\ outcome' = NoOutcome
    /\ UNCHANGED <<born, member, dns, change, req, world>>

Stage ==
    \/ \E lease \in Leases, dead \in SUBSET Silent : ~calm /\ BeginStage(lease, dead)
    \/ calm /\ BeginStage(steady.lease, steady.dead)
    \/ \E i \in Identities, ok \in BOOLEAN : Apply(i, ok)
    \/ EndStage

-----------------------------------------------------------------------------
(* The handlers.                                                           *)

AddIdentity(i, name, zone) ==
    /\ i \notin born
    /\ born' = born \cup {i}
    /\ idents' = [idents EXCEPT ![i] =
          [wanted |-> name, zone |-> zone, excluded |-> FALSE, active |-> NoMAC,
           ip |-> NoIP, shown |-> NoName, synced |-> FALSE]]
    /\ UNCHANGED <<member, dns, stage, req, world>>

(* editIdentity: the row as loaded, with everything the form holds.        *)
(* Mutant of Edited: the name in DNS is taken for the new one.             *)
EditedShown(row, name, zone, excluded) ==
    [row EXCEPT !.wanted = name, !.zone = zone, !.excluded = excluded, !.shown = name]
Edited(row, name, zone, excluded) ==
    [row EXCEPT !.wanted = name, !.zone = zone, !.excluded = excluded]

Load(i, op, row, step) ==
    /\ req = Idle /\ idents[i] # NoRow
    /\ req' = [op |-> op, ident |-> i, row |-> row, step |-> step]
    /\ UNCHANGED <<idents, born, member, dns, stage, world>>

EditIdentity(i, name, zone, excluded) ==
    idents[i] # NoRow /\ Load(i, "edit", Edited(idents[i], name, zone, excluded), "row")

SaveEdit ==
    /\ req # Idle /\ req.op = "edit"
    /\ idents' = [idents EXCEPT ![req.ident] = req.row]
    /\ req' = Idle
    /\ UNCHANGED <<born, member, dns, stage, world>>

DeleteIdentity(i) == Load(i, "delete", idents[i], "dns")

Deleting(step) == req # Idle /\ req.op = "delete" /\ req.step = step

(* The record of the name the identity should have; a failure is logged.   *)
TakeDown ==
    /\ Deleting("dns")
    /\ LET ch == [Withdraw(req.row) EXCEPT !.oldHost = req.row.wanted]
       IN IF req.row.synced
          THEN dns' \in Succeeded(dns, ch) \cup (IF MayFail THEN Failed(dns, ch) ELSE {})
          ELSE UNCHANGED dns
    /\ req' = [req EXCEPT !.step = "members"]
    /\ UNCHANGED <<idents, born, member, stage, world>>

DropMembers ==
    /\ Deleting("members")
    /\ member' = [member EXCEPT ![req.ident] = <<>>]
    /\ req' = [req EXCEPT !.step = "row"]
    /\ UNCHANGED <<idents, born, dns, stage, world>>

Drop ==
    /\ Deleting("row")
    /\ idents' = [idents EXCEPT ![req.ident] = NoRow]
    /\ req' = Idle
    /\ UNCHANGED <<born, member, dns, stage, world>>

(* A member is added at, or moved to, any priority; or removed.            *)
AddMember(i, m, k) ==
    /\ idents[i] # NoRow
    /\ m \notin ToSet(member[i])
    /\ member' = [member EXCEPT ![i] = InsertAt(@, k, m)]
    /\ UNCHANGED <<idents, born, dns, stage, req, world>>

EditMember(i, m, k) ==
    /\ m \in ToSet(member[i])
    /\ member' = [member EXCEPT ![i] = InsertAt(RemoveFirst(@, m), k, m)]
    /\ UNCHANGED <<idents, born, dns, stage, req, world>>

DeleteMember(i, m) ==
    /\ m \in ToSet(member[i])
    /\ member' = [member EXCEPT ![i] = RemoveFirst(@, m)]
    /\ UNCHANGED <<idents, born, dns, stage, req, world>>

Edits ==
    /\ EditsOverlap \/ phase = "idle"
    /\ \/ \E i \in Identities : \E name \in NamesFor(i), zone \in ZonesFor(i) :
             \/ AddIdentity(i, name, zone)
             \/ \E excluded \in BOOLEAN : EditIdentity(i, name, zone, excluded)
       \/ \E i \in Identities : DeleteIdentity(i)
       \/ SaveEdit
       \/ TakeDown
       \/ DropMembers
       \/ Drop

MemberEdits ==
    \E i \in Identities : \E m \in MembersFor(i) :
        \/ \E k \in 1 .. Len(member[i]) + 1 : AddMember(i, m, k)
        \/ \E k \in 1 .. Len(member[i]) : EditMember(i, m, k)
        \/ DeleteMember(i, m)

-----------------------------------------------------------------------------
CalmDown ==
    /\ ~calm /\ phase = "idle" /\ req = Idle
    /\ calm' = TRUE
    /\ steady' \in [lease : Leases, dead : SUBSET Silent]
    /\ UNCHANGED <<idents, born, member, dns, stage, req>>

Next ==
    \/ Stage
    \/ ~calm /\ Edits
    \/ ~calm /\ MemberEdits
    \/ CalmDown

(* Engine.Run starts a cycle at every tick, and once things are calm every *)
(* call gets an answer.                                                    *)
Spec == Init /\ [][Next]_vars /\ WF_vars(Stage /\ calm)

-----------------------------------------------------------------------------
(* An identity whose row claims a record has it exactly where the row says *)
(* it is, so that a later change can find it (db/identity.go: "so a later  *)
(* change in the active member can locate and update/delete the old        *)
(* record"), whatever was renamed, reordered, excluded or failed.          *)
Settled == phase = "idle" /\ req = Idle

RecordLocated ==
    Settled => \A i \in Identities :
        idents[i] # NoRow /\ idents[i].synced => Location(idents[i]) \in dns

(* And it has no other record: none at an earlier name or address          *)
(* (identities.go, identityChange's Previous fields).                      *)
OneRecord ==
    Settled => \A i \in Identities : idents[i] # NoRow =>
        \A r \in dns \ Foreign : r.host \in NamesFor(i) =>
            idents[i].synced /\ r = Location(idents[i])

(* No change of an identity ever touches a record that is not its own.     *)
ForeignStays == Foreign \subseteq dns

(* Once things are calm the shared name points at the first member in      *)
(* order of priority that is up, or at the first with an address when none *)
(* answers, and is gone when none has one (SelectActive).                  *)
Points(i) ==
    LET row == idents[i]
        lease(k) == steady.lease[member[i][k]]
        fresh == {k \in DOMAIN member[i] : lease(k) # NoIP}
        alive == {k \in fresh : lease(k) \notin steady.dead}
        here == At(dns, row.wanted, row.zone) \ Foreign
    IN IF fresh = {} THEN here = {} /\ ~row.synced
       ELSE here = {Rec(row.wanted, row.zone, lease(Min(IF alive # {} THEN alive ELSE fresh)))}

Settles == calm ~> [](phase = "idle" => \A i \in Identities : Included(i) => Points(i))
=============================================================================
