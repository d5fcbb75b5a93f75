----------------------------- MODULE DnsServer -----------------------------
(***************************************************************************)
(* The A records of the Technitium server, as the calls of                 *)
(* internal/technitium change them.  zone and host name a record set; a    *)
(* call returns an error and may then have been carried out in part.       *)
(***************************************************************************)
EXTENDS Registry

CONSTANTS
    MayFail,      \* calls to the server may fail
    LostReplies   \* a failed call may have been carried out in full

ASSUME ServerAssumption == MayFail \in BOOLEAN /\ LostReplies \in BOOLEAN

Record == [host : Labels, zone : AnyZone, ip : AnyIP]
Rec(host, zone, ip) == [host |-> host, zone |-> zone, ip |-> ip]
Published(row) == Rec(row.host, row.zone, row.ip)

(* The A records at exactly this name (currentAddresses).                  *)
At(dns, host, zone) == {r \in dns : r.host = host /\ r.zone = zone}

(* AddRecord with overwrite: replaces the whole record set.                *)
Added(dns, ch) ==
    (dns \ At(dns, ch.host, ch.zone)) \cup {Rec(ch.host, ch.zone, ch.ip)}

(* The records a call takes down, when it looks the address up.            *)
LookedUp(dns, ch) ==
    IF ch.kind # "create" /\ ch.oldIP = NoIP THEN At(dns, ch.oldHost, ch.oldZone) ELSE {}

Single(S) == \E r \in S : S = {r}

(* UpdateRecord.  The server refuses to update a record it does not have;  *)
(* without an address to identify it, exactly one record is updated and    *)
(* any other number is replaced.                                           *)
Updated(dns, ch) ==
    LET old == IF ch.oldIP = NoIP THEN LookedUp(dns, ch)
               ELSE {Rec(ch.oldHost, ch.oldZone, ch.oldIP)} \cap dns
    IN CASE Single(old) -> {(dns \ old) \cup {Rec(ch.host, ch.zone, ch.ip)}}
         [] ~Single(old) /\ ch.oldIP = NoIP -> {Added(dns \ old, ch)}
         [] OTHER -> {}

(* DeleteRecord.  Finding nothing to delete is not an error.               *)
Deleted(dns, ch) ==
    IF ch.oldIP = NoIP THEN dns \ LookedUp(dns, ch)
    ELSE dns \ {Rec(ch.oldHost, ch.oldZone, ch.oldIP)}

Succeeded(dns, ch) ==
    CASE ch.kind = "create" -> {Added(dns, ch)}
      [] ch.kind = "update" -> Updated(dns, ch)
      [] ch.kind = "delete" -> {Deleted(dns, ch)}

(* A call that looked the address up deletes record by record and can fail *)
(* between two of them, a replacement also before its final add.           *)
Failed(dns, ch) ==
    {dns \ S : S \in {T \in SUBSET LookedUp(dns, ch) :
                      \/ T # LookedUp(dns, ch)
                      \/ T = {}
                      \/ ch.kind = "update" /\ ~Single(T)}}
        \cup (IF LostReplies THEN Succeeded(dns, ch) ELSE {})

Refused(dns, ch) == Succeeded(dns, ch) = {}

(* What applyChanges concludes for the MAC of a change.  A failed delete   *)
(* leaves the device marked as having a record.                            *)
(* Mutants of OutcomeOf: the kind of the last change; whether the call     *)
(* succeeded.                                                              *)
OutcomeKind(ch, ok) == ch.kind
OutcomeCall(ch, ok) == IF ok THEN "present" ELSE "gone"

OutcomeOf(ch, ok) ==
    IF ok = (ch.kind # "delete") THEN "present" ELSE "gone"
=============================================================================
