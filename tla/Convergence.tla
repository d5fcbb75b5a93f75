---------------------------- MODULE Convergence ----------------------------
(***************************************************************************)
(* What the sync cycles achieve once things calm down.  Anything that      *)
(* Dashboard allows may happen first.  From some idle moment on nobody     *)
(* edits, the controllers keep reporting the same clients, calls to the    *)
(* DNS server get through and the process stays up; then the cycles must   *)
(* come to a state they no longer change.                                  *)
(***************************************************************************)
EXTENDS Dashboard

CONSTANT Calms   \* the functions from controllers to the tables they may keep reporting

ASSUME CalmAssumption == \A f \in Calms : \A c \in Controllers : f[c] \in Reports(c)

VARIABLES
    calm,      \* the network has calmed down
    last       \* last[c]: what controller c reports from then on

cvars == <<dvars, calm, last>>

Unknown == [c \in Controllers |-> [m \in MACs |-> Absent]]

InitC == InitD /\ calm = FALSE /\ last = Unknown

CalmDown ==
    /\ ~calm /\ phase = "idle" /\ AllIdle
    /\ calm' = TRUE
    /\ last' \in Calms
    /\ UNCHANGED dvars

(* A cycle in calm conditions: the server still refuses to update a record *)
(* it does not have.                                                       *)
CalmCycle ==
    \/ BeginCycle
    \/ EndCycle
    \/ \E c \in Controllers : Fetch(c, last[c])
    \/ \E m \in MACs : Reconcile(m)
    \/ BeginApply
    \/ changes # <<>> /\ Apply(~Refused(dns, Head(changes)))
    \/ Persist

NextC ==
    \/ ~calm /\ NextD /\ UNCHANGED <<calm, last>>
    \/ CalmDown
    \/ calm /\ CalmCycle /\ UNCHANGED <<req, calm, last>>

(* Engine.Run starts a cycle at every tick; part of calm conditions is     *)
(* that every call gets an answer, so that the cycle goes on to its end.   *)
ConvergeSpec ==
    InitC /\ [][NextC]_cvars /\ WF_cvars(calm /\ CalmCycle /\ UNCHANGED <<req, calm, last>>)

-----------------------------------------------------------------------------
(* The cycles stop changing DNS: no name, zone or owner flaps from cycle   *)
(* to cycle (engine.go, claimableClients).                                 *)
Quiet == calm ~> [](changes = <<>>)

(* Controller c speaks for m: m is connected there, or nowhere at all and  *)
(* was last connected there.                                               *)
Speaks(c, m) ==
    /\ last[c][m] # Absent
    /\ \/ last[c][m].online
       \/ /\ rows[m] # NoRow /\ rows[m].ctrl = c
          /\ \A d \in Controllers : last[d][m] = Absent \/ ~last[d][m].online

(* The row holds the device as c keeps reporting it: its address, its zone *)
(* and, exactly when it has an address, a record on the server.            *)
UpToDate(c, m) ==
    LET row == rows[m]
        client == last[c][m]
    IN /\ row # NoRow
       /\ row.ip = Address(client, row)
       /\ row.zone = ZoneFor(c, row.ip, row)
       /\ row.synced = (row.ip # NoIP)
       /\ row.synced => Published(row) \in dns

Served(m) == rows[m] = NoRow \/ (~rows[m].excluded /\ m \notin members)

(* Whatever failed before, every device that is published at all ends up   *)
(* in DNS as the controller that speaks for it reports it, and stays so.   *)
Settles ==
    calm ~> [](phase = "idle" =>
                \A c \in Controllers, m \in MACs :
                    Speaks(c, m) /\ Served(m) => UpToDate(c, m))
=============================================================================
