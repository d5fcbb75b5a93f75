----------------------------- MODULE SyncLoop ------------------------------
(***************************************************************************)
(* When sync cycles run.  The engine's background loop runs one cycle at   *)
(* start-up and then one per tick or per Kick; a Kick is a non-blocking    *)
(* send on a channel that holds one element, so requests coalesce.  The    *)
(* dashboard's "Sync now" and "Repair reverse DNS" handlers call the       *)
(* engine directly, on their own goroutines.  runMu serializes all of it.  *)
(*                                                                         *)
(* What a cycle does is left to the other modules: here an edit is only a  *)
(* number, and a cycle sees the edits committed before it takes the lock.  *)
(***************************************************************************)
EXTENDS Naturals

CONSTANTS
    Editors,      \* web requests that change the database and then call Kick
    Syncers,      \* web requests that run a cycle themselves (triggerSync)
    Repairers,    \* web requests that run RepairPTRs
    MaxEdits      \* bound on the number of edits

ASSUME RequestAssumption ==
    /\ Syncers \cap Repairers = {}
    /\ MaxEdits \in Nat

Callers == Syncers \cup Repairers

VARIABLES
    loop,       \* the control point of Engine.Run
    ticker,     \* "none" before time.NewTicker, then "armed" or "fired"
    kick,       \* the element of the kick channel: there is one or not
    canceled,   \* ctx is done (SIGINT, SIGTERM)
    locked,     \* runMu
    caller,     \* the control point of each triggerSync or repairPTRs request
    saved,      \* saved[h]: the edit request h has committed but not kicked, 0 if none
    edits,      \* number of edits committed so far
    kicked,     \* the newest edit whose request has called Kick
    covered     \* the newest edit that a started cycle sees

vars == <<loop, ticker, kick, canceled, locked, caller, saved, edits, kicked, covered>>
history == <<edits, kicked, covered>>

TypeOK ==
    /\ loop \in {"start", "select", "lock", "cycle", "returned"}
    /\ ticker \in {"none", "armed", "fired"}
    /\ kick \in BOOLEAN
    /\ canceled \in BOOLEAN
    /\ locked \in BOOLEAN
    /\ caller \in [Callers -> {"idle", "lock", "busy"}]
    /\ saved \in [Editors -> 0..MaxEdits]
    /\ edits \in 0..MaxEdits
    /\ kicked \in 0..MaxEdits
    /\ covered \in 0..MaxEdits

Init ==
    /\ loop = "start"
    /\ ticker = "none"
    /\ kick = FALSE
    /\ canceled = FALSE
    /\ locked = FALSE
    /\ caller = [c \in Callers |-> "idle"]
    /\ saved = [h \in Editors |-> 0]
    /\ edits = 0 /\ kicked = 0 /\ covered = 0

-----------------------------------------------------------------------------
(* Web requests that edit: db.Save first, Engine.Kick after it.            *)

Save(h) ==
    /\ saved[h] = 0
    /\ edits < MaxEdits
    /\ edits' = edits + 1
    /\ saved' = [saved EXCEPT ![h] = edits + 1]
    /\ UNCHANGED <<loop, ticker, kick, canceled, locked, caller, kicked, covered>>

(* Mutants of Kick: the channel has no buffer, so that a request finds a   *)
(* receiver or is dropped; edits are added up.                             *)
KickUnbuffered(h) ==
    /\ saved[h] # 0
    /\ kick' = (kick \/ loop = "select")
    /\ kicked' = IF saved[h] > kicked THEN saved[h] ELSE kicked
    /\ saved' = [saved EXCEPT ![h] = 0]
    /\ UNCHANGED <<loop, ticker, canceled, locked, caller, edits, covered>>
KickSum(h) ==
    /\ saved[h] # 0
    /\ kick' = TRUE
    /\ kicked' = kicked + saved[h]
    /\ saved' = [saved EXCEPT ![h] = 0]
    /\ UNCHANGED <<loop, ticker, canceled, locked, caller, edits, covered>>

(* The send succeeds or a cycle is already queued: the channel is full     *)
(* afterwards either way, and the request never waits.                     *)
Kick(h) ==
    /\ saved[h] # 0
    /\ kick' = TRUE
    /\ kicked' = IF saved[h] > kicked THEN saved[h] ELSE kicked
    /\ saved' = [saved EXCEPT ![h] = 0]
    /\ UNCHANGED <<loop, ticker, canceled, locked, caller, edits, covered>>

-----------------------------------------------------------------------------
(* The background loop.                                                    *)

(* time.Ticker has a channel of one element and drops the ticks a slow     *)
(* receiver misses.                                                        *)
Tick ==
    /\ ticker = "armed"
    /\ ticker' = "fired"
    /\ UNCHANGED <<loop, kick, canceled, locked, caller, saved, history>>

WakeOnTick ==
    /\ loop = "select" /\ ticker = "fired"
    /\ loop' = "lock" /\ ticker' = "armed"
    /\ UNCHANGED <<kick, canceled, locked, caller, saved, history>>

(* Mutant of WakeOnKick: the database is read before the lock is taken.    *)
WakeOnKickReads ==
    /\ loop = "select" /\ kick
    /\ loop' = "lock" /\ kick' = FALSE
    /\ covered' = edits
    /\ UNCHANGED <<ticker, canceled, locked, caller, saved, edits, kicked>>

WakeOnKick ==
    /\ loop = "select" /\ kick
    /\ loop' = "lock" /\ kick' = FALSE
    /\ UNCHANGED <<ticker, canceled, locked, caller, saved, history>>

(* Mutant of Return: work that is due goes first.                          *)
ReturnLast ==
    /\ loop = "select" /\ canceled /\ ~kick /\ ticker # "fired"
    /\ loop' = "returned"
    /\ UNCHANGED <<ticker, kick, canceled, locked, caller, saved, history>>

Return ==
    /\ loop = "select" /\ canceled
    /\ loop' = "returned"
    /\ UNCHANGED <<ticker, kick, canceled, locked, caller, saved, history>>

(* RunOnce from the loop, the first time and then once per wake-up.        *)
LoopLocks ==
    /\ loop \in {"start", "lock"}
    /\ ~locked
    /\ locked' = TRUE
    /\ loop' = "cycle"
    /\ covered' = edits
    /\ UNCHANGED <<ticker, kick, canceled, caller, saved, edits, kicked>>

(* Mutant of LoopUnlocks: requests made during the cycle are drained.      *)
LoopUnlocksDrains ==
    /\ loop = "cycle"
    /\ locked' = FALSE
    /\ loop' = "select" /\ kick' = FALSE
    /\ ticker' = IF ticker = "none" THEN "armed" ELSE ticker
    /\ UNCHANGED <<canceled, caller, saved, history>>

(* The ticker is created once the first cycle is over.                     *)
LoopUnlocks ==
    /\ loop = "cycle"
    /\ locked' = FALSE
    /\ loop' = "select"
    /\ ticker' = IF ticker = "none" THEN "armed" ELSE ticker
    /\ UNCHANGED <<kick, canceled, caller, saved, history>>

Cancel ==
    /\ ~canceled
    /\ canceled' = TRUE
    /\ UNCHANGED <<loop, ticker, kick, locked, caller, saved, history>>

-----------------------------------------------------------------------------
(* Web requests that call the engine on their own goroutine.               *)

Request(c) ==
    /\ caller[c] = "idle"
    /\ caller' = [caller EXCEPT ![c] = "lock"]
    /\ UNCHANGED <<loop, ticker, kick, canceled, locked, saved, history>>

(* Mutant of CallerLocks: a manual cycle does not wait for the lock.       *)
CallerBarges(c) ==
    /\ caller[c] = "lock"
    /\ locked' = TRUE
    /\ caller' = [caller EXCEPT ![c] = "busy"]
    /\ covered' = IF c \in Syncers THEN edits ELSE covered
    /\ UNCHANGED <<loop, ticker, kick, canceled, saved, edits, kicked>>

CallerLocks(c) ==
    /\ caller[c] = "lock"
    /\ ~locked
    /\ locked' = TRUE
    /\ caller' = [caller EXCEPT ![c] = "busy"]
    /\ covered' = IF c \in Syncers THEN edits ELSE covered
    /\ UNCHANGED <<loop, ticker, kick, canceled, saved, edits, kicked>>

(* Mutant of CallerUnlocks: a return that forgets the lock.                *)
CallerLeaves(c) ==
    /\ caller[c] = "busy"
    /\ caller' = [caller EXCEPT ![c] = "idle"]
    /\ UNCHANGED <<loop, ticker, kick, canceled, locked, saved, history>>

CallerUnlocks(c) ==
    /\ caller[c] = "busy"
    /\ locked' = FALSE
    /\ caller' = [caller EXCEPT ![c] = "idle"]
    /\ UNCHANGED <<loop, ticker, kick, canceled, saved, history>>

Next ==
    \/ \E h \in Editors : Save(h) \/ Kick(h)
    \/ Tick
    \/ WakeOnTick
    \/ WakeOnKick
    \/ Return
    \/ LoopLocks
    \/ LoopUnlocks
    \/ Cancel
    \/ \E c \in Callers : Request(c) \/ CallerLocks(c) \/ CallerUnlocks(c)

Spec == Init /\ [][Next]_vars

(***************************************************************************)
(* Fairness.  A request that has saved goes on to Kick.  A manual sync and *)
(* a repair carry deadlines, so they let go of runMu; the background       *)
(* cycle's context has none and neither have the HTTP clients, so a server *)
(* that accepts a call and never answers holds the loop in its cycle until *)
(* the context is canceled: only then is LoopUnlocks sure to happen.       *)
(* sync.Mutex hands the lock to a waiter after 1ms (its starvation mode)   *)
(* and select picks at random among the ready cases: both are strongly     *)
(* fair.  Nothing is assumed of ticks (the interval is a setting, and may  *)
(* be hours), nor that anyone presses a button or stops the process.       *)
(***************************************************************************)
Fairness ==
    /\ \A h \in Editors : WF_vars(Kick(h))
    /\ WF_vars(canceled /\ LoopUnlocks)
    /\ SF_vars(LoopLocks)
    /\ SF_vars(WakeOnKick)
    /\ SF_vars(Return)
    /\ \A c \in Callers : WF_vars(CallerUnlocks(c)) /\ SF_vars(CallerLocks(c))

FairSpec == Spec /\ Fairness

-----------------------------------------------------------------------------
(* runMu works: the loop's cycle, a manual cycle and a PTR repair never    *)
(* overlap, however requests arrive (engine.go, the runMu comment).        *)
Serialized ==
    /\ loop = "cycle" => \A c \in Callers : caller[c] # "busy"
    /\ \A c, d \in Callers : caller[c] = "busy" /\ caller[d] = "busy" => c = d

(* No Kick is lost to coalescing: while some kicked edit has not been seen *)
(* by a started cycle, and the loop has not returned, the channel is full  *)
(* or the loop is already on its way to a cycle that will see the edit.    *)
KickNotLost ==
    kicked > covered => kick \/ loop \in {"start", "lock", "returned"}

(* The strengthening that makes the two invariants above inductive: the    *)
(* mutex is held exactly while someone works under it, and nobody has      *)
(* seen, or asked for, an edit that does not exist yet.                    *)
LockHeld ==
    locked <=> (loop = "cycle" \/ \E c \in Callers : caller[c] = "busy")

HistoryOrdered ==
    /\ covered <= edits
    /\ kicked <= edits
    /\ \A h \in Editors : saved[h] <= edits

LoopInv ==
    /\ TypeOK
    /\ Serialized
    /\ LockHeld
    /\ HistoryOrdered
    /\ KickNotLost

(* The servers answer the calls of the background cycles.                  *)
ServersAnswer == []<>(loop # "cycle")

(* If the servers answer, each edit is followed by a cycle that started    *)
(* after it, unless the process was told to stop, without any help from    *)
(* the ticker: the kick channel alone gets every edit applied.             *)
EditsGetApplied ==
    ServersAnswer =>
        \A h \in Editors : \A e \in 1..MaxEdits :
            (saved[h] = e) ~> (covered >= e \/ loop = "returned")

(* Once ctx is done the loop returns: kicks and ticks that keep coming     *)
(* cannot hold it in the select for ever.                                  *)
ShutsDown == canceled ~> (loop = "returned")

(* If the servers answer, a manual sync or repair is not starved of the    *)
(* lock by the loop or by other requests.                                  *)
RequestsServed ==
    ServersAnswer => \A c \in Callers : (caller[c] = "lock") ~> (caller[c] = "busy")

(* The loop, its channel, its ticker and the mutex implement SyncTrigger.  *)
Work ==
    IF loop = "cycle" \/ \E c \in Syncers : caller[c] = "busy" THEN "cycle"
    ELSE IF \E c \in Repairers : caller[c] = "busy" THEN "repair"
    ELSE "none"

Trigger == INSTANCE SyncTrigger WITH
    asked <- kicked, work <- Work, stopped <- (loop = "returned")

ImplementsTrigger == Trigger!SafeSpec
=============================================================================
