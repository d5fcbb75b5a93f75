--------------------------- MODULE SyncLoopProofs --------------------------
(* Proofs that SyncLoop serializes its cycles, loses no Kick and           *)
(* implements SyncTrigger, for any sets of requests.                       *)
EXTENDS SyncLoop, TLAPS

(* The loop starts with nothing to do and runMu free.                      *)
LEMMA InitLoopInv == Init => LoopInv
<1> SUFFICES ASSUME Init PROVE LoopInv
  OBVIOUS
<1> USE RequestAssumption DEF RequestAssumption, Init
<1>1. TypeOK
  <2>1. 0 \in 0..MaxEdits
    OBVIOUS
  <2>2. caller \in [Callers -> {"idle", "lock", "busy"}]
    OBVIOUS
  <2>3. saved \in [Editors -> 0..MaxEdits]
    BY <2>1
  <2> QED BY <2>1, <2>2, <2>3 DEF TypeOK
<1>2. Serialized /\ LockHeld /\ HistoryOrdered /\ KickNotLost
  BY DEF Serialized, LockHeld, HistoryOrdered, KickNotLost
<1> QED BY <1>1, <1>2 DEF LoopInv

(* Every step of the loop, a handler or the shutdown keeps the invariant.  *)
LEMMA NextLoopInv == LoopInv /\ [Next]_vars => LoopInv'
<1> SUFFICES ASSUME LoopInv, [Next]_vars PROVE LoopInv'
  OBVIOUS
<1> USE RequestAssumption DEF RequestAssumption, LoopInv, TypeOK, history
<1>1. ASSUME NEW h \in Editors, Save(h) PROVE LoopInv'
  BY <1>1 DEF Save, Serialized, LockHeld, HistoryOrdered, KickNotLost
<1>2. ASSUME NEW h \in Editors, Kick(h) PROVE LoopInv'
  BY <1>2 DEF Kick, Serialized, LockHeld, HistoryOrdered, KickNotLost
<1>3. CASE Tick \/ WakeOnTick \/ WakeOnKick \/ Return \/ Cancel
  <2>1. TypeOK'
    BY <1>3 DEF Tick, WakeOnTick, WakeOnKick, Return, Cancel
  <2>2. (Serialized /\ LockHeld)'
    BY <1>3 DEF Tick, WakeOnTick, WakeOnKick, Return, Cancel, Serialized, LockHeld
  <2>3. (HistoryOrdered /\ KickNotLost)'
    BY <1>3 DEF Tick, WakeOnTick, WakeOnKick, Return, Cancel,
       HistoryOrdered, KickNotLost
  <2> QED BY <2>1, <2>2, <2>3
<1>4. CASE LoopLocks
  BY <1>4 DEF LoopLocks, Serialized, LockHeld, HistoryOrdered, KickNotLost
<1>5. CASE LoopUnlocks
  BY <1>5 DEF LoopUnlocks, Serialized, LockHeld, HistoryOrdered, KickNotLost
<1>6. ASSUME NEW c \in Callers, Request(c) PROVE LoopInv'
  BY <1>6 DEF Request, Serialized, LockHeld, HistoryOrdered, KickNotLost
<1>7. ASSUME NEW c \in Callers, CallerLocks(c) PROVE LoopInv'
  BY <1>7 DEF CallerLocks, Serialized, LockHeld, HistoryOrdered, KickNotLost
<1>8. ASSUME NEW c \in Callers, CallerUnlocks(c) PROVE LoopInv'
  BY <1>8 DEF CallerUnlocks, Serialized, LockHeld, HistoryOrdered, KickNotLost
<1>9. CASE UNCHANGED vars
  BY <1>9 DEF vars, Serialized, LockHeld, HistoryOrdered, KickNotLost
<1> QED
  BY <1>1, <1>2, <1>3, <1>4, <1>5, <1>6, <1>7, <1>8, <1>9 DEF Next

(* Types and the control state's shape hold of every run of the process.   *)
THEOREM LoopInvariant == Spec => []LoopInv
<1> QED BY InitLoopInv, NextLoopInv, PTL DEF Spec

(* The loop's channel, its ticker, the mutex and what the cycles have seen *)
(* keep to their values.                                                   *)
THEOREM LoopTypeCorrect == Spec => []TypeOK
<1>1. LoopInv => TypeOK
  BY DEF LoopInv
<1> QED BY <1>1, LoopInvariant, PTL

(* runMu keeps the loop's cycles, manual cycles and PTR repairs apart.     *)
THEOREM CyclesSerialized == Spec => []Serialized
<1>1. LoopInv => Serialized
  BY DEF LoopInv
<1> QED BY <1>1, LoopInvariant, PTL

(* Every edit whose request has called Kick has been seen by a cycle, or   *)
(* a cycle that will see it is queued or about to take the lock.           *)
THEOREM NoKickLost == Spec => []KickNotLost
<1>1. LoopInv => KickNotLost
  BY DEF LoopInv
<1> QED BY <1>1, LoopInvariant, PTL

-----------------------------------------------------------------------------
(* The loop's first state is the trigger's first state.                    *)
LEMMA InitImplements == Init => Trigger!Init
<1> SUFFICES ASSUME Init PROVE Trigger!Init
  OBVIOUS
<1>1. \A c \in Callers : caller[c] = "idle"
  BY DEF Init
<1>2. Work = "none"
  BY <1>1 DEF Init, Work, Callers
<1> QED BY <1>2 DEF Init, Trigger!Init

(* Work only changes when runMu changes hands.                             *)
LEMMA WorkUnchanged ==
  ASSUME loop' = loop \/ (loop # "cycle" /\ loop' # "cycle"), caller' = caller
  PROVE  Work' = Work
  BY DEF Work

(* Every step of the loop is a step of the trigger or leaves it alone.     *)
LEMMA NextImplements == LoopInv /\ [Next]_vars => [Trigger!Next]_Trigger!vars
<1> SUFFICES ASSUME LoopInv, [Next]_vars PROVE [Trigger!Next]_Trigger!vars
  OBVIOUS
<1> USE RequestAssumption DEF RequestAssumption, LoopInv, TypeOK, history
<1>1. ASSUME NEW h \in Editors, Save(h) PROVE Trigger!Edit
  BY <1>1, WorkUnchanged DEF Save, Trigger!Edit
<1>2. ASSUME NEW h \in Editors, Kick(h) PROVE Trigger!Ask \/ UNCHANGED Trigger!vars
  BY <1>2, WorkUnchanged DEF Kick, HistoryOrdered, Trigger!Ask, Trigger!vars
<1>3. CASE Tick \/ WakeOnTick \/ WakeOnKick \/ Cancel \/ UNCHANGED vars
  <2>1. UNCHANGED Trigger!vars
    BY <1>3, WorkUnchanged
    DEF Tick, WakeOnTick, WakeOnKick, Cancel, vars, Trigger!vars
  <2> QED BY <2>1
<1>4. CASE Return
  <2>1. Trigger!Stop
    BY <1>4, WorkUnchanged DEF Return, Trigger!Stop
  <2> QED BY <2>1 DEF Trigger!Next
<1>5. CASE LoopLocks
  <2>1. Trigger!Start("cycle")
    BY <1>5 DEF LoopLocks, LockHeld, Work, Callers, Trigger!Start
  <2> QED BY <2>1 DEF Trigger!Next
<1>6. CASE LoopUnlocks
  <2>1. Trigger!Finish
    BY <1>6 DEF LoopUnlocks, Serialized, Work, Callers, Trigger!Finish
  <2> QED BY <2>1 DEF Trigger!Next
<1>7. ASSUME NEW c \in Callers, Request(c) PROVE UNCHANGED Trigger!vars
  BY <1>7 DEF Request, Work, Callers, Trigger!vars
<1>8. ASSUME NEW c \in Callers, CallerLocks(c)
      PROVE \E kind \in {"cycle", "repair"} : Trigger!Start(kind)
  <2>1. CASE c \in Syncers
    <3>1. Trigger!Start("cycle")
      BY <1>8, <2>1 DEF CallerLocks, LockHeld, Work, Callers, Trigger!Start
    <3> QED BY <3>1
  <2>2. CASE c \notin Syncers
    <3>1. Trigger!Start("repair")
      BY <1>8, <2>2 DEF CallerLocks, LockHeld, Work, Callers, Trigger!Start
    <3> QED BY <3>1
  <2> QED BY <2>1, <2>2
<1>9. ASSUME NEW c \in Callers, CallerUnlocks(c) PROVE Trigger!Finish
  BY <1>9 DEF CallerUnlocks, Serialized, Work, Callers, Trigger!Finish
<1> QED
  BY <1>1, <1>2, <1>3, <1>4, <1>5, <1>6, <1>7, <1>8, <1>9 DEF Next, Trigger!Next

(* The channel, the ticker and the mutex implement the promise that a      *)
(* request is followed by a cycle and that work never overlaps.            *)
THEOREM LoopImplementsTrigger == Spec => ImplementsTrigger
<1> QED
  BY InitImplements, NextImplements, LoopInvariant, PTL
  DEF Spec, ImplementsTrigger, Trigger!SafeSpec
=============================================================================
