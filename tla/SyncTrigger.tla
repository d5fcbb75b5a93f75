---------------------------- MODULE SyncTrigger ----------------------------
(***************************************************************************)
(* What the sync engine promises the web handlers about when cycles run:   *)
(* an edit that was followed by a Kick is looked at by a cycle that starts *)
(* after it, and no two pieces of work on the registry ever overlap.  How  *)
(* requests travel (a channel, a ticker, a mutex) is not mentioned.        *)
(***************************************************************************)
EXTENDS Naturals

CONSTANT MaxEdits   \* bound on the number of edits, for model checking

VARIABLES
    edits,     \* number of edits committed to the database so far
    asked,     \* the newest edit whose handler has asked for a cycle
    covered,   \* the newest edit visible to the cycles started so far
    work,      \* what is running: "none", "cycle" or "repair"
    stopped    \* the background loop has returned

vars == <<edits, asked, covered, work, stopped>>

Init ==
    /\ edits = 0
    /\ asked = 0
    /\ covered = 0
    /\ work = "none"
    /\ stopped = FALSE

Edit ==
    /\ edits < MaxEdits
    /\ edits' = edits + 1
    /\ UNCHANGED <<asked, covered, work, stopped>>

(* A request names some edit that is already committed.                    *)
Ask ==
    /\ \E e \in 1..edits : e > asked /\ asked' = e
    /\ UNCHANGED <<edits, covered, work, stopped>>

Start(kind) ==
    /\ work = "none"
    /\ work' = kind
    /\ covered' = IF kind = "cycle" THEN edits ELSE covered
    /\ UNCHANGED <<edits, asked, stopped>>

Finish ==
    /\ work # "none"
    /\ work' = "none"
    /\ UNCHANGED <<edits, asked, covered, stopped>>

Stop ==
    /\ stopped' = TRUE
    /\ UNCHANGED <<edits, asked, covered, work>>

Next ==
    \/ Edit
    \/ Ask
    \/ \E kind \in {"cycle", "repair"} : Start(kind)
    \/ Finish
    \/ Stop

SafeSpec == Init /\ [][Next]_vars
=============================================================================
