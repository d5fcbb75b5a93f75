---------------------------- MODULE MCSyncLoop -----------------------------
(* Model values and symmetry for SyncLoop.                                 *)
EXTENDS SyncLoop, TLC

CONSTANTS h1, h2, s1, r1

MCEditors == {h1, h2}
MCSyncers == {s1}
MCRepairers == {r1}
=============================================================================
