-------------------------- MODULE MCDashboardCalm --------------------------
(* Constants for TLC: MCDashboard's devices and admin, until they calm down.*)
EXTENDS MCDashboard, Convergence

(* Every client that is there has its address.                             *)
MCLeased(ctl) == {t \in MCReports(ctl) : \A m \in MCMACs : t[m] # Absent => t[m].ip = Lease(m)}

MCCalms == [MCControllers -> Reports(site)]
=============================================================================
