---------------------------- MODULE NetworkMatch ----------------------------
(***************************************************************************)
(* registry.NetworkMatcher: the network an address belongs to.  A network  *)
(* is a record with its row id, whether it was added by hand, the          *)
(* controller it was imported from and its subnet; a subnet is known by    *)
(* its prefix length and the addresses inside it.                          *)
(***************************************************************************)
EXTENDS Naturals, SequencesExt

CONSTANTS
    Ones(_),          \* the prefix length of a subnet
    Inside(_, _),     \* Inside(s, ip): the subnet contains the address
    NoNet

(* betterMatch: does network a win over network b for a device seen by c?  *)
Better(a, b, c) ==
    \/ Ones(a.subnet) > Ones(b.subnet)
    \/ /\ Ones(a.subnet) = Ones(b.subnet)
       /\ \/ a.manual /\ ~b.manual
          \/ /\ a.manual = b.manual
             /\ \/ a.ctrl = c /\ b.ctrl # c
                \/ (a.ctrl = c <=> b.ctrl = c) /\ a.id < b.id

(* One entry of Match's loop.                                              *)
Keep(best, n, ip, c) ==
    IF Inside(n.subnet, ip) /\ (best = NoNet \/ Better(n, best, c)) THEN n ELSE best

(* Match, over the networks in the order in which they were loaded.        *)
Match(entries, ip, c) ==
    FoldLeft(LAMBDA best, n : Keep(best, n, ip, c), NoNet, entries)
=============================================================================
