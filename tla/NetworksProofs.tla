--------------------------- MODULE NetworksProofs ---------------------------
(***************************************************************************)
(* Proofs about Networks, for any controllers, networks and devices, with  *)
(* two importers, unanswered calls and restarts.                           *)
(***************************************************************************)
EXTENDS Networks, TLAPS, WellFoundedInduction, FiniteSetTheorems

-----------------------------------------------------------------------------
(* NetworkMatcher.Match finds the best network, for any list of networks.  *)
(* The loop is a fold, and the library has no induction the provers can    *)
(* use on it: what is proved of all sets of entries is proved of a         *)
(* smallest one for which it would not hold.                               *)

(* A set of natural numbers that is not empty has a least one.             *)
LEMMA LeastNat ==
    ASSUME NEW T \in SUBSET Nat, T # {}
    PROVE  \E x \in T : \A y \in T : x <= y
<1> DEFINE R == OpToRel(<, Nat)
<1>1. \E x \in T : \A y \in T : ~(<<y, x>> \in R)
  <2> HIDE DEF R
  <2>1. IsWellFoundedOn(R, Nat)
    BY NatLessThanWellFounded DEF R
  <2>2. QED
    BY <2>1, WFMin
<1>2. \A x, y \in Nat : y < x => <<y, x>> \in R
  BY DEF OpToRel
<1> HIDE DEF R
<1>3. PICK x \in T : \A y \in T : ~(<<y, x>> \in R)
  BY <1>1
<1>4. ASSUME NEW y \in T PROVE x <= y
  <2>1. x \in Nat /\ y \in Nat /\ ~(y < x)
    BY <1>2, <1>3
  <2>2. QED
    BY <2>1
<1>5. QED
  BY <1>3, <1>4

(* Of a set of sets of indices that is not empty, one has no smaller one   *)
(* in it.                                                                  *)
LEMMA SmallestSet ==
    ASSUME NEW n \in Nat, NEW Bad \in SUBSET SUBSET (1 .. n), Bad # {}
    PROVE  \E s \in Bad : \A x \in s : s \ {x} \notin Bad
<1>1. \A s \in SUBSET (1 .. n) : IsFiniteSet(s) /\ Cardinality(s) \in Nat
  <2>1. IsFiniteSet(1 .. n)
    BY FS_Interval
  <2>2. QED
    BY <2>1, FS_Subset, FS_CardinalityType
<1> DEFINE T == {Cardinality(s) : s \in Bad}
<1>2. PICK k \in T : \A j \in T : k <= j
  <2>1. T \in SUBSET Nat /\ T # {}
    BY <1>1
  <2> HIDE DEF T
  <2>2. QED
    BY <2>1, LeastNat
<1>3. PICK s \in Bad : Cardinality(s) = k
  BY <1>2
<1>4. ASSUME NEW x \in s, s \ {x} \in Bad PROVE FALSE
  <2>1. Cardinality(s \ {x}) = Cardinality(s) - 1
    BY <1>1, <1>4, FS_RemoveElement
  <2>2. k <= Cardinality(s \ {x})
    BY <1>2, <1>4
  <2>3. QED
    BY <1>1, <1>3, <2>1, <2>2
<1>5. QED
  BY <1>4

(* Max picks an element.                                                   *)
LEMMA MaxIn ==
    ASSUME NEW n \in Nat, NEW s \in SUBSET (1 .. n), s # {}
    PROVE  Max(s) \in s
<1> DEFINE T == {k \in Nat : \E i \in s : k = n - i}
<1>0. \A i \in s : i \in 1 .. n /\ n - i \in Nat
  OBVIOUS
<1>1. PICK k \in T : \A j \in T : k <= j
  <2>1. T \in SUBSET Nat /\ T # {}
    BY <1>0
  <2> HIDE DEF T
  <2>2. QED
    BY <2>1, LeastNat
<1>2. PICK x \in s : k = n - x
  BY <1>1
<1>3. \A y \in s : x >= y
  <2> SUFFICES ASSUME NEW y \in s PROVE x >= y
    OBVIOUS
  <2>1. k <= n - y
    BY <1>0, <1>1
  <2>2. QED
    BY <1>0, <1>2, <2>1
<1>4. QED
  BY <1>3 DEF Max

-----------------------------------------------------------------------------
(* The order of the networks.                                              *)

(* Networks with a prefix length and distinct row ids.                     *)
IsNetworkSet(N) ==
    /\ NoNet \notin N
    /\ \A a \in N : Ones(a.subnet) \in Nat /\ a.id \in Nat /\ a.manual \in BOOLEAN
    /\ \A a, b \in N : a.id = b.id => a = b

(* betterMatch is a strict total order: of two networks exactly one wins,  *)
(* and winning is transitive.                                              *)
THEOREM BetterIsTotal ==
    ASSUME NEW N, IsNetworkSet(N), NEW c
    PROVE  /\ \A a, b \in N : a # b <=> Better(a, b, c) \/ Better(b, a, c)
           /\ \A a, b \in N : ~(Better(a, b, c) /\ Better(b, a, c))
           /\ \A a, b, d \in N : Better(a, b, c) /\ Better(b, d, c) => Better(a, d, c)
<1> USE DEF IsNetworkSet, Better
<1>1. \A a, b \in N : a # b => Better(a, b, c) \/ Better(b, a, c)
  OBVIOUS
<1>2. \A a, b \in N : ~(Better(a, b, c) /\ Better(b, a, c))
  OBVIOUS
<1>3. \A a, b, d \in N : Better(a, b, c) /\ Better(b, d, c) => Better(a, d, c)
  OBVIOUS
<1>4. QED
  BY <1>1, <1>2, <1>3

-----------------------------------------------------------------------------
(* The loop of Match.                                                      *)

Around(entries, s, ip) == {i \in s : Inside(entries[i].subnet, ip)}

(* n is the best of the entries with an index in s around the address.     *)
IsBest(n, entries, s, ip, c) ==
    /\ Around(entries, s, ip) = {} => n = NoNet
    /\ Around(entries, s, ip) # {} =>
          /\ \E i \in Around(entries, s, ip) : n = entries[i]
          /\ \A j \in Around(entries, s, ip) : entries[j] = n \/ Better(n, entries[j], c)

(* One step of the loop keeps the best: whichever entry comes next.        *)
LEMMA KeepBest ==
    ASSUME NEW N, IsNetworkSet(N), NEW entries \in Seq(N), NEW ip, NEW c, NEW best,
           NEW s \in SUBSET DOMAIN entries, NEW x \in s,
           IsBest(best, entries, s \ {x}, ip, c)
    PROVE  IsBest(Keep(best, entries[x], ip, c), entries, s, ip, c)
<1>1. \A i \in s : entries[i] \in N /\ entries[i] # NoNet
  BY DEF IsNetworkSet
<1> DEFINE rest == Around(entries, s \ {x}, ip)
           all == Around(entries, s, ip)
<1>2. CASE ~Inside(entries[x].subnet, ip)
  <2>1. all = rest
    BY <1>2 DEF Around
  <2>2. QED
    BY <1>2, <2>1 DEF Keep, IsBest
<1>3. CASE Inside(entries[x].subnet, ip) /\ rest = {}
  <2>1. all = {x} /\ best = NoNet
    BY <1>3 DEF Around, IsBest
  <2>2. QED
    BY <1>3, <2>1 DEF Keep, IsBest
<1>4. CASE Inside(entries[x].subnet, ip) /\ rest # {}
  <2>1. /\ all = rest \cup {x} /\ rest \subseteq s
        /\ best \in N /\ best # NoNet
        /\ \E i \in rest : best = entries[i]
        /\ \A j \in rest : entries[j] = best \/ Better(best, entries[j], c)
    BY <1>1, <1>4 DEF Around, IsBest
  <2> HIDE DEF rest, all
  <2>2. CASE Better(entries[x], best, c)
    <3>1. Keep(best, entries[x], ip, c) = entries[x]
      BY <1>4, <2>2 DEF Keep
    <3>2. \A j \in all : entries[j] = entries[x] \/ Better(entries[x], entries[j], c)
      BY <1>1, <2>1, <2>2, BetterIsTotal
    <3>3. QED
      BY <2>1, <3>1, <3>2 DEF IsBest, all
  <2>3. CASE ~Better(entries[x], best, c)
    <3>1. Keep(best, entries[x], ip, c) = best
      BY <2>1, <2>3 DEF Keep
    <3>2. \A j \in all : entries[j] = best \/ Better(best, entries[j], c)
      BY <1>1, <2>1, <2>3, BetterIsTotal
    <3>3. QED
      BY <2>1, <3>1, <3>2 DEF IsBest, all
  <2>4. QED
    BY <2>2, <2>3
<1>5. QED
  BY <1>2, <1>3, <1>4

(* There is only one best.                                                 *)
LEMMA BestIsUnique ==
    ASSUME NEW N, IsNetworkSet(N), NEW entries \in Seq(N), NEW ip, NEW c, NEW m, NEW n,
           NEW s \in SUBSET DOMAIN entries,
           IsBest(m, entries, s, ip, c), IsBest(n, entries, s, ip, c)
    PROVE  m = n
<1>1. \A i \in Around(entries, s, ip) : entries[i] \in N
  BY DEF Around
<1>2. CASE Around(entries, s, ip) = {}
  BY <1>2 DEF IsBest
<1>3. CASE Around(entries, s, ip) # {}
  <2>1. m \in N /\ n \in N /\ (m = n \/ (Better(m, n, c) /\ Better(n, m, c)))
    BY <1>1, <1>3 DEF IsBest
  <2>2. QED
    BY <2>1, BetterIsTotal
<1>4. QED
  BY <1>2, <1>3

(* The fold of Match, as a function of the set of indices to go.           *)
Loop(f, entries, ip, c) ==
    [s \in SUBSET DOMAIN entries |->
        IF s = {} THEN NoNet ELSE Keep(f[s \ {Max(s)}], entries[Max(s)], ip, c)]

(* Match is the last value of a function on the indices, as Loop builds it. *)
LEMMA MatchIsLoop ==
    ASSUME NEW entries, NEW ip, NEW c
    PROVE  Match(entries, ip, c)
               = (CHOOSE f : f = Loop(f, entries, ip, c))[DOMAIN entries]
  BY DEF Match, FoldLeft, MapThenFoldSet, Loop

(* The first entry, or the empty set, to start with.                       *)
LEMMA BestOfNone ==
    ASSUME NEW entries, NEW ip, NEW c
    PROVE  IsBest(NoNet, entries, {}, ip, c)
  BY DEF IsBest, Around

(* What the loop computes is the best, for any function that satisfies its *)
(* equation.                                                               *)
LEMMA LoopIsBest ==
    ASSUME NEW N, IsNetworkSet(N), NEW entries \in Seq(N), NEW ip, NEW c, NEW f,
           f = Loop(f, entries, ip, c)
    PROVE  \A s \in SUBSET DOMAIN entries : IsBest(f[s], entries, s, ip, c)
<1> DEFINE n == Len(entries)
           Bad == {s \in SUBSET (1 .. n) : ~IsBest(f[s], entries, s, ip, c)}
<1>1. n \in Nat /\ DOMAIN entries = 1 .. n
  OBVIOUS
<1>2. ASSUME Bad # {} PROVE FALSE
  <2>1. PICK s \in Bad : \A x \in s : s \ {x} \notin Bad
    <3>1. Bad \in SUBSET SUBSET (1 .. n)
      OBVIOUS
    <3> HIDE DEF Bad, n
    <3>2. QED
      BY <1>1, <1>2, <3>1, SmallestSet
  <2>2. s \in SUBSET (1 .. n) /\ ~IsBest(f[s], entries, s, ip, c)
    BY <2>1
  <2>3. f[s] = IF s = {} THEN NoNet ELSE Keep(f[s \ {Max(s)}], entries[Max(s)], ip, c)
    BY <1>1, <2>2 DEF Loop
  <2>4. CASE s = {}
    BY <2>2, <2>3, <2>4, BestOfNone
  <2>5. CASE s # {}
    <3>1. Max(s) \in s
      BY <1>1, <2>2, <2>5, MaxIn
    <3>2. IsBest(f[s \ {Max(s)}], entries, s \ {Max(s)}, ip, c)
      BY <2>1, <2>2, <3>1
    <3> HIDE DEF Bad
    <3>3. IsBest(Keep(f[s \ {Max(s)}], entries[Max(s)], ip, c), entries, s, ip, c)
      BY <1>1, <2>2, <3>1, <3>2, KeepBest
    <3>4. QED
      BY <2>2, <2>3, <2>5, <3>3
  <2>6. QED
    BY <2>4, <2>5
<1>3. QED
  BY <1>1, <1>2

(* Some function satisfies the equation: the one that gives the best.      *)
LEMMA LoopExists ==
    ASSUME NEW N, IsNetworkSet(N), NEW entries \in Seq(N), NEW ip, NEW c
    PROVE  \E f : f = Loop(f, entries, ip, c)
<1> DEFINE n == Len(entries)
           Bad == {s \in SUBSET (1 .. n) : ~\E m : IsBest(m, entries, s, ip, c)}
           g == [s \in SUBSET DOMAIN entries |-> CHOOSE m : IsBest(m, entries, s, ip, c)]
<1>1. n \in Nat /\ DOMAIN entries = 1 .. n
  OBVIOUS
<1>2. ASSUME Bad # {} PROVE FALSE
  <2>1. PICK s \in Bad : \A x \in s : s \ {x} \notin Bad
    <3>1. Bad \in SUBSET SUBSET (1 .. n)
      OBVIOUS
    <3> HIDE DEF Bad, n
    <3>2. QED
      BY <1>1, <1>2, <3>1, SmallestSet
  <2>2. s \in SUBSET (1 .. n) /\ ~\E m : IsBest(m, entries, s, ip, c)
    BY <2>1
  <2>3. s # {}
    BY <2>2, BestOfNone
  <2>4. Max(s) \in s
    BY <1>1, <2>2, <2>3, MaxIn
  <2>5. PICK m : IsBest(m, entries, s \ {Max(s)}, ip, c)
    BY <2>1, <2>2, <2>4
  <2>6. IsBest(Keep(m, entries[Max(s)], ip, c), entries, s, ip, c)
    BY <1>1, <2>2, <2>4, <2>5, KeepBest
  <2>7. QED
    BY <2>2, <2>6
<1>3. \A s \in SUBSET DOMAIN entries : IsBest(g[s], entries, s, ip, c)
  BY <1>1, <1>2
<1>a. g = [s \in SUBSET DOMAIN entries |-> g[s]]
  OBVIOUS
<1> HIDE DEF g
<1>4. ASSUME NEW s \in SUBSET DOMAIN entries
      PROVE g[s] = IF s = {} THEN NoNet ELSE Keep(g[s \ {Max(s)}], entries[Max(s)], ip, c)
  <2>1. CASE s = {}
    BY <1>3, <2>1, BestOfNone, BestIsUnique
  <2>2. CASE s # {}
    <3>1. Max(s) \in s
      BY <1>1, <2>2, MaxIn
    <3>2. IsBest(g[s \ {Max(s)}], entries, s \ {Max(s)}, ip, c)
      BY <1>3
    <3>3. IsBest(Keep(g[s \ {Max(s)}], entries[Max(s)], ip, c), entries, s, ip, c)
      BY <3>1, <3>2, KeepBest
    <3>4. QED
      BY <1>3, <2>2, <3>3, BestIsUnique
  <2>3. QED
    BY <2>1, <2>2
<1>5. g = Loop(g, entries, ip, c)
  BY <1>a, <1>4 DEF Loop
<1>6. QED
  BY <1>5

(* NetworkMatcher.Match: for any list of networks, in any order and with   *)
(* repetitions, the result is the network around the address that beats    *)
(* all others around it, or none if there is none.                         *)
THEOREM MatchIsBest ==
    ASSUME NEW N, IsNetworkSet(N), NEW entries \in Seq(N), NEW ip, NEW c
    PROVE  IsBest(Match(entries, ip, c), entries, DOMAIN entries, ip, c)
<1> DEFINE f == CHOOSE g : g = Loop(g, entries, ip, c)
<1>1. f = Loop(f, entries, ip, c)
  BY LoopExists
<1> HIDE DEF f
<1>2. IsBest(f[DOMAIN entries], entries, DOMAIN entries, ip, c)
  BY <1>1, LoopIsBest
<1>3. QED
  BY <1>2, MatchIsLoop DEF f

-----------------------------------------------------------------------------
(* The inductive invariants.                                               *)

Row(k) == nets[k] # NoRow

(* The row has the identity that its key gave it when it was inserted.     *)
SameRow(row, k) ==
    row.id = nets[k].id /\ row.manual = nets[k].manual /\ row.ctrl = nets[k].ctrl

(* Row ids count up, and the row of an imported network never goes away.   *)
RowsKeyed ==
    /\ \A k \in Keys : Row(k) => k \in born /\ nets[k].id <= Cardinality(born)
    /\ \A k \in Keys : Row(k) => (nets[k].manual <=> k[1] = NoController)
    /\ \A k, l \in Keys : k # l /\ Row(k) /\ Row(l) => nets[k].id # nets[l].id
    /\ \A k \in born : k[1] # NoController => Row(k)

(* A request is about a new manual row, or about a row that is there.      *)
Requested ==
    req # Idle =>
        /\ req.op = "create" => req.key \notin born /\ req.key[1] = NoController
        /\ req.op # "create" => Row(req.key) /\ SameRow(req.row, req.key)
        /\ req.op = "drop" => req.key[1] = NoController

(* An import asks for networks it was told of, and holds a row that is     *)
(* there.                                                                  *)
Right(imp) ==
    imp # Idle =>
        /\ \A u \in imp.left : imp.fetched[u] # NoSubnet
        /\ imp.key # Idle =>
              /\ imp.key \in Controllers \X Imported
              /\ imp.fetched[imp.key[2]] # NoSubnet
              /\ imp.hold # NoRow => Row(imp.key) /\ SameRow(imp.hold, imp.key)

Imports == \A i \in Importers : Right(import[i])

(* A cycle that places devices matches against networks with distinct ids. *)
Matched ==
    /\ phase # "place" => known = {} /\ copy = NoCopy
    /\ \A n, o \in known : n.id = o.id => n = o

NetsInv == TypeOK /\ RowsKeyed /\ Requested /\ Imports /\ Matched

(* Edits keep clear of the imports of a row and of passes.                 *)
Apart ==
    req # Idle => phase # "place" /\ import["refresh"] = Idle /\ ~Holding

(* A row that an import holds has the zone of the row it will replace.     *)
Held(imp) ==
    imp # Idle /\ imp.key # Idle /\ imp.hold # NoRow => imp.hold.zone = nets[imp.key].zone

HeldZone == \A i \in Importers : Held(import[i])

Exists(id) == \E k \in Keys : Row(k) /\ nets[k].id = id

(* What the cycle matches against and what it will save exists.            *)
CycleKnows ==
    /\ \A n \in known : Exists(n.id)
    /\ \A d \in Devices : copy[d] # NoRow /\ copy[d].net # 0 => Exists(copy[d].net)

CalmInv == Apart /\ HeldZone /\ CycleKnows /\ PlacedOnKnown

(* The part that edits could break only needs to hold if they keep apart.  *)
Inv == NetsInv /\ (~Overlap => CalmInv)

-----------------------------------------------------------------------------
(* Keys and row ids.                                                       *)

(* A key belongs to an imported network or to a manual one, not both.      *)
LEMMA KeyKinds ==
    /\ \A k \in Controllers \X Imported :
          k \in Keys /\ k[1] \in Controllers /\ k[1] # NoController /\ k[2] \in Imported
    /\ \A m \in ManualIds : <<NoController, m>> \in Keys
    /\ \A k \in Keys : k[1] \in Controllers \cup {NoController}
    /\ \A k \in Keys : k[1] # NoController => k \in Controllers \X Imported
  BY NetworksAssumption DEF Keys, NetworksAssumption

(* There are finitely many keys.                                           *)
LEMMA KeysCount == IsFiniteSet(Keys) /\ Cardinality(Keys) \in Nat
  BY NetworksAssumption, FS_CardinalityType DEF NetworksAssumption

(* A key that has no row yet leaves room for one more id.                  *)
LEMMA NextId ==
    ASSUME NEW B \in SUBSET Keys, NEW key \in Keys \ B
    PROVE  /\ Cardinality(B) \in Nat
           /\ Cardinality(B) + 1 \in 1 .. Cardinality(Keys)
           /\ Cardinality(B \cup {key}) = Cardinality(B) + 1
<1>1. IsFiniteSet(Keys) /\ Cardinality(Keys) \in Nat
  BY KeysCount
<1>2. IsFiniteSet(B) /\ Cardinality(B) <= Cardinality(Keys) /\ Cardinality(B) # Cardinality(Keys)
  BY <1>1, FS_Subset
<1>3. Cardinality(B) \in Nat
  BY <1>2, FS_CardinalityType
<1>4. Cardinality(B \cup {key}) = Cardinality(B) + 1
  BY <1>2, FS_AddElement
<1>5. QED
  BY <1>1, <1>2, <1>3, <1>4

(* A new row is a network, with the next id.                               *)
LEMMA InsertedType ==
    ASSUME born \in SUBSET Keys, NEW key \in Keys \ born, NEW subnet \in Subnets,
           NEW zone \in AnyZone
    PROVE  /\ Inserted(key, subnet, zone) \in Network
           /\ Inserted(key, subnet, zone) # NoRow
           /\ Inserted(key, subnet, zone).id = Cardinality(born) + 1
           /\ Inserted(key, subnet, zone).manual <=> key[1] = NoController
           /\ Inserted(key, subnet, zone).zone = zone
<1>1. Inserted(key, subnet, zone) \in Network
  BY NextId, KeyKinds DEF Inserted, Network
<1>2. QED
  BY <1>1, NullAssumption DEF Inserted, NullAssumption

(* The rows there were are still there, and are the same networks.         *)
Grows ==
    \A k \in Keys : Row(k) => Row(k)' /\ nets'[k].id = nets[k].id
                              /\ nets'[k].manual = nets[k].manual /\ nets'[k].ctrl = nets[k].ctrl

(* What writing one row does to the table.                                 *)
WritesRow(key) ==
    /\ nets' \in [Keys -> Network \cup {NoRow}] /\ born' \subseteq Keys
    /\ born' = born \cup {key} /\ RowsKeyed' /\ Grows
    /\ \A k \in Keys \ {key} : nets'[k] = nets[k]

(* Saving a row under the id it has keeps the table keyed.                 *)
LEMMA Replaced ==
    ASSUME TypeOK, RowsKeyed, NEW key \in Keys, Row(key), NEW row \in Network, SameRow(row, key),
           nets' = [nets EXCEPT ![key] = row], born' = born \cup {key}
    PROVE  WritesRow(key)
<1> USE DEF TypeOK
<1>1. row # NoRow /\ born' = born
  BY NullAssumption DEF NullAssumption, RowsKeyed
<1>2. nets'[key] = row /\ \A k \in Keys \ {key} : nets'[k] = nets[k]
  OBVIOUS
<1>3. \A k \in Keys : /\ Row(k)' <=> Row(k)
                      /\ Row(k) => nets'[k].id = nets[k].id /\ nets'[k].manual = nets[k].manual
                                   /\ nets'[k].ctrl = nets[k].ctrl
  BY <1>1, <1>2 DEF Row, SameRow
<1>4. \A k \in Keys : Row(k)' => k \in born' /\ nets'[k].id <= Cardinality(born')
  BY <1>1, <1>3 DEF RowsKeyed
<1>5. \A k \in Keys : Row(k)' => (nets'[k].manual <=> k[1] = NoController)
  BY <1>3 DEF RowsKeyed
<1>6. \A k, l \in Keys : k # l /\ Row(k)' /\ Row(l)' => nets'[k].id # nets'[l].id
  BY <1>3 DEF RowsKeyed
<1>7. \A k \in born' : k[1] # NoController => Row(k)'
  BY <1>1, <1>3 DEF RowsKeyed
<1>8. RowsKeyed'
  BY <1>4, <1>5, <1>6, <1>7 DEF RowsKeyed
<1>9. QED
  BY <1>1, <1>2, <1>3, <1>8 DEF WritesRow, Grows

(* Inserting a row under a key never used keeps the table keyed.           *)
LEMMA Added ==
    ASSUME TypeOK, RowsKeyed, NEW key \in Keys \ born,
           NEW subnet \in Subnets, NEW zone \in AnyZone,
           nets' = [nets EXCEPT ![key] = Inserted(key, subnet, zone)], born' = born \cup {key}
    PROVE  WritesRow(key)
<1> DEFINE row == Inserted(key, subnet, zone)
<1>1. /\ row \in Network /\ row # NoRow /\ row.id = Cardinality(born) + 1
      /\ row.manual <=> key[1] = NoController
  BY InsertedType DEF TypeOK
<1>2. Cardinality(born) \in Nat /\ Cardinality(born') = Cardinality(born) + 1
  BY NextId DEF TypeOK
<1> HIDE DEF row
<1>3. nets' \in [Keys -> Network \cup {NoRow}] /\ nets'[key] = row
      /\ \A k \in Keys \ {key} : nets'[k] = nets[k]
  BY <1>1 DEF TypeOK, row
<1>4. ~Row(key)
  BY DEF RowsKeyed
<1>5. \A k \in Keys : Row(k) => nets[k].id \in Nat /\ nets[k].id <= Cardinality(born)
  BY DEF RowsKeyed, TypeOK, Row, Network
<1>6. \A k \in Keys : Row(k)' <=> Row(k) \/ k = key
  BY <1>1, <1>3, <1>4 DEF Row
<1>7. \A k \in Keys : Row(k)' => k \in born' /\ nets'[k].id <= Cardinality(born')
  BY <1>1, <1>2, <1>3, <1>5, <1>6 DEF RowsKeyed
<1>8. \A k \in Keys : Row(k)' => (nets'[k].manual <=> k[1] = NoController)
  BY <1>1, <1>3, <1>6 DEF RowsKeyed
<1>9. \A k, l \in Keys : k # l /\ Row(k)' /\ Row(l)' => nets'[k].id # nets'[l].id
  BY <1>1, <1>2, <1>3, <1>5, <1>6 DEF RowsKeyed
<1>10. \A k \in born' : k[1] # NoController => Row(k)'
  BY <1>6 DEF RowsKeyed, TypeOK
<1>11. RowsKeyed'
  BY <1>7, <1>8, <1>9, <1>10 DEF RowsKeyed
<1>12. QED
  BY <1>3, <1>4, <1>6, <1>11 DEF WritesRow, Grows, TypeOK

(* A request stays right while an import writes.                           *)
LEMMA RequestKept ==
    ASSUME NetsInv, NEW key \in Keys, WritesRow(key), key[1] # NoController, req' = req
    PROVE  Requested'
<1> USE DEF NetsInv
<1>1. ASSUME req # Idle PROVE Requested'
  <2>1. req.key \in Keys
    BY <1>1 DEF TypeOK, Request
  <2>2. req.op = "create" => req.key \notin born' /\ req.key[1] = NoController
    BY <1>1, <2>1 DEF Requested, WritesRow
  <2>3. req.op # "create" => Row(req.key)' /\ req.row.id = nets'[req.key].id
            /\ req.row.manual = nets'[req.key].manual /\ req.row.ctrl = nets'[req.key].ctrl
    BY <1>1, <2>1 DEF Requested, WritesRow, Grows, SameRow
  <2>4. req.op = "drop" => req.key[1] = NoController
    BY <1>1 DEF Requested
  <2>5. QED
    BY <1>1, <2>2, <2>3, <2>4 DEF Requested, SameRow
<1>2. req = Idle => Requested'
  BY DEF Requested
<1>3. QED
  BY <1>1, <1>2

(* So does what an import holds, whatever row is written.                  *)
LEMMA ImportKept ==
    ASSUME NetsInv, NEW imp, Right(imp), Grows
    PROVE  Right(imp)'
<1>1. imp # Idle /\ imp.key # Idle /\ imp.hold # NoRow =>
          Row(imp.key)' /\ imp.hold.id = nets'[imp.key].id
              /\ imp.hold.manual = nets'[imp.key].manual /\ imp.hold.ctrl = nets'[imp.key].ctrl
  BY KeyKinds DEF Right, Grows, SameRow
<1>2. QED
  BY <1>1 DEF Right, SameRow

-----------------------------------------------------------------------------
(* The steps that write the table.                                         *)

(* An import that is over or goes on is an import.                         *)
LEMMA RemainingIs ==
    ASSUME NEW imp
    PROVE  Remaining(imp) \in {imp, Idle}
  BY DEF Remaining

(* Changing one import keeps the others.                                   *)
LEMMA OneImport ==
    ASSUME TypeOK, \A j \in Importers : \A old \in {import[j]} : Right(old)', NEW i \in Importers,
           NEW imp \in Import \cup {Idle}, Right(imp)',
           import' = [import EXCEPT ![i] = imp]
    PROVE  Imports' /\ import' \in [Importers -> Import \cup {Idle}]
  BY DEF Imports, TypeOK

(* What one write of an import does: the key has a row afterwards, with    *)
(* the zone of the row that was there.                                     *)
LEMMA WriteNets ==
    ASSUME NetsInv, NEW i \in Importers, Write(i)
    PROVE  \E imp \in Import :
              /\ imp = import[i] /\ imp.key \in Controllers \X Imported
              /\ WritesRow(imp.key)
              /\ Held(imp) => \A k \in Keys : Row(k) => nets'[k].zone = nets[k].zone
<1> USE DEF NetsInv
<1>1. PICK imp \in Import : imp = import[i]
  BY DEF Write, TypeOK
<1>2. imp # Idle /\ imp.key # Idle /\ Right(imp)
  BY <1>1 DEF Write, Imports
<1>3. PICK key \in Controllers \X Imported : key = imp.key
  BY <1>2 DEF Right
<1>4. key \in Keys /\ key[1] # NoController /\ key[2] \in Imported
  BY KeyKinds
<1>5. imp.fetched[key[2]] \in Subnets
  <2>1. imp.fetched \in Report
    BY DEF Import
  <2>2. QED
    BY <1>2, <1>3, <1>4, <2>1 DEF Right, Report
<1>6. born' = born \cup {key}
  BY <1>1, <1>3 DEF Write
<1>7. CASE imp.hold # NoRow
  <2>1. nets' = [nets EXCEPT ![key] = imp.hold]
    BY <1>1, <1>3, <1>7 DEF Write
  <2>2. imp.hold \in Network /\ Row(key) /\ SameRow(imp.hold, key)
    BY <1>2, <1>3, <1>7 DEF Right, Import
  <2>3. WritesRow(key)
    BY <1>4, <1>6, <2>1, <2>2, Replaced
  <2>4. Held(imp) => nets'[key].zone = nets[key].zone
    BY <1>2, <1>3, <1>4, <1>7, <2>1 DEF Held, TypeOK
  <2>5. Held(imp) => \A k \in Keys : Row(k) => nets'[k].zone = nets[k].zone
    BY <2>3, <2>4 DEF WritesRow
  <2>6. QED
    BY <1>1, <1>3, <2>3, <2>5
<1>8. CASE imp.hold = NoRow /\ nets[key] # NoRow
  <2>1. nets' = nets
    BY <1>1, <1>3, <1>8 DEF Write
  <2>2. born' = born
    BY <1>4, <1>6, <1>8 DEF RowsKeyed, Row
  <2>3. WritesRow(key)
    BY <1>6, <2>1, <2>2 DEF WritesRow, Grows, RowsKeyed, Row, TypeOK
  <2>4. QED
    BY <1>1, <1>3, <2>1, <2>3
<1>9. CASE imp.hold = NoRow /\ nets[key] = NoRow
  <2>1. nets' = [nets EXCEPT ![key] = Inserted(key, imp.fetched[key[2]], NoZone)]
    BY <1>1, <1>3, <1>9 DEF Write
  <2>2. key \in Keys \ born
    BY <1>4, <1>9 DEF RowsKeyed, Row
  <2>3. NoZone \in AnyZone
    BY DEF AnyZone
  <2>4. WritesRow(key)
    BY <1>5, <1>6, <2>1, <2>2, <2>3, Added
  <2>5. \A k \in Keys : Row(k) => nets'[k].zone = nets[k].zone
    BY <1>9, <2>4 DEF WritesRow, Row
  <2>6. QED
    BY <1>1, <1>3, <2>4, <2>5
<1>10. QED
  BY <1>7, <1>8, <1>9

(* A held row stays right when the zones of the rows there were do not     *)
(* change.                                                                 *)
LEMMA HeldKept ==
    ASSUME NEW imp, Right(imp), Held(imp),
           \A k \in Keys : Row(k) => nets'[k].zone = nets[k].zone
    PROVE  Held(imp)'
  BY KeyKinds DEF Right, Held

(* What one write of an import does: an insert, a save or nothing.         *)
LEMMA WriteStep ==
    ASSUME NetsInv, NEW i \in Importers, Write(i)
    PROVE  /\ nets' \in [Keys -> Network \cup {NoRow}] /\ born' \subseteq Keys
           /\ RowsKeyed' /\ Grows /\ Requested' /\ Imports'
           /\ import' \in [Importers -> Import \cup {Idle}]
           /\ HeldZone => \A k \in Keys : Row(k) => nets'[k].zone = nets[k].zone
           /\ HeldZone => HeldZone'
<1> USE DEF NetsInv
<1>1. PICK imp \in Import :
          /\ imp = import[i] /\ imp.key \in Controllers \X Imported
          /\ WritesRow(imp.key)
          /\ Held(imp) => \A k \in Keys : Row(k) => nets'[k].zone = nets[k].zone
  BY WriteNets
<1>2. imp.key \in Keys /\ imp.key[1] # NoController
  BY <1>1, KeyKinds
<1>3. Grows /\ Requested'
  <2>1. req' = req
    BY DEF Write
  <2>2. QED
    BY <1>1, <1>2, <2>1, RequestKept DEF WritesRow
<1>4. \A j \in Importers : \A old \in {import[j]} : Right(old)'
  BY <1>3, ImportKept DEF Imports
<1>5. PICK next \in Import \cup {Idle} : import' = [import EXCEPT ![i] = next] /\ Right(next)'
           /\ Held(next)'
  <2> DEFINE done(clash) == [imp EXCEPT !.key = Idle, !.hold = NoRow,
                                        !.left = IF clash THEN {} ELSE imp.left]
         twice == imp.hold = NoRow /\ nets[imp.key] # NoRow
  <2>1. PICK clash \in BOOLEAN : import' = [import EXCEPT ![i] = Remaining(done(clash))]
    <3>1. import' = [import EXCEPT ![i] = Remaining(done(twice))]
      BY <1>1 DEF Write
    <3>2. twice \in BOOLEAN
      OBVIOUS
    <3>3. QED
      BY <3>1, <3>2
  <2>2. done(clash) \in Import /\ done(clash).key = Idle /\ done(clash).fetched = imp.fetched
        /\ done(clash).left \subseteq imp.left
    BY DEF Import
  <2>3. Right(imp) /\ imp # Idle
    BY <1>1 DEF Imports, Write
  <2> HIDE DEF done
  <2>4. Right(done(clash))' /\ Right(Idle)' /\ Held(done(clash))' /\ Held(Idle)'
    BY <2>2, <2>3 DEF Right, Held
  <2>5. QED
    BY <2>1, <2>2, <2>4, RemainingIs
<1>6. Imports' /\ import' \in [Importers -> Import \cup {Idle}]
  BY <1>4, <1>5, OneImport
<1>7. HeldZone => \A k \in Keys : Row(k) => nets'[k].zone = nets[k].zone
  BY <1>1 DEF HeldZone
<1>8. HeldZone => HeldZone'
  <2> SUFFICES ASSUME HeldZone PROVE HeldZone'
    OBVIOUS
  <2>1. \A j \in Importers : \A old \in {import[j]} : Held(old)'
    BY <1>7, HeldKept DEF HeldZone, Imports
  <2>2. QED
    BY <1>5, <2>1 DEF HeldZone, TypeOK
<1>9. QED
  BY <1>1, <1>3, <1>6, <1>7, <1>8 DEF WritesRow

(* A lookup goes on to the next network, or holds the row it will write.   *)
LEMMA LookupStep ==
    ASSUME NetsInv, NEW i \in Importers, NEW u \in Imported, Lookup(i, u)
    PROVE  /\ Imports' /\ import' \in [Importers -> Import \cup {Idle}]
           /\ HeldZone => HeldZone'
<1> USE DEF NetsInv
<1>1. PICK imp \in Import : imp = import[i]
  BY DEF Lookup, TypeOK
<1>2. imp # Idle /\ imp.key = Idle /\ u \in imp.left /\ Right(imp)
  BY <1>1 DEF Lookup, Imports
<1>3. PICK key \in Controllers \X Imported : key = <<imp.ctrl, u>>
  BY DEF Import
<1>4. key \in Keys /\ key[2] = u
  BY <1>3, KeyKinds
<1>5. imp.fetched[u] \in Subnets /\ imp.fetched[u] # NoSubnet
  <2>1. imp.fetched \in Report
    BY DEF Import
  <2>2. QED
    BY <1>2, <2>1 DEF Right, Report
<1> DEFINE rest == [imp EXCEPT !.left = imp.left \ {u}]
           hold == IF nets[key] = NoRow THEN NoRow ELSE Refreshed(nets[key], imp.fetched[u])
           kept == [rest EXCEPT !.key = key, !.hold = hold]
<1>6. rest \in Import /\ Right(rest)' /\ Held(rest)'
  BY <1>2 DEF Import, Right, Held
<1>7. hold \in Network \cup {NoRow}
      /\ (hold # NoRow => Row(key) /\ SameRow(hold, key) /\ hold.zone = nets[key].zone)
  BY <1>4, <1>5, NullAssumption DEF Refreshed, Row, SameRow, Network, TypeOK, NullAssumption
<1>8. PICK next \in Import : next = kept /\ Right(next)' /\ Held(next)'
  <2>1. nets' = nets
    BY DEF Lookup
  <2>a. PICK h \in Network \cup {NoRow} : h = hold
    BY <1>7
  <2> HIDE DEF hold
  <2>b. [imp EXCEPT !.left = imp.left \ {u}, !.key = key, !.hold = h] \in Import
    BY <1>4, <2>a DEF Import
  <2>2. PICK next \in Import : /\ next = kept /\ next.key = key /\ next.hold = hold
                               /\ next.fetched = imp.fetched /\ next.left = imp.left \ {u}
    BY <2>a, <2>b DEF Import
  <2>3. Right(next)'
    BY <1>2, <1>4, <1>5, <1>7, <2>1, <2>2 DEF Right, Row, SameRow
  <2>4. Held(next)'
    BY <1>7, <2>1, <2>2 DEF Held
  <2>5. QED
    BY <2>2, <2>3, <2>4
<1>9. PICK new \in {Remaining(rest), kept} : import' = [import EXCEPT ![i] = new]
  BY <1>1, <1>3 DEF Lookup
<1>10. new \in Import \cup {Idle} /\ Right(new)' /\ Held(new)'
  <2>1. Right(Idle)' /\ Held(Idle)'
    BY DEF Right, Held
  <2> HIDE DEF rest, kept
  <2>2. QED
    BY <1>6, <1>8, <1>9, <2>1, RemainingIs
<1>11. nets' = nets
  BY DEF Lookup
<1>12. \A j \in Importers : \A old \in {import[j]} : Right(old)'
  BY <1>11 DEF Imports, Right, Row, SameRow
<1>13. Imports' /\ import' \in [Importers -> Import \cup {Idle}]
  BY <1>9, <1>10, <1>12, OneImport
<1>14. HeldZone => HeldZone'
  BY <1>9, <1>10, <1>11 DEF HeldZone, Held, TypeOK
<1>15. QED
  BY <1>13, <1>14

(* An import begins with the networks the controller reports.              *)
LEMMA FetchStep ==
    ASSUME NetsInv, NEW c \in Controllers, NEW i \in Importers,
           import' = [import EXCEPT ![i] = Fetched(c)], nets' = nets
    PROVE  /\ Imports' /\ import' \in [Importers -> Import \cup {Idle}]
           /\ HeldZone => HeldZone'
           /\ import'[i] # Idle => import'[i].key = Idle
<1> USE DEF NetsInv
<1>1. PICK imp \in Import :
          imp = [ctrl |-> c, fetched |-> reported[c],
                 left |-> {u \in Imported : reported[c][u] # NoSubnet},
                 key |-> Idle, hold |-> NoRow]
  BY DEF Import, TypeOK
<1>2. Right(imp)' /\ Held(imp)' /\ Right(Idle)' /\ Held(Idle)' /\ imp.key = Idle
  BY <1>1 DEF Right, Held
<1>3. Fetched(c) \in {imp, Idle}
  BY <1>1, RemainingIs DEF Fetched
<1>4. /\ Fetched(c) \in Import \cup {Idle}
      /\ \A next \in {Fetched(c)} : Right(next)' /\ Held(next)' /\ (next # Idle => next.key = Idle)
  BY <1>2, <1>3
<1>5. \A j \in Importers : import'[j] = IF j = i THEN Fetched(c) ELSE import[j]
  BY DEF TypeOK
<1>6. \A j \in Importers : \A old \in {import[j]} : Right(old)'
  BY DEF Imports, Right, Row, SameRow
<1>7. Imports' /\ import' \in [Importers -> Import \cup {Idle}]
  BY <1>4, <1>6, OneImport
<1>8. HeldZone => HeldZone'
  BY <1>4, <1>5 DEF HeldZone, Held
<1>9. QED
  BY <1>4, <1>7, <1>5, <1>8

(* An admin's save.                                                        *)
LEMMA SavedStep ==
    ASSUME NetsInv, Saved
    PROVE  /\ nets' \in [Keys -> Network \cup {NoRow}] /\ born' \subseteq Keys
           /\ RowsKeyed' /\ Grows /\ Requested' /\ Imports' /\ req' = Idle
           /\ \A k \in Keys \ {req.key} : nets'[k] = nets[k]
           /\ req.op # "save" => ~Row(req.key)
<1> USE DEF NetsInv
<1>1. PICK r \in Request : r = req
  BY DEF Saved, TypeOK
<1>2. r.op \in {"create", "save"} /\ r.key \in Keys /\ r.row \in Network
  BY <1>1 DEF Saved, Request
<1>3. born' = born \cup {r.key} /\ req' = Idle /\ import' = import
  BY <1>1 DEF Saved
<1>4. WritesRow(r.key) /\ (r.op # "save" => ~Row(r.key))
  <2>1. CASE r.op = "create"
    <3>1. r.key \in Keys \ born /\ r.row.subnet \in Subnets /\ r.row.zone \in AnyZone
      BY <1>1, <1>2, <2>1, NullAssumption DEF Requested, Network, NullAssumption
    <3>2. nets' = [nets EXCEPT ![r.key] = Inserted(r.key, r.row.subnet, r.row.zone)]
      BY <1>1, <2>1 DEF Saved
    <3>3. ~Row(r.key)
      BY <3>1 DEF RowsKeyed
    <3>4. QED
      BY <1>3, <3>1, <3>2, <3>3, Added
  <2>2. CASE r.op = "save"
    <3>1. Row(r.key) /\ SameRow(r.row, r.key)
      BY <1>1, <2>2, NullAssumption DEF Requested, NullAssumption
    <3>2. nets' = [nets EXCEPT ![r.key] = r.row]
      BY <1>1, <2>2 DEF Saved
    <3>3. QED
      BY <1>2, <1>3, <2>2, <3>1, <3>2, Replaced
  <2>3. QED
    BY <1>2, <2>1, <2>2
<1>5. Grows
  BY <1>4 DEF WritesRow
<1>6. \A j \in Importers : \A old \in {import[j]} : Right(old)'
  BY <1>5, ImportKept DEF Imports
<1>7. Imports'
  BY <1>3, <1>6 DEF Imports
<1>8. Requested'
  BY <1>3 DEF Requested
<1>9. QED
  BY <1>1, <1>3, <1>4, <1>5, <1>7, <1>8 DEF WritesRow

(* The delete of a manual network leaves the imported ones alone.          *)
LEMMA DropStep ==
    ASSUME NetsInv, Drop
    PROVE  /\ nets' \in [Keys -> Network \cup {NoRow}] /\ born' = born
           /\ RowsKeyed' /\ Requested' /\ Imports' /\ req' = Idle
           /\ place' \in [Devices -> Placement]
           /\ \A k \in Keys : Row(k)' => nets'[k] = nets[k]
           /\ \A k \in Keys : Row(k) /\ nets[k].id # req.row.id => Row(k)'
<1> USE DEF NetsInv
<1>1. PICK r \in Request : r = req
  BY DEF Drop, TypeOK
<1>2. r # Idle /\ r.op = "drop" /\ r.key \in Keys /\ r.key[1] = NoController /\ r.row \in Network
      /\ Row(r.key) /\ SameRow(r.row, r.key)
  BY <1>1 DEF Drop, Requested, Request
<1>3. nets' = [nets EXCEPT ![r.key] = NoRow] /\ born' = born /\ req' = Idle /\ import' = import
  BY <1>1 DEF Drop
<1>4. nets' \in [Keys -> Network \cup {NoRow}]
      /\ \A k \in Keys : nets'[k] = IF k = r.key THEN NoRow ELSE nets[k]
  BY <1>3 DEF TypeOK
<1>5. /\ \A k \in Keys : Row(k)' => nets'[k] = nets[k]
      /\ \A k \in Keys : Row(k)' <=> Row(k) /\ k # r.key
  BY <1>4 DEF Row
<1>6. RowsKeyed'
  <2>1. \A k \in Keys : Row(k)' => k \in born' /\ nets'[k].id <= Cardinality(born')
    BY <1>3, <1>5 DEF RowsKeyed
  <2>2. \A k \in Keys : Row(k)' => (nets'[k].manual <=> k[1] = NoController)
    BY <1>5 DEF RowsKeyed
  <2>3. \A k, l \in Keys : k # l /\ Row(k)' /\ Row(l)' => nets'[k].id # nets'[l].id
    BY <1>5 DEF RowsKeyed
  <2>4. \A k \in born' : k[1] # NoController => Row(k)'
    BY <1>2, <1>3, <1>5 DEF RowsKeyed, TypeOK
  <2>5. QED
    BY <2>1, <2>2, <2>3, <2>4 DEF RowsKeyed
<1>7. \A j \in Importers : \A old \in {import[j]} : Right(old)'
  <2> SUFFICES ASSUME NEW j \in Importers, NEW old, old = import[j] PROVE Right(old)'
    OBVIOUS
  <2>1. Right(old)
    BY DEF Imports
  <2>2. old # Idle /\ old.key # Idle => old.key \in Keys /\ old.key # r.key
    BY <1>2, <2>1, KeyKinds DEF Right
  <2>3. QED
    BY <1>5, <2>1, <2>2 DEF Right, SameRow
<1>8. Imports'
  BY <1>3, <1>7 DEF Imports
<1>9. Requested'
  BY <1>3 DEF Requested
<1>10. \A k \in Keys : Row(k) /\ nets[k].id # r.row.id => Row(k)'
  BY <1>2, <1>5 DEF SameRow
<1>11. place' \in [Devices -> Placement]
  BY KeysCount DEF Drop, Displaced, TypeOK, Placement
<1>12. QED
  BY <1>1, <1>3, <1>4, <1>5, <1>6, <1>8, <1>9, <1>10, <1>11

-----------------------------------------------------------------------------
(* A pass.                                                                 *)

(* The networks the cycle matches against are finitely many, with a prefix *)
(* length and distinct ids: Match is the best of them.                     *)
LEMMA KnownIsNetworkSet ==
    ASSUME TypeOK, Matched
    PROVE  IsNetworkSet(known) /\ IsFiniteSet(known)
<1>1. \A n \in known : /\ n \in Network /\ n.id \in 1 .. Cardinality(Keys)
                       /\ n.manual \in BOOLEAN /\ n.subnet \in Subnets
  BY DEF TypeOK, Network
<1>2. IsNetworkSet(known)
  BY <1>1, KeysCount, NullAssumption, NetworksAssumption
  DEF IsNetworkSet, Matched, NullAssumption, NetworksAssumption
<1> DEFINE f == [n \in known |-> n.id]
<1>3. f \in Injection(known, 1 .. Cardinality(Keys))
  BY <1>1 DEF Matched, Injection, IsInjective
<1>4. IsFiniteSet(1 .. Cardinality(Keys))
  BY KeysCount, FS_Interval
<1> HIDE DEF f
<1>5. IsFiniteSet(known)
  BY <1>3, <1>4, FS_Injection
<1>6. QED
  BY <1>2, <1>5

(* Match returns one of the networks it was given, or none.                *)
LEMMA MatchIsKnown ==
    ASSUME TypeOK, Matched, NEW entries \in SetToSeqs(known), NEW ip, NEW c
    PROVE  Match(entries, ip, c) \in known \cup {NoNet}
<1>1. IsNetworkSet(known) /\ Cardinality(known) \in Nat
  BY KnownIsNetworkSet, FS_CardinalityType
<1>2. entries \in [1 .. Cardinality(known) -> known]
  BY DEF SetToSeqs
<1>3. entries \in Seq(known) /\ DOMAIN entries = 1 .. Cardinality(known)
  BY <1>1, <1>2
<1>4. IsBest(Match(entries, ip, c), entries, DOMAIN entries, ip, c)
  BY <1>1, <1>3, MatchIsBest
<1>5. QED
  BY <1>2, <1>3, <1>4 DEF IsBest, Around

(* A pass places devices on networks it matched against, or leaves them.   *)
LEMMA PassStep ==
    ASSUME TypeOK, Matched, NEW c \in Controllers, NEW entries \in SetToSeqs(known),
           Pass(c, entries)
    PROVE  /\ copy' \in [Devices -> Placement \cup {NoRow}]
           /\ left' \subseteq left /\ phase = "place"
           /\ \A d \in Devices : copy'[d] # NoRow =>
                 \/ copy'[d].net \in {0, place[d].net}
                 \/ \E n \in known : copy'[d].net = n.id
<1>1. zones[c] \in AnyZone /\ NoZone \in AnyZone
  BY DEF Pass, TypeOK, AnyZone
<1>2. ASSUME NEW ip
      PROVE  /\ Resolved(entries, ip, c) \in Placement
             /\ \/ Resolved(entries, ip, c).net = 0
                \/ \E n \in known : Resolved(entries, ip, c).net = n.id
  <2> DEFINE n == IF ip = NoIP THEN NoNet ELSE Match(entries, ip, c)
  <2>1. n \in known \cup {NoNet}
    BY MatchIsKnown
  <2>2. n # NoNet => n \in known /\ n.id \in 0 .. Cardinality(Keys) /\ n.zone \in AnyZone
    BY <2>1, KeysCount DEF TypeOK, Network
  <2>3. Resolved(entries, ip, c) =
            CASE n = NoNet -> [ctrl |-> c, net |-> 0, zone |-> zones[c]]
              [] n # NoNet /\ n.zone = NoZone -> [ctrl |-> c, net |-> n.id, zone |-> zones[c]]
              [] OTHER -> [ctrl |-> c, net |-> n.id, zone |-> n.zone]
    BY DEF Resolved
  <2> HIDE DEF n
  <2>4. QED
    BY <1>1, <2>2, <2>3, KeysCount DEF Placement
<1>3. ASSUME NEW d \in Devices
      PROVE  /\ copy'[d] \in Placement \cup {NoRow}
             /\ copy'[d] # NoRow => \/ copy'[d].net \in {0, place[d].net}
                                    \/ \E n \in known : copy'[d].net = n.id
  <2>1. CASE sighting[d].ctrl # c
    <3>1. copy'[d] \in {place[d], NoRow}
      BY <2>1 DEF Pass
    <3>2. place[d] \in Placement
      BY DEF TypeOK
    <3>3. QED
      BY <3>1, <3>2
  <2>2. CASE sighting[d].ctrl = c /\ Stays(place[d], sighting[d].ip)
    <3>1. copy'[d] = [place[d] EXCEPT !.ctrl = c, !.zone = IF @ = NoZone THEN zones[c] ELSE @]
      BY <2>2 DEF Pass
    <3>2. place[d] \in Placement
      BY DEF TypeOK
    <3>3. QED
      BY <1>1, <3>1, <3>2 DEF Placement
  <2>3. CASE sighting[d].ctrl = c /\ ~Stays(place[d], sighting[d].ip)
    <3>1. copy'[d] = Resolved(entries, sighting[d].ip, c)
      BY <2>3 DEF Pass
    <3>2. QED
      BY <1>2, <3>1
  <2>4. QED
    BY <2>1, <2>2, <2>3
<1>4. copy' \in [Devices -> Placement \cup {NoRow}]
  <2>1. copy' = [d \in Devices |-> copy'[d]]
    BY DEF Pass
  <2>2. QED
    BY <1>3, <2>1
<1>5. QED
  BY <1>3, <1>4 DEF Pass

-----------------------------------------------------------------------------
(* The steps.                                                              *)

(* Init: empty tables but for the seeded controller.                       *)
LEMMA InitInv == Init => Inv
<1> SUFFICES ASSUME Init PROVE Inv
  OBVIOUS
<1>1. NoZone \in AnyZone /\ Fresh \in Controller /\ Unplaced \in Placement /\ default \in AnyZone
  BY KeysCount, NetworksAssumption
  DEF Init, AnyZone, Fresh, Controller, Unplaced, Placement, NetworksAssumption
<1>2. sighting \in [Devices -> [ctrl : Controllers, ip : IPs \cup {NoIP}]]
  BY NetworksAssumption DEF Init, NetworksAssumption
<1>3. TypeOK
  <2>1. ctrls \in [Controllers -> Controller \cup {NoRow, Gone}]
    BY <1>1 DEF Init
  <2>2. /\ reported \in [Controllers -> Report]
        /\ place \in [Devices -> Placement] /\ copy \in [Devices -> Placement \cup {NoRow}]
    BY <1>1 DEF Init, NoCopy
  <2>3. /\ zones \in [Controllers -> AnyZone \cup {NoRow}]
        /\ import \in [Importers -> Import \cup {Idle}] /\ import["engine"] = Idle
    BY DEF Init, NoCycle, Importers
  <2>4. nets \in [Keys -> Network \cup {NoRow}] /\ born \subseteq Keys
    BY DEF Init
  <2>5. QED
    BY <1>1, <1>2, <2>1, <2>2, <2>3, <2>4 DEF Init, TypeOK
<1>4. \A k \in Keys : ~Row(k)
  BY DEF Init, Row
<1>5. NetsInv
  BY <1>3, <1>4 DEF Init, NetsInv, RowsKeyed, Requested, Imports, Right, Matched
<1>6. CalmInv
  BY DEF Init, CalmInv, Apart, HeldZone, Held, CycleKnows, PlacedOnKnown, NoCopy, Unplaced
<1>7. QED
  BY <1>5, <1>6 DEF Inv

(* The rows, the request and the imports do not change by themselves.      *)
LEMMA RowsStay ==
    ASSUME NetsInv, nets' = nets, born' = born
    PROVE  /\ RowsKeyed' /\ Grows
           /\ req' \in {req, Idle} => Requested'
           /\ (\A i \in Importers : import'[i] \in {import[i], Idle}) => Imports'
  BY DEF NetsInv, RowsKeyed, Grows, Requested, Imports, Right, Row, SameRow

(* A row an import holds stays true to the table while others work.        *)
LEMMA HeldStays ==
    ASSUME HeldZone, nets' = nets, \A i \in Importers : import'[i] \in {import[i], Idle}
    PROVE  HeldZone'
  BY DEF HeldZone, Held

(* What exists goes on existing while rows only come, so that devices, and *)
(* a cycle that takes up nothing new, stay right.                          *)
LEMMA PlacesStay ==
    ASSUME Grows, CycleKnows, PlacedOnKnown, place' = place, known' \subseteq known,
           copy' \in {copy, NoCopy}
    PROVE  CycleKnows' /\ PlacedOnKnown'
<1>1. \A id : Exists(id) => Exists(id)'
  BY DEF Exists, Grows
<1>2. CycleKnows'
  BY <1>1 DEF CycleKnows, NoCopy
<1>3. PlacedOnKnown'
  <2>1. \A d \in Devices : place[d].net # 0 => Exists(place[d].net)
    BY DEF PlacedOnKnown, Exists, Row
  <2>2. \A d \in Devices : place[d].net # 0 => Exists(place[d].net)'
    BY <1>1, <2>1
  <2>3. QED
    BY <2>2 DEF PlacedOnKnown, Exists, Row
<1>4. QED
  BY <1>2, <1>3

(* What the steps that leave the table alone have in common.               *)
LEMMA QuietStep ==
    ASSUME Inv, TypeOK', nets' = nets, born' = born, req' \in {req, Idle}, place' = place,
           \A i \in Importers : import'[i] \in {import[i], Idle},
           known' \subseteq known, copy' \in {copy, NoCopy},
           phase' # "place" => known' = {} /\ copy' = NoCopy,
           phase' = "place" => phase = "place"
    PROVE  Inv'
<1>1. NetsInv'
  BY RowsStay DEF Inv, NetsInv, Matched
<1>2. ASSUME ~Overlap PROVE CalmInv'
  <2>1. CalmInv
    BY <1>2 DEF Inv
  <2>2. Grows
    BY RowsStay DEF Inv
  <2>3. Apart'
    BY <2>1 DEF CalmInv, Apart, Holding, Importers
  <2>4. HeldZone' /\ CycleKnows' /\ PlacedOnKnown'
    BY <2>1, <2>2, HeldStays, PlacesStay DEF CalmInv
  <2>5. QED
    BY <2>3, <2>4 DEF CalmInv
<1>3. QED
  BY <1>1, <1>2 DEF Inv

(* A cycle that begins has a zone for the controllers it will visit.       *)
LEMMA BeginType ==
    ASSUME TypeOK, BeginCycle
    PROVE  TypeOK'
<1> DEFINE enabled == {c \in Controllers : Enabled(c)}
<1>1. \A c \in enabled : ctrls[c].zone \in AnyZone
  BY DEF Enabled, Listed, TypeOK, Controller
<1>2. \A c \in Controllers :
          zones'[c] = CASE c \notin enabled -> NoRow
                        [] c \in enabled /\ ctrls[c].zone # NoZone -> ctrls[c].zone
                        [] OTHER -> default
  BY DEF BeginCycle
<1>3. \A c \in Controllers : zones'[c] \in AnyZone \cup {NoRow} /\ (c \in enabled => zones'[c] # NoRow)
  BY <1>1, <1>2, NullAssumption DEF TypeOK, NullAssumption
<1>4. zones' \in [Controllers -> AnyZone \cup {NoRow}]
  <2>1. zones' = [c \in Controllers |-> zones'[c]]
    BY DEF BeginCycle
  <2>2. QED
    BY <1>3, <2>1
<1>5. left' = enabled
  BY DEF BeginCycle
<1> HIDE DEF enabled
<1>6. left' \subseteq {c \in Controllers : zones'[c] # NoRow}
  BY <1>3, <1>5 DEF enabled
<1>7. QED
  BY <1>4, <1>6 DEF BeginCycle, TypeOK, world

(* The steps of a cycle that touch neither networks nor placements.        *)
LEMMA CycleStep ==
    ASSUME Inv, NothingToSync \/ BeginCycle \/ EndCycle \/ \E c \in Controllers : FetchFails(c)
    PROVE  Inv'
<1> USE DEF cycle, world
<1>1. phase = "idle" => known = {} /\ copy = NoCopy
  BY DEF Inv, NetsInv, Matched
<1>2. CASE NothingToSync
  <2>1. UNCHANGED vars
    BY <1>2 DEF NothingToSync
  <2>2. TypeOK'
    BY <2>1 DEF vars, TypeOK, Inv, NetsInv
  <2>3. QED
    BY <1>1, <1>2, <2>1, <2>2, QuietStep DEF vars, NothingToSync
<1>3. CASE BeginCycle
  <2>1. TypeOK'
    BY <1>3, BeginType DEF Inv, NetsInv
  <2>2. QED
    BY <1>1, <1>3, <2>1, QuietStep DEF BeginCycle
<1>4. CASE EndCycle
  <2>1. TypeOK'
    BY <1>4 DEF EndCycle, TypeOK, Inv, NetsInv, NoCycle
  <2>2. QED
    BY <1>4, <2>1, QuietStep DEF EndCycle
<1>5. ASSUME NEW c \in Controllers, FetchFails(c) PROVE Inv'
  <2>1. TypeOK'
    BY <1>5 DEF FetchFails, TypeOK, Inv, NetsInv
  <2>2. QED
    BY <1>5, <2>1, QuietStep DEF FetchFails
<1>6. QED
  BY <1>2, <1>3, <1>4, <1>5

(* What the steps of the imports and of the admins have in common: the     *)
(* cycle and the devices stay as they are.                                 *)
LEMMA TableStep ==
    ASSUME Inv, TypeOK', RowsKeyed', Grows, Requested', Imports',
           place' = place, copy' = copy, known' = known, phase' = phase,
           ~Overlap => Apart' /\ HeldZone'
    PROVE  Inv'
<1>1. NetsInv'
  BY DEF Inv, NetsInv, Matched
<1>2. ASSUME ~Overlap PROVE CalmInv'
  BY <1>2, PlacesStay DEF Inv, CalmInv
<1>3. QED
  BY <1>1, <1>2 DEF Inv

(* Only the cycle's import works in the cycle's import phase.              *)
LEMMA OneImportType ==
    ASSUME TypeOK, NEW i \in Importers, NEW imp, import' = [import EXCEPT ![i] = imp]
    PROVE  /\ \A j \in Importers \ {i} : import'[j] = import[j]
           /\ (i = "engine" => phase = "import") =>
                 (phase # "import" => import'["engine"] = Idle)
           /\ "engine" \in Importers /\ "refresh" \in Importers
  BY DEF TypeOK, Importers

(* Lookup: the import now holds the row as it is in the table.             *)
LEMMA LookupKeeps ==
    ASSUME Inv, NEW i \in Importers, NEW u \in Imported, Lookup(i, u)
    PROVE  Inv'
<1> USE DEF cycle, world
<1>1. NetsInv
  BY DEF Inv
<1>2. Imports' /\ import' \in [Importers -> Import \cup {Idle}] /\ (HeldZone => HeldZone')
  BY <1>1, LookupStep
<1>3. i = "engine" => phase = "import"
  BY <1>1 DEF Lookup, NetsInv, TypeOK
<1>4. PICK imp : import' = [import EXCEPT ![i] = imp]
  BY DEF Lookup
<1>5. TypeOK'
  BY <1>1, <1>2, <1>3, <1>4, OneImportType DEF Lookup, NetsInv, TypeOK
<1>6. RowsKeyed' /\ Grows /\ Requested'
  BY <1>1, RowsStay DEF Lookup
<1>7. ~Overlap => Apart' /\ HeldZone'
  BY <1>2 DEF Lookup, Undisturbed, Apart, Inv, CalmInv
<1>8. QED
  BY <1>2, <1>5, <1>6, <1>7, TableStep DEF Lookup

(* Write: the row is inserted, or saved with the zone it has.              *)
LEMMA WriteKeeps ==
    ASSUME Inv, NEW i \in Importers, Write(i)
    PROVE  Inv'
<1> USE DEF cycle, world
<1>1. NetsInv
  BY DEF Inv
<1>2. /\ nets' \in [Keys -> Network \cup {NoRow}] /\ born' \subseteq Keys
      /\ RowsKeyed' /\ Grows /\ Requested' /\ Imports'
      /\ import' \in [Importers -> Import \cup {Idle}]
      /\ (HeldZone => HeldZone')
  BY <1>1, WriteStep
<1>3. i = "engine" => phase = "import"
  BY <1>1 DEF Write, NetsInv, TypeOK
<1>4. PICK imp : import' = [import EXCEPT ![i] = imp]
  BY DEF Write
<1>5. TypeOK'
  BY <1>1, <1>2, <1>3, <1>4, OneImportType DEF Write, NetsInv, TypeOK
<1>6. ~Overlap => Apart' /\ HeldZone'
  BY <1>2 DEF Write, Apart, Holding, Inv, CalmInv, Importers
<1>7. QED
  BY <1>2, <1>5, <1>6, TableStep DEF Write

(* ImportNetworks and RefreshNetworks: an import begins.                   *)
LEMMA FetchKeeps ==
    ASSUME Inv, NEW c \in Controllers,
           RefreshNetworks(c) \/ \E ok \in BOOLEAN : ImportNetworks(c, ok)
    PROVE  Inv'
<1> USE DEF cycle, world
<1>1. NetsInv
  BY DEF Inv
<1>2. CASE RefreshNetworks(c)
  <2>1. /\ Imports' /\ import' \in [Importers -> Import \cup {Idle}]
        /\ (HeldZone => HeldZone')
    BY <1>1, <1>2, FetchStep DEF RefreshNetworks, Importers
  <2>2. import'["engine"] = import["engine"]
    BY <1>1, <1>2 DEF RefreshNetworks, NetsInv, TypeOK, Importers
  <2>3. TypeOK'
    BY <1>1, <1>2, <2>1, <2>2 DEF RefreshNetworks, NetsInv, TypeOK
  <2>4. RowsKeyed' /\ Grows /\ Requested'
    BY <1>1, <1>2, RowsStay DEF RefreshNetworks
  <2>5. ~Overlap => Apart' /\ HeldZone'
    BY <1>2, <2>1 DEF RefreshNetworks, Undisturbed, Apart, Inv, CalmInv
  <2>6. QED
    BY <1>2, <2>1, <2>3, <2>4, <2>5, TableStep DEF RefreshNetworks
<1>3. ASSUME NEW ok \in BOOLEAN, ImportNetworks(c, ok) PROVE Inv'
  <2>1. left' \subseteq {e \in Controllers : zones'[e] # NoRow} /\ phase = "import"
    BY <1>1, <1>3 DEF ImportNetworks, NetsInv, TypeOK
  <2>2. CASE ok
    <3>1. /\ Imports' /\ import' \in [Importers -> Import \cup {Idle}]
          /\ (HeldZone => HeldZone')
          /\ (import'["engine"] # Idle => import'["engine"].key = Idle)
      BY <1>1, <1>3, <2>2, FetchStep DEF ImportNetworks, Importers
    <3>2. import'["refresh"] = import["refresh"]
      BY <1>1, <1>3, <2>2 DEF ImportNetworks, NetsInv, TypeOK, Importers
    <3>3. TypeOK'
      BY <1>1, <1>3, <2>1, <3>1 DEF ImportNetworks, NetsInv, TypeOK
    <3>4. RowsKeyed' /\ Grows /\ Requested'
      BY <1>1, <1>3, RowsStay DEF ImportNetworks
    <3>5. ~Overlap => Apart' /\ HeldZone'
      BY <1>3, <3>1, <3>2 DEF ImportNetworks, Apart, Holding, Inv, CalmInv
    <3>6. QED
      BY <1>3, <3>1, <3>3, <3>4, <3>5, TableStep DEF ImportNetworks
  <2>3. CASE ~ok
    <3>1. TypeOK'
      BY <1>1, <1>3, <2>1, <2>3 DEF ImportNetworks, NetsInv, TypeOK
    <3>2. QED
      BY <1>1, <1>3, <2>1, <2>3, <3>1, QuietStep DEF ImportNetworks, NetsInv, Matched
  <2>4. QED
    BY <2>2, <2>3
<1>4. QED
  BY <1>2, <1>3

(* The matcher is built from the networks there are.                       *)
LEMMA LoadKeeps ==
    ASSUME Inv, LoadNetworks
    PROVE  Inv'
<1> USE DEF cycle, world
<1>1. NetsInv
  BY DEF Inv
<1>2. \A n \in known' : n \in Network /\ \E k \in Keys : Row(k) /\ n = nets[k]
  BY <1>1 DEF LoadNetworks, NetsInv, TypeOK, Row
<1>3. TypeOK'
  BY <1>1, <1>2 DEF LoadNetworks, NetsInv, TypeOK
<1>4. Matched'
  BY <1>1, <1>2 DEF LoadNetworks, NetsInv, Matched, RowsKeyed
<1>5. RowsKeyed' /\ Grows /\ Requested' /\ Imports'
  BY <1>1, RowsStay DEF LoadNetworks
<1>6. ASSUME ~Overlap PROVE CalmInv'
  <2>1. CalmInv /\ req = Idle /\ copy = NoCopy
    BY <1>1, <1>6 DEF Inv, LoadNetworks, Undisturbed, NetsInv, Matched
  <2>2. Apart' /\ HeldZone'
    BY <2>1, HeldStays DEF CalmInv, Apart, LoadNetworks
  <2>3. CycleKnows'
    BY <1>2, <2>1 DEF CycleKnows, Exists, Row, LoadNetworks, NoCopy
  <2>4. PlacedOnKnown'
    BY <2>1 DEF CalmInv, PlacedOnKnown, LoadNetworks
  <2>5. QED
    BY <2>2, <2>3, <2>4 DEF CalmInv
<1>7. QED
  BY <1>3, <1>4, <1>5, <1>6 DEF Inv, NetsInv

(* Pass: devices are matched against networks the cycle knows.             *)
LEMMA PassKeeps ==
    ASSUME Inv, NEW c \in Controllers, NEW entries \in SetToSeqs(known), Pass(c, entries)
    PROVE  Inv'
<1> USE DEF cycle, world
<1>1. NetsInv
  BY DEF Inv
<1>2. /\ copy' \in [Devices -> Placement \cup {NoRow}] /\ left' \subseteq left /\ phase = "place"
      /\ \A d \in Devices : copy'[d] # NoRow =>
            \/ copy'[d].net \in {0, place[d].net}
            \/ \E n \in known : copy'[d].net = n.id
  BY <1>1, PassStep DEF NetsInv
<1>3. TypeOK'
  BY <1>1, <1>2 DEF Pass, NetsInv, TypeOK
<1>4. RowsKeyed' /\ Grows /\ Requested' /\ Imports'
  BY <1>1, RowsStay DEF Pass
<1>5. Matched'
  BY <1>1, <1>2 DEF Pass, NetsInv, Matched
<1>6. ASSUME ~Overlap PROVE CalmInv'
  <2>1. CalmInv
    BY <1>6 DEF Inv
  <2>2. Apart' /\ HeldZone'
    BY <2>1, HeldStays DEF CalmInv, Apart, Holding, Pass
  <2>3. CycleKnows'
    <3>1. \A d \in Devices : place[d].net # 0 => Exists(place[d].net)
      BY <2>1 DEF CalmInv, PlacedOnKnown, Exists, Row
    <3>2. \A d \in Devices : copy'[d] # NoRow /\ copy'[d].net # 0 => Exists(copy'[d].net)
      BY <1>2, <2>1, <3>1 DEF CalmInv, CycleKnows
    <3>3. \A id : Exists(id)' <=> Exists(id)
      BY DEF Exists, Row, Pass
    <3>4. QED
      BY <2>1, <3>2, <3>3 DEF CalmInv, CycleKnows, Pass
  <2>4. PlacedOnKnown'
    BY <2>1 DEF CalmInv, PlacedOnKnown, Pass
  <2>5. QED
    BY <2>2, <2>3, <2>4 DEF CalmInv
<1>7. QED
  BY <1>3, <1>4, <1>5, <1>6 DEF Inv, NetsInv

(* Persist: the placements a pass decided are saved.                       *)
LEMMA PersistKeeps ==
    ASSUME Inv, Persist
    PROVE  Inv'
<1> USE DEF cycle, world
<1>1. NetsInv
  BY DEF Inv
<1>2. \A d \in Devices : place'[d] = IF copy[d] = NoRow THEN place[d] ELSE copy[d]
  BY DEF Persist
<1>3. TypeOK'
  <2>1. place' \in [Devices -> Placement]
    BY <1>1 DEF Persist, NetsInv, TypeOK
  <2>2. copy' \in [Devices -> Placement \cup {NoRow}]
    BY DEF Persist, NoCopy
  <2>3. QED
    BY <1>1, <2>1, <2>2 DEF Persist, NetsInv, TypeOK
<1>4. RowsKeyed' /\ Grows /\ Requested' /\ Imports'
  BY <1>1, RowsStay DEF Persist
<1>5. Matched'
  BY <1>1 DEF Persist, NetsInv, Matched
<1>6. ASSUME ~Overlap PROVE CalmInv'
  <2>1. CalmInv
    BY <1>6 DEF Inv
  <2>2. Apart' /\ HeldZone'
    BY <2>1, HeldStays DEF CalmInv, Apart, Holding, Persist
  <2>3. CycleKnows'
    BY <2>1 DEF CalmInv, CycleKnows, Exists, Row, Persist, NoCopy
  <2>4. PlacedOnKnown'
    <3>1. \A d \in Devices : place[d].net # 0 => Exists(place[d].net)
      BY <2>1 DEF CalmInv, PlacedOnKnown, Exists, Row
    <3>2. \A d \in Devices : place'[d].net # 0 => Exists(place'[d].net)
      BY <1>2, <2>1, <3>1 DEF CalmInv, CycleKnows
    <3>3. QED
      BY <3>2 DEF PlacedOnKnown, Exists, Row, Persist
  <2>5. QED
    BY <2>2, <2>3, <2>4 DEF CalmInv
<1>7. QED
  BY <1>3, <1>4, <1>5, <1>6 DEF Inv, NetsInv

(* Restart: what was in memory is gone, the tables stay.                   *)
LEMMA RestartKeeps ==
    ASSUME Inv, Restart
    PROVE  Inv'
<1> USE DEF cycle, world
<1>1. Fresh \in Controller /\ Seed \in Controllers
  BY NetworksAssumption DEF Fresh, Controller, AnyZone, NetworksAssumption
<1>2. ctrls' \in [Controllers -> Controller \cup {NoRow, Gone}]
  <2>1. ctrls \in [Controllers -> Controller \cup {NoRow, Gone}]
    BY DEF Inv, NetsInv, TypeOK
  <2>2. Seeded \subseteq [Controllers -> Controller \cup {NoRow, Gone}]
    BY <1>1, <2>1 DEF Seeded
  <2>3. ctrls' = ctrls \/ ctrls' \in Seeded
    BY DEF Restart
  <2>4. QED
    BY <2>1, <2>2, <2>3
<1>3. /\ zones' \in [Controllers -> AnyZone \cup {NoRow}]
      /\ import' \in [Importers -> Import \cup {Idle}] /\ import'["engine"] = Idle
      /\ copy' \in [Devices -> Placement \cup {NoRow}]
  BY DEF Restart, NoCycle, NoCopy, Importers
<1>4. TypeOK'
  BY <1>2, <1>3 DEF Restart, Inv, NetsInv, TypeOK
<1>5. \A i \in Importers : import'[i] = Idle
  BY DEF Restart
<1>6. QED
  BY <1>4, <1>5, QuietStep DEF Restart

(* The steps of admins that only change a controller or the default zone,  *)
(* and what happens around netreg.                                         *)
LEMMA SettingsKeep ==
    ASSUME Inv, \/ \E c \in Controllers, row \in Controller \cup {Gone} : SaveController(c, row)
                \/ \E zone \in Defaults : SaveGeneral(zone)
                \/ World \/ CalmDown \/ UNCHANGED vars
    PROVE  Inv'
<1> USE DEF cycle, world
<1>1. NetsInv
  BY DEF Inv
<1>2. TypeOK'
  <2>1. ASSUME NEW c \in Controllers, NEW row \in Controller \cup {Gone}, SaveController(c, row)
        PROVE TypeOK'
    BY <1>1, <2>1 DEF SaveController, NetsInv, TypeOK
  <2>2. ASSUME NEW zone \in Defaults, SaveGeneral(zone) PROVE TypeOK'
    BY <1>1, <2>2, NetworksAssumption DEF SaveGeneral, NetsInv, TypeOK, NetworksAssumption
  <2>3. CASE World
    <3>1. /\ reported' \in [Controllers -> Report]
          /\ sighting' \in [Devices -> [ctrl : Controllers, ip : IPs \cup {NoIP}]]
      <4>1. ASSUME NEW c \in Controllers, NEW r \in ReportsFor(c),
                   reported' = [reported EXCEPT ![c] = r], UNCHANGED sighting
            PROVE  /\ reported' \in [Controllers -> Report]
                   /\ sighting' \in [Devices -> [ctrl : Controllers, ip : IPs \cup {NoIP}]]
        <5>1. r \in Report
          BY NetworksAssumption DEF NetworksAssumption, Report
        <5>2. QED
          BY <1>1, <4>1, <5>1 DEF NetsInv, TypeOK
      <4>2. ASSUME NEW d \in Devices, NEW s \in Sightings(d),
                   sighting' = [sighting EXCEPT ![d] = s], UNCHANGED reported
            PROVE  /\ reported' \in [Controllers -> Report]
                   /\ sighting' \in [Devices -> [ctrl : Controllers, ip : IPs \cup {NoIP}]]
        <5>1. s \in [ctrl : Controllers, ip : IPs \cup {NoIP}]
          BY NetworksAssumption DEF NetworksAssumption
        <5>2. QED
          BY <1>1, <4>2, <5>1 DEF NetsInv, TypeOK
      <4>3. QED
        BY <2>3, <4>1, <4>2 DEF World
    <3>2. QED
      BY <1>1, <2>3, <3>1 DEF World, NetsInv, TypeOK
  <2>4. CASE CalmDown \/ UNCHANGED vars
    BY <1>1, <2>4 DEF CalmDown, vars, NetsInv, TypeOK
  <2>5. QED
    BY <2>1, <2>2, <2>3, <2>4
<1>3. UNCHANGED <<nets, born, req, place, import, known, copy, phase>>
  BY DEF SaveController, SaveGeneral, World, CalmDown, vars
<1>4. QED
  BY <1>1, <1>2, <1>3, QuietStep DEF NetsInv, Matched

(* A request is taken up when no import holds a row and no pass is under   *)
(* way, unless edits may overlap with them.                                *)
LEMMA SubmitKeeps ==
    ASSUME Inv, NEW op \in {"create", "save", "drop"}, NEW key \in Keys, NEW row \in Network,
           Submit(op, key, row),
           op = "create" => key \notin born /\ key[1] = NoController,
           op # "create" => Row(key) /\ SameRow(row, key),
           op = "drop" => key[1] = NoController
    PROVE  Inv'
<1> USE DEF cycle, world
<1>1. NetsInv
  BY DEF Inv
<1>2. PICK r \in Request : r = [op |-> op, key |-> key, row |-> row]
  BY DEF Request
<1>3. req' = r
  BY <1>2 DEF Submit
<1>4. TypeOK'
  BY <1>1, <1>3 DEF Submit, NetsInv, TypeOK
<1>5. Requested'
  BY <1>2, <1>3 DEF Submit, Requested, Row, SameRow
<1>6. RowsKeyed' /\ Grows /\ Imports'
  BY <1>1, RowsStay DEF Submit
<1>7. ~Overlap => Apart' /\ HeldZone'
  BY HeldStays DEF Submit, MayEdit, Apart, Holding, Inv, CalmInv
<1>8. QED
  BY <1>4, <1>5, <1>6, <1>7, TableStep DEF Submit

(* AddNetwork, EditNetwork, DeleteNetwork: a request begins.               *)
LEMMA EditKeeps ==
    ASSUME Inv,
           \/ \E m \in ManualIds :
                 \E subnet \in SubnetsFor(m), zone \in ZonesFor(<<NoController, m>>) :
                    AddNetwork(m, subnet, zone)
           \/ \E key \in Keys : \E subnet \in Subnets, zone \in ZonesFor(key) :
                 EditNetwork(key, subnet, zone)
           \/ \E key \in Keys : DeleteNetwork(key)
    PROVE  Inv'
<1>1. NetsInv
  BY DEF Inv
<1>2. ASSUME NEW m \in ManualIds, NEW subnet \in SubnetsFor(m),
             NEW zone \in ZonesFor(<<NoController, m>>), AddNetwork(m, subnet, zone)
      PROVE  Inv'
  <2>1. PICK key \in Keys : key = <<NoController, m>>
    BY KeyKinds
  <2>2. subnet \in Subnets /\ zone \in AnyZone
    BY <2>1, NetworksAssumption DEF NetworksAssumption
  <2>3. key \notin born /\ key[1] = NoController /\ Submit("create", key, Inserted(key, subnet, zone))
    BY <1>2, <2>1 DEF AddNetwork
  <2>4. Inserted(key, subnet, zone) \in Network
    BY <1>1, <2>2, <2>3, InsertedType DEF NetsInv, TypeOK
  <2>5. PICK row \in Network : row = Inserted(key, subnet, zone)
    BY <2>4
  <2>6. QED
    BY <2>3, <2>5, SubmitKeeps
<1>3. ASSUME NEW key \in Keys, NEW subnet \in Subnets, NEW zone \in ZonesFor(key),
             EditNetwork(key, subnet, zone)
      PROVE  Inv'
  <2>1. zone \in AnyZone
    BY NetworksAssumption DEF NetworksAssumption
  <2>2. Row(key) /\ nets[key] \in Network
    BY <1>1, <1>3 DEF EditNetwork, Row, NetsInv, TypeOK
  <2>3. PICK row \in Network : row = [nets[key] EXCEPT !.subnet = subnet, !.zone = zone]
    BY <2>1, <2>2 DEF Network
  <2>4. SameRow(row, key)
    BY <2>2, <2>3 DEF SameRow, Network
  <2>5. Submit("save", key, row)
    BY <1>3, <2>3 DEF EditNetwork
  <2>6. QED
    BY <2>2, <2>4, <2>5, SubmitKeeps
<1>4. ASSUME NEW key \in Keys, DeleteNetwork(key) PROVE Inv'
  <2>1. Row(key) /\ nets[key].manual
    BY <1>4 DEF DeleteNetwork, Row
  <2>2. PICK row \in Network : row = nets[key]
    BY <1>1, <2>1 DEF Row, NetsInv, TypeOK
  <2>3. key[1] = NoController /\ SameRow(row, key)
    BY <1>1, <2>1, <2>2 DEF NetsInv, RowsKeyed, SameRow
  <2>4. Submit("drop", key, row)
    BY <1>4, <2>2 DEF DeleteNetwork
  <2>5. QED
    BY <2>1, <2>3, <2>4, SubmitKeeps
<1>5. QED
  BY <1>2, <1>3, <1>4

(* Saved: a network an admin added or edited is written.                   *)
LEMMA SavedKeeps ==
    ASSUME Inv, Saved
    PROVE  Inv'
<1> USE DEF cycle, world
<1>1. NetsInv
  BY DEF Inv
<1>2. /\ nets' \in [Keys -> Network \cup {NoRow}] /\ born' \subseteq Keys
      /\ RowsKeyed' /\ Grows /\ Requested' /\ Imports' /\ req' = Idle
  BY <1>1, SavedStep
<1>3. TypeOK'
  BY <1>1, <1>2 DEF Saved, NetsInv, TypeOK
<1>4. ASSUME ~Overlap PROVE Apart' /\ HeldZone'
  <2>1. import["refresh"] = Idle /\ (import["engine"] = Idle \/ import["engine"].key = Idle)
    BY <1>4 DEF Inv, CalmInv, Apart, Holding, Saved
  <2>2. QED
    BY <1>2, <2>1 DEF Apart, HeldZone, Held, Importers, Saved
<1>5. QED
  BY <1>2, <1>3, <1>4, TableStep DEF Saved

(* A delete takes every device off the network.                            *)
LEMMA DropKeeps ==
    ASSUME Inv, Drop
    PROVE  Inv'
<1> USE DEF cycle, world
<1>1. NetsInv
  BY DEF Inv
<1>2. /\ nets' \in [Keys -> Network \cup {NoRow}] /\ born' = born
      /\ RowsKeyed' /\ Requested' /\ Imports' /\ req' = Idle
      /\ place' \in [Devices -> Placement]
      /\ \A k \in Keys : Row(k)' => nets'[k] = nets[k]
      /\ \A k \in Keys : Row(k) /\ nets[k].id # req.row.id => Row(k)'
  BY <1>1, DropStep
<1>3. TypeOK'
  BY <1>1, <1>2 DEF Drop, NetsInv, TypeOK
<1>4. Matched'
  BY <1>1 DEF Drop, NetsInv, Matched
<1>5. ASSUME ~Overlap PROVE CalmInv'
  <2>1. CalmInv /\ phase # "place"
    BY <1>5 DEF Inv, CalmInv, Apart, Drop
  <2>2. known = {} /\ copy = NoCopy
    BY <1>1, <2>1 DEF NetsInv, Matched
  <2>3. import["refresh"] = Idle /\ (import["engine"] = Idle \/ import["engine"].key = Idle)
    BY <2>1 DEF CalmInv, Apart, Holding, Drop
  <2>4. Apart' /\ HeldZone'
    BY <1>2, <2>3 DEF Apart, HeldZone, Held, Importers, Drop
  <2>5. CycleKnows'
    BY <2>2 DEF CycleKnows, NoCopy, Drop
  <2>6. PlacedOnKnown'
    <3> SUFFICES ASSUME NEW d \in Devices, place'[d].net # 0
                 PROVE  \E k \in Keys : Row(k)' /\ nets'[k].id = place'[d].net
      BY DEF PlacedOnKnown, Row
    <3>1. place'[d] = Displaced(d, req.row.id) /\ place[d] \in Placement
      BY <1>1 DEF Drop, NetsInv, TypeOK
    <3>2. place'[d] = place[d] /\ place[d].net # req.row.id
      BY <3>1 DEF Displaced, Placement
    <3>3. PICK k \in Keys : Row(k) /\ nets[k].id = place[d].net
      BY <2>1, <3>2 DEF CalmInv, PlacedOnKnown, Row
    <3>4. QED
      BY <1>2, <3>2, <3>3
  <2>7. QED
    BY <2>4, <2>5, <2>6 DEF CalmInv
<1>6. QED
  BY <1>2, <1>3, <1>4, <1>5 DEF Inv, NetsInv

(* Every step keeps the invariant.                                         *)
LEMMA NextInv == Inv /\ [Next]_vars => Inv'
<1> SUFFICES ASSUME Inv, [Next]_vars PROVE Inv'
  OBVIOUS
<1> USE DEF Importers
<1>1. CASE Cycle
  BY <1>1, CycleStep, FetchKeeps, LookupKeeps, WriteKeeps, LoadKeeps, PassKeeps, PersistKeeps
  DEF Cycle
<1>2. CASE Admin
  <2>1. \A c \in Controllers : RowsFor(c) \subseteq Controller \cup {NoRow}
    BY NetworksAssumption DEF NetworksAssumption, Controller
  <2>2. CASE \/ \E c \in Controllers : \E row \in RowsFor(c) \ {NoRow} :
                    AddController(c, row) \/ EditController(c, row)
             \/ \E c \in Controllers : NoRow \in RowsFor(c) /\ DeleteController(c)
             \/ \E zone \in Defaults : SaveGeneral(zone)
    BY <2>1, <2>2, SettingsKeep DEF AddController, EditController, DeleteController
  <2>3. QED
    BY <1>2, <2>2, EditKeeps, SavedKeeps, DropKeeps, FetchKeeps, LookupKeeps, WriteKeeps DEF Admin
<1>3. CASE Restart
  BY <1>3, RestartKeeps
<1>4. CASE World \/ CalmDown \/ UNCHANGED vars
  BY <1>4, SettingsKeep
<1>5. QED
  BY <1>1, <1>2, <1>3, <1>4 DEF Next

-----------------------------------------------------------------------------
(* The theorems.                                                           *)

(* Whatever overlaps, the rows of the networks table keep their types and  *)
(* every id a device, a cycle or an admin holds is in range.               *)
THEOREM NetworksTypeCorrect == Spec => []TypeOK
<1>1. Inv => TypeOK
  BY DEF Inv, NetsInv
<1>2. QED
  BY <1>1, InitInv, NextInv, PTL DEF Spec

(* When edits keep clear of imports and passes, no import and no cycle     *)
(* ever changes the zone an admin gave a network.                          *)
THEOREM ZonesAreUserAssigned ==
    ASSUME ~Overlap
    PROVE  Spec => ImportsKeepZones
<1> DEFINE Kept == \A key \in Keys :
          nets[key] # NoRow /\ nets'[key] # NoRow /\ nets'[key].zone # nets[key].zone
              => req # Idle /\ req.op = "save" /\ req.key = key
<1>1. Inv /\ [Next]_vars => [Kept]_vars
  <2> SUFFICES ASSUME Inv, Next PROVE Kept
    BY DEF vars
  <2>1. NetsInv /\ HeldZone
    BY DEF Inv, CalmInv
  <2>2. ASSUME NEW i \in Importers, Write(i) PROVE Kept
    BY <2>1, <2>2, WriteStep DEF Row
  <2>3. CASE Saved
    <3>1. req # Idle /\ req.op \in {"create", "save"}
      BY <2>3 DEF Saved
    <3>2. QED
      BY <2>1, <2>3, <3>1, SavedStep DEF Row
  <2>4. CASE Drop
    BY <2>1, <2>4, DropStep DEF Row
  <2>5. CASE nets' = nets
    BY <2>5
  <2>6. QED
    BY <2>2, <2>3, <2>4, <2>5
    DEF Next, Cycle, Admin, NothingToSync, BeginCycle, FetchFails, ImportNetworks, Lookup, LoadNetworks,
        Pass, Persist, EndCycle, AddNetwork, EditNetwork, DeleteNetwork, Submit, AddController,
        EditController, DeleteController, SaveController, RefreshNetworks, SaveGeneral, Restart,
        World, CalmDown, vars, Importers
<1>2. Spec => [][Kept]_vars
  BY <1>1, InitInv, NextInv, PTL DEF Spec
<1>3. QED
  BY <1>2 DEF ImportsKeepZones

(* When edits keep clear of imports and passes, no device is ever left on  *)
(* a network that does not exist.                                          *)
THEOREM DevicesOnKnownNetworks ==
    ASSUME ~Overlap
    PROVE  Spec => []PlacedOnKnown
<1>1. Inv => PlacedOnKnown
  BY DEF Inv, CalmInv
<1>2. QED
  BY <1>1, InitInv, NextInv, PTL DEF Spec
=============================================================================
